-------------------------------- MODULE KeysMC --------------------------------
(* Keys on small instances.                                                 *)
EXTENDS Keys

(* All strings but the zeros are points; a public key is its secret read    *)
(* backwards, two secrets that may have the same one included.              *)
Zeros == [i \in 1..KeyLength |-> 0]
Ones == [i \in 1..KeyLength |-> 1]
SmallPoint == Pubkey \ {Zeros}
SmallPublicOf ==
  [secret \in Pubkey |->
     IF secret = Zeros THEN Ones ELSE [i \in 1..KeyLength |-> secret[KeyLength + 1 - i]]]
===============================================================================
