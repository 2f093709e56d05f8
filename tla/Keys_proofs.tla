------------------------------ MODULE Keys_proofs ------------------------------
(***************************************************************************)
(* Theorems about the key conversions for keys of any length over any      *)
(* bytes and any number of accounts: nobody pays with another key pair     *)
(* than the one sent, and the byte the conversions lose is the only one.   *)
(***************************************************************************)
EXTENDS Keys, SequenceTheorems, TLAPS

LEMMA StringsAreSequences ==
  ASSUME NEW n \in Nat, NEW s \in Strings(n)
  PROVE  s \in Seq(Byte) /\ Len(s) = n
BY DEF Strings

(* Cutting a key after its last byte but one.                              *)
LEMMA CutKey ==
  ASSUME NEW s \in Seq(Byte), Len(s) >= KeyLength - 1
  PROVE  /\ SubSeq(s, 1, KeyLength - 1) \in Strings(KeyLength - 1)
         /\ \A i \in 1..(KeyLength - 1) : SubSeq(s, 1, KeyLength - 1)[i] = s[i]
<1> DEFINE n == KeyLength - 1
           cut == SubSeq(s, 1, n)
<1>1. n \in Nat /\ 1 \in Int /\ n \in Int /\ 1 <= n /\ n - 1 + 1 = n
  BY KeyLengthAssumption
<1>2. \A i \in 1..n : s[i] \in Byte
  <2>1. Len(s) \in Nat /\ \A i \in 1..Len(s) : s[i] \in Byte
    BY LenProperties
  <2>2. n <= Len(s)
    OBVIOUS
  <2> HIDE DEF n
  <2> QED
    BY <1>1, <2>1, <2>2
<1>3. /\ cut \in Seq(Byte) /\ Len(cut) = n
      /\ \A i \in 1..n : cut[i] = s[1 + i - 1]
  <2> HIDE DEF n
  <2> QED
    BY <1>1, <1>2, SubSeqProperties
<1>4. cut \in [1..n -> Byte]
  <2> HIDE DEF cut, n
  <2> QED
    BY <1>3, LenProperties
<1>5. \A i \in 1..n : cut[i] = s[i]
  <2>1. \A i \in 1..n : 1 + i - 1 = i
    BY <1>1
  <2> HIDE DEF cut, n
  <2> QED
    BY <1>3, <2>1
<1> QED
  BY <1>4, <1>5 DEF Strings

LEMMA PubkeyCut ==
  ASSUME NEW k \in Pubkey
  PROVE  reverse_pubkey(k) \in Strings(KeyLength - 1)
<1>1. KeyLength \in Nat
  BY KeyLengthAssumption
<1>2. k \in Seq(Byte) /\ Len(k) = KeyLength
  BY <1>1, StringsAreSequences DEF Pubkey
<1> QED
  BY <1>1, <1>2, CutKey DEF reverse_pubkey

(* A generated key pair is twice as long as a public key.                  *)
LEMMA KeypairLength ==
  ASSUME NEW k \in Keypair
  PROVE  k \in Seq(Byte) /\ Len(k) = KeyLength + KeyLength /\ KeyLength \in Nat \ {0}
<1>1. PICK secret \in Pubkey, public \in Pubkey : k = secret \o public
  BY PointAssumption, PublicOfAssumption DEF Keypair
<1>2. KeyLength \in Nat \ {0}
  BY KeyLengthAssumption
<1>3. /\ secret \in Seq(Byte) /\ Len(secret) = KeyLength
      /\ public \in Seq(Byte) /\ Len(public) = KeyLength
  BY <1>2, StringsAreSequences DEF Pubkey
<1> QED
  BY <1>1, <1>2, <1>3, ConcatProperties

LEMMA KeypairCut ==
  ASSUME NEW k \in Keypair
  PROVE  reverse_keypair(k).data \in Strings(KeyLength - 1)
<1>1. k \in Seq(Byte) /\ Len(k) >= KeyLength - 1
  BY KeypairLength
<1> QED
  BY <1>1, CutKey DEF reverse_keypair, keypair_to_bytes

(* A public key that converts has the right length, and its conversion all *)
(* its bytes but the last.                                                 *)
LEMMA ConvertedPubkey ==
  ASSUME NEW n \in {KeyLength - 1, KeyLength}, NEW data \in Strings(n),
         convert_pubkey(data) # Bad
  PROVE  /\ data \in Pubkey
         /\ convert_pubkey(data) \in Pubkey
         /\ \A i \in 1..(KeyLength - 1) : convert_pubkey(data)[i] = data[i]
<1>1. KeyLength \in Nat /\ KeyLength - 1 \in Nat /\ KeyLength - 1 # KeyLength
  BY KeyLengthAssumption
<1>2. Len(data) = n
  BY <1>1, StringsAreSequences
<1>3. n = KeyLength
  BY <1>2 DEF convert_pubkey, pubkey_from_bytes
<1>4. convert_pubkey(data) = [i \in 1..KeyLength |-> IF i < KeyLength THEN data[i] ELSE 0]
  BY <1>2, <1>3 DEF convert_pubkey, pubkey_from_bytes
<1>5. data \in [1..KeyLength -> Byte]
  BY <1>3 DEF Strings
<1> QED
  BY <1>1, <1>3, <1>4, <1>5, ByteAssumption DEF Pubkey, Strings

(* What makes the invariants inductive: an account remembers the request   *)
(* that made it, and what was sent back is too short to be sent again.     *)
Faithful(a) ==
  /\ a.key \in Keypair
  /\ a.payer \in Strings(2 * KeyLength) /\ a.payer = a.charged
  /\ a.asked \in Pubkey /\ a.owner \in Pubkey
  /\ \A i \in 1..(KeyLength - 1) : a.owner[i] = a.asked[i]

KeysInv ==
  /\ \A a \in accounts : Faithful(a)
  /\ received = [pubkey |-> received.pubkey, keypair |-> received.keypair]
  /\ received.pubkey \subseteq Strings(KeyLength - 1)
  /\ \A m \in received.keypair : m.data \in Strings(KeyLength - 1)
  /\ reply \in {"none", "ok", "invalid", "internal", "cancelled"}

LEMMA KeysInit == Init => KeysInv
BY DEF Init, KeysInv

LEMMA PubkeyLengths ==
  ASSUME KeysInv, NEW data \in PubkeyArgument
  PROVE  \E n \in {KeyLength - 1, KeyLength} : data \in Strings(n)
BY DEF KeysInv, PubkeyArgument, Pubkey

(* A payer whose signature verifies was sent as it is used.                *)
LEMMA WholePayer ==
  ASSUME KeysInv, NEW payer \in KeypairArgument, convert_keypair(payer) \in Keypair
  PROVE  /\ convert_keypair(payer) \in Strings(2 * KeyLength)
         /\ convert_keypair(payer) = payer.data
<1> DEFINE p == convert_keypair(payer)
<1>1. p \in Seq(Byte) /\ Len(p) = KeyLength + KeyLength /\ KeyLength \in Nat \ {0}
  BY KeypairLength
<1>2. p \in [1..(2 * KeyLength) -> Byte]
  <2>1. KeyLength + KeyLength = 2 * KeyLength
    BY <1>1
  <2> HIDE DEF p
  <2> QED
    BY <1>1, <2>1, LenProperties
<1>3. p # Bad
  <2>1. Len(Bad) = 0
    BY DEF Bad
  <2> HIDE DEF p
  <2> QED
    BY <1>1, <2>1
<1>4. p = payer.data
  BY <1>3 DEF convert_keypair, keypair_from_bytes
<1> QED
  BY <1>2, <1>4 DEF Strings

LEMMA KeysFail ==
  ASSUME KeysInv, NEW status \in {"invalid", "internal", "cancelled"}, Fails(status)
  PROVE  KeysInv'
BY DEF Fails, Answer, KeysInv, Faithful

LEMMA KeysCreate ==
  ASSUME KeysInv, NEW owner \in PubkeyArgument, NEW payer \in KeypairArgument,
         CreateAccount(owner, payer)
  PROVE  KeysInv'
<1> DEFINE o == convert_pubkey(owner)
           p == convert_keypair(payer)
<1>1. CASE Fails("invalid") \/ Fails("internal")
  BY <1>1, KeysFail
<1>2. ASSUME o # Bad, p \in Keypair, NEW k \in Keypair,
             accounts' = accounts \cup
               {[key |-> k, owner |-> o, payer |-> p,
                 asked |-> owner, charged |-> payer.data]},
             \/ /\ Answer("ok")
                /\ received' = [received EXCEPT !.keypair = @ \cup {reverse_keypair(k)}]
             \/ Answer("internal") /\ UNCHANGED received
      PROVE  KeysInv'
  <2>1. p \in Strings(2 * KeyLength) /\ p = payer.data
    BY <1>2, WholePayer
  <2>2. /\ owner \in Pubkey /\ o \in Pubkey
        /\ \A i \in 1..(KeyLength - 1) : o[i] = owner[i]
    BY <1>2, PubkeyLengths, ConvertedPubkey
  <2> HIDE DEF o, p
  <2>3. \A a \in accounts' : Faithful(a)
    BY <1>2, <2>1, <2>2 DEF KeysInv, Faithful
  <2>4. reverse_keypair(k).data \in Strings(KeyLength - 1)
    BY KeypairCut
  <2>5. /\ received'.pubkey = received.pubkey
        /\ received'.keypair \in {received.keypair, received.keypair \cup {reverse_keypair(k)}}
        /\ received' = [pubkey |-> received'.pubkey, keypair |-> received'.keypair]
    BY <1>2 DEF KeysInv
  <2>6. reply' \in {"ok", "internal"}
    BY <1>2 DEF Answer
  <2> QED
    BY <2>3, <2>4, <2>5, <2>6 DEF KeysInv, Faithful
<1>3. \/ Fails("invalid") \/ Fails("internal")
      \/ /\ o # Bad /\ p \in Keypair
         /\ \E k \in Keypair :
              /\ accounts' = accounts \cup
                   {[key |-> k, owner |-> o, payer |-> p,
                     asked |-> owner, charged |-> payer.data]}
              /\ \/ /\ Answer("ok")
                    /\ received' = [received EXCEPT !.keypair = @ \cup {reverse_keypair(k)}]
                 \/ Answer("internal") /\ UNCHANGED received
  BY DEF CreateAccount
<1> HIDE DEF o, p
<1> QED
  BY <1>1, <1>2, <1>3

LEMMA KeysMarket ==
  ASSUME KeysInv, NEW program \in PubkeyArgument, NEW market \in PubkeyArgument,
         GetMarketPubkeys(program, market)
  PROVE  KeysInv'
<1> DEFINE m == convert_pubkey(market)
<1>1. CASE Fails("internal") \/ Fails("cancelled")
  BY <1>1, KeysFail
<1>2. ASSUME m # Bad, Answer("ok"), accounts' = accounts, NEW named \in Pubkey,
             received' = [received EXCEPT
               !.pubkey = @ \cup convert_market_pubkeys({m, named})]
      PROVE  KeysInv'
  <2>1. m \in Pubkey
    BY <1>2, PubkeyLengths, ConvertedPubkey
  <2> HIDE DEF m
  <2>2. convert_market_pubkeys({m, named}) \subseteq Strings(KeyLength - 1)
    BY <2>1, PubkeyCut DEF convert_market_pubkeys
  <2>3. /\ received'.keypair = received.keypair
        /\ received'.pubkey = received.pubkey \cup convert_market_pubkeys({m, named})
        /\ received' = [pubkey |-> received'.pubkey, keypair |-> received'.keypair]
    BY <1>2 DEF KeysInv
  <2> QED
    BY <1>2, <2>2, <2>3 DEF KeysInv, Faithful, Answer
<1> QED
  BY <1>1, <1>2 DEF GetMarketPubkeys

LEMMA KeysNext == KeysInv /\ [Next]_vars => KeysInv'
<1> SUFFICES ASSUME KeysInv, [Next]_vars PROVE KeysInv'
  OBVIOUS
<1>1. CASE NextCreate
  BY <1>1, KeysCreate DEF NextCreate
<1>2. CASE NextMarket
  BY <1>2, KeysMarket DEF NextMarket
<1>3. CASE UNCHANGED vars
  BY <1>3 DEF vars, KeysInv, Faithful
<1> QED
  BY <1>1, <1>2, <1>3 DEF Next

LEMMA KeysInvariant == Spec => []KeysInv
  BY KeysInit, KeysNext, PTL DEF Spec

(* Whatever ed25519 does, everything the daemon returns is one byte short  *)
(* of a public key, the 64 bytes of a key pair included, so that no key it *)
(* returned is ever accepted as the owner of an account.                   *)
THEOREM KeysTypeCorrect == Spec => []TypeOK
<1>1. KeysInv => TypeOK
  BY DEF KeysInv, Faithful, TypeOK
<1> QED
  BY <1>1, KeysInvariant, PTL

(* However long keys are and whatever bytes they have, a request is        *)
(* charged to the key pair it names and two owners are confused only when  *)
(* they differ in the last byte alone.                                     *)
THEOREM RequestsStayApart == Spec => []RequestsAreToldApart
<1>1. ASSUME KeysInv, NEW a \in accounts, NEW b \in accounts, a.owner = b.owner
      PROVE  SubSeq(a.asked, 1, KeyLength - 1) = SubSeq(b.asked, 1, KeyLength - 1)
  <2>1. KeyLength \in Nat /\ KeyLength - 1 \in Nat
    BY KeyLengthAssumption
  <2>2. /\ a.asked \in Seq(Byte) /\ Len(a.asked) = KeyLength
        /\ b.asked \in Seq(Byte) /\ Len(b.asked) = KeyLength
    BY <1>1, <2>1, StringsAreSequences DEF KeysInv, Faithful, Pubkey
  <2>3. \A i \in 1..(KeyLength - 1) : a.asked[i] = b.asked[i]
    BY <1>1 DEF KeysInv, Faithful
  <2> DEFINE cutA == SubSeq(a.asked, 1, KeyLength - 1)
             cutB == SubSeq(b.asked, 1, KeyLength - 1)
  <2>4. /\ cutA \in Strings(KeyLength - 1) /\ cutB \in Strings(KeyLength - 1)
        /\ \A i \in 1..(KeyLength - 1) : cutA[i] = cutB[i]
    BY <2>1, <2>2, <2>3, CutKey
  <2> HIDE DEF cutA, cutB
  <2>5. cutA = cutB
    <3>1. ASSUME NEW n \in Nat, NEW s \in Strings(n), NEW r \in Strings(n),
                 \A i \in 1..n : s[i] = r[i]
          PROVE  s = r
      BY <3>1 DEF Strings
    <3> QED
      BY <2>1, <2>4, <3>1
  <2> QED
    BY <2>5 DEF cutA, cutB
<1>2. KeysInv => RequestsAreToldApart
  BY <1>1 DEF KeysInv, Faithful, RequestsAreToldApart
<1> QED
  BY <1>2, KeysInvariant, PTL
===============================================================================
