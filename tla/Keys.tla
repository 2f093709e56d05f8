--------------------------------- MODULE Keys ---------------------------------
(***************************************************************************)
(* Keys on their way through the daemon: the conversions of src/lib.rs and *)
(* src/util.rs, between a client that sends keys as bytes and gets keys    *)
(* back as bytes, and the chain.                                           *)
(*                                                                         *)
(* RunCreateAccount stands for the handlers that take a public key and a   *)
(* key pair and return a key pair, GetMarketPubkeys for those that take    *)
(* public keys and return others.                                          *)
(***************************************************************************)
EXTENDS Naturals, Sequences, FiniteSets

CONSTANTS KeyLength,   \* PUBLIC_KEY_LENGTH; 32 in the code
          Byte,        \* the bytes keys are made of, 0 among them
          Point,       \* the byte strings that are points of the curve
          PublicOf,    \* PublicOf[secret]: the public key of a secret key
          MaxAccounts  \* bound: accounts a run creates

ASSUME KeyLengthAssumption == KeyLength \in Nat \ {0, 1}
ASSUME ByteAssumption == 0 \in Byte

VARIABLES accounts,    \* the accounts created, with what was asked for
          received,    \* what the daemon returned: [pubkey, keypair |-> set]
          reply        \* the last answer

vars == <<accounts, received, reply>>

Strings(n) == [1..n -> Byte]
Pubkey == Strings(KeyLength)

(* ed25519 (external): a secret key is any bytes, its public key a point.  *)
ASSUME PointAssumption == Point \subseteq Pubkey
ASSUME PublicOfAssumption == PublicOf \in [Pubkey -> Point]

(* What Keypair::generate gives: a secret and the public key of it.        *)
Keypair == {secret \o PublicOf[secret] : secret \in Pubkey}
PublicHalf(pair) == SubSeq(pair, KeyLength + 1, 2 * KeyLength)

(* An error of a conversion.                                               *)
Bad == <<>>
-------------------------------------------------------------------------------
(* Mutant: the copy loop stops another byte short.                         *)
pubkey_from_bytes_twoShort(data) ==
  IF Len(data) # KeyLength THEN Bad
  ELSE [i \in 1..KeyLength |-> IF i + 1 < KeyLength THEN data[i] ELSE 0]

(* Mutant: the length is not looked at.                                    *)
pubkey_from_bytes_anyLength(data) ==
  [i \in 1..KeyLength |-> IF i < KeyLength /\ i \in DOMAIN data THEN data[i] ELSE 0]

(* Bytes to keys.  The copy loop stops one short: the last byte of a       *)
(* public key stays the 0 the array was initialised with.                  *)
pubkey_from_bytes(data) ==
  IF Len(data) # KeyLength THEN Bad
  ELSE [i \in 1..KeyLength |-> IF i < KeyLength THEN data[i] ELSE 0]

convert_pubkey(req) == pubkey_from_bytes(req)

(* ed25519_dalek checks the length and that the second half is a point,    *)
(* not that it is the public key of the first half.                        *)
keypair_from_bytes(data) ==
  IF Len(data) = 2 * KeyLength /\ PublicHalf(data) \in Point THEN data ELSE Bad

(* The `input` of a message is one of: nothing, a seed, a private key.     *)
convert_keypair(req) ==
  IF req.input = "private_key" THEN keypair_from_bytes(req.data) ELSE Bad

(* Keys to bytes.  Both loops stop one short of a public key's length:     *)
(* what comes out is 31 bytes long, of a key pair's 64 too.                *)
reverse_pubkey(key) == SubSeq(key, 1, KeyLength - 1)

keypair_to_bytes(key) == SubSeq(key, 1, KeyLength - 1)

reverse_keypair(key) ==
  [input |-> "private_key", data |-> keypair_to_bytes(key)]

(* The keys of a market, as a response.                                    *)
convert_market_pubkeys(keys) == {reverse_pubkey(key) : key \in keys}
-------------------------------------------------------------------------------
(* What the client can send: bytes of its own, two halves that do not      *)
(* belong together among them, and what the daemon gave it.                *)
PubkeyArgument == Pubkey \cup received.pubkey
KeypairArgument ==
  {[input |-> "private_key", data |-> k] : k \in Strings(2 * KeyLength)}
    \cup {[input |-> "seed", data |-> s] : s \in Pubkey}
    \cup {[input |-> "none", data |-> <<>>]}
    \cup received.keypair

Init ==
  /\ accounts = {}
  /\ received = [pubkey |-> {}, keypair |-> {}]
  /\ reply = "none"

Answer(status) == reply' = status
Fails(status) == Answer(status) /\ UNCHANGED <<accounts, received>>

(* RunCreateAccount: a fresh key pair becomes an account of the converted  *)
(* owner and is returned.  The cluster executes what verifies: the payer's *)
(* signature does when its halves belong together (external).  The answer  *)
(* to the send may be lost though the account was made.                    *)
CreateAccount(owner, payer) ==
  LET o == convert_pubkey(owner)
      p == convert_keypair(payer)
  IN  \/ (o = Bad \/ p = Bad) /\ Fails("invalid")
      \/ (o # Bad /\ p # Bad) /\ Fails("internal")
      \/ /\ o # Bad /\ p \in Keypair
         /\ Cardinality(accounts) < MaxAccounts
         /\ \E k \in Keypair :
              /\ \A a \in accounts : a.key # k
              /\ accounts' = accounts \cup
                   {[key |-> k, owner |-> o, payer |-> p,
                     asked |-> owner, charged |-> payer.data]}
              /\ \/ /\ Answer("ok")
                    /\ received' = [received EXCEPT !.keypair = @ \cup {reverse_keypair(k)}]
                 \/ Answer("internal") /\ UNCHANGED received

(* GetMarketPubkeys: the market of the converted id is looked up, and its  *)
(* key is returned with those its account names, one of which stands for   *)
(* all.  What fails is internal, a bad key too; a bad account may panic.   *)
GetMarketPubkeys(program, market) ==
  LET m == convert_pubkey(market)
  IN  \/ Fails("internal")
      \/ /\ convert_pubkey(program) # Bad /\ m # Bad
         /\ \/ Fails("cancelled")
            \/ /\ Answer("ok")
               /\ \E named \in Pubkey :
                    received' = [received EXCEPT
                      !.pubkey = @ \cup convert_market_pubkeys({m, named})]
               /\ UNCHANGED accounts

NextCreate ==
  \E owner \in PubkeyArgument, payer \in KeypairArgument : CreateAccount(owner, payer)
NextMarket ==
  \E program, market \in PubkeyArgument : GetMarketPubkeys(program, market)
Next == NextCreate \/ NextMarket
Spec == Init /\ [][Next]_vars
-------------------------------------------------------------------------------
(* What the daemon returned is a byte short or more and was not accepted   *)
(* again: an account was asked for with a whole owner and has one, is that *)
(* of a generated key pair and paid by something as long as a key pair.    *)
TypeOK ==
  /\ \A a \in accounts :
       /\ a.key \in Keypair /\ a.owner \in Pubkey /\ a.asked \in Pubkey
       /\ a.payer \in Strings(2 * KeyLength)
  /\ reply \in {"none", "ok", "invalid", "internal", "cancelled"}
  /\ received.pubkey \subseteq Strings(KeyLength - 1)
  /\ \A m \in received.keypair : m.data \in Strings(KeyLength - 1)

(* Nobody pays with another key pair than the one sent, and two owners are *)
(* confused only if they differ in the last byte alone.                    *)
RequestsAreToldApart ==
  /\ \A a \in accounts : a.payer = a.charged
  /\ \A a, b \in accounts : a.owner = b.owner =>
       SubSeq(a.asked, 1, KeyLength - 1) = SubSeq(b.asked, 1, KeyLength - 1)

(* The account belongs to the owner the request names: `owner_pubkey:      *)
(* Pubkey`, `basic.Pubkey owner`.                                          *)
OwnerIsKept == \A a \in accounts : a.owner = a.asked
===============================================================================
