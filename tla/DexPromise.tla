------------------------------ MODULE DexPromise ------------------------------
(***************************************************************************)
(* What the unary procedures of the Dex service in proto/serum.proto       *)
(* promise, without the mutex and the RPCs of src/serum.rs: a signing      *)
(* service.                                                                *)
(*                                                                         *)
(* A client wants the keys of a market (to have, or to follow its queue),  *)
(* a signed transaction, or a listing: a signed transaction together with  *)
(* the two vaults it names.  The service makes the vaults, one after the   *)
(* other, and signs last.  What it signed is in the client's hands only:   *)
(* the cluster sees it when the client, told OK, submits it.  "Invalid" is *)
(* said while nothing has been made; any other error may leave vaults      *)
(* behind.                                                                 *)
(***************************************************************************)
EXTENDS Ledger

CONSTANT Task          \* the requests

VARIABLES wants,       \* wants[t]: nothing yet, keys, transaction or listing
          phase,       \* phase[t]: idle, open or closed
          answer       \* answer[t]: what the client was told

promiseVars == <<wants, phase, answer, ledgerVars>>

Error == {"invalid", "internal", "cancelled"}
Vaults == {"coin", "pc"}
Own(t) == <<t, "own">>
Untouched(t) == \A p \in Vaults \cup {"own"} : ledger[<<t, p>>] = "unbuilt"
VaultsExist(t) == \A v \in Vaults : Landed(<<t, v>>)

Init ==
  /\ wants = [t \in Task |-> "nothing"]
  /\ phase = [t \in Task |-> "idle"]
  /\ answer = [t \in Task |-> "none"]
  /\ ledger = [x \in Tx |-> "unbuilt"]
  /\ fresh = {}

Open(t) ==
  /\ phase[t] = "idle"
  /\ phase' = [phase EXCEPT ![t] = "open"]
  /\ \E w \in {"keys", "transaction", "listing"} : wants' = [wants EXCEPT ![t] = w]
  /\ UNCHANGED <<answer, ledgerVars>>

(* Refused at the door, or so simple that it is answered there.            *)
CloseAtOnce(t) ==
  /\ phase[t] = "idle"
  /\ phase' = [phase EXCEPT ![t] = "closed"]
  /\ \E w \in {"keys", "transaction", "listing"}, r \in Error \cup {"ok"} :
       /\ r = "ok" => w = "keys"
       /\ wants' = [wants EXCEPT ![t] = w]
       /\ answer' = [answer EXCEPT ![t] = r]
  /\ UNCHANGED ledgerVars

(* Over the latest blockhash, or over one that was it a moment ago.        *)
Make(x) == ledger' = Built(x) /\ fresh' \in {fresh, fresh \cup {x}}

(* The pc vault is begun when the coin vault is there.                     *)
MakeVault(t, v) ==
  /\ phase[t] = "open"
  /\ wants[t] = "listing"
  /\ v = "pc" => Landed(<<t, "coin">>)
  /\ \/ ledger[<<t, v>>] = "unbuilt" /\ Make(<<t, v>>)
     \/ ledger' = Submitted(<<t, v>>) /\ UNCHANGED fresh
  /\ UNCHANGED <<wants, phase, answer>>

Sign(t) ==
  /\ wants[t] \in {"transaction", "listing"}
  /\ wants[t] = "listing" => VaultsExist(t)
  /\ ledger[Own(t)] = "unbuilt"
  /\ Make(Own(t))

SignFirst(t) ==
  /\ phase[t] = "open"
  /\ Sign(t)
  /\ UNCHANGED <<wants, phase, answer>>

Close(t) ==
  /\ phase[t] = "open"
  /\ phase' = [phase EXCEPT ![t] = "closed"]
  /\ \/ /\ Sign(t)
        /\ answer' = [answer EXCEPT ![t] = "ok"]
     \/ /\ \E r \in Error \cup {"ok"} :
             /\ r = "ok" => wants[t] = "keys" \/ ledger[Own(t)] # "unbuilt"
             /\ r = "invalid" => Untouched(t)
             /\ answer' = [answer EXCEPT ![t] = r]
        /\ UNCHANGED ledgerVars
  /\ UNCHANGED wants

ClientSubmits(t) ==
  /\ answer[t] = "ok"
  /\ ledger' = Submitted(Own(t))
  /\ UNCHANGED <<wants, phase, answer, fresh>>

ClusterStep == Cluster /\ UNCHANGED <<wants, phase, answer>>

Next ==
  \/ \E t \in Task : \/ Open(t) \/ CloseAtOnce(t)
                     \/ \E v \in Vaults : MakeVault(t, v)
                     \/ SignFirst(t) \/ Close(t) \/ ClientSubmits(t)
  \/ ClusterStep

(* An open request is answered in the end.                                 *)
Spec == Init /\ [][Next]_promiseVars /\ \A t \in Task : WF_promiseVars(Close(t))
===============================================================================
