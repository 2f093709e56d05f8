--------------------------- MODULE BroadcastPromise ---------------------------
(***************************************************************************)
(* What the Broadcast service of proto/solana.proto promises, without the  *)
(* mutexes, the RPCs and the polling that src/sol.rs keeps it with.        *)
(*                                                                         *)
(* A request is about some transactions, its goal.  One the service builds *)
(* itself may turn out to be that of another request over the same         *)
(* blockhash.  While it is open it may put them to the cluster; it is then *)
(* closed by one answer.  OK tells that the goal is reached -- or, for a   *)
(* batch that took too long, that a signature was obtained for every       *)
(* transaction.  Anything else promises nothing, and a closed request does *)
(* nothing any more.                                                       *)
(***************************************************************************)
EXTENDS Ledger

CONSTANT Task          \* the requests; a token request makes the transaction
                       \* of its own name, the others come from the clients

VARIABLES phase,       \* phase[t]: idle, open, overdue or closed
          goal,        \* goal[t]: the transactions request t is about
          receipts,    \* receipts[t]: those a signature was obtained for
          answer       \* answer[t]: what the client was told

promiseVars == <<phase, goal, receipts, answer, ledger, fresh>>

Error == {"invalid", "internal", "cancelled"}
Working(t) == phase[t] \in {"open", "overdue"}

Init ==
  /\ phase = [t \in Task |-> "idle"]
  /\ goal = [t \in Task |-> {}]
  /\ receipts = [t \in Task |-> {}]
  /\ answer = [t \in Task |-> "none"]
  /\ ledger = [x \in Tx |-> IF x \in Task THEN "unbuilt" ELSE "new"]
  /\ fresh = {}

Open(t) ==
  /\ phase[t] = "idle"
  /\ phase' = [phase EXCEPT ![t] = "open"]
  /\ \E g \in {{t}} \cup SUBSET (Tx \ Task) : goal' = [goal EXCEPT ![t] = g]
  /\ UNCHANGED <<receipts, answer, ledgerVars>>

(* Refused at the door: the transactions stay untouched.                   *)
Refuse(t) ==
  /\ phase[t] = "idle"
  /\ phase' = [phase EXCEPT ![t] = "closed"]
  /\ \E g \in {{t}, {}} : goal' = [goal EXCEPT ![t] = g]
  /\ \E r \in Error : answer' = [answer EXCEPT ![t] = r]
  /\ UNCHANGED <<receipts, ledgerVars>>

(* The transaction of a token request is built, or found to exist.         *)
Build(t) ==
  /\ Working(t)
  /\ goal[t] = {t} /\ ledger[t] = "unbuilt"
  /\ \E x \in {t} \cup (fresh \cap Task) :
       /\ goal' = [goal EXCEPT ![t] = {x}]
       /\ ledger' = Built(x)
       /\ fresh' = fresh \cup {x}
  /\ UNCHANGED <<phase, receipts, answer>>

HandOver(t) ==
  /\ Working(t)
  /\ \E x \in goal[t] : ledger' = Submitted(x)
  /\ UNCHANGED <<phase, goal, receipts, answer, fresh>>

Acknowledge(t) ==
  /\ Working(t)
  /\ \E x \in goal[t] :
       /\ ledger[x] \notin {"unbuilt", "new"}
       /\ receipts' = [receipts EXCEPT ![t] = @ \cup {x}]
  /\ UNCHANGED <<phase, goal, answer, ledgerVars>>

GoOverdue(t) ==
  /\ phase[t] = "open"
  /\ phase' = [phase EXCEPT ![t] = "overdue"]
  /\ UNCHANGED <<goal, receipts, answer, ledgerVars>>

(* A client's own transaction counts once it is finalized, one the service *)
(* made once it took effect.                                               *)
Reached(x) == IF x \in Task THEN Landed(x) ELSE ledger[x] = "finalized"

Close(t) ==
  /\ Working(t)
  /\ phase' = [phase EXCEPT ![t] = "closed"]
  /\ \E r \in Error \cup {"ok"} :
       /\ r = "ok" => \/ \A x \in goal[t] : Reached(x)
                      \/ phase[t] = "overdue" /\ receipts[t] = goal[t]
       /\ answer' = [answer EXCEPT ![t] = r]
  /\ UNCHANGED <<goal, receipts, ledgerVars>>

ClusterStep == /\ Cluster
               /\ UNCHANGED <<phase, goal, receipts, answer>>

Next ==
  \/ \E t \in Task : \/ Open(t) \/ Refuse(t) \/ Build(t) \/ HandOver(t)
                     \/ Acknowledge(t) \/ GoOverdue(t) \/ Close(t)
  \/ ClusterStep

(* An open request is answered in the end.                                 *)
Spec == Init /\ [][Next]_promiseVars /\ \A t \in Task : WF_promiseVars(Close(t))
===============================================================================
