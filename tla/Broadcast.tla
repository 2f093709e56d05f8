------------------------------- MODULE Broadcast -------------------------------
(***************************************************************************)
(* The Broadcast gRPC service of src/sol.rs: its handlers running          *)
(* concurrently over one Arc<Mutex<RpcClient>> and one                     *)
(* Arc<Mutex<TpuClient>>, with the cluster as their environment.           *)
(*                                                                         *)
(* Every request is handled once.  It may be refused for its arguments,    *)
(* and while its handler awaits something the client may go away, which    *)
(* makes the server drop the handler's future together with its guards.    *)
(***************************************************************************)
EXTENDS Arguments, TokenCalls, SendTx

CONSTANT MaxBatch      \* bound: the longest batch a client sends

ASSUME TxAssumption == Tx = Task \cup UserTx /\ Task \cap UserTx = {}
ASSUME ProcedureAssumption == Procedure \subseteq DOMAIN Handled \cup TokenProcedure
ASSUME MaxBatchAssumption == MaxBatch \in Nat

vars == <<kind, pc, reply, holder, ledger, fresh, step, own,
          batch, item, signed, inSystem, confirmedCount, late>>

Batches == UNION {[1..n -> UserTx] : n \in 0..MaxBatch}

Init ==
  /\ kind = [t \in Task |-> "none"]
  /\ pc = [t \in Task |-> "idle"]
  /\ reply = [t \in Task |-> "none"]
  /\ holder = [m \in Mutex |-> NoTask]
  /\ ledger = [x \in Tx |-> IF x \in Task THEN "unbuilt" ELSE "new"]
  /\ fresh = {}
  /\ step = [t \in Task |-> 1]
  /\ own = [t \in Task |-> t]
  /\ batch = [t \in Task |-> <<>>]
  /\ item = [t \in Task |-> 0]
  /\ signed = [t \in Task |-> {}]
  /\ inSystem = [t \in Task |-> {}]
  /\ confirmedCount = [t \in Task |-> 0]
  /\ late = [t \in Task |-> FALSE]

(* A request with a faulty field: refused before anything else happens.    *)
Reject(t, k, fault) ==
  /\ pc[t] = "idle"
  /\ fault # NoFault
  /\ kind' = [kind EXCEPT ![t] = k]
  /\ Finish(t, Rejection(k))
  /\ UNCHANGED <<ledgerVars, step, own, batchVars>>

(* A well-formed request for a token procedure, up to its first await.     *)
AcceptToken(t, k, fault) ==
  /\ pc[t] = "idle"
  /\ fault = NoFault
  /\ k \in TokenProcedure
  /\ kind' = [kind EXCEPT ![t] = k]
  /\ pc' = [pc EXCEPT ![t] = "lock"]
  /\ UNCHANGED <<reply, holder, ledgerVars, step, own, batchVars>>

(* A batch whose transactions all deserialize: the SendResults are built   *)
(* and the clock starts.                                                   *)
AcceptBatch(t, k, fault, b) ==
  /\ pc[t] = "idle"
  /\ fault = NoFault
  /\ k = "send_tx"
  /\ kind' = [kind EXCEPT ![t] = k]
  /\ batch' = [batch EXCEPT ![t] = b]
  /\ pc' = [pc EXCEPT ![t] = "head"]
  /\ UNCHANGED <<reply, holder, ledgerVars, step, own,
                 item, signed, inSystem, confirmedCount, late>>

Receive(t) ==
  \E k \in Procedure : \E fault \in Faults(k) :
    \/ Reject(t, k, fault)
    \/ AcceptToken(t, k, fault)
    \/ \E b \in Batches : AcceptBatch(t, k, fault, b)

(* The client is gone (or its deadline passed): the future is dropped at   *)
(* the await it has reached, and every guard it owns with it.              *)
Cancel(t) ==
  /\ pc[t] \in RpcWait \cup TpuWait \cup RpcCall
  /\ Finish(t, "cancelled")
  /\ UNCHANGED <<kind, ledgerVars, step, own, batchVars>>

ClusterStep ==
  /\ Cluster
  /\ UNCHANGED <<kind, pc, reply, holder, step, own, batchVars>>

TaskStep(t) ==
  \/ TokenStep(t) /\ UNCHANGED batchVars
  \/ BatchStep(t) /\ UNCHANGED <<step, own>>

Time(t) == Deadline(t) /\ UNCHANGED <<step, own>>

(* Every request has been answered: the server may idle for ever.          *)
Terminated == (\A t \in Task : pc[t] = "done") /\ UNCHANGED vars

Next ==
  \/ \E t \in Task : Receive(t) \/ Cancel(t) \/ TaskStep(t) \/ Time(t)
  \/ ClusterStep
  \/ Terminated

(* The executor polls every task that can move (an RPC always answers: the *)
(* HTTP client times out, the confirmation spinner gives up), and time     *)
(* passes.  Nothing makes clients call or leave, nor the cluster move.     *)
Fairness == \A t \in Task : WF_vars(TaskStep(t)) /\ WF_vars(Time(t))

(* Its runs, whoever is scheduled, and those in which everybody is.        *)
Safety == Init /\ [][Next]_vars
Spec == Safety /\ Fairness
-------------------------------------------------------------------------------
(* Every variable has its type: the shared mutexes have one holder or none *)
(* and the SendResults of a request speak of positions of its batch.       *)
TypeOK ==
  /\ kind \in [Task -> Procedure \cup {"none"}]
  /\ pc \in [Task -> PC]
  /\ reply \in [Task -> Reply]
  /\ holder \in [Mutex -> Task \cup {NoTask}]
  /\ ledger \in [Tx -> Stage]
  /\ fresh \in SUBSET Tx
  /\ step \in [Task -> 1..4]
  /\ own \in [Task -> Task]
  /\ batch \in [Task -> Seq(UserTx)]
  /\ item \in [Task -> Nat]
  /\ signed \in [Task -> SUBSET Nat]
  /\ inSystem \in [Task -> SUBSET Nat]
  /\ confirmedCount \in [Task -> Nat]
  /\ late \in [Task -> BOOLEAN]

(* No guard of a procedure requests may run outlives the call it was taken *)
(* for: what goes wrong in the procedures with a "rentHeld" call.          *)
NoGuardOutlivesItsCall ==
  \A k \in Procedure \cap TokenProcedure : \A i \in 1..Len(Script[k]) :
    GuardEndsWithCall(Script[k][i])

(* A guard is held exactly where the code's scopes say: the rpc guard      *)
(* while an RPC is awaited, the tpu guard from the TPU send to the end of  *)
(* the confirmation check, nothing anywhere else and by nobody who is      *)
(* gone.  It fails for a procedure with a "rentHeld" call.                 *)
GuardsMatchScopes ==
  \A t \in Task :
    /\ Holds(t, "rpc") <=> pc[t] \in RpcCall
    /\ Holds(t, "tpu") <=> pc[t] \in {"confirmLock", "confirmCall"}

WaitsFor(t, u) == \E m \in Mutex : Waits(t, m) /\ Holds(u, m)

(* Every request of D awaits a mutex that a request of D holds.            *)
WaitInRing(D) == D # {} /\ \A t \in D : \E u \in D : WaitsFor(t, u)

(* No group of requests in which everyone awaits a mutex that a member     *)
(* holds: send_tx takes rpc while it holds tpu, and nothing takes tpu      *)
(* while it holds rpc, nor a mutex it already holds.                       *)
NoDeadlock == ~ \E D \in SUBSET Task : WaitInRing(D)

(* The requests that have come, or will, to wait for the mutex they hold.  *)
Stuck(t) ==
  /\ RunsScript(t) /\ Live(t)
  /\ \E i \in 1..Len(Script[kind[t]]) : Script[kind[t]][i] = "rentHeld"

(* Where there is a deadlock, its cause is one request that waits for      *)
(* itself, over a "rentHeld" call of its own: the requests never get in    *)
(* each other's way, and when the stuck client goes the ring is gone.      *)
DeadlocksAreSelfMade ==
  \A D \in SUBSET Task :
    WaitInRing(D) => \E t \in D : Stuck(t) /\ WaitsFor(t, t)

(* The error arm "failed to get signature" of send_tx is dead: by the time *)
(* a position reaches the TPU its RPC send has left a signature there.     *)
SignatureKnownWhenPolled ==
  \A t \in Task :
    pc[t] \in {"tpuLock", "confirmLock", "confirmCall"} => item[t] \in signed[t]

(* confirmed_tx_count counts every finalized transaction once: it is the   *)
(* number of in_system positions, each of them signed and finalized.       *)
CountsFinalized ==
  \A t \in Task :
    /\ confirmedCount[t] = Cardinality(inSystem[t])
    /\ inSystem[t] \subseteq signed[t]
    /\ signed[t] \subseteq Positions(t)
    /\ \A i \in inSystem[t] : ledger[batch[t][i]] = "finalized"

(* An OK to SendTx carries a signature at every position (gen_sig_list     *)
(* never emits its empty entry), and unless time ran out every transaction *)
(* is finalized.                                                           *)
OkBatchIsBroadcast ==
  \A t \in Task : RunsBatch(t) /\ reply[t] = "ok" =>
    /\ signed[t] = Positions(t)
    /\ late[t] \/ \A i \in Positions(t) : ledger[batch[t][i]] = "finalized"

(* An OK of a token procedure tells that its transaction took effect, and  *)
(* is final where util::send_txn asked confirm_transaction.                *)
OkTokenHasLanded ==
  \A t \in Task : RunsScript(t) /\ reply[t] = "ok" =>
    /\ Landed(own[t])
    /\ CurrentCall(t) = "confirm" => ledger[own[t]] = "finalized"

(* "Invalid argument" is harmless: it is said before the request has built *)
(* a transaction, so that a corrected request repeats nothing.             *)
(* run_initialize_token_account, whose "bad key pair" stands for every     *)
(* failure, is the one exception.                                          *)
RefusalIsHarmless ==
  \A t \in Task :
    reply[t] = "invalid" /\ kind[t] # "run_initialize_token_account" =>
      ledger[own[t]] = "unbuilt"

(* "failed to mint" says that nothing was minted.                          *)
FailedMintIsNoMint ==
  [][\A t \in Task : kind[t] = "run_mint" /\ reply[t] # "internal" /\ reply'[t] = "internal"
       => ~Landed(own[t])]_vars

(* A RunMint that signs after another one was answered OK mints more: its  *)
(* transaction is another one, even if it asks for the same.  This rests   *)
(* on the confirm_transaction at the end of util::send_txn: it answers at  *)
(* a commitment by which the blockhash is no longer the latest.            *)
MintsAddUp ==
  [][\A t, u \in Task :
       (/\ kind[t] = "run_mint" /\ reply[t] = "ok"
        /\ RunsScript(u) /\ pc[u] = "call" /\ CurrentCall(u) = "hash"
        /\ pc'[u] = "lock") => own'[u] # own[t]]_vars

(* The awaits a request has ahead of it at most: to the end of its         *)
(* procedure, or to the end of the pass it is in and the answer.           *)
PlaceRank == [sendLock |-> 6, sendCall |-> 5, tpuLock |-> 4,
              confirmLock |-> 3, confirmCall |-> 2, skip |-> 2]
AwaitsLeft(t) ==
  IF pc[t] = "done" THEN 0
  ELSE IF RunsScript(t)
  THEN 2 * (Len(Script[kind[t]]) - step[t]) + (IF pc[t] = "lock" THEN 2 ELSE 1)
  ELSE IF pc[t] \in DOMAIN PlaceRank
  THEN 5 * (Len(batch[t]) - item[t]) + PlaceRank[pc[t]]
  ELSE 1

(* Handlers do not run in circles: whatever a request does leaves it fewer *)
(* awaits, unless it begins another pass, and none begins after the        *)
(* deadline.  A batch that is late ends within five steps a position.      *)
AnswersComeNearer ==
  [][\A t \in Task :
       (/\ Live(t)
        /\ <<pc'[t], step'[t], item'[t]>> # <<pc[t], step[t], item[t]>>
        /\ pc[t] = "head" => late[t])
       => AwaitsLeft(t)' \in 0..(AwaitsLeft(t) - 1)]_vars
-------------------------------------------------------------------------------
(* Every request the server took up is answered (or given up by its        *)
(* client): no handler is stuck at a mutex or polls for ever.              *)
EveryRequestAnswered ==
  \A t \in Task : Live(t) ~> reply[t] # "none"

(* The same, promised to RunGenesis by `returns (basic.Empty)`.            *)
GenesisIsAnswered ==
  \A t \in Task : kind[t] = "run_genesis" /\ Live(t) ~> reply[t] # "none"
-------------------------------------------------------------------------------
(* The promise of the service, kept by the handlers.                       *)
Promise == INSTANCE BroadcastPromise WITH
  phase <- [t \in Task |-> IF pc[t] = "idle" THEN "idle"
                           ELSE IF pc[t] = "done" THEN "closed"
                           ELSE IF late[t] THEN "overdue" ELSE "open"],
  goal <- [t \in Task |-> IF RunsScript(t) THEN {own[t]}
                          ELSE {batch[t][i] : i \in Positions(t)}],
  receipts <- [t \in Task |-> {batch[t][i] : i \in signed[t]}],
  answer <- reply

(* The handlers do no more to the cluster, and claim no more, than the     *)
(* promise allows, and they close every request.                           *)
KeepsPromise == Promise!Spec
===============================================================================
