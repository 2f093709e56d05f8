--------------------------- MODULE Broadcast_proofs ---------------------------
(***************************************************************************)
(* Theorems about the Broadcast service for any number of requests, any    *)
(* user transactions and batches of any length: types, guards, deadlock,   *)
(* and what the answers of the token procedures mean.                      *)
(***************************************************************************)
EXTENDS Broadcast, TLAPS

(* Every procedure makes between two and four calls.                       *)
LEMMA ScriptLengths ==
  \A k \in TokenProcedure : Len(Script[k]) \in 2..4
<1>1. /\ Len(initialize_token_account) = 4
      /\ Len(mint_to_existing_account) = 3
      /\ Len(create_account) = 3
      /\ Len(create_account_rent_exempt) = 3
      /\ Len(create_token_account) = 3
      /\ Len(create_and_init_mint) = 3
      /\ Len(mint_to_new_account) = 3
      /\ Len(transfer) = 2
  BY DEF initialize_token_account, mint_to_existing_account, create_account,
         create_account_rent_exempt, create_token_account,
         create_and_init_mint, mint_to_new_account, transfer
<1> QED
  BY <1>1 DEF TokenProcedure, Script

LEMMA NextPosition ==
  ASSUME NEW len \in 2..4, NEW n \in 1..len
  PROVE  /\ 1 \in 1..len
         /\ n # len => n + 1 \in 1..len /\ n + 1 \in 1..4
OBVIOUS

(* A request that has not arrived has made no call, and one that runs a    *)
(* procedure is at one of its calls.                                       *)
StepInScript ==
  \A t \in Task :
    /\ pc[t] = "idle" => step[t] = 1
    /\ RunsScript(t) => step[t] \in 1..Len(Script[kind[t]])

TypeInv == TypeOK /\ StepInScript

LEMMA TypeInit == Init => TypeInv
  BY NoTaskAssumption
  DEF Init, TypeInv, TypeOK, StepInScript, RunsScript, TokenProcedure, Script,
      PC, RpcWait, TpuWait, RpcCall, Reply, Stage, Mutex

(* What each way to change the shared variables does to their types.       *)
LEMMA FinishType ==
  ASSUME TypeOK, NEW t \in Task, NEW r \in Reply, Finish(t, r)
  PROVE  /\ pc' \in [Task -> PC] /\ pc'[t] = "done"
         /\ reply' \in [Task -> Reply]
         /\ holder' \in [Mutex -> Task \cup {NoTask}]
BY DEF TypeOK, Finish, Dropped, PC

LEMMA DroppedType ==
  ASSUME TypeOK, NEW t \in Task, NEW ms \in SUBSET Mutex
  PROVE  Dropped(t, ms) \in [Mutex -> Task \cup {NoTask}]
BY DEF TypeOK, Dropped

LEMMA TakeType ==
  ASSUME TypeOK, NEW t \in Task, NEW m \in Mutex, NEW next \in PC, Take(t, m, next)
  PROVE  /\ pc' \in [Task -> PC] /\ pc'[t] = next
         /\ holder' \in [Mutex -> Task \cup {NoTask}]
BY DEF TypeOK, Take

LEMMA LedgerType ==
  ASSUME TypeOK, NEW x
  PROVE  Built(x) \in [Tx -> Stage] /\ Submitted(x) \in [Tx -> Stage]
BY DEF TypeOK, Built, Submitted, Stage

(* A request builds its own transaction or that of another request.        *)
LEMMA AnsweredType ==
  ASSUME TypeOK, NEW t \in Task, Answered(t)
  PROVE  /\ ledger' \in [Tx -> Stage]
         /\ fresh' \in SUBSET Tx
         /\ own' \in [Task -> Task]
<1>1. CASE BuildOwn(t)
  <2>1. PICK x \in Outcomes(t) : /\ own' = [own EXCEPT ![t] = x]
                                 /\ ledger' = Built(x)
                                 /\ fresh' = fresh \cup {x}
    BY <1>1 DEF BuildOwn
  <2>2. x \in Task /\ x \in Tx
    BY TxAssumption DEF Outcomes, TypeOK
  <2> QED
    BY <2>1, <2>2, LedgerType DEF TypeOK
<1>2. CASE UNCHANGED <<ledgerVars, own>>
  BY <1>2 DEF ledgerVars, TypeOK
<1> QED
  BY <1>1, <1>2 DEF Answered

LEMMA MoveToType ==
  ASSUME TypeOK, NEW t \in Task, NEW i \in Nat, NEW d, MoveTo(t, i, d)
  PROVE  /\ pc' \in [Task -> PC]
         /\ pc'[t] \in {"head", "sendLock", "tpuLock", "skip"}
         /\ item' \in [Task -> Nat]
BY DEF TypeOK, MoveTo, StopAt, PC, RpcWait, TpuWait, Positions

(* The requests named by an action are the only ones it moves.             *)
LEMMA OthersKeepStep ==
  ASSUME TypeInv, NEW t \in Task,
         TypeOK', \A u \in Task \ {t} : pc'[u] = pc[u] /\ kind'[u] = kind[u] /\ step'[u] = step[u],
         pc'[t] # "idle", RunsScript(t)' => step'[t] \in 1..Len(Script[kind'[t]])
  PROVE  StepInScript'
BY DEF TypeInv, StepInScript, RunsScript

LEMMA TypeReceive ==
  ASSUME TypeInv, NEW t \in Task, Receive(t)
  PROVE  TypeInv'
<1>1. PICK k \in Procedure : \E fault \in Faults(k) :
         Reject(t, k, fault) \/ AcceptToken(t, k, fault)
           \/ \E b \in Batches : AcceptBatch(t, k, fault, b)
  BY DEF Receive
<1>2. PICK fault \in Faults(k) :
         Reject(t, k, fault) \/ AcceptToken(t, k, fault)
           \/ \E b \in Batches : AcceptBatch(t, k, fault, b)
  BY <1>1
<1>3. \A j \in TokenProcedure : 1 \in 1..Len(Script[j])
  BY ScriptLengths, NextPosition
<1>4. pc[t] = "idle" /\ step[t] = 1
  BY <1>2 DEF Reject, AcceptToken, AcceptBatch, TypeInv, StepInScript
<1>5. CASE Reject(t, k, fault)
  <2>1. Rejection(k) \in Reply
    BY DEF Rejection, Reply
  <2>2. TypeOK'
    BY <1>5, <2>1, FinishType DEF TypeInv, TypeOK, ledgerVars, Reject, batchVars
  <2> QED
    BY <1>3, <1>4, <1>5, <2>1, <2>2, FinishType, OthersKeepStep
    DEF TypeInv, TypeOK, Reject, Finish, RunsScript
<1>6. CASE AcceptToken(t, k, fault)
  <2>1. TypeOK'
    BY <1>6 DEF TypeInv, TypeOK, ledgerVars, AcceptToken, batchVars, PC, RpcWait
  <2> QED
    BY <1>3, <1>4, <1>6, <2>1, OthersKeepStep DEF TypeInv, TypeOK, AcceptToken, RunsScript
<1>7. CASE \E b \in Batches : AcceptBatch(t, k, fault, b)
  <2>1. PICK b \in Batches : AcceptBatch(t, k, fault, b)
    BY <1>7
  <2>2. b \in Seq(UserTx)
    BY DEF Batches
  <2>3. TypeOK'
    BY <2>1, <2>2 DEF TypeInv, TypeOK, ledgerVars, AcceptBatch, PC
  <2> QED
    BY <1>3, <1>4, <2>1, <2>3, OthersKeepStep DEF TypeInv, TypeOK, AcceptBatch, RunsScript
<1> QED
  BY <1>2, <1>5, <1>6, <1>7

LEMMA TypeToken ==
  ASSUME TypeInv, NEW t \in Task, TokenStep(t), UNCHANGED batchVars
  PROVE  TypeInv'
<1>1. "rpc" \in Mutex /\ "call" \in PC /\ {"rpc"} \in SUBSET Mutex
  BY DEF Mutex, PC, RpcCall
<1>2. CASE TokenLock(t)
  <2>1. TypeOK'
    BY <1>1, <1>2, TakeType, LedgerType DEF TypeInv, TypeOK, TokenLock, batchVars
  <2> QED
    BY <1>1, <1>2, <2>1, TakeType, OthersKeepStep
    DEF TypeInv, TypeOK, StepInScript, TokenLock, Take, RunsScript
<1>3. CASE TokenSucceed(t)
  <2>1. "ok" \in Reply
    BY DEF Reply
  <2>2. TypeOK'
    BY <1>3, <2>1, FinishType, AnsweredType
    DEF TypeInv, TypeOK, TokenSucceed, Answered, batchVars
  <2> QED
    BY <1>1, <1>3, <2>1, <2>2, FinishType, OthersKeepStep
    DEF TypeInv, TypeOK, StepInScript, TokenSucceed, Answered, Finish, RunsScript
<1>4. CASE TokenReturn(t)
  <2>1. Len(Script[kind[t]]) \in 2..4 /\ step[t] \in 1..Len(Script[kind[t]])
    BY <1>4, ScriptLengths DEF TypeInv, StepInScript, TokenReturn, Answered, RunsScript
  <2>2. step[t] # Len(Script[kind[t]])
    BY <1>4 DEF TokenReturn, LastCall
  <2>3. /\ step[t] + 1 \in 1..Len(Script[kind[t]])
        /\ step[t] + 1 \in 1..4
    BY <2>1, <2>2, NextPosition
  <2>4. pc' \in [Task -> PC] /\ step' \in [Task -> 1..4]
    BY <1>4, <2>3 DEF TypeInv, TypeOK, TokenReturn, PC, RpcWait
  <2>5. holder' \in [Mutex -> Task \cup {NoTask}]
    BY <1>1, <1>4, DroppedType DEF TypeInv, TypeOK, TokenReturn
  <2>6. TypeOK'
    BY <1>4, <2>4, <2>5, AnsweredType DEF TypeInv, TypeOK, TokenReturn, Answered, batchVars
  <2> QED
    <3>1. kind' = kind /\ RunsScript(t)
      BY <1>4 DEF TokenReturn, Answered
    <3>2. pc' = [pc EXCEPT ![t] = "lock"] /\ step' = [step EXCEPT ![t] = @ + 1]
      BY <1>4 DEF TokenReturn
    <3> QED
      BY <2>3, <2>6, <3>1, <3>2, OthersKeepStep DEF TypeInv, TypeOK, RunsScript
<1>5. CASE TokenFail(t)
  <2>1. FailureStatus(kind[t]) \in Reply
    BY DEF FailureStatus, Reply
  <2>2. TypeOK'
    BY <1>5, <2>1, FinishType DEF TypeInv, TypeOK, ledgerVars, TokenFail, batchVars
  <2> QED
    BY <1>5, <2>1, <2>2, FinishType, OthersKeepStep
    DEF TypeInv, TypeOK, StepInScript, TokenFail, Finish, RunsScript
<1> QED
  BY <1>2, <1>3, <1>4, <1>5 DEF TokenStep

LEMMA TypeBatch ==
  ASSUME TypeInv, NEW t \in Task, BatchStep(t), UNCHANGED <<step, own>>
  PROVE  TypeInv'
<1>1. /\ {"rpc", "tpu"} \subseteq Mutex
      /\ {"sendCall", "confirmLock", "confirmCall", "tpuLock", "done",
          "head", "sendLock", "skip"} \subseteq PC \ {"idle"}
      /\ {"ok", "internal"} \subseteq Reply
      /\ item[t] \in Nat /\ item[t] + 1 \in Nat /\ 1 \in Nat
      /\ confirmedCount[t] + 1 \in Nat
  BY DEF TypeInv, TypeOK, Mutex, PC, RpcWait, TpuWait, RpcCall, Reply
<1>2. CASE BatchPass(t) \/ BatchSkip(t)
  <2>1. /\ pc' \in [Task -> PC] /\ item' \in [Task -> Nat]
        /\ pc'[t] # "idle"
    BY <1>1, <1>2, MoveToType DEF BatchPass, BatchSkip, TypeInv
  <2>2. TypeOK'
    BY <1>2, <2>1 DEF TypeInv, TypeOK, ledgerVars, BatchPass, BatchSkip
  <2> QED
    BY <1>2, <2>1, <2>2, OthersKeepStep
    DEF TypeInv, TypeOK, StepInScript, BatchPass, BatchSkip, MoveTo, RunsScript
<1>3. CASE BatchReply(t) \/ BatchFail(t)
  <2>1. PICK r \in Reply : Finish(t, r)
    BY <1>1, <1>3 DEF BatchReply, BatchFail
  <2>2. TypeOK'
    BY <1>3, <2>1, FinishType DEF TypeInv, TypeOK, ledgerVars, BatchReply, BatchFail, batchVars
  <2> QED
    BY <1>3, <2>1, <2>2, FinishType, OthersKeepStep
    DEF TypeInv, TypeOK, StepInScript, BatchReply, BatchFail, Finish, RunsScript
<1>4. CASE SendLock(t) \/ TpuSend(t) \/ ConfirmLock(t)
  <2>1. PICK m \in Mutex, next \in PC \ {"idle"} : Take(t, m, next)
    BY <1>1, <1>4 DEF SendLock, TpuSend, ConfirmLock
  <2>2. ledger' \in [Tx -> Stage]
    BY <1>4, LedgerType DEF SendLock, TpuSend, ConfirmLock, TypeInv, TypeOK, ledgerVars
  <2>3. TypeOK'
    BY <1>4, <2>1, <2>2, TakeType
    DEF TypeInv, TypeOK, SendLock, TpuSend, ConfirmLock, ledgerVars, batchVars
  <2> QED
    <3>1. kind' = kind /\ step' = step
      BY <1>4 DEF SendLock, TpuSend, ConfirmLock
    <3>2. pc' = [pc EXCEPT ![t] = next]
      BY <2>1 DEF Take
    <3> QED
      BY <2>3, <3>1, <3>2, OthersKeepStep DEF TypeInv, TypeOK, StepInScript, RunsScript
<1>5. CASE SendReturn(t)
  <2>1. holder' \in [Mutex -> Task \cup {NoTask}]
    BY <1>1, <1>5, DroppedType DEF SendReturn, TypeInv
  <2>2. TypeOK'
    BY <1>1, <1>5, <2>1 DEF TypeInv, TypeOK, ledgerVars, SendReturn
  <2> QED
    BY <1>1, <1>5, <2>2, OthersKeepStep
    DEF TypeInv, TypeOK, StepInScript, SendReturn, RunsScript
<1>6. CASE ConfirmReturn(t)
  <2>1. holder' \in [Mutex -> Task \cup {NoTask}]
    BY <1>1, <1>6, DroppedType DEF ConfirmReturn, TypeInv
  <2>2. PICK d : MoveTo(t, item[t] + 1, d)
    BY <1>6 DEF ConfirmReturn
  <2>3. /\ pc' \in [Task -> PC] /\ item' \in [Task -> Nat]
        /\ pc'[t] # "idle"
    BY <1>1, <2>2, MoveToType DEF TypeInv
  <2>4. inSystem' \in [Task -> SUBSET Nat] /\ confirmedCount' \in [Task -> Nat]
    BY <1>1, <1>6 DEF ConfirmReturn, TypeInv, TypeOK
  <2>5. TypeOK'
    BY <1>6, <2>1, <2>3, <2>4 DEF TypeInv, TypeOK, ledgerVars, ConfirmReturn
  <2> QED
    BY <1>6, <2>2, <2>3, <2>5, OthersKeepStep
    DEF TypeInv, TypeOK, StepInScript, ConfirmReturn, MoveTo, RunsScript
<1> QED
  BY <1>2, <1>3, <1>4, <1>5, <1>6 DEF BatchStep

LEMMA TypeNext == TypeInv /\ [Next]_vars => TypeInv'
<1> SUFFICES ASSUME TypeInv, [Next]_vars PROVE TypeInv'
  OBVIOUS
<1>1. ASSUME NEW t \in Task, Receive(t) PROVE TypeInv'
  BY <1>1, TypeReceive
<1>2. ASSUME NEW t \in Task, Cancel(t) PROVE TypeInv'
  <2>1. "cancelled" \in Reply
    BY DEF Reply
  <2>2. TypeOK'
    BY <1>2, <2>1, FinishType DEF TypeInv, TypeOK, ledgerVars, Cancel, batchVars
  <2> QED
    BY <1>2, <2>1, <2>2, FinishType, OthersKeepStep
    DEF TypeInv, TypeOK, StepInScript, Cancel, Finish, RunsScript
<1>3. ASSUME NEW t \in Task, TaskStep(t) PROVE TypeInv'
  BY <1>3, TypeToken, TypeBatch DEF TaskStep
<1>4. ASSUME NEW t \in Task, Time(t) PROVE TypeInv'
  BY <1>4 DEF TypeInv, TypeOK, ledgerVars, StepInScript, Time, Deadline, RunsScript
<1>5. ASSUME ClusterStep PROVE TypeInv'
  <2>1. ledger' \in [Tx -> Stage] /\ fresh' \in SUBSET Tx
    BY <1>5 DEF ClusterStep, Cluster, Confirm, Finalize, Expire, NextBlockhash,
                TypeInv, TypeOK, Stage
  <2> QED
    BY <1>5, <2>1 DEF TypeInv, TypeOK, ledgerVars, StepInScript, ClusterStep, RunsScript, batchVars
<1>6. ASSUME UNCHANGED vars PROVE TypeInv'
  BY <1>6 DEF TypeInv, TypeOK, StepInScript, RunsScript, vars
<1> QED
  BY <1>1, <1>2, <1>3, <1>4, <1>5, <1>6 DEF Next, Terminated

(* Type correctness of the service of src/sol.rs: whatever the requests    *)
(* and however their handlers interleave, every mutex has one holder or    *)
(* none and every request stays within its own procedure.                  *)
THEOREM TypeCorrect == Safety => []TypeOK
<1>1. TypeInv => TypeOK
  BY DEF TypeInv
<1> QED
  BY <1>1, TypeInit, TypeNext, PTL DEF Safety
-------------------------------------------------------------------------------
(* The guards.  A mutex is taken only where the waiting program counter    *)
(* moves into the scope of its guard, and given back where it leaves that  *)
(* scope -- except by a request with a "rentHeld" call, which may keep rpc *)
(* when it asks for it again.                                              *)
GuardsInScope ==
  \A t \in Task :
    /\ pc[t] \in RpcCall => Holds(t, "rpc")
    /\ Holds(t, "rpc") => pc[t] \in RpcCall \/ (pc[t] = "lock" /\ Stuck(t))
    /\ Holds(t, "tpu") <=> pc[t] \in {"confirmLock", "confirmCall"}

GuardInv == TypeInv /\ GuardsInScope

LEMMA GuardInit == Init => GuardsInScope
  BY NoTaskAssumption DEF Init, GuardsInScope, Holds, Mutex, RpcCall

LEMMA SameStuck ==
  ASSUME NEW u \in Task, kind'[u] = kind[u], pc'[u] = pc[u]
  PROVE  Stuck(u)' = Stuck(u)
BY DEF Stuck, RunsScript, Live

(* Nobody but t changes what it is or where it waits.                      *)
OnlyMoves(t) == \A u \in Task \ {t} : kind'[u] = kind[u] /\ pc'[u] = pc[u]

LEMMA GuardFinish ==
  ASSUME GuardInv, NEW t \in Task, NEW r, Finish(t, r), OnlyMoves(t)
  PROVE  GuardsInScope'
<1>1. \A u \in Task \ {t} : Stuck(u)' = Stuck(u)
  BY SameStuck DEF OnlyMoves
<1> QED
  BY <1>1, NoTaskAssumption
  DEF GuardInv, TypeInv, TypeOK, GuardsInScope, Holds, Finish, Dropped, Mutex, RpcCall

LEMMA GuardTake ==
  ASSUME GuardInv, NEW t \in Task, NEW m \in Mutex, NEW next, Take(t, m, next),
         kind' = kind,
         \/ m = "rpc" /\ pc[t] = "lock" /\ next = "call"
         \/ m = "rpc" /\ pc[t] = "sendLock" /\ next = "sendCall"
         \/ m = "rpc" /\ pc[t] = "confirmLock" /\ next = "confirmCall"
         \/ m = "tpu" /\ pc[t] = "tpuLock" /\ next = "confirmLock"
  PROVE  GuardsInScope'
<1>1. \A u \in Task \ {t} : Stuck(u)' = Stuck(u)
  BY SameStuck DEF GuardInv, TypeInv, TypeOK, Take
<1> QED
  BY <1>1, NoTaskAssumption
  DEF GuardInv, TypeInv, TypeOK, GuardsInScope, Holds, Take, Mutex, RpcCall

(* A step that moves only the program counter, from where no guard is      *)
(* held.                                                                   *)
NoGuardAt == {"idle", "head", "skip", "lock", "sendLock", "tpuLock", "done"}

LEMMA GuardMove ==
  ASSUME GuardInv, NEW t \in Task, NEW p \in NoGuardAt, OnlyMoves(t),
         pc[t] \in {"idle", "head", "skip"}, pc' = [pc EXCEPT ![t] = p], holder' = holder
  PROVE  GuardsInScope'
<1>1. \A u \in Task \ {t} : Stuck(u)' = Stuck(u)
  BY SameStuck DEF OnlyMoves
<1> QED
  BY <1>1, NoTaskAssumption
  DEF GuardInv, TypeInv, TypeOK, GuardsInScope, Holds, NoGuardAt, Mutex, RpcCall

(* A call has been answered and the guards it was made under end.          *)
LEMMA GuardReturn ==
  ASSUME GuardInv, NEW t \in Task, NEW p \in NoGuardAt, NEW ms \in SUBSET Mutex,
         kind' = kind, pc' = [pc EXCEPT ![t] = p], holder' = Dropped(t, ms),
         \/ pc[t] \in {"call", "sendCall"} /\ ms = {"rpc"}
         \/ pc[t] = "confirmCall" /\ ms = {"rpc", "tpu"}
  PROVE  GuardsInScope'
<1>1. \A u \in Task \ {t} : Stuck(u)' = Stuck(u)
  BY SameStuck DEF GuardInv, TypeInv, TypeOK
<1> QED
  BY <1>1, NoTaskAssumption
  DEF GuardInv, TypeInv, TypeOK, GuardsInScope, Holds, Dropped, NoGuardAt, Mutex, RpcCall

(* A call has been answered and its guard lives on.                        *)
LEMMA GuardKept ==
  ASSUME GuardInv, NEW t \in Task, kind' = kind, holder' = holder,
         pc[t] = "call", pc' = [pc EXCEPT ![t] = "lock"],
         RunsScript(t), CurrentCall(t) = "rentHeld"
  PROVE  GuardsInScope'
<1>1. \A u \in Task \ {t} : Stuck(u)' = Stuck(u)
  BY SameStuck DEF GuardInv, TypeInv, TypeOK
<1>2. Stuck(t)'
  <2>1. step[t] \in 1..Len(Script[kind[t]])
    BY DEF GuardInv, TypeInv, StepInScript
  <2> QED
    BY <2>1 DEF GuardInv, TypeInv, TypeOK, Stuck, RunsScript, Live, CurrentCall
<1> QED
  BY <1>1, <1>2, NoTaskAssumption
  DEF GuardInv, TypeInv, TypeOK, GuardsInScope, Holds, Mutex, RpcCall

LEMMA StopAtNoGuard ==
  ASSUME NEW t, NEW i, NEW d
  PROVE  StopAt(t, i, d) \in NoGuardAt
BY DEF StopAt, NoGuardAt

LEMMA GuardNext == GuardInv /\ [Next]_vars => GuardsInScope'
<1> SUFFICES ASSUME GuardInv, [Next]_vars PROVE GuardsInScope'
  OBVIOUS
<1>1. ASSUME NEW t \in Task, Receive(t) PROVE GuardsInScope'
  <2>1. PICK k \in Procedure : \E fault \in Faults(k) :
           Reject(t, k, fault) \/ AcceptToken(t, k, fault)
             \/ \E b \in Batches : AcceptBatch(t, k, fault, b)
    BY <1>1 DEF Receive
  <2>2. PICK fault \in Faults(k) :
           Reject(t, k, fault) \/ AcceptToken(t, k, fault)
             \/ \E b \in Batches : AcceptBatch(t, k, fault, b)
    BY <2>1
  <2>3. CASE Reject(t, k, fault)
    <3>1. OnlyMoves(t)
      BY <2>3 DEF Reject, Finish, OnlyMoves, GuardInv, TypeInv, TypeOK
    <3> QED
      BY <2>3, <3>1, GuardFinish DEF Reject
  <2>4. CASE AcceptToken(t, k, fault)
    <3>1. OnlyMoves(t)
      BY <2>4 DEF AcceptToken, OnlyMoves, GuardInv, TypeInv, TypeOK
    <3> QED
      BY <2>4, <3>1, GuardMove DEF AcceptToken, NoGuardAt
  <2>5. CASE \E b \in Batches : AcceptBatch(t, k, fault, b)
    <3>1. OnlyMoves(t)
      BY <2>5 DEF AcceptBatch, OnlyMoves, GuardInv, TypeInv, TypeOK
    <3> QED
      BY <2>5, <3>1, GuardMove DEF AcceptBatch, NoGuardAt
  <2> QED
    BY <2>2, <2>3, <2>4, <2>5
<1>2. ASSUME NEW t \in Task, NEW r, Finish(t, r), kind' = kind PROVE GuardsInScope'
  <2>1. OnlyMoves(t)
    BY <1>2 DEF Finish, OnlyMoves, GuardInv, TypeInv, TypeOK
  <2> QED
    BY <1>2, <2>1, GuardFinish
<1>3. ASSUME NEW t \in Task, TokenStep(t) PROVE GuardsInScope'
  <2>1. CASE TokenLock(t)
    BY <2>1, GuardTake DEF TokenLock, Mutex
  <2>2. CASE TokenReturn(t)
    <3>1. /\ kind' = kind /\ RunsScript(t)
          /\ pc[t] = "call" /\ pc' = [pc EXCEPT ![t] = "lock"]
          /\ holder' = IF GuardEndsWithCall(CurrentCall(t))
                       THEN Dropped(t, {"rpc"}) ELSE holder
      BY <2>2 DEF TokenReturn, Answered
    <3>2. CASE GuardEndsWithCall(CurrentCall(t))
      BY <3>1, <3>2, GuardReturn DEF NoGuardAt, Mutex
    <3>3. CASE ~GuardEndsWithCall(CurrentCall(t))
      BY <3>1, <3>3, GuardKept DEF GuardEndsWithCall
    <3> QED
      BY <3>2, <3>3
  <2>3. CASE TokenSucceed(t) \/ TokenFail(t)
    BY <1>2, <2>3 DEF TokenSucceed, TokenFail, Answered
  <2> QED
    BY <1>3, <2>1, <2>2, <2>3 DEF TokenStep
<1>4. ASSUME NEW t \in Task, BatchStep(t) PROVE GuardsInScope'
  <2>1. CASE BatchPass(t) \/ BatchSkip(t)
    <3>1. PICK p \in NoGuardAt : pc' = [pc EXCEPT ![t] = p]
      BY <2>1, StopAtNoGuard DEF BatchPass, BatchSkip, MoveTo
    <3>2. OnlyMoves(t)
      BY <2>1, <3>1 DEF BatchPass, BatchSkip, OnlyMoves, GuardInv, TypeInv, TypeOK
    <3> QED
      BY <2>1, <3>1, <3>2, GuardMove DEF BatchPass, BatchSkip
  <2>2. CASE BatchReply(t) \/ BatchFail(t)
    BY <1>2, <2>2 DEF BatchReply, BatchFail
  <2>3. CASE SendLock(t) \/ TpuSend(t) \/ ConfirmLock(t)
    BY <2>3, GuardTake DEF SendLock, TpuSend, ConfirmLock, Mutex
  <2>4. CASE SendReturn(t)
    BY <2>4, GuardReturn DEF SendReturn, NoGuardAt, Mutex
  <2>5. CASE ConfirmReturn(t)
    <3>1. PICK p \in NoGuardAt : pc' = [pc EXCEPT ![t] = p]
      BY <2>5, StopAtNoGuard DEF ConfirmReturn, MoveTo
    <3> QED
      BY <2>5, <3>1, GuardReturn DEF ConfirmReturn, Mutex
  <2> QED
    BY <1>4, <2>1, <2>2, <2>3, <2>4, <2>5 DEF BatchStep
<1>5. ASSUME kind' = kind, pc' = pc, holder' = holder PROVE GuardsInScope'
  <2>1. \A u \in Task : Stuck(u)' = Stuck(u)
    BY <1>5, SameStuck
  <2> QED
    BY <1>5, <2>1 DEF GuardInv, GuardsInScope, Holds
<1>6. ASSUME NEW t \in Task, Cancel(t) PROVE GuardsInScope'
  BY <1>2, <1>6 DEF Cancel
<1> QED
  BY <1>1, <1>3, <1>4, <1>5, <1>6
  DEF Next, TaskStep, Time, Deadline, ClusterStep, Terminated, vars

LEMMA GuardInvariant == Safety => []GuardInv
<1>1. Init => GuardInv
  BY TypeInit, GuardInit DEF GuardInv
<1>2. GuardInv /\ [Next]_vars => GuardInv'
  BY TypeNext, GuardNext DEF GuardInv
<1> QED
  BY <1>1, <1>2, PTL DEF Safety

(* A ring of waiting requests contains the one that holds rpc: who waits   *)
(* for tpu waits for somebody who waits for rpc.  That one waits itself,   *)
(* for rpc and so for itself.                                              *)
LEMMA RingsAreSelfMade == GuardInv => DeadlocksAreSelfMade
<1> SUFFICES ASSUME GuardInv, NEW D \in SUBSET Task, WaitInRing(D)
             PROVE  \E t \in D : Stuck(t) /\ WaitsFor(t, t)
  BY DEF DeadlocksAreSelfMade
<1>1. ASSUME NEW u \in D, Holds(u, "rpc") PROVE Stuck(u) /\ WaitsFor(u, u)
  <2>1. PICK v \in D : WaitsFor(u, v)
    BY DEF WaitInRing
  <2>2. pc[u] \notin RpcCall
    BY <2>1 DEF WaitsFor, Waits, RpcCall, RpcWait, TpuWait
  <2>3. pc[u] = "lock" /\ Stuck(u)
    BY <1>1, <2>2 DEF GuardInv, GuardsInScope
  <2> QED
    BY <1>1, <2>3 DEF WaitsFor, Waits, RpcWait, Mutex
<1>2. ASSUME NEW u \in D, Holds(u, "tpu") PROVE \E v \in D : Holds(v, "rpc")
  <2>1. pc[u] \in {"confirmLock", "confirmCall"}
    BY <1>2 DEF GuardInv, GuardsInScope
  <2>2. PICK v \in D : WaitsFor(u, v)
    BY DEF WaitInRing
  <2> QED
    BY <2>1, <2>2 DEF WaitsFor, Waits, Mutex, RpcWait, TpuWait
<1>3. PICK t \in D, u \in D : WaitsFor(t, u)
  BY DEF WaitInRing
<1>4. Holds(u, "rpc") \/ Holds(u, "tpu")
  BY <1>3 DEF WaitsFor, Mutex
<1> QED
  BY <1>1, <1>2, <1>4

(* Whatever the requests, RunGenesis included: where requests block one    *)
(* another for good, one of them blocks itself.                            *)
THEOREM OnlySelfMadeDeadlocks == Safety => []DeadlocksAreSelfMade
  BY GuardInvariant, RingsAreSelfMade, PTL

(* No procedure keeps its guard: nobody gets stuck.                        *)
LEMMA NobodyStuck ==
  ASSUME NoGuardOutlivesItsCall, GuardInv, NEW t \in Task
  PROVE  ~Stuck(t)
<1>1. RunsScript(t) => kind[t] \in Procedure \cap TokenProcedure
  BY DEF RunsScript, GuardInv, TypeInv, TypeOK, TokenProcedure, Script
<1> QED
  BY <1>1 DEF Stuck, NoGuardOutlivesItsCall, GuardEndsWithCall

(* As long as no procedure keeps a guard beyond its call, guards follow    *)
(* their scopes: nobody who waits for rpc holds it, and nobody who is gone *)
(* holds anything.                                                         *)
THEOREM GuardsFollowScopes ==
  ASSUME NoGuardOutlivesItsCall
  PROVE  Safety => []GuardsMatchScopes
<1>1. GuardInv => GuardsMatchScopes
  BY NobodyStuck DEF GuardInv, GuardsInScope, GuardsMatchScopes
<1> QED
  BY <1>1, GuardInvariant, PTL

(* The Broadcast service cannot deadlock on its mutexes, for any number of *)
(* concurrent requests: send_tx nests rpc inside tpu and nothing nests     *)
(* them the other way.  RunGenesis is outside the theorem's assumption.    *)
THEOREM DeadlockFreedom ==
  ASSUME NoGuardOutlivesItsCall
  PROVE  Safety => []NoDeadlock
<1>1. GuardInv => NoDeadlock
  <2> SUFFICES ASSUME GuardInv, NEW D \in SUBSET Task, WaitInRing(D) PROVE FALSE
    BY DEF NoDeadlock
  <2> QED
    BY RingsAreSelfMade, NobodyStuck DEF DeadlocksAreSelfMade
<1> QED
  BY <1>1, GuardInvariant, PTL
-------------------------------------------------------------------------------
(* What the answers of the token procedures mean: an OK, an "invalid       *)
(* argument", and a mint after a mint.  None of this is about guards, so   *)
(* it holds with RunGenesis too.                                           *)

(* A procedure ends with the call that tells whether its transaction took  *)
(* effect, and asks for one blockhash, earlier.                            *)
Concludes == {"send", "confirm"}

LEMMA ScriptShapes ==
  ASSUME NEW k \in TokenProcedure
  PROVE  /\ Script[k][Len(Script[k])] \in Concludes
         /\ \A i, j \in 1..Len(Script[k]) :
              Script[k][i] = "hash" /\ Script[k][j] = "hash" => i = j
         /\ \E i \in 1..Len(Script[k]) : Script[k][i] = "hash"
<1> DEFINE Shape(s) == /\ s[Len(s)] \in Concludes
                       /\ \A i, j \in 1..Len(s) : s[i] = "hash" /\ s[j] = "hash" => i = j
                       /\ \E i \in 1..Len(s) : s[i] = "hash"
<1>1. Shape(initialize_token_account)
  BY DEF initialize_token_account, Concludes
<1>2. Shape(mint_to_existing_account)
  BY DEF mint_to_existing_account, Concludes
<1>3. Shape(create_account) /\ Shape(create_token_account) /\ Shape(mint_to_new_account)
  BY DEF create_account, create_token_account, mint_to_new_account, Concludes
<1>4. Shape(create_account_rent_exempt) /\ Shape(create_and_init_mint)
  BY DEF create_account_rent_exempt, create_and_init_mint, Concludes
<1>5. Shape(transfer)
  BY DEF transfer, Concludes
<1>6. Shape(Script[k])
  <2> HIDE DEF Shape
  <2> QED
    BY <1>1, <1>2, <1>3, <1>4, <1>5 DEF TokenProcedure, Script
<1> QED
  BY <1>6

(* The blockhash of t is still to come: it has built nothing.              *)
HashAhead(t) ==
  \/ pc[t] = "idle"
  \/ /\ RunsScript(t) /\ Live(t)
     /\ \E i \in step[t]..Len(Script[kind[t]]) : Script[kind[t]][i] = "hash"

(* "Invalid argument" from a procedure that says it of arguments only.     *)
Blamed(t) == reply[t] = "invalid" /\ kind[t] # "run_initialize_token_account"

(* Who has not asked for a blockhash, or was refused, owns a transaction   *)
(* of its own that nobody has built.                                       *)
NothingBuilt ==
  \A t \in Task : HashAhead(t) \/ Blamed(t) =>
    own[t] = t /\ ledger[t] = "unbuilt"

(* What is signed over the latest blockhash is neither unbuilt nor final.  *)
FreshIsYoung ==
  \A x \in fresh : ledger[x] \notin {"unbuilt", "finalized", "expired"}

(* An answered request is over, and one answered OK got to its last call.  *)
AnswersAreLast ==
  \A t \in Task :
    /\ reply[t] # "none" => pc[t] = "done"
    /\ RunsScript(t) /\ reply[t] = "ok" => LastCall(t)

AnswerInv ==
  /\ TypeInv
  /\ NothingBuilt
  /\ FreshIsYoung
  /\ AnswersAreLast
  /\ OkTokenHasLanded
-------------------------------------------------------------------------------
(* What a step that builds at most the transaction x does to the ledger:   *)
(* nothing else is built, and what took effect or is final remains so.     *)
Ripens(x) ==
  /\ FreshIsYoung'
  /\ \A y \in Tx :
       /\ ledger[y] = "unbuilt" /\ y # x => ledger'[y] = "unbuilt"
       /\ ledger[y] \in {"confirmed", "finalized"} => ledger'[y] \in {"confirmed", "finalized"}
       /\ ledger[y] = "finalized" => ledger'[y] = "finalized"

LEMMA LedgerRipens ==
  ASSUME TypeOK, FreshIsYoung,
         \/ UNCHANGED ledgerVars
         \/ Cluster
         \/ \E y : ledger' = Submitted(y) /\ UNCHANGED fresh
  PROVE  Ripens(NoTask)
<1>1. CASE UNCHANGED ledgerVars
  BY <1>1 DEF Ripens, FreshIsYoung, ledgerVars
<1>2. CASE Cluster
  BY <1>2 DEF Ripens, FreshIsYoung, Cluster, NextBlockhash, Confirm, Finalize, Expire, TypeOK
<1>3. CASE \E y : ledger' = Submitted(y) /\ UNCHANGED fresh
  BY <1>3 DEF Ripens, FreshIsYoung, Submitted, TypeOK
<1> QED
  BY <1>1, <1>2, <1>3

LEMMA BuildRipens ==
  ASSUME TypeOK, FreshIsYoung, NEW t \in Task, BuildOwn(t), ledger[t] = "unbuilt"
  PROVE  Ripens(t)
<1>1. PICK x \in Outcomes(t) : /\ ledger' = Built(x)
                               /\ fresh' = fresh \cup {x}
  BY DEF BuildOwn
<1>2. x = t \/ x \in fresh
  BY <1>1 DEF Outcomes
<1>3. x \in Tx /\ t \in Tx
  BY <1>2, TxAssumption DEF TypeOK
<1> QED
  BY <1>1, <1>2, <1>3 DEF Ripens, FreshIsYoung, Built, TypeOK

(* The state of t after a step, as the invariant wants it.                 *)
Settled(t) ==
  /\ HashAhead(t) \/ Blamed(t) => own[t] = t /\ ledger[t] = "unbuilt"
  /\ reply[t] # "none" => pc[t] = "done"
  /\ RunsScript(t) /\ reply[t] = "ok" =>
       /\ LastCall(t)
       /\ Landed(own[t])
       /\ CurrentCall(t) = "confirm" => ledger[own[t]] = "finalized"

LEMMA Settle ==
  ASSUME AnswerInv, TypeInv', NEW t \in Task, NEW x, x \in {t, NoTask}, Ripens(x), Settled(t)',
         \A u \in Task \ {t} :
           /\ kind'[u] = kind[u] /\ pc'[u] = pc[u] /\ reply'[u] = reply[u]
           /\ step'[u] = step[u] /\ own'[u] = own[u]
  PROVE  AnswerInv'
<1>1. \A u \in Task : Settled(u)'
  <2> SUFFICES ASSUME NEW u \in Task, u # t PROVE Settled(u)'
    OBVIOUS
  <2>1. u \in Tx /\ own[u] \in Tx /\ u # x
    BY TxAssumption, NoTaskAssumption DEF AnswerInv, TypeInv, TypeOK
  <2>2. /\ HashAhead(u)' = HashAhead(u) /\ Blamed(u)' = Blamed(u)
        /\ LastCall(u)' = LastCall(u) /\ RunsScript(u)' = RunsScript(u)
        /\ CurrentCall(u)' = CurrentCall(u)
    BY DEF HashAhead, Blamed, LastCall, RunsScript, CurrentCall, Live
  <2> QED
    BY <2>1, <2>2
    DEF AnswerInv, NothingBuilt, AnswersAreLast, OkTokenHasLanded, Ripens, Settled, Landed
<1> QED
  BY <1>1 DEF AnswerInv, NothingBuilt, AnswersAreLast, OkTokenHasLanded, Ripens, Settled

LEMMA AnswerInit == Init => AnswerInv
  BY TypeInit, TxAssumption
  DEF Init, AnswerInv, NothingBuilt, FreshIsYoung, AnswersAreLast, OkTokenHasLanded, Blamed

(* A request is taken up: it has built nothing and is told OK by nobody.   *)
LEMMA AnswerReceive ==
  ASSUME AnswerInv, TypeInv', NEW t \in Task, Receive(t)
  PROVE  AnswerInv'
<1>1. PICK k \in Procedure : \E fault \in Faults(k) :
         Reject(t, k, fault) \/ AcceptToken(t, k, fault)
           \/ \E b \in Batches : AcceptBatch(t, k, fault, b)
  BY DEF Receive
<1>2. /\ pc[t] = "idle" /\ UNCHANGED <<ledgerVars, own, step>>
      /\ kind' = [kind EXCEPT ![t] = k]
      /\ \/ Finish(t, Rejection(k))
         \/ pc'[t] # "done" /\ reply' = reply
            /\ \A u \in Task \ {t} : pc'[u] = pc[u]
  BY <1>1 DEF Reject, AcceptToken, AcceptBatch, AnswerInv, TypeInv, TypeOK
<1>3. own[t] = t /\ ledger[t] = "unbuilt" /\ reply[t] = "none"
  BY <1>2 DEF AnswerInv, NothingBuilt, HashAhead, AnswersAreLast
<1>4. Rejection(k) # "ok"
  BY DEF Rejection
<1>5. Settled(t)'
  BY <1>2, <1>3, <1>4 DEF Settled, Finish, ledgerVars, AnswerInv, TypeInv, TypeOK
<1>6. Ripens(NoTask)
  BY <1>2, LedgerRipens DEF AnswerInv, TypeInv
<1> QED
  BY <1>2, <1>5, <1>6, Settle DEF Finish, AnswerInv, TypeInv, TypeOK

(* A request that ends with an error keeps quiet about its transaction.    *)
LEMMA AnswerError ==
  ASSUME AnswerInv, TypeInv', NEW t \in Task, NEW r, Finish(t, r),
         r # "ok", r # "invalid" \/ kind[t] = "run_initialize_token_account",
         UNCHANGED <<kind, ledgerVars, step, own>>
  PROVE  AnswerInv'
<1>1. Settled(t)'
  BY DEF Settled, Finish, HashAhead, Live, Blamed, AnswerInv, TypeInv, TypeOK
<1>2. Ripens(NoTask)
  BY LedgerRipens DEF AnswerInv, TypeInv
<1> QED
  BY <1>1, <1>2, Settle DEF Finish, AnswerInv, TypeInv, TypeOK

(* A call is made: the transaction handed over may execute from now on.    *)
LEMMA AnswerLock ==
  ASSUME AnswerInv, TypeInv', NEW t \in Task, TokenLock(t)
  PROVE  AnswerInv'
<1>1. /\ RunsScript(t) /\ pc[t] = "lock" /\ pc' = [pc EXCEPT ![t] = "call"]
      /\ UNCHANGED <<kind, reply, step, own, fresh>>
  BY DEF TokenLock, Take
<1>2. reply[t] = "none"
  BY <1>1 DEF AnswerInv, AnswersAreLast
<1>3. Ripens(NoTask)
  BY LedgerRipens DEF TokenLock, AnswerInv, TypeInv, ledgerVars
<1>4. HashAhead(t)' => HashAhead(t)
  BY <1>1 DEF HashAhead, Live, RunsScript, AnswerInv, TypeInv, TypeOK
<1>5. Settled(t)'
  BY <1>1, <1>2, <1>3, <1>4, TxAssumption, NoTaskAssumption
  DEF Settled, Blamed, Ripens, AnswerInv, NothingBuilt, TypeInv, TypeOK
<1> QED
  BY <1>1, <1>3, <1>5, Settle DEF AnswerInv, TypeInv, TypeOK

(* A call is answered and another one follows.  If it was the blockhash,   *)
(* the transaction is built, and no other blockhash is asked for.          *)
LEMMA AnswerReturn ==
  ASSUME AnswerInv, TypeInv', NEW t \in Task, TokenReturn(t)
  PROVE  AnswerInv'
<1> DEFINE s == Script[kind[t]]
<1>1. /\ RunsScript(t) /\ pc[t] = "call" /\ pc' = [pc EXCEPT ![t] = "lock"]
      /\ step' = [step EXCEPT ![t] = @ + 1]
      /\ UNCHANGED <<kind, reply>>
  BY DEF TokenReturn, Answered
<1>2. reply[t] = "none"
  BY <1>1 DEF AnswerInv, AnswersAreLast
<1>3. /\ step[t] \in 1..Len(s) /\ Len(s) \in Nat
      /\ step'[t] = step[t] + 1
      /\ kind[t] \in TokenProcedure
  BY <1>1, ScriptLengths DEF AnswerInv, TypeInv, TypeOK, StepInScript, RunsScript
<1>4. CASE CurrentCall(t) = "hash"
  <2>1. BuildOwn(t)
    BY <1>4 DEF TokenReturn, Answered
  <2>2. HashAhead(t)
    BY <1>1, <1>3, <1>4 DEF HashAhead, Live, CurrentCall
  <2>3. Ripens(t)
    BY <2>1, <2>2, BuildRipens DEF AnswerInv, NothingBuilt, TypeInv
  <2>4. ~HashAhead(t)'
    <3>1. \A i \in (step[t] + 1)..Len(s) : s[i] # "hash"
      BY <1>3, <1>4, ScriptShapes DEF CurrentCall
    <3> QED
      BY <1>1, <1>3, <3>1 DEF HashAhead, RunsScript, AnswerInv, TypeInv, TypeOK
  <2>5. Settled(t)'
    BY <1>1, <1>2, <2>4 DEF Settled, Blamed
  <2>6. \A u \in Task \ {t} : own'[u] = own[u]
    BY <2>1 DEF BuildOwn, AnswerInv, TypeInv, TypeOK
  <2> QED
    BY <1>1, <2>3, <2>5, <2>6, Settle DEF AnswerInv, TypeInv, TypeOK
<1>5. CASE CurrentCall(t) # "hash"
  <2>1. UNCHANGED <<ledgerVars, own>>
    BY <1>5 DEF TokenReturn, Answered
  <2>2. Ripens(NoTask)
    BY <2>1, LedgerRipens DEF AnswerInv, TypeInv
  <2>3. HashAhead(t)' => HashAhead(t)
    BY <1>1, <1>3 DEF HashAhead, Live, RunsScript, AnswerInv, TypeInv, TypeOK
  <2>4. Settled(t)'
    BY <1>1, <1>2, <2>1, <2>3 DEF Settled, Blamed, ledgerVars, AnswerInv, NothingBuilt
  <2> QED
    BY <1>1, <2>1, <2>2, <2>4, Settle DEF AnswerInv, TypeInv, TypeOK
<1> QED
  BY <1>4, <1>5

(* The last call is answered: it was the one that tells.                   *)
LEMMA AnswerSucceed ==
  ASSUME AnswerInv, TypeInv', NEW t \in Task, TokenSucceed(t)
  PROVE  AnswerInv'
<1>1. /\ RunsScript(t) /\ LastCall(t) /\ Succeeds(t, CurrentCall(t))
      /\ Finish(t, "ok") /\ UNCHANGED <<kind, step>>
  BY DEF TokenSucceed, Answered
<1>2. CurrentCall(t) \in Concludes
  BY <1>1, ScriptShapes DEF LastCall, CurrentCall, RunsScript
<1>3. UNCHANGED <<ledgerVars, own>>
  BY <1>2 DEF TokenSucceed, Answered, Concludes
<1>4. Landed(own[t]) /\ (CurrentCall(t) = "confirm" => ledger[own[t]] = "finalized")
  BY <1>1, <1>2 DEF Succeeds, Concludes, Landed
<1>5. Settled(t)'
  BY <1>1, <1>3, <1>4
  DEF Settled, Finish, HashAhead, Live, Blamed, LastCall, CurrentCall, Landed, ledgerVars,
      AnswerInv, TypeInv, TypeOK
<1>6. Ripens(NoTask)
  BY <1>3, LedgerRipens DEF AnswerInv, TypeInv
<1> QED
  BY <1>1, <1>3, <1>5, <1>6, Settle DEF Finish, AnswerInv, TypeInv, TypeOK

(* The steps of a SendTx make no transaction and answer for none here.     *)
LEMMA AnswerBatch ==
  ASSUME AnswerInv, TypeInv', NEW t \in Task, BatchStep(t), UNCHANGED <<step, own>>
  PROVE  AnswerInv'
<1>1. /\ kind[t] = "send_tx" /\ kind' = kind
      /\ pc[t] # "idle" /\ pc[t] # "done" /\ pc'[t] # "idle"
      /\ reply'[t] # "none" => pc'[t] = "done" /\ reply'[t] # "invalid"
      /\ \A u \in Task \ {t} : pc'[u] = pc[u] /\ reply'[u] = reply[u]
  <2>1. kind[t] = "send_tx" /\ kind' = kind /\ pc[t] \notin {"idle", "done"}
    BY DEF BatchStep, BatchPass, BatchReply, BatchSkip, SendLock, SendReturn, TpuSend,
           ConfirmLock, ConfirmReturn, BatchFail, RunsBatch
  <2>2. reply[t] = "none"
    BY <2>1 DEF AnswerInv, AnswersAreLast
  <2>3. CASE BatchReply(t) \/ BatchFail(t)
    BY <2>1, <2>3 DEF BatchReply, BatchFail, Finish, AnswerInv, TypeInv, TypeOK
  <2>4. CASE BatchPass(t) \/ BatchSkip(t) \/ ConfirmReturn(t)
    BY <2>1, <2>2, <2>4
    DEF BatchPass, BatchSkip, ConfirmReturn, MoveTo, StopAt, AnswerInv, TypeInv, TypeOK
  <2>5. CASE SendLock(t) \/ SendReturn(t) \/ TpuSend(t) \/ ConfirmLock(t)
    BY <2>1, <2>2, <2>5
    DEF SendLock, SendReturn, TpuSend, ConfirmLock, Take, AnswerInv, TypeInv, TypeOK
  <2> QED
    BY <2>1, <2>3, <2>4, <2>5 DEF BatchStep
<1>2. ~RunsScript(t)'
  BY <1>1 DEF RunsScript, TokenProcedure, Script
<1>3. Settled(t)'
  BY <1>1, <1>2 DEF Settled, HashAhead, Blamed
<1>4. UNCHANGED ledgerVars \/ \E y : ledger' = Submitted(y) /\ UNCHANGED fresh
  BY DEF BatchStep, BatchPass, BatchReply, BatchSkip, SendLock, SendReturn, TpuSend,
         ConfirmLock, ConfirmReturn, BatchFail
<1>5. Ripens(NoTask)
  BY <1>4, LedgerRipens DEF AnswerInv, TypeInv
<1> QED
  BY <1>1, <1>3, <1>5, Settle

(* A step that leaves the requests alone.                                  *)
LEMMA AnswerEnvironment ==
  ASSUME AnswerInv, TypeInv', UNCHANGED <<kind, pc, reply, step, own>>,
         UNCHANGED ledgerVars \/ Cluster
  PROVE  AnswerInv'
<1>1. Ripens(NoTask)
  BY LedgerRipens DEF AnswerInv, TypeInv
<1>2. \A t \in Task : t \in Tx /\ own[t] \in Tx
  BY TxAssumption DEF AnswerInv, TypeInv, TypeOK
<1>3. \A t \in Task :
        /\ HashAhead(t)' = HashAhead(t) /\ Blamed(t)' = Blamed(t)
        /\ LastCall(t)' = LastCall(t) /\ RunsScript(t)' = RunsScript(t)
        /\ CurrentCall(t)' = CurrentCall(t)
  BY DEF HashAhead, Blamed, LastCall, RunsScript, CurrentCall, Live
<1> QED
  BY <1>1, <1>2, <1>3, NoTaskAssumption
  DEF AnswerInv, NothingBuilt, AnswersAreLast, OkTokenHasLanded, Ripens, Landed

LEMMA AnswerNext == AnswerInv /\ [Next]_vars => AnswerInv'
<1> SUFFICES ASSUME AnswerInv, [Next]_vars PROVE AnswerInv'
  OBVIOUS
<1>1. TypeInv'
  BY TypeNext DEF AnswerInv
<1>2. ASSUME NEW t \in Task, Receive(t) PROVE AnswerInv'
  BY <1>1, <1>2, AnswerReceive
<1>3. ASSUME NEW t \in Task, Cancel(t) PROVE AnswerInv'
  BY <1>1, <1>3, AnswerError DEF Cancel
<1>4. ASSUME NEW t \in Task, TokenStep(t) PROVE AnswerInv'
  <2>1. CASE TokenFail(t)
    BY <1>1, <2>1, AnswerError DEF TokenFail, FailureStatus
  <2> QED
    BY <1>1, <1>4, <2>1, AnswerLock, AnswerReturn, AnswerSucceed DEF TokenStep
<1>5. ASSUME NEW t \in Task, BatchStep(t), UNCHANGED <<step, own>> PROVE AnswerInv'
  BY <1>1, <1>5, AnswerBatch
<1>6. ASSUME NEW t \in Task, Time(t) PROVE AnswerInv'
  BY <1>1, <1>6, AnswerEnvironment DEF Time, Deadline
<1>7. CASE ClusterStep
  BY <1>1, <1>7, AnswerEnvironment DEF ClusterStep
<1>8. CASE UNCHANGED vars
  BY <1>1, <1>8, AnswerEnvironment DEF vars, ledgerVars
<1> QED
  BY <1>2, <1>3, <1>4, <1>5, <1>6, <1>7, <1>8 DEF Next, TaskStep, Terminated

LEMMA AnswerInvariant == Safety => []AnswerInv
  BY AnswerInit, AnswerNext, PTL DEF Safety

(* A procedure goes on to its next lock only when its call is answered.    *)
LEMMA OnlyReturnGoesOn ==
  ASSUME TypeInv, Next, NEW u \in Task, RunsScript(u), pc[u] = "call", pc'[u] = "lock"
  PROVE  TokenReturn(u)
<1>1. pc # pc'
  OBVIOUS
<1>2. ASSUME NEW t \in Task, Receive(t) PROVE FALSE
  <2>1. PICK k \in Procedure : \E fault \in Faults(k) :
           Reject(t, k, fault) \/ AcceptToken(t, k, fault)
             \/ \E b \in Batches : AcceptBatch(t, k, fault, b)
    BY <1>2 DEF Receive
  <2> QED
    BY <2>1 DEF Reject, AcceptToken, AcceptBatch, Finish, TypeInv, TypeOK
<1>3. ASSUME NEW t \in Task, NEW r, Finish(t, r) PROVE FALSE
  BY <1>3 DEF Finish, TypeInv, TypeOK
<1>4. ASSUME NEW t \in Task, BatchStep(t) PROVE FALSE
  <2>1. kind[t] = "send_tx" /\ t # u
    BY <1>4
    DEF BatchStep, BatchPass, BatchReply, BatchSkip, SendLock, SendReturn, TpuSend,
        ConfirmLock, ConfirmReturn, BatchFail, RunsBatch, RunsScript, TokenProcedure, Script
  <2>2. pc'[u] = pc[u]
    BY <1>4, <2>1
    DEF BatchStep, BatchPass, BatchReply, BatchSkip, SendLock, SendReturn, TpuSend, MoveTo,
        ConfirmLock, ConfirmReturn, BatchFail, Take, Finish, TypeInv, TypeOK
  <2> QED
    BY <2>2
<1>5. ASSUME NEW t \in Task, TokenStep(t) PROVE TokenReturn(u)
  <2>1. CASE TokenLock(t)
    BY <2>1 DEF TokenLock, Take, TypeInv, TypeOK
  <2>2. CASE TokenReturn(t)
    BY <2>2 DEF TokenReturn, TypeInv, TypeOK
  <2> QED
    BY <1>3, <1>5, <2>1, <2>2 DEF TokenStep, TokenSucceed, TokenFail
<1> QED
  BY <1>1, <1>2, <1>3, <1>4, <1>5
  DEF Next, TaskStep, Cancel, Time, Deadline, ClusterStep, Terminated, vars

(* An OK of a token procedure is true: its transaction took effect, and is *)
(* final where confirm_transaction was asked, however many equal requests  *)
(* and whatever else went on, and it stays true.                           *)
THEOREM OkMeansLanded == Safety => []OkTokenHasLanded
<1>1. AnswerInv => OkTokenHasLanded
  BY DEF AnswerInv
<1> QED
  BY <1>1, AnswerInvariant, PTL

(* "Invalid argument" leaves nothing behind, except where every failure of *)
(* run_initialize_token_account is reported so.                            *)
THEOREM BlamedArgumentsAreHarmless == Safety => []RefusalIsHarmless
<1>1. AnswerInv => RefusalIsHarmless
  BY DEF AnswerInv, NothingBuilt, Blamed, RefusalIsHarmless
<1> QED
  BY <1>1, AnswerInvariant, PTL

(* A RunMint that signs after another was answered OK is a mint of its own *)
(* for any number of equal requests.  The OK came when the transaction was *)
(* final, and what is final is not over the latest blockhash any more.     *)
THEOREM LaterMintsAreOthers == Safety => MintsAddUp
<1>1. ASSUME AnswerInv, Next, NEW t \in Task, NEW u \in Task,
             kind[t] = "run_mint", reply[t] = "ok",
             RunsScript(u), pc[u] = "call", CurrentCall(u) = "hash", pc'[u] = "lock"
      PROVE  own'[u] # own[t]
  <2>1. TokenReturn(u)
    BY <1>1, OnlyReturnGoesOn DEF AnswerInv
  <2>2. PICK x \in Outcomes(u) : own'[u] = x
    BY <1>1, <2>1 DEF TokenReturn, Answered, BuildOwn, AnswerInv, TypeInv, TypeOK
  <2>3. ledger[own[t]] = "finalized"
    <3>1. RunsScript(t) /\ Script[kind[t]] = <<"hash", "send", "confirm">>
      BY <1>1 DEF RunsScript, TokenProcedure, Script, mint_to_existing_account
    <3>2. step[t] = Len(Script[kind[t]])
      BY <1>1, <3>1 DEF AnswerInv, AnswersAreLast, LastCall
    <3>3. step[t] = 3
      BY <3>1, <3>2
    <3>4. CurrentCall(t) = "confirm"
      BY <3>1, <3>3 DEF CurrentCall
    <3> QED
      BY <1>1, <3>1, <3>4 DEF AnswerInv, OkTokenHasLanded
  <2>4. x = u \/ x \in fresh
    BY <2>2 DEF Outcomes
  <2>5. CASE x \in fresh
    BY <1>1, <2>2, <2>3, <2>5 DEF AnswerInv, FreshIsYoung
  <2>6. CASE x = u
    <3>1. step[u] \in step[u]..Len(Script[kind[u]])
      BY <1>1, ScriptLengths DEF AnswerInv, TypeInv, StepInScript, RunsScript
    <3>2. HashAhead(u)
      BY <1>1, <3>1 DEF HashAhead, Live, CurrentCall
    <3> QED
      BY <1>1, <2>2, <2>3, <2>6, <3>2 DEF AnswerInv, NothingBuilt
  <2> QED
    BY <2>4, <2>5, <2>6
<1>2. AnswerInv /\ [Next]_vars =>
        [\A t, u \in Task :
           (/\ kind[t] = "run_mint" /\ reply[t] = "ok"
            /\ RunsScript(u) /\ pc[u] = "call" /\ CurrentCall(u) = "hash"
            /\ pc'[u] = "lock") => own'[u] # own[t]]_vars
  BY <1>1
<1> QED
  BY <1>2, AnswerInvariant, PTL DEF Safety, MintsAddUp
===============================================================================
