---------------------- MODULE BroadcastRefinement_proofs ----------------------
(***************************************************************************)
(* The handlers of the Broadcast service keep its promise, for any number  *)
(* of requests and batches of any length: the initial state is one of      *)
(* BroadcastPromise, and every step is one of its steps or changes nothing *)
(* the promise speaks of.  Before that, what the simulation rests on: what *)
(* the counter of send_tx counts and what its OK means.                    *)
(***************************************************************************)
EXTENDS Broadcast_proofs, FiniteSetTheorems

(* The places of a pass at which a position is being worked on.            *)
ToSend == {"sendLock", "sendCall"}
ToConfirm == {"tpuLock", "confirmLock", "confirmCall"}

(* Before the first pass nothing is known of any position.                 *)
Untouched(t) ==
  signed[t] = {} /\ inSystem[t] = {} /\ confirmedCount[t] = 0 /\ ~late[t]

(* CountsFinalized, for one request.                                       *)
Counted(t) ==
  /\ confirmedCount[t] = Cardinality(inSystem[t])
  /\ inSystem[t] \subseteq signed[t]
  /\ signed[t] \subseteq Positions(t)
  /\ \A i \in inSystem[t] : ledger[batch[t][i]] = "finalized"

(* A pass leaves signatures behind it: all before the position it is at,   *)
(* and every one when it is over.                                          *)
SignedBehind(t) ==
  /\ pc[t] \in ToSend \cup ToConfirm \cup {"skip"} =>
       item[t] \in Positions(t) /\ \A i \in 1..(item[t] - 1) : i \in signed[t]
  /\ pc[t] \in ToConfirm \cup {"skip"} => item[t] \in signed[t]
  /\ pc[t] \in ToSend => item[t] \notin signed[t]
  /\ pc[t] \in ToConfirm => item[t] \notin inSystem[t]
  /\ pc[t] = "head" => signed[t] = Positions(t) \/ Untouched(t)
  /\ pc[t] = "idle" => Untouched(t)

(* OkBatchIsBroadcast, for one request.                                    *)
Truthful(t) ==
  RunsBatch(t) /\ reply[t] = "ok" =>
    /\ signed[t] = Positions(t)
    /\ late[t] \/ \A i \in Positions(t) : ledger[batch[t][i]] = "finalized"

Sound(t) == Counted(t) /\ SignedBehind(t) /\ Truthful(t)

BatchInv == \A t \in Task : Sound(t)

LEMMA BatchInit == Init => BatchInv
  BY FS_EmptySet
  DEF Init, BatchInv, Sound, Counted, SignedBehind, Truthful, Untouched, ToSend, ToConfirm

(* All that a step can do to the ledger.                                   *)
LEMMA LedgerSteps ==
  ASSUME [Next]_vars
  PROVE  \/ ledger' = ledger
         \/ \E y : ledger' = Built(y) \/ ledger' = Submitted(y)
         \/ Cluster
<1>1. ASSUME NEW t \in Task, Receive(t) PROVE ledger' = ledger
  BY <1>1 DEF Receive, Reject, AcceptToken, AcceptBatch, ledgerVars
<1>2. ASSUME NEW t \in Task, TokenStep(t)
      PROVE  ledger' = ledger \/ \E y : ledger' = Built(y) \/ ledger' = Submitted(y)
  BY <1>2 DEF TokenStep, TokenLock, TokenReturn, TokenSucceed, TokenFail, Answered,
              BuildOwn, ledgerVars
<1>3. ASSUME NEW t \in Task, BatchStep(t)
      PROVE  ledger' = ledger \/ \E y : ledger' = Submitted(y)
  BY <1>3 DEF BatchStep, BatchPass, BatchReply, BatchSkip, SendLock, SendReturn, TpuSend,
              ConfirmLock, ConfirmReturn, BatchFail, ledgerVars
<1> QED
  BY <1>1, <1>2, <1>3
  DEF Next, TaskStep, Cancel, Time, Deadline, ClusterStep, Terminated, vars, ledgerVars

(* What is final stays final, whatever the step.                           *)
LEMMA FinalStays ==
  ASSUME AnswerInv, [Next]_vars, NEW x \in Tx, ledger[x] = "finalized"
  PROVE  ledger'[x] = "finalized"
BY LedgerSteps DEF Built, Submitted, Cluster, NextBlockhash, Confirm, Finalize, Expire,
                   AnswerInv, TypeInv, TypeOK

(* The transactions of a batch are known to the ledger.                    *)
LEMMA BatchTx ==
  ASSUME TypeOK, NEW t \in Task, NEW i \in Positions(t)
  PROVE  batch[t][i] \in Tx
BY TxAssumption DEF TypeOK, Positions

(* A request whose batch a step does not touch stays sound.                *)
LEMMA SoundElsewhere ==
  ASSUME AnswerInv, [Next]_vars, NEW u \in Task, Sound(u),
         batch'[u] = batch[u], signed'[u] = signed[u], inSystem'[u] = inSystem[u],
         confirmedCount'[u] = confirmedCount[u], late'[u] = late[u], item'[u] = item[u],
         \/ pc'[u] = pc[u]
         \/ pc'[u] \notin ToSend \cup ToConfirm \cup {"skip", "head", "idle"},
         RunsBatch(u)' /\ reply'[u] = "ok" => RunsBatch(u) /\ reply[u] = "ok"
  PROVE  Sound(u)'
<1>1. TypeOK
  BY DEF AnswerInv, TypeInv
<1>2. \A i \in Positions(u) :
        ledger[batch[u][i]] = "finalized" => ledger'[batch[u][i]] = "finalized"
  BY <1>1, FinalStays, BatchTx
<1>3. Counted(u)'
  BY <1>2 DEF Sound, Counted, Positions
<1>4. SignedBehind(u)'
  BY DEF Sound, SignedBehind, Untouched, Positions
<1>5. Truthful(u)'
  BY <1>2 DEF Sound, Truthful, Positions
<1> QED
  BY <1>3, <1>4, <1>5 DEF Sound

(* Where a pass goes next, seen from what it leaves behind.                *)
LEMMA PassMovesOn ==
  ASSUME TypeOK, NEW t \in Task, NEW i \in Nat \ {0}, NEW done,
         MoveTo(t, i, done), Counted(t)', UNCHANGED <<batch, signed, late>>,
         inSystem'[t] = done, \A j \in 1..(i - 1) : j \in signed[t],
         i \notin Positions(t) => signed[t] = Positions(t)
  PROVE  SignedBehind(t)'
<1>1. pc'[t] = StopAt(t, i, done) /\ item'[t] = IF i \in Positions(t) THEN i ELSE 0
  BY DEF MoveTo, TypeOK
<1>2. Positions(t)' = Positions(t)
  BY DEF Positions
<1>3. CASE i \notin Positions(t)
  BY <1>1, <1>2, <1>3 DEF StopAt, SignedBehind, ToSend, ToConfirm
<1>4. CASE i \in Positions(t)
  BY <1>1, <1>2, <1>4 DEF StopAt, SignedBehind, ToSend, ToConfirm, Counted
<1> QED
  BY <1>3, <1>4

LEMMA LastPosition ==
  ASSUME NEW n \in Nat, NEW i \in 1..n, NEW S \in SUBSET (1..n),
         \A j \in 1..i : j \in S, i + 1 \notin 1..n
  PROVE  S = 1..n
<1>1. i = n
  OBVIOUS
<1> QED
  BY <1>1

(* The positions of a batch, and those in_system, can be counted.          *)
LEMMA Countable ==
  ASSUME TypeOK, NEW t \in Task, Counted(t)
  PROVE  /\ Len(batch[t]) \in Nat
         /\ Cardinality(Positions(t)) = Len(batch[t])
         /\ IsFiniteSet(Positions(t)) /\ IsFiniteSet(inSystem[t])
         /\ Cardinality(inSystem[t]) \in Nat
         /\ Cardinality(inSystem[t]) <= Len(batch[t])
         /\ Cardinality(inSystem[t]) = Len(batch[t]) => inSystem[t] = Positions(t)
<1>1. Len(batch[t]) \in Nat
  BY DEF TypeOK
<1>2. IsFiniteSet(Positions(t)) /\ Cardinality(Positions(t)) = Len(batch[t])
  <2>1. 1 \in Int /\ Len(batch[t]) \in Int
    BY <1>1
  <2>2. /\ IsFiniteSet(1..Len(batch[t]))
        /\ Cardinality(1..Len(batch[t])) =
             IF 1 > Len(batch[t]) THEN 0 ELSE Len(batch[t]) - 1 + 1
    BY <2>1, FS_Interval
  <2> QED
    BY <1>1, <2>2 DEF Positions
<1>3. inSystem[t] \in SUBSET Positions(t)
  BY DEF Counted
<1>4. /\ IsFiniteSet(inSystem[t])
      /\ Cardinality(inSystem[t]) <= Cardinality(Positions(t))
      /\ Cardinality(Positions(t)) = Cardinality(inSystem[t]) => Positions(t) = inSystem[t]
  BY <1>2, <1>3, FS_Subset
<1>5. Cardinality(inSystem[t]) \in Nat
  BY <1>4, FS_CardinalityType
<1> QED
  BY <1>1, <1>2, <1>4, <1>5

(* The steps of a SendTx, one lemma for each group.                        *)
BatchAssumption(t) == AnswerInv /\ AnswerInv' /\ Next /\ Sound(t)

LEMMA SoundPass ==
  ASSUME NEW t \in Task, BatchAssumption(t), BatchPass(t) \/ BatchSkip(t)
  PROVE  Sound(t)'
<1> USE DEF BatchAssumption
<1>1. /\ TypeOK /\ kind[t] = "send_tx" /\ reply'[t] # "ok"
      /\ UNCHANGED <<ledger, batch, signed, inSystem, confirmedCount, late>>
  BY DEF BatchPass, BatchSkip, RunsBatch, ledgerVars, AnswerInv, TypeInv, AnswersAreLast
<1>2. Counted(t)' /\ Truthful(t)'
  BY <1>1 DEF Sound, Counted, Positions, Truthful
<1>3. CASE BatchPass(t)
  <2>1. 1 \in Positions(t)
    BY <1>3 DEF BatchPass, KeepsPolling, Positions, AnswerInv, TypeInv, TypeOK
  <2>2. SignedBehind(t)'
    BY <1>1, <1>2, <1>3, <2>1, PassMovesOn DEF BatchPass
  <2> QED
    BY <1>2, <2>2 DEF Sound
<1>4. CASE BatchSkip(t)
  <2>1. item[t] \in Positions(t) /\ \A j \in 1..item[t] : j \in signed[t]
    BY <1>4 DEF BatchSkip, Sound, SignedBehind, Positions, AnswerInv, TypeInv, TypeOK
  <2>2. item[t] + 1 \notin Positions(t) => signed[t] = Positions(t)
    BY <1>1, <2>1, Countable, LastPosition DEF Sound, Counted, Positions
  <2>3. SignedBehind(t)'
    BY <1>1, <1>2, <1>4, <2>1, <2>2, PassMovesOn DEF BatchSkip, Positions, TypeOK
  <2> QED
    BY <1>2, <2>3 DEF Sound
<1> QED
  BY <1>3, <1>4

LEMMA SoundWork ==
  ASSUME NEW t \in Task, BatchAssumption(t),
         SendLock(t) \/ SendReturn(t) \/ TpuSend(t) \/ ConfirmLock(t)
  PROVE  Sound(t)'
<1> USE DEF BatchAssumption
<1>1. /\ TypeOK /\ reply'[t] # "ok"
      /\ UNCHANGED <<batch, item, inSystem, confirmedCount, late>>
  BY DEF SendLock, SendReturn, TpuSend, ConfirmLock, batchVars, AnswerInv, TypeInv, AnswersAreLast
<1>2. \A i \in Positions(t) :
        ledger[batch[t][i]] = "finalized" => ledger'[batch[t][i]] = "finalized"
  BY <1>1, FinalStays, BatchTx
<1>3. item[t] \in Positions(t) /\ signed[t] \subseteq signed'[t]
        /\ signed'[t] \subseteq Positions(t)
  BY <1>1 DEF SendLock, SendReturn, TpuSend, ConfirmLock, batchVars, Sound, Counted,
              SignedBehind, ToSend, ToConfirm, TypeOK
<1>4. Counted(t)'
  BY <1>1, <1>2, <1>3 DEF Sound, Counted, Positions
<1>5. SignedBehind(t)'
  BY <1>1, <1>3
  DEF SendLock, SendReturn, TpuSend, ConfirmLock, Take, batchVars, Sound, Counted,
      SignedBehind, ToSend, ToConfirm, Positions, TypeOK
<1> QED
  BY <1>1, <1>4, <1>5 DEF Sound, Truthful

(* The check answers: true makes the position in_system, and it was not.   *)
LEMMA SoundConfirm ==
  ASSUME NEW t \in Task, BatchAssumption(t), ConfirmReturn(t)
  PROVE  Sound(t)'
<1> USE DEF BatchAssumption
<1> DEFINE final == IsFinal(CurrentTx(t))
           done == IF final THEN inSystem[t] \cup {item[t]} ELSE inSystem[t]
<1>1. /\ TypeOK /\ reply'[t] # "ok"
      /\ UNCHANGED <<ledger, batch, signed, late>>
      /\ inSystem'[t] = done
      /\ confirmedCount'[t] = IF final THEN confirmedCount[t] + 1 ELSE confirmedCount[t]
      /\ MoveTo(t, item[t] + 1, done)
  BY DEF ConfirmReturn, ledgerVars, AnswerInv, TypeInv, TypeOK, AnswersAreLast
<1>2. /\ item[t] \in Positions(t) /\ \A j \in 1..item[t] : j \in signed[t]
      /\ item[t] \notin inSystem[t] /\ item[t] \in Nat
  BY DEF ConfirmReturn, Sound, SignedBehind, ToConfirm, Positions, AnswerInv, TypeInv, TypeOK
<1>3. IsFiniteSet(inSystem[t])
  BY <1>1, Countable DEF Sound
<1>4. confirmedCount'[t] = Cardinality(done)
  <2>1. Cardinality(inSystem[t] \cup {item[t]}) = Cardinality(inSystem[t]) + 1
    BY <1>2, <1>3, FS_AddElement
  <2> QED
    BY <1>1, <2>1 DEF Sound, Counted
<1>5. Counted(t)'
  BY <1>1, <1>2, <1>4 DEF Sound, Counted, Positions, IsFinal, CurrentTx
<1>6. item[t] + 1 \notin Positions(t) => signed[t] = Positions(t)
  BY <1>1, <1>2, Countable, LastPosition DEF Sound, Counted, Positions
<1>7. SignedBehind(t)'
  <2> HIDE DEF done
  <2> QED
    BY <1>1, <1>2, <1>5, <1>6, PassMovesOn
<1> QED
  BY <1>1, <1>5, <1>7 DEF Sound, Truthful

(* The loop ends by the clock or by the counter; either way every position *)
(* is signed, and by the counter every one is final.                       *)
LEMMA SoundReply ==
  ASSUME NEW t \in Task, BatchAssumption(t), BatchReply(t)
  PROVE  Sound(t)'
<1> USE DEF BatchAssumption
<1>1. /\ TypeOK /\ pc[t] = "head" /\ ~KeepsPolling(t) /\ pc'[t] = "done"
      /\ UNCHANGED <<ledger, batch, item, signed, inSystem, confirmedCount, late>>
  BY DEF BatchReply, Finish, ledgerVars, batchVars, AnswerInv, TypeInv, TypeOK
<1>2. Counted(t)' /\ SignedBehind(t)'
  BY <1>1 DEF Sound, Counted, SignedBehind, Positions, ToSend, ToConfirm
<1>3. ~late[t] => confirmedCount[t] >= Len(batch[t])
  BY <1>1 DEF KeepsPolling, TypeOK
<1>4. ~late[t] => inSystem[t] = Positions(t)
  BY <1>1, <1>3, Countable DEF Sound, Counted
<1>5. signed[t] = Positions(t)
  BY <1>1, <1>4 DEF Sound, Counted, SignedBehind, Untouched
<1> QED
  BY <1>1, <1>2, <1>4, <1>5 DEF Sound, Counted, Truthful, Positions
(* An error says nothing of signatures, and neither does the clock: it     *)
(* may pass its limit at the head of the loop only after a whole pass.     *)
LEMMA SoundError ==
  ASSUME NEW t \in Task, BatchAssumption(t), NEW r, Finish(t, r), r # "ok",
         UNCHANGED <<kind, batchVars>>
  PROVE  Sound(t)'
BY SoundElsewhere
DEF BatchAssumption, Finish, batchVars, RunsBatch, AnswerInv, TypeInv, TypeOK, ToSend, ToConfirm

LEMMA SoundDeadline ==
  ASSUME NEW t \in Task, BatchAssumption(t), Deadline(t)
  PROVE  Sound(t)'
<1> USE DEF BatchAssumption
<1>1. /\ UNCHANGED <<ledger, pc, reply, batch, item, signed, inSystem, confirmedCount>>
      /\ pc[t] # "idle" /\ reply[t] # "ok"
      /\ pc[t] = "head" => signed[t] # {}
  BY DEF Deadline, Live, ledgerVars, AnswerInv, AnswersAreLast
<1>2. Counted(t)' /\ SignedBehind(t)'
  BY <1>1 DEF Sound, Counted, SignedBehind, Untouched, Positions, ToSend, ToConfirm
<1> QED
  BY <1>1, <1>2 DEF Sound, Truthful

(* A request arrives; nothing is known yet of a batch it may carry.        *)
LEMMA SoundReceive ==
  ASSUME NEW t \in Task, BatchAssumption(t), Receive(t)
  PROVE  Sound(t)'
<1> USE DEF BatchAssumption
<1>1. PICK k \in Procedure : \E fault \in Faults(k) :
         Reject(t, k, fault) \/ AcceptToken(t, k, fault)
           \/ \E b \in Batches : AcceptBatch(t, k, fault, b)
  BY DEF Receive
<1>2. PICK fault \in Faults(k) :
         Reject(t, k, fault) \/ AcceptToken(t, k, fault)
           \/ \E b \in Batches : AcceptBatch(t, k, fault, b)
  BY <1>1
<1>3. pc[t] = "idle" /\ Untouched(t) /\ reply[t] # "ok"
  BY <1>2 DEF Reject, AcceptToken, AcceptBatch, Sound, SignedBehind, AnswerInv, AnswersAreLast
<1>4. CASE Reject(t, k, fault)
  BY <1>4, SoundElsewhere
  DEF Reject, Finish, Rejection, batchVars, AnswerInv, TypeInv, TypeOK, ToSend, ToConfirm
<1>5. CASE AcceptToken(t, k, fault)
  BY <1>3, <1>5, SoundElsewhere
  DEF AcceptToken, batchVars, AnswerInv, TypeInv, TypeOK, ToSend, ToConfirm
<1>6. CASE \E b \in Batches : AcceptBatch(t, k, fault, b)
  <2>1. /\ UNCHANGED <<reply, signed, inSystem, confirmedCount, late>>
        /\ pc'[t] = "head"
    BY <1>6 DEF AcceptBatch, AnswerInv, TypeInv, TypeOK
  <2>2. Untouched(t)'
    BY <1>3, <2>1 DEF Untouched
  <2> QED
    BY <1>3, <2>1, <2>2, FS_EmptySet
    DEF Sound, Counted, SignedBehind, Untouched, Truthful, ToSend, ToConfirm
<1> QED
  BY <1>2, <1>4, <1>5, <1>6

(* A token procedure touches no batch, its own request's included.         *)
LEMMA SoundToken ==
  ASSUME NEW t \in Task, BatchAssumption(t), TokenStep(t), UNCHANGED batchVars
  PROVE  Sound(t)'
<1> USE DEF BatchAssumption
<1>1. kind[t] # "send_tx" /\ kind' = kind
  BY DEF TokenStep, TokenLock, TokenReturn, TokenSucceed, TokenFail, Answered, RunsScript,
         TokenProcedure, Script
<1>2. pc'[t] \in {"call", "lock", "done"}
  BY DEF TokenStep, TokenLock, TokenReturn, TokenSucceed, TokenFail, Take, Finish,
         AnswerInv, TypeInv, TypeOK
<1> QED
  BY <1>1, <1>2, SoundElsewhere DEF batchVars, RunsBatch, ToSend, ToConfirm

(* A step of one request leaves what is known of the others alone.         *)
Untold(u) ==
  /\ kind'[u] = kind[u] /\ pc'[u] = pc[u] /\ reply'[u] = reply[u]
  /\ batch'[u] = batch[u] /\ item'[u] = item[u] /\ signed'[u] = signed[u]
  /\ inSystem'[u] = inSystem[u] /\ confirmedCount'[u] = confirmedCount[u]
  /\ late'[u] = late[u]

LEMMA OthersUntold ==
  ASSUME TypeOK, NEW t \in Task, NEW u \in Task, u # t,
         Receive(t) \/ Cancel(t) \/ TaskStep(t) \/ Time(t)
  PROVE  Untold(u)
<1>1. CASE Receive(t)
  BY <1>1 DEF Receive, Reject, AcceptToken, AcceptBatch, Finish, batchVars, Untold, TypeOK
<1>2. CASE Cancel(t) \/ Time(t)
  BY <1>2 DEF Cancel, Time, Deadline, Finish, batchVars, Untold, TypeOK
<1>3. CASE TokenStep(t) /\ UNCHANGED batchVars
  BY <1>3
  DEF TokenStep, TokenLock, TokenReturn, TokenSucceed, TokenFail, Answered, Take, Finish,
      batchVars, Untold, TypeOK
<1>4. CASE BatchStep(t)
  <2>1. CASE BatchPass(t) \/ BatchSkip(t) \/ ConfirmReturn(t)
    BY <2>1 DEF BatchPass, BatchSkip, ConfirmReturn, MoveTo, Untold, TypeOK
  <2>2. CASE BatchReply(t) \/ BatchFail(t)
    BY <2>2 DEF BatchReply, BatchFail, Finish, batchVars, Untold, TypeOK
  <2>3. CASE SendLock(t) \/ SendReturn(t) \/ TpuSend(t) \/ ConfirmLock(t)
    BY <2>3 DEF SendLock, SendReturn, TpuSend, ConfirmLock, Take, batchVars, Untold, TypeOK
  <2> QED
    BY <1>4, <2>1, <2>2, <2>3 DEF BatchStep
<1> QED
  BY <1>1, <1>2, <1>3, <1>4 DEF TaskStep

LEMMA BatchNext == AnswerInv /\ AnswerInv' /\ BatchInv /\ [Next]_vars => BatchInv'
<1> SUFFICES ASSUME AnswerInv, AnswerInv', BatchInv, [Next]_vars, NEW u \in Task
             PROVE  Sound(u)'
  BY DEF BatchInv
<1>1. Sound(u)
  BY DEF BatchInv
<1>2. ASSUME Untold(u) PROVE Sound(u)'
  BY <1>1, <1>2, SoundElsewhere DEF Untold, RunsBatch
<1>3. CASE UNCHANGED vars \/ ClusterStep
  BY <1>2, <1>3 DEF ClusterStep, vars, batchVars, Untold
<1>4. ASSUME NEW t \in Task, Next, Receive(t) \/ Cancel(t) \/ TaskStep(t) \/ Time(t)
      PROVE  Sound(u)'
  <2>1. CASE u # t
    BY <1>2, <1>4, <2>1, OthersUntold DEF AnswerInv, TypeInv
  <2>2. CASE u = t
    <3>1. BatchAssumption(t)
      BY <1>1, <1>4, <2>2 DEF BatchAssumption
    <3>2. CASE Receive(t)
      BY <2>2, <3>1, <3>2, SoundReceive
    <3>3. CASE Cancel(t)
      BY <2>2, <3>1, <3>3, SoundError DEF Cancel
    <3>4. CASE Time(t)
      BY <2>2, <3>1, <3>4, SoundDeadline DEF Time
    <3>5. CASE TokenStep(t) /\ UNCHANGED batchVars
      BY <2>2, <3>1, <3>5, SoundToken
    <3>6. CASE BatchStep(t)
      <4>1. CASE BatchFail(t)
        BY <2>2, <3>1, <4>1, SoundError DEF BatchFail
      <4> QED
        BY <2>2, <3>1, <3>6, <4>1, SoundPass, SoundWork, SoundConfirm, SoundReply DEF BatchStep
    <3> QED
      BY <1>4, <3>2, <3>3, <3>4, <3>5, <3>6 DEF TaskStep
  <2> QED
    BY <2>1, <2>2
<1> QED
  BY <1>3, <1>4 DEF Next, Terminated

LEMMA BatchInvariant == Safety => []BatchInv
  BY BatchInit, BatchNext, AnswerInvariant, PTL DEF Safety

(* confirmed_tx_count is the number of positions seen finalized, whatever  *)
(* the length of the batch and however often its transactions repeat.      *)
THEOREM CounterCountsFinalized == Safety => []CountsFinalized
<1>1. BatchInv => CountsFinalized
  BY DEF BatchInv, Sound, Counted, CountsFinalized
<1> QED
  BY <1>1, BatchInvariant, PTL

(* An OK of SendTx carries a signature for every position, and unless time *)
(* ran out every transaction is final and stays so.                        *)
THEOREM OkBatchMeansBroadcast == Safety => []OkBatchIsBroadcast
<1>1. BatchInv => OkBatchIsBroadcast
  BY DEF BatchInv, Sound, Truthful, OkBatchIsBroadcast
<1> QED
  BY <1>1, BatchInvariant, PTL

(* A position that reaches the TPU has its signature: the error arm for a  *)
(* missing one is dead code, for every batch and every interleaving.       *)
THEOREM SignatureComesFirst == Safety => []SignatureKnownWhenPolled
<1>1. BatchInv => SignatureKnownWhenPolled
  BY DEF BatchInv, Sound, SignedBehind, ToConfirm, SignatureKnownWhenPolled
<1> QED
  BY <1>1, BatchInvariant, PTL
-------------------------------------------------------------------------------
(* How far a request has to go.  Who is at work has at least one await     *)
(* ahead, and a step leaves it fewer.                                      *)
LEMMA SomethingLeft ==
  ASSUME AnswerInv, BatchInv, NEW t \in Task, Live(t)
  PROVE  AwaitsLeft(t) \in Nat \ {0}
<1>1. CASE RunsScript(t)
  <2>1. Len(Script[kind[t]]) \in 2..4 /\ step[t] \in 1..Len(Script[kind[t]])
    BY <1>1, ScriptLengths DEF AnswerInv, TypeInv, StepInScript, RunsScript
  <2>2. PICK rank \in {1, 2} :
          AwaitsLeft(t) = 2 * (Len(Script[kind[t]]) - step[t]) + rank
    BY <1>1 DEF AwaitsLeft, Live
  <2>3. ASSUME NEW len \in 2..4, NEW n \in 1..len, NEW r \in {1, 2}
        PROVE  2 * (len - n) + r \in Nat \ {0}
    OBVIOUS
  <2>4. 2 * (Len(Script[kind[t]]) - step[t]) + rank \in Nat \ {0}
    BY <2>1, <2>3
  <2> QED
    BY <2>2, <2>4
<1>2. CASE ~RunsScript(t) /\ pc[t] \in DOMAIN PlaceRank
  <2>1. item[t] \in 1..Len(batch[t])
    BY <1>2 DEF PlaceRank, BatchInv, Sound, SignedBehind, ToSend, ToConfirm, Positions
  <2>2. Len(batch[t]) \in Nat /\ item[t] \in Nat /\ item[t] <= Len(batch[t])
    BY <2>1 DEF AnswerInv, TypeInv, TypeOK
  <2>3. PlaceRank[pc[t]] \in 2..6
    BY <1>2 DEF PlaceRank
  <2>4. 5 * (Len(batch[t]) - item[t]) + PlaceRank[pc[t]] \in Nat \ {0}
    <3>1. ASSUME NEW len \in Nat, NEW n \in Nat, n <= len, NEW r \in 2..6
          PROVE  5 * (len - n) + r \in Nat \ {0}
      BY <3>1
    <3> QED
      BY <2>2, <2>3, <3>1
  <2>5. AwaitsLeft(t) = 5 * (Len(batch[t]) - item[t]) + PlaceRank[pc[t]]
    BY <1>2 DEF AwaitsLeft, Live
  <2> QED
    BY <2>4, <2>5
<1>3. CASE ~RunsScript(t) /\ pc[t] \notin DOMAIN PlaceRank
  BY <1>3 DEF AwaitsLeft, Live
<1> QED
  BY <1>1, <1>2, <1>3

LEMMA NearerByFinishing ==
  ASSUME AnswerInv, BatchInv, NEW t \in Task, Live(t), NEW r, Finish(t, r)
  PROVE  AwaitsLeft(t)' \in 0..(AwaitsLeft(t) - 1)
<1>1. AwaitsLeft(t)' = 0
  BY DEF AnswerInv, TypeInv, TypeOK, Finish, AwaitsLeft
<1> QED
  BY <1>1, SomethingLeft

LEMMA NearerInScript ==
  ASSUME AnswerInv, NEW t \in Task, TokenLock(t) \/ TokenReturn(t)
  PROVE  AwaitsLeft(t)' \in 0..(AwaitsLeft(t) - 1)
<1>1. RunsScript(t) /\ kind' = kind
  BY DEF TokenLock, TokenReturn, Answered
<1> DEFINE len == Len(Script[kind[t]])
<1>2. len \in 2..4 /\ step[t] \in 1..len
  BY <1>1, ScriptLengths DEF AnswerInv, TypeInv, StepInScript, RunsScript
<1>3. CASE TokenLock(t)
  <2>1. pc[t] = "lock" /\ pc'[t] = "call" /\ step' = step
    BY <1>3 DEF TokenLock, Take, AnswerInv, TypeInv, TypeOK
  <2>2. AwaitsLeft(t) = 2 * (len - step[t]) + 2 /\ AwaitsLeft(t)' = 2 * (len - step[t]) + 1
    BY <1>1, <2>1 DEF AwaitsLeft, RunsScript
  <2> HIDE DEF len
  <2> QED
    BY <1>2, <2>2
<1>4. CASE TokenReturn(t)
  <2>1. pc[t] = "call" /\ pc'[t] = "lock" /\ step'[t] = step[t] + 1 /\ step[t] # len
    BY <1>4 DEF TokenReturn, Answered, LastCall, AnswerInv, TypeInv, TypeOK
  <2>2. /\ AwaitsLeft(t) = 2 * (len - step[t]) + 1
        /\ AwaitsLeft(t)' = 2 * (len - (step[t] + 1)) + 2
    BY <1>1, <2>1 DEF AwaitsLeft, RunsScript
  <2> HIDE DEF len
  <2> QED
    BY <1>2, <2>1, <2>2
<1> QED
  BY <1>3, <1>4

(* Within a pass: from one place of a position to the next, or to the next *)
(* position.                                                               *)
LEMMA NearerInPass ==
  ASSUME AnswerInv, BatchInv, NEW t \in Task, RunsBatch(t),
         kind' = kind, batch' = batch, pc[t] \in DOMAIN PlaceRank,
         \/ /\ item' = item
            /\ pc'[t] \in DOMAIN PlaceRank /\ PlaceRank[pc'[t]] < PlaceRank[pc[t]]
         \/ \E done : MoveTo(t, item[t] + 1, done)
  PROVE  AwaitsLeft(t)' \in 0..(AwaitsLeft(t) - 1)
<1> DEFINE len == Len(batch[t])
<1>1. item[t] \in 1..len
  BY DEF PlaceRank, BatchInv, Sound, SignedBehind, ToSend, ToConfirm, Positions
<1>2. len \in Nat /\ item[t] \in Nat /\ item[t] <= len
  BY <1>1 DEF AnswerInv, TypeInv, TypeOK
<1>3. PlaceRank[pc[t]] \in 2..6 /\ pc[t] # "done"
  BY DEF PlaceRank
<1>4. ~RunsScript(t) /\ ~RunsScript(t)'
  BY DEF RunsScript, RunsBatch, TokenProcedure, Script
<1>5. AwaitsLeft(t) = 5 * (len - item[t]) + PlaceRank[pc[t]]
  BY <1>3, <1>4 DEF AwaitsLeft
<1>6. ASSUME pc'[t] \in DOMAIN PlaceRank
      PROVE  AwaitsLeft(t)' = 5 * (len - item'[t]) + PlaceRank[pc'[t]]
  <2>1. pc'[t] # "done"
    BY <1>6 DEF PlaceRank
  <2> QED
    BY <1>4, <1>6, <2>1 DEF AwaitsLeft
<1>7. CASE item' = item /\ pc'[t] \in DOMAIN PlaceRank /\ PlaceRank[pc'[t]] < PlaceRank[pc[t]]
  <2>1. PlaceRank[pc'[t]] \in 2..6
    BY <1>7 DEF PlaceRank
  <2> HIDE DEF len
  <2> QED
    BY <1>2, <1>3, <1>5, <1>6, <1>7, <2>1
<1>8. CASE \E done : MoveTo(t, item[t] + 1, done)
  <2>1. PICK done : MoveTo(t, item[t] + 1, done)
    BY <1>8
  <2>2. CASE item[t] + 1 \in Positions(t)
    <3>1. item'[t] = item[t] + 1 /\ pc'[t] \in {"sendLock", "tpuLock", "skip"}
      BY <2>1, <2>2 DEF MoveTo, StopAt, AnswerInv, TypeInv, TypeOK
    <3>2. pc'[t] \in DOMAIN PlaceRank /\ PlaceRank[pc'[t]] \in 2..6 /\ item[t] + 1 <= len
      BY <1>2, <2>2, <3>1 DEF PlaceRank, Positions
    <3> HIDE DEF len
    <3> QED
      BY <1>2, <1>3, <1>5, <1>6, <3>1, <3>2
  <2>3. CASE item[t] + 1 \notin Positions(t)
    <3>1. pc'[t] = "head"
      BY <2>1, <2>3 DEF MoveTo, StopAt, AnswerInv, TypeInv, TypeOK
    <3>2. AwaitsLeft(t)' = 1
      BY <1>4, <3>1 DEF AwaitsLeft, PlaceRank
    <3> HIDE DEF len
    <3> QED
      BY <1>2, <1>3, <1>5, <3>2
  <2> QED
    BY <2>2, <2>3
<1> QED
  BY <1>7, <1>8

LEMMA NearerInBatch ==
  ASSUME AnswerInv, BatchInv, NEW t \in Task, BatchStep(t), pc[t] = "head" => late[t]
  PROVE  AwaitsLeft(t)' \in 0..(AwaitsLeft(t) - 1)
<1>1. CASE BatchPass(t)
  BY <1>1 DEF BatchPass, KeepsPolling
<1>2. CASE BatchReply(t) \/ BatchFail(t)
  <2>1. Live(t) /\ \E r : Finish(t, r)
    BY <1>2 DEF BatchReply, BatchFail, Live
  <2> QED
    BY <2>1, NearerByFinishing
<1>3. CASE BatchSkip(t) \/ ConfirmReturn(t)
  <2>1. /\ RunsBatch(t) /\ kind' = kind /\ batch' = batch
        /\ pc[t] \in {"skip", "confirmCall"}
        /\ \E done : MoveTo(t, item[t] + 1, done)
    BY <1>3 DEF BatchSkip, ConfirmReturn
  <2> QED
    BY <2>1, NearerInPass DEF PlaceRank
<1>4. CASE SendLock(t) \/ SendReturn(t) \/ TpuSend(t) \/ ConfirmLock(t)
  <2>1. /\ RunsBatch(t) /\ kind' = kind /\ batch' = batch /\ item' = item
        /\ \/ pc[t] = "sendLock" /\ pc'[t] = "sendCall"
           \/ pc[t] = "sendCall" /\ pc'[t] = "tpuLock"
           \/ pc[t] = "tpuLock" /\ pc'[t] = "confirmLock"
           \/ pc[t] = "confirmLock" /\ pc'[t] = "confirmCall"
    BY <1>4 DEF SendLock, SendReturn, TpuSend, ConfirmLock, Take, batchVars,
                AnswerInv, TypeInv, TypeOK
  <2>2. /\ pc[t] \in DOMAIN PlaceRank /\ pc'[t] \in DOMAIN PlaceRank
        /\ PlaceRank[pc'[t]] < PlaceRank[pc[t]]
    BY <2>1 DEF PlaceRank
  <2> QED
    BY <2>1, <2>2, NearerInPass
<1> QED
  BY <1>1, <1>2, <1>3, <1>4 DEF BatchStep

(* A step that moves t is one of its handler or takes its client away.     *)
LEMMA OwnStepsMove ==
  ASSUME AnswerInv, Next, NEW t \in Task, Live(t),
         <<pc'[t], step'[t], item'[t]>> # <<pc[t], step[t], item[t]>>
  PROVE  Cancel(t) \/ TaskStep(t)
<1>1. ASSUME NEW u \in Task, Receive(u) PROVE FALSE
  <2>1. pc[u] = "idle" /\ step' = step /\ item' = item
    BY <1>1 DEF Receive, Reject, AcceptToken, AcceptBatch, batchVars
  <2>2. u # t
    BY <2>1 DEF Live
  <2>3. pc'[t] = pc[t]
    BY <1>1, <2>2 DEF Receive, Reject, AcceptToken, AcceptBatch, Finish, AnswerInv, TypeInv, TypeOK
  <2> QED
    BY <2>1, <2>3
<1>2. ASSUME NEW u \in Task, Cancel(u) PROVE u = t
  BY <1>2 DEF Cancel, Finish, batchVars, AnswerInv, TypeInv, TypeOK
<1>3. ASSUME NEW u \in Task, TaskStep(u) PROVE u = t
  <2>1. CASE TokenStep(u) /\ UNCHANGED batchVars
    BY <2>1 DEF TokenStep, TokenLock, TokenReturn, TokenSucceed, TokenFail, Answered,
                Take, Finish, batchVars, AnswerInv, TypeInv, TypeOK
  <2>2. CASE BatchStep(u) /\ UNCHANGED <<step, own>>
    <3>1. \A v \in Task \ {u} : pc'[v] = pc[v] /\ item'[v] = item[v]
      BY <2>2 DEF BatchStep, BatchPass, BatchReply, BatchSkip, SendLock, SendReturn, TpuSend,
                  ConfirmLock, ConfirmReturn, BatchFail, MoveTo, Take, Finish, batchVars,
                  AnswerInv, TypeInv, TypeOK
    <3> QED
      BY <2>2, <3>1
  <2> QED
    BY <1>3, <2>1, <2>2 DEF TaskStep
<1>4. ASSUME NEW u \in Task, Time(u) PROVE FALSE
  BY <1>4 DEF Time, Deadline
<1>5. ASSUME ClusterStep \/ UNCHANGED vars PROVE FALSE
  BY <1>5 DEF ClusterStep, batchVars, vars
<1> QED
  BY <1>1, <1>2, <1>3, <1>4, <1>5 DEF Next, Terminated

(* No handler runs in circles.  A request that is scheduled, and late if   *)
(* it is a batch, ends after a number of steps bounded by its procedure or *)
(* by the length of its batch, whatever the others do.                     *)
THEOREM HandlersRunOut == Safety => AnswersComeNearer
<1>1. ASSUME AnswerInv, BatchInv, Next, NEW t \in Task, Live(t),
             <<pc'[t], step'[t], item'[t]>> # <<pc[t], step[t], item[t]>>,
             pc[t] = "head" => late[t]
      PROVE  AwaitsLeft(t)' \in 0..(AwaitsLeft(t) - 1)
  <2>1. CASE Cancel(t)
    BY <1>1, <2>1, NearerByFinishing DEF Cancel
  <2>2. CASE TokenStep(t)
    BY <1>1, <2>2, NearerInScript, NearerByFinishing DEF TokenStep, TokenSucceed, TokenFail
  <2>3. CASE BatchStep(t)
    BY <1>1, <2>3, NearerInBatch
  <2> QED
    BY <1>1, <2>1, <2>2, <2>3, OwnStepsMove DEF TaskStep
<1>2. AnswerInv /\ BatchInv /\ [Next]_vars =>
        [\A t \in Task :
           (/\ Live(t)
            /\ <<pc'[t], step'[t], item'[t]>> # <<pc[t], step[t], item[t]>>
            /\ pc[t] = "head" => late[t])
           => AwaitsLeft(t)' \in 0..(AwaitsLeft(t) - 1)]_vars
  BY <1>1
<1> QED
  BY <1>2, AnswerInvariant, BatchInvariant, PTL DEF Safety, AnswersComeNearer
-------------------------------------------------------------------------------
(* The variables of the promise, as the service implements them.           *)
Phase(t) == IF pc[t] = "idle" THEN "idle"
            ELSE IF pc[t] = "done" THEN "closed"
            ELSE IF late[t] THEN "overdue" ELSE "open"
Goal(t) == IF RunsScript(t) THEN {own[t]} ELSE {batch[t][i] : i \in Positions(t)}
Receipts(t) == {batch[t][i] : i \in signed[t]}

phases == [t \in Task |-> Phase(t)]
goals == [t \in Task |-> Goal(t)]
receipts == [t \in Task |-> Receipts(t)]

PromisedStep == [Promise!Next]_(Promise!promiseVars)

LEMMA PromisedStutter ==
  ASSUME phases' = phases, goals' = goals, receipts' = receipts, reply' = reply,
         UNCHANGED ledgerVars
  PROVE  PromisedStep
<1>1. Promise!promiseVars' = Promise!promiseVars
  BY DEF Promise!promiseVars, phases, goals, receipts, Phase, Goal, Receipts, ledgerVars
<1> QED
  BY <1>1 DEF PromisedStep

LEMMA PromisedInit == Init => Promise!Init
BY DEF Init, Promise!Init, RunsScript, TokenProcedure, Script, Positions
-------------------------------------------------------------------------------
(* A client's transaction is signed by the client, and one whose sending   *)
(* is awaited has been handed over.  Who has not come has said nothing.    *)
HandedOver(x) == ledger[x] \notin {"unbuilt", "new"}

Known(t) ==
  /\ pc[t] = "sendCall" => HandedOver(CurrentTx(t))
  /\ pc[t] = "idle" => batch[t] = <<>> /\ kind[t] = "none"

PromiseInv ==
  /\ AnswerInv
  /\ BatchInv
  /\ \A x \in UserTx : ledger[x] # "unbuilt"
  /\ \A t \in Task : Known(t)

LEMMA PromiseInvInit == Init => PromiseInv
  BY AnswerInit, BatchInit, TxAssumption DEF Init, PromiseInv, Known, TypeOK

LEMMA NoStepBack ==
  ASSUME TypeOK, [Next]_vars, NEW x \in Tx
  PROVE  /\ ledger[x] # "unbuilt" => ledger'[x] # "unbuilt"
         /\ HandedOver(x) => HandedOver(x)'
BY LedgerSteps DEF Built, Submitted, Cluster, NextBlockhash, Confirm, Finalize, Expire,
                   HandedOver, TypeOK

(* A position that is being sent is one of the batch.                      *)
LEMMA BeingSent ==
  ASSUME PromiseInv, NEW t \in Task, pc[t] \in ToSend \cup ToConfirm
  PROVE  /\ item[t] \in Positions(t) /\ CurrentTx(t) \in UserTx /\ CurrentTx(t) \in Tx
         /\ RunsBatch(t) => CurrentTx(t) \in Goal(t)
<1>1. item[t] \in Positions(t)
  BY DEF PromiseInv, BatchInv, Sound, SignedBehind
<1>2. CurrentTx(t) \in UserTx
  BY <1>1 DEF PromiseInv, AnswerInv, TypeInv, TypeOK, Positions, CurrentTx
<1>3. RunsBatch(t) => ~RunsScript(t)
  BY DEF RunsBatch, RunsScript, TokenProcedure, Script
<1> QED
  BY <1>1, <1>2, <1>3, TxAssumption DEF Goal, CurrentTx

LEMMA PromiseInvNext ==
  ASSUME PromiseInv, AnswerInv', BatchInv', [Next]_vars
  PROVE  PromiseInv'
<1>1. TypeOK /\ TypeOK'
  BY DEF PromiseInv, AnswerInv, TypeInv
<1>2. \A x \in UserTx : ledger'[x] # "unbuilt"
  BY <1>1, NoStepBack, TxAssumption DEF PromiseInv
<1>3. ASSUME NEW u \in Task PROVE Known(u)'
  <2>1. ASSUME pc'[u] = pc[u], batch'[u] = batch[u], item'[u] = item[u], kind'[u] = kind[u]
        PROVE  Known(u)'
    <3>1. pc[u] = "sendCall" => HandedOver(CurrentTx(u))'
      <4>1. SUFFICES ASSUME pc[u] = "sendCall" PROVE HandedOver(CurrentTx(u))'
        OBVIOUS
      <4>2. CurrentTx(u)' = CurrentTx(u) /\ CurrentTx(u) \in Tx
        BY <2>1, <4>1, BeingSent DEF CurrentTx, ToSend
      <4> QED
        BY <1>1, <4>1, <4>2, NoStepBack DEF PromiseInv, Known, HandedOver
    <3> QED
      BY <2>1, <3>1 DEF PromiseInv, Known
  <2>2. CASE UNCHANGED vars \/ ClusterStep
    BY <2>1, <2>2 DEF ClusterStep, vars, batchVars
  <2>3. ASSUME NEW t \in Task, u # t, Receive(t) \/ Cancel(t) \/ TaskStep(t) \/ Time(t)
        PROVE  Known(u)'
    BY <1>1, <2>1, <2>3, OthersUntold DEF Untold
  <2>4. ASSUME Receive(u) \/ Cancel(u) \/ TokenStep(u) \/ Time(u) PROVE Known(u)'
    <3>1. CASE Receive(u)
      <4>1. pc'[u] \notin {"idle", "sendCall"}
        BY <1>1, <3>1 DEF Receive, Reject, AcceptToken, AcceptBatch, Finish, TypeOK
      <4> QED
        BY <4>1 DEF Known
    <3>2. CASE Cancel(u)
      <4>1. pc'[u] = "done"
        BY <1>1, <3>2 DEF Cancel, Finish, TypeOK
      <4> QED
        BY <4>1 DEF Known
    <3>3. CASE TokenStep(u)
      <4>1. pc'[u] \in {"call", "lock", "done"}
        BY <1>1, <3>3
        DEF TokenStep, TokenLock, TokenReturn, TokenSucceed, TokenFail, Take, Finish, TypeOK
      <4> QED
        BY <4>1 DEF Known
    <3>4. CASE Time(u)
      BY <2>1, <3>4 DEF Time, Deadline
    <3> QED
      BY <2>4, <3>1, <3>2, <3>3, <3>4
  <2>5. CASE BatchStep(u)
    <3>1. CASE SendLock(u)
      <4>1. pc[u] = "sendLock" /\ ledger' = Submitted(CurrentTx(u)) /\ pc'[u] = "sendCall"
            /\ UNCHANGED <<batch, item>>
        BY <1>1, <3>1 DEF SendLock, Take, batchVars, TypeOK
      <4>2. CurrentTx(u)' = CurrentTx(u) /\ CurrentTx(u) \in UserTx /\ CurrentTx(u) \in Tx
        BY <4>1, BeingSent DEF CurrentTx, ToSend
      <4> QED
        BY <1>1, <4>1, <4>2 DEF PromiseInv, Known, HandedOver, Submitted, TypeOK
    <3>2. CASE ~SendLock(u)
      <4>1. pc'[u] \notin {"idle", "sendCall"}
        BY <1>1, <2>5, <3>2
        DEF BatchStep, BatchPass, BatchReply, BatchSkip, SendReturn, TpuSend, ConfirmLock,
            ConfirmReturn, BatchFail, MoveTo, StopAt, Take, Finish, TypeOK
      <4> QED
        BY <4>1 DEF Known
    <3> QED
      BY <3>1, <3>2
  <2> QED
    BY <2>2, <2>3, <2>4, <2>5 DEF Next, TaskStep, Terminated
<1> QED
  BY <1>2, <1>3 DEF PromiseInv

LEMMA PromiseInvariant == Safety => []PromiseInv
  BY PromiseInvInit, PromiseInvNext, AnswerInvariant, BatchInvariant, PTL DEF Safety

-------------------------------------------------------------------------------
(* A step of t changes the promise's variables at t only.                  *)
Frame(t) ==
  /\ PromiseInv /\ TypeOK'
  /\ \A u \in Task \ {t} : Untold(u) /\ own'[u] = own[u]

LEMMA Framed ==
  ASSUME NEW t \in Task, Frame(t)
  PROVE  /\ phases' = [phases EXCEPT ![t] = Phase(t)']
         /\ goals' = [goals EXCEPT ![t] = Goal(t)']
         /\ receipts' = [receipts EXCEPT ![t] = Receipts(t)']
         /\ reply' = [reply EXCEPT ![t] = reply'[t]]
         /\ phases[t] = Phase(t) /\ goals[t] = Goal(t) /\ receipts[t] = Receipts(t)
<1>1. \A u \in Task \ {t} :
        /\ Phase(u)' = Phase(u) /\ Goal(u)' = Goal(u) /\ Receipts(u)' = Receipts(u)
        /\ reply'[u] = reply[u]
  <2> SUFFICES ASSUME NEW u \in Task \ {t}
               PROVE  /\ Phase(u)' = Phase(u) /\ Goal(u)' = Goal(u)
                      /\ Receipts(u)' = Receipts(u) /\ reply'[u] = reply[u]
    OBVIOUS
  <2>1. Untold(u) /\ own'[u] = own[u]
    BY DEF Frame
  <2>2. Phase(u)' = Phase(u)
    BY <2>1 DEF Untold, Phase
  <2>3. Goal(u)' = Goal(u)
    BY <2>1 DEF Untold, Goal, RunsScript, Positions
  <2>4. Receipts(u)' = Receipts(u)
    BY <2>1 DEF Untold, Receipts
  <2> QED
    BY <2>1, <2>2, <2>3, <2>4 DEF Untold
<1>2. reply \in [Task -> Reply] /\ reply' \in [Task -> Reply]
  BY DEF Frame, PromiseInv, AnswerInv, TypeInv, TypeOK
<1> QED
  BY <1>1, <1>2 DEF phases, goals, receipts

LEMMA Kept ==
  ASSUME NEW t \in Task, Frame(t)
  PROVE  /\ Phase(t)' = Phase(t) => phases' = phases
         /\ Goal(t)' = Goal(t) => goals' = goals
         /\ Receipts(t)' = Receipts(t) => receipts' = receipts
         /\ reply'[t] = reply[t] => reply' = reply
<1>1. Phase(t)' = Phase(t) => phases' = phases
  BY Framed DEF phases
<1>2. Goal(t)' = Goal(t) => goals' = goals
  BY Framed DEF goals
<1>3. Receipts(t)' = Receipts(t) => receipts' = receipts
  BY Framed DEF receipts
<1>4. reply'[t] = reply[t] => reply' = reply
  <2>1. \A u \in Task \ {t} : reply'[u] = reply[u]
    BY DEF Frame, Untold
  <2>2. reply \in [Task -> Reply] /\ reply' \in [Task -> Reply]
    BY DEF Frame, PromiseInv, AnswerInv, TypeInv, TypeOK
  <2> QED
    BY <2>1, <2>2
<1> QED
  BY <1>1, <1>2, <1>3, <1>4

(* The steps of the promise, told of these variables.                      *)
LEMMA PromisedClose ==
  ASSUME NEW t \in Task, phases[t] \in {"open", "overdue"},
         phases' = [phases EXCEPT ![t] = "closed"],
         NEW r \in {"invalid", "internal", "cancelled", "ok"},
         r = "ok" => \/ \A x \in goals[t] : IF x \in Task THEN Landed(x)
                                            ELSE ledger[x] = "finalized"
                     \/ phases[t] = "overdue" /\ receipts[t] = goals[t],
         reply' = [reply EXCEPT ![t] = r], goals' = goals, receipts' = receipts,
         UNCHANGED ledgerVars
  PROVE  Promise!Close(t)
BY DEF Promise!Close, Promise!Working, Promise!Error, Promise!Reached, Promise!ledgerVars,
       Promise!Landed, Landed, ledgerVars, phases, goals, receipts, Phase, Goal, Receipts

LEMMA PromisedOpen ==
  ASSUME NEW t \in Task, phases[t] = "idle", phases' = [phases EXCEPT ![t] = "open"],
         NEW g, g = {t} \/ g \subseteq Tx \ Task, goals' = [goals EXCEPT ![t] = g],
         receipts' = receipts, reply' = reply, UNCHANGED ledgerVars
  PROVE  Promise!Open(t)
BY DEF Promise!Open, Promise!ledgerVars, ledgerVars, phases, goals, receipts, Phase, Goal,
       Receipts

LEMMA PromisedRefuse ==
  ASSUME NEW t \in Task, phases[t] = "idle", phases' = [phases EXCEPT ![t] = "closed"],
         NEW g \in {{t}, {}}, goals' = [goals EXCEPT ![t] = g],
         NEW r \in {"invalid", "internal", "cancelled"}, reply' = [reply EXCEPT ![t] = r],
         receipts' = receipts, UNCHANGED ledgerVars
  PROVE  Promise!Refuse(t)
BY DEF Promise!Refuse, Promise!Error, Promise!ledgerVars, ledgerVars, phases, goals,
       receipts, Phase, Goal, Receipts

LEMMA PromisedBuild ==
  ASSUME NEW t \in Task, phases[t] \in {"open", "overdue"},
         goals[t] = {t}, ledger[t] = "unbuilt",
         NEW x \in {t} \cup (fresh \cap Task), goals' = [goals EXCEPT ![t] = {x}],
         ledger' = Built(x), fresh' = fresh \cup {x},
         phases' = phases, receipts' = receipts, reply' = reply
  PROVE  Promise!Build(t)
BY DEF Promise!Build, Promise!Working, Promise!Built, Built, phases, goals, receipts, Phase,
       Goal, Receipts

LEMMA PromisedHandOver ==
  ASSUME NEW t \in Task, phases[t] \in {"open", "overdue"}, NEW x \in goals[t],
         ledger' = Submitted(x), fresh' = fresh,
         phases' = phases, goals' = goals, receipts' = receipts, reply' = reply
  PROVE  Promise!HandOver(t)
BY DEF Promise!HandOver, Promise!Working, Promise!Submitted, Submitted, phases, goals,
       receipts, Phase, Goal, Receipts

LEMMA PromisedAcknowledge ==
  ASSUME NEW t \in Task, phases[t] \in {"open", "overdue"}, NEW x \in goals[t],
         HandedOver(x), receipts' = [receipts EXCEPT ![t] = @ \cup {x}],
         phases' = phases, goals' = goals, reply' = reply, UNCHANGED ledgerVars
  PROVE  Promise!Acknowledge(t)
BY DEF Promise!Acknowledge, Promise!Working, HandedOver, Promise!ledgerVars, ledgerVars,
       phases, goals, receipts, Phase, Goal, Receipts

LEMMA PromisedOverdue ==
  ASSUME NEW t \in Task, phases[t] = "open", phases' = [phases EXCEPT ![t] = "overdue"],
         goals' = goals, receipts' = receipts, reply' = reply, UNCHANGED ledgerVars
  PROVE  Promise!GoOverdue(t)
BY DEF Promise!GoOverdue, Promise!ledgerVars, ledgerVars, phases, goals, receipts, Phase,
       Goal, Receipts

-------------------------------------------------------------------------------
(* What a step keeps of the goal and of the receipts.                      *)
LEMMA SameGoal ==
  ASSUME NEW t \in Task, kind'[t] = kind[t], own'[t] = own[t], batch'[t] = batch[t]
  PROVE  Goal(t)' = Goal(t)
BY DEF Goal, RunsScript, Positions

LEMMA SameReceipts ==
  ASSUME NEW t \in Task, batch'[t] = batch[t], signed'[t] = signed[t]
  PROVE  Receipts(t)' = Receipts(t)
BY DEF Receipts

LEMMA WorkingPhase ==
  ASSUME NEW t \in Task, Frame(t), Live(t)
  PROVE  /\ phases[t] \in {"open", "overdue"}
         /\ phases[t] = "overdue" <=> late[t]
BY Framed DEF Phase, Live

(* An answer closes the request.                                           *)
LEMMA StepAnswers ==
  ASSUME NEW t \in Task, Frame(t), Live(t), NEW r \in {"invalid", "internal", "cancelled", "ok"},
         Finish(t, r), UNCHANGED <<kind, own, batchVars, ledgerVars>>,
         r = "ok" => \/ \A x \in Goal(t) : IF x \in Task THEN Landed(x)
                                           ELSE ledger[x] = "finalized"
                     \/ late[t] /\ Receipts(t) = Goal(t)
  PROVE  Promise!Close(t)
<1>1. goals' = goals /\ receipts' = receipts
  BY SameGoal, SameReceipts, Kept DEF batchVars
<1>2. Phase(t)' = "closed" /\ reply'[t] = r
  BY DEF Phase, Finish, Frame, PromiseInv, AnswerInv, TypeInv, TypeOK
<1>3. phases' = [phases EXCEPT ![t] = "closed"] /\ reply' = [reply EXCEPT ![t] = r]
  BY <1>2, Framed
<1>4. phases[t] \in {"open", "overdue"} /\ (late[t] => phases[t] = "overdue")
  BY WorkingPhase
<1>5. goals[t] = Goal(t) /\ receipts[t] = Receipts(t)
  BY Framed
<1> QED
  BY <1>1, <1>3, <1>4, <1>5, PromisedClose

(* The arrival of a request opens it, or closes it at the door.            *)
LEMMA ReceivePromised ==
  ASSUME NEW t \in Task, Frame(t), BatchInv', Receive(t)
  PROVE  Promise!Open(t) \/ Promise!Refuse(t)
<1>1. PICK k \in Procedure : \E fault \in Faults(k) :
         Reject(t, k, fault) \/ AcceptToken(t, k, fault)
           \/ \E b \in Batches : AcceptBatch(t, k, fault, b)
  BY DEF Receive
<1>2. PICK fault \in Faults(k) :
         Reject(t, k, fault) \/ AcceptToken(t, k, fault)
           \/ \E b \in Batches : AcceptBatch(t, k, fault, b)
  BY <1>1
<1>3. /\ pc[t] = "idle" /\ kind'[t] = k /\ UNCHANGED <<ledgerVars, own, signed, late>>
  BY <1>2 DEF Reject, AcceptToken, AcceptBatch, batchVars, Frame, PromiseInv, AnswerInv,
              TypeInv, TypeOK
<1>4. /\ Untouched(t) /\ batch[t] = <<>> /\ own[t] = t
  BY <1>3 DEF Frame, PromiseInv, Known, BatchInv, Sound, SignedBehind, AnswerInv,
              NothingBuilt, HashAhead
<1>5. phases[t] = "idle"
  BY <1>3, Framed DEF Phase
<1>6. receipts' = receipts
  <2>1. Receipts(t)' = {} /\ Receipts(t) = {}
    BY <1>3, <1>4 DEF Receipts, Untouched
  <2> QED
    BY <2>1, Kept
<1>7. CASE Reject(t, k, fault)
  <2>1. /\ Finish(t, Rejection(k)) /\ UNCHANGED batch
        /\ Rejection(k) \in {"invalid", "internal", "cancelled"}
    BY <1>7 DEF Reject, Rejection, batchVars
  <2>2. Goal(t)' \in {{t}, {}}
    <3>1. Positions(t)' = {}
      BY <1>4, <2>1 DEF Positions
    <3> QED
      BY <1>3, <1>4, <3>1 DEF Goal
  <2>3. Phase(t)' = "closed" /\ reply'[t] = Rejection(k)
    BY <2>1 DEF Phase, Finish, Frame, PromiseInv, AnswerInv, TypeInv, TypeOK
  <2>4. /\ phases' = [phases EXCEPT ![t] = "closed"]
        /\ goals' = [goals EXCEPT ![t] = Goal(t)']
        /\ reply' = [reply EXCEPT ![t] = Rejection(k)]
    BY <2>3, Framed
  <2> QED
    BY <1>3, <1>5, <1>6, <2>1, <2>2, <2>4, PromisedRefuse
<1>8. CASE ~Reject(t, k, fault)
  <2>1. pc'[t] \notin {"idle", "done"} /\ reply' = reply
    BY <1>2, <1>8 DEF AcceptToken, AcceptBatch, Frame, PromiseInv, AnswerInv, TypeInv, TypeOK
  <2>2. Phase(t)' = "open"
    BY <1>3, <1>4, <2>1 DEF Phase, Untouched
  <2>3. Goal(t)' = {t} \/ Goal(t)' \subseteq Tx \ Task
    <3>1. CASE RunsScript(t)'
      BY <1>3, <1>4, <3>1 DEF Goal
    <3>2. CASE ~RunsScript(t)'
      <4>1. \A i \in Positions(t)' : batch'[t][i] \in UserTx
        BY DEF Positions, Frame, TypeOK
      <4>2. \A x \in UserTx : x \in Tx \ Task
        BY TxAssumption
      <4> QED
        BY <3>2, <4>1, <4>2 DEF Goal
    <3> QED
      BY <3>1, <3>2
  <2>4. /\ phases' = [phases EXCEPT ![t] = "open"]
        /\ goals' = [goals EXCEPT ![t] = Goal(t)']
    BY <2>2, Framed
  <2> QED
    BY <1>3, <1>5, <1>6, <2>1, <2>3, <2>4, PromisedOpen
<1> QED
  BY <1>7, <1>8

(* A token procedure builds its transaction, hands it over and answers;    *)
(* whatever else it does, the promise does not speak of.                   *)
LEMMA TokenPromised ==
  ASSUME NEW t \in Task, Frame(t), TokenStep(t), UNCHANGED batchVars
  PROVE  Promise!Build(t) \/ Promise!HandOver(t) \/ Promise!Close(t) \/ PromisedStep
<1>1. /\ RunsScript(t) /\ Live(t) /\ UNCHANGED kind
      /\ Goal(t) = {own[t]} /\ own[t] \in Task
  BY DEF TokenStep, TokenLock, TokenReturn, TokenSucceed, TokenFail, Answered, Live, Goal,
         Frame, PromiseInv, AnswerInv, TypeInv, TypeOK
<1>2. phases[t] \in {"open", "overdue"} /\ goals[t] = {own[t]}
  BY <1>1, WorkingPhase, Framed
<1>3. Receipts(t)' = Receipts(t) /\ receipts' = receipts
  BY SameReceipts, Kept DEF batchVars
<1>4. CASE TokenLock(t)
  <2>1. UNCHANGED <<reply, own, fresh>> /\ pc[t] = "lock" /\ pc'[t] = "call"
    BY <1>4 DEF TokenLock, Take, Frame, PromiseInv, AnswerInv, TypeInv, TypeOK
  <2>2. phases' = phases /\ goals' = goals
    BY <1>1, <2>1, SameGoal, Kept DEF Phase, batchVars
  <2>3. CASE ledger' = Submitted(own[t])
    BY <1>2, <1>3, <2>1, <2>2, <2>3, PromisedHandOver
  <2>4. CASE ledger' = ledger
    BY <1>3, <2>1, <2>2, <2>4, PromisedStutter DEF ledgerVars
  <2> QED
    BY <1>4, <2>3, <2>4 DEF TokenLock
<1>5. CASE TokenReturn(t)
  <2>1. reply' = reply /\ pc[t] = "call" /\ pc'[t] = "lock"
    BY <1>5 DEF TokenReturn, Answered, Frame, PromiseInv, AnswerInv, TypeInv, TypeOK
  <2>2. phases' = phases
    BY <2>1, Kept DEF Phase, batchVars
  <2>3. CASE CurrentCall(t) = "hash"
    <3>1. PICK x \in Outcomes(t) : /\ own' = [own EXCEPT ![t] = x]
                                   /\ ledger' = Built(x) /\ fresh' = fresh \cup {x}
      BY <1>5, <2>3 DEF TokenReturn, Answered, BuildOwn
    <3>2. HashAhead(t)
      <4>1. step[t] \in step[t]..Len(Script[kind[t]])
        BY <1>1, ScriptLengths DEF Frame, PromiseInv, AnswerInv, TypeInv, StepInScript,
                                   RunsScript
      <4> QED
        BY <1>1, <2>3, <4>1 DEF HashAhead, CurrentCall
    <3>3. own[t] = t /\ ledger[t] = "unbuilt"
      BY <3>2 DEF Frame, PromiseInv, AnswerInv, NothingBuilt
    <3>4. x \in {t} \cup (fresh \cap Task)
      BY <3>1 DEF Outcomes, Frame, PromiseInv, AnswerInv, TypeInv, TypeOK
    <3>5. Goal(t)' = {x}
      BY <1>1, <3>1 DEF Goal, RunsScript, Frame, PromiseInv, AnswerInv, TypeInv, TypeOK
    <3>6. goals' = [goals EXCEPT ![t] = {x}]
      BY <3>5, Framed
    <3> QED
      BY <1>2, <1>3, <2>1, <2>2, <3>1, <3>3, <3>4, <3>6, PromisedBuild
  <2>4. CASE CurrentCall(t) # "hash"
    <3>1. UNCHANGED <<ledgerVars, own>>
      BY <1>5, <2>4 DEF TokenReturn, Answered
    <3>2. goals' = goals
      BY <1>1, <3>1, SameGoal, Kept DEF batchVars
    <3> QED
      BY <1>3, <2>1, <2>2, <3>1, <3>2, PromisedStutter
  <2> QED
    BY <2>3, <2>4
<1>6. CASE TokenSucceed(t)
  <2>1. LastCall(t) /\ Succeeds(t, CurrentCall(t)) /\ Finish(t, "ok")
    BY <1>6 DEF TokenSucceed, Answered
  <2>2. CurrentCall(t) \in Concludes
    BY <1>1, <2>1, ScriptShapes DEF LastCall, CurrentCall, RunsScript
  <2>3. UNCHANGED <<ledgerVars, own>>
    BY <1>6, <2>2 DEF TokenSucceed, Answered, Concludes
  <2>4. Landed(own[t])
    BY <2>1, <2>2 DEF Succeeds, Concludes, Landed
  <2>5. \A x \in Goal(t) : IF x \in Task THEN Landed(x) ELSE ledger[x] = "finalized"
    BY <1>1, <2>4
  <2> QED
    BY <1>1, <2>1, <2>3, <2>5, StepAnswers
<1>7. CASE TokenFail(t)
  BY <1>1, <1>7, StepAnswers DEF TokenFail, FailureStatus
<1> QED
  BY <1>4, <1>5, <1>6, <1>7 DEF TokenStep

(* The steps of a SendTx.                                                  *)
LEMMA BatchPromised ==
  ASSUME NEW t \in Task, Frame(t), BatchInv', BatchStep(t), UNCHANGED <<step, own>>
  PROVE  \/ Promise!HandOver(t) \/ Promise!Acknowledge(t) \/ Promise!Close(t)
         \/ PromisedStep
<1>1. /\ RunsBatch(t) /\ Live(t) /\ UNCHANGED <<kind, batch, late>>
  BY DEF BatchStep, BatchPass, BatchReply, BatchSkip, SendLock, SendReturn, TpuSend,
         ConfirmLock, ConfirmReturn, BatchFail, batchVars, Live
<1>2. /\ phases[t] \in {"open", "overdue"} /\ goals[t] = Goal(t) /\ Goal(t)' = Goal(t)
      /\ goals' = goals /\ receipts[t] = Receipts(t)
  BY <1>1, WorkingPhase, Framed, SameGoal, Kept
<1>3. CASE BatchReply(t) \/ BatchFail(t)
  <2>1. CASE BatchFail(t)
    BY <1>1, <2>1, StepAnswers DEF BatchFail
  <2>2. CASE BatchReply(t)
    <3>1. Finish(t, "ok") /\ UNCHANGED <<ledgerVars, batchVars>>
      BY <2>2 DEF BatchReply
    <3>2. RunsBatch(t)' /\ reply'[t] = "ok" /\ Positions(t)' = Positions(t)
      BY <1>1, <3>1 DEF RunsBatch, Positions, Finish, Frame, PromiseInv, AnswerInv, TypeInv,
                        TypeOK
    <3>3. /\ signed[t] = Positions(t)
          /\ late[t] \/ \A i \in Positions(t) : ledger[batch[t][i]] = "finalized"
      BY <3>1, <3>2 DEF BatchInv, Sound, Truthful, batchVars, ledgerVars
    <3>4. ~RunsScript(t)
      BY <1>1 DEF RunsBatch, RunsScript, TokenProcedure, Script
    <3>5. late[t] => Receipts(t) = Goal(t)
      BY <3>3, <3>4 DEF Receipts, Goal
    <3>6. \A i \in Positions(t) : batch[t][i] \in UserTx
      BY DEF Positions, Frame, PromiseInv, AnswerInv, TypeInv, TypeOK
    <3>7. ~late[t] => \A x \in Goal(t) : IF x \in Task THEN Landed(x)
                                         ELSE ledger[x] = "finalized"
      BY <3>3, <3>4, <3>6, TxAssumption DEF Goal
    <3> QED
      BY <1>1, <3>1, <3>5, <3>7, StepAnswers
  <2> QED
    BY <1>3, <2>1, <2>2
<1>4. CASE ~BatchReply(t) /\ ~BatchFail(t)
  <2>1. pc'[t] \notin {"idle", "done"} /\ reply' = reply
    BY <1>1, <1>4
    DEF BatchStep, BatchPass, BatchSkip, SendLock, SendReturn, TpuSend, ConfirmLock,
        ConfirmReturn, MoveTo, StopAt, Take, Frame, PromiseInv, AnswerInv, TypeInv, TypeOK
  <2>2. phases' = phases
    BY <1>1, <2>1, Kept DEF Phase, Live
  <2>3. CASE BatchPass(t) \/ BatchSkip(t) \/ ConfirmLock(t) \/ ConfirmReturn(t)
    <3>1. UNCHANGED <<signed, ledgerVars>>
      BY <2>3 DEF BatchPass, BatchSkip, ConfirmLock, ConfirmReturn, batchVars
    <3>2. receipts' = receipts
      BY <1>1, <3>1, SameReceipts, Kept
    <3> QED
      BY <1>2, <2>1, <2>2, <3>1, <3>2, PromisedStutter
  <2>4. CASE SendLock(t) \/ TpuSend(t)
    <3>1. /\ UNCHANGED <<signed, fresh>> /\ ledger' = Submitted(CurrentTx(t))
          /\ pc[t] \in ToSend \cup ToConfirm
      BY <2>4 DEF SendLock, TpuSend, batchVars, ToSend, ToConfirm
    <3>2. receipts' = receipts
      BY <1>1, <3>1, SameReceipts, Kept
    <3>3. CurrentTx(t) \in goals[t]
      BY <1>1, <1>2, <3>1, BeingSent DEF Frame
    <3> QED
      BY <1>2, <2>1, <2>2, <3>1, <3>2, <3>3, PromisedHandOver
  <2>5. CASE SendReturn(t)
    <3>1. /\ pc[t] = "sendCall" /\ UNCHANGED ledgerVars
          /\ signed'[t] = signed[t] \cup {item[t]}
      BY <2>5 DEF SendReturn, Frame, PromiseInv, AnswerInv, TypeInv, TypeOK
    <3>2. HandedOver(CurrentTx(t)) /\ CurrentTx(t) \in goals[t]
      BY <1>1, <1>2, <3>1, BeingSent DEF Frame, PromiseInv, Known, ToSend
    <3>3. Receipts(t)' = Receipts(t) \cup {CurrentTx(t)}
      BY <1>1, <3>1 DEF Receipts, CurrentTx
    <3>4. receipts' = [receipts EXCEPT ![t] = @ \cup {CurrentTx(t)}]
      BY <1>2, <3>3, Framed
    <3> QED
      BY <1>2, <2>1, <2>2, <3>1, <3>2, <3>4, PromisedAcknowledge
  <2> QED
    BY <1>4, <2>3, <2>4, <2>5 DEF BatchStep
<1> QED
  BY <1>3, <1>4

LEMMA TimePromised ==
  ASSUME NEW t \in Task, Frame(t), Time(t)
  PROVE  Promise!GoOverdue(t)
<1>1. /\ Live(t) /\ ~late[t] /\ late'[t] = TRUE
      /\ UNCHANGED <<kind, own, batch, signed, reply, pc, ledgerVars>>
  BY DEF Time, Deadline, Frame, PromiseInv, AnswerInv, TypeInv, TypeOK
<1>2. phases[t] = "open" /\ Phase(t)' = "overdue"
  BY <1>1, Framed DEF Phase, Live
<1>3. goals' = goals /\ receipts' = receipts /\ phases' = [phases EXCEPT ![t] = "overdue"]
  BY <1>1, <1>2, Framed, SameGoal, SameReceipts, Kept
<1> QED
  BY <1>1, <1>2, <1>3, PromisedOverdue

LEMMA EveryStepPromised ==
  ASSUME PromiseInv, PromiseInv', [Next]_vars
  PROVE  PromisedStep
<1>1. ASSUME NEW t \in Task, Receive(t) \/ Cancel(t) \/ TaskStep(t) \/ Time(t)
      PROVE  PromisedStep
  <2>1. Frame(t)
    <3>1. TypeOK /\ TypeOK'
      BY DEF PromiseInv, AnswerInv, TypeInv
    <3>2. \A u \in Task \ {t} : own'[u] = own[u]
      BY <1>1, <3>1
      DEF Receive, Reject, AcceptToken, AcceptBatch, Cancel, TaskStep, TokenStep, TokenLock,
          TokenReturn, TokenSucceed, TokenFail, Answered, BuildOwn, Time, TypeOK
    <3> QED
      BY <1>1, <3>1, <3>2, OthersUntold DEF Frame
  <2>2. BatchInv'
    BY DEF PromiseInv
  <2>3. ASSUME Cancel(t) PROVE Promise!Close(t)
    BY <2>1, <2>3, StepAnswers DEF Cancel, Live, RpcWait, TpuWait, RpcCall
  <2>4. ASSUME \/ Promise!Open(t) \/ Promise!Refuse(t) \/ Promise!Build(t)
               \/ Promise!HandOver(t) \/ Promise!Acknowledge(t) \/ Promise!GoOverdue(t)
               \/ Promise!Close(t)
        PROVE  PromisedStep
    BY <2>4 DEF PromisedStep, Promise!Next
  <2> QED
    BY <1>1, <2>1, <2>2, <2>3, <2>4, ReceivePromised, TokenPromised, BatchPromised,
       TimePromised DEF TaskStep
<1>2. ASSUME UNCHANGED <<kind, pc, reply, own, batch, signed, late>>
      PROVE  phases' = phases /\ goals' = goals /\ receipts' = receipts
  BY <1>2 DEF phases, goals, receipts, Phase, Goal, Receipts, RunsScript, Positions
<1>3. CASE ClusterStep
  <2>1. Cluster /\ UNCHANGED <<kind, pc, reply, own, batch, signed, late>>
    BY <1>3 DEF ClusterStep, batchVars
  <2>2. Promise!ClusterStep
    BY <1>2, <2>1
    DEF Promise!ClusterStep, Promise!Cluster, Promise!NextBlockhash, Promise!Confirm,
        Promise!Finalize, Promise!Expire, Cluster, NextBlockhash, Confirm, Finalize, Expire,
        phases, goals, receipts, Phase, Goal, Receipts
  <2> QED
    BY <2>2 DEF PromisedStep, Promise!Next
<1>4. CASE UNCHANGED vars
  BY <1>2, <1>4, PromisedStutter DEF vars, batchVars, ledgerVars
<1> QED
  BY <1>1, <1>3, <1>4 DEF Next, Terminated

(* The service keeps its promise: no handler does more to the cluster, and *)
(* none claims more, than BroadcastPromise allows, RunGenesis included.    *)
(* That every request is answered, which RunGenesis breaks, is the fairness*)
(* of the promise and not stated here.                                     *)
THEOREM HandlersKeepPromise ==
  Safety => Promise!Init /\ [][Promise!Next]_(Promise!promiseVars)
<1>1. PromiseInv /\ PromiseInv' /\ [Next]_vars => [Promise!Next]_(Promise!promiseVars)
  BY EveryStepPromised DEF PromisedStep
<1> QED
  BY <1>1, PromisedInit, PromiseInvariant, PTL DEF Safety

===============================================================================
