-------------------------------- MODULE SendTx --------------------------------
(***************************************************************************)
(* The handler send_tx of src/sol.rs: broadcast a batch of signed          *)
(* transactions and poll until all are finalized or MAX_PROCESSING_AGE     *)
(* seconds have passed.                                                    *)
(*                                                                         *)
(* A pass visits the SendResults in order.  One without a signature is     *)
(* sent through the RPC node; one not yet in_system is then sent over the  *)
(* TPU and its confirmation is asked for -- with the TPU guard still held, *)
(* across the 10 ms sleep and the RPC.  The clock is read only between     *)
(* two passes.                                                             *)
(***************************************************************************)
EXTENDS Naturals, Sequences, FiniteSets, Requests, Ledger

CONSTANT UserTx        \* the transactions clients may put in a batch

VARIABLES batch,          \* batch[t]: the transactions of request t, in order
          item,           \* item[t]: the position the pass is at, 0 outside one
          signed,         \* signed[t]: the positions whose sig is Some
          inSystem,       \* inSystem[t]: the positions with in_system = true
          confirmedCount, \* confirmedCount[t]: confirmed_tx_count
          late            \* late[t]: now.elapsed() exceeds wait_time

batchVars == <<batch, item, signed, inSystem, confirmedCount, late>>

RunsBatch(t) == kind[t] = "send_tx"
Positions(t) == 1..Len(batch[t])
CurrentTx(t) == batch[t][item[t]]

(* Mutant: a position goes to the TPU whether it has a signature or not.   *)
StopAt_skipsRpcSend(t, i, done) ==
  IF i \notin Positions(t) THEN "head"
  ELSE IF i \notin done THEN "tpuLock"
  ELSE "skip"

(* Where the pass stops first when it reaches position i, given the        *)
(* positions done that are in_system.                                      *)
StopAt(t, i, done) ==
  IF i \notin Positions(t) THEN "head"
  ELSE IF i \notin signed[t] THEN "sendLock"
  ELSE IF i \notin done THEN "tpuLock"
  ELSE "skip"

MoveTo(t, i, done) ==
  /\ pc' = [pc EXCEPT ![t] = StopAt(t, i, done)]
  /\ item' = [item EXCEPT ![t] = IF i \in Positions(t) THEN i ELSE 0]

(* Mutants: the loop stops one short; the loop does not look at the clock. *)
KeepsPolling_oneShort(t) == ~late[t] /\ confirmedCount[t] + 1 < Len(batch[t])
KeepsPolling_noClock(t) == confirmedCount[t] < Len(batch[t])

(* The while condition of the polling loop.                                *)
KeepsPolling(t) == ~late[t] /\ confirmedCount[t] < Len(batch[t])

BatchPass(t) ==
  /\ RunsBatch(t)
  /\ pc[t] = "head"
  /\ KeepsPolling(t)
  /\ MoveTo(t, 1, inSystem[t])
  /\ UNCHANGED <<kind, reply, holder, ledgerVars,
                 batch, signed, inSystem, confirmedCount, late>>

(* The loop is over: the signatures found so far are the answer.           *)
BatchReply(t) ==
  /\ RunsBatch(t)
  /\ pc[t] = "head"
  /\ ~KeepsPolling(t)
  /\ Finish(t, "ok")
  /\ UNCHANGED <<kind, ledgerVars, batchVars>>

(* The position is signed and in_system: nothing to do for it.             *)
BatchSkip(t) ==
  /\ RunsBatch(t)
  /\ pc[t] = "skip"
  /\ MoveTo(t, item[t] + 1, inSystem[t])
  /\ UNCHANGED <<kind, reply, holder, ledgerVars,
                 batch, signed, inSystem, confirmedCount, late>>

(* send_transaction_with_config under the rpc guard.                       *)
SendLock(t) ==
  /\ RunsBatch(t)
  /\ pc[t] = "sendLock"
  /\ Take(t, "rpc", "sendCall")
  /\ ledger' = Submitted(CurrentTx(t)) /\ UNCHANGED fresh
  /\ UNCHANGED <<kind, reply, batchVars>>

(* Mutant: the rpc guard lives on beyond the block that sends.             *)
SendReturn_keepsGuard(t) ==
  /\ RunsBatch(t)
  /\ pc[t] = "sendCall"
  /\ signed' = [signed EXCEPT ![t] = @ \cup {item[t]}]
  /\ pc' = [pc EXCEPT ![t] = "tpuLock"]
  /\ UNCHANGED <<kind, reply, holder, ledgerVars,
                 batch, item, inSystem, confirmedCount, late>>

(* The signature is stored and the block ends, its guard with it.          *)
SendReturn(t) ==
  /\ RunsBatch(t)
  /\ pc[t] = "sendCall"
  /\ signed' = [signed EXCEPT ![t] = @ \cup {item[t]}]
  /\ holder' = Dropped(t, {"rpc"})
  /\ pc' = [pc EXCEPT ![t] = "tpuLock"]
  /\ UNCHANGED <<kind, reply, ledgerVars,
                 batch, item, inSystem, confirmedCount, late>>

(* The tpu mutex is granted, the wire transaction goes out, the thread     *)
(* sleeps, and the rpc mutex is asked for -- all before the next await.    *)
TpuSend(t) ==
  /\ RunsBatch(t)
  /\ pc[t] = "tpuLock"
  /\ Take(t, "tpu", "confirmLock")
  /\ ledger' = Submitted(CurrentTx(t)) /\ UNCHANGED fresh
  /\ UNCHANGED <<kind, reply, batchVars>>

ConfirmLock(t) ==
  /\ RunsBatch(t)
  /\ pc[t] = "confirmLock"
  /\ Take(t, "rpc", "confirmCall")
  /\ UNCHANGED <<kind, reply, ledgerVars, batchVars>>

(* Mutant: the check asks for commitment "confirmed".                      *)
IsFinal_onceConfirmed(x) == Landed(x)

(* What confirm_transaction_with_commitment answers, at Finalized.         *)
IsFinal(x) == ledger[x] = "finalized"

(* The check answers; true marks the position, and both guards end with    *)
(* the block.                                                              *)
ConfirmReturn(t) ==
  /\ RunsBatch(t)
  /\ pc[t] = "confirmCall"
  /\ LET final == IsFinal(CurrentTx(t))
         done == IF final THEN inSystem[t] \cup {item[t]} ELSE inSystem[t]
     IN  /\ inSystem' = [inSystem EXCEPT ![t] = done]
         /\ confirmedCount' = [confirmedCount EXCEPT ![t] =
                                 IF final THEN @ + 1 ELSE @]
         /\ MoveTo(t, item[t] + 1, done)
  /\ holder' = Dropped(t, {"rpc", "tpu"})
  /\ UNCHANGED <<kind, reply, ledgerVars, batch, signed, late>>

(* An RPC fails, or send_wire_transaction says false: the handler returns  *)
(* an error and the signatures it has collected are lost.                  *)
BatchFail(t) ==
  /\ RunsBatch(t)
  /\ \/ pc[t] \in {"sendCall", "confirmCall"}
     \/ pc[t] = "tpuLock" /\ holder["tpu"] = NoTask
  /\ Finish(t, "internal")
  /\ UNCHANGED <<kind, ledgerVars, batchVars>>

(* Time passes: now.elapsed() has gone beyond wait_time.  The first look   *)
(* at the clock comes right after it was started, no await in between.     *)
Deadline(t) ==
  /\ RunsBatch(t)
  /\ Live(t)
  /\ pc[t] = "head" => signed[t] # {}
  /\ ~late[t]
  /\ late' = [late EXCEPT ![t] = TRUE]
  /\ UNCHANGED <<kind, pc, reply, holder, ledgerVars,
                 batch, item, signed, inSystem, confirmedCount>>

BatchStep(t) ==
  \/ BatchPass(t) \/ BatchReply(t) \/ BatchSkip(t)
  \/ SendLock(t) \/ SendReturn(t)
  \/ TpuSend(t) \/ ConfirmLock(t) \/ ConfirmReturn(t)
  \/ BatchFail(t)
===============================================================================
