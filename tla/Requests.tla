------------------------------- MODULE Requests -------------------------------
(***************************************************************************)
(* The life of a gRPC request inside the Broadcast server of src/sol.rs,   *)
(* and the two async mutexes its handlers share: MyServer.rpc and          *)
(* MyServer.tpu.  A handler is a future: it runs without interruption from *)
(* one await to the next, so an action is what happens between two awaits. *)
(* It awaits either a mutex or the answer of an RPC, and a MutexGuard is   *)
(* released when the block that owns it ends, when the handler returns or  *)
(* when its future is dropped.                                             *)
(***************************************************************************)
CONSTANTS Task,        \* the requests a run may receive, one handler run each
          NoTask,      \* the holder of a free mutex
          Procedure    \* what the requests of a run may ask for

ASSUME NoTaskAssumption == NoTask \notin Task

VARIABLES kind,        \* kind[t]: the procedure request t runs
          pc,          \* pc[t]: the await (or the loop head) it has reached
          reply,       \* reply[t]: what the client was answered
          holder       \* holder[m]: the request whose guard holds mutex m

Mutex == {"tpu", "rpc"}

(* The awaits, by what they wait for.  "head" and "skip" are the loop      *)
(* heads of send_tx, where no await is pending.                            *)
RpcWait == {"lock", "sendLock", "confirmLock"}
TpuWait == {"tpuLock"}
RpcCall == {"call", "sendCall", "confirmCall"}
PC == {"idle", "head", "skip", "done"} \cup RpcWait \cup TpuWait \cup RpcCall

Reply == {"none", "ok", "invalid", "internal", "cancelled"}

Waits(t, m) == pc[t] \in (IF m = "rpc" THEN RpcWait ELSE TpuWait)
Holds(t, m) == holder[m] = t
Live(t) == pc[t] \notin {"idle", "done"}

(* futures::lock::Mutex::lock().await: granted only while the mutex is     *)
(* free, and not re-entrant: a task that asks again for a mutex it holds   *)
(* waits like any other.                                                   *)
Take(t, m, next) ==
  /\ Waits(t, m)
  /\ holder[m] = NoTask
  /\ holder' = [holder EXCEPT ![m] = t]
  /\ pc' = [pc EXCEPT ![t] = next]

(* The mutexes once the guards of t on the mutexes ms are dropped.         *)
Dropped(t, ms) ==
  [m \in Mutex |-> IF m \in ms /\ holder[m] = t THEN NoTask ELSE holder[m]]

(* Mutant: the guards survive the future they belong to.                   *)
Finish_leaksGuards(t, r) ==
  /\ pc' = [pc EXCEPT ![t] = "done"]
  /\ reply' = [reply EXCEPT ![t] = r]
  /\ UNCHANGED holder

(* The handler of t returns r: every guard it still owns goes with it.     *)
Finish(t, r) ==
  /\ pc' = [pc EXCEPT ![t] = "done"]
  /\ reply' = [reply EXCEPT ![t] = r]
  /\ holder' = Dropped(t, Mutex)
===============================================================================
