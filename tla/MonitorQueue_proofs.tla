-------------------------- MODULE MonitorQueue_proofs --------------------------
(***************************************************************************)
(* Theorems about the streaming handler for any number of streams and any  *)
(* capacity of their channels.                                             *)
(***************************************************************************)
EXTENDS MonitorQueue, TLAPS

(* What the runs' invariants rest on: tasks are spawned in order, the      *)
(* receiver lives as long as the handler, a subscription comes before the  *)
(* first change and a stream that ended well has no task left.             *)
TasksInOrder ==
  /\ \A s \in Stream : handler[s] \in {"idle", "spawnBid"} =>
       \A side \in Side : task[<<s, side>>] = "unborn"
  /\ \A s \in Stream : handler[s] \in {"spawnBid", "spawnAsk", "streaming"} => open[s]
  /\ \A f \in Forwarder : subscribed[f] => task[f] \in {"next", "send", "returned"}
  /\ \A s \in Stream : told[s] = "ok" => \A side \in Side : task[<<s, side>>] \in Ended

MonitorInv ==
  /\ TypeOK
  /\ GuardMatchesTask
  /\ TasksInOrder
  /\ ListenersAreNotAbandoned
  /\ CleanEndMeansNothingMonitored

LEMMA Forwarders ==
  /\ \A s \in Stream, side \in Side : <<s, side>> \in Forwarder
  /\ \A f \in Forwarder : f[1] \in Stream /\ f[2] \in Side /\ f = <<f[1], f[2]>>
  /\ "bid" \in Side /\ "ask" \in Side
BY DEF Forwarder, Side

LEMMA MonitorInit == Init => MonitorInv
  BY Forwarders, NoForwarderAssumption, CapacityAssumption
  DEF Init, MonitorInv, TypeOK, GuardMatchesTask, TasksInOrder,
      ListenersAreNotAbandoned, CleanEndMeansNothingMonitored, Guarded, Ended

(* The handler, its client and tonic: no guard changes hands.              *)
LEMMA HandlerKeepsInv ==
  ASSUME MonitorInv, NEW s \in Stream,
         Refuse(s) \/ Accept(s) \/ Leave(s) \/ HandlerStep(s)
  PROVE  MonitorInv'
<1> USE Forwarders, NoForwarderAssumption, CapacityAssumption
<1>1. CASE Refuse(s)
  BY <1>1 DEF Refuse, MonitorInv, TypeOK, GuardMatchesTask, TasksInOrder,
              ListenersAreNotAbandoned, CleanEndMeansNothingMonitored, Guarded, Ended
<1>2. CASE Accept(s)
  BY <1>2 DEF Accept, MonitorInv, TypeOK, GuardMatchesTask, TasksInOrder,
              ListenersAreNotAbandoned, CleanEndMeansNothingMonitored, Guarded, Ended
<1>3. CASE Leave(s)
  BY <1>3 DEF Leave, CloseChannel, MonitorInv, TypeOK, GuardMatchesTask, TasksInOrder,
              ListenersAreNotAbandoned, CleanEndMeansNothingMonitored, Guarded, Ended
<1>4. CASE SpawnBid(s)
  <2> DEFINE f == <<s, "bid">>
  <2>1. /\ f \in Forwarder /\ task[f] = "unborn" /\ task' = [task EXCEPT ![f] = "wsLock"]
        /\ f[1] = s
    BY <1>4 DEF SpawnBid, Moves, Forwarder, Side
  <2>2. TypeOK' /\ GuardMatchesTask'
    BY <1>4, <2>1 DEF SpawnBid, MonitorInv, TypeOK, GuardMatchesTask, Guarded
  <2>3. ~subscribed[f] /\ told[s] # "ok"
    BY <2>1 DEF MonitorInv, TasksInOrder, Ended, Side
  <2>4. TasksInOrder'
    <3>1. \A u \in Stream \ {s} : /\ handler'[u] = handler[u]
                                  /\ \A side \in Side : task'[<<u, side>>] = task[<<u, side>>]
      BY <1>4, <2>1 DEF SpawnBid, MonitorInv, TypeOK
    <3>2. handler'[s] = "spawnAsk" /\ open[s]
      BY <1>4 DEF SpawnBid, MonitorInv, TypeOK, TasksInOrder
    <3>3. \A g \in Forwarder \ {f} : task'[g] = task[g]
      BY <2>1 DEF MonitorInv, TypeOK
    <3> HIDE DEF f
    <3>4. UNCHANGED <<open, told, subscribed>>
      BY <1>4 DEF SpawnBid
    <3> QED
      BY <2>3, <3>1, <3>2, <3>3, <3>4 DEF MonitorInv, TasksInOrder
  <2>5. ListenersAreNotAbandoned' /\ CleanEndMeansNothingMonitored'
    BY <1>4, <2>1, <2>3
    DEF SpawnBid, MonitorInv, TypeOK, ListenersAreNotAbandoned, CleanEndMeansNothingMonitored
  <2> QED
    BY <2>2, <2>4, <2>5 DEF MonitorInv
<1>5. CASE SpawnAsk(s)
  <2> DEFINE f == <<s, "ask">>
  <2>1. /\ f \in Forwarder /\ task[f] = "unborn" /\ task' = [task EXCEPT ![f] = "wsLock"]
        /\ f[1] = s
    BY <1>5 DEF SpawnAsk, Moves, Forwarder, Side
  <2>2. TypeOK' /\ GuardMatchesTask'
    BY <1>5, <2>1 DEF SpawnAsk, MonitorInv, TypeOK, GuardMatchesTask, Guarded
  <2>3. ~subscribed[f] /\ told[s] # "ok"
    BY <2>1 DEF MonitorInv, TasksInOrder, Ended, Side
  <2>4. TasksInOrder'
    <3>1. \A u \in Stream \ {s} : /\ handler'[u] = handler[u]
                                  /\ \A side \in Side : task'[<<u, side>>] = task[<<u, side>>]
      BY <1>5, <2>1 DEF SpawnAsk, MonitorInv, TypeOK
    <3>2. handler'[s] = "streaming" /\ open[s]
      BY <1>5 DEF SpawnAsk, MonitorInv, TypeOK, TasksInOrder
    <3>3. \A g \in Forwarder \ {f} : task'[g] = task[g]
      BY <2>1 DEF MonitorInv, TypeOK
    <3> HIDE DEF f
    <3>4. UNCHANGED <<open, told, subscribed>>
      BY <1>5 DEF SpawnAsk
    <3> QED
      BY <2>3, <3>1, <3>2, <3>3, <3>4 DEF MonitorInv, TasksInOrder
  <2>5. ListenersAreNotAbandoned' /\ CleanEndMeansNothingMonitored'
    BY <1>5, <2>1, <2>3
    DEF SpawnAsk, MonitorInv, TypeOK, ListenersAreNotAbandoned, CleanEndMeansNothingMonitored
  <2> QED
    BY <2>2, <2>4, <2>5 DEF MonitorInv
<1>6. CASE Deliver(s)
  BY <1>6 DEF Deliver, CloseChannel, MonitorInv, TypeOK, GuardMatchesTask, TasksInOrder,
              ListenersAreNotAbandoned, CleanEndMeansNothingMonitored, Guarded, Ended
<1>7. CASE EndOfStream(s)
  BY <1>7 DEF EndOfStream, CloseChannel, MonitorInv, TypeOK, GuardMatchesTask, TasksInOrder,
              ListenersAreNotAbandoned, CleanEndMeansNothingMonitored, Guarded, Ended
<1> QED
  BY <1>1, <1>2, <1>3, <1>4, <1>5, <1>6, <1>7 DEF HandlerStep

(* A forwarder: the guard follows its task into the loop and out of it.    *)
LEMMA ForwarderKeepsInv ==
  ASSUME MonitorInv, NEW f \in Forwarder, ForwarderStep(f) \/ Update(f)
  PROVE  MonitorInv'
<1> USE Forwarders, NoForwarderAssumption, CapacityAssumption
<1>1. CASE LockWs(f)
  BY <1>1 DEF LockWs, Moves, MonitorInv, TypeOK, GuardMatchesTask, TasksInOrder,
              ListenersAreNotAbandoned, CleanEndMeansNothingMonitored, Guarded, Ended
<1>2. CASE Subscribe(f)
  BY <1>2 DEF Subscribe, Moves, MonitorInv, TypeOK, GuardMatchesTask, TasksInOrder,
              ListenersAreNotAbandoned, CleanEndMeansNothingMonitored, Guarded, Ended
<1>3. CASE SubscribeFails(f)
  BY <1>3 DEF SubscribeFails, Moves, MonitorInv, TypeOK, GuardMatchesTask, TasksInOrder,
              ListenersAreNotAbandoned, CleanEndMeansNothingMonitored, Guarded, Ended
<1>4. CASE Update(f) \/ SubEnded(f)
  BY <1>4 DEF Update, SubEnded, Moves, MonitorInv, TypeOK, GuardMatchesTask, TasksInOrder,
              ListenersAreNotAbandoned, CleanEndMeansNothingMonitored, Guarded, Ended
<1>5. CASE Send(f)
  BY <1>5 DEF Send, Moves, MonitorInv, TypeOK, GuardMatchesTask, TasksInOrder,
              ListenersAreNotAbandoned, CleanEndMeansNothingMonitored, Guarded, Ended
<1>6. CASE SendFails(f)
  BY <1>6 DEF SendFails, Moves, MonitorInv, TypeOK, GuardMatchesTask, TasksInOrder,
              ListenersAreNotAbandoned, CleanEndMeansNothingMonitored, Guarded, Ended
<1> QED
  BY <1>1, <1>2, <1>3, <1>4, <1>5, <1>6 DEF ForwarderStep

LEMMA MonitorNext == MonitorInv /\ [Next]_vars => MonitorInv'
<1> SUFFICES ASSUME MonitorInv, [Next]_vars PROVE MonitorInv'
  OBVIOUS
<1>1. CASE WsDown
  BY <1>1 DEF WsDown, MonitorInv, TypeOK, GuardMatchesTask, TasksInOrder,
              ListenersAreNotAbandoned, CleanEndMeansNothingMonitored
<1>2. CASE UNCHANGED vars
  BY <1>2 DEF vars, MonitorInv, TypeOK, GuardMatchesTask, TasksInOrder,
              ListenersAreNotAbandoned, CleanEndMeansNothingMonitored
<1> QED
  BY <1>1, <1>2, HandlerKeepsInv, ForwarderKeepsInv DEF Next, Quiet

LEMMA MonitorInvariant == Spec => []MonitorInv
  BY MonitorInit, MonitorNext, PTL DEF Spec

(* Type correctness: a channel never holds more than its capacity.         *)
THEOREM MonitorTypeCorrect == Spec => []TypeOK
<1>1. MonitorInv => TypeOK
  BY DEF MonitorInv
<1> QED
  BY <1>1, MonitorInvariant, PTL

(* The one websocket client of src/serum.rs is not lost with a task: its   *)
(* mutex is held by a forwarder in its loop, or free, for any number of    *)
(* streams and however their tasks panic, return or outlive their clients. *)
THEOREM SocketGuardFollowsTask == Spec => []GuardMatchesTask
<1>1. MonitorInv => GuardMatchesTask
  BY DEF MonitorInv
<1> QED
  BY <1>1, MonitorInvariant, PTL

(* A forwarder that has subscribed goes on as long as its receiver exists. *)
THEOREM NobodyIsAbandoned == Spec => []ListenersAreNotAbandoned
<1>1. MonitorInv => ListenersAreNotAbandoned
  BY DEF MonitorInv
<1> QED
  BY <1>1, MonitorInvariant, PTL

(* A stream ends with OK only if neither of its sides was subscribed to.   *)
THEOREM CleanEndIsNoQuietMarket == Spec => []CleanEndMeansNothingMonitored
<1>1. MonitorInv => CleanEndMeansNothingMonitored
  BY DEF MonitorInv
<1> QED
  BY <1>1, MonitorInvariant, PTL
===============================================================================
