----------------------------- MODULE MonitorQueue -----------------------------
(***************************************************************************)
(* The streaming handler monitor_queue of src/serum.rs.  For each request  *)
(* it makes a channel, spawns one forwarding task for the bids account and *)
(* one for the asks account, and returns the channel's receiver as the     *)
(* answer stream.                                                          *)
(*                                                                         *)
(* A forwarding task locks the one PubsubClient of the server and          *)
(* subscribes.  The subscription borrows the client, so the guard lives as *)
(* long as the task's loop: everyone else waits until it breaks, and it    *)
(* breaks only when a send finds the receiver gone.                        *)
(*                                                                         *)
(* What read_event_queue_bid and read_event_queue_ask answer is always an  *)
(* error ("not implemented yet"), as are the other two messages, and tonic *)
(* ends a stream at its first error.  So a message is only ever counted.   *)
(***************************************************************************)
EXTENDS Naturals

CONSTANTS Stream,      \* the monitor_queue requests of a run
          Capacity,    \* the capacity of a channel; 4 in the code
          NoForwarder  \* the holder of the free ws mutex

Side == {"bid", "ask"}
Forwarder == Stream \X Side

ASSUME NoForwarderAssumption == NoForwarder \notin Forwarder
ASSUME CapacityAssumption == Capacity \in Nat \ {0}

VARIABLES handler,     \* handler[s]: how far the handler of request s is
          task,        \* task[f]: how far the forwarding task f is
          ws,          \* the forwarder whose guard holds the ws mutex
          queue,       \* queue[s]: messages in the channel of s
          open,        \* open[s]: the receiver of s exists
          told,        \* told[s]: the status the stream ended with
          subscribed,  \* subscribed[f]: f has had a subscription
          wsUp         \* the websocket of the PubsubClient is alive

vars == <<handler, task, ws, queue, open, told, subscribed, wsUp>>

Guarded == {"subscribe", "next", "send"}
Ended == {"returned", "panicked"}

Init ==
  /\ handler = [s \in Stream |-> "idle"]
  /\ task = [f \in Forwarder |-> "unborn"]
  /\ ws = NoForwarder
  /\ queue = [s \in Stream |-> 0]
  /\ open = [s \in Stream |-> FALSE]
  /\ told = [s \in Stream |-> "none"]
  /\ subscribed = [f \in Forwarder |-> FALSE]
  /\ wsUp = TRUE

Moves(f, from, to) == task[f] = from /\ task' = [task EXCEPT ![f] = to]

(* A bad program id or market: refused before the channel is made.         *)
Refuse(s) ==
  /\ handler[s] = "idle"
  /\ handler' = [handler EXCEPT ![s] = "over"]
  /\ told' = [told EXCEPT ![s] = "error"]
  /\ UNCHANGED <<task, ws, queue, open, subscribed, wsUp>>

(* The arguments are good: the channel is made and the runtime's mutex is  *)
(* awaited to spawn the first task.                                        *)
Accept(s) ==
  /\ handler[s] = "idle"
  /\ handler' = [handler EXCEPT ![s] = "spawnBid"]
  /\ open' = [open EXCEPT ![s] = TRUE]
  /\ UNCHANGED <<task, ws, queue, told, subscribed, wsUp>>

SpawnBid(s) ==
  /\ handler[s] = "spawnBid"
  /\ handler' = [handler EXCEPT ![s] = "spawnAsk"]
  /\ Moves(<<s, "bid">>, "unborn", "wsLock")
  /\ UNCHANGED <<ws, queue, open, told, subscribed, wsUp>>

(* The second task is spawned, the handler's own sender is dropped and the *)
(* stream is handed to tonic.                                              *)
SpawnAsk(s) ==
  /\ handler[s] = "spawnAsk"
  /\ handler' = [handler EXCEPT ![s] = "streaming"]
  /\ Moves(<<s, "ask">>, "unborn", "wsLock")
  /\ UNCHANGED <<ws, queue, open, told, subscribed, wsUp>>

(* The receiver is dropped, with what is still in the channel.             *)
CloseChannel(s) ==
  /\ handler' = [handler EXCEPT ![s] = "over"]
  /\ open' = [open EXCEPT ![s] = FALSE]
  /\ queue' = [queue EXCEPT ![s] = 0]

(* The client goes away: the handler's future or the stream is dropped.    *)
(* The handles of the tasks were dropped before, so they live on.          *)
Leave(s) ==
  /\ handler[s] \in {"spawnBid", "spawnAsk", "streaming"}
  /\ CloseChannel(s)
  /\ UNCHANGED <<task, ws, told, subscribed, wsUp>>

(* tonic takes the first message; it is an error and ends the stream.      *)
Deliver(s) ==
  /\ handler[s] = "streaming"
  /\ queue[s] > 0
  /\ CloseChannel(s)
  /\ told' = [told EXCEPT ![s] = "error"]
  /\ UNCHANGED <<task, ws, subscribed, wsUp>>

(* Every sender is dropped and the channel is empty: the stream ends as if *)
(* all were well.                                                          *)
EndOfStream(s) ==
  /\ handler[s] = "streaming"
  /\ queue[s] = 0
  /\ \A side \in Side : task[<<s, side>>] \in Ended
  /\ CloseChannel(s)
  /\ told' = [told EXCEPT ![s] = "ok"]
  /\ UNCHANGED <<task, ws, subscribed, wsUp>>

LockWs(f) ==
  /\ ws = NoForwarder
  /\ ws' = f
  /\ Moves(f, "wsLock", "subscribe")
  /\ UNCHANGED <<handler, queue, open, told, subscribed, wsUp>>

Subscribe(f) ==
  /\ wsUp
  /\ Moves(f, "subscribe", "next")
  /\ subscribed' = [subscribed EXCEPT ![f] = TRUE]
  /\ UNCHANGED <<handler, ws, queue, open, told, wsUp>>

(* Mutant: the guard of a task that fails is never given back.             *)
SubscribeFails_keepsGuard(f) ==
  /\ Moves(f, "subscribe", IF f[2] = "bid" THEN "panicked" ELSE "returned")
  /\ UNCHANGED <<handler, ws, queue, open, told, subscribed, wsUp>>

(* account_subscribe fails: the bid task unwraps the error and panics, the *)
(* ask task returns.  Either way its sender and its guard are dropped.     *)
SubscribeFails(f) ==
  /\ Moves(f, "subscribe", IF f[2] = "bid" THEN "panicked" ELSE "returned")
  /\ ws' = NoForwarder
  /\ UNCHANGED <<handler, queue, open, told, subscribed, wsUp>>

(* The account changes: sub.next() yields it.                              *)
Update(f) ==
  /\ wsUp
  /\ Moves(f, "next", "send")
  /\ UNCHANGED <<handler, ws, queue, open, told, subscribed, wsUp>>

(* Mutants: the loop breaks at the end of the subscription; it asks again. *)
SubEnded_breaks(f) ==
  /\ ~wsUp
  /\ Moves(f, "next", "returned")
  /\ ws' = NoForwarder
  /\ UNCHANGED <<handler, queue, open, told, subscribed, wsUp>>
SubEnded_asksAgain(f) ==
  /\ ~wsUp
  /\ Moves(f, "next", "next")
  /\ UNCHANGED <<handler, ws, queue, open, told, subscribed, wsUp>>

(* The subscription is over: sub.next() yields None, now and ever after.   *)
SubEnded(f) ==
  /\ ~wsUp
  /\ Moves(f, "next", "send")
  /\ UNCHANGED <<handler, ws, queue, open, told, subscribed, wsUp>>

(* Mutant: an unbounded channel.                                           *)
Send_unbounded(f) ==
  /\ open[f[1]]
  /\ queue[f[1]] <= Capacity
  /\ Moves(f, "send", "next")
  /\ queue' = [queue EXCEPT ![f[1]] = @ + 1]
  /\ UNCHANGED <<handler, ws, open, told, subscribed, wsUp>>

(* The channel has room and takes the message.                             *)
Send(f) ==
  /\ open[f[1]]
  /\ queue[f[1]] < Capacity
  /\ Moves(f, "send", "next")
  /\ queue' = [queue EXCEPT ![f[1]] = @ + 1]
  /\ UNCHANGED <<handler, ws, open, told, subscribed, wsUp>>

(* Mutants: a full channel breaks the loop too (try_send); a failed send   *)
(* is reported and the loop goes on.                                       *)
SendFails_whenFull(f) ==
  /\ ~open[f[1]] \/ queue[f[1]] = Capacity
  /\ Moves(f, "send", "returned")
  /\ ws' = NoForwarder
  /\ UNCHANGED <<handler, queue, open, told, subscribed, wsUp>>
SendFails_goesOn(f) ==
  /\ ~open[f[1]]
  /\ Moves(f, "send", "next")
  /\ UNCHANGED <<handler, ws, queue, open, told, subscribed, wsUp>>

(* The receiver is gone: the loop breaks and the guard is dropped at last. *)
SendFails(f) ==
  /\ ~open[f[1]]
  /\ Moves(f, "send", "returned")
  /\ ws' = NoForwarder
  /\ UNCHANGED <<handler, queue, open, told, subscribed, wsUp>>

(* The validator closes the websocket; the PubsubClient does not reconnect.*)
WsDown ==
  /\ wsUp
  /\ wsUp' = FALSE
  /\ UNCHANGED <<handler, task, ws, queue, open, told, subscribed>>

HandlerStep(s) == SpawnBid(s) \/ SpawnAsk(s) \/ Deliver(s) \/ EndOfStream(s)

ForwarderStep(f) ==
  LockWs(f) \/ Subscribe(f) \/ SubscribeFails(f) \/ SubEnded(f) \/ Send(f) \/ SendFails(f)

(* Nothing left to do: no request to come, no task that can move.          *)
Quiet ==
  /\ \A s \in Stream : handler[s] = "over"
  /\ \A f \in Forwarder : task[f] \in Ended \cup {"unborn"}
  /\ UNCHANGED vars

Next ==
  \/ \E s \in Stream : Refuse(s) \/ Accept(s) \/ Leave(s) \/ HandlerStep(s)
  \/ \E f \in Forwarder : ForwarderStep(f) \/ Update(f)
  \/ WsDown
  \/ Quiet

(* The runtime polls every task that can move.  Clients, the market and    *)
(* the websocket owe nothing.                                              *)
Fairness ==
  /\ \A s \in Stream : WF_vars(HandlerStep(s))
  /\ \A f \in Forwarder : WF_vars(ForwarderStep(f))

Spec == Init /\ [][Next]_vars /\ Fairness

(* The same on a market whose accounts keep changing.                      *)
BusySpec == Spec /\ \A f \in Forwarder : WF_vars(Update(f))
-------------------------------------------------------------------------------
(* Every variable has its type; a channel never exceeds its capacity.      *)
TypeOK ==
  /\ handler \in [Stream -> {"idle", "spawnBid", "spawnAsk", "streaming", "over"}]
  /\ task \in [Forwarder -> {"unborn", "wsLock"} \cup Guarded \cup Ended]
  /\ ws \in Forwarder \cup {NoForwarder}
  /\ queue \in [Stream -> 0..Capacity]
  /\ open \in [Stream -> BOOLEAN]
  /\ told \in [Stream -> {"none", "ok", "error"}]
  /\ subscribed \in [Forwarder -> BOOLEAN]
  /\ wsUp \in BOOLEAN

(* The guard is held from the lock to the end of the task, panics          *)
(* included, and by nobody else: the mutex cannot be lost with a task.     *)
GuardMatchesTask == \A f \in Forwarder : ws = f <=> task[f] \in Guarded

(* A stream that ends with an OK status has watched nothing: both          *)
(* subscriptions failed.  A client cannot take it for a quiet market.      *)
CleanEndMeansNothingMonitored ==
  \A s \in Stream : told[s] = "ok" => \A side \in Side : ~subscribed[<<s, side>>]

(* A forwarder gives up only because it could not subscribe or because its *)
(* receiver is gone: it never abandons a client who still listens.         *)
ListenersAreNotAbandoned ==
  \A f \in Forwarder : subscribed[f] /\ open[f[1]] => task[f] \in Guarded
-------------------------------------------------------------------------------
(* `returns (stream Event)` of both sides of the book: a client who keeps  *)
(* listening has its bids and its asks account subscribed to.              *)
BothSidesMonitored ==
  \A s \in Stream :
    handler[s] = "streaming"
      ~> ~open[s] \/ \A side \in Side : subscribed[<<s, side>>] \/ task[<<s, side>>] \in Ended

(* On a market that moves, no stream lasts and no forwarder survives its   *)
(* client, so that the websocket client keeps coming free.                 *)
LeaversAreForgotten ==
  \A s \in Stream :
    handler[s] = "over" ~> \A side \in Side : task[<<s, side>>] \in Ended \cup {"unborn"}

(* On a market that moves every request that came in is served or ends:    *)
(* one who waits for the websocket client gets its turn.                   *)
EveryoneGetsTheSocket ==
  \A f \in Forwarder : task[f] = "wsLock" ~> task[f] = "subscribe"

(* Once the websocket is down, with no update to wake anyone, every        *)
(* forwarder still comes to its end and every stream is closed.            *)
LossOfSocketEndsAll ==
  \A s \in Stream : ~wsUp /\ handler[s] = "streaming" ~>
    handler[s] = "over" /\ \A side \in Side : task[<<s, side>>] \in Ended
===============================================================================
