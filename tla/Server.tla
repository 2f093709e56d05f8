-------------------------------- MODULE Server --------------------------------
(***************************************************************************)
(* The whole daemon as src/server.rs puts it together: the Broadcast and   *)
(* the Dex service in one process, behind the same port.  Each service has *)
(* an RPC client and a mutex of its own; what they share is the transport, *)
(* which runs at most concurrency_limit_per_connection requests of a       *)
(* connection at a time, whichever service they are for, and leaves the    *)
(* others waiting in the connection.                                       *)
(*                                                                         *)
(* A request belongs to the limit from its admission to the end of its     *)
(* handler.  A client may send its requests over any connection.  A        *)
(* connection that breaks is the end of each of its requests: Cancel.      *)
(***************************************************************************)
EXTENDS Broadcast

CONSTANTS DexTask,         \* the requests for the Dex service
          DexTx,           \* the transactions they make
          DexProcedure,    \* what they may ask for
          LimitSize,       \* see Orders
          OrderRequest,    \* see DexCalls
          Connection,      \* the connections clients have opened
          NoConnection,    \* that of a request not sent yet
          PermitLimit      \* requests a connection runs; 64 in the code

ASSUME DisjointAssumption == Task \cap DexTask = {}
ASSUME NoConnectionAssumption == NoConnection \notin Connection
ASSUME PermitLimitAssumption == PermitLimit \in Nat \ {0}

VARIABLES conn,            \* conn[r]: the connection request r was sent over
          dexKind, dexPc, dexReply, dexHolder, dexLedger, dexFresh,
          dexCalls, dexAsked, dexSigned, dexVerdict, dexRead

dexVars == <<dexKind, dexPc, dexReply, dexHolder, dexLedger, dexFresh,
             dexCalls, dexAsked, dexSigned, dexVerdict, dexRead>>
serverVars == <<vars, dexVars, conn>>

D == INSTANCE DexCalls WITH
  Task <- DexTask, Tx <- DexTx, Procedure <- DexProcedure,
  kind <- dexKind, pc <- dexPc, reply <- dexReply, holder <- dexHolder,
  ledger <- dexLedger, fresh <- dexFresh, calls <- dexCalls,
  asked <- dexAsked, signed <- dexSigned, verdict <- dexVerdict, read <- dexRead

(* What the Dex service takes for granted, see DexCalls and Orders.        *)
ASSUME DexAssumption ==
  /\ NoTask \notin DexTask
  /\ DexTx = DexTask \X D!Part
  /\ DexProcedure \subseteq D!Handler
  /\ LimitSize \in Nat \ {0, 1}
  /\ \A req \in OrderRequest :
       req.order = "v3" => req.side \in BOOLEAN /\ req.limit \in Nat

Request == Task \cup DexTask

ServerInit ==
  /\ Init
  /\ D!Init
  /\ conn = [r \in Request |-> NoConnection]

Running(r) == IF r \in Task THEN Live(r) ELSE D!Live(r)
HasAnswer(r) == IF r \in Task THEN reply[r] # "none" ELSE dexReply[r] # "none"
Sent(r) == conn[r] # NoConnection

(* Mutant: one limit for the whole server.                                 *)
HasPermit_global(r) == Cardinality({q \in Request : Running(q)}) < PermitLimit

(* The connection of r runs fewer requests than it may.                    *)
HasPermit(r) ==
  Cardinality({q \in Request : conn[q] = conn[r] /\ Running(q)}) < PermitLimit

(* A client sends a request; it waits in its connection.                   *)
Send(r, c) ==
  /\ ~Sent(r)
  /\ conn' = [conn EXCEPT ![r] = c]
  /\ UNCHANGED <<vars, dexVars>>

(* The connection takes up a request: its handler starts.                  *)
AdmitBroadcast(t) ==
  /\ Sent(t) /\ HasPermit(t)
  /\ Receive(t)
  /\ UNCHANGED <<dexVars, conn>>

AdmitDex(d) ==
  /\ Sent(d) /\ HasPermit(d)
  /\ \E k \in DexProcedure : D!Refuse(d, k) \/ D!Accept(d, k) \/ D!AnswerAtOnce(d, k)
  /\ UNCHANGED <<vars, conn>>

BroadcastServes ==
  /\ \/ \E t \in Task : TaskStep(t) \/ Time(t) \/ Cancel(t)
     \/ ClusterStep
  /\ UNCHANGED <<dexVars, conn>>

DexServes ==
  /\ \/ \E d \in DexTask : D!TaskStep(d) \/ D!Cancel(d) \/ D!ClientSubmits(d)
     \/ D!ClusterStep
  /\ UNCHANGED <<vars, conn>>

AllServed == (\A r \in Request : HasAnswer(r)) /\ UNCHANGED serverVars

ServerNext ==
  \/ \E r \in Request, c \in Connection : Send(r, c)
  \/ \E t \in Task : AdmitBroadcast(t)
  \/ \E d \in DexTask : AdmitDex(d)
  \/ BroadcastServes \/ DexServes \/ AllServed

(* The transport admits whoever has a permit, and polls every handler.     *)
ServerFairness ==
  /\ \A t \in Task :
       /\ WF_serverVars(AdmitBroadcast(t))
       /\ WF_serverVars(TaskStep(t) /\ UNCHANGED <<dexVars, conn>>)
       /\ WF_serverVars(Time(t) /\ UNCHANGED <<dexVars, conn>>)
  /\ \A d \in DexTask :
       /\ WF_serverVars(AdmitDex(d))
       /\ WF_serverVars(D!TaskStep(d) /\ UNCHANGED <<vars, conn>>)

(* Its runs, whoever is scheduled, and those in which everybody is.        *)
ServerSafety == ServerInit /\ [][ServerNext]_serverVars
ServerSpec == ServerSafety /\ ServerFairness
-------------------------------------------------------------------------------
Carries(c, t) == conn[t] = c

(* RunGenesis may block every request of the Broadcast service, and with   *)
(* them the Dex requests that wait behind any of them in a connection: the *)
(* services are isolated only as far as their clients keep to connections  *)
(* of their own.  On one that carries no Broadcast request every Dex       *)
(* request is answered, whatever goes on in the other service.             *)
ServicesAreIsolated ==
  \A d \in DexTask, c \in Connection :
    ([](\A t \in Task : ~Carries(c, t))) => (Carries(c, d) ~> HasAnswer(d))

(* Once the clients of the stuck requests have given up, everybody who has *)
(* sent or sends a request gets an answer, from either service.            *)
EverybodyRecovers ==
  (<>[](\A t \in Task : ~Stuck(t))) =>
    \A r \in Request : Sent(r) ~> HasAnswer(r)
===============================================================================
