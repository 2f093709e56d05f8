----------------------------- MODULE Server_proofs -----------------------------
(***************************************************************************)
(* What is proved of the services alone holds in the daemon that runs them *)
(* side by side, for any number of requests, connections and permits: the  *)
(* transport decides when a handler starts and touches nothing it uses.    *)
(***************************************************************************)
EXTENDS Server, BroadcastRefinement_proofs

(* The theorems about the Dex service, of the variables it has here.       *)
DP == INSTANCE DexRefinement_proofs WITH
  Task <- DexTask, Tx <- DexTx, Procedure <- DexProcedure,
  kind <- dexKind, pc <- dexPc, reply <- dexReply, holder <- dexHolder,
  ledger <- dexLedger, fresh <- dexFresh, calls <- dexCalls,
  asked <- dexAsked, signed <- dexSigned, verdict <- dexVerdict, read <- dexRead

(* A step of the daemon is a step of the Broadcast service or none of its  *)
(* business.                                                               *)
LEMMA BroadcastSteps == ASSUME [ServerNext]_serverVars PROVE [Next]_vars
<1>1. CASE UNCHANGED serverVars
  BY <1>1 DEF serverVars
<1>2. ASSUME NEW r \in Request, NEW c \in Connection, Send(r, c)
      PROVE  [Next]_vars
  BY <1>2 DEF Send
<1>3. ASSUME NEW t \in Task, AdmitBroadcast(t)
      PROVE  [Next]_vars
  BY <1>3 DEF AdmitBroadcast, Next
<1>4. ASSUME NEW d \in DexTask, AdmitDex(d)
      PROVE  [Next]_vars
  BY <1>4 DEF AdmitDex
<1>5. CASE BroadcastServes
  BY <1>5 DEF BroadcastServes, Next
<1>6. CASE DexServes
  BY <1>6 DEF DexServes
<1>7. CASE AllServed
  BY <1>7 DEF AllServed, serverVars
<1> QED
  BY <1>1, <1>2, <1>3, <1>4, <1>5, <1>6, <1>7 DEF ServerNext

LEMMA DexVars == UNCHANGED dexVars <=> UNCHANGED D!vars
  BY DEF dexVars, D!vars

(* The same for the Dex service.                                           *)
LEMMA DexSteps == ASSUME [ServerNext]_serverVars PROVE [D!Next]_(D!vars)
<1>1. CASE UNCHANGED serverVars
  BY <1>1, DexVars DEF serverVars
<1>2. ASSUME NEW r \in Request, NEW c \in Connection, Send(r, c)
      PROVE  UNCHANGED D!vars
  BY <1>2, DexVars DEF Send
<1>3. ASSUME NEW t \in Task, AdmitBroadcast(t)
      PROVE  UNCHANGED D!vars
  BY <1>3, DexVars DEF AdmitBroadcast
<1>4. ASSUME NEW d \in DexTask, AdmitDex(d)
      PROVE  D!Next
  BY <1>4 DEF AdmitDex, D!Next
<1>5. CASE BroadcastServes
  BY <1>5, DexVars DEF BroadcastServes
<1>6. CASE DexServes
  BY <1>6 DEF DexServes, D!Next
<1>7. CASE AllServed
  BY <1>7, DexVars DEF AllServed, serverVars
<1> QED
  BY <1>1, <1>2, <1>3, <1>4, <1>5, <1>6, <1>7 DEF ServerNext

(* The daemon is the two services: each runs in it as it would run alone,  *)
(* however the requests of both are spread over connections and however    *)
(* few of them a connection admits.                                        *)
THEOREM ServicesRunAsAlone == ServerSafety => Safety /\ D!Safety
<1>1. ServerInit => Init /\ D!Init
  BY DEF ServerInit
<1> QED
  BY <1>1, BroadcastSteps, DexSteps, PTL DEF ServerSafety, Safety, D!Safety

(* Nobody waits for ever for somebody else in the daemon either: a ring of *)
(* requests that wait for each other's mutexes holds a RunGenesis that     *)
(* waits for itself.                                                       *)
THEOREM DaemonDeadlocksAreSelfMade == ServerSafety => []DeadlocksAreSelfMade
  BY ServicesRunAsAlone, OnlySelfMadeDeadlocks, PTL

(* The answers of the Broadcast service mean in the daemon what they mean  *)
(* alone, and its handlers run out of awaits.                              *)
THEOREM DaemonBroadcastsAsAlone ==
  ServerSafety => /\ []TypeOK
                  /\ [](CountsFinalized /\ OkBatchIsBroadcast)
                  /\ [](OkTokenHasLanded /\ RefusalIsHarmless)
                  /\ MintsAddUp /\ AnswersComeNearer
  BY ServicesRunAsAlone, TypeCorrect, CounterCountsFinalized, OkBatchMeansBroadcast,
     OkMeansLanded, BlamedArgumentsAreHarmless, LaterMintsAreOthers, HandlersRunOut, PTL
-------------------------------------------------------------------------------
(* D and DP name the same definitions of DexCalls twice, over the same     *)
(* variables.  The lemmas that follow say so, as far as the theorems need. *)
LEMMA SameInit == D!Init => DP!Init
  BY DEF D!Init, DP!Init, D!NoOrder, DP!NoOrder, D!Mutex, DP!Mutex

LEMMA SameVars == UNCHANGED D!vars <=> UNCHANGED DP!vars
  BY DEF D!vars, DP!vars

LEMMA SameNext == D!Next => DP!Next
  BY DEF
    D!Mutex, D!RpcWait, D!TpuWait, D!RpcCall, D!PC, D!Reply, D!Waits, D!Holds, D!Live,
    D!Take, D!Dropped, D!Finish, D!ledgerVars, D!Stage, D!Landed, D!Built, D!Submitted,
    D!Confirm, D!Finalize, D!Expire, D!NextBlockhash, D!Cluster, D!SelfTradeBehavior,
    D!OrderType, D!Numbered, D!The, D!Refused, D!WellFormed, D!Instruction,
    D!convert_new_order_v3, D!SaysTheSame, D!vars, D!orderVars, D!Part, D!Ask,
    D!create_dex_account, D!create_token_account, D!gen_listing_params, D!list_market,
    D!cancel_order_by_client_order_id, D!close_open_orders, D!settle_funds,
    D!match_orders, D!consume_events, D!init_open_orders, D!place_order,
    D!convert_state, D!Script, D!Handler, D!EarlyFault, D!LateFault, D!NoOrder,
    D!Requested, D!OrderConverts, D!Call, D!Op, D!CurrentTx, D!OwnTx, D!Init, D!Refuse,
    D!Accept, D!AnswerAtOnce, D!Lock, D!ReadBlockhash, D!AnswerGone, D!Outdated,
    D!SimulateResponse, D!SimulationResult,
    D!Succeeds, D!GuardsDropped, D!Receive, D!Return, D!Succeed, D!Simulated,
    D!FailureStatus, D!Fail, D!RefuseLate, D!BadAccount, D!Cancel, D!ClientSubmits,
    D!ClusterStep, D!TaskStep, D!Terminated, D!Next,
    DP!Mutex, DP!RpcWait, DP!TpuWait, DP!RpcCall, DP!PC, DP!Reply, DP!Waits, DP!Holds,
    DP!Live, DP!Take, DP!Dropped, DP!Finish, DP!ledgerVars, DP!Stage, DP!Landed,
    DP!Built, DP!Submitted, DP!Confirm, DP!Finalize, DP!Expire, DP!NextBlockhash,
    DP!Cluster, DP!SelfTradeBehavior, DP!OrderType, DP!Numbered, DP!The, DP!Refused,
    DP!WellFormed, DP!Instruction, DP!convert_new_order_v3, DP!SaysTheSame, DP!vars,
    DP!orderVars, DP!Part, DP!Ask, DP!create_dex_account, DP!create_token_account,
    DP!gen_listing_params, DP!list_market, DP!cancel_order_by_client_order_id,
    DP!close_open_orders, DP!settle_funds, DP!match_orders, DP!consume_events,
    DP!init_open_orders, DP!place_order, DP!convert_state, DP!Script, DP!Handler,
    DP!EarlyFault, DP!LateFault, DP!NoOrder, DP!Requested, DP!OrderConverts, DP!Call,
    DP!Op, DP!CurrentTx, DP!OwnTx, DP!Init, DP!Refuse, DP!Accept, DP!AnswerAtOnce,
    DP!Lock, DP!ReadBlockhash, DP!AnswerGone, DP!Outdated, DP!SimulateResponse, DP!SimulationResult, DP!Succeeds, DP!GuardsDropped,
    DP!Receive, DP!Return, DP!Succeed, DP!Simulated, DP!FailureStatus, DP!Fail,
    DP!RefuseLate, DP!BadAccount, DP!Cancel, DP!ClientSubmits, DP!ClusterStep,
    DP!TaskStep, DP!Terminated, DP!Next

LEMMA SameSafety == D!Safety => DP!Safety
  BY SameInit, SameVars, SameNext, PTL DEF D!Safety, DP!Safety

LEMMA SameType == DP!TypeOK => D!TypeOK
  BY DEF D!TypeOK, DP!TypeOK, D!NoOrder, DP!NoOrder, D!Mutex, DP!Mutex, D!PC, DP!PC,
         D!Reply, DP!Reply, D!Stage, DP!Stage, D!RpcWait, DP!RpcWait, D!TpuWait,
         DP!TpuWait, D!RpcCall, DP!RpcCall

LEMMA SameInvariants ==
  /\ DP!SigningIsNotSending => D!SigningIsNotSending
  /\ DP!VaultsAreMadeInOrder => D!VaultsAreMadeInOrder
  /\ DP!SignedOrderIsAsAsked => D!SignedOrderIsAsAsked
  /\ DP!RpcGuardSpansOneCall => D!RpcGuardSpansOneCall
  /\ DP!BlockhashIsAskedForLast => D!BlockhashIsAskedForLast
<1>1. DP!SigningIsNotSending => D!SigningIsNotSending
  BY DEF D!SigningIsNotSending, DP!SigningIsNotSending, D!OwnTx, DP!OwnTx
<1>2. DP!VaultsAreMadeInOrder => D!VaultsAreMadeInOrder
  BY DEF D!VaultsAreMadeInOrder, DP!VaultsAreMadeInOrder, D!Landed, DP!Landed
<1>3. DP!SignedOrderIsAsAsked => D!SignedOrderIsAsAsked
  BY DEF D!SignedOrderIsAsAsked, DP!SignedOrderIsAsAsked, D!SaysTheSame, DP!SaysTheSame,
         D!NoOrder, DP!NoOrder, D!OrderType, DP!OrderType, D!SelfTradeBehavior,
         DP!SelfTradeBehavior
<1>4. DP!RpcGuardSpansOneCall => D!RpcGuardSpansOneCall
  BY DEF D!RpcGuardSpansOneCall, DP!RpcGuardSpansOneCall, D!Holds, DP!Holds
<1>5. DP!BlockhashIsAskedForLast => D!BlockhashIsAskedForLast
  BY DEF D!BlockhashIsAskedForLast, DP!BlockhashIsAskedForLast, D!BlockhashKnown,
         DP!BlockhashKnown, D!Live, DP!Live, D!Call, DP!Call, D!CurrentTx, DP!CurrentTx,
         D!OwnTx, DP!OwnTx, D!Holds, DP!Holds, D!Landed, DP!Landed
<1> QED
  BY <1>1, <1>2, <1>3, <1>4, <1>5

LEMMA SameSteps == DP!AnswersComeNearer => D!AnswersComeNearer
  BY DEF D!AnswersComeNearer, DP!AnswersComeNearer, D!AwaitsLeft, DP!AwaitsLeft,
         D!Live, DP!Live, D!vars, DP!vars

LEMMA SamePromise ==
  /\ DP!Promise!Init => D!Promise!Init
  /\ [DP!Promise!Next]_(DP!Promise!promiseVars) => [D!Promise!Next]_(D!Promise!promiseVars)
<1>1. DP!Promise!Init => D!Promise!Init
  BY DEF D!Promise!Init, DP!Promise!Init
<1>2. UNCHANGED DP!Promise!promiseVars => UNCHANGED D!Promise!promiseVars
  BY DEF D!Promise!promiseVars, DP!Promise!promiseVars, D!Promise!ledgerVars,
         DP!Promise!ledgerVars
<1>3. DP!Promise!Next => D!Promise!Next
  BY DEF
    D!Promise!Next, D!Promise!Open, D!Promise!CloseAtOnce, D!Promise!Make,
    D!Promise!MakeVault, D!Promise!Sign, D!Promise!SignFirst, D!Promise!Close,
    D!Promise!ClientSubmits, D!Promise!ClusterStep, D!Promise!Cluster,
    D!Promise!NextBlockhash, D!Promise!Confirm, D!Promise!Finalize,
    D!Promise!Expire, D!Promise!Own, D!Promise!Untouched, D!Promise!VaultsExist,
    D!Promise!Vaults, D!Promise!Error, D!Promise!Landed, D!Promise!Built,
    D!Promise!Submitted, D!Promise!ledgerVars, DP!Promise!Next, DP!Promise!Open,
    DP!Promise!CloseAtOnce, DP!Promise!Make, DP!Promise!MakeVault,
    DP!Promise!Sign, DP!Promise!SignFirst, DP!Promise!Close,
    DP!Promise!ClientSubmits, DP!Promise!ClusterStep, DP!Promise!Cluster,
    DP!Promise!NextBlockhash, DP!Promise!Confirm, DP!Promise!Finalize,
    DP!Promise!Expire, DP!Promise!Own, DP!Promise!Untouched,
    DP!Promise!VaultsExist, DP!Promise!Vaults, DP!Promise!Error,
    DP!Promise!Landed, DP!Promise!Built, DP!Promise!Submitted,
    DP!Promise!ledgerVars
<1> QED
  BY <1>1, <1>2, <1>3
-------------------------------------------------------------------------------
(* DexAssumption is what the theorems of the Dex service assume.           *)
LEMMA DexTheorems ==
  DP!Safety => /\ []DP!TypeOK
               /\ []DP!SigningIsNotSending /\ []DP!VaultsAreMadeInOrder
               /\ []DP!SignedOrderIsAsAsked /\ []DP!RpcGuardSpansOneCall
               /\ []DP!BlockhashIsAskedForLast /\ DP!AnswersComeNearer
  BY DexAssumption, DP!DexTypeCorrect, DP!SigningNeverSends, DP!ListingsHaveVaults,
     DP!OrdersAreFaithful, DP!GuardsSpanCalls, DP!BlockhashComesLast, DP!CallsRunOut
  DEF DP!Handler, DP!Part, D!Part, D!Handler

LEMMA DexKeepsPromise ==
  DP!Safety => DP!Promise!Init /\ [][DP!Promise!Next]_(DP!Promise!promiseVars)
  BY DexAssumption, DP!DexHandlersKeepPromise DEF DP!Handler, DP!Part, D!Part, D!Handler

(* The Dex service signs, guards its RPC client and answers in the daemon  *)
(* as it does alone, whatever the Broadcast service is stuck in.           *)
THEOREM DaemonSignsAsAlone ==
  ServerSafety => /\ []D!TypeOK
                  /\ [](D!SigningIsNotSending /\ D!VaultsAreMadeInOrder)
                  /\ [](D!SignedOrderIsAsAsked /\ D!RpcGuardSpansOneCall)
                  /\ []D!BlockhashIsAskedForLast /\ D!AnswersComeNearer
  BY ServicesRunAsAlone, SameSafety, DexTheorems, SameType, SameInvariants, SameSteps, PTL

(* The daemon keeps the promises of both services at once: nothing either  *)
(* does to the cluster or says to a client is more than its own promise    *)
(* allows, with requests of the other running in between.                  *)
THEOREM DaemonKeepsPromises ==
  ServerSafety => /\ Promise!Init /\ [][Promise!Next]_(Promise!promiseVars)
                  /\ D!Promise!Init /\ [][D!Promise!Next]_(D!Promise!promiseVars)
  BY ServicesRunAsAlone, HandlersKeepPromise, SameSafety, DexKeepsPromise, SamePromise, PTL
===============================================================================
