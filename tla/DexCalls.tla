------------------------------- MODULE DexCalls -------------------------------
(***************************************************************************)
(* The unary handlers of the Dex gRPC service, src/serum.rs, and the       *)
(* SerumClient of src/serum/dex/mod.rs they run.  They share one           *)
(* Arc<Mutex<RpcClient>>, another one than the Broadcast service's, and    *)
(* never touch the TPU.                                                    *)
(*                                                                         *)
(* A handler looks up the market if the request names it by id, asks for   *)
(* rents and a blockhash, signs a transaction, may simulate it, and gives  *)
(* it to the client as bytes: submitting it is the client's business.      *)
(* Only list_market sends transactions of its own, for the two vaults.     *)
(***************************************************************************)
EXTENDS Sequences, Requests, Ledger, Orders

CONSTANT OrderRequest  \* the orders clients may ask for, see Orders

VARIABLES calls,       \* calls[t]: the RPCs request t still has to make
          asked,       \* asked[t]: the order a new_order asks for
          signed,      \* signed[t]: the instruction its transaction carries
          verdict,     \* verdict[t]: what the node found simulating its transaction
          read         \* read[t]: the blockhash in the answer request t awaits,
                       \* once the node has looked it up

vars == <<kind, pc, reply, holder, ledger, fresh, calls, asked, signed, verdict, read>>
orderVars == <<asked, signed>>

(* The transactions of a request: the one it signs for the client and, for *)
(* list_market, the creation of the coin vault and of the pc vault.        *)
Part == {"own", "coin", "pc"}
ASSUME DexTxAssumption == Tx = Task \X Part
-------------------------------------------------------------------------------
(* An RPC and the transaction it is about, where it is about one.          *)
Ask(op) == <<op, "own">>

create_dex_account == <<Ask("rent")>>
create_token_account(vault) == <<Ask("rent"), <<"hash", vault>>, <<"send", vault>>>>

(* market_key, req_q_key, event_q_key, bids_key, asks_key                  *)
gen_listing_params ==
  create_dex_account \o create_dex_account \o create_dex_account
    \o create_dex_account \o create_dex_account

(* Mutant: the blockhash is asked for before the vaults are made.          *)
list_market_hashFirst ==
  gen_listing_params \o <<Ask("hash")>>
    \o create_token_account("coin") \o create_token_account("pc")

list_market ==
  gen_listing_params \o create_token_account("coin")
    \o create_token_account("pc") \o <<Ask("hash")>>

cancel_order_by_client_order_id == <<Ask("hash"), Ask("simulate")>>
close_open_orders == <<Ask("hash"), Ask("simulate")>>
settle_funds == <<Ask("hash"), Ask("simulate")>>
match_orders == <<Ask("hash"), Ask("simulate")>>
consume_events == <<Ask("queue"), Ask("hash")>>

(* Mutant: the send that the code has commented out.                       *)
init_open_orders_sends(unnamed) ==
  (IF unnamed THEN create_dex_account ELSE <<>>) \o <<Ask("hash"), Ask("send")>>

(* An open-orders account is created when the request names none.          *)
init_open_orders(unnamed) ==
  (IF unnamed THEN create_dex_account ELSE <<>>) \o <<Ask("hash")>>
place_order(unnamed) ==
  (IF unnamed THEN create_dex_account ELSE <<>>) \o <<Ask("hash")>>

(* A market given by id is looked up, one given by its keys is not.        *)
convert_state(byId) == IF byId THEN <<Ask("market")>> ELSE <<>>

Script(k, byId, unnamed) ==
  CASE k = "get_market_pubkeys" -> <<Ask("market")>>
    [] k = "list_market" -> list_market
    [] k = "consume_events" -> convert_state(byId) \o consume_events
    [] k = "init_open_order" -> convert_state(byId) \o init_open_orders(unnamed)
    [] k = "new_order" -> convert_state(byId) \o place_order(unnamed)
    [] k = "cancel_order" -> convert_state(byId) \o cancel_order_by_client_order_id
    [] k = "settle_funds" -> convert_state(byId) \o settle_funds
    [] k = "close_open_orders" -> convert_state(byId) \o close_open_orders
    [] k = "match_orders" -> convert_state(byId) \o match_orders
    [] k = "monitor_queue" -> convert_state(byId)

Handler == {"get_market_pubkeys", "list_market", "consume_events",
            "init_open_order", "new_order", "cancel_order", "settle_funds",
            "close_open_orders", "match_orders", "monitor_queue"}
ASSUME HandlerAssumption == Procedure \subseteq Handler

(* The statuses a handler answers for a faulty field it looks at before    *)
(* its first RPC; and for one it looks at only once the market is known.   *)
EarlyFault(k) ==
  IF k = "get_market_pubkeys" THEN {"internal"} ELSE {"internal", "invalid"}
LateFault(k) ==
  CASE k \in {"get_market_pubkeys", "list_market"} -> {}
    [] k \in {"consume_events", "match_orders"} -> {"internal"}
    [] k = "init_open_order" -> {"invalid"}
    [] k = "new_order" -> {"internal"}
    [] k = "monitor_queue" -> {}
    [] OTHER -> {"internal", "invalid"}

NoOrder == [order |-> "none"]

(* A message's fields have the types of the proto.                         *)
ASSUME OrderRequestAssumption ==
  \A req \in OrderRequest : req.order = "v3" => req.side \in BOOLEAN /\ req.limit \in Nat

Requested(k) == IF k = "new_order" THEN OrderRequest ELSE {NoOrder}

(* The order of a request converts; it is looked at once the market is     *)
(* known and before anything else is done for the request.                 *)
OrderConverts(k, req) == k = "new_order" => convert_new_order_v3(req) # Refused
-------------------------------------------------------------------------------
Call(t) == Head(calls[t])
Op(t) == Call(t)[1]
CurrentTx(t) == <<t, Call(t)[2]>>
OwnTx(t) == <<t, "own">>

Init ==
  /\ kind = [t \in Task |-> "none"]
  /\ pc = [t \in Task |-> "idle"]
  /\ reply = [t \in Task |-> "none"]
  /\ holder = [m \in Mutex |-> NoTask]
  /\ ledger = [x \in Tx |-> "unbuilt"]
  /\ fresh = {}
  /\ calls = [t \in Task |-> <<>>]
  /\ asked = [t \in Task |-> NoOrder]
  /\ signed = [t \in Task |-> NoOrder]
  /\ verdict = [t \in Task |-> "none"]
  /\ read = [t \in Task |-> "none"]

Refuse(t, k) ==
  /\ pc[t] = "idle"
  /\ kind' = [kind EXCEPT ![t] = k]
  /\ \E status \in EarlyFault(k) \cup LateFault(k) : Finish(t, status)
  /\ UNCHANGED <<ledgerVars, calls, orderVars, verdict, read>>

Accept(t, k) ==
  /\ pc[t] = "idle"
  /\ kind' = [kind EXCEPT ![t] = k]
  /\ \E byId, unnamed \in BOOLEAN, req \in Requested(k) :
       /\ byId \/ OrderConverts(k, req)
       /\ Script(k, byId, unnamed) # <<>>
       /\ calls' = [calls EXCEPT ![t] = Script(k, byId, unnamed)]
       /\ asked' = [asked EXCEPT ![t] = req]
  /\ pc' = [pc EXCEPT ![t] = "lock"]
  /\ UNCHANGED <<reply, holder, ledgerVars, signed, verdict, read>>

(* monitor_queue for a market given by its keys: the stream is the answer. *)
AnswerAtOnce(t, k) ==
  /\ pc[t] = "idle"
  /\ k = "monitor_queue"
  /\ kind' = [kind EXCEPT ![t] = k]
  /\ Finish(t, "ok")
  /\ UNCHANGED <<ledgerVars, calls, orderVars, verdict, read>>

(* The lock is granted and the RPC goes out.                               *)
Lock(t) ==
  /\ pc[t] = "lock"
  /\ Take(t, "rpc", "call")
  /\ ledger' = IF Op(t) = "send" THEN Submitted(CurrentTx(t)) ELSE ledger
  /\ UNCHANGED <<kind, reply, fresh, calls, orderVars, verdict, read>>

(* The node looks up the latest blockhash (external).  The answer is still *)
(* on its way, and other blocks may be finalized before it arrives.        *)
ReadBlockhash(t) ==
  /\ pc[t] = "call"
  /\ Op(t) = "hash"
  /\ read[t] = "none"
  /\ read' = [read EXCEPT ![t] = "latest"]
  /\ UNCHANGED <<kind, pc, reply, holder, ledgerVars, calls, orderVars, verdict>>

(* The answer has come, or is waited for no longer.                        *)
AnswerGone(t) == read' = [read EXCEPT ![t] = "none"]

(* What the node answers to simulateTransaction (external): the result     *)
(* wrapped in its context.                                                 *)
SimulateResponse(err) == [context |-> "slot", value |-> [err |-> err]]

(* The response is read as the result itself: its `err` is the optional    *)
(* field of that name, which the wrapper does not have.                    *)
SimulationResult(response) ==
  IF "err" \in DOMAIN response THEN response.err ELSE "None"

(* Mutant: the sends are not confirmed.                                    *)
Succeeds_onceSent(t) == TRUE

(* When the node can give the RPC a good answer; a send is awaited until   *)
(* the transaction is confirmed.                                           *)
Succeeds(t) == Op(t) = "send" => Landed(CurrentTx(t))

(* The guards that end with the answer of an RPC: get_keys_for_market,     *)
(* and every helper of src/rpcnb.rs, returns right after it.               *)
GuardsDropped(t) == Dropped(t, {"rpc"})

(* A blockhash is signed over at once, the latest one still or not; other  *)
(* good answers are only read.                                             *)
Receive(t) ==
  /\ AnswerGone(t)
  /\ \/ /\ Op(t) = "hash" /\ read[t] # "none"
        /\ ledger' = Built(CurrentTx(t))
        /\ fresh' = IF read[t] = "latest" THEN fresh \cup {CurrentTx(t)} ELSE fresh
     \/ Op(t) # "hash" /\ UNCHANGED ledgerVars

(* Mutant: the guard travels on with the market's keys.                    *)
Return_keepsMarketGuard(t) ==
  /\ pc[t] = "call"
  /\ Op(t) # "simulate"
  /\ Succeeds(t)
  /\ Op(t) = "market" => OrderConverts(kind[t], asked[t])
  /\ Len(calls[t]) > 1
  /\ Receive(t)
  /\ calls' = [calls EXCEPT ![t] = Tail(@)]
  /\ pc' = [pc EXCEPT ![t] = "lock"]
  /\ holder' = IF Op(t) = "market" THEN holder ELSE GuardsDropped(t)
  /\ UNCHANGED <<kind, reply, orderVars, verdict>>

(* A good answer with another RPC to follow.                               *)
Return(t) ==
  /\ pc[t] = "call"
  /\ Op(t) # "simulate"
  /\ Succeeds(t)
  /\ Op(t) = "market" => OrderConverts(kind[t], asked[t])
  /\ Len(calls[t]) > 1
  /\ Receive(t)
  /\ calls' = [calls EXCEPT ![t] = Tail(@)]
  /\ pc' = [pc EXCEPT ![t] = "lock"]
  /\ holder' = GuardsDropped(t)
  /\ UNCHANGED <<kind, reply, orderVars, verdict>>

(* A good answer to the last RPC: the keys, or the signed transaction, are *)
(* the handler's answer.                                                   *)
Succeed(t) ==
  /\ pc[t] = "call"
  /\ Op(t) # "simulate"
  /\ Succeeds(t)
  /\ Len(calls[t]) = 1
  /\ Receive(t)
  /\ signed' = IF kind[t] = "new_order"
               THEN [signed EXCEPT ![t] = convert_new_order_v3(asked[t])] ELSE signed
  /\ Finish(t, "ok")
  /\ UNCHANGED <<kind, calls, asked, verdict>>

(* The node has simulated the transaction and found it good or bad.        *)
Simulated(t, err) ==
  /\ pc[t] = "call"
  /\ Op(t) = "simulate"
  /\ verdict' = [verdict EXCEPT ![t] = err]
  /\ Finish(t, IF SimulationResult(SimulateResponse(err)) = "None"
               THEN "ok" ELSE "internal")
  /\ UNCHANGED <<kind, ledgerVars, calls, orderVars, read>>

(* Mutants: a status of its own for an RPC error; one text, and one status,*)
(* for everything that goes wrong.                                         *)
FailureStatus_unavailable(t) == "unavailable"
FailureStatus_alwaysInvalid(t) == "invalid"

(* The status an RPC error turns into.  convert_state makes it the client's*)
(* "bad market".                                                           *)
FailureStatus(t) ==
  IF Op(t) = "market" /\ kind[t] # "get_market_pubkeys" THEN "invalid" ELSE "internal"

(* Mutant: an RPC that fails is made again.                                *)
Fail_asksAgain(t) ==
  /\ pc[t] = "call"
  /\ pc' = [pc EXCEPT ![t] = "lock"]
  /\ holder' = GuardsDropped(t)
  /\ AnswerGone(t)
  /\ UNCHANGED <<kind, reply, ledgerVars, calls, orderVars, verdict>>

(* The RPC fails: the node is away, answers an error or too late.          *)
Fail(t) ==
  /\ pc[t] = "call"
  /\ Finish(t, FailureStatus(t))
  /\ AnswerGone(t)
  /\ UNCHANGED <<kind, ledgerVars, calls, orderVars, verdict>>

(* The market is known, and one of the fields checked after it is faulty.  *)
RefuseLate(t) ==
  /\ pc[t] = "call"
  /\ Op(t) = "market"
  /\ \/ \E status \in LateFault(kind[t]) : Finish(t, status)
     \/ ~OrderConverts(kind[t], asked[t]) /\ Finish(t, "invalid")
  /\ AnswerGone(t)
  /\ UNCHANGED <<kind, ledgerVars, calls, orderVars, verdict>>

(* The account of the market id is no market of that id, or that of the    *)
(* event queue no queue: an error, or a panic where the padding is cut, the*)
(* ring is split or own_address is asserted -- the client gets no answer   *)
(* then, but the guard is dropped.                                         *)
BadAccount(t) ==
  /\ pc[t] = "call"
  /\ Op(t) \in {"market", "queue"}
  /\ \E answer \in {FailureStatus(t), "cancelled"} : Finish(t, answer)
  /\ AnswerGone(t)
  /\ UNCHANGED <<kind, ledgerVars, calls, orderVars, verdict>>

(* The client goes away: its handler is dropped at the await.              *)
Cancel(t) ==
  /\ pc[t] \in RpcWait \cup RpcCall
  /\ Finish(t, "cancelled")
  /\ AnswerGone(t)
  /\ UNCHANGED <<kind, ledgerVars, calls, orderVars, verdict>>

(* The client submits what it was given (external).                        *)
ClientSubmits(t) ==
  /\ reply[t] = "ok"
  /\ ledger' = Submitted(OwnTx(t))
  /\ UNCHANGED <<kind, pc, reply, holder, fresh, calls, orderVars, verdict, read>>

(* The answers on their way once another block is finalized.               *)
Outdated == [t \in Task |-> IF read[t] = "latest" THEN "older" ELSE read[t]]

(* The cluster goes on; its next blockhash outdates the answers under way, *)
(* also when it outdates nothing that has been built.                      *)
ClusterStep ==
  /\ \/ Cluster /\ read' = IF fresh' = fresh THEN read ELSE Outdated
     \/ /\ fresh = {} /\ Outdated # read
        /\ read' = Outdated
        /\ UNCHANGED ledgerVars
  /\ UNCHANGED <<kind, pc, reply, holder, calls, orderVars, verdict>>

TaskStep(t) ==
  \/ Lock(t) \/ ReadBlockhash(t) \/ Return(t) \/ Succeed(t)
  \/ Fail(t) \/ RefuseLate(t) \/ BadAccount(t)
  \/ \E err \in {"None", "Some"} : Simulated(t, err)

Terminated == (\A t \in Task : pc[t] = "done") /\ UNCHANGED vars

Next ==
  \/ \E t \in Task : \/ \E k \in Procedure : \/ Refuse(t, k) \/ Accept(t, k)
                                              \/ AnswerAtOnce(t, k)
                     \/ TaskStep(t) \/ Cancel(t) \/ ClientSubmits(t)
  \/ ClusterStep
  \/ Terminated

(* Every RPC is answered or times out, and the executor polls.             *)
Fairness == \A t \in Task : WF_vars(TaskStep(t))

(* Its runs, whoever is scheduled, and those in which everybody is.        *)
Safety == Init /\ [][Next]_vars
Spec == Safety /\ Fairness
-------------------------------------------------------------------------------
(* Every variable has its type; a handler awaits only calls of its script. *)
TypeOK ==
  /\ kind \in [Task -> Procedure \cup {"none"}]
  /\ pc \in [Task -> PC]
  /\ reply \in [Task -> Reply]
  /\ holder \in [Mutex -> Task \cup {NoTask}]
  /\ ledger \in [Tx -> Stage]
  /\ fresh \subseteq Tx
  /\ asked \in [Task -> OrderRequest \cup {NoOrder}]
  /\ \A t \in Task : (signed[t] # NoOrder) = (kind[t] = "new_order" /\ reply[t] = "ok")
  /\ verdict \in [Task -> {"none", "None", "Some"}]
  /\ \A t \in Task : pc[t] \in {"lock", "call"} => calls[t] # <<>>
  /\ read \in [Task -> {"none", "latest", "older"}]

(* The daemon puts none of the client's transactions to the cluster: what  *)
(* it signed gets there only after the client was given it.                *)
SigningIsNotSending ==
  \A t \in Task : reply[t] # "ok" => ledger[OwnTx(t)] \in {"unbuilt", "new", "expired"}

(* The vaults of a listing are made one after the other: a ListMarket that *)
(* fails half-way leaves no vault, the coin vault or both, and one that    *)
(* succeeds has both, so that initialize_market finds them.                *)
VaultsAreMadeInOrder ==
  \A t \in Task :
    /\ ledger[<<t, "pc">>] # "unbuilt" => Landed(<<t, "coin">>)
    /\ kind[t] = "list_market" /\ reply[t] = "ok" =>
         Landed(<<t, "coin">>) /\ Landed(<<t, "pc">>)

(* The blockhash of what the client will be given is known: it is in the   *)
(* answer under way, or signed over.                                       *)
BlockhashKnown(t) ==
  \/ ledger[OwnTx(t)] # "unbuilt"
  \/ Live(t) /\ CurrentTx(t) = OwnTx(t) /\ read[t] # "none"

(* A transaction that is handed out without a simulation does not age in   *)
(* the daemon.  Once its blockhash is known the request has every account  *)
(* the transaction names (a listing both its vaults, whose confirmation    *)
(* may take long), has the RPC client too, and awaits one answer only: the *)
(* blockhash is older than the latest by no more than that answer's way.   *)
BlockhashIsAskedForLast ==
  \A t \in Task :
    kind[t] \in {"list_market", "consume_events", "init_open_order", "new_order"}
      /\ BlockhashKnown(t) =>
        /\ kind[t] = "list_market" => Landed(<<t, "coin">>) /\ Landed(<<t, "pc">>)
        /\ Live(t) => Holds(t, "rpc") /\ Len(calls[t]) = 1

(* The order in the transaction a client is given is the order it asked    *)
(* for, field by field, whatever the message said that an instruction      *)
(* cannot say.                                                             *)
SignedOrderIsAsAsked ==
  \A t \in Task : signed[t] # NoOrder => SaysTheSame(asked[t], signed[t])

(* However many requests contend for the RPC client, and whatever becomes  *)
(* of them, every one is answered or given up by its client.               *)
DexRequestsAnswered == \A t \in Task : Live(t) ~> reply[t] # "none"

(* A handler has the RPC client for one answer at a time, and nobody who   *)
(* is gone has it: requests wait for the node, never for each other's      *)
(* next lock.  The tpu mutex is none of theirs.                            *)
RpcGuardSpansOneCall ==
  \A t \in Task :
    /\ Holds(t, "rpc") <=> pc[t] = "call"
    /\ ~Holds(t, "tpu")

(* The awaits a request has ahead of it at most.                           *)
AwaitsLeft(t) ==
  IF pc[t] = "done" THEN 0
  ELSE 2 * Len(calls[t]) - (IF pc[t] = "lock" THEN 0 ELSE 1)

(* No call is made twice: whatever an answer says, a request has fewer     *)
(* awaits ahead of it afterwards.                                          *)
AnswersComeNearer ==
  [][\A t \in Task :
       Live(t) /\ <<pc'[t], calls'[t]>> # <<pc[t], calls[t]>>
         => AwaitsLeft(t)' \in 0..(AwaitsLeft(t) - 1)]_vars

(* "simulate_transaction error": a transaction whose simulation failed is  *)
(* an error, never handed out as good.                                     *)
FailedSimulationIsAnError ==
  \A t \in Task : verdict[t] = "Some" => reply[t] # "ok"
-------------------------------------------------------------------------------
(* The promise of the service, kept by the handlers.                       *)
Promise == INSTANCE DexPromise WITH
  wants <- [t \in Task |-> CASE kind[t] = "none" -> "nothing"
                             [] kind[t] \in {"get_market_pubkeys", "monitor_queue"} -> "keys"
                             [] kind[t] = "list_market" -> "listing"
                             [] OTHER -> "transaction"],
  phase <- [t \in Task |-> IF pc[t] = "idle" THEN "idle"
                           ELSE IF pc[t] = "done" THEN "closed" ELSE "open"],
  answer <- reply

(* The handlers make, sign and claim no more than the promise allows, and  *)
(* they close every request.                                               *)
KeepsDexPromise == Promise!Spec
===============================================================================
