# A TLA+ model of the Solmate Rust helper

`rust-helper` is a daemon that offers Solana and Serum functions over gRPC. A
client in any language sends keys, transactions and market ids; the daemon talks
to a validator over JSON RPC, TPU packets and a websocket. This directory holds
the specification of its logic: modules translated from `src/src`, TLC
configurations that check them on small instances, and proofs checked by TLAPS.

## 1. The system

| Part | Source | State | Operations | Hard because |
|---|---|---|---|---|
| Broadcast service | `sol.rs` | one `Mutex<RpcClient>`, one `Mutex<TpuClient>` | `SendTx`, `RunGenesis`, `RunInitializeTokenAccount`, `RunCreateAccount`, `RunMint` | handlers interleave at every await, guards die with their scope, clients go away |
| Token procedures | `util.rs`, `rpcnb.rs` | none of their own; the Broadcast (or Dex) RPC client | create accounts, mints, vaults; mint; transfer | guards that outlive a call, transactions that land although the call fails, equal requests that build one transaction |
| Dex service, unary | `serum.rs`, `serum/dex/mod.rs` | its own `Mutex<RpcClient>` | ten handlers that look up, sign, simulate and return a transaction | status of failures, half-made listings, order conversion |
| Event-queue cranking | `serum/dex/mod.rs` | none; reads the dex program's ring | `ConsumeEvents` | ring arithmetic, stale reads, truncation |
| MonitorQueue | `serum.rs` | `Mutex<PubsubClient>`, a runtime, a channel per stream | stream of bids and asks | background tasks that outlive their client, a guard kept for a loop |
| Server | `server.rs` | 64 permits per connection | admits requests to both services | one service's stuck requests use up the other's permits |
| Key conversions | `lib.rs`, `util.rs` | none | bytes to keys and back | boundaries |
| Level conversion, headers, configuration | `serum.rs`, `util.rs`, `config.rs` | none | pure or run once | little |
| Not compiled or not called | `serum/dex/token_instruction.rs`, `consume_events_wrapper`, `consume_events_once`, `parse_req_queue`, ... | - | - | - |

How they interact. The Broadcast service and the Dex service share the
validator and, connection by connection, the transport's limit of 64 running
requests; each has its own RPC client. Inside a service all requests share
the mutex around that client, and a handler holds it across the await of the
RPC's answer, so RPCs of one service are serial. `send_tx` also takes the TPU
mutex and asks for the RPC mutex while it holds it. `list_market` calls the
token procedures with the Dex service's client. `monitor_queue` spawns two
tasks on a runtime of its own; they share the websocket client and each stream's
channel with tonic. Everything the daemon knows of the chain it knows from RPC
answers.

What makes each part correct:

* Broadcast: no deadlock; every request answered; a guard never outlives its
  scope or its client; OK means what it says (every transaction finalized, or
  time ran out and every one has a signature); an error status does not claim
  more than the handler knows.
* Token procedures: OK only for a transaction that took effect; a mint after a
  mint that was answered OK mints more.
* Dex: the daemon signs and does not submit; it signs the order that was asked
  for; a listing's vaults exist when it says OK; what it hands out has not aged in
  the daemon, because the blockhash is asked for last; every request answered;
  failures are attributed correctly.
* Cranking: parsing yields the ring in order; the instruction names owners that
  let the program make progress; retried cranks drain the queue.
* MonitorQueue: both sides are subscribed to; tasks end with their clients; the
  loss of the websocket ends everything.
* Server: a request stuck in one service holds up the other only over a
  connection they share.
* Keys: what is used is what was sent, what is returned is what was made.

## 2. Modules

| Module | Models | Notes |
|---|---|---|
| `Ledger` | the cluster (external) | a transaction is unbuilt, new, pending, confirmed, finalized or expired; it may be lost (stay pending, expire); `fresh` holds those built over the latest blockhash |
| `Requests` | a handler's life, the mutexes | `pc` is the await a handler has reached; `Take`, `Dropped`, `Finish` are lock, end of scope, return or drop |
| `Arguments` | argument checks of `sol.rs` | which fields a handler checks and the status of a faulty one |
| `TokenCalls` | `util.rs`, `rpcnb.rs` | a procedure is the sequence of its RPC calls; `"rentHeld"` marks the query whose guard stays in the procedure's scope; `own` is the transaction a request builds |
| `SendTx` | `send_tx` | the passes of the polling loop, one action per await |
| `Broadcast` | the service | EXTENDS the five above; `Init`, `Next`, fairness, properties |
| `BroadcastPromise` | the abstract Broadcast service | requests with a goal, receipts and one answer; no mutex, no RPC, no loop |
| `Orders` | `convert_new_order_v3` | the message, the instruction and what is lost between them |
| `DexCalls` | the unary Dex handlers | EXTENDS `Requests`, `Ledger` and `Orders`; a handler is the sequence of its RPC calls, each with the transaction it is about; `read` is a blockhash on its way from the node, which the cluster may outdate before it arrives |
| `DexPromise` | the abstract signing service | keys, a signed transaction or a listing; no mutex, no RPC |
| `EventQueue` | cranking | the ring as the dex program keeps it, and as the daemon parses it |
| `MonitorQueue` | the streaming handler | handler, two forwarders per stream, channel, websocket |
| `Server` | `server.rs` | EXTENDS `Broadcast`, `INSTANCE`s `DexCalls` over variables of its own; adds connections and their permits |
| `Keys` | conversions | byte strings of any length; ed25519 is a set of points and a function from secret to public keys (external) |
| `BroadcastMC`, `DexCallsMC`, `EventQueueMC`, `KeysMC`, `MonitorQueueMC`, `ServerMC` | instances | symmetry sets, sets of accounts and orders, a curve |
| `Broadcast_proofs` | types, guards, deadlock, and what the answers of token procedures mean | EXTENDS `Broadcast` |
| `BroadcastRefinement_proofs` | what the answers of batches mean, that handlers run out of awaits, the step simulation of `BroadcastPromise` | EXTENDS `Broadcast_proofs` |
| `DexCalls_proofs`, `DexRefinement_proofs` | the Dex invariants; the step simulation of `DexPromise` | the second EXTENDS the first |
| `Server_proofs` | what was proved of each service holds in the daemon | EXTENDS `Server` and `BroadcastRefinement_proofs`, `INSTANCE`s `DexRefinement_proofs` |
| `EventQueue_proofs`, `MonitorQueue_proofs`, `Keys_proofs` | the invariants of these modules | |

Correspondence. A handler is a future, polled without interruption from one
await to the next, so an action is exactly the code between two awaits: it
begins when a lock is granted or an answer arrives and ends when the next lock
or answer is asked for. `holder[m]` is the owner of the `MutexGuard`. A client
that goes away (`Cancel`) drops the future at its await and every guard it owns.
The instructions built between two awaits change nothing that is shared; they
are left out, as are logging and wording. Signing is deterministic, so the
transaction a token procedure builds has the request's name unless an equal
request without a generated key pair built it over the same blockhash
(`TokenCalls!Outcomes`): then it is that one, and sending it twice executes it
once. In `TokenCalls` the node's reading of the blockhash and the arrival of its
answer are one step: the Broadcast service's handlers hold the RPC client
meanwhile, so nothing they do can come between the two. In `DexCalls` they are
two steps (`ReadBlockhash`, then `Return` or `Succeed`), with the cluster between
them.

Definitions named `Op_something` directly above `Op` are mutants: plausible
mistakes in the same code, there to show that a property tells them apart from
it. No specification uses them.

## 3. Runs

| Run | Shows | Instance |
|---|---|---|
| `batches` | `CountsFinalized`, `OkBatchIsBroadcast`, `SignatureKnownWhenPolled`, `TypeOK` | 2 SendTx, 2 transactions, batches of 0 to 2 |
| `promise` | `KeepsPromise` (refinement), `EveryRequestAnswered`, `GuardsMatchScopes`, `NoDeadlock`, `OkTokenHasLanded`, `RefusalIsHarmless`, `MintsAddUp`, `AnswersComeNearer` | 2 requests among SendTx, RunCreateAccount, RunInitializeTokenAccount, RunMint and the library's transfer; batches of 0 to 2 |
| `dex` | `KeepsDexPromise` (refinement), `DexRequestsAnswered`, `SigningIsNotSending`, `VaultsAreMadeInOrder`, `SignedOrderIsAsAsked`, `BlockhashIsAskedForLast`, `RpcGuardSpansOneCall`, `AnswersComeNearer`, `TypeOK` | 2 requests among all ten handlers, 7 orders around the limit 4 |
| `server` | `ServicesAreIsolated`, `EverybodyRecovers`, `DeadlocksAreSelfMade` | 2 Broadcast requests (RunGenesis, RunCreateAccount) and 1 Dex request over 2 connections with 1 permit each |
| `monitor` | `GuardMatchesTask`, `CleanEndMeansNothingMonitored`, `ListenersAreNotAbandoned`, `LeaversAreForgotten`, `EveryoneGetsTheSocket`, `LossOfSocketEndsAll`, `TypeOK` | 2 streams, channels of 4, accounts that keep changing |
| `queue` | `ParseIsFifo`, `LowOwnersFirst`, `FittingCrankBites`, `FittingQueueDrains`, `TypeOK` | ring of 3, 3 owners, 2 nameable, 4 events, 2 cranks, 6 other accounts (none is a queue; one is a market) |
| `keys` | `RequestsAreToldApart`, `TypeOK` | 2-byte keys over 2 bytes, every string but the zeros a point, 2 accounts; key pairs whose halves do not match are sent too |

Why the bounds are enough. Two batches of two transactions (the sets include
equal ones) reach every order of send, TPU, check and skip within a pass, passes
with one transaction final and the other not, and one transaction polled by two
requests. Two requests give a holder and a waiter for each mutex, and two equal
mints over one blockhash or two. The library's procedures without a handler
have the scripts of procedures that run: `create_token_account` and
`mint_to_new_account` are the calls of `create_account`,
`create_account_rent_exempt` and `new_mint` those of `run_genesis`. A
ring of three slots wraps, fills and empties within four events, and three
owners exceed the two that may be named, as 33 exceed 32. A `LimitSize` of 4
stands for 2^16: the orders have limits below, at and above its last value. Four
messages fill a channel. Two forwarders of one stream and two of another give
the websocket client a queue. One permit per connection lets a single stuck
request fill it, as 64 fill the real one; the requests there are those that can be
stuck (RunGenesis) and those they can hold up, and no `SendTx`, whose states
would multiply the instance and whose ring over the two mutexes `NoDeadlock` of
`promise` and the theorem `OnlySelfMadeDeadlocks` are about. Keys of two bytes have a last byte and
another one. Most of what the bounds leave out (more requests, longer batches,
larger rings, wider limits, deeper channels) is covered by the proofs of
section 4.

### Disagreements between the code and what it says

Each of these is a run that TLC ends with a counterexample.

| Run | What happens |
|---|---|
| `genesis_stuck` | `create_and_init_mint` still holds the guard of `rpcnb.rs:148` when `get_latest_blockhash` locks the same mutex: RunGenesis never answers. |
| `failed_to_mint` | `util::send_txn` asks `confirm_transaction`, at the default commitment (finalized), right after the transaction was confirmed: "failed to mint" although the tokens exist. No RPC fails in this run (`RpcErrors = FALSE`); the trace ends with the answer "not finalized" to that call. |
| `dex_simulation` | The node's `{context, value}` is read as the result itself, whose `err` is optional: a failed simulation looks good and its transaction is handed out. |
| `monitor_both_sides` | The first forwarder keeps the websocket client for its whole loop; the other side of the same stream is not subscribed to as long as nothing changes on the first. |
| `keys_owner` | `pubkey_from_bytes` leaves the last byte 0: another owner than the one named. |

The modules also contain, without a run of their own:

* RunInitializeTokenAccount answers `invalid_argument("bad key pair")` for every
  failure, one after the account was created included (`sol.rs:260`;
  `TokenCalls!FailureStatus`).
* Two equal RunMint over one blockhash are one mint, and both are answered OK
  (`TokenCalls!Outcomes`). What keeps a later mint from falling into an earlier
  one is the wait for finality that also causes `failed_to_mint` (`MintsAddUp`);
  the library's `transfer` waits for "confirmed" only, so that a repetition right
  after its OK may transfer nothing.
* A stuck RunGenesis takes its connection's permits with it: other Broadcast
  requests queue up behind it, and Dex requests that share a connection with any
  of them wait too (`Server!ServicesAreIsolated` says where they do not).
* The limit 65535 of an order is refused (`serum.rs:215`, `u16::MAX <= limit`)
  although it fits the field that `proto/serum.proto:114` calls "u16 limit"
  (`Orders!convert_new_order_v3`).
* `convert_state` makes a node failure `invalid_argument("bad market")`
  (`serum.rs:298`; `DexCalls!FailureStatus`).
* The padding of a dex account is sliced before its length is checked
  (`dex/mod.rs:939`): a panic instead of the error text
  (`EventQueue!remove_dex_account_padding`).
* `keypair_to_bytes` and `reverse_pubkey` return 31 bytes (`util.rs:61`,
  `lib.rs:40`): the key pair of a created account is lost
  (`Keys!reverse_keypair`), and the keys of a market, sent back as the
  `MarketState` of a later request, are refused (`serum.rs:91`, `util.rs:45`).

### Fairness

`Broadcast`: weak fairness of each handler's steps (the executor polls every
task that can move, and every RPC ends: the HTTP client has a timeout and the
confirmation spinner gives up when the blockhash is too old) and of time passing
the deadline. Clients owe nothing, and the cluster owes nothing: transactions
may stay pending for ever, and requests are answered all the same. A waiter for
a mutex that keeps being taken by others may starve under weak fairness;
in these runs each request is finite, so that the mutex comes free for good.
`futures::lock::Mutex` makes no promise of order, so nothing stronger is assumed.
`BroadcastPromise` and `DexPromise` ask only that a request be closed.

`DexCalls`: the same, without time. `Server`: the handlers as before, and the
transport takes up a request of a connection that has a permit (a permit is held
until the handler's future ends, and no connection carries an endless stream of
requests). `EverybodyRecovers` is conditional: it assumes that the clients of the
requests that block themselves give up in the end. `MonitorQueue`: the runtime
polls every task that can move; `BusySpec` adds that the subscribed accounts keep
changing, which a quiet market does not owe (`LeaversAreForgotten` is about a busy
one only). `EventQueue`: strong fairness of reading, signing and executing, since
an RPC that fails now and then interrupts each of them, and weak fairness of
asking again: somebody cranks persistently, as the service is meant to be used.

## 4. Proofs

All theorems hold for every value of the constants that meets the assumptions
the modules name: any set of requests, streams, cranks or connections, any batch
length, capacity, ring size, key length, number of permits and width of the
limit. None of them uses fairness; where a module has both, its theorems are
about `Safety`, the specification without it (`Spec == Safety /\ Fairness`).

**Broadcast service.** `TypeCorrect` (`TypeOK`) adds to the types that a
request's position stays within its own script, without which `step` could grow
out of it.

`OnlySelfMadeDeadlocks` (`DeadlocksAreSelfMade`) is the theorem about the two
mutexes, and holds for all procedures: wherever requests wait for one another in
a ring, one of them is a RunGenesis that waits for itself. Its invariant
`GuardInv` follows the scopes: a request holds `tpu` exactly from the TPU send
to the end of the check, and holds `rpc` while it awaits an answer or after a
`"rentHeld"` call of its own. So who holds `rpc` and waits, waits for `rpc`, and
who holds `tpu` waits at most for `rpc`: a ring needs a holder of `rpc` that
waits, and only a stuck request is one. `GuardsFollowScopes`
(`GuardsMatchScopes`) and `DeadlockFreedom` (`NoDeadlock`) are what is left when
no procedure in use has a `"rentHeld"` call (`NoGuardOutlivesItsCall`). They need
that assumption: with RunGenesis both properties are false, and `genesis_stuck`
shows what follows.

`OkMeansLanded`
(`OkTokenHasLanded`), `BlamedArgumentsAreHarmless` (`RefusalIsHarmless`) and
`LaterMintsAreOthers` (`MintsAddUp`) follow from `AnswerInv`: who still has its
blockhash ahead owns an unbuilt transaction of its own, what was built over the
latest blockhash is not finalized, and an answered request is over. The second
part carries `MintsAddUp`: an OK mint is finalized, hence not over the latest
blockhash, hence not what a later request builds.

`CounterCountsFinalized`, `OkBatchMeansBroadcast` and `SignatureComesFirst`
follow from `BatchInv`, which says request by request where the loop may have
left a trace: positions behind the current one are signed in the first pass, the
counted ones are in the system and finalized, and nothing is counted twice
because a counted position is skipped.

`HandlersRunOut` (`AnswersComeNearer`) is the part of the liveness of requests
that can be proved: a request that moves has fewer awaits ahead of it, by a
measure in the naturals, unless it begins a pass, and it begins none after the
deadline. With the fairness of its steps and of the clock, and a mutex that comes
free, that gives an answer; this last inference is TLC's (`EveryRequestAnswered`).
It uses both invariants, for the step within the script and the position within
the batch.

`HandlersKeepPromise`: `Init` implies the promise's `Init` and every step is a
step of `BroadcastPromise` or changes nothing it speaks of. It needs `PromiseInv`,
which joins the two invariants above with two facts: a client's transaction is
never unbuilt, and one whose sending is awaited has been handed over.

**Dex service.** `DexTypeCorrect`, `SigningNeverSends`, `ListingsHaveVaults`
and `OrdersAreFaithful` follow from `DexInv`. Its core is
`Plan`, a statement about the calls that are still ahead of a request: sends are
about vaults, the pc vault is begun after the coin vault was sent, a listing has
made or will make both, a transaction that is not simulated is built last, and an
order is looked at before it is placed. The scripts have it, and taking off the
first call keeps it. `DexHandlersKeepPromise` is the step simulation of
`DexPromise`; it needs that nothing is built twice, that only a listing makes
vaults, that a simulation comes last and finds its transaction, and that the
market is looked up before anything is built (`Ahead`). `BlockhashComesLast`
(`BlockhashIsAskedForLast`) joins the two: by `Plan` the transaction that is not
simulated is built by the last call, so that a blockhash on its way means that
no other call is left; by `Ahead` nothing was signed before; and the guard says
the RPC client is the request's own. How old the blockhash is on arrival is the
node's and the network's business, and nothing is claimed of it. `GuardsSpanCalls`
(`RpcGuardSpansOneCall`) is inductive with the types: the guard of the RPC client
is taken and dropped with the call, so that requests wait for the node and never
for the next lock of one another. `CallsRunOut` (`AnswersComeNearer`) is to
`DexRequestsAnswered` what `HandlersRunOut` is to `EveryRequestAnswered`.

**Event queue.** `EventTypeCorrect`, `RingIsReadInOrder`, `LowOwnersAreNamed` and
`FittingCranksBite` follow from `CrankInv`: the types, and an instruction is the
one built from the events that were read. That at most `MaxAccounts` owners are
the lowest ones, and exactly that many when one is left out, is shown by
comparing an owner's rank with an interval through injections, since induction
over the set is out of reach. `ForeignAssumption` says of the other accounts a
request may name only that each event of one that reads as a queue has an owner.

**MonitorQueue.** `MonitorTypeCorrect`, `SocketGuardFollowsTask`,
`NobodyIsAbandoned` and `CleanEndIsNoQuietMarket` follow from `MonitorInv`: the
properties themselves, and that tasks are spawned in order, a receiver lives as
long as its handler, and a subscription comes before the first change.

**Keys.** `KeysTypeCorrect` (`TypeOK`: what is returned is a byte short, and so is
never accepted again) and `RequestsStayApart`
(`RequestsAreToldApart`) follow from `KeysInv`: each account was made of the key
pair that was sent, and of the owner that was sent up to its last byte. The
conversions never look at more than that, and `convert_pubkey` accepts a string
with or without its last byte, so that equal owners come from strings that agree
before it.

**Server.** `ServicesRunAsAlone`: a run of the daemon is a run of either service,
because a step of the transport or of the other service leaves its variables
alone, and an admission is one of its first steps. The other theorems carry over
what was proved of the services: `DaemonDeadlocksAreSelfMade`,
`DaemonBroadcastsAsAlone`, `DaemonSignsAsAlone`, and `DaemonKeepsPromises` (both
abstract services are implemented at once). The theorems of the Dex service come
in through an `INSTANCE` of their module; the lemmas `Same...` identify its
definitions with those `Server` uses. `Server!DexAssumption` repeats for the Dex
requests what `DexCalls` and `Orders` assume. That progress is *not* carried over,
since permits may run out, is the point of `ServicesAreIsolated`.

Assumptions. `Requests!NoTaskAssumption`; `Broadcast`'s `TxAssumption`,
`ProcedureAssumption` and `MaxBatchAssumption`; `DexCalls`'s `DexTxAssumption`,
`HandlerAssumption` and `OrderRequestAssumption`; `Orders!LimitSizeAssumption`;
`EventQueue`'s five; `MonitorQueue`'s two; `Keys`'s four;
`TokenCalls!RpcErrorsAssumption`; `Server`'s four. Each says what the code fixes (a free
mutex has no holder, a message's fields have their types, a channel has a
capacity) and TLC evaluates them in the runs.

Model-checked only:

* every liveness property, and the fairness of `KeepsPromise` and
  `KeepsDexPromise` (that requests are closed): liveness under fairness and
  `ENABLED` are out of the prover's reach;
* `FittingQueueDrains`, `LeaversAreForgotten`, `EveryoneGetsTheSocket`,
  `LossOfSocketEndsAll`, for the same reason;
* that the permits of a connection suffice or do not (`ServicesAreIsolated`,
  `EverybodyRecovers`), for the same reason;
* the five properties of the code's disagreements, which are false.

## 5. Not modelled

* Wall-clock time, the 10 ms blocking sleep and executor threads. A simulated
  transaction may be stale when it is handed out; nothing in the code bounds how
  much, so no property says it.
* The contents of instructions and accounts beyond an order's fields, the event
  queue's header and the owners of its events. A market account is read with one
  of its outcomes (keys, error, panic); its layout is not modelled.
* Equal Dex requests over one blockhash keep separate transactions: the daemon
  does not send them, the client does. Each service sees a latest blockhash of
  its own. A client that leaves while its request still waits in the connection
  is one whose request is never sent.
* `convert_level`, unused; `token_instruction.rs`, not compiled; worker cranking,
  no caller; the authorization header, read and never used; configuration.
* Whether the halves of a key pair belong together: `Keypair::from_bytes` of
  ed25519_dalek looks at the length and at the public half alone, so the daemon
  takes such a pair and signs with it; only the cluster refuses the signature
  (`Keys!CreateAccount`).
* Transactions that execute with an error: to the daemon they look like ones
  that never execute.

## 6. Plan

The components that carry the daemon's logic are modelled, and every invariant
and action property their runs check is proved. What is left, in this order:

1. `get_keys_for_market` as a decision list over the account's fields, like
   `parse_event_queue`, so that `BadAccount` has its causes.
2. `MonitorQueue` behind `Server`: a stream's request leaves its permit when the
   handler has answered, and its messages still share the connection.
3. The well-founded core of the liveness of `MonitorQueue` and of cranking, as
   `AnswersComeNearer` is that of the handlers.
