------------------------------ MODULE TokenCalls ------------------------------
(***************************************************************************)
(* The procedures of src/util.rs and src/rpcnb.rs that create accounts,    *)
(* mint and transfer tokens.  Each is a fixed sequence of RPC calls made   *)
(* through the shared Arc<Mutex<RpcClient>>; between two calls it only     *)
(* builds instructions and signs, which changes nothing that is shared.    *)
(*                                                                         *)
(* Every call locks the mutex, awaits the node's answer and drops the      *)
(* guard -- except "rentHeld", the minimum-balance query written inline in *)
(* create_and_init_mint and create_account_rent_exempt: its guard `client` *)
(* is a variable of the procedure's own scope (the drop is commented out), *)
(* so it lives until the procedure returns.                                *)
(*                                                                         *)
(* A request builds one transaction.  It has the request's name, unless an *)
(* equal request has built it before over the same blockhash.              *)
(***************************************************************************)
EXTENDS Naturals, Sequences, Requests, Ledger

CONSTANT RpcErrors     \* whether the calls of these procedures may fail for a
                       \* reason of the node or of the network

ASSUME RpcErrorsAssumption == RpcErrors \in BOOLEAN

VARIABLES step,        \* step[t]: position of request t in its procedure
          own          \* own[t]: the transaction request t makes

(* src/util.rs *)
initialize_token_account == <<"rent", "hash", "send", "confirm">>
mint_to_existing_account == <<"hash", "send", "confirm">>
create_account == <<"rent", "hash", "send">>

(* src/rpcnb.rs *)
create_account_rent_exempt == <<"rentHeld", "hash", "send">>
create_token_account == <<"rent", "hash", "send">>
create_and_init_mint == <<"rentHeld", "hash", "send">>
mint_to_new_account == <<"rent", "hash", "send">>
transfer == <<"hash", "send">>

(* What each handler of src/sol.rs calls once its arguments are accepted,  *)
(* and the procedures of the library crate that no handler calls.          *)
Script ==
  [run_genesis |-> create_and_init_mint,
   run_initialize_token_account |-> initialize_token_account,
   run_create_account |-> create_account,
   run_mint |-> mint_to_existing_account,
   new_mint |-> create_and_init_mint,
   create_account_rent_exempt |-> create_account_rent_exempt,
   create_token_account |-> create_token_account,
   mint_to_new_account |-> mint_to_new_account,
   transfer |-> transfer]

TokenProcedure == DOMAIN Script
RunsScript(t) == kind[t] \in TokenProcedure
CurrentCall(t) == Script[kind[t]][step[t]]

(* Mutant: the other minimum-balance queries forget their drop as well.    *)
GuardEndsWithCall_notForRent(c) == c \notin {"rentHeld", "rent"}

(* The guard taken for call c is dropped as soon as its answer is in.      *)
GuardEndsWithCall(c) == c # "rentHeld"

(* The lock is granted and the request goes out.  From then on a           *)
(* transaction being sent may execute, whatever the answer will be.        *)
TokenLock(t) ==
  /\ RunsScript(t)
  /\ pc[t] = "lock"
  /\ Take(t, "rpc", "call")
  /\ ledger' = IF CurrentCall(t) = "send" THEN Submitted(own[t]) ELSE ledger
  /\ UNCHANGED <<kind, reply, step, own, fresh>>

(* Mutant: fire and forget, a send succeeds once the node has taken it.    *)
Succeeds_onceSent(t, c) == c = "confirm" => ledger[own[t]] = "finalized"

(* Mutant: util::send_txn ignores what confirm_transaction answers.        *)
Succeeds_unconfirmed(t, c) == c \in {"send", "confirm"} => Landed(own[t])

(* When the node can give call c of request t a successful answer:         *)
(* send_and_confirm_transaction_with_spinner returns once the transaction  *)
(* is confirmed; confirm_transaction, at the client's default commitment,  *)
(* says true only of a finalized one, and util::send_txn makes anything    *)
(* else an error.                                                          *)
Succeeds(t, c) ==
  CASE c = "send" -> Landed(own[t])
    [] c = "confirm" -> ledger[own[t]] = "finalized"
    [] OTHER -> TRUE

(* The procedures that generate no key pair: their arguments and the       *)
(* blockhash determine the transaction, its signatures included.           *)
Deterministic == {"run_genesis", "run_mint", "transfer"}

(* The transactions t may turn out to have built: one of its own, or that  *)
(* of an equal request over the same blockhash.                            *)
Outcomes(t) ==
  {t} \cup {own[u] : u \in {v \in Task : /\ kind[v] = kind[t]
                                       /\ kind[t] \in Deterministic
                                       /\ own[v] \in fresh}}

(* The blockhash is there: the instructions are signed over it.            *)
BuildOwn(t) ==
  \E x \in Outcomes(t) :
    /\ own' = [own EXCEPT ![t] = x]
    /\ ledger' = Built(x)
    /\ fresh' = fresh \cup {x}

(* The answer to the call request t awaits, when it is not an error.       *)
Answered(t) ==
  /\ RunsScript(t)
  /\ pc[t] = "call"
  /\ Succeeds(t, CurrentCall(t))
  /\ IF CurrentCall(t) = "hash" THEN BuildOwn(t) ELSE UNCHANGED <<ledgerVars, own>>
  /\ UNCHANGED kind

LastCall(t) == step[t] = Len(Script[kind[t]])

(* There is a next call: its lock is asked for.                            *)
TokenReturn(t) ==
  /\ Answered(t)
  /\ ~LastCall(t)
  /\ pc' = [pc EXCEPT ![t] = "lock"]
  /\ step' = [step EXCEPT ![t] = @ + 1]
  /\ holder' = IF GuardEndsWithCall(CurrentCall(t))
               THEN Dropped(t, {"rpc"}) ELSE holder
  /\ UNCHANGED reply

TokenSucceed(t) ==
  /\ Answered(t)
  /\ LastCall(t)
  /\ Finish(t, "ok")
  /\ UNCHANGED step

(* Mutant: the others report it like run_initialize_token_account does.    *)
FailureStatus_copied(k) == "invalid"

(* The status a failed procedure is reported with: the handler of          *)
(* run_initialize_token_account answers invalid_argument, the others       *)
(* internal.                                                               *)
FailureStatus(k) ==
  IF k = "run_initialize_token_account" THEN "invalid" ELSE "internal"

(* What the ledger makes an error of: a blockhash that expired before the  *)
(* transaction was executed, and a transaction that is not finalized, of   *)
(* which confirm_transaction says false.                                   *)
Refuted(t) ==
  \/ CurrentCall(t) = "send" /\ ledger[own[t]] = "expired"
  \/ CurrentCall(t) = "confirm" /\ ledger[own[t]] # "finalized"

(* The call fails, for the ledger's reasons or the node's, which may take  *)
(* any call.  `?` returns at once.                                         *)
TokenFail(t) ==
  /\ RunsScript(t)
  /\ pc[t] = "call"
  /\ RpcErrors \/ Refuted(t)
  /\ Finish(t, FailureStatus(kind[t]))
  /\ UNCHANGED <<kind, step, own, ledgerVars>>

TokenStep(t) ==
  TokenLock(t) \/ TokenReturn(t) \/ TokenSucceed(t) \/ TokenFail(t)
===============================================================================
