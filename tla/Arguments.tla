------------------------------- MODULE Arguments -------------------------------
(***************************************************************************)
(* What the handlers of src/sol.rs demand of a request before they do      *)
(* anything with it.  A field is faulty when it is absent, when its key    *)
(* does not convert (convert_pubkey, convert_keypair), when decimals is    *)
(* not one byte or when quantity is 0.  The checks run in order and the    *)
(* first faulty field ends the handler; all of them end it the same way,   *)
(* so which field was the first is all there is to tell, if any was.       *)
(***************************************************************************)
NoFault == "no fault"

send_tx_fields == {"tx"}
run_genesis_fields == {"payer", "mint", "owner", "decimals"}
run_initialize_token_account_fields == {"mint", "owner_account"}
run_create_account_fields == {"mint", "owner", "payer"}
run_mint_fields == {"payer", "signer", "mint", "recipient", "quantity"}

(* The handlers of the Broadcast service and the fields each one checks.   *)
Handled ==
  [send_tx |-> send_tx_fields,
   run_genesis |-> run_genesis_fields,
   run_initialize_token_account |-> run_initialize_token_account_fields,
   run_create_account |-> run_create_account_fields,
   run_mint |-> run_mint_fields]

(* What may be wrong with a request for k.  The procedures only the        *)
(* library crate offers take typed arguments: nothing to check.            *)
Faults(k) == {NoFault} \cup (IF k \in DOMAIN Handled THEN Handled[k] ELSE {})

(* Mutant: a status of its own for faulty arguments.                       *)
Rejection_failedPrecondition(k) == "failed_precondition"

(* The answer to a request with a faulty field.  A transaction that does   *)
(* not deserialize is reported as an internal error.                       *)
Rejection(k) == IF k = "send_tx" THEN "internal" ELSE "invalid"
===============================================================================
