-------------------------------- MODULE Ledger --------------------------------
(***************************************************************************)
(* The validator cluster as the gRPC daemon sees it through JSON RPC: one  *)
(* life cycle per transaction.  Nothing here is code of the repository; it *)
(* is what the calls in src/rpcnb.rs, src/util.rs and src/sol.rs rely on.  *)
(*                                                                         *)
(*   unbuilt    no blockhash has been put in the transaction yet           *)
(*   new        signed over a blockhash, never handed to the cluster       *)
(*   pending    handed to an RPC node or to a leader; it may be lost       *)
(*   confirmed  executed in a block that reached commitment "confirmed"    *)
(*   finalized  that block reached commitment "finalized"                  *)
(*   expired    the blockhash grew too old before the transaction executed *)
(*                                                                         *)
(* A transaction that executes with an error counts as one that is never   *)
(* executed: it has no effect and both look the same to the daemon.        *)
(***************************************************************************)
CONSTANT Tx            \* every transaction that can exist
VARIABLES ledger,      \* ledger[x]: where transaction x is in its life cycle
          fresh        \* the transactions the daemon built over a blockhash
                       \* that is still the latest one a node would give

ledgerVars == <<ledger, fresh>>

Stage == {"unbuilt", "new", "pending", "confirmed", "finalized", "expired"}

(* The transaction took effect on the chain.                               *)
Landed(x) == ledger[x] \in {"confirmed", "finalized"}

(* The ledger once x has been built over the latest blockhash.  Signing is *)
(* deterministic: the same instructions, keys and blockhash are the same   *)
(* transaction, and building it again changes nothing.                     *)
Built(x) == IF ledger[x] = "unbuilt" THEN [ledger EXCEPT ![x] = "new"]
                                     ELSE ledger

(* The ledger once x has been handed over.  Handing over twice, or after   *)
(* the blockhash expired, changes nothing: a signature executes at most    *)
(* once and never over an expired blockhash.                               *)
Submitted(x) == IF ledger[x] = "new" THEN [ledger EXCEPT ![x] = "pending"]
                                     ELSE ledger

Confirm(x) == /\ ledger[x] = "pending"
              /\ ledger' = [ledger EXCEPT ![x] = "confirmed"]
              /\ UNCHANGED fresh

(* The RpcClient asks for blockhashes at its default commitment, finalized:*)
(* the latest one is that of the last finalized block.  When the block of  *)
(* x is finalized it is a later one than the block x was built over.       *)
Finalize(x) == /\ ledger[x] = "confirmed"
               /\ x \notin fresh
               /\ ledger' = [ledger EXCEPT ![x] = "finalized"]
               /\ UNCHANGED fresh

(* A blockhash expires long after the next one has been finalized.         *)
Expire(x) == /\ ledger[x] \in {"new", "pending"}
             /\ x \notin fresh
             /\ ledger' = [ledger EXCEPT ![x] = "expired"]
             /\ UNCHANGED fresh

(* Another block is finalized, and its blockhash is the latest from now on.*)
NextBlockhash == /\ fresh # {}
                 /\ fresh' = {}
                 /\ UNCHANGED ledger

Cluster == NextBlockhash \/ \E x \in Tx : Confirm(x) \/ Finalize(x) \/ Expire(x)
===============================================================================
