----------------------------- MODULE BroadcastMC -----------------------------
(* Broadcast on small instances: the sets a configuration picks from.       *)
EXTENDS Broadcast, TLC

(* Requests that differ in name only are interchangeable, and so are user   *)
(* transactions.  Used by runs that check no liveness.                      *)
Symmetry == Permutations(Task) \cup Permutations(UserTx)

===============================================================================
