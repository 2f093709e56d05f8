--------------------------- MODULE MonitorQueueMC ---------------------------
(* MonitorQueue on small instances; clients are interchangeable in runs     *)
(* that check no liveness.                                                  *)
EXTENDS MonitorQueue, TLC

Symmetry == Permutations(Stream)
===============================================================================
