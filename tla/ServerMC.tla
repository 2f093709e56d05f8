------------------------------- MODULE ServerMC -------------------------------
(* Server on small instances.                                               *)
EXTENDS Server, TLC

AllDexTx == DexTask \X {"own", "coin", "pc"}
===============================================================================
