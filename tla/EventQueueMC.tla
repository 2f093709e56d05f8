----------------------------- MODULE EventQueueMC -----------------------------
(* EventQueue on small instances, and accounts a request may name instead   *)
(* of an event queue.                                                       *)
EXTENDS EventQueue

Wallet == Account(0, FALSE, FALSE, 0, 0, <<>>)
TokenAccount == Account(165, FALSE, FALSE, 0, 0, <<>>)
TinyPadded == Account(12, TRUE, TRUE, 0, 0, <<>>)
ShortHeader == Account(20, TRUE, TRUE, 0, 0, <<>>)
EmptyQueue == Account(12 + 8 * 15, TRUE, TRUE, 0, 0, <<1>>)
(* A market: its second word, read as a queue's head, is part of a key.     *)
MarketAccount == Account(388, TRUE, TRUE, 9, 9, <<1, 1, 1>>)

AnyAccount == {Wallet, TokenAccount, TinyPadded, ShortHeader, EmptyQueue, MarketAccount}
===============================================================================
