------------------------------ MODULE DexCallsMC ------------------------------
(* DexCalls on small instances.                                             *)
EXTENDS DexCalls, TLC

(* Orders that take each enumeration through its numbers and the limit      *)
(* around the size of its field, and one message for each fault.            *)
OrderOf(side, price, qty, pc_qty, stb, type, limit) ==
  [order |-> "v3", side |-> side, limit_price |-> price, max_coin_qty |-> qty,
   max_native_pc_qty_including_fees |-> pc_qty, self_trade_behavior |-> stb,
   order_type |-> type, client_order_id |-> 7, limit |-> limit]

OrdersToTry ==
  {OrderOf(TRUE, 1, 1, 2, 0, 1, LimitSize - 2), OrderOf(FALSE, 2, 1, 1, 1, 2, 0),
   OrderOf(TRUE, 1, 2, 1, 2, 0, LimitSize - 1), OrderOf(FALSE, 1, 1, 1, 2, 0, LimitSize),
   OrderOf(TRUE, 0, 1, 1, 0, 0, 1), OrderOf(TRUE, 1, 1, 1, 3, 0, 1), NoOrder}

AllTx == Task \X Part
Symmetry == Permutations(Task)
===============================================================================
