-------------------------------- MODULE Orders --------------------------------
(***************************************************************************)
(* The conversion of an order, convert_new_order_v3 of src/serum.rs: from  *)
(* the message a client fills in to the instruction the dex program reads. *)
(* The message leaves open what the instruction cannot say: quantities may *)
(* be 0, an enumeration may have any number, the limit has 32 bits where   *)
(* the instruction has 16.                                                 *)
(***************************************************************************)
EXTENDS Naturals

CONSTANT LimitSize     \* the limits an instruction can say; 2^16 in the code

ASSUME LimitSizeAssumption == LimitSize \in Nat \ {0, 1}

(* The numbers of the proto enumerations.                                  *)
SelfTradeBehavior == [DecrementTake |-> 0, CancelProvide |-> 1, AbortTransaction |-> 2]
OrderType == [Limit |-> 0, ImmediateOrCancel |-> 1, PostOnly |-> 2]

Numbered(enum, n) == {name \in DOMAIN enum : enum[name] = n}
The(names) == CHOOSE name \in names : TRUE

Refused == [refused |-> TRUE]

WellFormed(req) ==
  /\ req.order = "v3"
  /\ req.limit_price # 0 /\ req.max_coin_qty # 0
  /\ req.max_native_pc_qty_including_fees # 0
  /\ Numbered(SelfTradeBehavior, req.self_trade_behavior) # {}
  /\ Numbered(OrderType, req.order_type) # {}

Instruction(req, limit) ==
  [side |-> IF req.side THEN "Bid" ELSE "Ask",
   limit_price |-> req.limit_price,
   max_coin_qty |-> req.max_coin_qty,
   max_native_pc_qty_including_fees |-> req.max_native_pc_qty_including_fees,
   self_trade_behavior |-> The(Numbered(SelfTradeBehavior, req.self_trade_behavior)),
   order_type |-> The(Numbered(OrderType, req.order_type)),
   client_order_id |-> req.client_order_id,
   limit |-> limit]

(* Mutant: `as u16` without the check before it.                           *)
convert_new_order_v3_truncates(req) ==
  IF WellFormed(req) THEN Instruction(req, req.limit % LimitSize) ELSE Refused

(* The largest limit the sixteen bits can say is refused as well: the      *)
(* check is u16::MAX <= limit.                                             *)
convert_new_order_v3(req) ==
  IF WellFormed(req) /\ ~(LimitSize - 1 <= req.limit)
  THEN Instruction(req, req.limit % LimitSize) ELSE Refused

(* The instruction says what the message says: `true=buy`, the same        *)
(* quantities, the same numbers of enumerations that the program counts in *)
(* its own way, and the limit unabridged.                                  *)
SaysTheSame(req, ins) ==
  /\ (ins.side = "Bid") = req.side
  /\ ins.limit_price = req.limit_price
  /\ ins.max_coin_qty = req.max_coin_qty
  /\ ins.max_native_pc_qty_including_fees = req.max_native_pc_qty_including_fees
  /\ SelfTradeBehavior[ins.self_trade_behavior] = req.self_trade_behavior
  /\ OrderType[ins.order_type] = req.order_type
  /\ ins.client_order_id = req.client_order_id
  /\ ins.limit = req.limit
===============================================================================
