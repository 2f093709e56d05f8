SPECIFICATION Spec
CONSTANTS
  t1 = t1
  t2 = t2
  Task = {t1, t2}
  NoTask = NoTask
  Tx <- AllTx
  LimitSize = 4
  OrderRequest <- OrdersToTry
  Procedure = {"get_market_pubkeys", "list_market", "consume_events", "init_open_order", "new_order", "cancel_order", "settle_funds", "close_open_orders", "match_orders", "monitor_queue"}
INVARIANTS
  TypeOK
  SigningIsNotSending
  VaultsAreMadeInOrder
  SignedOrderIsAsAsked
  RpcGuardSpansOneCall
  BlockhashIsAskedForLast
PROPERTIES
  DexRequestsAnswered
  AnswersComeNearer
  KeepsDexPromise
