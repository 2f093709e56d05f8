SPECIFICATION Spec
CONSTANTS
  t1 = t1
  Task = {t1}
  NoTask = NoTask
  Tx <- AllTx
  LimitSize = 4
  OrderRequest <- OrdersToTry
  Procedure = {"cancel_order", "settle_funds", "close_open_orders", "match_orders"}
INVARIANTS
  FailedSimulationIsAnError
