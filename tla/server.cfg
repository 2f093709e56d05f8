SPECIFICATION ServerSpec
CONSTANTS
  t1 = t1
  t2 = t2
  d1 = d1
  c1 = c1
  c2 = c2
  Task = {t1, t2}
  NoTask = NoTask
  UserTx = {}
  Tx = {t1, t2}
  MaxBatch = 0
  RpcErrors = TRUE
  Procedure = {"run_genesis", "run_create_account"}
  DexTask = {d1}
  DexTx <- AllDexTx
  DexProcedure = {"get_market_pubkeys"}
  LimitSize = 4
  OrderRequest = {}
  Connection = {c1, c2}
  NoConnection = NoConnection
  PermitLimit = 1
PROPERTIES
  ServicesAreIsolated
  EverybodyRecovers
INVARIANTS
  DeadlocksAreSelfMade
