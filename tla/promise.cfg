SPECIFICATION Spec
CONSTANTS
  t1 = t1
  t2 = t2
  u1 = u1
  Task = {t1, t2}
  NoTask = NoTask
  UserTx = {u1}
  Tx = {t1, t2, u1}
  MaxBatch = 2
  RpcErrors = TRUE
  Procedure = {"send_tx", "run_create_account", "run_initialize_token_account", "run_mint", "transfer"}
PROPERTIES
  KeepsPromise
  EveryRequestAnswered
  MintsAddUp
  AnswersComeNearer
INVARIANTS
  GuardsMatchScopes
  NoDeadlock
  OkTokenHasLanded
  RefusalIsHarmless
