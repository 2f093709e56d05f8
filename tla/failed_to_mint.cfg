SPECIFICATION Spec
CONSTANTS
  t1 = t1
  Task = {t1}
  NoTask = NoTask
  UserTx = {}
  Tx = {t1}
  MaxBatch = 0
  RpcErrors = FALSE
  Procedure = {"run_mint"}
PROPERTIES
  FailedMintIsNoMint
