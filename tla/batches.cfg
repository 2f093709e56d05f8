SPECIFICATION Spec
CONSTANTS
  t1 = t1
  t2 = t2
  u1 = u1
  u2 = u2
  Task = {t1, t2}
  NoTask = NoTask
  UserTx = {u1, u2}
  Tx = {t1, t2, u1, u2}
  MaxBatch = 2
  RpcErrors = TRUE
  Procedure = {"send_tx"}
SYMMETRY Symmetry
INVARIANTS
  TypeOK
  CountsFinalized
  OkBatchIsBroadcast
  SignatureKnownWhenPolled
