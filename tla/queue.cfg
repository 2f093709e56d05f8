SPECIFICATION Spec
CONSTANTS
  c1 = c1
  c2 = c2
  Crank = {c1, c2}
  Slots = 3
  Owner = {1, 2, 3}
  MaxAccounts = 2
  MaxEvents = 4
  Foreign <- AnyAccount
INVARIANTS
  TypeOK
  ParseIsFifo
  LowOwnersFirst
PROPERTIES
  FittingCrankBites
  FittingQueueDrains
