SPECIFICATION Spec
CONSTANTS
  KeyLength = 2
  Byte = {0, 1}
  Point <- SmallPoint
  PublicOf <- SmallPublicOf
  MaxAccounts = 1
INVARIANTS
  OwnerIsKept
