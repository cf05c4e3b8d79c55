SPECIFICATION FairSpec
CONSTANTS
  Owners = {o1, o2, o3}
  Requests = {r1}
  Past = {o1}
  NoOne = NoOne
CHECK_DEADLOCK FALSE
INVARIANTS
  TypeOK
  LedgerInv
PROPERTIES
  Implements
  OneOwnerRemains
