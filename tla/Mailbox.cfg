SPECIFICATION Spec
CONSTANTS
  Consumers = {c1}
  Generations = {1, 2}
  Holders = {w1, w2}
  Keys = {k1}
  Transports = {"checked"}
  Mail = {"ask", "supervise"}
  LeaseTerm = 1
  MaxSeq = 3
  NoOne = NoOne
SYMMETRY Symmetry
CONSTRAINTS FirstOnly TypedLater ThirdDirects
CHECK_DEADLOCK FALSE
INVARIANTS
  MailboxInv
  ReadMailIsNotPushed
  CancelledTogether
  OneDirectionStands
  AnsweredAsksSettled
PROPERTIES
  FinalStays
  OwnerKept
  LeaseDecides
