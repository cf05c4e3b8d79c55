SPECIFICATION FairWorkerSpec
CONSTANTS
  Consumers = {"parent", "child"}
  Generations = {1}
  Holders = {1, 2, 3}
  Keys = {}
  Transports = {"checked", "tried"}
  Mail = {"ask", "supervise"}
  LeaseTerm = 1
  MaxSeq = 1
  NoOne = NoOne
  Reach <- ClaudeReach
  TypedTries = 1
  Faults = {"crash", "sleep", "call", "late", "doubt"}
  MaxFaults = 2
  MaxFallbacks = 1
CHECK_DEADLOCK FALSE
PROPERTIES
  RowsSettle
  VerificationsSettle
