SPECIFICATION WorkerSpec
CONSTANTS
  Consumers = {"parent", "child"}
  Generations = {1}
  Holders = {1, 2, 3}
  Keys = {}
  Transports = {"checked", "tried"}
  Mail = {"ask", "supervise"}
  LeaseTerm = 2
  MaxSeq = 1
  NoOne = NoOne
  Reach <- ClaudeReach
  TypedTries = 2
  Faults = {"crash", "sleep", "call", "late", "doubt"}
  MaxFaults = 2
  MaxFallbacks = 2
CHECK_DEADLOCK FALSE
INVARIANTS
  WorkerTypeOK
  SentMeansReceived
  PushedOnce
PROPERTIES
  ReadMailStaysQuiet
