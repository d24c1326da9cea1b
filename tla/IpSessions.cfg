SPECIFICATION Spec
CONSTANTS
  MessageLength = 3
  PeekLength = 2
  Timeout = 2
  WireModulus = 32
  LongModulus = 1024
  Scenarios <- AllScenarios
CHECK_DEADLOCK FALSE
INVARIANTS TypeOK Genuine NothingLost
PROPERTIES OnceEach FirstSessionKept EndedSessionsGo
