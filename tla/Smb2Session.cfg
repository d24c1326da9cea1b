SPECIFICATION MCSpec
CONSTANTS
  Sids = {"s1", "s2"}
  Tids = {"t1", "t2"}
  Fids = {"f1", "f2"}
  Users = {"", "u", "v"}
  Shares = {"S", "IPC$"}
  IPC = "IPC$"
  Names = {"", "a", "b", "/srvsvc"}
  Pipes = {"/srvsvc"}
  TempLimit = 3
  CacheLimit = 2
  Scenarios <- AllScenarios
  MaxHandle = 5
  Export = "x"
  NfsNames = {"a", "f"}
  NfsCases <- AllNfsScenarios
INVARIANTS Reported NoneInvented TablesInStep
CHECK_DEADLOCK FALSE
