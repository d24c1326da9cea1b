SPECIFICATION MCSpec
CONSTANTS
  Uids = {"u1", "u2"}
  Tids = {"t1", "t2"}
  Fids = {"f1", "f2"}
  Users = {"", "u", "v"}
  Shares = {"S", "T", "IPC$"}
  IPC = "IPC$"
  Names = {"a", "b", "/srvsvc"}
  Pipes = {"/srvsvc"}
  TempLimit = 3
  Scenarios <- AllScenarios
  AfpUsers = {"u", "v"}
  AfpNames = {"a", "b", "c", "f"}
  AfpCases <- AllAfpScenarios
  Forks = {"k1", "k2"}
  Volume = "Vol"
  MaxDid = 6
  NestLimit = 3
  MapSize = 2
  MapCount = 2
INVARIANTS Reported NoneInvented TablesInStep
CHECK_DEADLOCK FALSE
