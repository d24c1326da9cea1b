SPECIFICATION MCSpec
CONSTANTS
  MaxClock = 3
  MaxWrites = 1
  MaxFaults = 1
  Limit = 3
  Numbers = 7
  Prompt = TRUE
  N = 3
  MaxFiles = 7
  MaxKills = 2
  MaxRenameFaults = 2
CHECK_DEADLOCK FALSE
INVARIANTS TypeOK LoadedIsCurrent OptionsHold LinesInOrder
PROPERTIES ChangesTakeEffect LogIsLive NewestKept
