SPECIFICATION MCSpec
CONSTANTS
  KeepDays = 1
  LastId = 6
  LastDay = 3
  MaxGaps = 1
  MaxImports = 1
  MaxErrors = 1
  FirstYear = 1895
  FirstDay = 2413195
  LastYear = 2105
CHECK_DEADLOCK FALSE
INVARIANTS TypeOK CalendarExact
PROPERTIES OnlyOldDeleted AtMostOneOldLeft OldRowsGo
