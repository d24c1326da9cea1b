SPECIFICATION Spec
CONSTANTS
  Days = {d1}
  NoDate = NoDate
  FileLines = 2
  MaxRecords = 3
  MaxFaults = 1
CHECK_DEADLOCK FALSE
INVARIANTS NumberedFromOne
