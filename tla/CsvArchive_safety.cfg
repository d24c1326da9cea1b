SPECIFICATION Spec
CONSTANTS
  d1 = d1
  d2 = d2
  Days <- TwoDays
  NoDate = NoDate
  FileLines = 3
  MaxRecords = 7
  MaxFaults = 2
CHECK_DEADLOCK FALSE
SYMMETRY Symmetry
INVARIANTS TypeOK DayOrder FileBounded
PROPERTIES AppendOnly
