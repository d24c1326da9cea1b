SPECIFICATION Spec
CONSTANTS
  Events <- ThreeEvents
  Exclusions <- TwoExclusions
  Alerts <- TwoAlerts
  Interval = 1
  MaxTime = 4
  MaxEdits = 1
  MaxFaults = 1
  MaxBatch = 2
CHECK_DEADLOCK FALSE
INVARIANTS TypeOK ExcludedNotStored
PROPERTIES NothingHidden MarkedByRules
