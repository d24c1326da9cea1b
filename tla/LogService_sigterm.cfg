SPECIFICATION Spec
CONSTANTS
  Limit = 3
  Numbers = 1
  Prompt = TRUE
CHECK_DEADLOCK FALSE
PROPERTY SigtermEnds
