CONSTANTS
  Prompt = FALSE
  MaxStarts = 2
  MaxDeaths = 2
SPECIFICATION Spec
CHECK_DEADLOCK FALSE
PROPERTY
  StartReturns
