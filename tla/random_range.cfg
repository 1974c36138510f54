CONSTANTS
  RandMax = 7
  MaxArgument = 5
SPECIFICATION Spec
INVARIANT
  NonInclusive
