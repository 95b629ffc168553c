\* StopHonoured does not hold of the code.
CONSTANTS
  Foreign = 1
  CommandsFail = FALSE
  MaxStarts = 1
SPECIFICATION Spec
PROPERTY StopHonoured
CHECK_DEADLOCK FALSE
