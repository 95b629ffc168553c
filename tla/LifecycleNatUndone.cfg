\* NatUndone does not hold of the code.
CONSTANTS
  Foreign = 0
  CommandsFail = FALSE
  MaxStarts = 1
SPECIFICATION Spec
INVARIANT NatUndone
CHECK_DEADLOCK FALSE
