\* Two starts on a host that may already have a copy of each rule.
CONSTANTS
  Foreign = 1
  CommandsFail = TRUE
  MaxStarts = 2
SPECIFICATION Spec
INVARIANTS TypeOK  ForeignRulesKept
PROPERTY StopWhileRunning
\* After the last start the process may be gone for good.
CHECK_DEADLOCK FALSE
