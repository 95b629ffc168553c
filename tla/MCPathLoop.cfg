\* Five paths: every subset alive, every position of the static variable.
CONSTANT PathCount = 5
SPECIFICATION Spec
INVARIANT NoStarvation
PROPERTIES SelectSpec DropOnlyWhenAllDead RoundEnds
