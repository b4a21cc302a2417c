CONSTANTS
  Addr = {sh, t1, t2}
  Shell = sh
  Null = Null
  WaitingPrograms = TRUE
  SleepingPrograms = TRUE
  CtrlC = TRUE
  NestedTimer = TRUE
SPECIFICATION Spec
INVARIANTS TypeOK  CommandIsOver 
PROPERTIES  WokenBeforeFreed
SYMMETRY Symmetry
\* The kernel stops when it panics.
CHECK_DEADLOCK FALSE
