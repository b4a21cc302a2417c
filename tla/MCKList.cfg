CONSTANTS
  Main = main
  Pushers = {p}
  Nodes = {n1, n2, n3, n4}
  MaxPushes = 2
  NULL = NULL
SPECIFICATION FairSpec
INVARIANTS TypeOK LockKeepsOut ListIsWhole ChainEnds ElementsGoWithTheirTask AllFreed
PROPERTIES OnlyPrepends CallsEnd
\* The program ends, and a lock may stay taken.
CHECK_DEADLOCK FALSE
