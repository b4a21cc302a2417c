CONSTANTS
  Addr = {sh, t1, t2}
  Shell = sh
  Null = Null
  WaitingPrograms = TRUE
  SleepingPrograms = FALSE
  CtrlC = FALSE
  NestedTimer = FALSE
SPECIFICATION FairSpec
PROPERTIES CreatedTasksStart EndedTasksAreFreed ReadyTasksRun
