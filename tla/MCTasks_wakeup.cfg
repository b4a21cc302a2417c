CONSTANTS
  Addr = {sh, t1, t2}
  Shell = sh
  Null = Null
  WaitingPrograms = FALSE
  SleepingPrograms = FALSE
  CtrlC = FALSE
  NestedTimer = FALSE
SPECIFICATION FairSpec
PROPERTY ShellGoesOn
