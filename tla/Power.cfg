\* Safety and liveness together; one reset anywhere is enough to cut a routine
\* and start again, the second cuts the start-up that follows.
SPECIFICATION FairSpec
CONSTANTS
  MaxResets = 2
INVARIANTS
  TypeOK
  RailOrder
  SleepIsDark
  PythonHasPower
  FlagTellsState
  SafeModeHonoured
PROPERTIES
  GoesToSleep
CHECK_DEADLOCK FALSE
