SPECIFICATION FairSpec
CONSTANTS
  Sadc = {p1, p2, p3}
  LastDay = 1
  p1 = p1
  p2 = p2
  p3 = p3
  NrAct = 2
  Counted <- MCCounted
  Args <- ArgsCreate
  InitFile <- FileJunk
  MayDie = TRUE
INVARIANTS LockedWrites RecordsWhole NoRecordBeforeHeader
PROPERTIES Terminates
CHECK_DEADLOCK FALSE
