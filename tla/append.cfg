SPECIFICATION Spec
CONSTANTS
  Sadc = {p1, p2, p3}
  LastDay = 2
  p1 = p1
  p2 = p2
  p3 = p3
  NrAct = 2
  Counted <- MCCounted
  Args <- ArgsAppend
  InitFile <- FileDays
  MayDie = TRUE
INVARIANTS TypeOK FileListPrevails RotationOverlaps
PROPERTIES ImplementsDailyLog
CHECK_DEADLOCK FALSE
