SPECIFICATION Spec
CONSTANTS
  Sadc = {p1}
  LastDay = 2
  p1 = p1
  p2 = p2
  p3 = p3
  NrAct = 2
  Counted <- MCCounted
  Args <- ArgsRotateLocked
  InitFile <- FileTomorrow
  MayDie = FALSE
INVARIANTS LockedWritesAndRotates
CHECK_DEADLOCK FALSE
