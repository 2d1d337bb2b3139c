SPECIFICATION Spec
CONSTANTS
  NrAct = 2
  Wanted = {1, 2}
  Lists <- MCLists
  NrLines = 3
  Output = "daily"
  EndAt = 0
  LastDay = 3
  PipeSize = 2
  MaxSignals = 2
  MayFail = TRUE
INVARIANTS InStep LinesConsecutive UnexpectedEnd AverageSpansLines DisplayedIsSaved
PROPERTY BothEnd
CHECK_DEADLOCK FALSE
