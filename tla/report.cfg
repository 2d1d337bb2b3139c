SPECIFICATION MCSpec
CONSTANTS
  NrPass = 2
  Cases <- AllCases
  DayLen = 20
  HourLen = 2
  Wrap = 65536
  MaxRecords = 4
  Programs = {"sar", "sadf"}
INVARIANTS TypeOK MCReportComplete WithinOneBoot MCLinesChain RestartNotMissed MCSadfComplete ItemsCounted
PROPERTIES Ends
CHECK_DEADLOCK FALSE
