CONSTANTS
    NCpu = 3
    NFirst = 2
    Node <- MCNode
    Names = {"a", "b"}
    NoName = "-"
    IrqLists <- MCLists
    Weight <- MCWeight
    CpuWorks <- MCWorks
    Prealloc = 1
    Filler = {0, 9}
    IrqWidth = 1000
    MpOptions <- MCMpOptions
    MaxReads = 3
    Pids = {1, 2, 3}
    MayBe <- AnyProcess
    TaskWorks <- MCTaskWorks
    PidOptions <- MCPidOptions
    MaxBirths = 1
    MaxPidReads = 4
    Tools = {"mpstat", "pidstat"}
SPECIFICATION MCSpec
INVARIANT MCLinesTrue SumsAgree MCIrqReturns TaskLinesTrue TasksReported GaugesAveraged
