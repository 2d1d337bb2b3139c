CONSTANTS
    Width = 1000
    Margin = 10
    HZ = 250
    NR_CPUS = 4
    Shown = {"cpu"}
SPECIFICATION MCSpec
INVARIANT TicklessMaximum
CHECK_DEADLOCK FALSE
