CONSTANTS
    Width = 1000
    Margin = 10
    HZ = 250
    NR_CPUS = 4
    Shown <- AllShown
SPECIFICATION MCSpec
INVARIANT FormatsAgree MinMaxTrue AverageBetween PercentagesAddUp MarkupBalanced ConvertsTheFile
CHECK_DEADLOCK FALSE
