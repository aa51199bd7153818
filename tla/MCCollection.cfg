\* Two overlapping scheduled runs, each with one fetch at a time, over two months, the second without data of its own.
SPECIFICATION FairSpec
CONSTANTS
    Runs = {r1, r2}
    Dirs = {"P"}
    NMonths = 2
    SlotsPerMonth = 4
    ConcurrentFetches = 1
    AvailableFrom = 0
    FetchFrom = 0
    EmptyMonths = {1}
    ManualMonths = {}
    Zeros <- MCZeros
    Garbled <- MCGarbled
    MaxLag = 1
    MaxRun = 1
    Never = Never
INVARIANTS
    TypeOK
    InSyncWhenQuiet
    NoMonthLeftOut
PROPERTY
    RunsEnd
    KeepsOneBook
CHECK_DEADLOCK FALSE
