\* A statement fails, the process dies, the command line moves the stamp; month 0 is zero or does not parse, month 2 is empty.
SPECIFICATION FaultSpec
CONSTANTS
    Runs = {r1}
    NMonths = 3
    EmptyMonths = {2}
    Dirs = {"P"}
    SlotsPerMonth = 3
    ConcurrentFetches = 2
    AvailableFrom = 0
    FetchFrom = 0
    ManualMonths = {}
    Zeros <- MCZeros
    Garbled <- MCGarbled
    MaxLag = 1
    MaxRun = 1
    Never = Never
    MaxFaults = 1
    MaxCrashes = 1
    MaxForced = 1
INVARIANTS
    FaultTypeOK
    FaultsLeaveNoMonthOut
    NothingInvented
PROPERTY
    ReferenceMonthHeals
CHECK_DEADLOCK FALSE
