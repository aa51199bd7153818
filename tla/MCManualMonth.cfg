\* A manual fetch of the oldest month of a point not collected yet.
SPECIFICATION Spec
CONSTANTS
    Runs = {r1}
    Dirs = {"P"}
    NMonths = 3
    SlotsPerMonth = 4
    ConcurrentFetches = 2
    AvailableFrom = 0
    FetchFrom = 0
    EmptyMonths = {}
    ManualMonths = {0}
    Zeros <- NoSlots
    Garbled <- NoSlots
    MaxLag = 1
    MaxRun = 1
    Never = Never
INVARIANT
    NoMonthLeftOut
CHECK_DEADLOCK FALSE
