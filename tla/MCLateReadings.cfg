\* Runs, one at a time, over two months.
SPECIFICATION Spec
CONSTANTS
    Runs = {r1}
    Dirs = {"P"}
    NMonths = 2
    SlotsPerMonth = 4
    ConcurrentFetches = 2
    AvailableFrom = 0
    FetchFrom = 0
    EmptyMonths = {}
    ManualMonths = {}
    Zeros <- NoSlots
    Garbled <- NoSlots
    MaxLag = 1
    MaxRun = 1
    Never = Never
PROPERTY
    LateReadingsArePickedUp
CHECK_DEADLOCK FALSE
