\* Two points to collect and one whose time has not come, a manual fetch, a failure and a restart.
SPECIFICATION FairSpec
CONSTANTS
    Points = {p1, p2, p3}
    NotYet = {p3}
    Worker = Worker
    Manuals = {m1}
    DayLength = 4
    DailyUnit = 1
    StaleAfter = 1
    Never = Never
    MaxFailures = 1
    MaxRestarts = 1
INVARIANTS
    TypeOK
    DailyAtMostOnce
    KeptFresh
PROPERTY
    EveryPointIsCollected
