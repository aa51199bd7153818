\* Two months of two days, an archive two days behind, two logins at a time.
SPECIFICATION Spec
CONSTANTS
    Logins = {l1, l2}
    PostalCode = TRUE
    MaxFaults = 1
    None = None
    DaysPerMonth = 2
    NMonths = 2
    ManualMonths = {0, 1}
    ArchiveLag = 1
    Padding = {TRUE, FALSE}
INVARIANTS
    TypeOK
    FailuresArePaced
    ArchivedDaysAreStored
PROPERTIES
    LocationIsKept
    PointIsLocated
CHECK_DEADLOCK FALSE
