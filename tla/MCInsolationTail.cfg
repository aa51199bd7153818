\* As in MCInsolation.cfg, with one login at a time, no manual fetch and an archive that omits the days it lacks.
SPECIFICATION Spec
CONSTANTS
    Logins = {l1}
    PostalCode = TRUE
    MaxFaults = 1
    None = None
    DaysPerMonth = 2
    NMonths = 2
    ManualMonths = {}
    ArchiveLag = 1
    Padding = {FALSE}
INVARIANT
    TailIsFetchedAgain
CHECK_DEADLOCK FALSE
