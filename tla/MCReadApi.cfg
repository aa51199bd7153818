\* Two months of two days, in two years; summer time from day 1 to day 2.
SPECIFICATION Spec
CONSTANTS
    SummerFrom = 25
    SummerTo = 49
    DaysPerMonth = 2
    MonthsPerYear = 1
    NMonths = 2
    Curve <- MCCurve
    Garbled = {8}
    MaxLag = 2
    Absent = Absent
INVARIANTS
    TypeOK
    AnswersNeverRunAhead
    QuietAnswersAgree
    HighTariffIsFixedInUTC
    StoredIsMeasured
    NothingIsMissed
    NewestIsOfferedFirst
CHECK_DEADLOCK FALSE
