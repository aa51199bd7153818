\* Every combination of the four months, over two year's ends.
SPECIFICATION Spec
CONSTANTS
    Inputs <- MCInputs
    None = None
INVARIANTS
    TypeOK
    WalkMeetsCurrent
    ListsWantedMonths
CHECK_DEADLOCK FALSE
