\* Two concurrent runs with a month fetch each, and the connection test.
SPECIFICATION SharedSpec
CONSTANTS
    f1 = f1
    f2 = f2
    r1 = r1
    r2 = r2
    Nobody = Nobody
    Fetchers = {f1, f2}
    Runs = {r1, r2}
    RunOf <- TwoRuns
    Tests = {t1}
    MaxExpiries = 1
    MaxDrops = 1
    MaxRefusals = 1
    MaxTests = 1
    MaxUnsaved = 2
    MaxDisturbances = 2
SYMMETRY Symmetry
INVARIANTS
    SharedTypeOK
    LoginsAreBounded
    RetriesAreAccepted
