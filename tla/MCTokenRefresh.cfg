\* Three fetches on one cache; the session ends twice, one login answer is lost.
SPECIFICATION FairSpec
CONSTANTS
    Fetchers = {f1, f2, f3}
    Nobody = Nobody
    MaxExpiries = 2
    MaxDrops = 1
INVARIANTS
    TypeOK
    LoginsAreJustified
    CacheIsNewest
PROPERTIES
    KeepsOneSession
    FetchesReturn
