\* Three requests and a queue for one.
SPECIFICATION FairSpec
CONSTANTS
    Requests = {q1, q2, q3}
    QueueSize = 1
INVARIANTS
    TypeOK
    RepliesAreOwn
PROPERTIES
    CollectionsEnd
    WaitersAreAnswered
CHECK_DEADLOCK FALSE
