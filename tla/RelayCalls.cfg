SPECIFICATION FairSpec
CONSTANTS
    Requests = {r1, r2}
    Timeout = 1
    Lease = 2
    Window = 2
    PollTime = 1
    Retention = 2
    MaxTime = 6
INVARIANTS TypeOK PendingIsAwaited
PROPERTIES AtMostOnce CallsReturn
CHECK_DEADLOCK FALSE
