SPECIFICATION FairSpec
CONSTANTS
    Phones = {p1, p2}
    Stable = {p1}
    Legacy = {p2}
    Readers = {t1}
    MaxTrouble = 2
INVARIANTS TypeOK LiveIsNewest
PROPERTIES CodeLasts WaitsOnlyIfStale EventuallyPaired EventuallyNotWaiting TokensAreKept
