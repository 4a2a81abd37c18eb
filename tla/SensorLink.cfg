SPECIFICATION FairSpec
CONSTANTS
    Ports = {1, 2, 3}
    Sensors = {2, 3}
    N = 3
    StaleTicks = 2
    SilentTicks = 3
    ResetOnOpen = TRUE
    OneFormat = TRUE
    MaxTrouble = 4
INVARIANTS TypeOK LiveFromOpenPort
PROPERTIES MixedOnlyAtFirst EventuallyLive
