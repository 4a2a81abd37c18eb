SPECIFICATION Spec
CONSTANTS
    Conflicts = {i1, i2}
    Coroutines = {c1, c2}
INVARIANT AutoSyncOff
