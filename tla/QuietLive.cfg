SPECIFICATION FairSpec
CONSTANTS
    p1 = p1
    p2 = p2
    j1 = j1
    j2 = j2
    Items = {i1}
    Bag = bag
    Vals = {v1, v2}
    NoVal = NoVal
    Phones = {p1}
    Jobs = {j1}
    Owner <- OneJob
    Pollers = {}
    Faults = {}
    MaxTime = 4
    LastTime = 6
    MaxLate = 0
PROPERTY EventuallyConverged
CHECK_DEADLOCK FALSE
