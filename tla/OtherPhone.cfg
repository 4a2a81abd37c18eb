SPECIFICATION Spec
CONSTANTS
    p1 = p1
    p2 = p2
    j1 = j1
    j2 = j2
    Items = {i1}
    Bag = bag
    Vals = {v1, v2}
    NoVal = NoVal
    Phones = {p1, p2}
    Jobs = {j1, j2}
    Owner <- TwoPhones
    Pollers = {}
    Faults = {}
    MaxTime = 3
    LastTime = 3
    MaxLate = 0
INVARIANT NoEditStranded
CHECK_DEADLOCK FALSE
