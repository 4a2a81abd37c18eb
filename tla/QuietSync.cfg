SPECIFICATION Spec
CONSTANTS
    p1 = p1
    p2 = p2
    j1 = j1
    j2 = j2
    Items = {i1}
    Bag = bag
    Vals = {v1, v2}
    NoVal = NoVal
    Phones = {p1}
    Jobs = {j1, j2}
    Owner <- OnePhone
    Pollers = {j2}
    Faults = {"repair"}
    MaxTime = 4
    LastTime = 6
    MaxLate = 0
INVARIANTS TypeOK NoEditStranded UpToDateAfterSync
SYMMETRY Symmetry
CHECK_DEADLOCK FALSE
