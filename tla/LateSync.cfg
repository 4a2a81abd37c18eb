SPECIFICATION Spec
CONSTANTS
    p1 = p1
    p2 = p2
    j1 = j1
    j2 = j2
    Items = {i1}
    Bag = bag
    Vals = {v1}
    NoVal = NoVal
    Phones = {p1}
    Jobs = {j1, j2}
    Owner <- OnePhone
    Pollers = {}
    Faults = {"late", "overlap", "loss"}
    MaxTime = 3
    LastTime = 3
    MaxLate = 1
INVARIANTS BaselineBehindPi StampNamesVersion
PROPERTY ItemsOnlyAdvance
SYMMETRY JobSymmetry
CHECK_DEADLOCK FALSE
