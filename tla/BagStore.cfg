SPECIFICATION Spec
CONSTANTS
    BagIds = {b1, b2}
    Items = {i1, i2, i3}
    Batches = {x, y}
    MaxQty = 3
    Threads = {t1, t2}
    Kinds = {"ui"}
    None = None
INVARIANTS TypeOK OneBag NoOrphan
PROPERTY AddsCount
