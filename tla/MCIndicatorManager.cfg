\* Two batches of up to three records. The bound on their number ends a run.
SPECIFICATION Spec
CONSTANTS
    i1 = i1
    i2 = i2
    p1 = p1
    x = x
    y = y
    NoTag = NoTag
    MaxUpserts = 2
    Batches <- Mixed
INVARIANTS TypeOK KeyUnique CountOnce
PROPERTIES NoRegress Salvaged
CHECK_DEADLOCK FALSE
