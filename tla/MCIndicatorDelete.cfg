\* A delete whose search finds nothing.
SPECIFICATION Spec
CONSTANTS
    i1 = i1
    i2 = i2
    p1 = p1
    x = x
    y = y
    NoTag = NoTag
    MaxUpserts = 2
    Batches <- Mixed
PROPERTIES DeletesSelected
CHECK_DEADLOCK FALSE
