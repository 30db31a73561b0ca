\* Tags after the retry.
SPECIFICATION Spec
CONSTANTS
    i1 = i1
    i2 = i2
    p1 = p1
    x = x
    y = y
    NoTag = NoTag
    MaxUpserts = 1
    Batches <- Mixed
INVARIANTS TagsKept
CHECK_DEADLOCK FALSE
