CONSTANTS
    p1 = p1
    p2 = p2
    Proc = {p1, p2}
    Offset <- SkewOffset
    Limit = 2
    MaxRows = 5
    MaxTime = 3
CHECK_DEADLOCK FALSE
SPECIFICATION Spec
INVARIANTS ExactlyOnce
