\* One IP prefix, and two principals whose buckets evict each other; root tokens are tried.
CONSTANTS
    t1 = t1
    t2 = t2
    None = None
    Thread = {t1, t2}
    Ip = {i1}
    Caller = {p1, p2}
    Burst <- SmallBuckets
    Rate <- OnePerTick
    MaxKeys = 1
    Cooldown = 1
    FlushWindow = 0
    MaxTime = 2
    MaxCalls = 4
SYMMETRY Symmetry
SPECIFICATION Spec
CHECK_DEADLOCK FALSE
INVARIANTS TypeOK GlobalBackstop MissesTold
PROPERTIES EventsSpaced
