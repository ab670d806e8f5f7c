\* Two replicas append to one chain; requests of both race, and one replica stops or dies.
CONSTANTS
    p1 = p1
    p2 = p2
    r1 = r1
    r2 = r2
    r3 = r3
    sys = sys
    org = org
    Proc = {p1, p2}
    Request = {r1, r2, r3}
    Home <- HomeDef
    Chain = {sys, org}
    ChainOf <- ChainDef
    Buffer = 1
    MaxBatch = 2
    Mortal = {p1}
    None = None
CHECK_DEADLOCK FALSE
SPECIFICATION FairSpec
INVARIANTS ChainVerifies HeadIsCurrent DrainedAtExit
PROPERTIES ImplementsTrail EventuallyStored
