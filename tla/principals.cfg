SPECIFICATION FairSpec
CONSTANTS
    p1 = p1
    p2 = p2
    t1 = t1
    t2 = t2
    u1 = u1
    None = None
    Process <- MCProcess
    Thread <- MCThread
    ProcOf <- MCProcOf
    Input <- MCInput
    MaxIdentities = 2
INVARIANTS TypeOK RowMatchesIdentity Accounted
PROPERTIES StrandedStays RequestsEnd
