\* A server and two rotation commands; time passes.
CONSTANTS
    s1 = s1
    c1 = c1
    c2 = c2
    g1 = g1
    m1 = m1
    m2 = m2
    Server = {s1}
    Cli = {c1, c2}
    Thread = {g1, m1, m2}
    Home <- HomeDef
    KekOf <- OneKekDef
    Kid = {k1, k2, k3}
    NoKid = NoKid
    NoThread = NoThread
    RetireWindow = 1
    CacheTTL = 0
    MaxTTL = 1
    RefreshDelay = 0
    RotateDelay = 0
    MaxSkew = 0
    Offset <- NoOffset
    MaxTime = 2
    MaxTokens = 1
SYMMETRY Symmetry
SPECIFICATION Spec
INVARIANTS TypeOK AlwaysCanSign CacheConverges RetainedUntilExpiry
