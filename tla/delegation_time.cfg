\* Expiry under clock skew: whole seconds in the token, exact times in the row.
CONSTANTS
    t1 = t1
    t2 = t2
    k1 = k1
    Proofs = {}
    Thread = {t1, t2}
    Root = Root
    NoOwner = NoOwner
    NoJkt = NoJkt
    None = None
    Principal = {alice}
    Agent = {}
    Org = {o1}
    Scope = {o1}
    Action = {read}
    Resource = {x}
    Id = {d1}
    Jkt = {}
    S = 2
    MaxTTL = 1
    Window = 1
    Offset <- Skewed
    MaxSkew = 1
    MaxTime = 6
SPECIFICATION Spec
INVARIANTS TokenMatchesRow ValidityBounded
