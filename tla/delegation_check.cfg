\* Checks against revocations, proofs and changes of the delegator's authority.
CONSTANTS
    t1 = t1
    t2 = t2
    k1 = k1
    Proofs <- OneProof
    Thread = {t1, t2}
    Root = Root
    NoOwner = NoOwner
    NoJkt = NoJkt
    None = None
    Principal = {alice, bot}
    Agent = {bot}
    Org = {o1, o2}
    Scope = {o1}
    Action = {read}
    Resource = {x}
    Id = {d1}
    Jkt = {k1}
    S = 1
    MaxTTL = 1
    Window = 1
    Offset <- Synchronised
    MaxSkew = 0
    MaxTime = 0
SYMMETRY Symmetry
SPECIFICATION Spec
INVARIANTS RevokedStaysRevoked AnswersForDelegator
