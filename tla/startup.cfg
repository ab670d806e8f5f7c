SPECIFICATION FairSpec
CONSTANTS
    old = old
    new = new
    None = None
    Orphan = Orphan
    Replica <- MCReplica
    Embedded <- TwoReleases
    Environment <- OneMissing
INVARIANTS LockWhileApplying LedgerIsPrefix ServesOnBaseline SomeoneWins
PROPERTY StartsEnd
