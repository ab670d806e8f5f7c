\* Three requests at a time, failing fetches, answers without keys, and a rotation at Keycloak.
CONSTANTS
    t1 = t1
    t2 = t2
    t3 = t3
    Request = {t1, t2, t3}
    CacheTTL = 2
    MinRefresh = 2
    Latency = 1
    MaxTime = 4
    MaxSet = 2
SYMMETRY Symmetry
SPECIFICATION VerifierSpec
INVARIANTS NeverOlder WarmAccepted
PROPERTY FetchesSpaced
