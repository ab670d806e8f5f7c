\* Keys are used, revoked, expire and are touched; time passes between any two steps.
CONSTANTS
    t1 = t1
    t2 = t2
    k1 = k1
    k2 = k2
    k3 = k3
    Root = Root
    None = None
    Thread = {t1, t2}
    KeyId = {k1}
    Principal = {alice, bob}
    Member = {alice}
    Admin = {bob}
    Minute = 1
    KeyCap = 1
    MaxTTL = 1
    Half = 4
    AllowNever = FALSE
    MaxTime = 2
    Op = {"Issue", "Revoke", "List"}
    Kind = {"oidc", "apikey"}
    Ttl = {0, 2, 6}
SYMMETRY Symmetry
SPECIFICATION Spec
INVARIANTS TypeOK DeadKeyRejected LastUsedTracks
