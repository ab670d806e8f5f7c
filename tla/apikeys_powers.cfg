\* Keys and principals issue and revoke keys; nothing expires.
CONSTANTS
    t1 = t1
    t2 = t2
    k1 = k1
    k2 = k2
    k3 = k3
    Root = Root
    None = None
    Thread = {t1, t2}
    KeyId = {k1, k2}
    Principal = {alice}
    Member = {alice}
    Admin = {}
    Minute = 1
    KeyCap = 1
    MaxTTL = 1
    Half = 4
    AllowNever = TRUE
    MaxTime = 0
    Op = {"Issue", "Revoke"}
    Kind = {"root", "oidc", "apikey"}
    Ttl = {0}
SYMMETRY Symmetry
SPECIFICATION Spec
INVARIANTS CapOvershoot
PROPERTIES KeyPowers
