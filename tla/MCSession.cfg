CONSTANTS
    u1 = u1
    u2 = u2
    Users = {u1, u2}
    Primary = u1
    Sessions = {1}
    Calls = {r1, r2, r3}
    Unrouted = {"refresh", "revokeAll", "switch"}
    MaxGen = 2
    Failing = {1}
SYMMETRY Perms
SPECIFICATION Spec
INVARIANTS
    RevokedUnlessRaced
    CacheMirrorsRows
