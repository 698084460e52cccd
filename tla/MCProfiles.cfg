SPECIFICATION Spec
CONSTANTS
    Addresses = {a1, a2}
    Codes = {"user", "vendor"}
    Images = {i1, i2}
    Calls = {c1, c2}
    MaxIds = 3
    MaxCalls = 3
    MaxRulings = 1
    NoRow = NoRow
    NoMail = NoMail
SYMMETRY Perms
CHECK_DEADLOCK FALSE
INVARIANTS
    RegistrationCanBeVerified
    StatusIsEarned
    UserLimitKept
    AvatarIsKept
    RolesOfOneUpdate
