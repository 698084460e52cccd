CONSTANTS
    Users = {alice, bob}
    Devices = {d1, d2}
    Labels = {phone}
    SignKeys = {k1, k2}
    SpkIds = {1, 2}
    OtpIds = {1, 2}
    Calls = {c1, c2}
    Threshold = 1
    MaxCalls = 4
    NoKey = NoKey
    NoRow = NoRow
SYMMETRY Perms
SPECIFICATION Spec
INVARIANTS
    GivenAwayOnce
    BundleVerifies
    RotationKeepsOneActive
    LowPoolIsReported
CHECK_DEADLOCK FALSE
