CONSTANTS
    alice = alice
    bob = bob
    a1 = a1
    a2 = a2
    b1 = b1
    NoClient = NoClient
    Users <- MCUsers
    Clients = {a1, a2, b1}
    UserOf <- MCUserOf
    FanOuts = {f1}
    Pushers = {p1}
    Members <- MCMembers
    SendCap = 1
SYMMETRY Perms2
SPECIFICATION Spec
INVARIANTS
    IndexMatchesRegistry
    NoCrossDelivery
    UndisturbedCallIsExact
