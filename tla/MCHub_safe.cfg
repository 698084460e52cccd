CONSTANTS
    alice = alice
    bob = bob
    a1 = a1
    a2 = a2
    b1 = b1
    NoClient = NoClient
    Users = {alice}
    Clients = {a1, a2}
    UserOf <- MCUserOf2
    FanOuts = {}
    Pushers = {p1}
    Members <- MCMembers1
    SendCap = 1
SPECIFICATION Spec
INVARIANT SafeFromAnyGoroutine
