CONSTANTS
    alice = alice
    bob = bob
    carol = carol
    NoUser = NoUser
    Users = {alice, bob, carol}
    Owners = {alice}
    Acquainted <- AliceAndBob
    Rooms = {rm1}
    MaxInv = 3
    Capacities = {2}
    Lists <- Some
    Calls = {r1, r2}
SYMMETRY Perms
SPECIFICATION Spec
INVARIANTS
    CapacityKept
    BothConsent
    AcceptedIsMember
    ResolvedOnce
    RefusalsCount
    NoCircularWait
