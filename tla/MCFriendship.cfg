CONSTANTS
    alice = alice
    bob = bob
    Users = {alice, bob}
    Pairs <- Others
    OldRooms <- Before
    Newcomers = {alice}
    Hosts = {bob}
    Calls = {r1, r2}
    MaxId = 3
    MaxRooms = 2
    Faulty = TRUE
SYMMETRY CallPerms
SPECIFICATION Spec
INVARIANTS
    FriendshipNeedsBoth
    PairIsConsistent
    FriendsShareOneRoom
    OnlyCrossedAcceptsDeadlock
