CONSTANTS
    alice = alice
    bob = bob
    lobby = lobby
    m1 = m1
    m2 = m2
    b1 = b1
    b2 = b2
    Users = {alice, bob}
    Rooms = {lobby}
    Members = {m1, m2}
    UserOf <- UserOf2
    Conns = {b1, b2}
    Owner <- BothBobs
    RoomOf <- RoomOf2
    Asking <- OneWay
    MaxSame = 2
    Faulty = TRUE
SYMMETRY ConnPerms
SPECIFICATION Spec
INVARIANTS
    NoMissedRequest
    FulfilledHasKey
    NoForgottenRequest
    NeverFalselyFetched
