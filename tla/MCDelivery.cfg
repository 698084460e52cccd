CONSTANTS
    alice = alice
    bob = bob
    i1 = i1
    a1 = a1
    b1 = b1
    NoSlot = NoSlot
    Idle = Idle
    Items = {i1}
    Users = {alice, bob}
    Addressee <- ToAlice
    Conns = {a1, b1}
    UserOf <- OneEach
    Slots = {1, 2}
    SendCap = 2
SPECIFICATION FairSpec
INVARIANTS
    NoLeakedEntry
    DeliveredWasReceived
PROPERTIES
    KeepsPromise
    EventuallyDelivered
