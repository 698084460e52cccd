SPECIFICATION MessagesSpec
CONSTANTS
    ChatUsers = {ann, ben, cat}
    Founder = ann
    Reader = ben
    Guests = {ben}
    Calls = {c1, c2}
    Marks = {k1}
    PageSize = 2
    MaxSends = 3
    MaxMarks = 1
    MaxClock = 2
SYMMETRY Perms
CHECK_DEADLOCK FALSE
INVARIANTS
    HistoryIsComplete
    UnreadIsExact
