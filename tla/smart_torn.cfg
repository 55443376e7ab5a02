CONSTANTS
    Capacity = 13
    HeaderSize = 1
    Sizes = {2}
    Values = {a}
    Readers = {r1, r2, r3}
    Writers = {}
    Pushers = {r1, r2}
    Creator = r1
    Leavers = {r1, r3}
    Word = 16
    LateJoin = TRUE
    Booked = {r2}
    MaxMessages = 7
    Space = 32
SPECIFICATION SmartSpec
INVARIANTS EveryPushIsHeard
CHECK_DEADLOCK FALSE
