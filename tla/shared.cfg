CONSTANTS
    Capacity = 10
    HeaderSize = 2
    Sizes = {1, 4}
    Values = {a}
    Readers = {r1, r2}
    Writers = {w1}
    Pushers = {w1, r1}
    Creator = w1
    Leavers = {r2}
    Word = 5
    LateJoin = FALSE
SPECIFICATION SharedSpec
INVARIANTS ReadersSeeInbox RefCountExact HeldIntact DrainedIsReclaimed
PROPERTIES ImplementsBroadcast
