CONSTANTS
    Procs = {p1, p2, p3}
    Creators = {p1, p2}
    MaxObjects = 2
    Word = 4
SPECIFICATION FairLifeSpec
INVARIANTS NeverRaw HandlesCounted LockerLives
PROPERTIES CallsEnd
CHECK_DEADLOCK FALSE
