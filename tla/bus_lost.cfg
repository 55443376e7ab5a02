CONSTANTS
    Producers = {p1}
    Consumers = {c1}
    Creator = p1
    Leavers = {}
    Polite = {}
    Rooms <- ThreeOfOne
    MaxSent = 3
    MaxId = 5
SPECIFICATION BusSpec
INVARIANTS NothingLost
CHECK_DEADLOCK FALSE
