CONSTANTS
    Producers = {p1, p2}
    Consumers = {c1}
    Creator = p1
    Leavers = {c1}
    Polite = {p2}
    Rooms <- ThreeOfOne
    MaxSent = 2
    MaxId = 5
SPECIFICATION FairBusSpec
INVARIANTS ChainIsSound ListIsWindow SerialFifo
PROPERTIES CallsReturn
CHECK_DEADLOCK FALSE
