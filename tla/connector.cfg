CONSTANTS
    Producers = {p1}
    Consumers = {c1, c2}
    Room = 2
    Hasty = {p1, c1}
    Word = 8
    MaxTokens = 4
SPECIFICATION FairConnectorSpec
INVARIANTS NoLostWakeup
PROPERTIES WaiterIsWoken ImplementsGuardedBarrier
