CONSTANTS
    Capacity = 11
    HeaderSize = 2
    Sizes = {1, 2, 5}
    Values = {a, b}
    Consumers = {c1}
    Timeout = 1
    StartClock = 1
    MaxClock = 2
    Word = 16
    Undisturbed = TRUE
SPECIFICATION FairQueueSpec
INVARIANTS QueueTypeOK RingHoldsLog EmptyIsDrained AcceptsWhenRoom DiscardsOnlyOld WritesStayInRing
PROPERTIES ImplementsFifo PushReturns
