CONSTANTS
    Capacity = 11
    HeaderSize = 2
    Sizes = {1, 6}
    Values = {a, b}
    Consumers = {c1}
    Timeout = 2
    StartClock = 2
    MaxClock = 4
    Word = 16
    Undisturbed = FALSE
SPECIFICATION QueueSpec
INVARIANTS EmptyIsDrained
