CONSTANTS
    Producers = {p1}
    Consumers = {c1}
    Room = 1
    Hasty = {p1, c1}
    Word = 8
    MaxTokens = 2
SPECIFICATION FairConnectorSpec
PROPERTIES TimedGetReturns
