CONSTANTS
    Waiters = {t1, t2, t3}
    TimedWaiters = {t1, t2}
    Word = 8
    Guarded = TRUE
    MaxTokens = 4
SPECIFICATION FairBarrierSpec
INVARIANTS EveryKnockCounted HoldsUntilOpen TokensMatch
PROPERTIES KnockIsAnswered
CHECK_DEADLOCK FALSE
