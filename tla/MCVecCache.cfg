SPECIFICATION FairSpec
CONSTANTS
    Threads = {t1, t2}
    NumVectors = 4
    Base = 1
    Nobody = Nobody
INVARIANTS
    ReadInSequence
    StartFinal
    OneLock
PROPERTIES
    Immutable
    ImplementsOnce
    EveryGetReturns
