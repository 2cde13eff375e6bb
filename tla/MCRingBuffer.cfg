SPECIFICATION FairSpec
CONSTANTS
    Capacity = 3
    Values = {v1, v2}
    Producers = {p1, p2}
    Consumers = {c1, c2}
    Pollers = {c3}
    NoValue = NoValue
INVARIANTS
    TypeOK
    FlagsConsistent
    NoLostWakeup
PROPERTIES
    ImplementsFifo
    DrainsFifo
