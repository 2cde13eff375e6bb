SPECIFICATION FairSpec
CONSTANTS
    Workers = {w1, w2}
    Height = 8
    Eof <- NoTask
INVARIANTS
    EveryRowOnce
    ArrayConsistent
    NothingAfterStop
    QuietAtRelease
    InjectionBounded
PROPERTIES
    Termination
