SPECIFICATION FairSpec
CONSTANTS
    Workers = {w1, w2, w3}
    Eof = Eof
    NumTasks = 4
INVARIANTS
    QuietAtRelease
PROPERTIES
    ImplementsBatch
