SPECIFICATION FairSpec
CONSTANTS
    NumWorkers = 3
    NumTasks = 5
INVARIANTS
    TypeOK
    InOrder
    QuietAtRelease
    Backpressure
PROPERTIES
    ImplementsBatch
