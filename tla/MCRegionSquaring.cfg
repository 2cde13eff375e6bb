SPECIFICATION Spec
CONSTANTS
    Edges <- Squaring
    Areas = {a1, a2, a3}
    NoArea = NoArea
INVARIANTS
    PrecedingProcessed
