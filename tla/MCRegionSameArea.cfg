SPECIFICATION Spec
CONSTANTS
    Edges <- OneInput
    Areas = {a1, a2, a3}
    NoArea = NoArea
INVARIANTS
    SameAreaSafe
