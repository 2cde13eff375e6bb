SPECIFICATION MCSpec
CONSTANTS
    Edges <- TwoInputs
    Areas = {a1, a2, a3}
    NoArea = NoArea
    NumImages = 4
    MaxInputs = 2
INVARIANTS
    SlotsSuffice
    Settled
    OwnerIntact
    CapacityIsUsers
    NothingLeft
