SPECIFICATION DagSpec
CONSTANTS
    NumImages = 4
    MaxInputs = 2
INVARIANTS
    InputsExist
