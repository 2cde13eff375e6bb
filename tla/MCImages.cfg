SPECIFICATION ImagesSpec
CONSTANTS
    Names = {a, b}
    Metas = {m1, m2}
    NoMeta = NoMeta
    MaxInputs = 2
    MaxImages = 3
INVARIANTS
    MetaReplaced
CHECK_DEADLOCK FALSE
