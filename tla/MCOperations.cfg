SPECIFICATION Spec
CONSTANTS
    Pictures <- TestPictures
    MaxValues = {255, 65535}
    Numbers <- TestNumbers
    MaxItems = 2
    Characters <- TestCharacters
    MaxText = 4
    Domains <- TestDomains
    Requests <- TestRequests
    Inputs <- TestInputs
    Capacities = {0, 60}
    Bitmaps <- TestBitmaps
    Readers = {r1, r2, r3}
    NumRows = 2
    Free = Free
    Names = {a, b}
    Metas = {m1, m2}
    NoMeta = NoMeta
    MaxInputs = 2
    MaxImages = 3
INVARIANTS
    RoundTrip
    OnlyComplete
    NumbersComeBack
    WordsRead
    FetchExact
    ZonesPartition
    ComponentsExact
    CopyComplete
    FilledOnce
    CountsExact
PROPERTIES
    WrittenStays
CHECK_DEADLOCK FALSE
