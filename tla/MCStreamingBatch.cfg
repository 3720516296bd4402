SPECIFICATION Spec
CONSTANTS
    Row = {r1, r2}
    Layers = 3
    SparseLayers = {1, 3}
    Expert = {1, 2, 3}
    TopK = 2
    MaxPositions = 2
    MaxRows = 2
    MaxInput = 3
    Widths = {1, 2}
INVARIANTS
    CachesCoherent
    RowsAsIsolated
PROPERTIES
    AllRowsOrNone
CHECK_DEADLOCK FALSE
