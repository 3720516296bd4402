SPECIFICATION Spec
CONSTANTS
    Convert = {c1, c2}
    Encrypt = {e1}
    Reader = {r1}
    MaxMoves = 2
    None = None
INVARIANTS
    DestinationComplete
    OpenedConsistent
PROPERTIES
    PublishedStays
SYMMETRY JobSymmetry
CHECK_DEADLOCK FALSE
