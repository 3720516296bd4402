SPECIFICATION Spec
CONSTANTS
    Name = {n1}
    Loader = {l1, l2}
    Client = {k1}
    Path = {p1}
    Digest = {d1, d2}
    Policy = {q1, q2}
    Instance = {i1, i2}
    None = None
INVARIANTS
    NoOrphanWorker
    LoadHonest
PROPERTIES
    NeverReplaced
SYMMETRY RegistrySymmetry
CHECK_DEADLOCK FALSE
