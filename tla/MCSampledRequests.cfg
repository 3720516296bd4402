SPECIFICATION Spec
CONSTANTS
    Slot = {s1, s2}
    first = s1
    second = s2
    NotFinite = NotFinite
    Refused = Refused
    None = None
    MaxFinite = 3
    MaxU32 = 6
    Seeds = 2
    Bos = 0
    Draws = 8
    RoleWord <- MCRoleWord
    Services <- MCServices
    Requests <- MCRequests
    LogitsOf <- MCLogits
    Stream <- MCStream
INVARIANTS
    PreparedIsAdmitted
    Reproducible
    SamplesByWeight
CHECK_DEADLOCK FALSE
