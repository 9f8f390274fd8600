CONSTANTS
    Buckets = {"b1", "b2"}
    Nil = Nil
    NoFrom = NoFrom
    UserSpecs <- MCNamedSpecs
    MaxFaults = 1
    MaxEdits = 0
    MaxOutside = 0
SPECIFICATION Spec
CHECK_DEADLOCK FALSE
INVARIANT
    NoOrphan
