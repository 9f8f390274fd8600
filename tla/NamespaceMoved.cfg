CONSTANTS
    Buckets = {"b1", "b2"}
    Nil = Nil
    NoFrom = NoFrom
    UserSpecs <- MCNamedSpecs
    MaxFaults = 0
    MaxEdits = 1
    MaxOutside = 0
SPECIFICATION Spec
CHECK_DEADLOCK FALSE
INVARIANT
    BucketIsImmutable
