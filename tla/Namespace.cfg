CONSTANTS
    Buckets = {"b1", "b2"}
    Nil = Nil
    NoFrom = NoFrom
    UserSpecs <- MCSpecs
    MaxFaults = 2
    MaxEdits = 1
    MaxOutside = 2
SPECIFICATION FairSpec
CHECK_DEADLOCK FALSE
INVARIANTS
    TypeOK
    SyncedMeansExists
PROPERTIES
    CreatedInReadyBucket
    KeepsPromise
    Converges
    DeletionCompletes
