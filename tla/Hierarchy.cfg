CONSTANTS
    MaxFaults = 1
    MaxOutside = 1
SPECIFICATION FairSpec
CHECK_DEADLOCK FALSE
INVARIANTS
    TypeOK
    NothingOutlivesBucket
    NoTableOrphan
PROPERTIES
    Converges
    DeletionCompletes
