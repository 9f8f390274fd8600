CONSTANTS
    Nil = Nil
    Dropped = Dropped
    NoValue = NoValue
    Keys <- MCKeys
    Values = {"", "v"}
    EmptyString = ""
    AwsKeys <- MCAwsKeys
    SystemKeys <- MCSysKeys
    ControllerTags <- MCCtlTags
    Names = {"a", "b"}
    Locations = {"x", "y"}
    FirstLocations = {Nil, "x"}
    FieldIds = {1}
    MaxInt32 = 1
    UserSpecs <- MCMixedSpecs
    InitialSpecs <- MCMixedSpecs
    MaxFaults = 2
    MaxEdits = 1
    MaxOutside = 1
SPECIFICATION FairSpec
CHECK_DEADLOCK FALSE
INVARIANTS
    TypeOK
PROPERTIES
    TagsKept
    Converges
    DeletionCompletes
