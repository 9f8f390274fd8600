CONSTANTS
    Nil = Nil
    Dropped = Dropped
    NoValue = NoValue
    Keys = {}
    Values = {"", "v"}
    EmptyString = ""
    AwsKeys = {}
    SystemKeys = {}
    ControllerTags <- MCNone
    Names = {"a", "b"}
    Locations = {"x", "y"}
    FirstLocations = {Nil, "x"}
    FieldIds = {1, 3}
    MaxInt32 = 1
    UserSpecs <- MCNameSpecs
    InitialSpecs <- MCNameSpecs
    MaxFaults = 2
    MaxEdits = 1
    MaxOutside = 2
SPECIFICATION Spec
CHECK_DEADLOCK FALSE
INVARIANTS
    SyncedMeansApplied
    SettledIsQuiet
    SecondTableNeedsFault
    MetadataAsDeclared
PROPERTIES
    ActsOnWhatWasRead
    StaysWithItsTable
    HandsOffUnmanaged
    KeepsPromise
