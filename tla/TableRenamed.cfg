CONSTANTS
    Nil = Nil
    Dropped = Dropped
    NoValue = NoValue
    Keys = {}
    Values = {"", "v"}
    EmptyString = ""
    AwsKeys = {}
    SystemKeys = {}
    ControllerTags <- MCNone
    Names = {"a", "b"}
    Locations = {"x", "y"}
    FirstLocations = {Nil}
    FieldIds = {1}
    MaxInt32 = 1
    UserSpecs <- MCRenamed
    InitialSpecs <- MCRenamed
    MaxFaults = 1
    MaxEdits = 1
    MaxOutside = 0
SPECIFICATION Spec
CHECK_DEADLOCK FALSE
INVARIANTS
    NameChangeRenames
