CONSTANTS
    Nil = Nil
    NoBucket = NoBucket
    NoValue = NoValue
    Keys <- MCKeys
    Values <- MCValues
    EmptyString = ""
    AwsKeys <- MCAwsKeys
    SystemKeys <- MCSysKeys
    ControllerTags <- MCCtlTags
    Encryptions = {"aes"}
    StorageClasses = {"std"}
    Policies = {}
    Days = {1, 4}
    MaxInt32 = 2
    DefaultEncryption = "aes"
    DefaultStorageClass = "std"
    DefaultDays = 2
    UserSpecs <- MCMaintenanceSpecs
    InitialSpecs <- MCDeclaredMaintenance
    MaxFaults = 0
    MaxEdits = 1
    MaxOutside = 0
SPECIFICATION Spec
CHECK_DEADLOCK FALSE
PROPERTY
    DroppedMaintenanceIsDisabled
