CONSTANTS
    Nil = Nil
    NoBucket = NoBucket
    NoValue = NoValue
    Keys <- MCKeys
    Values <- MCValues
    EmptyString = ""
    AwsKeys <- MCAwsKeys
    SystemKeys <- MCSysKeys
    ControllerTags <- MCCtlTags
    Encryptions = {"aes", "kms"}
    StorageClasses = {"std", "ia"}
    Policies = {"p"}
    Days = {1, 4}
    MaxInt32 = 2
    DefaultEncryption = "aes"
    DefaultStorageClass = "std"
    DefaultDays = 2
    UserSpecs <- MCSpecs
    InitialSpecs <- MCSpecs
    MaxFaults = 2
    MaxEdits = 1
    MaxOutside = 1
SPECIFICATION FairSpec
CHECK_DEADLOCK FALSE
INVARIANTS
    TypeOK
    SyncedMeansApplied
    SettledIsQuiet
    ConditionsAgree
    AwsTagsNeverInSpec
PROPERTIES
    AwsTagsUntouched
    KeptTagNeverMissing
    WritesAreDeclared
    LateInitKeepsDeclared
    KeepsPromise
    Converges
    DeletionCompletes
