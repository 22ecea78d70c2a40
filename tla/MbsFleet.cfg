SPECIFICATION FleetSpec
CONSTANTS
    Instances = {i1, i2}
    NoLock = NoLock
    MaxGenerations = 2
    MaxFaults = 1
    FailureLimit = 3
    StartBurst = 2
    TemplateSize = 2
    DefaultSize = 1
    TagSizes = {2, 3}
    MaxMishaps = 4
INVARIANTS
    StoredIsWholeOrLocked
    GeneratesOnPristineStorage
    LoadedIsPublished
    HealthIsHonest
PROPERTIES
    ImplementsIdentity
    InstancesServe
    InstanceComesBack
