SPECIFICATION DamageSpec
CONSTANTS
    Instances = {i1, i2}
    NoLock = NoLock
    MaxGenerations = 2
    MaxFaults = 1
INVARIANTS
    GeneratesOnPristineStorage
PROPERTIES
    KeepsServing
