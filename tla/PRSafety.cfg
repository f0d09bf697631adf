CONSTANTS
    NumEnvs = 2
    MaxStoreErrors = 2
    ManualCloses = FALSE
SPECIFICATION PRSpec
INVARIANTS
    PRTypeOK
    NoOrphanedProviderPR
PROPERTY
    LifecycleSafe
