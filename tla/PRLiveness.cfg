CONSTANTS
    NumEnvs = 2
    MaxStoreErrors = 0
    ManualCloses = TRUE
SPECIFICATION PRSpec
PROPERTIES
    SettledRecordRemoved
    OpenRequestAcknowledged
    LifecycleRefined
