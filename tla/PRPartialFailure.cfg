CONSTANTS
    NumEnvs = 1
    MaxStoreErrors = 1
    ManualCloses = FALSE
SPECIFICATION PRSpec
PROPERTY OpenRequestAcknowledged
