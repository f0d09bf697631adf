CONSTANTS
    NumEnvs = 2
    MaxStoreErrors = 1
    MaxDry = 1
    Keys <- MCKeys
    EnvActiveKeys <- MCNoKeys
    GlobalActiveKeys <- MCSharedKeys
    EnvProposedKeys <- MCNoKeys
    GlobalProposedKeys <- MCGlobalKeys
    AutoMerge <- MCAutoMerge
    CSStates = {"pending", "success"}
    MaxCSPerSha = 2
    MonotoneChecks = TRUE
    ManualCloses = FALSE
    ReportingEnvs = {1}
SPECIFICATION FairSpec
PROPERTY CopiesEventuallyMirror
