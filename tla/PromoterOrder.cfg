CONSTANTS
    NumEnvs = 2
    MaxStoreErrors = 0
    MaxDry = 3
    Keys <- MCHealthKey
    EnvActiveKeys <- MCEnvActiveKeys
    GlobalActiveKeys <- MCGlobalKeys
    EnvProposedKeys <- MCNoKeys
    GlobalProposedKeys <- MCGlobalKeys
    AutoMerge <- MCAutoMerge
    CSStates = {"pending", "success"}
    MaxCSPerSha = 1
    MonotoneChecks = TRUE
    ManualCloses = FALSE
    ReportingEnvs = {1}
SPECIFICATION Spec
INVARIANT PromotedInOrder
