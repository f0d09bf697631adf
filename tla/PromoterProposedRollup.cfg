CONSTANTS
    NumEnvs = 2
    MaxStoreErrors = 0
    MaxDry = 1
    Keys <- MCKeys
    EnvActiveKeys <- MCEnvActiveKeys
    GlobalActiveKeys <- MCGlobalKeys
    EnvProposedKeys <- MCEnvProposedKeys
    GlobalProposedKeys <- MCGlobalKeys
    AutoMerge <- MCAutoMerge
    CSStates = {"pending", "success"}
    MaxCSPerSha = 1
    MonotoneChecks = TRUE
    ManualCloses = FALSE
    ReportingEnvs = {1, 2}
SPECIFICATION Spec
PROPERTY ProposedRollupSound
