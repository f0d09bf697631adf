CONSTANTS
    NumEnvs = 2
    MaxStoreErrors = 1
    MaxDry = 2
    Keys <- MCKeys
    EnvActiveKeys <- MCEnvActiveKeys
    GlobalActiveKeys <- MCGlobalKeys
    EnvProposedKeys <- MCNoKeys
    GlobalProposedKeys <- MCGlobalKeys
    AutoMerge <- MCAutoMerge
    CSStates = {"pending", "success"}
    MaxCSPerSha = 1
    MonotoneChecks = TRUE
    ManualCloses = TRUE
    ReportingEnvs = {1, 2}
SPECIFICATION Spec
INVARIANTS TypeOK NoOrphanedProviderPR
PROPERTIES FlipOnlyPromotedUpstream LifecycleSafe
