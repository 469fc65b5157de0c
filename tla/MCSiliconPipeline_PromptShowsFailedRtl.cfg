CONSTANTS
    Code <- MCCode
    NoCode = NoCode
    LargePatch <- MCLargePatch
    Suspect <- MCSuspect
    InitialRtl <- MCInitialRtl
    Reported <- MCReported
    Configs <- MCConfigs
    ParseMax = 2
    CoreLimit = 2

SPECIFICATION Spec

INVARIANT PromptShowsFailedRtl

CHECK_DEADLOCK FALSE
