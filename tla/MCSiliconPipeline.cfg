CONSTANTS
    Code <- MCCode
    NoCode = NoCode
    LargePatch <- MCLargePatch
    Suspect <- MCSuspect
    InitialRtl <- MCInitialRtl
    Reported <- MCReported
    Configs <- MCConfigs
    ParseMax = 2
    CoreLimit = 2

SPECIFICATION FairSpec

INVARIANTS
    JudgesRealRtl
    EdaTurnsPaid
    NoPrematureRollback
    UnchangedAnnounced

PROPERTIES
    ChargedToFailedStage
    NoIdenticalReverify
    ParseBudgetFinal
    Termination
    IsTransaction

\* A run ends: the driver returns or raises.
CHECK_DEADLOCK FALSE
