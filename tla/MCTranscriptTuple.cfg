CONSTANTS
    Code <- MCCode
    NoCode = NoCode
    LargePatch <- MCLargePatch
    Suspect <- MCSuspect
    InitialRtl <- MCInitialRtl
    Reported <- MCReported
    Configs <- MCConfigs
    ParseMax = 2
    CoreLimit = 2
    MaxTurns = 5
    None = None
    OtherTranscripts <- MCOthers

SPECIFICATION MinerSpec

INVARIANTS
    RtlMatchesVerdict
    AnswersShiftedByLostWrites
    PassIsLastAttempt
    PairsShowTheirFailure
    OnlyMixUpsContaminate

\* A run ends, or reaches the bound on its turns.
CHECK_DEADLOCK FALSE
