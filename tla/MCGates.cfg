CONSTANTS
    good = good
    latched = latched
    vacuous = vacuous
    NoRtl = NoRtl
    Rtl <- MCRtl
    Latched <- MCLatched
    Vacuous <- MCVacuous
    Configs <- MCConfigs
    MaxPasses = 3
    InputCount = 8
    Answers <- ModelAnswers
    Contracts <- ContractSet
    Designs <- CandidateSet
    Longer <- Beginnings
    NoClock = NoClock
    Workspaces = {"w1", "w2"}
    Files = {"design", "helper"}
    MaxStages = 2
    MaxCalls = 2
    MaxFaults = 1

SPECIFICATION GatesSpec

INVARIANTS
    SignoffSound
    FailureExplained
    InputsExercised
    ModesAgree
    AcceptedHoldsModule
    PrecheckMirrorsGate
    CleanIsCompatible
    MultidrivenIsReal
    VerdictIsOwn
    OutputOfVerdict

PROPERTIES
    SourcesKept

\* The bound on the passes is reached.
CHECK_DEADLOCK FALSE
