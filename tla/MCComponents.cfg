SPECIFICATION ComponentsSpec
CONSTANTS
    NetOrder <- Order
    Statements <- DesignStatements
    MaxSize = 4
    Inputs = {"d", "rst"}
    Outputs = {"t"}
    Wide = {"w"}
    ResetNamed = {"rst", "rst_q"}
    FifoNamed = {"fifo_p"}
    InstanceNets = {"u"}
    NoClock = NoClock
    Clauses <- DeclaredClauses
    ResetPorts <- DeclaredResets
    NoReset = NoReset
    MaxClauses = 2
    TasksOf <- TaskVersions
    Sealed = "v2"
    MinTasks = 1
    Thresholds <- AskedFor
    None = None
    MaxRuns = 2
    MaxEdits = 1
    MaxDrivers = 2
    MaxSteps = 3
    MaxTorn = 2
INVARIANTS
    CdcPassSound
    CdcViolationReal
    NothingGenuineDropped
    FailureIsGenuine
    OperationIsChecked
    CoverIsTrial
    ReleasedIsApproved
    ReleasedPagesAgree
    ClaimCoversTaskSet
    HoldoutIsSealed
    BreaksAreVisible
CHECK_DEADLOCK FALSE
