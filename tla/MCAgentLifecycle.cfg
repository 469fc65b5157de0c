CONSTANTS
    Item = {"rtl", "tb"}
    Value = {"v1"}
    Absent = Absent
    NoDir = NoDir
    Session = {s1, s2}
    MaxRepairs = 2
    MaxRuns = 2

SPECIFICATION FairSpec

INVARIANTS
    SnapshotFaithful
    OriginalHeld

PROPERTIES
    RunIsTransaction
    RunEnds

\* The bound on the runs is reached.
CHECK_DEADLOCK FALSE
