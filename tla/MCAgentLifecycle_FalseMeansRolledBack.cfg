CONSTANTS
    Item = {"rtl", "tb"}
    Value = {"v1"}
    Absent = Absent
    NoDir = NoDir
    Session = {s1, s2}
    MaxRepairs = 2
    MaxRuns = 2

SPECIFICATION Spec

INVARIANT FalseMeansRolledBack

CHECK_DEADLOCK FALSE
