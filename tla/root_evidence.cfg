\* A process may die or raise while an upgrade copies a leaf.
CONSTANTS
    Procs = {p1, p2}
    Plans = {pA, pB}
    NoDir = NoDir
    NoRun = NoRun
    NoPlan = NoPlan
    MaxCalls = 4
    FailAt = {"copy"}
SPECIFICATION Spec
\* Every allowed call has been made and has ended.
CHECK_DEADLOCK FALSE
INVARIANTS
    EvidenceKept
