\* Two processes and two Plans, nothing fails.
CONSTANTS
    Procs = {p1, p2}
    Plans = {pA, pB}
    NoDir = NoDir
    NoRun = NoRun
    NoPlan = NoPlan
    MaxCalls = 3
    FailAt = {}
SPECIFICATION Spec
\* Every allowed call has been made and has ended.
CHECK_DEADLOCK FALSE
INVARIANTS
    BoundToOwnPlan
