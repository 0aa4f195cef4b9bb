\* Two calls of any two callers (or the same one twice), three generations in
\* groups of two; crashes, failed commits, faults and raising callbacks.
CONSTANTS
    p1 = p1
    p2 = p2
    p3 = p3
    tA = tA
    tB = tB
    Procs = {p1, p2, p3}
    Tasks = {tA, tB}
    TaskOf <- Callers
    Every <- Interval
    Checkpointed <- Policy
    MaxGen = 3
    MaxCalls = 2
    Crashes = TRUE
    CommitFaults = TRUE
    Faults = TRUE
    AsyncSignals = FALSE
SPECIFICATION Spec
\* Every allowed call has been made and has ended.
CHECK_DEADLOCK FALSE
SYMMETRY SameTask
INVARIANTS
    TypeOK
    CheckpointExact
    AttemptOrder
    FencedHistory
    SnapshotFresh
    FailureKeepsTail
    SelectedReadable
    SelectedComplete
PROPERTIES
    ImplementsLedger
