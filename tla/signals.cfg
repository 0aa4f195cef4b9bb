\* Two calls of one task under every fault; KeyboardInterrupt may also land inside
\* the writer.  Each call ends: an undisturbed call keeps running and the Plan lock
\* is always released.
CONSTANTS
    p1 = p1
    p2 = p2
    p3 = p3
    tA = tA
    tB = tB
    Procs = {p1, p2}
    Tasks = {tA}
    TaskOf <- Callers
    Every <- Interval
    Checkpointed <- Policy
    MaxGen = 2
    MaxCalls = 2
    Crashes = TRUE
    CommitFaults = TRUE
    Faults = TRUE
    AsyncSignals = TRUE
SPECIFICATION FairSpec
\* Every allowed call has been made and has ended.
CHECK_DEADLOCK FALSE
INVARIANTS
    EvidenceContiguous
    CallbackDurable
PROPERTIES
    CallbackOrder
    EveryCallEnds
