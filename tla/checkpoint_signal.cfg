\* One call, no crash and no failed commit; KeyboardInterrupt lands
\* between storing the CMA state and staging its generation.
CONSTANTS
    p1 = p1
    p2 = p2
    p3 = p3
    tA = tA
    tB = tB
    Procs = {p1}
    Tasks = {tA}
    TaskOf <- Callers
    Every <- Interval
    Checkpointed <- Policy
    MaxGen = 2
    MaxCalls = 1
    Crashes = FALSE
    CommitFaults = FALSE
    Faults = FALSE
    AsyncSignals = TRUE
SPECIFICATION Spec
\* Every allowed call has been made and has ended.
CHECK_DEADLOCK FALSE
INVARIANT
    CheckpointExact
