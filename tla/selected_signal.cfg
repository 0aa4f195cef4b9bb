\* One call, no crash and no failed commit; KeyboardInterrupt lands
\* after the completed event is committed.
CONSTANTS
    p1 = p1
    p2 = p2
    p3 = p3
    tA = tA
    tB = tB
    Procs = {p1}
    Tasks = {tA}
    TaskOf <- Callers
    Every <- Interval
    Checkpointed <- Policy
    MaxGen = 2
    MaxCalls = 1
    Crashes = FALSE
    CommitFaults = FALSE
    Faults = FALSE
    AsyncSignals = TRUE
SPECIFICATION Spec
\* Every allowed call has been made and has ended.
CHECK_DEADLOCK FALSE
INVARIANT
    SelectedReadable
