\* Five calls of two processes with three Plans: A -> B -> A, upgrades and
\* iterations fit, with a death or an exception
\* at any step that can leave something unfinished behind.
CONSTANTS
    Procs = {p1, p2}
    Plans = {pA, pB, pC}
    NoDir = NoDir
    NoRun = NoRun
    NoPlan = NoPlan
    MaxCalls = 5
    FailAt = {"maintain", "unlink", "tidy", "create", "copy", "publish", "swap", "confirm", "use"}
SPECIFICATION Spec
SYMMETRY Alike
\* Every allowed call has been made and has ended.
CHECK_DEADLOCK FALSE
INVARIANTS
    TypeOK
    ListedIntact
    RunStaysBound
PROPERTIES
    RunRefusedForCause
    OutcomeTruthful
    RetryAccepted
    ImplementsHistory
