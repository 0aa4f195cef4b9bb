\* Four calls of two processes for one request of each kind, with two generations
\* or points: a call may be cut short at every step that writes evidence.
CONSTANTS
    Procs = {p1, p2}
    NoProc = NoProc
    NoAttempt = NoAttempt
    Kinds = {"direct", "sweep", "optimize"}
    Size = 2
    MaxCalls = 4
    FailAt = {"ensure", "json", "anchor", "root", "index", "launch", "seal", "run", "point", "stage", "list", "promote"}
SPECIFICATION Spec
SYMMETRY Alike
\* Every allowed call has been made and has ended.
CHECK_DEADLOCK FALSE
INVARIANTS
    TypeOK
    OneSuccess
    LedgersAgree
    HistoryReadable
PROPERTIES
    NoGenerationTwice
    IntegrityErrorsKnown
    ImplementsHistory
