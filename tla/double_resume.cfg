\* One process calls for an optimization three times: what the second attempt
\* replayed is refused to the third.
CONSTANTS
    Procs = {p1}
    NoProc = NoProc
    NoAttempt = NoAttempt
    Kinds = {"optimize"}
    Size = 2
    MaxCalls = 3
    FailAt = {}
SPECIFICATION Spec
CHECK_DEADLOCK FALSE
INVARIANT
    SelectedReplayed
