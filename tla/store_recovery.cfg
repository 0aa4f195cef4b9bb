\* A process dies while it initializes the store, another one recovers it.
CONSTANTS
    p1 = p1
    p2 = p2
    p3 = p3
    history = history
    points = points
    t1 = t1
    t2 = t2
    NoTx = NoTx
    Streams = {history, points}
    Txs = {t1, t2}
    Writes <- WritesOf
    Selects = {t1, t2}
    Procs = {p1, p2}
    MaxCalls = 3
    Crashes = TRUE
    Faults = FALSE
SPECIFICATION Spec
\* Every allowed operation has been made and has ended.
CHECK_DEADLOCK FALSE
PROPERTIES
    RecoveryRestoresReading
