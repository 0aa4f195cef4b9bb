\* Four operations of three processes, each any of the four kinds, with crashes,
\* failed commits and failed rollbacks at any point.
CONSTANTS
    p1 = p1
    p2 = p2
    p3 = p3
    history = history
    points = points
    t1 = t1
    t2 = t2
    NoTx = NoTx
    Streams = {history, points}
    Txs = {t1, t2}
    Writes <- WritesOf
    Selects = {t1, t2}
    Procs = {p1, p2, p3}
    MaxCalls = 4
    Crashes = TRUE
    Faults = TRUE
SPECIFICATION FairSpec
\* Every allowed operation has been made and has ended.
CHECK_DEADLOCK FALSE
INVARIANTS
    TypeOK
    OptimisticOrder
    ReaderStable
PROPERTIES
    OutcomeTruthful
    ImplementsAtomicStore
    EveryOperationEnds
