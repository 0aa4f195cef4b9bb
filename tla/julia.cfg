\* One run of each operation with two points or generations, two frames out of
\* turn and two KeyboardInterrupts; the child may crash anywhere.
CONSTANTS
    Ops = {"direct", "sweep", "optimize", "reuse"}
    Size = 2
    MaxRogue = 2
    MaxInterrupts = 2
SPECIFICATION FairSpec
\* The run is over, or hangs behind a dead reader thread.
CHECK_DEADLOCK FALSE
INVARIANTS
    TypeOK
    ProgressCommitted
    ReturnedOutcome
    InStep
    UnsealedLosesNothing
    ChildGone
PROPERTIES
    EveryRunEnds
