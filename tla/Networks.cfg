SPECIFICATION Spec

CONSTANTS
    Kinds = {"local", "http", "postgres"}
    Event = {e1, e2}
    Wide = {e2}
    MaxEvents = 3
    Unblocks = {u1, u2}
    Limit = 1
    MaxQueue = 1
    MaxExecutes = 2
    Steady = FALSE
    MaxFaults = 2
    MaxBatches = 2

INVARIANTS StreamFaithful StopIsFinal UnblocksAccounted
PROPERTY QueuesServed

\* A stopped transport does nothing more.
CHECK_DEADLOCK FALSE
