\* Three ops, two attempts.  The last attempt ends: nothing follows.
CONSTANTS
    NumOps = 3
    MaxAttempts = 2
CHECK_DEADLOCK FALSE
SPECIFICATION FairSpec
INVARIANTS
    CallOrderPrefix
    IdConfirmed
    NoLostSpawn
PROPERTIES
    FlushEnds
