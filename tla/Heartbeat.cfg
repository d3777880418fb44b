\* Two tasks, three executions.  Versions run out: the model stops there.
CONSTANTS
    Task = {a, b}
    Execution = {w1, w2, w3}
    MaxVersion = 3
CHECK_DEADLOCK FALSE
SPECIFICATION HBSpec
INVARIANTS
    TrackedIsExecuting
    EntryKept
    LoopEndsWithWork
