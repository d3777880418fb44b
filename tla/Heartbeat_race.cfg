\* Two executions of two tasks.  Versions run out: the model stops there.
CONSTANTS
    Task = {a, b}
    Execution = {w1, w2}
    MaxVersion = 1
CHECK_DEADLOCK FALSE
SPECIFICATION HBSpec
INVARIANT
    LoopWhileTracked
