\* A sleep and a remote child that are spawned or awaited, a local one; two
\* executions; every kind of fault.
CONSTANTS
    wf = wf
    lcl = lcl
    rmt = rmt
    slp = slp
    Id = {wf, lcl, rmt, slp}
    Pid = {p}
    NoPid = NoPid
    Addr = {}
    RetryTTL = 1
    MaxTime = 9
    Execution = {w1, w2}
    Root = wf
    Calls <- AllCalls
    Local = {lcl}
    Timer = {slp}
    Spawned = {slp}
    Faults = {"crash", "panic", "missed", "lost", "slow"}
    MaxFaults = 2
    MaxVersion = 2
SYMMETRY Symmetry
SPECIFICATION Spec
INVARIANTS
    OneExecutionPerVersion
    NoRemoteLeftBehind
    SleepNotCutShort
PROPERTIES
    FencedWrites
