\* One local child; a worker is slow and loses its lease.
CONSTANTS
    wf = wf
    lcl = lcl
    rmt = rmt
    slp = slp
    Id = {wf, lcl}
    Pid = {p}
    NoPid = NoPid
    Addr = {}
    RetryTTL = 1
    MaxTime = 9
    Execution = {w1, w2}
    Root = wf
    Calls <- LocalCalls
    Local = {lcl}
    Timer = {}
    Spawned = {}
    Faults = {"slow"}
    MaxFaults = 1
    MaxVersion = 2
SPECIFICATION FairSpec
PROPERTY
    NoSplitBrainWrite
