\* Workers crash, functions panic, messages are missed; the root settles all the same.
CONSTANTS
    wf = wf
    lcl = lcl
    rmt = rmt
    slp = slp
    Id = {wf, lcl, rmt}
    Pid = {p}
    NoPid = NoPid
    Addr = {}
    RetryTTL = 1
    MaxTime = 9
    Execution = {w1, w2}
    Root = wf
    Calls <- RemoteCalls
    Local = {lcl}
    Timer = {}
    Spawned = {}
    Faults = {"crash", "panic", "missed"}
    MaxFaults = 2
    MaxVersion = 4
SPECIFICATION FairSpec
PROPERTY
    RootSettles
