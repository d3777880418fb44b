\* What the background loop brings about on its own.
CONSTANTS
    p1 = p1
    p2 = p2
    p3 = p3
    Id = {p1, p2}
    Pid = {w}
    NoPid = NoPid
    Addr = {}
    RetryTTL = 1
    MaxTime = 9
    Deadlines = {1, 9}
    TTLs = {0}
    TagChoices <- LoopTags
    Outcomes = {"resolved"}
    MaxLag = 0
    MaxClock = 1
    MaxVersion = 1
SPECIFICATION FairSpec
PROPERTIES
    OverduePromiseSettles
    SilentLeaseEnds
    DeadlineWakesAwaiter
    ReadyTaskRetried
