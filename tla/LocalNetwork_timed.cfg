\* Two promises, deadlines and leases that run out.
CONSTANTS
    p1 = p1
    p2 = p2
    p3 = p3
    Id = {p1, p2}
    Pid = {w}
    NoPid = NoPid
    Addr = {l}
    RetryTTL = 1
    MaxTime = 9
    Deadlines = {2}
    TTLs = {0, 9}
    TagChoices <- TimedTags
    Outcomes = {"resolved", "rejected"}
    MaxLag = 1
    MaxClock = 2
    MaxVersion = 2
SYMMETRY Symmetry
SPECIFICATION Spec
INVARIANTS
    TypeOK
    Consistent
    DeadlineKept
    NoLostWakeup
    AnswersAreTrue
PROPERTIES
    StoresPromises
    FencingToken
    ReadyAnnounced
    NoWakeOfFulfilled
