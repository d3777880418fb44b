\* One promise, with or without an address; three callers, two mishaps.
CONSTANTS
    Id = {p}
    Pid = {}
    NoPid = NoPid
    Addr = {here}
    Here = here
    RetryTTL = 1
    MaxTime = 9
    Caller = {c, d, e}
    TagChoices <- BothTags
    MaxMishaps = 2
SPECIFICATION FairSpec
INVARIANTS
    SeenIsSettlement
    NoSilentWait
PROPERTY
    HandleSettles
