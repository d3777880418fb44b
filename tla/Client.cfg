SPECIFICATION Spec

CONSTANTS
    p1 = p1
    p2 = p2
    c1 = c1
    c2 = c2
    Id <- Ids
    Pid = {p1, p2}
    NoPid = NoPid
    Addr = {p1, p2}
    RetryTTL = 1
    MaxTime = 9
    Call = {c1, c2}
    RootId <- OneRoot
    Func = {"f"}
    Text <- Strings
    Payload <- Values
    Settlements <- BySomeone
    MaxPromises = 1
    Timestamp <- Firings
    Deadline = 2
    MaxVersion = 2
    MaxReleases = 1

INVARIANTS RunsWhatWasAsked ResultIsTheOutcome
PROPERTY StartsHoldLease
SYMMETRY Symmetry

\* Promises, versions and time are bounded.
CHECK_DEADLOCK FALSE
