\* One sandbox, one goroutine at a time, one call of any kind.
SPECIFICATION MCFairSpec
CONSTANTS
    s1 = s1
    Sandboxes = {s1}
    g1 = g1
    Goroutines = {g1}
    Companions = {}
    StoreMayFail = FALSE
    c1 = c1
    Clients = {c1}
    Calls <- AllCalls
    MaxLog = 7
INVARIANTS
    AnchorAccepted
    NoLostWakeup
PROPERTIES
    SuccessIsFresh
    CallEnds
