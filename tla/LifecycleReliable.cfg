\* One sandbox with a companion, two goroutines, a store that never fails.
SPECIFICATION MCFairSpec
CONSTANTS
    s1 = s1
    Sandboxes = {s1}
    g1 = g1
    g2 = g2
    Goroutines = {g1, g2}
    Companions = {s1}
    StoreMayFail = FALSE
    MaxLog = 8
INVARIANTS
    TypeOK
    StateFollowsLog
    TransientHasWorker
    UsableHasRuntimeState
PROPERTY AcceptedEnds
