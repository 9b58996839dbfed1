\* Two execs in one sandbox, a store that never fails.
SPECIFICATION MCFairSpec
CONSTANTS
    s1 = s1
    Sandboxes = {s1}
    g1 = g1
    Goroutines = {g1}
    Companions = {}
    e1 = e1
    e2 = e2
    Execs = {e1, e2}
    StoreMayFail = FALSE
    MaxLog = 6
    MaxExecLog = 3
INVARIANTS
    ExecEndsOnce
    RunningHasWorker
PROPERTY ExecEnds
