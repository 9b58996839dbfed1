\* One sandbox with a companion and an exec, any write of the store may fail.
SPECIFICATION MCSpec
CONSTANTS
    s1 = s1
    Sandboxes = {s1}
    g1 = g1
    g2 = g2
    Goroutines = {g1, g2}
    Companions = {s1}
    StoreMayFail = TRUE
    e1 = e1
    Execs = {e1}
    MaxLog = 6
    MaxExecLog = 2
SYMMETRY Symmetry
INVARIANTS
    LogDurable
    MarkedOnlyAfterDeleted
    ExecsFollowLog
PROPERTY ImplementsEventLog
