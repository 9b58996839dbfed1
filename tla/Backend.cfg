\* Two sandboxes on one host, one with a companion, and two goroutines for each:
\* three calls and a mishap, or two calls and two mishaps.
SPECIFICATION Spec
CONSTANTS
    s1 = s1
    s2 = s2
    c1 = c1
    g1 = g1
    g2 = g2
    Networks <- BothSandboxes
    Slots <- TwoSlots
    Processes <- BothProcesses
    Companions <- OneCompanion
    MaxCalls = 3
    MaxMishaps = 2
    MaxTogether = 7
SYMMETRY SlotSymmetry
INVARIANTS
    RunningIsolated
    NothingLeft
CHECK_DEADLOCK FALSE
