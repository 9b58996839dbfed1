\* The overlapping calls of one sandbox, in two goroutines: five calls and two
\* mishaps.
SPECIFICATION Spec
CONSTANTS
    s1 = s1
    s2 = s2
    c1 = c1
    g1 = g1
    g2 = g2
    Networks <- OneSandbox
    Slots <- TwoSlots
    Processes <- OneSandboxProcesses
    Companions <- ItsCompanion
    MaxCalls = 5
    MaxMishaps = 2
    MaxTogether = 12
SYMMETRY SlotSymmetry
INVARIANTS
    NoDuplicateRules
    StoppedIsDown
    CallsGoOn
CHECK_DEADLOCK FALSE
