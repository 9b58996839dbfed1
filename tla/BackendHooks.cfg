\* A single call, the creation of a sandbox with a companion, and no mishap.
SPECIFICATION FairSpec
CONSTANTS
    s1 = s1
    s2 = s2
    c1 = c1
    g1 = g1
    g2 = g2
    Networks <- BothSandboxes
    Slots <- TwoSlots
    Processes <- BothProcesses
    Companions <- OneCompanion
    MaxCalls = 1
    MaxMishaps = 0
    MaxTogether = 2
PROPERTY HealthyRunsHook
CHECK_DEADLOCK FALSE
