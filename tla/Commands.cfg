SPECIFICATION CommandSpec
CONSTANTS
    Modes = {"interactive", "long-running", "paseo", "run", "cancel"}
    MaxHistory = 5
    MaxSignals = 2
    MaxFaults = 1
    MaxEvents = 2
INVARIANTS
    NoSilentOrphan
    NoChildLeft
    ExitCodeTells
PROPERTIES
    ExecEndNoticed
    TerminateEnds
CHECK_DEADLOCK FALSE
