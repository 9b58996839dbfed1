\* A primary and a companion; four changes by users and Docker.
SPECIFICATION MCSpec
CONSTANTS
    Companions = {"db"}
    Tick = 1
    Guard = 1
    Window = 2
    MaxTime = 7
    MaxChanges = 4
INVARIANT DownIsReported
PROPERTY HealthyNotFailed
