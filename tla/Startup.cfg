SPECIFICATION StartupSpec
CONSTANTS
    Daemons = {"one", "two"}
    RuntimeDirs = {"run", "other"}
    Layouts <- OneOrTwoDirectories
    MaxLaunches = 4
    MaxStreams = 2
    MaxMishaps = 3
INVARIANTS
    OneDaemonActs
    ServingIsReachable
    ShutdownInOrder
PROPERTY ShutdownEnds
CHECK_DEADLOCK FALSE
