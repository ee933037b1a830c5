SPECIFICATION FairSpec
CONSTANTS
    Cmd = {a, b}
    OnStop = OnStop
    Shutdown = Shutdown
    NoCmd = NoCmd
    Modes = {"Serial", "Interleaved"}
    Capacity = 1
CHECK_DEADLOCK FALSE
INVARIANTS
    RunsAlone
    LosslessStop
    FailClosed
PROPERTIES
    StopEnds
