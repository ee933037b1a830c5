SPECIFICATION Spec
CONSTANTS
    User = {"heartbeat", "network", "rebind"}
    Sockets = 2
    MaxAttempts = 1
    MaxFaults = 1
    MaxCalls = 2
INVARIANTS StaysDown RebindClean
PROPERTY NoReplace
