SPECIFICATION FairPoolSpec
CONSTANTS
    Sender = {s}
    PoolCloser = {c}
    MaxAttempts = 2
    Gens <- MCGens
CHECK_DEADLOCK FALSE
INVARIANTS
    NoMissedWire
PROPERTIES
    EvictsDead
    SendSettles
