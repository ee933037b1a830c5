\* Three jobs, submitted again and again, over two scoped keys and Serial.
SPECIFICATION FairSpec
CONSTANTS
    Job = {j1, j2, j3}
    Serial = Serial
    Key = {k1, k2, Serial}
    AskedBudget = 2
    AskedQueueCap = 2
CHECK_DEADLOCK FALSE
INVARIANTS
    WorkConserving
    SlotsConserved
    LosslessDrain
PROPERTIES
    KeepsPromise
    SubmitResolves
    SerialNotStarved
    ShutdownCompletes
