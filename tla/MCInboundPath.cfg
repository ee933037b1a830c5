SPECIFICATION Spec
CONSTANTS
    Message = {m1, m2}
    Priorities = {0}
    BatchSize = 2
    Id = {i1, i2}
    Key = {j, k}
    Serial = serial
    Budget = 2
    QueueCap = 2
    InflightCap = 2
    Kinds = {"request", "tell", "invalid", "poison"}
    SchedulerOn = {TRUE, FALSE}
    AbortsOn = TRUE
    MaxRestarts = 1
SYMMETRY Symmetry
CHECK_DEADLOCK FALSE
INVARIANTS
    
    OneRunPerRequest
PROPERTIES
    HandlersInArrivalOrder
