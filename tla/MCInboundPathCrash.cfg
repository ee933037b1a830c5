SPECIFICATION FairSpec
CONSTANTS
    Message = {m1}
    Priorities = {0}
    BatchSize = 1
    Id = {i1}
    Key = {k}
    Serial = serial
    Budget = 2
    QueueCap = 2
    InflightCap = 2
    Kinds = {"request"}
    SchedulerOn = {TRUE}
    AbortsOn = FALSE
    MaxRestarts = 1
CHECK_DEADLOCK FALSE
PROPERTIES
    AtLeastOnce
