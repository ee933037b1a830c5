SPECIFICATION FairSpec
CONSTANTS
    Message = {m1, m2}
    Priorities = {0}
    BatchSize = 2
    Id = {i1, i2}
    Key = {k}
    Serial = serial
    Budget = 1
    QueueCap = 1
    InflightCap = 1
    Kinds = {"request"}
    SchedulerOn = {TRUE, FALSE}
    AbortsOn = FALSE
    MaxRestarts = 0
CHECK_DEADLOCK FALSE
PROPERTIES
    Served
    ShutdownEnds
