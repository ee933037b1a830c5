\* A reliable and a latency-first receive task, two registrations, a queue of one place.
SPECIFICATION FairSpec
CONSTANTS
    Reliable = {rel}
    Latency = {lat}
    Chunks = 2
    QueueDepth = 1
    Versions = 2
CHECK_DEADLOCK FALSE
INVARIANTS
    SingleWorker
    FifoPerStream
    AcceptedDelivered
    FreshCallback
    NoOrphans
PROPERTY
    DispatchReturns
