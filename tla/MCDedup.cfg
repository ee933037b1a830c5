SPECIFICATION FairDedupSpec
CONSTANTS
    Delivery = {d1, d2, d3}
    Id = {a, b}
    Ttl = 2
    TimeoutMs <- Timeouts
INVARIANTS
    DedupInv
PROPERTIES
    RunsSpaced
    DuplicatesAnswered
