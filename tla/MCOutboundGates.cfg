\* One request, to the peer or within the process, two sessions of the peer.
SPECIFICATION Spec
CONSTANTS
    Call = {c}
    Sessions = 2
    Changes = 3
    Capacity = 2
CHECK_DEADLOCK FALSE
INVARIANTS
    PendingExact StaleCloseHarmless
PROPERTY
    GuardNotOlder
