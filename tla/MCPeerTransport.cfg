\* A request with its clean-up, a tell within its budget and one close_all, two attempts.
SPECIFICATION Spec
CONSTANTS
    Request = {r}
    Tell = {t}
    Expires = {r}
    Admin = {a}
    Attempts = 2
CHECK_DEADLOCK FALSE
INVARIANTS
    MappedIsOpen
     

    
