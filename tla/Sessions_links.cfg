SPECIFICATION Spec
CONSTANTS
    Client = {c1, c2}
    User = {ann}
    Admin = {ann}
    NoUser = nobody
    Token = {t1}
    Link = {l1}
    NoToken = none
    Ttl = 2
    LinkTtl = 1
    MaxOrder = 2
    MaxTime = 2
INVARIANTS
    ServedIsLive
    SharedWithinConfirmed
PROPERTIES
    EventuallySwept
CHECK_DEADLOCK FALSE
