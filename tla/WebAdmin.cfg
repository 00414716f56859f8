SPECIFICATION Spec
CONSTANTS
    None = None
    Users = {u1, u2}
    Bootstraps = {u1, u2}
    Passwords = {p1, p2}
    Bootstrap = p1
    Tickets = {t1}
    Texts = {default, x1}
    Default = default
    Models = {m1}
    MaxRequests = 2
    MaxStarts = 2
    PoolSize = 2
INVARIANTS
    TypeOK
    SuperadminRemains
    SavesAreKept
PROPERTIES
    StaleRowsUndoNothing
    RequestsFinish
\* Requests and starts are bounded, and nobody has to log in.
CHECK_DEADLOCK FALSE
