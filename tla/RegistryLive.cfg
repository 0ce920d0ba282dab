\* Progress on one server.
SPECIFICATION FairSpec
CONSTANTS
    Server = {s1}
    User = {u1}
    Conn = {c1, c2}
    UserOf <- OneUser
    None = None
    Orphan = Orphan
    FaultKinds = {}
    MaxFaults = 0
PROPERTIES ClosedForgotten LoginAnswered
\* Clients need not come back: the system may rest.
CHECK_DEADLOCK FALSE
