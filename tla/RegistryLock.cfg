\* A lock timeout, a lease that ends too early or a crash, on one server.
SPECIFICATION Spec
CONSTANTS
    Server = {s1}
    User = {u1}
    Conn = {c1, c2}
    UserOf <- OneUser
    None = None
    Orphan = Orphan
    FaultKinds = {"lock", "crash"}
    MaxFaults = 1
INVARIANTS LockHasHolder LoggedInTokenValid
SYMMETRY Perms
\* Clients need not come back: the system may rest.
CHECK_DEADLOCK FALSE
