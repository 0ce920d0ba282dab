\* Two logins of a user on two servers, and one failed kick or crash.
SPECIFICATION Spec
CONSTANTS
    Server = {s1, s2}
    User = {u1}
    Conn = {c1, c2}
    UserOf <- OneUser
    None = None
    Orphan = Orphan
    FaultKinds = {"rpc", "crash"}
    MaxFaults = 1
INVARIANTS OneLive LiveIsRegistered CleanupSparesOthers KeysAgree
SYMMETRY Perms
\* Clients need not come back: the system may rest.
CHECK_DEADLOCK FALSE
