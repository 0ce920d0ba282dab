\* Two persons, two requests at a time, a failing call.
SPECIFICATION Spec
CONSTANTS
    Person = {anna, ben}
    Name = {n}
    Password = {p, q}
    Job = {j1, j2}
    None = None
    Lifetime = 2
    MaxCodes = 2
    MaxSalts = 2
    MaxFaults = 1
SYMMETRY Alike
INVARIANTS MailedIsStored RightAccepted
PROPERTIES OwnerChanges
CHECK_DEADLOCK FALSE
