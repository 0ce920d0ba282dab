\* Two users upload one song each; nothing fails.
SPECIFICATION Spec
CONSTANTS
    alice = alice
    bob = bob
    s1 = s1
    s2 = s2
    Client = {alice, bob}
    Song = {s1, s2}
    Has <- EachHas
    Chunks = 2
    MemLimit = 1
    None = None
    MaxTries <- OneTry
    MaxFaults = 0
INVARIANTS RowIsOneSong
\* Users need not upload.
CHECK_DEADLOCK FALSE
