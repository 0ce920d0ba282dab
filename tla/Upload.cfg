\* Two users, three uploads, a file that does not fit into memory.
SPECIFICATION FairSpec
CONSTANTS
    alice = alice
    bob = bob
    s1 = s1
    s2 = s2
    Client = {alice, bob}
    Song = {s1, s2}
    Has <- BothHas
    Chunks = 3
    MemLimit = 1
    None = None
    MaxTries <- Tries
    MaxFaults = 1
INVARIANTS FileWhole ToldIsStored NoFileLeft DialogHasUpload
PROPERTIES UploadEnds
\* Users need not upload.
CHECK_DEADLOCK FALSE
