\* Callers may stay inside longer than their lease.
SPECIFICATION FairSpec
CONSTANTS
    Proc = {p1, p2, p3}
    Nobody = Nobody
    Lease = 3
    AcquireTimeout = 2
    MaxHold = 4
INVARIANTS LeaseExclusive
PROPERTIES KeptWhileLeased OrphanFreed MutexSpec
