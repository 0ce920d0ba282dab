\* Two threads that nest, two failures of the database or of a connection.
SPECIFICATION FairSpec
CONSTANTS
    Client = {c1, c2}
    PoolSize = 3
    MaxNest = 2
    MaxOutages = 2
INVARIANTS NeverTooMany NoneLost NoLostWakeup
PROPERTIES Served
