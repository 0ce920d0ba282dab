--------------------------- MODULE SessionRegistryMC ---------------------------
\* SessionRegistry for one user who logs in several times, from one client or
\* from two: users share nothing but the servers' threads.
EXTENDS SessionRegistry, TLC

OneUser == [c \in Conn |-> CHOOSE u \in User : TRUE]

Perms == Permutations(Conn) \cup Permutations(Server)
=============================================================================
