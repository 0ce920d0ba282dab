----------------------------- MODULE DistLockMC -----------------------------
\* DistLock with small times: the order Lease > AcquireTimeout of the code is
\* kept (10 s and 5 s there, 3 and 2 here).
EXTENDS DistLock, TLC
Perms == Permutations(Proc)
=============================================================================
