---------------------------- MODULE SendQueueMC ----------------------------
EXTENDS SendQueue, TLC

Perms == Permutations(Msg)
=============================================================================
