---------------------------- MODULE MySqlPoolMC ----------------------------
EXTENDS MySqlPool, TLC

Perms == Permutations(Client)
=============================================================================
