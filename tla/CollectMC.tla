----------------------------- MODULE CollectMC -----------------------------
\* Songs are interchangeable; clients are, but for the first login, too.
EXTENDS Collect, TLC

Alike == Permutations(Client) \cup Permutations(Song)
=============================================================================
