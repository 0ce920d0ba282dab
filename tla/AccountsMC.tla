----------------------------- MODULE AccountsMC -----------------------------
EXTENDS Accounts, TLC

Alike == Permutations(Person) \cup Permutations(Name) \cup Permutations(Password) \cup Permutations(Job)
=============================================================================
