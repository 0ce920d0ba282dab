-------------------------------- MODULE Mutex --------------------------------
(***************************************************************************)
(* What the callers of RedisManager::acquireLock expect of a lock: at any  *)
(* moment at most one of them is between a successful acquire and the      *)
(* matching release.  DistLock is shown to implement it for the callers    *)
(* whose lease still runs.                                                 *)
(***************************************************************************)
CONSTANT Proc
VARIABLE inside          \* the callers between acquire and release

Init == inside = {}

Enter(p) == inside = {} /\ inside' = {p}

Leave(p) == p \in inside /\ inside' = inside \ {p}

Next == \E p \in Proc : Enter(p) \/ Leave(p)

Spec == Init /\ [][Next]_inside
=============================================================================
