------------------------------ MODULE DistLock ------------------------------
(***************************************************************************)
(* The lock that LoginHandler, DealExceptionSession and the login counter  *)
(* take in Redis (SessionServer/DistributeLock.cpp, and its wrappers in    *)
(* RedisManager.cpp): SET key id NX EX lease, polled until the acquire     *)
(* timeout, and a release that deletes the key only when it still holds    *)
(* the releaser's own id.                                                  *)
(*                                                                         *)
(* Every acquire makes a fresh UUID.  A caller is sequential and forgets   *)
(* the UUID when it releases, so the caller itself stands for it.  Time is *)
(* discrete; a Tick is one second of the server's and of Redis' clocks.    *)
(***************************************************************************)
EXTENDS Naturals

CONSTANTS Proc,            \* the callers: worker and I/O threads of all servers
          Lease,           \* LOCK_TIME_OUT: life of the key
          AcquireTimeout,  \* ACQUIRE_TIME_OUT: how long acquire polls
          MaxHold,         \* bound of the model: longest stay between acquire and release
          Nobody           \* the key does not exist

ASSUME TimeAssumption == /\ Lease \in Nat \ {0}
                         /\ AcquireTimeout \in Nat \ {0}
                         /\ MaxHold \in Nat
ASSUME NobodyAssumption == Nobody \notin Proc

VARIABLES key,     \* value of the lock key: the owner, or Nobody
          ttl,     \* seconds until Redis removes the key
          pc,      \* where each caller is
          waited,  \* seconds a caller has polled
          age      \* seconds since a caller's SET succeeded

vars == <<key, ttl, pc, waited, age>>

Init == /\ key = Nobody
        /\ ttl = 0
        /\ pc = [p \in Proc |-> "idle"]
        /\ waited = [p \in Proc |-> 0]
        /\ age = [p \in Proc |-> 0]

Begin(p) == /\ pc[p] = "idle"
            /\ pc' = [pc EXCEPT ![p] = "trying"]
            /\ waited' = [waited EXCEPT ![p] = 0]
            /\ UNCHANGED <<key, ttl, age>>

\* Mutant: SET without NX.
SetAlways(p) == /\ pc[p] = "trying"
                /\ waited[p] < AcquireTimeout
                /\ key' = p
                /\ ttl' = Lease
                /\ pc' = [pc EXCEPT ![p] = "held"]
                /\ age' = [age EXCEPT ![p] = 0]
                /\ UNCHANGED waited

\* SET NX EX finds no key.  When it finds one the caller polls again.
SetNX(p) == /\ pc[p] = "trying"
            /\ waited[p] < AcquireTimeout
            /\ key = Nobody
            /\ key' = p
            /\ ttl' = Lease
            /\ pc' = [pc EXCEPT ![p] = "held"]
            /\ age' = [age EXCEPT ![p] = 0]
            /\ UNCHANGED waited

\* acquireLock returns "": the time is up, or Redis (or the connection pool)
\* answered with an error, which can happen at any poll.
Fail(p) == /\ pc[p] = "trying"
           /\ pc' = [pc EXCEPT ![p] = "idle"]
           /\ UNCHANGED <<key, ttl, waited, age>>

\* Mutant: DEL without the comparison.
KeyDeleted(p) == Nobody

\* The Lua script: compare, then delete.
KeyAfterRelease(p) == IF key = p THEN Nobody ELSE key

Release(p) == /\ pc[p] = "held"
              /\ key' = KeyAfterRelease(p)
              /\ pc' = [pc EXCEPT ![p] = "idle"]
              /\ UNCHANGED <<ttl, waited, age>>

\* The caller's process dies, or its EVAL is lost: the key stays.
Crash(p) == /\ pc[p] \in {"trying", "held"}
            /\ pc' = [pc EXCEPT ![p] = "idle"]
            /\ UNCHANGED <<key, ttl, waited, age>>

\* A caller whose time is up acts before the clock goes on.
MayWait(p) == /\ pc[p] = "trying" => waited[p] < AcquireTimeout
              /\ pc[p] = "held" => age[p] < MaxHold

\* Mutant: the key is set without EX.
KeyForever == key

\* Redis removes the key when its time is over.
KeyAfterTick == IF key # Nobody /\ ttl > 1 THEN key ELSE Nobody

Tick == /\ \A p \in Proc : MayWait(p)
        /\ \/ key # Nobody
           \/ \E p \in Proc : pc[p] # "idle"
        /\ key' = KeyAfterTick
        /\ ttl' = IF ttl > 0 THEN ttl - 1 ELSE 0
        /\ waited' = [p \in Proc |-> IF pc[p] = "trying" THEN waited[p] + 1 ELSE waited[p]]
        /\ age' = [p \in Proc |-> IF pc[p] = "held" THEN age[p] + 1 ELSE age[p]]
        /\ UNCHANGED pc

Next == \/ \E p \in Proc : Begin(p) \/ SetNX(p) \/ Fail(p) \/ Release(p) \/ Crash(p)
        \/ Tick

Spec == Init /\ [][Next]_vars

\* Clocks advance and a caller's own code runs on; nothing makes a caller
\* start, find the key free, or crash.
Fairness == /\ WF_vars(Tick)
            /\ \A p \in Proc : WF_vars(Release(p)) /\ WF_vars(Fail(p))

FairSpec == Spec /\ Fairness
-----------------------------------------------------------------------------
TypeOK == /\ key \in Proc \cup {Nobody}
          /\ ttl \in 0..Lease
          /\ pc \in [Proc -> {"idle", "trying", "held"}]
          /\ waited \in [Proc -> 0..AcquireTimeout]
          /\ age \in [Proc -> Nat]

\* The callers between a successful acquire and its release.
Inside == {p \in Proc : pc[p] = "held"}

\* Two callers are never both inside while the leases of both run, however
\* long callers stay and whoever crashes: a late release or an expiry never
\* frees the key under a caller whose lease still runs.
LeaseExclusive ==
    \A p, q \in Inside : (age[p] < Lease /\ age[q] < Lease) => p = q

\* The key leaves a caller that is inside only by that caller's release or
\* crash, or when its lease is over.
KeptWhileLeased ==
    [][\A p \in Inside : (age[p] + 1 < Lease /\ key = p /\ key' # p) => pc'[p] = "idle"]_vars

\* A key whose owner died goes away in the end.
OrphanFreed == \A p \in Proc : key = p ~> key # p

\* The callers inside whose lease still runs get a mutual exclusion lock: who
\* stays longer has left as far as the others are concerned.
Leased == {p \in Inside : age[p] < Lease}
M == INSTANCE Mutex WITH inside <- Leased
MutexSpec == M!Spec
=============================================================================
