--------------------------- MODULE DistLockProofs ---------------------------
(***************************************************************************)
(* Proofs about DistLock for any callers and any times.  The inductive     *)
(* invariant is that a caller inside whose lease still runs owns the key,  *)
(* and that the key's remaining life is what is left of that lease.        *)
(***************************************************************************)
EXTENDS DistLock, TLAPS

LeaseInv == \A p \in Inside :
              age[p] < Lease => key = p /\ ttl = Lease - age[p]

HoldInv == \A p \in Inside : age[p] <= MaxHold

\* DistLock keeps its types: in particular no caller polls beyond the
\* acquire timeout and the key never outlives LOCK_TIME_OUT.
THEOREM TypeCorrect == Spec => []TypeOK
<1>1. Init => TypeOK
  BY TimeAssumption DEF Init, TypeOK
<1>2. TypeOK /\ [Next]_vars => TypeOK'
  <2> SUFFICES ASSUME TypeOK, [Next]_vars PROVE TypeOK'
    OBVIOUS
  <2> USE TimeAssumption DEF TypeOK
  <2>1. ASSUME NEW p \in Proc, Begin(p) PROVE TypeOK'
    BY <2>1 DEF Begin
  <2>2. ASSUME NEW p \in Proc, SetNX(p) PROVE TypeOK'
    BY <2>2 DEF SetNX
  <2>3. ASSUME NEW p \in Proc, Fail(p) PROVE TypeOK'
    BY <2>3 DEF Fail
  <2>4. ASSUME NEW p \in Proc, Release(p) PROVE TypeOK'
    BY <2>4 DEF Release, KeyAfterRelease
  <2>5. ASSUME NEW p \in Proc, Crash(p) PROVE TypeOK'
    BY <2>5 DEF Crash
  <2>6. CASE Tick
    <3>1. key' \in Proc \cup {Nobody} /\ ttl' \in 0..Lease /\ pc' = pc
      BY <2>6 DEF Tick, KeyAfterTick
    <3>2. waited' \in [Proc -> 0..AcquireTimeout]
      BY <2>6 DEF Tick, MayWait
    <3>3. age' \in [Proc -> Nat]
      BY <2>6 DEF Tick
    <3> QED BY <3>1, <3>2, <3>3
  <2>7. CASE UNCHANGED vars
    BY <2>7 DEF vars
  <2> QED BY <2>1, <2>2, <2>3, <2>4, <2>5, <2>6, <2>7 DEF Next
<1> QED BY <1>1, <1>2, PTL DEF Spec

LEMMA LeaseInvStep == TypeOK /\ LeaseInv /\ [Next]_vars => LeaseInv'
<1> SUFFICES ASSUME TypeOK, LeaseInv, [Next]_vars PROVE LeaseInv'
  OBVIOUS
<1> USE TimeAssumption, NobodyAssumption DEF TypeOK, LeaseInv, Inside
<1>1. ASSUME NEW p \in Proc, Begin(p) PROVE LeaseInv'
  BY <1>1 DEF Begin
<1>2. ASSUME NEW p \in Proc, SetNX(p) PROVE LeaseInv'
  \* The key is free, so no caller inside has a running lease.
  BY <1>2 DEF SetNX
<1>3. ASSUME NEW p \in Proc, Fail(p) PROVE LeaseInv'
  BY <1>3 DEF Fail
<1>4. ASSUME NEW p \in Proc, Release(p) PROVE LeaseInv'
  BY <1>4 DEF Release, KeyAfterRelease
<1>5. ASSUME NEW p \in Proc, Crash(p) PROVE LeaseInv'
  BY <1>5 DEF Crash
<1>6. CASE Tick
  <2> SUFFICES ASSUME NEW p \in Inside', age'[p] < Lease
               PROVE key' = p /\ ttl' = Lease - age'[p]
    OBVIOUS
  <2>1. p \in Inside /\ age'[p] = age[p] + 1
    BY <1>6 DEF Tick
  <2>2. key = p /\ ttl = Lease - age[p] /\ ttl > 1
    BY <2>1
  <2> QED BY <1>6, <2>1, <2>2 DEF Tick, KeyAfterTick
<1>7. CASE UNCHANGED vars
  BY <1>7 DEF vars
<1> QED BY <1>1, <1>2, <1>3, <1>4, <1>5, <1>6, <1>7 DEF Next

\* Two callers are never both inside with running leases, for any number of
\* callers and any times (DistributeLock.cpp, acquireLock and releaseLock).
THEOREM Exclusive == Spec => []LeaseExclusive
<1>1. Init => LeaseInv
  BY DEF Init, LeaseInv, Inside
<1>2. LeaseInv => LeaseExclusive
  BY DEF LeaseInv, LeaseExclusive
<1> QED BY <1>1, <1>2, LeaseInvStep, TypeCorrect, PTL DEF Spec

\* The key leaves a caller inside only through that caller or with its lease.
THEOREM Kept == Spec => KeptWhileLeased
<1>1. TypeOK /\ LeaseInv /\ [Next]_vars =>
        [\A p \in Inside : (age[p] + 1 < Lease /\ key = p /\ key' # p) => pc'[p] = "idle"]_vars
  <2> SUFFICES ASSUME TypeOK, LeaseInv, Next, NEW q \in Inside,
                      age[q] + 1 < Lease, key = q, key' # q
               PROVE  pc'[q] = "idle"
    BY DEF vars
  <2> USE TimeAssumption, NobodyAssumption DEF TypeOK, LeaseInv, Inside
  <2>1. ASSUME NEW p \in Proc, Begin(p) \/ SetNX(p) \/ Fail(p) \/ Crash(p)
        PROVE FALSE
    BY <2>1 DEF Begin, SetNX, Fail, Crash
  <2>2. ASSUME NEW p \in Proc, Release(p) PROVE pc'[q] = "idle"
    BY <2>2 DEF Release, KeyAfterRelease
  <2>3. CASE Tick
    BY <2>3 DEF Tick, KeyAfterTick
  <2> QED BY <2>1, <2>2, <2>3 DEF Next
<1>2. Init => LeaseInv
  BY DEF Init, LeaseInv, Inside
<1> QED BY <1>1, <1>2, LeaseInvStep, TypeCorrect, PTL DEF Spec, KeptWhileLeased

LEMMA HoldInvStep == TypeOK /\ HoldInv /\ [Next]_vars => HoldInv'
<1> SUFFICES ASSUME TypeOK, HoldInv, [Next]_vars PROVE HoldInv'
  OBVIOUS
<1> USE TimeAssumption DEF TypeOK, HoldInv, Inside
<1>1. ASSUME NEW p \in Proc, Begin(p) \/ SetNX(p) \/ Fail(p) \/ Release(p) \/ Crash(p)
      PROVE HoldInv'
  BY <1>1 DEF Begin, SetNX, Fail, Release, Crash
<1>2. CASE Tick
  BY <1>2 DEF Tick, MayWait
<1>3. CASE UNCHANGED vars
  BY <1>3 DEF vars
<1> QED BY <1>1, <1>2, <1>3 DEF Next

\* Of the callers whose lease still runs the Redis lock makes a mutual exclusion
\* lock, however long callers stay: an expiry is a leave, of one caller at most.
THEOREM ImplementsMutex == Spec => MutexSpec
<1>1. Init => M!Init
  BY DEF Init, M!Init, Leased, Inside
<1>2. TypeOK /\ LeaseInv /\ LeaseInv' /\ [Next]_vars => [M!Next]_Leased
  <2> SUFFICES ASSUME TypeOK, LeaseInv, LeaseInv', [Next]_vars PROVE [M!Next]_Leased
    OBVIOUS
  <2> USE TimeAssumption, NobodyAssumption DEF TypeOK, Inside, Leased
  <2>1. ASSUME NEW p \in Proc, SetNX(p) PROVE M!Enter(p)
    <3>1. Leased = {}
      BY <2>1 DEF SetNX, LeaseInv
    <3>2. Leased' = {p}
      BY <2>1, <3>1 DEF SetNX
    <3> QED BY <3>1, <3>2 DEF M!Enter
  <2>2. ASSUME NEW p \in Proc, Release(p) \/ Crash(p)
        PROVE M!Leave(p) \/ UNCHANGED Leased
    <3>1. Leased' = Leased \ {p}
      BY <2>2 DEF Release, Crash
    <3> QED BY <3>1 DEF M!Leave
  <2>3. ASSUME NEW p \in Proc, Begin(p) \/ Fail(p) PROVE UNCHANGED Leased
    BY <2>3 DEF Begin, Fail
  <2>4. CASE Tick
    <3>1. Leased' \subseteq Leased
      BY <2>4 DEF Tick
    <3>2. \A p, q \in Leased : p = q
      BY DEF LeaseInv
    <3>3. CASE Leased' = Leased
      BY <3>3
    <3>4. ASSUME NEW p \in Leased, p \notin Leased' PROVE M!Leave(p)
      BY <3>1, <3>2, <3>4 DEF M!Leave
    <3> QED BY <3>1, <3>3, <3>4 DEF M!Next
  <2>5. CASE UNCHANGED vars
    BY <2>5 DEF vars
  <2> QED BY <2>1, <2>2, <2>3, <2>4, <2>5 DEF Next, M!Next
<1>3. Init => LeaseInv
  BY DEF Init, LeaseInv, Inside
<1> QED BY <1>1, <1>2, <1>3, LeaseInvStep, TypeCorrect, PTL
        DEF Spec, MutexSpec, M!Spec

\* When every caller leaves before its lease is over, those with a running
\* lease are all that are inside, and the mutual exclusion is that of Inside.
THEOREM LeaversAreLeased == MaxHold < Lease => (Spec => [](Leased = Inside))
<1> SUFFICES ASSUME MaxHold < Lease PROVE Spec => [](Leased = Inside)
  OBVIOUS
<1>1. Init => HoldInv
  BY DEF Init, HoldInv, Inside
<1>2. TypeOK /\ HoldInv => Leased = Inside
  BY TimeAssumption DEF TypeOK, HoldInv, Leased, Inside
<1> QED BY <1>1, <1>2, HoldInvStep, TypeCorrect, PTL DEF Spec

\* A key that is there has time left, which every second shortens and nobody
\* makes longer.
KeyLives == key # Nobody => ttl > 0
LeaseShrinks == [][key # Nobody /\ key' = key => ttl' <= ttl /\ (Tick => ttl' < ttl)]_vars

\* While a key stays in Redis its time only runs: neither the polls of others
\* nor a late release renews it, so that the key of a caller that died is gone
\* after LOCK_TIME_OUT seconds at the most.  The safety part of OrphanFreed.
THEOREM LeaseRunsOut == Spec => [](KeyLives /\ ttl <= Lease) /\ LeaseShrinks
<1>1. Init => KeyLives
  BY DEF Init, KeyLives
<1>2. TypeOK /\ KeyLives /\ [Next]_vars =>
        /\ KeyLives'
        /\ [key # Nobody /\ key' = key => ttl' <= ttl /\ (Tick => ttl' < ttl)]_vars
  <2> SUFFICES ASSUME TypeOK, KeyLives, [Next]_vars
               PROVE  /\ KeyLives'
                      /\ key # Nobody /\ key' = key => ttl' <= ttl /\ (Tick => ttl' < ttl)
    OBVIOUS
  <2> USE TimeAssumption, NobodyAssumption DEF TypeOK, KeyLives
  <2>1. CASE Tick
    BY <2>1 DEF Tick, KeyAfterTick
  <2>2. ASSUME NEW p \in Proc, SetNX(p)
        PROVE  KeyLives' /\ key = Nobody
    BY <2>2 DEF SetNX
  <2>3. ASSUME NEW p \in Proc, Release(p)
        PROVE  KeyLives' /\ ttl' = ttl
    BY <2>3 DEF Release, KeyAfterRelease
  <2>4. ASSUME NEW p \in Proc, Begin(p) \/ Fail(p) \/ Crash(p)
        PROVE  KeyLives' /\ ttl' = ttl
    BY <2>4 DEF Begin, Fail, Crash
  <2>5. ASSUME UNCHANGED vars
        PROVE  KeyLives' /\ ttl' = ttl
    BY <2>5 DEF vars
  \* Any step that leaves the time alone is no second of a key that is there.
  <2>6. ttl' = ttl /\ key # Nobody /\ key' = key => ~Tick
    BY DEF Tick
  <2>7. Tick /\ key # Nobody => ttl' < ttl /\ ttl' <= ttl
    BY DEF Tick
  <2>8. ttl' = ttl => ttl' <= ttl
    OBVIOUS
  <2>9. KeyLives' /\ (Tick \/ key = Nobody \/ ttl' = ttl)
    BY <2>1, <2>2, <2>3, <2>4, <2>5 DEF Next
  <2> QED BY <2>6, <2>7, <2>8, <2>9
<1>3. TypeOK => ttl <= Lease
  BY TimeAssumption DEF TypeOK
<1> QED BY <1>1, <1>2, <1>3, TypeCorrect, PTL DEF Spec, LeaseShrinks
=============================================================================
