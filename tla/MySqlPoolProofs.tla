-------------------------- MODULE MySqlPoolProofs --------------------------
(***************************************************************************)
(* Proofs about MySqlPool for any threads, sizes and outages.  That no     *)
(* connection is lost is inductive together with what there was no outage  *)
(* means: the database is up, no connection is closed, none was dropped.   *)
(* That there are never too many needs only where each connection goes.    *)
(***************************************************************************)
EXTENDS MySqlPool, SequenceTheorems, FiniteSetTheorems, TLAPS

\* The check thread has a connection while it tests it, and only then.
Testing ==
    /\ kpc = "test" => hand # <<>> /\ left > 0
    /\ kpc # "test" => hand = <<>>

\* Who asks for a connection has room for it.
Asking == \A c \in Client : cpc[c] # "run" => Len(held[c]) < MaxNest

AllGood(s) == \A i \in 1..Len(s) : s[i] = "good"

\* Before the first outage.
Healthy == outages = 0 =>
    /\ up /\ fails = 0
    /\ AllGood(pool) /\ AllGood(hand) /\ \A c \in Client : AllGood(held[c])

Inv == TypeOK /\ Testing /\ Asking /\ Healthy /\ NeverTooMany /\ NoneLost
-----------------------------------------------------------------------------
(* Sequences of connections *)

LEMMA Lengths == ASSUME NEW s \in Seq(Health)
                 PROVE  Len(s) \in Nat /\ (s = <<>> <=> Len(s) = 0)
BY LenProperties, EmptySeq

LEMMA Pushing ==
    ASSUME NEW s \in Seq(Health), NEW h \in Health
    PROVE  /\ Append(s, h) \in Seq(Health)
           /\ Len(Append(s, h)) = Len(s) + 1
           /\ AllGood(Append(s, h)) <=> AllGood(s) /\ h = "good"
<1>1. /\ Append(s, h) \in Seq(Health)
      /\ Len(Append(s, h)) = Len(s) + 1
      /\ Append(s, h)[Len(s) + 1] = h
      /\ \A i \in 1..Len(s) : Append(s, h)[i] = s[i]
  BY AppendProperties
<1>2. Len(s) \in Nat
  BY Lengths
<1> QED BY <1>1, <1>2 DEF AllGood

LEMMA Popping ==
    ASSUME NEW s \in Seq(Health), s # <<>>
    PROVE  /\ Head(s) \in Health
           /\ Tail(s) \in Seq(Health)
           /\ Len(Tail(s)) = Len(s) - 1
           /\ AllGood(s) => AllGood(Tail(s)) /\ Head(s) = "good"
<1>1. Len(s) \in Nat /\ Len(s) # 0
  BY Lengths
<1>2. Tail(s) \in Seq(Health) /\ Len(Tail(s)) = Len(s) - 1
  BY <1>1, HeadTailProperties
<1>3. Head(s) \in Health /\ Head(s) = s[1] /\ \A i \in 1..(Len(s) - 1) : Tail(s)[i] = s[i + 1]
  BY <1>1, <1>2, HeadTailProperties, ElementOfSeq
<1> QED BY <1>1, <1>2, <1>3 DEF AllGood

LEMMA PuttingBack ==
    ASSUME NEW s \in Seq(Health), s # <<>>
    PROVE  /\ Last(s) \in Health
           /\ ButLast(s) \in Seq(Health)
           /\ Len(ButLast(s)) = Len(s) - 1
           /\ AllGood(s) => AllGood(ButLast(s)) /\ Last(s) = "good"
<1>1. Len(s) \in Nat /\ Len(s) # 0
  BY Lengths
<1>2. Last(s) \in Health
  BY <1>1, ElementOfSeq DEF Last
<1>3. /\ ButLast(s) \in Seq(Health)
      /\ Len(ButLast(s)) = Len(s) - 1
      /\ \A i \in 1..(Len(s) - 1) : ButLast(s)[i] = s[i]
  <2>1. 1 \in Int /\ Len(s) - 1 \in Int /\ \A i \in 1..(Len(s) - 1) : s[i] \in Health
    BY <1>1, ElementOfSeq
  <2>2. /\ ButLast(s) \in Seq(Health)
        /\ Len(ButLast(s)) = IF 1 <= Len(s) - 1 THEN Len(s) - 1 - 1 + 1 ELSE 0
        /\ \A i \in 1..(Len(s) - 1 - 1 + 1) : ButLast(s)[i] = s[1 + i - 1]
    BY <2>1, SubSeqProperties DEF ButLast
  <2>3. Len(ButLast(s)) = Len(s) - 1
    <3>1. \A n \in Nat \ {0} : (IF 1 <= n - 1 THEN n - 1 - 1 + 1 ELSE 0) = n - 1
      OBVIOUS
    <3>2. Len(s) \in Nat \ {0}
      BY <1>1
    <3> QED BY <2>2, <3>1, <3>2, Zenon
  <2>4. ASSUME NEW i \in 1..(Len(s) - 1) PROVE ButLast(s)[i] = s[i]
    <3>1. i \in 1..(Len(s) - 1 - 1 + 1) /\ 1 + i - 1 = i
      BY <1>1
    <3> QED BY <2>2, <3>1
  <2> QED BY <2>2, <2>3, <2>4
<1> QED BY <1>1, <1>2, <1>3 DEF AllGood, Last

LEMMA Listed ==
    ASSUME NEW n \in Nat, NEW s \in [1..n -> Health]
    PROVE  s \in Seq(Health) /\ Len(s) = n
<1>1. s \in Seq(Health)
  BY SeqDef, Zenon
<1>2. DOMAIN s = 1..n /\ DOMAIN s = 1..Len(s) /\ Len(s) \in Nat
  BY <1>1, LenProperties
<1> QED BY <1>1, <1>2

LEMMA Killing ==
    ASSUME NEW s \in Seq(Health)
    PROVE  Killed(s) \in Seq(Health) /\ Len(Killed(s)) = Len(s)
<1>1. Len(s) \in Nat /\ DOMAIN s = 1..Len(s)
  BY LenProperties
<1>2. Killed(s) \in [1..Len(s) -> Health]
  BY <1>1 DEF Killed, Health
<1> QED BY <1>1, <1>2, Listed

LEMMA Single ==
    /\ \A h \in Health : /\ <<h>> \in Seq(Health) /\ Len(<<h>>) = 1 /\ <<h>> # <<>>
                         /\ AllGood(<<h>>) <=> h = "good"
    /\ <<>> \in Seq(Health) /\ Len(<<>>) = 0 /\ AllGood(<<>>)
BY EmptySeq DEF AllGood

LEMMA OneHand ==
    ASSUME NEW s \in Seq(Health), Len(s) <= 1
    PROVE  s \in {<<>>} \cup {<<h>> : h \in Health}
<1>1. Len(s) \in Nat /\ (s = <<>> <=> Len(s) = 0)
  BY Lengths
<1>2. CASE Len(s) = 1
  <2>1. s[1] \in Health
    BY <1>2, ElementOfSeq
  <2>2. s = <<s[1]>>
    BY <1>2, <2>1, Single, SeqEqual
  <2> QED BY <2>1, <2>2
<1>3. \A n \in Nat : n <= 1 => n = 0 \/ n = 1
  OBVIOUS
<1> QED BY <1>1, <1>2, <1>3
-----------------------------------------------------------------------------
(* Counting connections *)

Slots(h) == {ci \in Client \X (1..MaxNest) : ci[2] <= Len(h[ci[1]])}
Slot(c, h) == <<c, Len(h[c]) + 1>>

LEMMA InUseIs == InUse = Cardinality(Slots(held)) /\ InUse' = Cardinality(Slots(held'))
BY DEF InUse, Slots

LEMMA FiniteSlots == ASSUME NEW h
                     PROVE  IsFiniteSet(Slots(h)) /\ Cardinality(Slots(h)) \in Nat
<1>1. IsFiniteSet(1..MaxNest)
  BY PoolAssumption, FS_Interval
<1>2. IsFiniteSet(Client \X (1..MaxNest))
  BY <1>1, PoolAssumption, FS_Product
<1>3. Slots(h) \subseteq Client \X (1..MaxNest)
  BY DEF Slots
<1> QED BY <1>2, <1>3, FS_Subset, FS_CardinalityType

\* A connection more with one client is one more in use.
LEMMA OneMore ==
    ASSUME NEW h \in [Client -> Seq(Health)], NEW g \in [Client -> Seq(Health)], NEW c \in Client,
           Len(h[c]) < MaxNest, Len(g[c]) = Len(h[c]) + 1,
           \A d \in Client \ {c} : g[d] = h[d]
    PROVE  Cardinality(Slots(g)) = Cardinality(Slots(h)) + 1
<1>1. \A d \in Client : Len(h[d]) \in Nat /\ Len(g[d]) \in Nat
  BY Lengths
<1>2. Slot(c, h) \in Slots(g) /\ Slot(c, h) \notin Slots(h)
  BY <1>1, PoolAssumption DEF Slots, Slot
<1>3. ASSUME NEW ci \in Slots(g), ci # Slot(c, h) PROVE ci \in Slots(h)
  <2>1. PICK d \in Client, i \in 1..MaxNest : ci = <<d, i>> /\ i <= Len(g[d])
    BY <1>3 DEF Slots
  <2>2. i <= Len(h[d])
    BY <1>1, <1>3, <2>1 DEF Slot
  <2> QED BY <2>1, <2>2 DEF Slots
<1>4. ASSUME NEW ci \in Slots(h) PROVE ci \in Slots(g)
  <2>1. PICK d \in Client, i \in 1..MaxNest : ci = <<d, i>> /\ i <= Len(h[d])
    BY <1>4 DEF Slots
  <2>2. i <= Len(g[d])
    <3>1. CASE d = c
      BY <1>1, <2>1, <3>1
    <3>2. CASE d # c
      BY <2>1, <3>2
    <3> QED BY <3>1, <3>2
  <2> QED BY <2>1, <2>2 DEF Slots
<1>5. Slots(g) = Slots(h) \cup {Slot(c, h)}
  BY <1>2, <1>3, <1>4, Zenon
<1> QED BY <1>2, <1>5, FiniteSlots, FS_AddElement

\* Waking a thread changes nothing else of it.
LEMMA NotifyKeeps ==
    ASSUME cpc \in [Client -> {"run", "want", "waiting"}], NotifyOne
    PROVE  /\ cpc' \in [Client -> {"run", "want", "waiting"}]
           /\ \A c \in Client : cpc'[c] # "run" => cpc[c] # "run"
BY DEF NotifyOne, Waiting
-----------------------------------------------------------------------------
(* The invariant *)

LEMMA InitInv == Init => Inv
<1> SUFFICES ASSUME Init PROVE Inv
  OBVIOUS
<1>1. PICK n \in 0..PoolSize : pool = [i \in 1..n |-> "good"] /\ checking = (n = PoolSize)
  BY DEF Init
<1>2. pool \in [1..n -> Health]
  BY <1>1 DEF Health
<1>3. n \in Nat
  BY PoolAssumption
<1>4. pool \in Seq(Health) /\ Len(pool) = n
  BY <1>2, <1>3, Listed
<1>5. Len(pool) = n /\ AllGood(pool)
  BY <1>1, <1>4 DEF AllGood
<1>6. Slots(held) = {}
  BY Single, PoolAssumption DEF Init, Slots
<1>7. InUse = 0
  BY <1>6, InUseIs, FS_EmptySet
<1>8. TypeOK
  BY <1>1, <1>4, Single, PoolAssumption DEF Init, TypeOK
<1>9. Testing /\ Asking /\ Healthy
  BY <1>5, Single DEF Init, Testing, Asking, Healthy
<1>10. Connections = n /\ fails = 0
  BY <1>5, <1>7, Single, PoolAssumption DEF Init, Connections
<1>11. NeverTooMany
  BY <1>10, PoolAssumption DEF NeverTooMany
<1>12. NoneLost
  BY <1>1, <1>10 DEF NoneLost
<1> QED BY <1>8, <1>9, <1>11, <1>12 DEF Inv

\* What connects the steps with the counts.
LEMMA Counted ==
    ASSUME TypeOK
    PROVE  /\ Len(pool) \in Nat /\ Len(hand) \in Nat /\ InUse \in Nat
           /\ Connections = Len(pool) + InUse + Len(hand)
           /\ \A c \in Client : Len(held[c]) \in Nat /\ held[c] \in Seq(Health)
<1>1. hand \in Seq(Health)
  BY Single DEF TypeOK
<1>2. InUse \in Nat
  BY InUseIs, FiniteSlots
<1> QED BY <1>1, <1>2, Lengths DEF TypeOK, Connections

\* Asking and waking leave all connections where they are.
LEMMA OnlyAsked ==
    ASSUME Inv, cpc' \in [Client -> {"run", "want", "waiting"}],
           \A c \in Client : cpc'[c] # "run" => Len(held[c]) < MaxNest,
           UNCHANGED <<pool, held, checker, database>>
    PROVE  Inv'
<1>1. TypeOK' /\ Testing' /\ Healthy'
  BY DEF Inv, TypeOK, Testing, Healthy, AllGood, checker, database
<1>2. Asking'
  BY DEF Asking
<1>3. InUse' = InUse
  BY InUseIs DEF Slots
<1>4. NeverTooMany' /\ NoneLost'
  BY <1>3 DEF Inv, NeverTooMany, NoneLost, Connections, checker, database
<1> QED BY <1>1, <1>2, <1>4 DEF Inv

LEMMA GetInv == ASSUME Inv, NEW c \in Client, GetConnection(c) PROVE Inv'
<1> USE PoolAssumption
<1>1. CASE pool = <<>>
  BY <1>1, OnlyAsked DEF GetConnection, Inv, TypeOK, Asking
<1>2. CASE pool # <<>>
  <2>1. /\ held' = [held EXCEPT ![c] = Append(@, Head(pool))]
        /\ pool' = Tail(pool)
        /\ cpc' = [cpc EXCEPT ![c] = "run"]
        /\ cpc[c] = "want"
        /\ UNCHANGED <<checker, database>>
    BY <1>2 DEF GetConnection
  <2>2. /\ pool \in Seq(Health) /\ held \in [Client -> Seq(Health)]
        /\ Len(held[c]) < MaxNest
    BY <2>1 DEF Inv, TypeOK, Asking
  <2>3. /\ Head(pool) \in Health /\ pool' \in Seq(Health) /\ Len(pool') = Len(pool) - 1
        /\ AllGood(pool) => AllGood(pool') /\ Head(pool) = "good"
    BY <1>2, <2>1, <2>2, Popping
  <2>4. /\ held'[c] \in Seq(Health) /\ Len(held'[c]) = Len(held[c]) + 1
        /\ AllGood(held'[c]) <=> AllGood(held[c]) /\ Head(pool) = "good"
    BY <2>1, <2>2, <2>3, Pushing
  <2>5. /\ held' \in [Client -> Seq(Health)]
        /\ \A d \in Client \ {c} : held'[d] = held[d] /\ cpc'[d] = cpc[d]
        /\ cpc'[c] = "run"
    BY <2>1, <2>2, <2>4 DEF Inv, TypeOK
  <2>6. TypeOK'
    BY <2>1, <2>2, <2>3, <2>4, <2>5, Counted DEF Inv, TypeOK, checker, database
  <2>7. Testing' /\ Asking'
    BY <2>1, <2>5 DEF Inv, Testing, Asking, checker
  <2>8. Healthy'
    BY <2>1, <2>3, <2>4, <2>5 DEF Inv, Healthy, checker, database, AllGood
  <2>9. InUse' = InUse + 1
    BY <2>2, <2>4, <2>5, OneMore, InUseIs
  <2>10. Connections' = Connections /\ Connections \in Nat
    <3>1. hand' = hand /\ Connections' = (Len(pool) - 1) + (InUse + 1) + Len(hand)
      BY <2>1, <2>3, <2>9 DEF Connections, checker
    <3> QED BY <3>1, Counted DEF Inv
  <2>11. NeverTooMany' /\ NoneLost'
    BY <2>1, <2>10 DEF Inv, NeverTooMany, NoneLost, checker, database
  <2> QED BY <2>6, <2>7, <2>8, <2>11 DEF Inv
<1> QED BY <1>1, <1>2

LEMMA ReturnInv == ASSUME Inv, NEW c \in Client, ReturnConnection(c) PROVE Inv'
<1> USE PoolAssumption
<1>1. /\ held' = [held EXCEPT ![c] = ButLast(@)]
      /\ pool' = Append(pool, Last(held[c]))
      /\ held[c] # <<>> /\ NotifyOne
      /\ UNCHANGED <<checker, database>>
  BY DEF ReturnConnection
<1>2. pool \in Seq(Health) /\ held \in [Client -> Seq(Health)] /\ held[c] \in Seq(Health)
  BY DEF Inv, TypeOK
<1>3. /\ Last(held[c]) \in Health
      /\ held'[c] \in Seq(Health) /\ Len(held'[c]) = Len(held[c]) - 1
      /\ AllGood(held[c]) => AllGood(held'[c]) /\ Last(held[c]) = "good"
  BY <1>1, <1>2, PuttingBack
<1>4. /\ pool' \in Seq(Health) /\ Len(pool') = Len(pool) + 1
      /\ AllGood(pool') <=> AllGood(pool) /\ Last(held[c]) = "good"
  BY <1>1, <1>2, <1>3, Pushing
<1>5. /\ held' \in [Client -> Seq(Health)]
      /\ \A d \in Client \ {c} : held'[d] = held[d]
  BY <1>1, <1>2, <1>3
<1>6. /\ cpc' \in [Client -> {"run", "want", "waiting"}]
      /\ \A d \in Client : cpc'[d] # "run" => cpc[d] # "run"
  BY <1>1, NotifyKeeps DEF Inv, TypeOK
<1>7. /\ Len(held[c]) \in Nat /\ Len(held[c]) <= MaxNest
      /\ Len(held'[c]) < Len(held[c])
  BY <1>3, Counted DEF Inv, TypeOK
<1>8. TypeOK'
  <2>1. \A d \in Client : Len(held'[d]) <= MaxNest
    <3>1. ASSUME NEW d \in Client PROVE Len(held'[d]) <= MaxNest
      <4>1. CASE d = c
        BY <1>3, <1>7, <4>1, Lengths
      <4>2. CASE d # c
        BY <1>5, <4>2 DEF Inv, TypeOK
      <4> QED BY <4>1, <4>2
    <3> QED BY <3>1
  <2> QED BY <1>1, <1>4, <1>5, <1>6, <2>1 DEF Inv, TypeOK, checker, database
<1>9. Testing'
  BY <1>1 DEF Inv, Testing, checker
<1>10. Asking'
  <2>1. \A d \in Client : Len(held'[d]) <= Len(held[d])
    <3>1. ASSUME NEW d \in Client PROVE Len(held'[d]) <= Len(held[d])
      <4>1. CASE d = c
        BY <1>3, <1>7, <4>1, Lengths
      <4>2. CASE d # c
        BY <1>5, <4>2, Counted DEF Inv
      <4> QED BY <4>1, <4>2
    <3> QED BY <3>1
  <2> QED BY <1>5, <1>6, <2>1, Counted, Lengths DEF Inv, Asking
<1>11. Healthy'
  BY <1>1, <1>3, <1>4, <1>5 DEF Inv, Healthy, checker, database, AllGood
<1>12. InUse = InUse' + 1
  <2>1. Len(held'[c]) < MaxNest /\ Len(held[c]) = Len(held'[c]) + 1
    BY <1>3, <1>5, <1>7, Lengths
  <2> QED BY <1>2, <1>5, <2>1, OneMore, InUseIs
<1>13. Connections' = Connections
  BY <1>1, <1>4, <1>12, Counted, InUseIs, FiniteSlots DEF Inv, Connections, checker
<1>14. NeverTooMany' /\ NoneLost'
  BY <1>1, <1>13 DEF Inv, NeverTooMany, NoneLost, checker, database
<1> QED BY <1>8, <1>9, <1>10, <1>11, <1>14 DEF Inv

LEMMA CheckTakeInv == Inv /\ CheckTake => Inv'
<1> SUFFICES ASSUME Inv, CheckTake PROVE Inv'
  OBVIOUS
<1> USE PoolAssumption
<1>1. hand = <<>> /\ UNCHANGED <<held, cpc, fails, checking, left, database>>
  BY DEF CheckTake, Inv, Testing
<1>2. InUse' = InUse
  BY <1>1, InUseIs DEF Slots
<1>3. Asking'
  BY <1>1 DEF Inv, Asking
<1>4. CASE left > 0 /\ pool # <<>>
  <2>1. hand' = <<Head(pool)>> /\ pool' = Tail(pool) /\ kpc' = "test"
    BY <1>4 DEF CheckTake
  <2>2. /\ Head(pool) \in Health /\ pool' \in Seq(Health) /\ Len(pool') = Len(pool) - 1
        /\ AllGood(pool) => AllGood(pool') /\ Head(pool) = "good"
    BY <1>4, <2>1, Popping DEF Inv, TypeOK
  <2>3. hand' # <<>> /\ Len(hand') = 1 /\ (AllGood(hand') <=> Head(pool) = "good")
    BY <2>1, <2>2, Single
  <2>4. TypeOK'
    BY <1>1, <2>1, <2>2 DEF Inv, TypeOK, database
  <2>5. Testing'
    BY <1>1, <1>4, <2>1, <2>3 DEF Testing
  <2>6. Healthy'
    BY <1>1, <2>2, <2>3 DEF Inv, Healthy, database, AllGood
  <2>7. Connections' = Connections
    <3>1. Connections' = (Len(pool) - 1) + InUse + 1 /\ Connections = Len(pool) + InUse + 0
      BY <1>1, <1>2, <2>2, <2>3, Single DEF Connections
    <3> QED BY <3>1, Counted DEF Inv
  <2>8. NeverTooMany' /\ NoneLost'
    BY <1>1, <2>7 DEF Inv, NeverTooMany, NoneLost, database
  <2> QED BY <1>3, <2>4, <2>5, <2>6, <2>8 DEF Inv
<1>5. CASE ~(left > 0 /\ pool # <<>>)
  <2>1. kpc' = "reconnect" /\ UNCHANGED <<hand, pool>>
    BY <1>5 DEF CheckTake
  <2>2. TypeOK' /\ Testing' /\ Healthy'
    BY <1>1, <2>1 DEF Inv, TypeOK, Testing, Healthy, AllGood, database
  <2>3. NeverTooMany' /\ NoneLost'
    BY <1>1, <1>2, <2>1 DEF Inv, NeverTooMany, NoneLost, Connections, database
  <2> QED BY <1>3, <2>2, <2>3 DEF Inv
<1> QED BY <1>4, <1>5

LEMMA OneTested ==
    ASSUME TypeOK, Testing, kpc = "test"
    PROVE  hand # <<>> /\ hand[1] \in Health /\ hand = <<hand[1]>>
<1>1. PICK h \in Health : hand = <<h>>
  BY DEF TypeOK, Testing
<1> QED BY <1>1, Single

LEMMA CheckTestInv == Inv /\ CheckTest => Inv'
<1> SUFFICES ASSUME Inv, CheckTest PROVE Inv'
  OBVIOUS
<1> USE PoolAssumption
<1>1. /\ kpc = "test" /\ hand' = <<>> /\ left' = left - 1 /\ kpc' = "loop"
      /\ UNCHANGED <<held, checking, database>>
  BY DEF CheckTest
<1>2. left' \in Nat
  BY <1>1 DEF Inv, TypeOK, Testing
<1>3. InUse' = InUse
  BY <1>1, InUseIs DEF Slots
<1>4. Testing'
  BY <1>1 DEF Testing
<1>5. CASE pool' = Append(pool, hand[1]) /\ NotifyOne /\ UNCHANGED fails
  <2>0. hand # <<>> /\ hand[1] \in Health /\ hand = <<hand[1]>>
    BY <1>1, OneTested DEF Inv
  <2>1. pool' = Append(pool, hand[1]) /\ NotifyOne /\ UNCHANGED fails
    BY <1>5
  <2>2. /\ pool' \in Seq(Health) /\ Len(pool') = Len(pool) + 1
        /\ AllGood(pool') <=> AllGood(pool) /\ AllGood(hand)
    BY <2>0, <2>1, Pushing, Single DEF Inv, TypeOK
  <2>3. /\ cpc' \in [Client -> {"run", "want", "waiting"}]
        /\ \A d \in Client : cpc'[d] # "run" => cpc[d] # "run"
    BY <2>1, NotifyKeeps DEF Inv, TypeOK
  <2>4. TypeOK'
    BY <1>1, <1>2, <2>1, <2>2, <2>3 DEF Inv, TypeOK, database
  <2>5. Asking'
    BY <1>1, <2>3 DEF Inv, Asking
  <2>6. Healthy'
    BY <1>1, <2>1, <2>2, Single DEF Inv, Healthy, database, AllGood
  <2>7. Connections' = Connections
    <3>1. Connections' = (Len(pool) + 1) + InUse + 0 /\ Connections = Len(pool) + InUse + 1
      BY <1>1, <1>3, <2>0, <2>2, Single DEF Connections
    <3> QED BY <3>1, Counted DEF Inv
  <2>8. NeverTooMany' /\ NoneLost'
    BY <1>1, <2>1, <2>7 DEF Inv, NeverTooMany, NoneLost, database
  <2> QED BY <1>4, <2>4, <2>5, <2>6, <2>8 DEF Inv
<1>6. CASE hand = <<"dead">> /\ fails' = fails + 1 /\ UNCHANGED <<pool, cpc>>
  <2>1. fails' = fails + 1 /\ UNCHANGED <<pool, cpc>>
    BY <1>6
  <2>2. outages # 0
    BY <1>6, Single DEF Inv, Healthy, Health
  <2>3. TypeOK' /\ Asking' /\ Healthy'
    BY <1>1, <1>2, <2>1, <2>2 DEF Inv, TypeOK, Asking, Healthy, database
  <2>4. Connections' + fails' = Connections + fails
    <3>1. Connections' = Len(pool) + InUse + 0 /\ Connections = Len(pool) + InUse + 1
      BY <1>1, <1>3, <1>6, <2>1, Single DEF Connections, Health
    <3> QED BY SMTT(30), <2>1, <3>1, Counted DEF Inv, TypeOK
  <2>5. NeverTooMany' /\ NoneLost'
    BY <1>1, <2>2, <2>4 DEF Inv, NeverTooMany, NoneLost, database
  <2> QED BY <1>4, <2>3, <2>5 DEF Inv
<1> QED BY <1>5, <1>6 DEF CheckTest

LEMMA ReConnectInv == Inv /\ ReConnect => Inv'
<1> SUFFICES ASSUME Inv, ReConnect PROVE Inv'
  OBVIOUS
<1> USE PoolAssumption
<1>1. /\ kpc = "reconnect" /\ kpc' = "idle"
      /\ UNCHANGED <<held, cpc, checking, left, hand, database>>
  BY DEF ReConnect
<1>2. InUse' = InUse
  BY <1>1, InUseIs DEF Slots
<1>3. Testing' /\ Asking'
  BY <1>1 DEF Inv, Testing, Asking
<1>4. CASE fails > 0 /\ up
  <2>1. pool' = Append(pool, "good") /\ fails' = 0
    BY <1>4 DEF ReConnect
  <2>2. pool' \in Seq(Health) /\ Len(pool') = Len(pool) + 1
    BY <2>1, Pushing DEF Inv, TypeOK, Health
  <2>3. outages # 0
    BY <1>4 DEF Inv, Healthy, TypeOK
  <2>4. TypeOK' /\ Healthy'
    BY <1>1, <2>1, <2>2, <2>3 DEF Inv, TypeOK, Healthy, database
  <2>5. Connections' + fails' <= Connections + fails
    <3>1. Connections' = (Len(pool) + 1) + InUse + Len(hand)
      BY <1>1, <1>2, <2>2 DEF Connections
    <3>2. Connections = Len(pool) + InUse + Len(hand) /\ fails \in Nat /\ fails > 0
      BY <1>4 DEF Connections, Inv, TypeOK
    <3> QED BY <2>1, <3>1, <3>2, Counted DEF Inv
  <2>6. Connections' \in Nat /\ Connections \in Nat /\ fails \in Nat
    BY <1>1, <1>2, <2>2, Counted DEF Connections, Inv, TypeOK
  <2>7. NeverTooMany' /\ NoneLost'
    <3>1. \A m, n, f, k \in Nat : m + 0 <= n + f /\ n + f <= k => m + 0 <= k
      OBVIOUS
    <3>2. NeverTooMany'
      BY <2>1, <2>5, <2>6, <3>1 DEF Inv, NeverTooMany
    <3>3. NoneLost'
      BY <1>1, <2>3 DEF NoneLost, database
    <3> QED BY <3>2, <3>3
  <2> QED BY <1>3, <2>4, <2>7 DEF Inv
<1>5. CASE ~(fails > 0 /\ up)
  <2>1. UNCHANGED <<pool, fails>>
    BY <1>5 DEF ReConnect
  <2>2. TypeOK' /\ Healthy'
    BY <1>1, <2>1 DEF Inv, TypeOK, Healthy, AllGood, database
  <2>3. NeverTooMany' /\ NoneLost'
    BY <1>1, <1>2, <2>1 DEF Inv, NeverTooMany, NoneLost, Connections, database
  <2> QED BY <1>3, <2>2, <2>3 DEF Inv
<1> QED BY <1>4, <1>5

\* Connections are closed, some or all of them, and stay where they are.
LEMMA ClosedInv ==
    ASSUME Inv, outages < MaxOutages, outages' = outages + 1, up' \in BOOLEAN,
           pool' \in Seq(Health), Len(pool') = Len(pool),
           hand' \in Seq(Health), Len(hand') = Len(hand),
           held' \in [Client -> Seq(Health)],
           \A c \in Client : Len(held'[c]) = Len(held[c]),
           UNCHANGED <<cpc, fails, checking, kpc, left>>
    PROVE  Inv'
<1> USE PoolAssumption
<1>1. /\ pool \in Seq(Health) /\ hand \in Seq(Health)
      /\ \A c \in Client : held[c] \in Seq(Health)
  BY Single, Counted DEF Inv, TypeOK
<1>2. Len(hand) <= 1
  <2>1. hand = <<>> \/ \E h \in Health : hand = <<h>>
    BY DEF Inv, TypeOK
  <2>2. Len(hand) = 0 \/ Len(hand) = 1
    BY <2>1, Single
  <2>3. 0 <= 1 /\ 1 <= 1
    OBVIOUS
  <2> QED BY <2>2, <2>3, Zenon
<1>3. outages \in 0..MaxOutages /\ outages' \in 0..MaxOutages /\ outages' # 0
  BY DEF Inv, TypeOK
<1>4. hand' \in {<<>>} \cup {<<h>> : h \in Health}
  BY <1>2, OneHand
<1>5. TypeOK'
  <2>1. \A c \in Client : Len(held'[c]) <= MaxNest
    BY DEF Inv, TypeOK
  <2> QED BY <1>3, <1>4, <2>1 DEF Inv, TypeOK
<1>6. Testing'
  BY <1>1, Lengths DEF Inv, Testing
<1>7. Asking' /\ Healthy'
  BY <1>3 DEF Inv, Asking, Healthy
<1>8. InUse' = InUse
  <2>1. Slots(held') = Slots(held)
    BY DEF Slots
  <2> QED BY <2>1, InUseIs
<1>9. NeverTooMany' /\ NoneLost'
  BY <1>3, <1>8 DEF Inv, NeverTooMany, NoneLost, Connections
<1> QED BY <1>5, <1>6, <1>7, <1>9 DEF Inv

LEMMA OutageInv == Inv /\ Outage => Inv'
<1> SUFFICES ASSUME Inv, Outage PROVE Inv'
  OBVIOUS
<1>1. /\ outages < MaxOutages /\ outages' = outages + 1 /\ up' = FALSE
      /\ pool' = Killed(pool) /\ hand' = Killed(hand)
      /\ held' = [c \in Client |-> Killed(held[c])]
      /\ UNCHANGED <<cpc, fails, checking, kpc, left>>
  BY DEF Outage
<1>2. /\ pool \in Seq(Health) /\ hand \in Seq(Health)
      /\ \A c \in Client : held[c] \in Seq(Health)
  BY Single, Counted DEF Inv, TypeOK
<1>3. /\ pool' \in Seq(Health) /\ Len(pool') = Len(pool)
      /\ hand' \in Seq(Health) /\ Len(hand') = Len(hand)
  BY <1>1, <1>2, Killing
<1>4. \A c \in Client : held'[c] \in Seq(Health) /\ Len(held'[c]) = Len(held[c])
  BY <1>1, <1>2, Killing
<1>5. held' \in [Client -> Seq(Health)]
  BY <1>1, <1>4
<1> QED BY <1>1, <1>3, <1>4, <1>5, ClosedInv

LEMMA KillingOne ==
    ASSUME NEW s \in Seq(Health), NEW i \in DOMAIN s
    PROVE  LET t == [s EXCEPT ![i] = "dead"] IN t \in Seq(Health) /\ Len(t) = Len(s)
<1>1. Len(s) \in Nat /\ DOMAIN s = 1..Len(s) /\ s \in [1..Len(s) -> Health]
  BY LenProperties, ElementOfSeq
<1>2. [s EXCEPT ![i] = "dead"] \in [1..Len(s) -> Health]
  BY <1>1 DEF Health
<1> QED BY <1>1, <1>2, Listed

LEMMA CloseOneInv == Inv /\ CloseOne => Inv'
<1> SUFFICES ASSUME Inv, CloseOne PROVE Inv'
  OBVIOUS
<1>1. /\ outages < MaxOutages /\ outages' = outages + 1 /\ up' \in BOOLEAN
      /\ UNCHANGED <<cpc, fails, checking, kpc, left>>
  BY DEF CloseOne, Inv, TypeOK
<1>2. /\ pool \in Seq(Health) /\ hand \in Seq(Health)
      /\ held \in [Client -> Seq(Health)]
  BY Single, Counted DEF Inv, TypeOK
<1>3. CASE (\E i \in DOMAIN pool : pool' = [pool EXCEPT ![i] = "dead"])
           /\ UNCHANGED <<held, hand>>
  <2>1. pool' \in Seq(Health) /\ Len(pool') = Len(pool)
    BY <1>2, <1>3, KillingOne
  <2> QED BY <1>1, <1>2, <1>3, <2>1, ClosedInv
<1>4. CASE (\E c \in Client : \E i \in DOMAIN held[c] : held' = [held EXCEPT ![c][i] = "dead"])
           /\ UNCHANGED <<pool, hand>>
  <2>1. PICK c \in Client : \E i \in DOMAIN held[c] :
            held' = [held EXCEPT ![c] = [held[c] EXCEPT ![i] = "dead"]]
    BY <1>4
  <2>2. PICK i \in DOMAIN held[c] :
            held' = [held EXCEPT ![c] = [held[c] EXCEPT ![i] = "dead"]]
    BY <2>1
  <2> DEFINE t == [held[c] EXCEPT ![i] = "dead"]
  <2>3. t \in Seq(Health) /\ Len(t) = Len(held[c])
    BY <1>2, KillingOne
  <2>4. held' = [held EXCEPT ![c] = t]
    BY <2>2
  <2> HIDE DEF t
  <2>5. held' \in [Client -> Seq(Health)]
    BY <1>2, <2>3, <2>4
  <2>6. \A d \in Client : Len(held'[d]) = Len(held[d])
    BY <1>2, <2>3, <2>4
  <2> QED BY <1>1, <1>2, <1>4, <2>5, <2>6, ClosedInv
<1>5. CASE hand # <<>> /\ hand' = <<"dead">> /\ UNCHANGED <<pool, held>>
  <2>1. Len(hand) = 1
    BY <1>5, Single DEF Inv, TypeOK
  <2>2. hand' \in Seq(Health) /\ Len(hand') = Len(hand)
    BY <1>5, <2>1, Single DEF Health
  <2> QED BY <1>1, <1>2, <1>5, <2>2, ClosedInv
<1> QED BY <1>3, <1>4, <1>5 DEF CloseOne

\* Steps that move no connection.
LEMMA OtherInv ==
    ASSUME Inv, \/ CheckStart \/ Restart \/ UNCHANGED vars
    PROVE  Inv'
<1>1. /\ UNCHANGED <<pool, held, cpc, fails, checking, hand, outages>>
      /\ left' \in Nat /\ up' \in BOOLEAN /\ (up => up')
      /\ kpc' = kpc \/ (kpc = "idle" /\ kpc' = "loop")
      /\ kpc' = "test" => left' = left
  BY Counted DEF CheckStart, Restart, vars, checker, database, Inv, TypeOK
<1>2. TypeOK' /\ Testing' /\ Asking'
  BY <1>1 DEF Inv, TypeOK, Testing, Asking
<1>3. Healthy'
  BY <1>1 DEF Inv, Healthy, AllGood
<1>4. InUse' = InUse
  BY <1>1, InUseIs DEF Slots
<1>5. NeverTooMany' /\ NoneLost'
  BY <1>1, <1>4 DEF Inv, NeverTooMany, NoneLost, Connections
<1> QED BY <1>2, <1>3, <1>5 DEF Inv

LEMMA StepInv == Inv /\ [Next]_vars => Inv'
<1> SUFFICES ASSUME Inv, [Next]_vars PROVE Inv'
  OBVIOUS
<1>1. ASSUME NEW c \in Client, Want(c) \/ WakeSpuriously(c) PROVE Inv'
  <2>1. /\ cpc' \in [Client -> {"run", "want", "waiting"}]
        /\ UNCHANGED <<pool, held, checker, database>>
    BY <1>1 DEF Want, WakeSpuriously, Inv, TypeOK
  <2>2. \A d \in Client : cpc'[d] # "run" => Len(held[d]) < MaxNest
    BY <1>1 DEF Want, WakeSpuriously, Inv, TypeOK, Asking
  <2> QED BY <2>1, <2>2, OnlyAsked
<1>2. ASSUME NEW c \in Client, GetConnection(c) PROVE Inv'
  BY <1>2, GetInv
<1>3. ASSUME NEW c \in Client, ReturnConnection(c) PROVE Inv'
  BY <1>3, ReturnInv
<1>4. CASE CheckStep
  BY <1>4, OtherInv, CheckTakeInv, CheckTestInv, ReConnectInv DEF CheckStep
<1>5. CASE Outage \/ CloseOne \/ Restart \/ UNCHANGED vars
  BY <1>5, OtherInv, OutageInv, CloseOneInv
<1> QED BY <1>1, <1>2, <1>3, <1>4, <1>5 DEF Next

\* Threads that are awake and on their way to the pool.
LEMMA Awake == IsFiniteSet(Wanting) /\ Cardinality(Wanting) \in Nat
<1>1. Wanting \subseteq Client
  BY DEF Wanting
<1> QED BY <1>1, PoolAssumption, FS_Subset, FS_CardinalityType

LEMMA AwakeNext == IsFiniteSet(Wanting') /\ Cardinality(Wanting') \in Nat
<1>1. Wanting' \subseteq Client
  BY DEF Wanting
<1> QED BY <1>1, PoolAssumption, FS_Subset, FS_CardinalityType

\* One more thread awake.
LEMMA OneAwake ==
    ASSUME TypeOK, NEW c \in Client, cpc[c] # "want", cpc' = [cpc EXCEPT ![c] = "want"]
    PROVE  /\ Cardinality(Wanting') = Cardinality(Wanting) + 1
           /\ Waiting' # {} => Waiting # {}
<1>1. Wanting' = Wanting \cup {c} /\ c \notin Wanting
  BY DEF Wanting, TypeOK
<1>2. Waiting' \subseteq Waiting
  BY DEF Waiting, TypeOK
<1> QED BY <1>1, <1>2, Awake, FS_AddElement

\* A connection that is put back is announced.
LEMMA Announced ==
    ASSUME TypeOK, NoLostWakeup, NotifyOne, Len(pool') = Len(pool) + 1, UNCHANGED outages
    PROVE  NoLostWakeup'
<1>1. CASE Waiting = {}
  <2>1. Waiting' = {}
    BY <1>1 DEF NotifyOne, Waiting
  <2> QED BY <2>1 DEF NoLostWakeup
<1>2. CASE Waiting # {}
  <2>1. PICK c \in Waiting : cpc' = [cpc EXCEPT ![c] = "want"]
    BY <1>2 DEF NotifyOne
  <2>2. c \in Client /\ cpc[c] # "want"
    BY DEF Waiting
  <2>3. Cardinality(Wanting') = Cardinality(Wanting) + 1
    BY <2>1, <2>2, OneAwake
  <2>4. Len(pool) \in Nat
    BY Counted
  <2> QED BY <1>2, <2>3, <2>4, Awake DEF NoLostWakeup
<1> QED BY <1>1, <1>2

LEMMA Quiet ==
    ASSUME TypeOK, NoLostWakeup, UNCHANGED <<cpc, outages>>,
           Len(pool') = Len(pool) \/ Len(pool') = Len(pool) - 1
    PROVE  NoLostWakeup'
<1>1. Wanting' = Wanting /\ Waiting' = Waiting
  BY DEF Wanting, Waiting
<1>2. Len(pool) \in Nat
  BY Counted
<1> QED BY <1>1, <1>2, Awake DEF NoLostWakeup

LEMMA GetWakeup ==
    ASSUME Inv, NoLostWakeup, NEW c \in Client, GetConnection(c)
    PROVE  NoLostWakeup'
<1>0. TypeOK /\ cpc[c] = "want" /\ UNCHANGED outages
  BY DEF Inv, GetConnection, database
<1>1. CASE pool = <<>>
  <2>1. Len(pool') = 0
    BY <1>1, EmptySeq DEF GetConnection
  <2> QED BY <2>1, AwakeNext DEF NoLostWakeup
<1>2. CASE pool # <<>>
  <2>1. pool' = Tail(pool) /\ cpc' = [cpc EXCEPT ![c] = "run"]
    BY <1>2 DEF GetConnection
  <2>2. Len(pool') = Len(pool) - 1 /\ Len(pool) \in Nat
    BY <1>0, <1>2, <2>1, Popping, Counted DEF TypeOK
  <2>3. Wanting' = Wanting \ {c} /\ c \in Wanting /\ Waiting' = Waiting
    BY <1>0, <2>1 DEF Wanting, Waiting, TypeOK
  <2>4. Cardinality(Wanting') = Cardinality(Wanting) - 1
    BY <2>3, Awake, FS_RemoveElement
  <2> QED BY <1>0, <2>2, <2>3, <2>4, Awake DEF NoLostWakeup
<1> QED BY <1>1, <1>2

LEMMA WakeupStep == Inv /\ NoLostWakeup /\ [Next]_vars => NoLostWakeup'
<1> SUFFICES ASSUME Inv, NoLostWakeup, [Next]_vars PROVE NoLostWakeup'
  OBVIOUS
<1>0. TypeOK /\ pool \in Seq(Health)
  BY DEF Inv, TypeOK
<1>1. ASSUME NEW c \in Client, Want(c) \/ WakeSpuriously(c) PROVE NoLostWakeup'
  <2>1. cpc[c] # "want" /\ cpc' = [cpc EXCEPT ![c] = "want"] /\ UNCHANGED <<pool, outages>>
    BY <1>1 DEF Want, WakeSpuriously, database
  <2>2. Cardinality(Wanting') = Cardinality(Wanting) + 1 /\ (Waiting' # {} => Waiting # {})
    BY <1>0, <2>1, OneAwake
  <2>3. Len(pool) \in Nat
    BY <1>0, Counted
  <2> QED BY <2>1, <2>2, <2>3, Awake DEF NoLostWakeup
<1>2. ASSUME NEW c \in Client, GetConnection(c) PROVE NoLostWakeup'
  BY <1>2, GetWakeup
<1>3. ASSUME NEW c \in Client, ReturnConnection(c) PROVE NoLostWakeup'
  <2>1. /\ held[c] \in Seq(Health) /\ held[c] # <<>> /\ pool' = Append(pool, Last(held[c]))
        /\ NotifyOne /\ UNCHANGED outages
    BY <1>0, <1>3 DEF ReturnConnection, TypeOK, database
  <2>2. Len(pool') = Len(pool) + 1
    BY <1>0, <2>1, PuttingBack, Pushing
  <2> QED BY <1>0, <2>1, <2>2, Announced
<1>4. CASE CheckTake
  <2>1. UNCHANGED <<cpc, outages>> /\ (pool' = pool \/ (pool # <<>> /\ pool' = Tail(pool)))
    BY <1>4 DEF CheckTake, database
  <2>2. Len(pool') = Len(pool) \/ Len(pool') = Len(pool) - 1
    BY <1>0, <2>1, Popping
  <2> QED BY <1>0, <2>1, <2>2, Quiet
<1>5. CASE CheckTest
  <2>0. kpc = "test" /\ UNCHANGED outages
    BY <1>5 DEF CheckTest, database
  <2>1. CASE pool' = Append(pool, hand[1]) /\ NotifyOne
    <3>1. hand[1] \in Health
      BY <1>0, <2>0, OneTested DEF Inv
    <3>2. Len(pool') = Len(pool) + 1
      BY <1>0, <2>1, <3>1, Pushing
    <3> QED BY <1>0, <2>0, <2>1, <3>2, Announced
  <2>2. CASE UNCHANGED <<pool, cpc>>
    BY <1>0, <2>0, <2>2, Quiet
  <2> QED BY <1>5, <2>1, <2>2 DEF CheckTest
<1>6. CASE ReConnect
  <2>1. UNCHANGED <<cpc, outages>>
    BY <1>6 DEF ReConnect, database
  <2>2. CASE outages = 0
    <3>1. ~(fails > 0)
      BY <2>2 DEF Inv, Healthy
    <3>2. UNCHANGED pool
      BY <1>6, <3>1 DEF ReConnect
    <3> QED BY <1>0, <2>1, <3>2, Quiet
  <2>3. CASE outages # 0
    BY <2>1, <2>3 DEF NoLostWakeup
  <2> QED BY <2>2, <2>3
<1>7. CASE CheckStart \/ Restart \/ UNCHANGED vars
  <2>1. UNCHANGED <<cpc, pool, outages>>
    BY <1>7 DEF CheckStart, Restart, vars, database
  <2> QED BY <1>0, <2>1, Quiet
<1>8. CASE Outage \/ CloseOne
  <2>1. outages' # 0
    BY <1>8, PoolAssumption DEF Outage, CloseOne, Inv, TypeOK
  <2> QED BY <2>1 DEF NoLostWakeup
<1> QED BY <1>1, <1>2, <1>3, <1>4, <1>5, <1>6, <1>7, <1>8 DEF Next, CheckStep

LEMMA Invariance == Spec => []Inv
BY InitInv, StepInv, PTL DEF Spec
-----------------------------------------------------------------------------
\* The pool keeps its types: no thread takes more than MaxNest connections and
\* the check thread has one at most, which CheckConnection gives back or drops.
THEOREM TypeCorrect == Spec => []TypeOK
<1>1. Inv => TypeOK
  BY DEF Inv
<1> QED BY <1>1, Invariance, PTL

\* CheckConnection and ReConnect never make more connections than were lost:
\* those there are and those in _fail_count are no more than PoolSize.
THEOREM Bounded == Spec => []NeverTooMany
<1>1. Inv => NeverTooMany
  BY DEF Inv
<1> QED BY <1>1, Invariance, PTL

\* As long as no connection is closed GetConnection, ReturnConnection and the
\* check thread lose no connection, however they interleave and nest.
THEOREM NothingLost == Spec => []NoneLost
<1>1. Inv => NoneLost
  BY DEF Inv
<1> QED BY <1>1, Invariance, PTL

\* GetConnection, ReturnConnection and CheckConnection lose no notification:
\* until a connection is closed a thread sleeps beside connections in the pool only while
\* as many threads are awake and on their way to them.
THEOREM NobodyOversleeps == Spec => []NoLostWakeup
<1>1. Init => NoLostWakeup
  BY DEF Init, NoLostWakeup, Waiting
<1> QED BY <1>1, Invariance, WakeupStep, PTL DEF Spec
=============================================================================
