----------------------------- MODULE MySqlPool -----------------------------
(***************************************************************************)
(* The pool of MySQL connections of a SessionServer: threads take and      *)
(* return connections, some while they hold another one; a check thread    *)
(* takes every pooled connection once a minute, drops those the database   *)
(* has closed and reconnects.  Outages of the database close connections.  *)
(*                                                                         *)
(* The mutex is held from the test of a wait to the sleep and over a push  *)
(* and its notification, so each of these is one step.                     *)
(***************************************************************************)
EXTENDS Naturals, Sequences, FiniteSets

CONSTANTS Client,       \* threads that use the pool
          PoolSize,
          MaxNest,      \* connections a thread takes at once
          MaxOutages    \* bound on outages and on connections closed alone

ASSUME PoolAssumption ==
    /\ IsFiniteSet(Client)
    /\ PoolSize \in Nat \ {0} /\ MaxNest \in Nat \ {0} /\ MaxOutages \in Nat

Health == {"good", "dead"}

VARIABLES
    pool,       \* _pool: the health of the connections in it
    held,       \* per client: the connections it has, the last one taken last
    cpc,        \* per client: run, want (in GetConnection), waiting
    fails,      \* _fail_count
    checking,   \* the check thread was started
    kpc, left, hand,    \* the check thread: step, connections to go, the one it has
    up, outages         \* the database, and how often it closed connections

vars == <<pool, held, cpc, fails, checking, kpc, left, hand, up, outages>>
checker == <<fails, checking, kpc, left, hand>>
database == <<up, outages>>

\* The constructor stops at the first connection that fails, and then starts
\* no check thread.
Init ==
    /\ \E n \in 0..PoolSize :
          /\ pool = [i \in 1..n |-> "good"]
          /\ checking = (n = PoolSize)
    /\ held = [c \in Client |-> <<>>]
    /\ cpc = [c \in Client |-> "run"]
    /\ fails = 0
    /\ kpc = "idle"
    /\ left = 0
    /\ hand = <<>>
    /\ up = TRUE
    /\ outages = 0

Waiting == {c \in Client : cpc[c] = "waiting"}

\* Mutant: nobody is woken.
NotifyNobody == UNCHANGED cpc

\* notify_one wakes some thread that waits, if there is one.
NotifyOne ==
    IF Waiting = {}
      THEN UNCHANGED cpc
      ELSE \E c \in Waiting : cpc' = [cpc EXCEPT ![c] = "want"]
-----------------------------------------------------------------------------
(* GetConnection and ReturnConnection *)

\* A database function asks for a connection, perhaps within another one.
Want(c) ==
    /\ cpc[c] = "run"
    /\ Len(held[c]) < MaxNest
    /\ cpc' = [cpc EXCEPT ![c] = "want"]
    /\ UNCHANGED <<pool, held, checker, database>>

GetConnection(c) ==
    /\ cpc[c] = "want"
    /\ \/ /\ pool # <<>>
          /\ held' = [held EXCEPT ![c] = Append(@, Head(pool))]
          /\ pool' = Tail(pool)
          /\ cpc' = [cpc EXCEPT ![c] = "run"]
       \/ /\ pool = <<>>
          /\ cpc' = [cpc EXCEPT ![c] = "waiting"]
          /\ UNCHANGED <<pool, held>>
    /\ UNCHANGED <<checker, database>>

WakeSpuriously(c) ==
    /\ cpc[c] = "waiting"
    /\ cpc' = [cpc EXCEPT ![c] = "want"]
    /\ UNCHANGED <<pool, held, checker, database>>

Last(s) == s[Len(s)]
ButLast(s) == SubSeq(s, 1, Len(s) - 1)

\* Mutant: of nested connections only the last one is put back.
ReturnLastOnly(c) ==
    /\ cpc[c] = "run"
    /\ held[c] # <<>>
    /\ pool' = Append(pool, Last(held[c]))
    /\ held' = [held EXCEPT ![c] = <<>>]
    /\ NotifyOne
    /\ UNCHANGED <<checker, database>>

\* The Defer of the function, whether or not its queries failed.
ReturnConnection(c) ==
    /\ cpc[c] = "run"
    /\ held[c] # <<>>
    /\ pool' = Append(pool, Last(held[c]))
    /\ held' = [held EXCEPT ![c] = ButLast(@)]
    /\ NotifyOne
    /\ UNCHANGED <<checker, database>>
-----------------------------------------------------------------------------
(* CheckConnection and ReConnect *)

CheckStart ==
    /\ checking
    /\ kpc = "idle"
    /\ kpc' = "loop"
    /\ left' = Len(pool)
    /\ UNCHANGED <<pool, held, cpc, fails, checking, hand, database>>

CheckTake ==
    /\ kpc = "loop"
    /\ IF left > 0 /\ pool # <<>>
         THEN /\ hand' = <<Head(pool)>>
              /\ pool' = Tail(pool)
              /\ kpc' = "test"
         ELSE /\ kpc' = "reconnect"
              /\ UNCHANGED <<hand, pool>>
    /\ UNCHANGED <<held, cpc, fails, checking, left, database>>

\* Mutant: a checked connection is put back unannounced.
CheckTestSilently ==
    /\ kpc = "test"
    /\ IF hand = <<"good">>
         THEN pool' = Append(pool, "good") /\ UNCHANGED fails
         ELSE fails' = fails + 1 /\ UNCHANGED pool
    /\ hand' = <<>>
    /\ left' = left - 1
    /\ kpc' = "loop"
    /\ UNCHANGED <<held, cpc, checking, database>>

\* A query tells; a closed connection is dropped and counted.  One that was
\* tested less than 5 s ago is put back untested: the check meets it again when
\* threads have taken others, or the clock was set back.
CheckTest ==
    /\ kpc = "test"
    /\ \/ /\ pool' = Append(pool, hand[1])
          /\ NotifyOne
          /\ UNCHANGED fails
       \/ /\ hand = <<"dead">>
          /\ fails' = fails + 1
          /\ UNCHANGED <<pool, cpc>>
    /\ hand' = <<>>
    /\ left' = left - 1
    /\ kpc' = "loop"
    /\ UNCHANGED <<held, checking, database>>

\* Mutant: the failures stay counted.
ReConnectKeepsCount ==
    /\ kpc = "reconnect"
    /\ kpc' = "idle"
    /\ IF fails > 0 /\ up
         THEN pool' = Append(pool, "good")
         ELSE UNCHANGED pool
    /\ UNCHANGED <<held, cpc, fails, checking, left, hand, database>>

\* One connection is made for all that were lost, and nobody is told; when the
\* database is still down the failures stay counted.
ReConnect ==
    /\ kpc = "reconnect"
    /\ kpc' = "idle"
    /\ IF fails > 0 /\ up
         THEN pool' = Append(pool, "good") /\ fails' = 0
         ELSE UNCHANGED <<pool, fails>>
    /\ UNCHANGED <<held, cpc, checking, left, hand, database>>
-----------------------------------------------------------------------------
(* The database *)

Killed(s) == [i \in DOMAIN s |-> "dead"]

Outage ==
    /\ up
    /\ outages < MaxOutages
    /\ outages' = outages + 1
    /\ up' = FALSE
    /\ pool' = Killed(pool)
    /\ held' = [c \in Client |-> Killed(held[c])]
    /\ hand' = Killed(hand)
    /\ UNCHANGED <<cpc, fails, checking, kpc, left>>

\* The database closes one connection, or the network does.
CloseOne ==
    /\ up
    /\ outages < MaxOutages
    /\ outages' = outages + 1
    /\ \/ /\ \E i \in DOMAIN pool : pool' = [pool EXCEPT ![i] = "dead"]
          /\ UNCHANGED <<held, hand>>
       \/ /\ \E c \in Client : \E i \in DOMAIN held[c] :
                held' = [held EXCEPT ![c][i] = "dead"]
          /\ UNCHANGED <<pool, hand>>
       \/ /\ hand # <<>>
          /\ hand' = <<"dead">>
          /\ UNCHANGED <<pool, held>>
    /\ UNCHANGED <<cpc, fails, checking, kpc, left, up>>

Restart ==
    /\ ~up
    /\ up' = TRUE
    /\ UNCHANGED <<pool, held, cpc, checker, outages>>
-----------------------------------------------------------------------------
CheckStep == CheckStart \/ CheckTake \/ CheckTest \/ ReConnect

Next ==
    \/ \E c \in Client : \/ Want(c) \/ GetConnection(c) \/ ReturnConnection(c)
                         \/ WakeSpuriously(c)
    \/ CheckStep
    \/ Outage \/ CloseOne \/ Restart

Spec == Init /\ [][Next]_vars

\* Threads go on to take and to return what they have, the check thread comes
\* round, and the database comes back.  A check comes a minute after the last:
\* a thread that is awake takes a connection that is there again and again.
FairSpec ==
    /\ Spec
    /\ \A c \in Client : /\ WF_vars(GetConnection(c)) /\ WF_vars(ReturnConnection(c))
                         /\ SF_vars(pool # <<>> /\ GetConnection(c))
    /\ WF_vars(CheckStep)
    /\ WF_vars(Restart)
-----------------------------------------------------------------------------
TypeOK ==
    /\ pool \in Seq(Health)
    /\ held \in [Client -> Seq(Health)]
    /\ \A c \in Client : Len(held[c]) <= MaxNest
    /\ cpc \in [Client -> {"run", "want", "waiting"}]
    /\ fails \in Nat
    /\ checking \in BOOLEAN
    /\ kpc \in {"idle", "loop", "test", "reconnect"}
    /\ left \in Nat
    /\ hand \in {<<>>} \cup {<<h>> : h \in Health}
    /\ up \in BOOLEAN
    /\ outages \in 0..MaxOutages

\* The connections there are, in the pool, with threads and in a check.
InUse == Cardinality({ci \in Client \X (1..MaxNest) : ci[2] <= Len(held[ci[1]])})
Connections == Len(pool) + InUse + Len(hand)

\* However outages, checks and threads interleave, the pool never makes more
\* connections than it lost: those that exist and those known to be lost are
\* no more than it was built with.
NeverTooMany == Connections + fails <= PoolSize

\* As long as the database closes no connection none is lost: threads and the
\* check return what they take.
NoneLost == checking /\ outages = 0 => Connections = PoolSize

Wanting == {c \in Client : cpc[c] = "want"}

\* No notification is lost: while a thread sleeps there is a thread awake for
\* each connection that lies in the pool, on its way to take one.  (ReConnect,
\* which comes after a connection was closed, wakes nobody.)
NoLostWakeup == outages = 0 /\ Waiting # {} => Len(pool) <= Cardinality(Wanting)

\* Nobody will ever put a connection into the pool again: each one there is
\* belongs to a thread that wants another.
NestDeadlock ==
    /\ pool = <<>> /\ hand = <<>> /\ fails = 0
    /\ \A c \in Client : held[c] # <<>> => cpc[c] # "run"

\* A thread that waits is served in the end unless nested use has locked all
\* threads out; also when the connection it waits for was made by ReConnect,
\* which wakes nobody: the next check does.
Served == \A c \in Client :
    checking /\ cpc[c] = "waiting" ~> cpc[c] = "run" \/ NestDeadlock
=============================================================================
