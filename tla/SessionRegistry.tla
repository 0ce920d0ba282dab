-------------------------- MODULE SessionRegistry --------------------------
(***************************************************************************)
(* Login, kick and cleanup of sessions over several SessionServers.        *)
(*                                                                         *)
(* Each server has one LogicSystem worker that handles queued messages,    *)
(* an I/O thread that runs the handlers of a connection one at a time, a   *)
(* timer that expires silent sessions and gRPC threads that execute kicks. *)
(* They share Server::_sessions and UserManager::_sessions; the servers    *)
(* share Redis: utoken_<uid>, uip_<uid>, usession_<uid> and the lock       *)
(* lock_<uid> of DistLock.  One Redis command is one step.                 *)
(*                                                                         *)
(* A connection carries one login attempt of one user, with the handshake  *)
(* token StatusServer issued for it.  Redis and a server's own sockets do  *)
(* not fail; leases, peers and processes may, MaxFaults times.             *)
(***************************************************************************)
EXTENDS Naturals, Sequences, FiniteSets

CONSTANTS Server, User, Conn,
          UserOf,           \* the user a connection logs in
          None,             \* absent key, absent session
          Orphan,           \* a lock whose owner died with its server
          FaultKinds,       \* what may go wrong: lock (an acquire times out, a lease
                            \* ends too early), rpc (a kick fails or comes late),
                            \* crash (a server dies and restarts)
          MaxFaults         \* bound of the model: how often something goes wrong

ASSUME RegistryAssumption ==
    /\ UserOf \in [Conn -> User]
    /\ None \notin Server \cup User \cup Conn
    /\ FaultKinds \subseteq {"lock", "rpc", "crash"}
    /\ MaxFaults \in Nat

Handshake(c) == <<"handshake", c>>
SessionToken(c) == <<"session", c>>
Token == {"handshake", "session"} \X Conn

ASSUME TokenAssumption == None \notin Token

Deals == {"io", "timer"} \X Conn        \* runs of DealExceptionSession
Worker(s) == <<"worker", s>>
Owner == Deals \cup ({"worker"} \X Server)

ASSUME OwnerAssumption == {None, Orphan} \cap Owner = {} /\ None # Orphan

VARIABLES
    utoken, uip, usession, lock,        \* Redis, per user
    sock,       \* per connection: its socket as its server knows it
    home,       \* the server a connection was accepted by
    inserted,   \* HandleAccept has put it into _sessions
    bound,      \* Session::_user_uid is set
    reply,      \* its login: none, pushing, queued, or answered with ok or refused
    reading,    \* an asynchronous read is pending
    writing,    \* ok, err (a write has failed, not yet handled), dead
    sessions,   \* Server::_sessions
    users,      \* UserManager::_sessions
    queue,      \* LogicSystem::_msg_que, the front is being handled
    wpc, held, target,  \* the worker: its step, has it the lock, whom it kicks
    dpc, dheld,         \* each DealExceptionSession: its step, has it the lock
    late,       \* kicks whose caller has given up, still on their way
    breached,   \* a lock fault has happened
    rpcFailed,  \* a kick has failed
    crashed,    \* a server has died
    faultsLeft  \* faults still to come, at most

redis == <<utoken, uip, usession, lock>>
conns == <<sock, home, inserted, bound, reply, reading, writing>>
maps == <<sessions, users>>
workers == <<queue, wpc, held, target>>
deals == <<dpc, dheld>>
faults == <<late, breached, rpcFailed, crashed, faultsLeft>>
vars == <<redis, conns, maps, workers, deals, faults>>

Init ==
    /\ utoken = [u \in User |-> None]
    /\ uip = [u \in User |-> None]
    /\ usession = [u \in User |-> None]
    /\ lock = [u \in User |-> None]
    /\ sock = [c \in Conn |-> "new"]
    /\ home = [c \in Conn |-> None]
    /\ inserted = [c \in Conn |-> FALSE]
    /\ bound = [c \in Conn |-> FALSE]
    /\ reply = [c \in Conn |-> "none"]
    /\ reading = [c \in Conn |-> FALSE]
    /\ writing = [c \in Conn |-> "ok"]
    /\ sessions = [s \in Server |-> {}]
    /\ users = [s \in Server |-> [u \in User |-> None]]
    /\ queue = [s \in Server |-> <<>>]
    /\ wpc = [s \in Server |-> "idle"]
    /\ held = [s \in Server |-> FALSE]
    /\ target = [s \in Server |-> None]
    /\ dpc = [d \in Deals |-> "idle"]
    /\ dheld = [d \in Deals |-> FALSE]
    /\ late = {}
    /\ breached = FALSE
    /\ rpcFailed = FALSE
    /\ crashed = FALSE
    /\ faultsLeft = MaxFaults

Fault(kind) ==
    /\ kind \in FaultKinds
    /\ faultsLeft > 0
    /\ faultsLeft' = faultsLeft - 1
-----------------------------------------------------------------------------
(* Connections and the reads of their I/O thread *)

\* StatusServer, GetChatServer: a fresh token replaces whatever utoken holds.
insertToken(c) ==
    /\ sock[c] = "new"
    /\ sock' = [sock EXCEPT ![c] = "issued"]
    /\ utoken' = [utoken EXCEPT ![UserOf[c]] = Handshake(c)]
    /\ UNCHANGED <<uip, usession, lock, home, inserted, bound, reply, reading, writing,
                   maps, workers, deals, faults>>

\* HandleAccept, first half: reading starts before the session is registered.
Start(c, s) ==
    /\ sock[c] = "issued"
    /\ sock' = [sock EXCEPT ![c] = "open"]
    /\ home' = [home EXCEPT ![c] = s]
    /\ reading' = [reading EXCEPT ![c] = TRUE]
    /\ UNCHANGED <<redis, inserted, bound, reply, writing, maps, workers, deals, faults>>

\* HandleAccept, second half.
Insert(c) ==
    /\ home[c] # None
    /\ ~inserted[c]
    /\ inserted' = [inserted EXCEPT ![c] = TRUE]
    /\ sessions' = [sessions EXCEPT ![home[c]] = @ \cup {c}]
    /\ UNCHANGED <<redis, sock, home, bound, reply, reading, writing, users,
                   workers, deals, faults>>

\* The login message arrives: it is pushed when CheckVaild finds the session,
\* otherwise the socket is closed and nothing else is done.
RecvLogin(c) ==
    /\ sock[c] = "open"
    /\ reading[c]
    /\ reply[c] = "none"
    /\ reading' = [reading EXCEPT ![c] = FALSE]
    /\ \/ /\ c \in sessions[home[c]]
          /\ reply' = [reply EXCEPT ![c] = "pushing"]
          /\ UNCHANGED sock
       \/ /\ c \notin sessions[home[c]]
          /\ sock' = [sock EXCEPT ![c] = "closed"]
          /\ UNCHANGED reply
    /\ UNCHANGED <<redis, home, inserted, bound, writing, maps, workers, deals, faults>>

\* PustMsg waits for the mutex of the queue, which the worker holds while it
\* handles a message; then the next read starts.
PushMsg(c) ==
    /\ reply[c] = "pushing"
    /\ wpc[home[c]] = "idle"
    /\ queue' = [queue EXCEPT ![home[c]] = Append(@, c)]
    /\ reply' = [reply EXCEPT ![c] = "queued"]
    /\ reading' = [reading EXCEPT ![c] = TRUE]
    /\ UNCHANGED <<redis, sock, home, inserted, bound, writing, maps, wpc, held, target,
                   deals, faults>>

\* A later message of a session that was removed in the meantime.
RecvRemoved(c) ==
    /\ sock[c] = "open"
    /\ reading[c]
    /\ reply[c] = "ok"
    /\ c \notin sessions[home[c]]
    /\ sock' = [sock EXCEPT ![c] = "closed"]
    /\ reading' = [reading EXCEPT ![c] = FALSE]
    /\ UNCHANGED <<redis, home, inserted, bound, reply, writing, maps, workers, deals, faults>>

\* The client goes away; the server has not noticed yet.
Disconnect(c) ==
    /\ sock[c] = "open"
    /\ sock' = [sock EXCEPT ![c] = "gone"]
    /\ UNCHANGED <<redis, home, inserted, bound, reply, reading, writing,
                   maps, workers, deals, faults>>

\* What Session::Send leaves in the write state: on a closed socket the write
\* fails, after a failed write the queue never empties and nothing is written.
AfterSend(c) ==
    CASE writing[c] # "ok" \/ sock[c] = "open" -> {writing[c]}
      [] sock[c] = "gone" -> {"ok", "err"}
      [] OTHER -> {"err"}
-----------------------------------------------------------------------------
(* DealExceptionSession: on the I/O thread after a failed read or write, on *)
(* the timer thread for an expired session.                                 *)

\* Server::ClearSession: UserManager is told only of a session still in
\* _sessions, and forgets the user only if the session is still that user's.
UsersWithout(c) ==
    LET s == home[c]
        u == UserOf[c]
    IN  IF c \in sessions[s] /\ bound[c] /\ users[s][u] = c
          THEN [users EXCEPT ![s][u] = None]
          ELSE users

ClearSession(c) ==
    /\ sessions' = [sessions EXCEPT ![home[c]] = @ \ {c}]
    /\ users' = UsersWithout(c)

\* _user_uid is read once.  A session that has not logged in uses lock_0 and
\* usession_0, which is never set: only ClearSession has an effect.
FirstStep(c) == IF bound[c] THEN "lock" ELSE "clear"

ReadError(c) ==
    /\ sock[c] \in {"gone", "closed"}
    /\ reading[c]
    /\ dpc[<<"io", c>>] = "idle"
    /\ sock' = [sock EXCEPT ![c] = "closed"]
    /\ reading' = [reading EXCEPT ![c] = FALSE]
    /\ dpc' = [dpc EXCEPT ![<<"io", c>>] = FirstStep(c)]
    /\ UNCHANGED <<redis, home, inserted, bound, reply, writing, maps, workers, dheld, faults>>

WriteError(c) ==
    /\ writing[c] = "err"
    /\ dpc[<<"io", c>>] = "idle"
    /\ sock' = [sock EXCEPT ![c] = "closed"]
    /\ writing' = [writing EXCEPT ![c] = "dead"]
    /\ dpc' = [dpc EXCEPT ![<<"io", c>>] = FirstStep(c)]
    /\ UNCHANGED <<redis, home, inserted, bound, reply, reading, maps, workers, dheld, faults>>

\* On_Timer closes and collects the expired sessions, then cleans them up one
\* after the other.
TimerFree(c) ==
    \A e \in Conn : home[e] = home[c] => dpc[<<"timer", e>>] \in {"idle", "collected"}

\* Mutant: the timer skips sessions nobody has logged in on.
TimerCloseLoggedIn(c) ==
    /\ home[c] # None
    /\ c \in sessions[home[c]]
    /\ bound[c]
    /\ dpc[<<"timer", c>>] = "idle"
    /\ TimerFree(c)
    /\ sock' = [sock EXCEPT ![c] = "closed"]
    /\ dpc' = [dpc EXCEPT ![<<"timer", c>>] = "collected"]
    /\ UNCHANGED <<redis, home, inserted, bound, reply, reading, writing,
                   maps, workers, dheld, faults>>

TimerClose(c) ==
    /\ home[c] # None
    /\ c \in sessions[home[c]]
    /\ dpc[<<"timer", c>>] = "idle"
    /\ TimerFree(c)
    /\ sock' = [sock EXCEPT ![c] = "closed"]
    /\ dpc' = [dpc EXCEPT ![<<"timer", c>>] = "collected"]
    /\ UNCHANGED <<redis, home, inserted, bound, reply, reading, writing,
                   maps, workers, dheld, faults>>

TimerDeal(c) ==
    /\ dpc[<<"timer", c>>] = "collected"
    /\ TimerFree(c)
    /\ dpc' = [dpc EXCEPT ![<<"timer", c>>] = FirstStep(c)]
    /\ UNCHANGED <<redis, conns, maps, workers, dheld, faults>>

\* Mutant: the cleanup goes ahead without the lock.
DealLockIgnored(d) ==
    /\ dpc[d] = "lock"
    /\ dpc' = [dpc EXCEPT ![d] = "get"]
    /\ UNCHANGED <<redis, conns, maps, workers, dheld, faults>>

DealLock(d) ==
    LET u == UserOf[d[2]]
    IN  /\ dpc[d] = "lock"
        /\ \/ /\ lock[u] = None
              /\ lock' = [lock EXCEPT ![u] = d]
              /\ dheld' = [dheld EXCEPT ![d] = TRUE]
              /\ dpc' = [dpc EXCEPT ![d] = "get"]
           \/ /\ lock[u] # None          \* the acquire timeout passes: give up
              /\ dpc' = [dpc EXCEPT ![d] = "clear"]
              /\ UNCHANGED <<lock, dheld>>
        /\ UNCHANGED <<utoken, uip, usession, conns, maps, workers, faults>>

\* Mutant: usession is not compared.
StillMineAny(d) == usession[UserOf[d[2]]] # None

\* Does usession still name this session?
StillMine(d) == usession[UserOf[d[2]]] = d[2]

DealGet(d) ==
    /\ dpc[d] = "get"
    /\ dpc' = [dpc EXCEPT ![d] = IF StillMine(d) THEN "delsession" ELSE "clear"]
    /\ UNCHANGED <<redis, conns, maps, workers, dheld, faults>>

DealDelSession(d) ==
    /\ dpc[d] = "delsession"
    /\ usession' = [usession EXCEPT ![UserOf[d[2]]] = None]
    /\ dpc' = [dpc EXCEPT ![d] = "delip"]
    /\ UNCHANGED <<utoken, uip, lock, conns, maps, workers, dheld, faults>>

\* Mutant: uip is left behind.
DealDelIpSkipped(d) ==
    /\ dpc[d] = "delip"
    /\ dpc' = [dpc EXCEPT ![d] = "deltoken"]
    /\ UNCHANGED <<redis, conns, maps, workers, dheld, faults>>

DealDelIp(d) ==
    /\ dpc[d] = "delip"
    /\ uip' = [uip EXCEPT ![UserOf[d[2]]] = None]
    /\ dpc' = [dpc EXCEPT ![d] = "deltoken"]
    /\ UNCHANGED <<utoken, usession, lock, conns, maps, workers, dheld, faults>>

DealDelToken(d) ==
    /\ dpc[d] = "deltoken"
    /\ utoken' = [utoken EXCEPT ![UserOf[d[2]]] = None]
    /\ dpc' = [dpc EXCEPT ![d] = "clear"]
    /\ UNCHANGED <<uip, usession, lock, conns, maps, workers, dheld, faults>>

\* Mutant: the early return for a foreign usession forgets the lock.
DealClearEarlyReturn(d) ==
    /\ dpc[d] = "clear"
    /\ ClearSession(d[2])
    /\ dpc' = [dpc EXCEPT ![d] = IF dheld[d] /\ usession[UserOf[d[2]]] = None
                                   THEN "release" ELSE "idle"]
    /\ UNCHANGED <<redis, conns, workers, dheld, faults>>

DealClear(d) ==
    /\ dpc[d] = "clear"
    /\ ClearSession(d[2])
    /\ dpc' = [dpc EXCEPT ![d] = IF dheld[d] THEN "release" ELSE "idle"]
    /\ UNCHANGED <<redis, conns, workers, dheld, faults>>

\* releaseLock: compare and delete.
Unlocked(u, o) == IF lock[u] = o THEN [lock EXCEPT ![u] = None] ELSE lock

DealRelease(d) ==
    /\ dpc[d] = "release"
    /\ lock' = Unlocked(UserOf[d[2]], d)
    /\ dheld' = [dheld EXCEPT ![d] = FALSE]
    /\ dpc' = [dpc EXCEPT ![d] = "idle"]
    /\ UNCHANGED <<utoken, uip, usession, conns, maps, workers, faults>>
-----------------------------------------------------------------------------
(* LoginHandler, on the worker of server s, for the front of its queue *)

Front(s) == Head(queue[s])
FrontUser(s) == UserOf[Front(s)]

At(s, step) == wpc[s] = step /\ queue[s] # <<>>
Goto(s, step) == wpc' = [wpc EXCEPT ![s] = step]

\* The answer goes out when the handler returns, then the message is popped.
Answer(s, code) ==
    LET c == Front(s)
    IN  /\ reply' = [reply EXCEPT ![c] = code]
        /\ \E w \in AfterSend(c) : writing' = [writing EXCEPT ![c] = w]
        /\ queue' = [queue EXCEPT ![s] = Tail(@)]
        /\ Goto(s, "idle")

\* Get utoken and compare it with the client's token.
LoginCheck(s) ==
    LET t == utoken[FrontUser(s)]
    IN  /\ At(s, "idle")
        /\ \/ /\ t # Handshake(Front(s))       \* UidInvalid or TokenInvalid
              /\ Answer(s, "refused")
           \/ /\ t = Handshake(Front(s))
              /\ Goto(s, "del")
              /\ UNCHANGED <<reply, writing, queue>>
        /\ UNCHANGED <<redis, sock, home, inserted, bound, reading, maps, held, target,
                       deals, faults>>

LoginDel(s) ==
    /\ At(s, "del")
    /\ utoken' = [utoken EXCEPT ![FrontUser(s)] = None]
    /\ Goto(s, "info")
    /\ UNCHANGED <<uip, usession, lock, conns, maps, queue, held, target, deals, faults>>

\* GetBaseInfo, then GetAllMusicInfo; the token is gone when they fail.
LoginInfo(s) ==
    /\ At(s, "info")
    /\ \/ Answer(s, "refused")              \* UidInvalid or EtherInvalid
       \/ Goto(s, "lock") /\ UNCHANGED <<reply, writing, queue>>
    /\ UNCHANGED <<redis, sock, home, inserted, bound, reading, maps, held, target,
                   deals, faults>>

\* acquireLock, whose result is not looked at: after a timeout the handler
\* goes on without the lock.
LoginLock(s) ==
    LET u == FrontUser(s)
    IN  /\ At(s, "lock")
        /\ \/ /\ lock[u] = None
              /\ lock' = [lock EXCEPT ![u] = Worker(s)]
              /\ held' = [held EXCEPT ![s] = TRUE]
              /\ UNCHANGED <<breached, faultsLeft>>
           \/ /\ lock[u] # None
              /\ Fault("lock")
              /\ breached' = TRUE
              /\ UNCHANGED <<lock, held>>
        /\ Goto(s, "getip")
        /\ UNCHANGED <<utoken, uip, usession, conns, maps, queue, target, deals, late,
                       rpcFailed, crashed>>

\* Mutant: the client is told, its session stays registered.
KickNotifyOnly(t, u) ==
    LET c == users[t][u]
    IN  /\ IF c = None
             THEN UNCHANGED writing
             ELSE \E w \in AfterSend(c) : writing' = [writing EXCEPT ![c] = w]
        /\ UNCHANGED maps

\* Send NotifyOffline to the session that server t has for u and clear it.
Kick(t, u) ==
    LET c == users[t][u]
    IN  IF c = None
          THEN UNCHANGED <<sessions, users, writing>>
          ELSE /\ \E w \in AfterSend(c) : writing' = [writing EXCEPT ![c] = w]
               /\ ClearSession(c)

\* Get uip.  A login on this server is kicked here; then, whatever the
\* address, NotifyKickUser is called.
LoginGetIp(s) ==
    LET u == FrontUser(s)
    IN  /\ At(s, "getip")
        /\ IF uip[u] = s THEN Kick(s, u) ELSE UNCHANGED <<sessions, users, writing>>
        /\ target' = [target EXCEPT ![s] = uip[u]]
        /\ Goto(s, IF uip[u] = None THEN "bind" ELSE "rpc")
        /\ UNCHANGED <<redis, sock, home, inserted, bound, reply, reading, queue, held,
                       deals, faults>>

\* NotifyKickUser: nothing for this server's own name, which is not in the
\* pool of peers; errors are ignored.
LoginRpc(s) ==
    LET u == FrontUser(s)
        t == target[s]
    IN  /\ At(s, "rpc")
        /\ \/ /\ t # s
              /\ Kick(t, u)
              /\ UNCHANGED <<late, rpcFailed, faultsLeft>>
           \/ /\ t = s
              /\ UNCHANGED <<sessions, users, writing, late, rpcFailed, faultsLeft>>
           \/ /\ t # s
              /\ Fault("rpc")
              /\ late' = late \cup {<<t, u>>}
              /\ rpcFailed' = TRUE
              /\ UNCHANGED <<sessions, users, writing>>
        /\ target' = [target EXCEPT ![s] = None]
        /\ Goto(s, "bind")
        /\ UNCHANGED <<redis, sock, home, inserted, bound, reply, reading, queue, held,
                       deals, breached, crashed>>

\* SetUserUid and SET uip.
LoginBind(s) ==
    /\ At(s, "bind")
    /\ bound' = [bound EXCEPT ![Front(s)] = TRUE]
    /\ uip' = [uip EXCEPT ![FrontUser(s)] = s]
    /\ Goto(s, "add")
    /\ UNCHANGED <<utoken, usession, lock, sock, home, inserted, reply, reading, writing,
                   maps, queue, held, target, deals, faults>>

LoginAdd(s) ==
    /\ At(s, "add")
    /\ users' = [users EXCEPT ![s][FrontUser(s)] = Front(s)]
    /\ Goto(s, "setsession")
    /\ UNCHANGED <<redis, conns, sessions, queue, held, target, deals, faults>>

\* Mutant: SET NX, which keeps the session of an earlier login.
LoginSetSessionNX(s) ==
    /\ At(s, "setsession")
    /\ usession' = [usession EXCEPT ![FrontUser(s)] = IF @ = None THEN Front(s) ELSE @]
    /\ Goto(s, "unlock")
    /\ UNCHANGED <<utoken, uip, lock, conns, maps, queue, held, target, deals, faults>>

LoginSetSession(s) ==
    /\ At(s, "setsession")
    /\ usession' = [usession EXCEPT ![FrontUser(s)] = Front(s)]
    /\ Goto(s, "unlock")
    /\ UNCHANGED <<utoken, uip, lock, conns, maps, queue, held, target, deals, faults>>

\* Mutant: the lock is not released.
LoginUnlockForgotten(s) ==
    /\ At(s, "unlock")
    /\ held' = [held EXCEPT ![s] = FALSE]
    /\ Goto(s, "token")
    /\ UNCHANGED <<redis, conns, maps, queue, target, deals, faults>>

LoginUnlock(s) ==
    /\ At(s, "unlock")
    /\ lock' = IF held[s] THEN Unlocked(FrontUser(s), Worker(s)) ELSE lock
    /\ held' = [held EXCEPT ![s] = FALSE]
    /\ Goto(s, "token")
    /\ UNCHANGED <<utoken, uip, usession, conns, maps, queue, target, deals, faults>>

\* SET utoken, outside the lock, and the answer.
LoginToken(s) ==
    /\ At(s, "token")
    /\ utoken' = [utoken EXCEPT ![FrontUser(s)] = SessionToken(Front(s))]
    /\ Answer(s, "ok")
    /\ UNCHANGED <<uip, usession, lock, sock, home, inserted, bound, reading, maps, held,
                   target, deals, faults>>

LoginStep(s) ==
    \/ LoginCheck(s) \/ LoginDel(s) \/ LoginInfo(s) \/ LoginLock(s) \/ LoginGetIp(s)
    \/ LoginRpc(s) \/ LoginBind(s) \/ LoginAdd(s) \/ LoginSetSession(s)
    \/ LoginUnlock(s) \/ LoginToken(s)
-----------------------------------------------------------------------------
(* Faults *)

\* A kick whose caller's deadline has passed is executed after all.
LateKick(t, u) ==
    /\ <<t, u>> \in late
    /\ Kick(t, u)
    /\ late' = late \ {<<t, u>>}
    /\ UNCHANGED <<redis, sock, home, inserted, bound, reply, reading, workers, deals,
                   breached, rpcFailed, crashed, faultsLeft>>

\* The lease of a lock ends: of an orphan, or under an owner that was slower
\* than LOCK_TIME_OUT.
LeaseEnd(u) ==
    /\ \/ lock[u] = Orphan /\ UNCHANGED <<breached, faultsLeft>>
       \/ lock[u] \in Owner /\ Fault("lock") /\ breached' = TRUE
    /\ lock' = [lock EXCEPT ![u] = None]
    /\ UNCHANGED <<utoken, uip, usession, conns, maps, workers, deals, late, rpcFailed,
                   crashed>>

\* Server s dies and restarts: memory and sockets are lost, Redis is not.
DealsOf(s) == {d \in Deals : home[d[2]] = s}

Crash(s) ==
    LET lost == {c \in Conn : home[c] = s}
    IN  /\ Fault("crash")
        /\ crashed' = TRUE
        /\ sock' = [c \in Conn |-> IF c \in lost THEN "closed" ELSE sock[c]]
        /\ inserted' = [c \in Conn |-> c \in lost \/ inserted[c]]
        /\ reply' = [c \in Conn |-> IF c \in lost /\ reply[c] \in {"none", "pushing", "queued"}
                                      THEN "lost" ELSE reply[c]]
        /\ reading' = [c \in Conn |-> c \notin lost /\ reading[c]]
        /\ writing' = [c \in Conn |-> IF c \in lost THEN "dead" ELSE writing[c]]
        /\ sessions' = [sessions EXCEPT ![s] = {}]
        /\ users' = [users EXCEPT ![s] = [u \in User |-> None]]
        /\ queue' = [queue EXCEPT ![s] = <<>>]
        /\ wpc' = [wpc EXCEPT ![s] = "idle"]
        /\ held' = [held EXCEPT ![s] = FALSE]
        /\ target' = [target EXCEPT ![s] = None]
        /\ dpc' = [d \in Deals |-> IF d \in DealsOf(s) THEN "idle" ELSE dpc[d]]
        /\ dheld' = [d \in Deals |-> IF d \in DealsOf(s) THEN FALSE ELSE dheld[d]]
        /\ lock' = [u \in User |-> IF lock[u] \in DealsOf(s) \cup {Worker(s)}
                                     THEN Orphan ELSE lock[u]]
        /\ late' = {k \in late : k[1] # s}
        /\ UNCHANGED <<utoken, uip, usession, home, bound, breached, rpcFailed>>
-----------------------------------------------------------------------------
IoStep(c) == Insert(c) \/ PushMsg(c) \/ ReadError(c) \/ WriteError(c)
TimerStep(c) == TimerClose(c) \/ TimerDeal(c)
DealStep(d) ==
    \/ DealLock(d) \/ DealGet(d) \/ DealDelSession(d) \/ DealDelIp(d) \/ DealDelToken(d)
    \/ DealClear(d) \/ DealRelease(d)

Next ==
    \/ \E c \in Conn : \/ insertToken(c) \/ RecvLogin(c) \/ RecvRemoved(c) \/ Disconnect(c)
                       \/ IoStep(c) \/ TimerStep(c)
                       \/ \E s \in Server : Start(c, s)
    \/ \E d \in Deals : DealStep(d)
    \/ \E s \in Server : LoginStep(s) \/ Crash(s)
    \/ \E u \in User : LeaseEnd(u) \/ \E t \in Server : LateKick(t, u)

Spec == Init /\ [][Next]_vars

\* The threads of the servers run on; a closed socket is silent, so the timer
\* finds its session expired; the lease of an orphan ends.  Clients, faults and
\* crashes owe nothing.  Fairness of each thread implies this one condition.
SystemStep ==
    \/ \E c \in Conn : IoStep(c) \/ TimerDeal(c) \/ (sock[c] = "closed" /\ TimerClose(c))
    \/ \E d \in Deals : DealStep(d)
    \/ \E s \in Server : LoginStep(s)
    \/ \E u \in User : lock[u] = Orphan /\ LeaseEnd(u)

FairSpec == Spec /\ WF_vars(SystemStep)
-----------------------------------------------------------------------------
RedisType ==
    /\ utoken \in [User -> Token \cup {None}]
    /\ uip \in [User -> Server \cup {None}]
    /\ usession \in [User -> Conn \cup {None}]
    /\ lock \in [User -> Owner \cup {None, Orphan}]

ConnType ==
    /\ sock \in [Conn -> {"new", "issued", "open", "gone", "closed"}]
    /\ home \in [Conn -> Server \cup {None}]
    /\ inserted \in [Conn -> BOOLEAN]
    /\ bound \in [Conn -> BOOLEAN]
    /\ reply \in [Conn -> {"none", "pushing", "queued", "ok", "refused", "lost"}]
    /\ reading \in [Conn -> BOOLEAN]
    /\ writing \in [Conn -> {"ok", "err", "dead"}]

MapType ==
    /\ sessions \in [Server -> SUBSET Conn]
    /\ users \in [Server -> [User -> Conn \cup {None}]]

WorkerType ==
    /\ queue \in [Server -> Seq(Conn)]
    /\ wpc \in [Server -> {"idle", "del", "info", "lock", "getip", "rpc", "bind", "add",
                           "setsession", "unlock", "token"}]
    /\ held \in [Server -> BOOLEAN]
    /\ target \in [Server -> Server \cup {None}]

DealType ==
    /\ dpc \in [Deals -> {"idle", "collected", "lock", "get", "delsession", "delip",
                          "deltoken", "clear", "release"}]
    /\ dheld \in [Deals -> BOOLEAN]

FaultType ==
    /\ late \subseteq Server \X User
    /\ breached \in BOOLEAN
    /\ rpcFailed \in BOOLEAN
    /\ crashed \in BOOLEAN
    /\ faultsLeft \in Nat

TypeOK == RedisType /\ ConnType /\ MapType /\ WorkerType /\ DealType /\ FaultType

Live(s, u) == users[s][u] # None /\ users[s][u] \in sessions[s]

\* Nothing is being done for user u behind the lock.
Quiet(u) == /\ lock[u] = None
            /\ \A s \in Server : wpc[s] \in {"idle", "del", "info", "lock"} \/ FrontUser(s) # u
            /\ \A d \in Deals : dpc[d] \in {"idle", "collected", "lock"} \/ UserOf[d[2]] # u

\* A user is live on one server at most: two logins racing on two servers, a
\* login racing the cleanup of its predecessor, double cleanups and crashes
\* never leave two, unless the lock or a kick has failed.
OneLive ==
    ~breached /\ ~rpcFailed =>
        \A u \in User : \A s, t \in Server : Live(s, u) /\ Live(t, u) => s = t

\* A live session is the one Redis names, so that the next login finds and
\* kicks it.
LiveIsRegistered ==
    ~breached /\ ~rpcFailed =>
        \A u \in User : \A s \in Server :
            lock[u] = None /\ Live(s, u) => usession[u] = users[s][u] /\ uip[u] = s

\* The three DELs of a cleanup hit only what that session had registered: its
\* check of usession stays true until it deletes, and no login slips in.
CleanupSparesOthers ==
    ~breached =>
        \A d \in Deals :
            /\ dpc[d] = "delsession" => usession[UserOf[d[2]]] = d[2]
            /\ dpc[d] = "delip" => usession[UserOf[d[2]]] = None

\* Both keys of a login are there, or none, whenever the lock is free (without
\* crashes, which may leave one).
KeysAgree ==
    ~breached /\ ~crashed =>
        \A u \in User : lock[u] = None =>
            \/ usession[u] = None /\ uip[u] = None
            \/ usession[u] # None /\ uip[u] = home[usession[u]]

\* A lock in Redis has an owner at work behind it: no early return, error path
\* or lost race leaves lock_<uid> behind for the next login to wait on.
LockHasHolder ==
    \A u \in User :
        /\ \A s \in Server : lock[u] = Worker(s) =>
              held[s] /\ queue[s] # <<>> /\ FrontUser(s) = u
        /\ \A d \in Deals : lock[u] = d => dheld[d] /\ UserOf[d[2]] = u /\ dpc[d] # "idle"

\* The session a closed connection had is forgotten for good in the end, also
\* when HandleAccept registered it after it was closed.
ClosedForgotten ==
    \A c \in Conn : <>[](sock[c] = "closed" => \A s \in Server : c \notin sessions[s])

\* A login message that was accepted is answered, or its server dies.
LoginAnswered == \A c \in Conn :
    reply[c] \in {"pushing", "queued"} ~> reply[c] \notin {"pushing", "queued"}

\* The session that usession names is not left with the session token of
\* another login, which its requests would be refused for, although the token
\* is set outside the lock: the worker of a server sets the tokens in the order
\* of the logins.  Logins on two servers may set theirs in the other order, and
\* a newer handshake token may replace either.
LoggedInTokenValid ==
    \A c \in Conn : LET u == UserOf[c]
                    IN  Quiet(u) /\ usession[u] = c /\ reply[c] = "ok" /\ sock[c] = "open" =>
                          \A e \in Conn \ {c} :
                              home[e] = home[c] => utoken[u] # SessionToken(e)
=============================================================================
