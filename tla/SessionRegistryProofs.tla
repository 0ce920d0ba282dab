------------------------ MODULE SessionRegistryProofs ------------------------
(***************************************************************************)
(* Proofs about SessionRegistry, for any servers, users and connections    *)
(* and with every fault and crash allowed: types, that no lock is left     *)
(* behind, that a cleanup spares the keys of other sessions, and, in the   *)
(* second half, that a user is live once at most, that Redis names the     *)
(* live session, and that a user has both keys or none.                    *)
(* The second half has one argument for the three: whatever holds the lock *)
(* of a user, at whatever step, something is known of the live sessions    *)
(* and of the keys (Stage), and who does not hold it cannot disturb that   *)
(* (Aside).                                                                *)
(* The last part is about the session tokens, LoggedInTokenValid: it needs *)
(* no lock, only the order in which a worker handles its logins.           *)
(***************************************************************************)
EXTENDS SessionRegistry, SequenceTheorems, TLAPS

LEMMA Frame ==
    /\ RedisType /\ UNCHANGED redis => RedisType'
    /\ ConnType /\ UNCHANGED conns => ConnType'
    /\ MapType /\ UNCHANGED maps => MapType'
    /\ WorkerType /\ UNCHANGED workers => WorkerType'
    /\ DealType /\ UNCHANGED deals => DealType'
    /\ FaultType /\ UNCHANGED faults => FaultType'
<1>1. RedisType /\ UNCHANGED redis => RedisType'
  BY DEF RedisType, redis
<1>2. ConnType /\ UNCHANGED conns => ConnType'
  BY DEF ConnType, conns
<1>3. MapType /\ UNCHANGED maps => MapType'
  BY DEF MapType, maps
<1>4. WorkerType /\ UNCHANGED workers => WorkerType'
  BY DEF WorkerType, workers
<1>5. DealType /\ UNCHANGED deals => DealType'
  BY DEF DealType, deals
<1>6. FaultType /\ UNCHANGED faults => FaultType'
  BY DEF FaultType, faults
<1> QED BY <1>1, <1>2, <1>3, <1>4, <1>5, <1>6

LEMMA FrontType ==
    ASSUME TypeOK, NEW s \in Server, queue[s] # <<>>
    PROVE  Front(s) \in Conn /\ FrontUser(s) \in User /\ Tail(queue[s]) \in Seq(Conn)
BY RegistryAssumption, HeadTailProperties DEF TypeOK, WorkerType, Front, FrontUser

LEMMA AfterSendType == ASSUME TypeOK, NEW c \in Conn, NEW w \in AfterSend(c)
                       PROVE  w \in {"ok", "err", "dead"}
BY DEF TypeOK, ConnType, AfterSend

LEMMA AnswerType ==
    ASSUME TypeOK, NEW s \in Server, queue[s] # <<>>,
           NEW code \in {"ok", "refused"}, Answer(s, code)
    PROVE  /\ reply' \in [Conn -> {"none", "pushing", "queued", "ok", "refused", "lost"}]
           /\ writing' \in [Conn -> {"ok", "err", "dead"}]
           /\ queue' \in [Server -> Seq(Conn)]
           /\ wpc' = [wpc EXCEPT ![s] = "idle"]
<1>1. Front(s) \in Conn /\ Tail(queue[s]) \in Seq(Conn)
  BY FrontType
<1> QED BY <1>1, AfterSendType DEF TypeOK, ConnType, WorkerType, Answer, Goto

LEMMA FaultsLeftType ==
    ASSUME TypeOK, NEW kind, Fault(kind) \/ UNCHANGED faultsLeft
    PROVE  faultsLeft' \in Nat
BY DEF TypeOK, FaultType, Fault

LEMMA ClearType ==
    ASSUME TypeOK, NEW c \in Conn, ClearSession(c)
    PROVE  MapType'
BY RegistryAssumption DEF TypeOK, MapType, ClearSession, UsersWithout

LEMMA KickType ==
    ASSUME TypeOK, NEW t \in Server, NEW u \in User, Kick(t, u)
    PROVE  /\ MapType'
           /\ writing' \in [Conn -> {"ok", "err", "dead"}]
<1> DEFINE c == users[t][u]
<1>1. CASE c = None
  BY <1>1 DEF TypeOK, MapType, ConnType, Kick
<1>2. CASE c # None
  <2>1. c \in Conn
    BY <1>2 DEF TypeOK, MapType
  <2>2. ClearSession(c) /\ \E w \in AfterSend(c) : writing' = [writing EXCEPT ![c] = w]
    BY <1>2 DEF Kick
  <2>3. MapType'
    BY <2>1, <2>2, ClearType
  <2>4. writing' \in [Conn -> {"ok", "err", "dead"}]
    BY <2>1, <2>2, AfterSendType DEF TypeOK, ConnType
  <2> QED BY <2>3, <2>4
<1> QED BY <1>1, <1>2

-----------------------------------------------------------------------------
(* The inductive invariant.  A lock in Redis is known to its owner, whatever *)
(* fails; and unless a lock fault has happened, who works behind a lock has  *)
(* it in Redis.  With that the checks a cleanup makes stay true.             *)

Section == {"getip", "rpc", "bind", "add", "setsession", "unlock"}
DealSection == {"get", "delsession", "delip", "deltoken", "release"}

Busy == \A s \in Server : wpc[s] # "idle" => queue[s] # <<>>

TargetSet == \A s \in Server : wpc[s] = "rpc" => target[s] \in Server

WorkerKnows == \A u \in User, s \in Server :
    lock[u] = Worker(s) => held[s] /\ wpc[s] \in Section /\ FrontUser(s) = u

DealKnows == \A u \in User, d \in Deals :
    lock[u] = d => dheld[d] /\ UserOf[d[2]] = u /\ dpc[d] \in DealSection \cup {"clear"}

WorkerOwns == ~breached => \A s \in Server :
    wpc[s] \in Section => lock[FrontUser(s)] = Worker(s)

DealHolds == \A d \in Deals : dpc[d] \in DealSection => dheld[d]

DealOwns == ~breached => \A d \in Deals : dheld[d] => lock[UserOf[d[2]]] = d

LockInv == /\ Busy /\ TargetSet /\ WorkerKnows /\ DealKnows
           /\ WorkerOwns /\ DealHolds /\ DealOwns /\ CleanupSparesOthers
-----------------------------------------------------------------------------
LEMMA TypeInit == Init => TypeOK
<1> SUFFICES ASSUME Init PROVE TypeOK
  OBVIOUS
<1>1. RedisType
  BY DEF Init, RedisType
<1>2. ConnType
  BY DEF Init, ConnType
<1>3. MapType /\ WorkerType
  BY DEF Init, MapType, WorkerType
<1>4. DealType /\ FaultType
  BY RegistryAssumption DEF Init, DealType, FaultType
<1> QED BY <1>1, <1>2, <1>3, <1>4 DEF TypeOK

LEMMA TypeStep == TypeOK /\ TargetSet /\ [Next]_vars => TypeOK'
<1> SUFFICES ASSUME TypeOK, TargetSet, [Next]_vars PROVE TypeOK'
  OBVIOUS
<1> USE RegistryAssumption
<1>1. ASSUME NEW c \in Conn, NEW s \in Server, Start(c, s) PROVE TypeOK'
  <2>1. ConnType'
    BY <1>1 DEF TypeOK, ConnType, Start
  <2> QED BY <1>1, <2>1, Frame DEF TypeOK, Start
<1>2. ASSUME NEW c \in Conn, insertToken(c) PROVE TypeOK'
  <2>1. RedisType'
    BY <1>2 DEF TypeOK, RedisType, insertToken, Handshake, Token
  <2>2. ConnType'
    BY <1>2 DEF TypeOK, ConnType, insertToken, Handshake, Token
  <2> QED BY <1>2, <2>1, <2>2, Frame DEF TypeOK, insertToken
<1>17. ASSUME NEW c \in Conn, PushMsg(c) PROVE TypeOK'
  <2>1. ConnType'
    BY <1>17 DEF TypeOK, ConnType, PushMsg
  <2>2. WorkerType'
    <3> DEFINE q == Append(queue[home[c]], c)
    <3>1. home[c] \in Server => q \in Seq(Conn)
      BY AppendProperties DEF TypeOK, WorkerType
    <3>2. queue' = [queue EXCEPT ![home[c]] = q]
      BY <1>17 DEF PushMsg
    <3>3. wpc' = wpc /\ held' = held /\ target' = target
      BY <1>17 DEF PushMsg
    <3> HIDE DEF q
    <3>4. queue' \in [Server -> Seq(Conn)]
      BY <3>1, <3>2 DEF TypeOK, WorkerType
    <3> QED BY <3>3, <3>4 DEF TypeOK, WorkerType
  <2> QED BY <1>17, <2>1, <2>2, Frame DEF TypeOK, PushMsg
<1>3. ASSUME NEW c \in Conn, RecvLogin(c) PROVE TypeOK'
  <2>1. ConnType'
    BY <1>3 DEF TypeOK, ConnType, RecvLogin
  <2> QED BY <1>3, <2>1, Frame DEF TypeOK, RecvLogin
<1>4. ASSUME NEW c \in Conn, RecvRemoved(c) PROVE TypeOK'
  <2>1. ConnType'
    BY <1>4 DEF TypeOK, ConnType, RecvRemoved
  <2> QED BY <1>4, <2>1, Frame DEF TypeOK, RecvRemoved
<1>5. ASSUME NEW c \in Conn, Disconnect(c) PROVE TypeOK'
  <2>1. ConnType'
    BY <1>5 DEF TypeOK, ConnType, Disconnect
  <2> QED BY <1>5, <2>1, Frame DEF TypeOK, Disconnect
<1>6. ASSUME NEW c \in Conn, Insert(c) PROVE TypeOK'
  <2>1. ConnType'
    BY <1>6 DEF TypeOK, ConnType, Insert
  <2>2. MapType'
    BY <1>6 DEF TypeOK, MapType, Insert
  <2> QED BY <1>6, <2>1, <2>2, Frame DEF TypeOK, Insert
<1>7. ASSUME NEW c \in Conn, ReadError(c) PROVE TypeOK'
  <2>1. ConnType'
    BY <1>7 DEF TypeOK, ConnType, ReadError, FirstStep
  <2>2. DealType'
    BY <1>7 DEF TypeOK, DealType, ReadError, FirstStep
  <2> QED BY <1>7, <2>1, <2>2, Frame DEF TypeOK, ReadError
<1>8. ASSUME NEW c \in Conn, WriteError(c) PROVE TypeOK'
  <2>1. ConnType'
    BY <1>8 DEF TypeOK, ConnType, WriteError, FirstStep
  <2>2. DealType'
    BY <1>8 DEF TypeOK, DealType, WriteError, FirstStep
  <2> QED BY <1>8, <2>1, <2>2, Frame DEF TypeOK, WriteError
<1>9. ASSUME NEW c \in Conn, TimerClose(c) PROVE TypeOK'
  <2>1. ConnType'
    BY <1>9 DEF TypeOK, ConnType, TimerClose
  <2>2. DealType'
    BY <1>9 DEF TypeOK, DealType, TimerClose
  <2> QED BY <1>9, <2>1, <2>2, Frame DEF TypeOK, TimerClose
<1>10. ASSUME NEW c \in Conn, TimerDeal(c) PROVE TypeOK'
  <2>1. DealType'
    BY <1>10 DEF TypeOK, DealType, TimerDeal, FirstStep
  <2> QED BY <1>10, <2>1, Frame DEF TypeOK, TimerDeal
<1>11. ASSUME NEW d \in Deals, DealStep(d) PROVE TypeOK'
  <2>1. d[2] \in Conn /\ UserOf[d[2]] \in User /\ d \in Owner
    BY DEF Deals, Owner
  <2>2. CASE DealLock(d)
    <3>1. RedisType'
      BY <2>2, <2>1 DEF TypeOK, RedisType, DealLock
    <3>2. DealType'
      BY <2>2, <2>1 DEF TypeOK, DealType, DealLock
    <3> QED BY <2>2, <3>1, <3>2, Frame DEF TypeOK, DealLock
  <2>3. CASE DealGet(d)
    <3>1. DealType'
      BY <2>3, <2>1 DEF TypeOK, DealType, DealGet
    <3> QED BY <2>3, <3>1, Frame DEF TypeOK, DealGet
  <2>4. CASE DealDelSession(d)
    <3>1. RedisType'
      BY <2>4, <2>1 DEF TypeOK, RedisType, DealDelSession
    <3>2. DealType'
      BY <2>4, <2>1 DEF TypeOK, DealType, DealDelSession
    <3> QED BY <2>4, <3>1, <3>2, Frame DEF TypeOK, DealDelSession
  <2>5. CASE DealDelIp(d)
    <3>1. RedisType'
      BY <2>5, <2>1 DEF TypeOK, RedisType, DealDelIp
    <3>2. DealType'
      BY <2>5, <2>1 DEF TypeOK, DealType, DealDelIp
    <3> QED BY <2>5, <3>1, <3>2, Frame DEF TypeOK, DealDelIp
  <2>6. CASE DealDelToken(d)
    <3>1. RedisType'
      BY <2>6, <2>1 DEF TypeOK, RedisType, DealDelToken
    <3>2. DealType'
      BY <2>6, <2>1 DEF TypeOK, DealType, DealDelToken
    <3> QED BY <2>6, <3>1, <3>2, Frame DEF TypeOK, DealDelToken
  <2>7. CASE DealClear(d)
    <3>1. MapType'
      BY <2>7, <2>1, ClearType DEF TypeOK, MapType, DealClear
    <3>2. DealType'
      BY <2>7, <2>1, ClearType DEF TypeOK, DealType, DealClear
    <3> QED BY <2>7, <3>1, <3>2, Frame DEF TypeOK, DealClear
  <2>8. CASE DealRelease(d)
    <3>1. RedisType'
      BY <2>8, <2>1 DEF TypeOK, RedisType, DealRelease, Unlocked
    <3>2. DealType'
      BY <2>8, <2>1 DEF TypeOK, DealType, DealRelease, Unlocked
    <3> QED BY <2>8, <3>1, <3>2, Frame DEF TypeOK, DealRelease
  <2> QED BY <1>11, <2>2, <2>3, <2>4, <2>5, <2>6, <2>7, <2>8 DEF DealStep
<1>12. ASSUME NEW s \in Server, LoginStep(s) PROVE TypeOK'
  <2>1. queue[s] # <<>>
    BY <1>12 DEF LoginStep, At, LoginCheck, LoginDel, LoginInfo, LoginLock, LoginGetIp,
                 LoginRpc, LoginBind, LoginAdd, LoginSetSession, LoginUnlock, LoginToken
  <2>2. Front(s) \in Conn /\ FrontUser(s) \in User
    BY <2>1, FrontType
  <2>3. Worker(s) \in Owner
    BY DEF Worker, Owner
  <2>4. CASE LoginCheck(s)
    <3>1. ConnType'
      BY <2>4, <2>1, <2>2, <2>3, AnswerType DEF TypeOK, ConnType, LoginCheck, At, Goto
    <3>2. WorkerType'
      BY <2>4, <2>1, <2>2, <2>3, AnswerType DEF TypeOK, WorkerType, LoginCheck, At, Goto
    <3> QED BY <2>4, <3>1, <3>2, Frame DEF TypeOK, LoginCheck
  <2>5. CASE LoginDel(s)
    <3>1. RedisType'
      BY <2>5, <2>1, <2>2, <2>3 DEF TypeOK, RedisType, LoginDel, At, Goto
    <3>2. WorkerType'
      BY <2>5, <2>1, <2>2, <2>3 DEF TypeOK, WorkerType, LoginDel, At, Goto
    <3> QED BY <2>5, <3>1, <3>2, Frame DEF TypeOK, LoginDel
  <2>6. CASE LoginInfo(s)
    <3>1. ConnType'
      BY <2>6, <2>1, <2>2, <2>3, AnswerType DEF TypeOK, ConnType, LoginInfo, At, Goto
    <3>2. WorkerType'
      BY <2>6, <2>1, <2>2, <2>3, AnswerType DEF TypeOK, WorkerType, LoginInfo, At, Goto
    <3> QED BY <2>6, <3>1, <3>2, Frame DEF TypeOK, LoginInfo
  <2>7. CASE LoginLock(s)
    <3>1. RedisType'
      BY <2>7, <2>1, <2>2, <2>3 DEF TypeOK, RedisType, LoginLock, At, Goto
    <3>2. WorkerType'
      BY <2>7, <2>1, <2>2, <2>3 DEF TypeOK, WorkerType, LoginLock, At, Goto
    <3>3. FaultType'
      <4>1. Fault("lock") \/ UNCHANGED faultsLeft
        BY <2>7 DEF LoginLock
      <4>2. faultsLeft' \in Nat
        BY <4>1, FaultsLeftType
      <4> QED BY <2>7, <4>2, Zenon DEF TypeOK, FaultType, LoginLock
    <3> QED BY <2>7, <3>1, <3>2, <3>3, Frame DEF TypeOK, LoginLock
  <2>8. CASE LoginGetIp(s)
    <3>1. uip[FrontUser(s)] \in Server \cup {None}
      BY <2>2 DEF TypeOK, RedisType
    <3>2. /\ MapType'
          /\ writing' \in [Conn -> {"ok", "err", "dead"}]
      <4>1. CASE Kick(s, FrontUser(s))
        BY <2>2, <3>1, <4>1, KickType
      <4>2. CASE UNCHANGED <<sessions, users, writing>>
        BY <4>2 DEF TypeOK, MapType, ConnType
      <4> QED BY <2>8, <4>1, <4>2 DEF LoginGetIp
    <3>3. ConnType'
      BY <2>8, <3>2 DEF TypeOK, ConnType, LoginGetIp
    <3>4. WorkerType'
      BY <2>8, <3>1 DEF TypeOK, WorkerType, LoginGetIp, Goto
    <3> QED BY <2>8, <3>2, <3>3, <3>4, Frame DEF TypeOK, LoginGetIp
  <2>9. CASE LoginRpc(s)
    <3>1. target[s] \in Server
      BY <2>9 DEF TargetSet, LoginRpc, At
    <3>2. /\ MapType'
          /\ writing' \in [Conn -> {"ok", "err", "dead"}]
      <4>1. CASE Kick(target[s], FrontUser(s))
        BY <2>2, <3>1, <4>1, KickType
      <4>2. CASE UNCHANGED <<sessions, users, writing>>
        BY <4>2 DEF TypeOK, MapType, ConnType
      <4> QED BY <2>9, <4>1, <4>2 DEF LoginRpc
    <3>3. ConnType'
      BY <2>9, <3>2 DEF TypeOK, ConnType, LoginRpc
    <3>4. WorkerType'
      BY <2>9, <3>1 DEF TypeOK, WorkerType, LoginRpc, Goto
    <3>5. FaultType'
      <4>1. <<target[s], FrontUser(s)>> \in Server \X User
        BY <2>2, <3>1
      <4>2. late' = late \/ late' = late \cup {<<target[s], FrontUser(s)>>}
        BY <2>9 DEF LoginRpc
      <4>3. breached' \in BOOLEAN /\ rpcFailed' \in BOOLEAN /\ crashed' \in BOOLEAN
        BY <2>9, Zenon DEF TypeOK, FaultType, LoginRpc
      <4>4. Fault("rpc") \/ UNCHANGED faultsLeft
        BY <2>9 DEF LoginRpc
      <4>5. faultsLeft' \in Nat
        BY <4>4, FaultsLeftType
      <4> QED BY <4>1, <4>2, <4>3, <4>5 DEF TypeOK, FaultType
    <3> QED BY <2>9, <3>2, <3>3, <3>4, <3>5, Frame DEF TypeOK, LoginRpc
  <2>10. CASE LoginBind(s)
    <3>1. RedisType'
      BY <2>10, <2>1, <2>2, <2>3 DEF TypeOK, RedisType, LoginBind, At, Goto
    <3>2. ConnType'
      BY <2>10, <2>1, <2>2, <2>3 DEF TypeOK, ConnType, LoginBind, At, Goto
    <3>3. WorkerType'
      BY <2>10, <2>1, <2>2, <2>3 DEF TypeOK, WorkerType, LoginBind, At, Goto
    <3> QED BY <2>10, <3>1, <3>2, <3>3, Frame DEF TypeOK, LoginBind
  <2>11. CASE LoginAdd(s)
    <3>1. MapType'
      BY <2>11, <2>1, <2>2, <2>3 DEF TypeOK, MapType, LoginAdd, At, Goto
    <3>2. WorkerType'
      BY <2>11, <2>1, <2>2, <2>3 DEF TypeOK, WorkerType, LoginAdd, At, Goto
    <3> QED BY <2>11, <3>1, <3>2, Frame DEF TypeOK, LoginAdd
  <2>12. CASE LoginSetSession(s)
    <3>1. RedisType'
      BY <2>12, <2>1, <2>2, <2>3 DEF TypeOK, RedisType, LoginSetSession, At, Goto
    <3>2. WorkerType'
      BY <2>12, <2>1, <2>2, <2>3 DEF TypeOK, WorkerType, LoginSetSession, At, Goto
    <3> QED BY <2>12, <3>1, <3>2, Frame DEF TypeOK, LoginSetSession
  <2>13. CASE LoginUnlock(s)
    <3>1. RedisType'
      BY <2>13, <2>1, <2>2, <2>3 DEF TypeOK, RedisType, LoginUnlock, At, Goto, Unlocked
    <3>2. WorkerType'
      BY <2>13, <2>1, <2>2, <2>3 DEF TypeOK, WorkerType, LoginUnlock, At, Goto, Unlocked
    <3> QED BY <2>13, <3>1, <3>2, Frame DEF TypeOK, LoginUnlock
  <2>14. CASE LoginToken(s)
    <3>1. RedisType'
      BY <2>14, <2>1, <2>2, <2>3, AnswerType
         DEF TypeOK, RedisType, LoginToken, At, Goto, SessionToken, Token
    <3>2. ConnType'
      BY <2>14, <2>1, <2>2, <2>3, AnswerType
         DEF TypeOK, ConnType, LoginToken, At, Goto, SessionToken, Token
    <3>3. WorkerType'
      BY <2>14, <2>1, <2>2, <2>3, AnswerType
         DEF TypeOK, WorkerType, LoginToken, At, Goto, SessionToken, Token
    <3> QED BY <2>14, <3>1, <3>2, <3>3, Frame DEF TypeOK, LoginToken
  <2> QED BY <1>12, <2>4, <2>5, <2>6, <2>7, <2>8, <2>9, <2>10, <2>11, <2>12, <2>13, <2>14
          DEF LoginStep
<1>13. ASSUME NEW s \in Server, Crash(s) PROVE TypeOK'
  <2>1. RedisType'
    BY <1>13 DEF TypeOK, RedisType, Crash, DealsOf
  <2>2. ConnType'
    BY <1>13 DEF TypeOK, ConnType, Crash, DealsOf
  <2>3. MapType'
    BY <1>13 DEF TypeOK, MapType, Crash, DealsOf
  <2>4. WorkerType'
    BY <1>13 DEF TypeOK, WorkerType, Crash, DealsOf
  <2>5. DealType'
    BY <1>13 DEF TypeOK, DealType, Crash, DealsOf
  <2>6. FaultType'
    BY <1>13 DEF TypeOK, FaultType, Crash, Fault
  <2> QED BY <1>13, <2>1, <2>2, <2>3, <2>4, <2>5, <2>6, Frame DEF TypeOK, Crash
<1>14. ASSUME NEW u \in User, LeaseEnd(u) PROVE TypeOK'
  <2>1. RedisType'
    BY <1>14 DEF TypeOK, RedisType, LeaseEnd
  <2>2. FaultType'
    <3>1. Fault("lock") \/ UNCHANGED faultsLeft
      BY <1>14 DEF LeaseEnd
    <3>2. faultsLeft' \in Nat
      BY <3>1, FaultsLeftType
    <3> QED BY <1>14, <3>2, Zenon DEF TypeOK, FaultType, LeaseEnd
  <2> QED BY <1>14, <2>1, <2>2, Frame DEF TypeOK, LeaseEnd
<1>15. ASSUME NEW u \in User, NEW t \in Server, LateKick(t, u) PROVE TypeOK'
  <2>1. ConnType'
    BY <1>15, KickType DEF TypeOK, ConnType, LateKick
  <2>2. MapType'
    BY <1>15, KickType DEF TypeOK, MapType, LateKick
  <2>3. FaultType'
    BY <1>15, KickType DEF TypeOK, FaultType, LateKick
  <2> QED BY <1>15, <2>1, <2>2, <2>3, Frame DEF TypeOK, LateKick
<1>16. CASE UNCHANGED vars
  BY <1>16, Frame DEF TypeOK, vars
<1> QED BY <1>1, <1>2, <1>3, <1>4, <1>5, <1>6, <1>7, <1>8, <1>9, <1>10, <1>11, <1>12, <1>13,
           <1>14, <1>15, <1>16, <1>17
        DEF Next, IoStep, TimerStep
-----------------------------------------------------------------------------
lockVars == <<lock, usession, workers, deals, breached>>

LEMMA LockFrame == LockInv /\ UNCHANGED lockVars => LockInv'
<1> SUFFICES ASSUME LockInv, UNCHANGED lockVars PROVE LockInv'
  OBVIOUS
<1> USE DEF LockInv, lockVars, workers, deals
<1>1. Busy' /\ TargetSet'
  BY DEF Busy, TargetSet
<1>2. WorkerKnows' /\ WorkerOwns'
  BY DEF WorkerKnows, WorkerOwns, FrontUser, Front
<1>3. DealKnows' /\ DealHolds' /\ DealOwns'
  BY DEF DealKnows, DealHolds, DealOwns
<1>4. CleanupSparesOthers'
  BY DEF CleanupSparesOthers
<1> QED BY <1>1, <1>2, <1>3, <1>4

LEMMA OwnersApart ==
    /\ \A s, t \in Server : Worker(s) = Worker(t) => s = t
    /\ \A s \in Server : Worker(s) \notin {None, Orphan}
    /\ \A d \in Deals : d \notin {None, Orphan}
    /\ \A s \in Server, d \in Deals : Worker(s) # d
    /\ None # Orphan
BY OwnerAssumption DEF Owner, Deals, Worker

\* A cleanup that has not got to the lock yet takes a step.
LEMMA DealStarts ==
    ASSUME TypeOK, LockInv, NEW d \in Deals, NEW step \in {"collected", "lock", "clear"},
           dpc[d] \in {"idle", "collected"},
           dpc' = [dpc EXCEPT ![d] = step],
           UNCHANGED <<lock, usession, workers, dheld, breached>>
    PROVE  LockInv'
<1> USE DEF TypeOK, DealType, LockInv, workers, DealSection
<1>1. Busy' /\ TargetSet'
  BY DEF Busy, TargetSet
<1>2. WorkerKnows' /\ WorkerOwns'
  BY DEF WorkerKnows, WorkerOwns, FrontUser, Front
<1>3. DealKnows'
  BY DEF DealKnows
<1>4. DealHolds' /\ DealOwns'
  BY DEF DealHolds, DealOwns
<1>5. CleanupSparesOthers'
  BY DEF CleanupSparesOthers
<1> QED BY <1>1, <1>2, <1>3, <1>4, <1>5

\* What a step of cleanup d keeps because it leaves the workers alone.
LEMMA DealSparesWorkers ==
    ASSUME LockInv, UNCHANGED <<workers, breached>>,
           NEW d \in Deals,
           \A u \in User : lock'[u] = lock[u] \/ lock'[u] = d \/ lock'[u] = None,
           \A u \in User, s \in Server : lock[u] = Worker(s) => lock'[u] = lock[u],
           UserOf \in [Conn -> User], WorkerType
    PROVE  Busy' /\ TargetSet' /\ WorkerKnows' /\ WorkerOwns'
<1> USE DEF LockInv, workers
<1>1. Busy' /\ TargetSet'
  BY DEF Busy, TargetSet
<1>2. WorkerKnows'
  BY OwnersApart DEF WorkerKnows, FrontUser, Front
<1>3. WorkerOwns'
  <2>1. \A s \in Server : wpc[s] # "idle" => FrontUser(s) \in User
    BY HeadTailProperties DEF Busy, WorkerType, FrontUser, Front
  <2> QED BY <2>1 DEF WorkerOwns, FrontUser, Front, Section
<1> QED BY <1>1, <1>2, <1>3

\* The same for the cleanups and a step of worker s.
LEMMA WorkerSparesDeals ==
    ASSUME LockInv, UNCHANGED deals,
           NEW s \in Server,
           breached => breached',
           \A u \in User : lock'[u] = lock[u] \/ lock'[u] \in {Worker(s), None},
           \A u \in User, d \in Deals : lock[u] = d => lock'[u] = lock[u],
           \A u \in User : usession'[u] = usession[u] \/ lock[u] = Worker(s) \/ breached,
           UserOf \in [Conn -> User]
    PROVE  DealKnows' /\ DealHolds' /\ DealOwns' /\ CleanupSparesOthers'
<1> USE DEF LockInv, deals
<1>1. DealKnows'
  BY OwnersApart DEF DealKnows
<1>2. DealHolds'
  BY DEF DealHolds
<1>3. \A d \in Deals : UserOf[d[2]] \in User
  BY DEF Deals
<1>4. DealOwns'
  BY <1>3 DEF DealOwns
<1>5. CleanupSparesOthers'
  BY <1>3, OwnersApart DEF CleanupSparesOthers, DealHolds, DealOwns, DealSection
<1> QED BY <1>1, <1>2, <1>4, <1>5

LEMMA LockStep == TypeOK /\ LockInv /\ [Next]_vars => LockInv'
<1> SUFFICES ASSUME TypeOK, LockInv, [Next]_vars PROVE LockInv'
  OBVIOUS
<1> USE RegistryAssumption
<1>1. ASSUME NEW c \in Conn, NEW s \in Server, Start(c, s) PROVE LockInv'
  BY <1>1, LockFrame DEF Start, lockVars, workers, deals, redis, maps, faults
<1>2. ASSUME NEW c \in Conn, insertToken(c) PROVE LockInv'
  BY <1>2, LockFrame DEF insertToken, lockVars, workers, deals, faults
<1>3. ASSUME NEW c \in Conn, RecvRemoved(c) PROVE LockInv'
  BY <1>3, LockFrame DEF RecvRemoved, lockVars, workers, deals, redis, faults
<1>4. ASSUME NEW c \in Conn, Disconnect(c) PROVE LockInv'
  BY <1>4, LockFrame DEF Disconnect, lockVars, workers, deals, redis, faults
<1>5. ASSUME NEW c \in Conn, Insert(c) PROVE LockInv'
  BY <1>5, LockFrame DEF Insert, lockVars, workers, deals, redis, faults
<1>6. ASSUME NEW u \in User, NEW t \in Server, LateKick(t, u) PROVE LockInv'
  BY <1>6, LockFrame DEF LateKick, lockVars, workers, deals, redis
<1>7. ASSUME NEW c \in Conn, ReadError(c) PROVE LockInv'
  <2> DEFINE d == <<"io", c>>
  <2>1. d \in Deals /\ FirstStep(c) \in {"collected", "lock", "clear"}
    BY DEF Deals, FirstStep
  <2>2. dpc' = [dpc EXCEPT ![d] = FirstStep(c)] /\ dpc[d] \in {"idle", "collected"}
    BY <1>7 DEF ReadError
  <2>3. UNCHANGED <<lock, usession, workers, dheld, breached>>
    BY <1>7 DEF ReadError, redis, faults
  <2> QED BY <2>1, <2>2, <2>3, DealStarts
<1>8. ASSUME NEW c \in Conn, WriteError(c) PROVE LockInv'
  <2> DEFINE d == <<"io", c>>
  <2>1. d \in Deals /\ FirstStep(c) \in {"collected", "lock", "clear"}
    BY DEF Deals, FirstStep
  <2>2. dpc' = [dpc EXCEPT ![d] = FirstStep(c)] /\ dpc[d] \in {"idle", "collected"}
    BY <1>8 DEF WriteError
  <2>3. UNCHANGED <<lock, usession, workers, dheld, breached>>
    BY <1>8 DEF WriteError, redis, faults
  <2> QED BY <2>1, <2>2, <2>3, DealStarts
<1>9. ASSUME NEW c \in Conn, TimerClose(c) PROVE LockInv'
  <2> DEFINE d == <<"timer", c>>
  <2>1. d \in Deals /\ "collected" \in {"collected", "lock", "clear"}
    BY DEF Deals, FirstStep
  <2>2. dpc' = [dpc EXCEPT ![d] = "collected"] /\ dpc[d] \in {"idle", "collected"}
    BY <1>9 DEF TimerClose
  <2>3. UNCHANGED <<lock, usession, workers, dheld, breached>>
    BY <1>9 DEF TimerClose, redis, faults
  <2> QED BY <2>1, <2>2, <2>3, DealStarts
<1>10. ASSUME NEW c \in Conn, TimerDeal(c) PROVE LockInv'
  <2> DEFINE d == <<"timer", c>>
  <2>1. d \in Deals /\ FirstStep(c) \in {"collected", "lock", "clear"}
    BY DEF Deals, FirstStep
  <2>2. dpc' = [dpc EXCEPT ![d] = FirstStep(c)] /\ dpc[d] \in {"idle", "collected"}
    BY <1>10 DEF TimerDeal
  <2>3. UNCHANGED <<lock, usession, workers, dheld, breached>>
    BY <1>10 DEF TimerDeal, redis, faults
  <2> QED BY <2>1, <2>2, <2>3, DealStarts
<1>11. ASSUME NEW c \in Conn, PushMsg(c) PROVE LockInv'
  \* Messages are only pushed while the worker is idle.
  <2>1. UNCHANGED <<lock, usession, wpc, held, target, deals, breached>>
    BY <1>11 DEF PushMsg, redis, faults
  <2>2. \A s \in Server : wpc[s] # "idle" => queue'[s] = queue[s]
    BY <1>11 DEF TypeOK, WorkerType, PushMsg
  <2>3. Busy' /\ TargetSet'
    BY <2>1, <2>2 DEF LockInv, Busy, TargetSet
  <2>4. WorkerKnows' /\ WorkerOwns'
    BY <2>1, <2>2 DEF LockInv, WorkerKnows, WorkerOwns, Section, FrontUser, Front
  <2>5. DealKnows' /\ DealHolds' /\ DealOwns' /\ CleanupSparesOthers'
    BY <2>1 DEF LockInv, DealKnows, DealHolds, DealOwns, CleanupSparesOthers, deals
  <2> QED BY <2>3, <2>4, <2>5 DEF LockInv
<1>17. ASSUME NEW c \in Conn, RecvLogin(c) PROVE LockInv'
  BY <1>17, LockFrame DEF RecvLogin, lockVars, workers, deals, redis, faults
<1>12. ASSUME NEW d \in Deals, DealStep(d) PROVE LockInv'
  <2> DEFINE u == UserOf[d[2]]
  <2>1. u \in User
    BY DEF Deals
  <2>2. UNCHANGED <<workers, breached>>
    BY <1>12
       DEF DealStep, DealLock, DealGet, DealDelSession, DealDelIp, DealDelToken, DealClear,
                 DealRelease, faults
  <2>3. \/ lock' = lock
        \/ lock[u] = None /\ lock' = [lock EXCEPT ![u] = d]
        \/ lock[u] = d /\ lock' = [lock EXCEPT ![u] = None]
    BY <1>12
       DEF DealStep, DealLock, DealGet, DealDelSession, DealDelIp, DealDelToken, DealClear,
                 DealRelease, Unlocked, redis
  <2>4. Busy' /\ TargetSet' /\ WorkerKnows' /\ WorkerOwns'
    <3>1. \A v \in User : lock'[v] = lock[v] \/ lock'[v] = d \/ lock'[v] = None
      BY <2>3 DEF TypeOK, RedisType
    <3>2. \A v \in User, s \in Server : lock[v] = Worker(s) => lock'[v] = lock[v]
      BY <2>3, OwnersApart DEF TypeOK, RedisType
    <3> QED BY <2>2, <3>1, <3>2, DealSparesWorkers DEF TypeOK
  <2>5. CASE DealLock(d)
    <3>1. DealKnows'
      BY <2>5, <2>1, OwnersApart
         DEF LockInv, DealKnows, DealSection, TypeOK, RedisType, DealType, DealLock, faults
    <3>2. DealHolds'
      BY <2>5 DEF LockInv, DealHolds, DealSection, TypeOK, DealType, DealLock, faults
    <3>3. DealOwns'
      BY <2>5, <2>1, <2>2, <2>3, OwnersApart
         DEF LockInv, DealOwns, TypeOK, RedisType, DealType, Deals, DealLock, faults
    <3>4. CleanupSparesOthers'
      BY <2>5, <2>1, <2>2
         DEF LockInv, DealHolds, DealOwns, DealSection, CleanupSparesOthers, TypeOK,
             RedisType, DealType, Deals, DealLock, faults
    <3> QED BY <2>4, <3>1, <3>2, <3>3, <3>4 DEF LockInv
  <2>6. CASE DealGet(d)
    <3>1. DealKnows'
      BY <2>6, <2>1, OwnersApart
         DEF LockInv, DealKnows, DealSection, TypeOK, RedisType, DealType, DealGet, redis,
             StillMine
    <3>2. DealHolds'
      BY <2>6 DEF LockInv, DealHolds, DealSection, TypeOK, DealType, DealGet, redis, StillMine
    <3>3. DealOwns'
      BY <2>6, <2>1, <2>2, <2>3, OwnersApart
         DEF LockInv, DealOwns, TypeOK, RedisType, DealType, Deals, DealGet, redis, StillMine
    <3>4. CleanupSparesOthers'
      BY <2>6, <2>1, <2>2
         DEF LockInv, DealHolds, DealOwns, DealSection, CleanupSparesOthers, TypeOK,
             RedisType, DealType, Deals, DealGet, redis, StillMine
    <3> QED BY <2>4, <3>1, <3>2, <3>3, <3>4 DEF LockInv
  <2>7. CASE DealDelSession(d)
    <3>1. DealKnows'
      BY <2>7, <2>1, OwnersApart
         DEF LockInv, DealKnows, DealSection, TypeOK, RedisType, DealType, DealDelSession
    <3>2. DealHolds'
      BY <2>7 DEF LockInv, DealHolds, DealSection, TypeOK, DealType, DealDelSession
    <3>3. DealOwns'
      BY <2>7, <2>1, <2>2, <2>3, OwnersApart
         DEF LockInv, DealOwns, TypeOK, RedisType, DealType, Deals, DealDelSession
    <3>4. CleanupSparesOthers'
      BY <2>7, <2>1, <2>2
         DEF LockInv, DealHolds, DealOwns, DealSection, CleanupSparesOthers, TypeOK,
             RedisType, DealType, Deals, DealDelSession
    <3> QED BY <2>4, <3>1, <3>2, <3>3, <3>4 DEF LockInv
  <2>8. CASE DealDelIp(d)
    <3>1. DealKnows'
      BY <2>8, <2>1, OwnersApart
         DEF LockInv, DealKnows, DealSection, TypeOK, RedisType, DealType, DealDelIp
    <3>2. DealHolds'
      BY <2>8 DEF LockInv, DealHolds, DealSection, TypeOK, DealType, DealDelIp
    <3>3. DealOwns'
      BY <2>8, <2>1, <2>2, <2>3, OwnersApart
         DEF LockInv, DealOwns, TypeOK, RedisType, DealType, Deals, DealDelIp
    <3>4. CleanupSparesOthers'
      BY <2>8, <2>1, <2>2
         DEF LockInv, DealHolds, DealOwns, DealSection, CleanupSparesOthers, TypeOK,
             RedisType, DealType, Deals, DealDelIp
    <3> QED BY <2>4, <3>1, <3>2, <3>3, <3>4 DEF LockInv
  <2>9. CASE DealDelToken(d)
    <3>1. DealKnows'
      BY <2>9, <2>1, OwnersApart
         DEF LockInv, DealKnows, DealSection, TypeOK, RedisType, DealType, DealDelToken
    <3>2. DealHolds'
      BY <2>9 DEF LockInv, DealHolds, DealSection, TypeOK, DealType, DealDelToken
    <3>3. DealOwns'
      BY <2>9, <2>1, <2>2, <2>3, OwnersApart
         DEF LockInv, DealOwns, TypeOK, RedisType, DealType, Deals, DealDelToken
    <3>4. CleanupSparesOthers'
      BY <2>9, <2>1, <2>2
         DEF LockInv, DealHolds, DealOwns, DealSection, CleanupSparesOthers, TypeOK,
             RedisType, DealType, Deals, DealDelToken
    <3> QED BY <2>4, <3>1, <3>2, <3>3, <3>4 DEF LockInv
  <2>10. CASE DealClear(d)
    <3>1. DealKnows'
      BY <2>10, <2>1, OwnersApart
         DEF LockInv, DealKnows, DealSection, TypeOK, RedisType, DealType, DealClear, redis
    <3>2. DealHolds'
      BY <2>10 DEF LockInv, DealHolds, DealSection, TypeOK, DealType, DealClear, redis
    <3>3. DealOwns'
      BY <2>10, <2>1, <2>2, <2>3, OwnersApart
         DEF LockInv, DealOwns, TypeOK, RedisType, DealType, Deals, DealClear, redis
    <3>4. CleanupSparesOthers'
      BY <2>10, <2>1, <2>2
         DEF LockInv, DealHolds, DealOwns, DealSection, CleanupSparesOthers, TypeOK,
             RedisType, DealType, Deals, DealClear, redis
    <3> QED BY <2>4, <3>1, <3>2, <3>3, <3>4 DEF LockInv
  <2>11. CASE DealRelease(d)
    <3>1. DealKnows'
      BY <2>11, <2>1, OwnersApart
         DEF LockInv, DealKnows, DealSection, TypeOK, RedisType, DealType, DealRelease, Unlocked
    <3>2. DealHolds'
      BY <2>11 DEF LockInv, DealHolds, DealSection, TypeOK, DealType, DealRelease, Unlocked
    <3>3. DealOwns'
      BY <2>11, <2>1, <2>2, <2>3, OwnersApart
         DEF LockInv, DealOwns, TypeOK, RedisType, DealType, Deals, DealRelease, Unlocked
    <3>4. CleanupSparesOthers'
      BY <2>11, <2>1, <2>2
         DEF LockInv, DealHolds, DealOwns, DealSection, CleanupSparesOthers, TypeOK,
             RedisType, DealType, Deals, DealRelease, Unlocked
    <3> QED BY <2>4, <3>1, <3>2, <3>3, <3>4 DEF LockInv
  <2> QED BY <1>12, <2>5, <2>6, <2>7, <2>8, <2>9, <2>10, <2>11 DEF DealStep
<1>13. ASSUME NEW s \in Server, LoginStep(s) PROVE LockInv'
  <2>1. queue[s] # <<>>
    BY <1>13 DEF LoginStep, At, LoginCheck, LoginDel, LoginInfo, LoginLock, LoginGetIp,
                 LoginRpc, LoginBind, LoginAdd, LoginSetSession, LoginUnlock, LoginToken
  <2>2. Front(s) \in Conn /\ FrontUser(s) \in User
    BY <2>1, FrontType
  <2>3. UNCHANGED deals
    BY <1>13 DEF LoginStep, LoginCheck, LoginDel, LoginInfo, LoginLock, LoginGetIp,
                 LoginRpc, LoginBind, LoginAdd, LoginSetSession, LoginUnlock, LoginToken
  <2>4. DealKnows' /\ DealHolds' /\ DealOwns' /\ CleanupSparesOthers'
    <3>1. breached => breached'
      BY <1>13 DEF LoginStep, LoginCheck, LoginDel, LoginInfo, LoginLock, LoginGetIp,
                   LoginRpc, LoginBind, LoginAdd, LoginSetSession, LoginUnlock, LoginToken, faults
    <3>2. \/ lock' = lock
          \/ lock[FrontUser(s)] = None /\ lock' = [lock EXCEPT ![FrontUser(s)] = Worker(s)]
          \/ lock[FrontUser(s)] = Worker(s) /\ lock' = [lock EXCEPT ![FrontUser(s)] = None]
      BY <1>13 DEF LoginStep, LoginCheck, LoginDel, LoginInfo, LoginLock, LoginGetIp,
                   LoginRpc, LoginBind, LoginAdd, LoginSetSession, LoginUnlock, LoginToken,
                   Unlocked, redis
    <3>3. \A u \in User : lock'[u] = lock[u] \/ lock'[u] \in {Worker(s), None}
      BY <3>2, <2>2 DEF TypeOK, RedisType
    <3>4. \A u \in User, d \in Deals : lock[u] = d => lock'[u] = lock[u]
      BY <3>2, <2>2, OwnersApart DEF TypeOK, RedisType
    <3>5. \A u \in User : usession'[u] = usession[u] \/ lock[u] = Worker(s) \/ breached
      <4>1. CASE LoginSetSession(s)
        BY <4>1, <2>2 DEF LoginSetSession, At, LockInv, WorkerOwns, Section, TypeOK, RedisType
      <4>2. CASE ~LoginSetSession(s)
        BY <1>13, <4>2 DEF LoginStep, LoginCheck, LoginDel, LoginInfo, LoginLock, LoginGetIp,
                           LoginRpc, LoginBind, LoginAdd, LoginUnlock, LoginToken, redis
      <4> QED BY <4>1, <4>2
    <3> QED BY <2>3, <3>1, <3>3, <3>4, <3>5, WorkerSparesDeals
  <2>5. CASE LoginCheck(s)
    <3>1. Busy' /\ TargetSet'
      BY <2>5, <2>1, <2>2
         DEF LockInv, Busy, TargetSet, TypeOK, RedisType, WorkerType, LoginCheck, At, Goto,
             redis, faults, Answer
    <3>2. /\ lock' = lock /\ held' = held /\ wpc[s] = "idle"
          /\ \A t \in Server \ {s} : wpc'[t] = wpc[t] /\ queue'[t] = queue[t]
      BY <2>5 DEF TypeOK, WorkerType, LoginCheck, At, Goto, Answer, redis
    <3>3. WorkerKnows'
      BY <3>2 DEF LockInv, WorkerKnows, Section, FrontUser, Front
    <3>4. WorkerOwns'
      BY <2>5, <2>1, <2>2, OwnersApart
         DEF LockInv, Busy, WorkerKnows, WorkerOwns, Section, TypeOK, RedisType, WorkerType,
             FaultType, Front, FrontUser, LoginCheck, At, Goto, redis, faults, Answer
    <3> QED BY <2>4, <3>1, <3>3, <3>4 DEF LockInv
  <2>6. CASE LoginDel(s)
    <3>1. Busy' /\ TargetSet'
      BY <2>6, <2>1, <2>2
         DEF LockInv, Busy, TargetSet, TypeOK, RedisType, WorkerType, LoginDel, At, Goto, faults
    <3>2. WorkerKnows'
      BY <2>6, <2>1, <2>2, OwnersApart
         DEF LockInv, WorkerKnows, Section, TypeOK, RedisType, WorkerType, Front, FrontUser,
             LoginDel, At, Goto, faults
    <3>3. WorkerOwns'
      BY <2>6, <2>1, <2>2, OwnersApart
         DEF LockInv, Busy, WorkerKnows, WorkerOwns, Section, TypeOK, RedisType, WorkerType,
             FaultType, Front, FrontUser, LoginDel, At, Goto, faults
    <3> QED BY <2>4, <3>1, <3>2, <3>3 DEF LockInv
  <2>7. CASE LoginInfo(s)
    <3>1. /\ lock' = lock /\ held' = held /\ wpc[s] = "info"
           /\ \A t \in Server \ {s} : wpc'[t] = wpc[t] /\ queue'[t] = queue[t]
      BY <2>7 DEF TypeOK, WorkerType, LoginInfo, At, Goto, Answer, redis
    <3>2. Busy' /\ TargetSet'
      BY <2>7, <2>1, <2>2
         DEF LockInv, Busy, TargetSet, TypeOK, RedisType, WorkerType, LoginInfo, At, Goto,
             redis, faults, Answer
    <3>3. WorkerKnows'
      BY <3>1 DEF LockInv, WorkerKnows, Section, FrontUser, Front
    <3>4. WorkerOwns'
      BY <2>7, <2>1, <2>2, OwnersApart
         DEF LockInv, Busy, WorkerKnows, WorkerOwns, Section, TypeOK, RedisType, WorkerType,
             FaultType, Front, FrontUser, LoginInfo, At, Goto, redis, faults, Answer
    <3> QED BY <2>4, <3>2, <3>3, <3>4 DEF LockInv
  <2>8. CASE LoginLock(s)
    <3>1. Busy' /\ TargetSet'
      BY <2>8, <2>1, <2>2
         DEF LockInv, Busy, TargetSet, TypeOK, RedisType, WorkerType, LoginLock, At, Goto
    <3>2. WorkerKnows'
      BY <2>8, <2>1, <2>2, OwnersApart
         DEF LockInv, WorkerKnows, Section, TypeOK, RedisType, WorkerType, Front, FrontUser,
             LoginLock, At, Goto
    <3>3. WorkerOwns'
      BY <2>8, <2>1, <2>2, OwnersApart
         DEF LockInv, Busy, WorkerKnows, WorkerOwns, Section, TypeOK, RedisType, WorkerType,
             FaultType, Front, FrontUser, LoginLock, At, Goto
    <3> QED BY <2>4, <3>1, <3>2, <3>3 DEF LockInv
  <2>9. CASE LoginGetIp(s)
    <3>1. Busy' /\ TargetSet'
      BY <2>9, <2>1, <2>2
         DEF LockInv, Busy, TargetSet, TypeOK, RedisType, WorkerType, LoginGetIp, At, Goto,
             redis, faults
    <3>2. WorkerKnows'
      BY <2>9, <2>1, <2>2, OwnersApart
         DEF LockInv, WorkerKnows, Section, TypeOK, RedisType, WorkerType, Front, FrontUser,
             LoginGetIp, At, Goto, redis, faults
    <3>3. WorkerOwns'
      BY <2>9, <2>1, <2>2, OwnersApart
         DEF LockInv, Busy, WorkerKnows, WorkerOwns, Section, TypeOK, RedisType, WorkerType,
             FaultType, Front, FrontUser, LoginGetIp, At, Goto, redis, faults
    <3> QED BY <2>4, <3>1, <3>2, <3>3 DEF LockInv
  <2>10. CASE LoginRpc(s)
    <3>1. Busy' /\ TargetSet'
      BY <2>10, <2>1, <2>2
         DEF LockInv, Busy, TargetSet, TypeOK, RedisType, WorkerType, LoginRpc, At, Goto,
             redis, faults
    <3>2. WorkerKnows'
      BY <2>10, <2>1, <2>2, OwnersApart
         DEF LockInv, WorkerKnows, Section, TypeOK, RedisType, WorkerType, Front, FrontUser,
             LoginRpc, At, Goto, redis, faults
    <3>3. WorkerOwns'
      BY <2>10, <2>1, <2>2, OwnersApart
         DEF LockInv, Busy, WorkerKnows, WorkerOwns, Section, TypeOK, RedisType, WorkerType,
             FaultType, Front, FrontUser, LoginRpc, At, Goto, redis, faults
    <3> QED BY <2>4, <3>1, <3>2, <3>3 DEF LockInv
  <2>11. CASE LoginBind(s)
    <3>1. Busy' /\ TargetSet'
      BY <2>11, <2>1, <2>2
         DEF LockInv, Busy, TargetSet, TypeOK, RedisType, WorkerType, LoginBind, At, Goto,
             faults
    <3>2. WorkerKnows'
      BY <2>11, <2>1, <2>2, OwnersApart
         DEF LockInv, WorkerKnows, Section, TypeOK, RedisType, WorkerType, Front, FrontUser,
             LoginBind, At, Goto, faults
    <3>3. WorkerOwns'
      BY <2>11, <2>1, <2>2, OwnersApart
         DEF LockInv, Busy, WorkerKnows, WorkerOwns, Section, TypeOK, RedisType, WorkerType,
             FaultType, Front, FrontUser, LoginBind, At, Goto, faults
    <3> QED BY <2>4, <3>1, <3>2, <3>3 DEF LockInv
  <2>12. CASE LoginAdd(s)
    <3>1. Busy' /\ TargetSet'
      BY <2>12, <2>1, <2>2
         DEF LockInv, Busy, TargetSet, TypeOK, RedisType, WorkerType, LoginAdd, At, Goto,
             redis, faults
    <3>2. WorkerKnows'
      BY <2>12, <2>1, <2>2, OwnersApart
         DEF LockInv, WorkerKnows, Section, TypeOK, RedisType, WorkerType, Front, FrontUser,
             LoginAdd, At, Goto, redis, faults
    <3>3. WorkerOwns'
      BY <2>12, <2>1, <2>2, OwnersApart
         DEF LockInv, Busy, WorkerKnows, WorkerOwns, Section, TypeOK, RedisType, WorkerType,
             FaultType, Front, FrontUser, LoginAdd, At, Goto, redis, faults
    <3> QED BY <2>4, <3>1, <3>2, <3>3 DEF LockInv
  <2>13. CASE LoginSetSession(s)
    <3>1. Busy' /\ TargetSet'
      BY <2>13, <2>1, <2>2
         DEF LockInv, Busy, TargetSet, TypeOK, RedisType, WorkerType, LoginSetSession, At,
             Goto, faults
    <3>2. WorkerKnows'
      BY <2>13, <2>1, <2>2, OwnersApart
         DEF LockInv, WorkerKnows, Section, TypeOK, RedisType, WorkerType, Front, FrontUser,
             LoginSetSession, At, Goto, faults
    <3>3. WorkerOwns'
      BY <2>13, <2>1, <2>2, OwnersApart
         DEF LockInv, Busy, WorkerKnows, WorkerOwns, Section, TypeOK, RedisType, WorkerType,
             FaultType, Front, FrontUser, LoginSetSession, At, Goto, faults
    <3> QED BY <2>4, <3>1, <3>2, <3>3 DEF LockInv
  <2>14. CASE LoginUnlock(s)
    <3>1. Busy' /\ TargetSet'
      BY <2>14, <2>1, <2>2
         DEF LockInv, Busy, TargetSet, TypeOK, RedisType, WorkerType, LoginUnlock, At, Goto,
             faults, Unlocked
    <3>2. WorkerKnows'
      BY <2>14, <2>1, <2>2, OwnersApart
         DEF LockInv, WorkerKnows, Section, TypeOK, RedisType, WorkerType, Front, FrontUser,
             LoginUnlock, At, Goto, faults, Unlocked
    <3>3. WorkerOwns'
      BY <2>14, <2>1, <2>2, OwnersApart
         DEF LockInv, Busy, WorkerKnows, WorkerOwns, Section, TypeOK, RedisType, WorkerType,
             FaultType, Front, FrontUser, LoginUnlock, At, Goto, faults, Unlocked
    <3> QED BY <2>4, <3>1, <3>2, <3>3 DEF LockInv
  <2>15. CASE LoginToken(s)
    <3>1. Busy' /\ TargetSet'
      BY <2>15, <2>1, <2>2
         DEF LockInv, Busy, TargetSet, TypeOK, RedisType, WorkerType, LoginToken, At, Goto,
             faults, Answer
    <3>2. WorkerKnows'
      BY <2>15, <2>1, <2>2, OwnersApart
         DEF LockInv, WorkerKnows, Section, TypeOK, RedisType, WorkerType, Front, FrontUser,
             LoginToken, At, Goto, faults, Answer
    <3>3. WorkerOwns'
      BY <2>15, <2>1, <2>2, OwnersApart
         DEF LockInv, Busy, WorkerKnows, WorkerOwns, Section, TypeOK, RedisType, WorkerType,
             FaultType, Front, FrontUser, LoginToken, At, Goto, faults, Answer
    <3> QED BY <2>4, <3>1, <3>2, <3>3 DEF LockInv
  <2> QED BY <1>13, <2>5, <2>6, <2>7, <2>8, <2>9, <2>10, <2>11, <2>12, <2>13, <2>14, <2>15
          DEF LoginStep
<1>14. ASSUME NEW s \in Server, Crash(s) PROVE LockInv'
  <2>1. Busy' /\ TargetSet'
    BY <1>14
       DEF LockInv, Busy, TargetSet, Crash, DealsOf, TypeOK, RedisType, WorkerType, DealType,
           FaultType
  <2>2. WorkerKnows'
    BY <1>14, OwnersApart
       DEF LockInv, WorkerKnows, FrontUser, Front, Section, Crash, DealsOf, TypeOK, RedisType,
           WorkerType, DealType, FaultType
  <2>3. WorkerOwns'
    BY <1>14, OwnersApart
       DEF LockInv, Busy, WorkerOwns, FrontUser, Front, Section, Crash, DealsOf, TypeOK,
           RedisType, WorkerType, DealType, FaultType
  <2>4. DealKnows'
    BY <1>14, OwnersApart
       DEF LockInv, DealKnows, Crash, DealsOf, TypeOK, RedisType, WorkerType, DealType,
           FaultType
  <2>5. DealHolds'
    BY <1>14
       DEF LockInv, DealHolds, DealSection, Crash, DealsOf, TypeOK, RedisType, WorkerType,
           DealType, FaultType
  <2>6. DealOwns'
    BY <1>14, OwnersApart
       DEF LockInv, DealOwns, Deals, Crash, DealsOf, TypeOK, RedisType, WorkerType, DealType,
           FaultType
  <2>7. CleanupSparesOthers'
    BY <1>14
       DEF LockInv, CleanupSparesOthers, Crash, DealsOf, TypeOK, RedisType, WorkerType,
           DealType, FaultType
  <2> QED BY <2>1, <2>2, <2>3, <2>4, <2>5, <2>6, <2>7 DEF LockInv
<1>15. ASSUME NEW u \in User, LeaseEnd(u) PROVE LockInv'
  <2>1. UNCHANGED <<usession, workers, deals>>
    BY <1>15 DEF LeaseEnd
  <2>2. lock' = [lock EXCEPT ![u] = None] /\ ((lock[u] = Orphan /\ breached' = breached) \/ breached')
    BY <1>15 DEF LeaseEnd
  <2>3. Busy' /\ TargetSet' /\ DealHolds'
    BY <2>1 DEF LockInv, Busy, TargetSet, DealHolds, workers, deals
  <2>4. WorkerKnows' /\ DealKnows'
    BY <2>1, <2>2, OwnersApart
       DEF LockInv, WorkerKnows, DealKnows, FrontUser, Front, TypeOK, RedisType, workers, deals
  <2>5. WorkerOwns'
    BY <2>1, <2>2, OwnersApart
       DEF LockInv, WorkerOwns, FrontUser, Front, TypeOK, RedisType, workers
  <2>6. DealOwns' /\ CleanupSparesOthers'
    BY <2>1, <2>2, OwnersApart
       DEF LockInv, DealOwns, CleanupSparesOthers, TypeOK, RedisType, deals
  <2> QED BY <2>3, <2>4, <2>5, <2>6 DEF LockInv
<1>16. CASE UNCHANGED vars
  BY <1>16, LockFrame DEF vars, lockVars, redis, faults
<1> QED BY <1>1, <1>2, <1>3, <1>4, <1>5, <1>6, <1>7, <1>8, <1>9, <1>10, <1>11, <1>12, <1>13,
           <1>14, <1>15, <1>16, <1>17
        DEF Next, IoStep, TimerStep

LEMMA Inductive == Spec => [](TypeOK /\ LockInv)
<1>1. Init => LockInv
  <2> SUFFICES ASSUME Init PROVE LockInv
    OBVIOUS
  <2>1. Busy /\ TargetSet /\ WorkerKnows /\ DealKnows
    BY OwnersApart DEF Init, Busy, TargetSet, WorkerKnows, DealKnows
  <2>2. WorkerOwns /\ DealHolds /\ DealOwns /\ CleanupSparesOthers
    BY DEF Init, WorkerOwns, DealHolds, DealOwns, CleanupSparesOthers, Section, DealSection
  <2> QED BY <2>1, <2>2 DEF LockInv
<1>2. TypeOK /\ LockInv /\ [Next]_vars => (TypeOK /\ LockInv)'
  BY TypeStep, LockStep DEF LockInv
<1> QED BY <1>1, <1>2, TypeInit, PTL DEF Spec

\* Every variable of the registry keeps its type, whatever fails.
THEOREM TypeCorrect == Spec => []TypeOK
BY Inductive, PTL

\* A lock in Redis has an owner at work behind it, with every fault allowed:
\* no early return and no lost race leaves lock_<uid> behind.
THEOREM NoLockLeft == Spec => []LockHasHolder
<1>1. TypeOK /\ LockInv => LockHasHolder
  BY DEF LockInv, Busy, WorkerKnows, DealKnows, LockHasHolder, Section, DealSection
<1> QED BY <1>1, Inductive, PTL

\* Unless a lock fault has happened, the DELs of a cleanup hit only the keys
\* that its own session had registered, also with crashes and failing kicks.
THEOREM CleanupSafe == Spec => []CleanupSparesOthers
<1>1. LockInv => CleanupSparesOthers
  BY DEF LockInv
<1> QED BY <1>1, Inductive, PTL
-----------------------------------------------------------------------------
(* Where a session can be.  A connection is accepted once, so a session that *)
(* is in a map, in a queue or in Redis has its server, and is registered in  *)
(* the maps of that server only.                                             *)

SockPlace == \A c \in Conn : sock[c] \in {"new", "issued"} => home[c] = None
ReadPlace == \A c \in Conn : reading[c] => home[c] \in Server
PushPlace == \A c \in Conn : reply[c] = "pushing" => home[c] \in Server /\ inserted[c]
SessionPlace == \A s \in Server : \A c \in sessions[s] : home[c] = s /\ inserted[c]
UserPlace == \A s \in Server, u \in User : users[s][u] # None =>
    home[users[s][u]] = s /\ inserted[users[s][u]]
QueuePlace == \A s \in Server : \A i \in 1..Len(queue[s]) :
    home[queue[s][i]] = s /\ inserted[queue[s][i]]
KeyPlace == \A u \in User : usession[u] # None => home[usession[u]] # None

Placed == /\ SockPlace /\ ReadPlace /\ PushPlace /\ SessionPlace
          /\ UserPlace /\ QueuePlace /\ KeyPlace

(* What is true of the sessions and the keys of a user while the lock has a  *)
(* certain owner, who is at a certain step.                                  *)

NoneLive(u) == \A t \in Server : ~Live(t, u)
OnlyLive(u, c) == \A t \in Server : Live(t, u) => users[t][u] = c
Registered(u) == \A t \in Server : Live(t, u) => usession[u] = users[t][u] /\ uip[u] = t

WorkerLive(s, u) ==
    /\ wpc[s] \in {"getip", "rpc", "unlock"} => Registered(u)
    /\ wpc[s] = "rpc" => target[s] = uip[u] /\ ~Live(s, u)
    /\ wpc[s] \in {"bind", "add"} => NoneLive(u)
    /\ wpc[s] \in {"add", "setsession"} => uip[u] = s
    /\ wpc[s] = "setsession" => OnlyLive(u, Front(s))

DealLive(d, u) ==
    /\ dpc[d] \in {"get", "delsession", "release"} => Registered(u)
    /\ dpc[d] \in {"delip", "deltoken"} => OnlyLive(u, d[2])
    /\ dpc[d] = "clear" => Registered(u) \/ OnlyLive(u, d[2])

LiveStage(u) ==
    /\ lock[u] \in {None, Orphan} => Registered(u)
    /\ \A s \in Server : lock[u] = Worker(s) => WorkerLive(s, u)
    /\ \A d \in Deals : lock[u] = d => DealLive(d, u)

Agree(u) == \/ usession[u] = None /\ uip[u] = None
            \/ usession[u] # None /\ uip[u] = home[usession[u]]

WorkerKeys(s, u) ==
    /\ wpc[s] \in {"getip", "rpc", "bind", "unlock"} => Agree(u)
    /\ wpc[s] \in {"add", "setsession"} => uip[u] = s

DealKeys(d, u) ==
    /\ dpc[d] \in {"get", "delsession", "clear", "release"} => Agree(u)
    /\ dpc[d] \in {"delip", "deltoken"} => usession[u] = None
    /\ dpc[d] = "deltoken" => uip[u] = None

KeyStage(u) ==
    /\ lock[u] # Orphan
    /\ lock[u] = None => Agree(u)
    /\ \A s \in Server : lock[u] = Worker(s) => WorkerKeys(s, u)
    /\ \A d \in Deals : lock[u] = d => DealKeys(d, u)

Stage(u) == /\ ~breached /\ ~rpcFailed => LiveStage(u)
            /\ ~breached /\ ~crashed => KeyStage(u)

Settled == \A c \in Conn : /\ home[c] # None => home'[c] = home[c]
                           /\ inserted[c] => inserted'[c]

\* What stays where it is, or goes away, stays in its place.
LEMMA PlaceFrame ==
    ASSUME TypeOK, Placed, Settled
    PROVE  /\ (\A c \in Conn : reading'[c] => reading[c]) => ReadPlace'
           /\ (\A c \in Conn : reply'[c] = "pushing" => reply[c] = "pushing") => PushPlace'
           /\ (\A s \in Server : sessions'[s] \subseteq sessions[s]) => SessionPlace'
           /\ (\A s \in Server, u \in User : users'[s][u] \in {users[s][u], None})
                => UserPlace'
           /\ (\A s \in Server : queue'[s] = queue[s]
                                   \/ (queue[s] # <<>> /\ queue'[s] = Tail(queue[s])))
                => QueuePlace'
           /\ (\A u \in User : usession'[u] \in {usession[u], None}) => KeyPlace'
<1> USE RegistryAssumption DEF Settled, TypeOK
<1>1. ASSUME \A c \in Conn : reading'[c] => reading[c] PROVE ReadPlace'
  BY <1>1 DEF Placed, ReadPlace
<1>2. ASSUME \A c \in Conn : reply'[c] = "pushing" => reply[c] = "pushing" PROVE PushPlace'
  BY <1>2 DEF Placed, PushPlace
<1>3. ASSUME \A s \in Server : sessions'[s] \subseteq sessions[s] PROVE SessionPlace'
  BY <1>3 DEF Placed, SessionPlace, MapType
<1>4. ASSUME \A s \in Server, u \in User : users'[s][u] \in {users[s][u], None}
      PROVE  UserPlace'
  <2> SUFFICES ASSUME NEW s \in Server, NEW u \in User, users'[s][u] # None
               PROVE  home'[users'[s][u]] = s /\ inserted'[users'[s][u]]
    BY DEF UserPlace
  <2>1. users'[s][u] = users[s][u] /\ users[s][u] \in Conn
    BY <1>4 DEF MapType
  <2>2. home[users[s][u]] = s /\ inserted[users[s][u]]
    BY <2>1 DEF Placed, UserPlace
  <2> QED BY <2>1, <2>2
<1>5. ASSUME \A s \in Server : queue'[s] = queue[s]
                                 \/ (queue[s] # <<>> /\ queue'[s] = Tail(queue[s]))
      PROVE  QueuePlace'
  <2> SUFFICES ASSUME NEW s \in Server, NEW i \in 1..Len(queue'[s])
               PROVE  home'[queue'[s][i]] = s /\ inserted'[queue'[s][i]]
    BY DEF QueuePlace
  <2>1. queue[s] \in Seq(Conn)
    BY DEF WorkerType
  <2>2. \E j \in 1..Len(queue[s]) : queue'[s][i] = queue[s][j]
    <3>1. CASE queue'[s] = queue[s]
      BY <3>1
    <3>2. CASE queue[s] # <<>> /\ queue'[s] = Tail(queue[s])
      <4>1. Len(queue'[s]) = Len(queue[s]) - 1 /\ Len(queue[s]) \in Nat
        BY <2>1, <3>2, HeadTailProperties, LenProperties
      <4>2. i + 1 \in 1..Len(queue[s]) /\ queue'[s][i] = queue[s][i + 1]
        BY <2>1, <3>2, <4>1
      <4> QED BY <4>2
    <3> QED BY <1>5, <3>1, <3>2
  <2>3. PICK j \in 1..Len(queue[s]) : queue'[s][i] = queue[s][j]
    BY <2>2
  <2>4. queue[s][j] \in Conn
    BY <2>1, ElementOfSeq
  <2> QED BY <2>3, <2>4 DEF Placed, QueuePlace
<1>6. ASSUME \A u \in User : usession'[u] \in {usession[u], None} PROVE KeyPlace'
  BY <1>6 DEF Placed, KeyPlace, RedisType
<1> QED BY <1>1, <1>2, <1>3, <1>4, <1>5, <1>6

placeVars == <<sock, home, inserted, reading, reply, maps, queue, usession>>

LEMMA PlaceUnchanged == Placed /\ UNCHANGED placeVars => Placed'
<1> SUFFICES ASSUME Placed, UNCHANGED placeVars PROVE Placed'
  OBVIOUS
<1> USE DEF Placed, placeVars, maps
<1>1. SockPlace' /\ ReadPlace' /\ PushPlace' /\ SessionPlace' /\ UserPlace'
  BY DEF SockPlace, ReadPlace, PushPlace, SessionPlace, UserPlace
<1>2. QueuePlace' /\ KeyPlace'
  BY DEF QueuePlace, KeyPlace
<1> QED BY <1>1, <1>2

\* ClearSession only takes away.
LEMMA ClearTakes ==
    ASSUME TypeOK, NEW c \in Conn, ClearSession(c)
    PROVE  \A s \in Server :
             /\ sessions'[s] \subseteq sessions[s]
             /\ home[c] = s => c \notin sessions'[s]
             /\ \A u \in User : users'[s][u] \in {users[s][u], None}
<1> SUFFICES ASSUME NEW s \in Server
             PROVE  /\ sessions'[s] \subseteq sessions[s]
                    /\ home[c] = s => c \notin sessions'[s]
                    /\ \A u \in User : users'[s][u] \in {users[s][u], None}
  OBVIOUS
<1>1. sessions'[s] \subseteq sessions[s] /\ (home[c] = s => c \notin sessions'[s])
  BY DEF TypeOK, MapType, ClearSession
<1>2. users' = users \/ users' = [users EXCEPT ![home[c]][UserOf[c]] = None]
  BY DEF ClearSession, UsersWithout
<1>3. \A u \in User : users'[s][u] \in {users[s][u], None}
  BY <1>2, RegistryAssumption DEF TypeOK, MapType
<1> QED BY <1>1, <1>3

\* So does a kick, and the user is not live there any more.
LEMMA KickTakes ==
    ASSUME TypeOK, Placed, NEW t \in Server, NEW u \in User, Kick(t, u)
    PROVE  /\ \A s \in Server : /\ sessions'[s] \subseteq sessions[s]
                                /\ \A v \in User : users'[s][v] \in {users[s][v], None}
           /\ ~Live(t, u)'
<1> DEFINE c == users[t][u]
<1>1. CASE c = None
  BY <1>1 DEF Kick, Live
<1>2. CASE c # None
  <2>1. c \in Conn /\ home[c] = t
    BY <1>2 DEF TypeOK, MapType, Placed, UserPlace
  <2>2. ClearSession(c)
    BY <1>2 DEF Kick
  <2> HIDE DEF c
  <2>3. \A s \in Server : /\ sessions'[s] \subseteq sessions[s]
                          /\ home[c] = s => c \notin sessions'[s]
                          /\ \A v \in User : users'[s][v] \in {users[s][v], None}
    BY <2>1, <2>2, ClearTakes
  <2> QED BY <2>1, <2>3 DEF Live, c
<1> QED BY <1>1, <1>2

LEMMA PlaceInit == Init => Placed
<1> SUFFICES ASSUME Init PROVE Placed
  OBVIOUS
<1>1. SockPlace /\ ReadPlace /\ PushPlace /\ SessionPlace /\ UserPlace /\ KeyPlace
  BY DEF Init, SockPlace, ReadPlace, PushPlace, SessionPlace, UserPlace, KeyPlace
<1>2. QueuePlace
  BY DEF Init, QueuePlace
<1> QED BY <1>1, <1>2 DEF Placed

\* The steps of a connection.
LEMMA ConnPlace ==
    ASSUME TypeOK, LockInv, Placed, NEW c \in Conn,
           \/ insertToken(c) \/ RecvLogin(c) \/ RecvRemoved(c) \/ Disconnect(c)
           \/ IoStep(c) \/ TimerStep(c) \/ \E s \in Server : Start(c, s)
    PROVE  Placed'
<1> USE RegistryAssumption DEF TypeOK, ConnType
<1>1. Settled
  BY DEF Settled, IoStep, TimerStep, insertToken, RecvLogin, RecvRemoved, Disconnect, Insert,
         PushMsg, ReadError, WriteError, TimerClose, TimerDeal, Start, conns, Placed, SockPlace
<1>2. SockPlace'
  BY DEF IoStep, TimerStep, insertToken, RecvLogin, RecvRemoved, Disconnect, Insert,
         PushMsg, ReadError, WriteError, TimerClose, TimerDeal, Start, conns, Placed, SockPlace
<1>3. UNCHANGED <<users, usession>>
  BY DEF IoStep, TimerStep, insertToken, RecvLogin, RecvRemoved, Disconnect, Insert,
         PushMsg, ReadError, WriteError, TimerClose, TimerDeal, Start, maps, redis
<1>4. UserPlace' /\ KeyPlace'
  BY <1>1, <1>3, PlaceFrame
<1>5. ReadPlace'
  BY DEF IoStep, TimerStep, insertToken, RecvLogin, RecvRemoved, Disconnect, Insert,
         PushMsg, ReadError, WriteError, TimerClose, TimerDeal, Start, conns, Placed, ReadPlace,
         PushPlace, SockPlace
<1>6. PushPlace'
  <2>1. CASE RecvLogin(c)
    BY <2>1 DEF RecvLogin, Placed, PushPlace, ReadPlace, SessionPlace
  <2>2. CASE ~RecvLogin(c)
    <3>1. \A e \in Conn : reply'[e] = "pushing" => reply[e] = "pushing"
      BY <2>2 DEF IoStep, TimerStep, insertToken, RecvRemoved, Disconnect, Insert,
             PushMsg, ReadError, WriteError, TimerClose, TimerDeal, Start, conns
    <3> QED BY <1>1, <3>1, PlaceFrame
  <2> QED BY <2>1, <2>2
<1>7. SessionPlace'
  <2>1. CASE Insert(c)
    BY <2>1 DEF Insert, Placed, SessionPlace, MapType
  <2>2. CASE ~Insert(c)
    <3>1. UNCHANGED sessions
      BY <2>2 DEF IoStep, TimerStep, insertToken, RecvLogin, RecvRemoved, Disconnect,
             PushMsg, ReadError, WriteError, TimerClose, TimerDeal, Start, maps
    <3> QED BY <1>1, <3>1, PlaceFrame
  <2> QED BY <2>1, <2>2
<1>8. QueuePlace'
  <2>1. CASE PushMsg(c)
    <3> SUFFICES ASSUME NEW s \in Server, NEW i \in 1..Len(queue'[s])
                 PROVE  home'[queue'[s][i]] = s /\ inserted'[queue'[s][i]]
      BY DEF QueuePlace
    <3>1. queue[s] \in Seq(Conn) /\ home' = home /\ inserted' = inserted
      BY <2>1 DEF WorkerType, PushMsg
    <3>2. CASE s = home[c]
      <4>1. queue'[s] = Append(queue[s], c)
        BY <2>1, <3>2 DEF WorkerType, PushMsg
      <4>2. inserted[c]
        BY <2>1 DEF PushMsg, Placed, PushPlace
      <4>3. Len(queue'[s]) = Len(queue[s]) + 1 /\ Len(queue[s]) \in Nat
        BY <3>1, <4>1, AppendProperties, LenProperties
      <4>4. CASE i = Len(queue[s]) + 1
        BY <3>1, <3>2, <4>1, <4>2, <4>4, AppendProperties
      <4>5. CASE i # Len(queue[s]) + 1
        <5>1. i \in 1..Len(queue[s]) /\ queue'[s][i] = queue[s][i]
          BY <3>1, <4>1, <4>3, <4>5, AppendProperties
        <5> QED BY <3>1, <5>1 DEF Placed, QueuePlace
      <4> QED BY <4>4, <4>5
    <3>3. CASE s # home[c]
      <4>1. queue'[s] = queue[s]
        BY <2>1, <3>3 DEF WorkerType, PushMsg
      <4> QED BY <3>1, <4>1 DEF Placed, QueuePlace
    <3> QED BY <3>2, <3>3
  <2>2. CASE ~PushMsg(c)
    <3>1. UNCHANGED queue
      BY <2>2 DEF IoStep, TimerStep, insertToken, RecvLogin, RecvRemoved, Disconnect, Insert,
             ReadError, WriteError, TimerClose, TimerDeal, Start, workers
    <3> QED BY <1>1, <3>1, PlaceFrame
  <2> QED BY <2>1, <2>2
<1> QED BY <1>2, <1>4, <1>5, <1>6, <1>7, <1>8 DEF Placed

\* The others take away only, but for SetSession and UserManager's AddSession,
\* which register the session whose login is at the front of its server's queue.
LEMMA PlaceStep == TypeOK /\ LockInv /\ Placed /\ [Next]_vars => Placed'
<1> SUFFICES ASSUME TypeOK, LockInv, Placed, [Next]_vars PROVE Placed'
  OBVIOUS
<1>1. ASSUME UNCHANGED <<sock, home, inserted, reading>> PROVE SockPlace' /\ Settled
  BY <1>1 DEF SockPlace, Settled, Placed
<1>2. ASSUME NEW d \in Deals, DealStep(d) PROVE Placed'
  <2>1. UNCHANGED <<conns, queue>>
    BY <1>2 DEF DealStep, DealLock, DealGet, DealDelSession, DealDelIp, DealDelToken, DealClear,
                DealRelease, workers
  <2>2. SockPlace' /\ Settled
    BY <1>1, <2>1 DEF conns
  <2>3. \A u \in User : usession'[u] \in {usession[u], None}
    BY <1>2 DEF DealStep, DealLock, DealGet, DealDelSession, DealDelIp, DealDelToken, DealClear,
                DealRelease, redis, TypeOK, RedisType
  <2>4. \A s \in Server : /\ sessions'[s] \subseteq sessions[s]
                          /\ \A u \in User : users'[s][u] \in {users[s][u], None}
    <3>1. CASE DealClear(d)
      <4>1. d[2] \in Conn /\ ClearSession(d[2])
        BY <3>1 DEF DealClear, Deals
      <4> QED BY <4>1, ClearTakes
    <3>2. CASE ~DealClear(d)
      BY <1>2, <3>2 DEF DealStep, DealLock, DealGet, DealDelSession, DealDelIp, DealDelToken,
                        DealRelease, maps
    <3> QED BY <3>1, <3>2
  <2> QED BY <2>1, <2>2, <2>3, <2>4, PlaceFrame DEF Placed, conns
<1>3. ASSUME NEW s \in Server, LoginStep(s) PROVE Placed'
  <2>1. queue[s] # <<>>
    BY <1>3 DEF LoginStep, At, LoginCheck, LoginDel, LoginInfo, LoginLock, LoginGetIp,
                LoginRpc, LoginBind, LoginAdd, LoginSetSession, LoginUnlock, LoginToken
  <2>2. Front(s) \in Conn /\ FrontUser(s) \in User /\ home[Front(s)] = s /\ inserted[Front(s)]
    <3>1. queue[s] \in Seq(Conn)
      BY DEF TypeOK, WorkerType
    <3>2. 1 \in 1..Len(queue[s]) /\ Front(s) = queue[s][1]
      BY <2>1, <3>1, LenProperties, EmptySeq DEF Front
    <3> QED BY <2>1, <3>2, FrontType DEF Placed, QueuePlace
  <2>3. UNCHANGED <<sock, home, inserted, reading>>
    BY <1>3 DEF LoginStep, LoginCheck, LoginDel, LoginInfo, LoginLock, LoginGetIp,
                LoginRpc, LoginBind, LoginAdd, LoginSetSession, LoginUnlock, LoginToken, conns
  <2>4. SockPlace' /\ Settled /\ ReadPlace'
    BY <1>1, <2>3, PlaceFrame
  <2>5. PushPlace' /\ QueuePlace'
    <3>1. UNCHANGED <<reply, queue>> \/ \E code \in {"ok", "refused"} : Answer(s, code)
      BY <1>3 DEF LoginStep, LoginCheck, LoginDel, LoginInfo, LoginLock, LoginGetIp,
                  LoginRpc, LoginBind, LoginAdd, LoginSetSession, LoginUnlock, LoginToken, conns
    <3>2. \A c \in Conn : reply'[c] = "pushing" => reply[c] = "pushing"
      BY <3>1 DEF Answer, TypeOK, ConnType
    <3>3. \A t \in Server : queue'[t] = queue[t] \/ (queue[t] # <<>> /\ queue'[t] = Tail(queue[t]))
      BY <2>1, <3>1 DEF Answer, TypeOK, WorkerType
    <3> QED BY <2>4, <3>2, <3>3, PlaceFrame
  <2>6. KeyPlace'
    <3>1. CASE LoginSetSession(s)
      BY <2>2, <2>4, <3>1, RegistryAssumption
         DEF LoginSetSession, Settled, Placed, KeyPlace, TypeOK, RedisType
    <3>2. CASE ~LoginSetSession(s)
      <4>1. UNCHANGED usession
        BY <1>3, <3>2 DEF LoginStep, LoginCheck, LoginDel, LoginInfo, LoginLock, LoginGetIp,
                          LoginRpc, LoginBind, LoginAdd, LoginUnlock, LoginToken, redis
      <4> QED BY <2>4, <4>1, PlaceFrame
    <3> QED BY <3>1, <3>2
  <2>7. SessionPlace' /\ UserPlace'
    <3>1. CASE LoginAdd(s)
      <4>1. SessionPlace'
        BY <2>3, <3>1 DEF LoginAdd, Placed, SessionPlace
      <4>2. UserPlace'
        BY <2>2, <2>3, <3>1 DEF LoginAdd, Placed, UserPlace, TypeOK, MapType
      <4> QED BY <4>1, <4>2
    <3>2. CASE LoginGetIp(s) \/ LoginRpc(s)
      <4>1. \/ UNCHANGED <<sessions, users>>
            \/ \E t \in Server : Kick(t, FrontUser(s))
        BY <3>2 DEF LoginGetIp, LoginRpc, At, LockInv, TargetSet
      <4>2. \A t \in Server : /\ sessions'[t] \subseteq sessions[t]
                              /\ \A u \in User : users'[t][u] \in {users[t][u], None}
        BY <2>2, <4>1, KickTakes
      <4> QED BY <2>4, <4>2, PlaceFrame
    <3>3. CASE ~LoginAdd(s) /\ ~LoginGetIp(s) /\ ~LoginRpc(s)
      <4>1. UNCHANGED <<sessions, users>>
        BY <1>3, <3>3 DEF LoginStep, LoginCheck, LoginDel, LoginInfo, LoginLock, LoginBind,
                          LoginSetSession, LoginUnlock, LoginToken, maps
      <4> QED BY <2>4, <4>1, PlaceFrame
    <3> QED BY <3>1, <3>2, <3>3
  <2> QED BY <2>4, <2>5, <2>6, <2>7 DEF Placed
<1>4. ASSUME NEW s \in Server, Crash(s) PROVE Placed'
  <2>1. Settled /\ SockPlace'
    BY <1>4 DEF Settled, Crash, Placed, SockPlace, TypeOK, ConnType
  <2>2. /\ \A c \in Conn : reading'[c] => reading[c]
        /\ \A c \in Conn : reply'[c] = "pushing" => reply[c] = "pushing"
    BY <1>4 DEF Crash
  <2>3. \A t \in Server : /\ sessions'[t] \subseteq sessions[t]
                          /\ \A u \in User : users'[t][u] \in {users[t][u], None}
    BY <1>4 DEF Crash, TypeOK, MapType
  <2>4. \A u \in User : usession'[u] \in {usession[u], None}
    BY <1>4 DEF Crash
  <2>5. QueuePlace'
    <3> SUFFICES ASSUME NEW t \in Server, NEW i \in 1..Len(queue'[t])
                 PROVE  home'[queue'[t][i]] = t /\ inserted'[queue'[t][i]]
      BY DEF QueuePlace
    <3>1. CASE t = s
      <4>1. queue'[t] = <<>>
        BY <1>4, <3>1 DEF Crash, TypeOK, WorkerType
      <4> QED BY <4>1
    <3>2. CASE t # s
      <4>1. queue'[t] = queue[t] /\ queue[t] \in Seq(Conn)
        BY <1>4, <3>2 DEF Crash, TypeOK, WorkerType
      <4>2. queue[t][i] \in Conn
        BY <4>1, ElementOfSeq
      <4>3. home[queue[t][i]] = t /\ inserted[queue[t][i]]
        BY <4>1 DEF Placed, QueuePlace
      <4> QED BY <2>1, <4>1, <4>2, <4>3, RegistryAssumption DEF Settled
    <3> QED BY <3>1, <3>2
  <2> QED BY <2>1, <2>2, <2>3, <2>4, <2>5, PlaceFrame DEF Placed
<1>5. ASSUME NEW u \in User, LeaseEnd(u) PROVE Placed'
  BY <1>5, PlaceUnchanged DEF LeaseEnd, placeVars, conns, workers
<1>6. ASSUME NEW u \in User, NEW t \in Server, LateKick(t, u) PROVE Placed'
  <2>1. \A s \in Server : /\ sessions'[s] \subseteq sessions[s]
                          /\ \A v \in User : users'[s][v] \in {users[s][v], None}
    BY <1>6, KickTakes DEF LateKick
  <2>2. SockPlace' /\ Settled
    BY <1>1, <1>6 DEF LateKick
  <2>3. UNCHANGED <<reading, reply, queue, usession>>
    BY <1>6 DEF LateKick, redis, workers
  <2> QED BY <2>1, <2>2, <2>3, PlaceFrame DEF Placed
<1>7. CASE UNCHANGED vars
  BY <1>7, PlaceUnchanged DEF vars, placeVars, conns, workers, redis
<1> QED BY <1>2, <1>3, <1>4, <1>5, <1>6, <1>7, ConnPlace DEF Next

\* A step that has nothing to do with who is behind the lock of user u.
Aside(u) ==
    /\ lock'[u] = lock[u] \/ (lock[u] = Orphan /\ lock'[u] = None)
    /\ usession'[u] = usession[u] /\ uip'[u] = uip[u]
    /\ \A t \in Server : Live(t, u)' => Live(t, u) /\ users'[t][u] = users[t][u]
    /\ \A s \in Server : lock[u] = Worker(s) =>
          wpc'[s] = wpc[s] /\ target'[s] = target[s] /\ Front(s)' = Front(s)
    /\ \A d \in Deals : lock[u] = d => dpc'[d] = dpc[d]

FaultsStay == /\ breached => breached'
              /\ rpcFailed => rpcFailed'
              /\ crashed => crashed'

LEMMA AsideStage ==
    ASSUME TypeOK, Placed, Settled, FaultsStay, NEW u \in User, Aside(u), Stage(u)
    PROVE  Stage(u)'
<1>1. Registered(u) => Registered(u)'
  BY DEF Registered, Aside
<1>2. NoneLive(u) => NoneLive(u)'
  BY DEF NoneLive, Aside
<1>3. \A c \in Conn : OnlyLive(u, c) => OnlyLive(u, c)'
  BY DEF OnlyLive, Aside
<1>4. Agree(u) => Agree(u)'
  BY DEF Agree, Aside, Settled, Placed, KeyPlace, TypeOK, RedisType
<1>5. \A d \in Deals : d[2] \in Conn
  BY DEF Deals
<1>6. ASSUME LiveStage(u) PROVE LiveStage(u)'
  <2>1. lock'[u] \in {None, Orphan} => Registered(u)'
    BY <1>1, <1>6 DEF LiveStage, Aside
  <2>2. ASSUME NEW s \in Server, lock'[u] = Worker(s) PROVE WorkerLive(s, u)'
    <3>1. lock[u] = Worker(s)
      BY <2>2, OwnersApart DEF Aside
    <3>2. WorkerLive(s, u)
      BY <1>6, <3>1 DEF LiveStage
    <3>3. wpc'[s] = wpc[s] /\ target'[s] = target[s] /\ Front(s)' = Front(s) /\ uip'[u] = uip[u]
      BY <3>1 DEF Aside
    <3>4. Live(s, u)' => Live(s, u)
      BY DEF Aside
    <3>5. OnlyLive(u, Front(s)) => OnlyLive(u, Front(s))'
      BY <3>3 DEF OnlyLive, Aside
    <3> QED BY <1>1, <1>2, <3>2, <3>3, <3>4, <3>5 DEF WorkerLive
  <2>3. ASSUME NEW d \in Deals, lock'[u] = d PROVE DealLive(d, u)'
    <3>1. lock[u] = d
      BY <2>3, OwnersApart DEF Aside
    <3>2. DealLive(d, u) /\ dpc'[d] = dpc[d]
      BY <1>6, <3>1 DEF LiveStage, Aside
    <3> QED BY <1>1, <1>3, <1>5, <3>2 DEF DealLive
  <2> QED BY <2>1, <2>2, <2>3 DEF LiveStage
<1>7. ASSUME KeyStage(u) PROVE KeyStage(u)'
  <2>1. lock'[u] = lock[u]
    BY <1>7 DEF KeyStage, Aside
  <2>2. lock'[u] # Orphan /\ (lock'[u] = None => Agree(u)')
    BY <1>4, <1>7, <2>1 DEF KeyStage
  <2>3. ASSUME NEW s \in Server, lock'[u] = Worker(s) PROVE WorkerKeys(s, u)'
    <3>1. WorkerKeys(s, u) /\ wpc'[s] = wpc[s] /\ uip'[u] = uip[u]
      BY <1>7, <2>1, <2>3 DEF KeyStage, Aside
    <3> QED BY <1>4, <3>1 DEF WorkerKeys
  <2>4. ASSUME NEW d \in Deals, lock'[u] = d PROVE DealKeys(d, u)'
    <3>1. DealKeys(d, u) /\ dpc'[d] = dpc[d] /\ uip'[u] = uip[u] /\ usession'[u] = usession[u]
      BY <1>7, <2>1, <2>4 DEF KeyStage, Aside
    <3> QED BY <1>4, <3>1 DEF DealKeys
  <2> QED BY <2>2, <2>3, <2>4 DEF KeyStage
<1> QED BY <1>6, <1>7 DEF Stage, FaultsStay

\* Who is not behind the lock is at another step, or at none.
LEMMA Outside ==
    ASSUME TypeOK, LockInv, NEW u \in User
    PROVE  /\ \A s \in Server : lock[u] = Worker(s) => wpc[s] \in Section /\ FrontUser(s) = u
           /\ \A d \in Deals : lock[u] = d => /\ dheld[d] /\ UserOf[d[2]] = u
                                              /\ dpc[d] \in DealSection \cup {"clear"}
BY DEF LockInv, WorkerKnows, DealKnows

LEMMA StageInit == Init => \A u \in User : Stage(u)
BY OwnersApart
   DEF Init, Stage, LiveStage, KeyStage, Registered, Agree, Live

\* The steps of a connection have nothing to do with any lock: a cleanup that
\* starts has not got it yet, a message is pushed to a worker that has none.
LEMMA ConnStage ==
    ASSUME TypeOK, LockInv, Placed, NEW c \in Conn,
           \/ insertToken(c) \/ RecvLogin(c) \/ RecvRemoved(c) \/ Disconnect(c)
           \/ IoStep(c) \/ TimerStep(c) \/ \E s \in Server : Start(c, s),
           NEW u \in User
    PROVE  Settled /\ FaultsStay /\ Aside(u)
<1> USE RegistryAssumption
<1>1. Settled /\ FaultsStay
  BY DEF Settled, FaultsStay, IoStep, TimerStep, insertToken, RecvLogin, RecvRemoved, Disconnect,
         Insert, PushMsg, ReadError, WriteError, TimerClose, TimerDeal, Start, conns, faults,
         Placed, SockPlace, TypeOK, ConnType
<1>2. UNCHANGED <<lock, usession, uip, users, wpc, target>>
  BY DEF IoStep, TimerStep, insertToken, RecvLogin, RecvRemoved, Disconnect,
         Insert, PushMsg, ReadError, WriteError, TimerClose, TimerDeal, Start, redis, maps, workers
<1>3. \A t \in Server : Live(t, u)' => Live(t, u)
  <2>1. CASE Insert(c)
    BY <1>2, <2>1 DEF Insert, Live, Placed, UserPlace, TypeOK, MapType
  <2>2. CASE ~Insert(c)
    <3>1. UNCHANGED sessions
      BY <2>2 DEF IoStep, TimerStep, insertToken, RecvLogin, RecvRemoved, Disconnect,
             PushMsg, ReadError, WriteError, TimerClose, TimerDeal, Start, maps
    <3> QED BY <1>2, <3>1 DEF Live
  <2> QED BY <2>1, <2>2
<1>4. \A s \in Server : lock[u] = Worker(s) => Front(s)' = Front(s)
  <2>1. CASE PushMsg(c)
    <3>1. \A s \in Server : lock[u] = Worker(s) => s # home[c]
      BY <2>1, Outside DEF PushMsg, Section
    <3> QED BY <2>1, <3>1 DEF PushMsg, Front, TypeOK, WorkerType
  <2>2. CASE ~PushMsg(c)
    <3>1. UNCHANGED queue
      BY <2>2 DEF IoStep, TimerStep, insertToken, RecvLogin, RecvRemoved, Disconnect, Insert,
             ReadError, WriteError, TimerClose, TimerDeal, Start, workers
    <3> QED BY <3>1 DEF Front
  <2> QED BY <2>1, <2>2
<1>5. \A d \in Deals : lock[u] = d => dpc'[d] = dpc[d]
  <2>1. \A d \in Deals : dpc'[d] # dpc[d] => dpc[d] \in {"idle", "collected"}
    BY DEF IoStep, TimerStep, insertToken, RecvLogin, RecvRemoved, Disconnect, Insert, PushMsg,
           ReadError, WriteError, TimerClose, TimerDeal, Start, deals, TypeOK, DealType
  <2> QED BY <2>1, Outside DEF DealSection
<1> QED BY <1>1, <1>2, <1>3, <1>4, <1>5 DEF Aside

\* A cleanup under the lock takes away its own session and its keys; without
\* the lock it takes away its session only.
LEMMA DealStage ==
    ASSUME TypeOK, LockInv, Placed, NEW d \in Deals, DealStep(d), NEW u \in User, Stage(u)
    PROVE  Stage(u)'
<1> DEFINE c == d[2]
           v == UserOf[c]
<1>1. c \in Conn /\ v \in User
  BY RegistryAssumption DEF Deals
<1>2. UNCHANGED <<conns, workers, faults>>
  BY DEF DealStep, DealLock, DealGet, DealDelSession, DealDelIp, DealDelToken, DealClear, DealRelease
<1>3. Settled /\ FaultsStay
  BY <1>2 DEF Settled, FaultsStay, conns, faults
<1>4. /\ \A s \in Server : wpc'[s] = wpc[s] /\ target'[s] = target[s] /\ Front(s)' = Front(s)
      /\ breached' = breached /\ rpcFailed' = rpcFailed /\ crashed' = crashed /\ home' = home
  BY <1>2 DEF conns, workers, faults, Front
<1>5. \A e \in Deals : e # d => dpc'[e] = dpc[e]
  BY DEF DealStep, DealLock, DealGet, DealDelSession, DealDelIp, DealDelToken, DealClear,
         DealRelease, TypeOK, DealType
<1>6. \A t \in Server : Live(t, u)' => Live(t, u) /\ users'[t][u] = users[t][u]
  <2>1. CASE DealClear(d)
    <3>1. ClearSession(c)
      BY <2>1 DEF DealClear
    <3>2. \A s \in Server : /\ sessions'[s] \subseteq sessions[s]
                            /\ users'[s][u] \in {users[s][u], None}
      BY <1>1, <3>1, ClearTakes
    <3> QED BY <3>2 DEF Live
  <2>2. CASE ~DealClear(d)
    <3>1. UNCHANGED maps
      BY <2>2 DEF DealStep, DealLock, DealGet, DealDelSession, DealDelIp, DealDelToken, DealRelease
    <3> QED BY <3>1 DEF Live, maps
  <2> QED BY <2>1, <2>2
<1>7. CASE breached
  BY <1>4, <1>7 DEF Stage
<1>8. CASE u # v
  <2>1. lock'[u] = lock[u] /\ usession'[u] = usession[u] /\ uip'[u] = uip[u]
    BY <1>1, <1>8 DEF DealStep, DealLock, DealGet, DealDelSession, DealDelIp, DealDelToken,
           DealClear, DealRelease, Unlocked, redis, TypeOK, RedisType
  <2>2. lock[u] # d
    BY <1>8, Outside
  <2>3. Aside(u)
    BY <1>4, <1>5, <1>6, <2>1, <2>2 DEF Aside
  <2> QED BY <1>3, <2>3, AsideStage
<1>9. CASE ~breached /\ u = v /\ lock[u] # d
  <2>1. dpc[d] \notin DealSection
    BY <1>9 DEF LockInv, DealHolds, DealOwns
  <2>2. CASE lock' = lock
    <3>1. usession' = usession /\ uip' = uip
      BY <2>1 DEF DealSection, DealStep, DealLock, DealGet, DealDelSession, DealDelIp,
             DealDelToken, DealClear, DealRelease, redis
    <3>2. Aside(u)
      BY <1>4, <1>5, <1>6, <1>9, <2>2, <3>1 DEF Aside
    <3> QED BY <1>3, <3>2, AsideStage
  <2>3. CASE lock' # lock
    <3>1. DealLock(d)
      BY <2>1, <2>3 DEF DealSection, DealStep, DealGet, DealDelSession, DealDelIp,
             DealDelToken, DealClear, DealRelease, redis
    <3>2. /\ lock[u] = None /\ lock'[u] = d /\ dpc'[d] = "get"
          /\ usession' = usession /\ uip' = uip
      BY <1>1, <1>9, <2>3, <3>1 DEF DealLock, TypeOK, RedisType, DealType
    <3>3. /\ LiveStage(u) => Registered(u)
          /\ KeyStage(u) => Agree(u)
      BY <3>2 DEF LiveStage, KeyStage
    <3>4. Registered(u) => Registered(u)'
      BY <1>6, <3>2 DEF Registered
    <3>5. Agree(u) => Agree(u)'
      BY <1>4, <3>2 DEF Agree
    <3>6. \A e \in Deals : lock'[u] = e => e = d
      BY <3>2
    <3>7. \A s \in Server : lock'[u] # Worker(s)
      BY <3>2, OwnersApart
    <3>8. LiveStage(u) => LiveStage(u)'
      BY <3>2, <3>3, <3>4, <3>6, <3>7, OwnersApart DEF LiveStage, DealLive
    <3>9. KeyStage(u) => KeyStage(u)'
      BY <3>2, <3>3, <3>5, <3>6, <3>7, OwnersApart DEF KeyStage, DealKeys
    <3> QED BY <1>4, <3>8, <3>9 DEF Stage
  <2> QED BY <2>2, <2>3
<1>10. CASE ~breached /\ u = v /\ lock[u] = d
  <2>1. /\ LiveStage(u) => DealLive(d, u)
        /\ KeyStage(u) => DealKeys(d, u)
    BY <1>10 DEF LiveStage, KeyStage
  <2>2. ASSUME lock'[u] = d
        PROVE  /\ DealLive(d, u)' => LiveStage(u)'
               /\ DealKeys(d, u)' => KeyStage(u)'
    BY <2>2, OwnersApart DEF LiveStage, KeyStage
  <2>3. Registered(u) /\ usession'[u] = usession[u] /\ uip'[u] = uip[u] => Registered(u)'
    BY <1>6 DEF Registered
  <2>4. OnlyLive(u, c) => OnlyLive(u, c)'
    BY <1>6 DEF OnlyLive
  <2>5. Agree(u) /\ usession'[u] = usession[u] /\ uip'[u] = uip[u] => Agree(u)'
    BY <1>4 DEF Agree
  <2>6. CASE DealLock(d)
    BY <1>10, <2>6, Outside DEF DealLock, DealSection
  <2>7. CASE DealGet(d)
    <3>1. /\ lock'[u] = d /\ usession' = usession /\ uip' = uip /\ dpc[d] = "get"
          /\ dpc'[d] \in {"delsession", "clear"}
      BY <1>10, <2>7 DEF DealGet, redis, TypeOK, DealType
    <3>2. DealLive(d, u) => DealLive(d, u)'
      BY <2>3, <3>1 DEF DealLive
    <3>3. DealKeys(d, u) => DealKeys(d, u)'
      BY <2>5, <3>1 DEF DealKeys
    <3> QED BY <1>4, <2>1, <2>2, <3>1, <3>2, <3>3 DEF Stage
  <2>8. CASE DealDelSession(d)
    <3>1. /\ lock'[u] = d /\ usession'[u] = None /\ uip' = uip /\ dpc[d] = "delsession"
          /\ dpc'[d] = "delip"
      BY <1>1, <1>10, <2>8 DEF DealDelSession, TypeOK, DealType, RedisType
    <3>2. usession[u] = c
      BY <1>10, <3>1 DEF LockInv, CleanupSparesOthers
    <3>3. Registered(u) => OnlyLive(u, c)
      BY <3>2 DEF Registered, OnlyLive
    <3>4. DealLive(d, u) => DealLive(d, u)'
      BY <2>4, <3>1, <3>3 DEF DealLive
    <3>5. DealKeys(d, u)'
      BY <3>1 DEF DealKeys
    <3> QED BY <1>4, <2>1, <2>2, <3>1, <3>4, <3>5 DEF Stage
  <2>9. CASE DealDelIp(d)
    <3>1. /\ lock'[u] = d /\ usession' = usession /\ uip'[u] = None /\ dpc[d] = "delip"
          /\ dpc'[d] = "deltoken"
      BY <1>1, <1>10, <2>9 DEF DealDelIp, TypeOK, DealType, RedisType
    <3>2. DealLive(d, u) => DealLive(d, u)'
      BY <2>4, <3>1 DEF DealLive
    <3>3. DealKeys(d, u) => DealKeys(d, u)'
      BY <3>1 DEF DealKeys
    <3> QED BY <1>4, <2>1, <2>2, <3>1, <3>2, <3>3 DEF Stage
  <2>10. CASE DealDelToken(d)
    <3>1. /\ lock'[u] = d /\ usession' = usession /\ uip' = uip /\ dpc[d] = "deltoken"
          /\ dpc'[d] = "clear"
      BY <1>1, <1>10, <2>10 DEF DealDelToken, TypeOK, DealType, RedisType
    <3>2. DealLive(d, u) => DealLive(d, u)'
      BY <2>4, <3>1 DEF DealLive
    <3>3. DealKeys(d, u) => DealKeys(d, u)'
      BY <3>1 DEF DealKeys, Agree
    <3> QED BY <1>4, <2>1, <2>2, <3>1, <3>2, <3>3 DEF Stage
  <2>11. CASE DealClear(d)
    <3>1. /\ lock'[u] = d /\ usession' = usession /\ uip' = uip /\ dpc[d] = "clear"
          /\ dheld[d] /\ dpc'[d] = "release"
      BY <1>10, <2>11, Outside DEF DealClear, redis, TypeOK, DealType
    <3>2. OnlyLive(u, c) => NoneLive(u)'
      <4>1. ClearSession(c)
        BY <2>11 DEF DealClear
      <4>2. \A s \in Server : home[c] = s => c \notin sessions'[s]
        BY <1>1, <4>1, ClearTakes
      <4> SUFFICES ASSUME OnlyLive(u, c), NEW t \in Server, Live(t, u)' PROVE FALSE
        BY DEF NoneLive
      <4>3. users'[t][u] = c /\ users[t][u] = c
        BY <1>6 DEF OnlyLive
      <4>4. home[c] = t
        BY <1>1, <4>3, RegistryAssumption DEF Placed, UserPlace
      <4> HIDE DEF c
      <4> QED BY <4>2, <4>3, <4>4 DEF Live
    <3>3. NoneLive(u)' => Registered(u)'
      BY DEF NoneLive, Registered
    <3>4. DealLive(d, u) => DealLive(d, u)'
      BY <2>3, <3>1, <3>2, <3>3 DEF DealLive
    <3>5. DealKeys(d, u) => DealKeys(d, u)'
      BY <2>5, <3>1 DEF DealKeys
    <3> QED BY <1>4, <2>1, <2>2, <3>1, <3>4, <3>5 DEF Stage
  <2>12. CASE DealRelease(d)
    <3>1. lock'[u] = None /\ usession' = usession /\ uip' = uip /\ dpc[d] = "release"
      BY <1>1, <1>10, <2>12 DEF DealRelease, Unlocked, TypeOK, RedisType
    <3>2. DealLive(d, u) => LiveStage(u)'
      BY <2>3, <3>1, OwnersApart DEF DealLive, LiveStage
    <3>3. DealKeys(d, u) => KeyStage(u)'
      BY <2>5, <3>1, OwnersApart DEF DealKeys, KeyStage
    <3> QED BY <1>4, <2>1, <3>2, <3>3 DEF Stage
  <2> QED BY <2>6, <2>7, <2>8, <2>9, <2>10, <2>11, <2>12 DEF DealStep
<1> QED BY <1>7, <1>8, <1>9, <1>10

\* A login kicks whoever Redis names, and registers itself in the place.
LEMMA LoginStage ==
    ASSUME TypeOK, LockInv, Placed, NEW s \in Server, LoginStep(s), NEW u \in User, Stage(u)
    PROVE  Stage(u)'
<1> DEFINE c == Front(s)
           v == FrontUser(s)
<1>1. queue[s] # <<>>
  BY DEF LoginStep, At, LoginCheck, LoginDel, LoginInfo, LoginLock, LoginGetIp,
         LoginRpc, LoginBind, LoginAdd, LoginSetSession, LoginUnlock, LoginToken
<1>2. c \in Conn /\ v \in User /\ home[c] = s /\ inserted[c]
  <2>1. queue[s] \in Seq(Conn)
    BY DEF TypeOK, WorkerType
  <2>2. 1 \in 1..Len(queue[s]) /\ c = queue[s][1]
    BY <1>1, <2>1, LenProperties, EmptySeq DEF Front
  <2> QED BY <1>1, <2>2, FrontType DEF Placed, QueuePlace
<1>3. /\ Settled /\ FaultsStay /\ home' = home /\ dpc' = dpc
      /\ \A t \in Server : t # s => /\ wpc'[t] = wpc[t] /\ target'[t] = target[t]
                                    /\ Front(t)' = Front(t)
  BY DEF LoginStep, LoginCheck, LoginDel, LoginInfo, LoginLock, LoginGetIp, LoginRpc, LoginBind,
         LoginAdd, LoginSetSession, LoginUnlock, LoginToken, Settled, FaultsStay, conns, faults,
         deals, Goto, Answer, Front, TypeOK, WorkerType, FaultType
<1>4. CASE breached'
  BY <1>4 DEF Stage
<1>5. CASE wpc[s] \notin Section /\ wpc[s] # "lock"
  <2>1. UNCHANGED <<lock, usession, uip, maps>>
    BY <1>5 DEF LoginStep, LoginCheck, LoginDel, LoginInfo, LoginLock, LoginGetIp, LoginRpc,
           LoginBind, LoginAdd, LoginSetSession, LoginUnlock, LoginToken, At, Section, redis
  <2>2. lock[u] # Worker(s)
    BY <1>5, Outside
  <2>3. \A t \in Server : lock[u] = Worker(t) =>
            wpc'[t] = wpc[t] /\ target'[t] = target[t] /\ Front(t)' = Front(t)
    BY <1>3, <2>2
  <2>4. Aside(u)
    BY <1>3, <2>1, <2>3 DEF Aside, Live, maps
  <2> QED BY <1>3, <2>4, AsideStage
<1>6. CASE wpc[s] = "lock" /\ ~breached'
  <2>1. LoginLock(s)
    BY <1>6 DEF LoginStep, LoginCheck, LoginDel, LoginInfo, LoginGetIp, LoginRpc,
           LoginBind, LoginAdd, LoginSetSession, LoginUnlock, LoginToken, At
  <2>2. /\ lock[v] = None /\ lock' = [lock EXCEPT ![v] = Worker(s)] /\ wpc'[s] = "getip"
        /\ breached' = breached /\ rpcFailed' = rpcFailed /\ crashed' = crashed
        /\ UNCHANGED <<usession, uip, maps>>
    BY <1>6, <2>1 DEF LoginLock, Goto, TypeOK, WorkerType
  <2>3. lock[u] # Worker(s)
    BY <1>6, Outside DEF Section
  <2>4. CASE u # v
    <3>1. lock'[u] = lock[u]
      BY <1>2, <2>2, <2>4 DEF TypeOK, RedisType
    <3>2. \A t \in Server : lock[u] = Worker(t) =>
              wpc'[t] = wpc[t] /\ target'[t] = target[t] /\ Front(t)' = Front(t)
      BY <1>3, <2>3
    <3>3. Aside(u)
      BY <1>3, <2>2, <3>1, <3>2 DEF Aside, Live, maps
    <3> QED BY <1>3, <3>3, AsideStage
  <2>5. CASE u = v
    <3>1. lock[u] = None /\ lock'[u] = Worker(s)
      BY <1>2, <2>2, <2>5 DEF TypeOK, RedisType
    <3>2. /\ LiveStage(u) => Registered(u)'
          /\ KeyStage(u) => Agree(u)'
      BY <1>3, <2>2, <3>1 DEF LiveStage, KeyStage, Registered, Agree, Live, maps
    <3>3. /\ \A t \in Server : lock'[u] = Worker(t) => t = s
          /\ \A d \in Deals : lock'[u] # d
          /\ lock'[u] \notin {None, Orphan}
      BY <3>1, OwnersApart
    <3>4. LiveStage(u) => LiveStage(u)'
      BY <2>2, <3>2, <3>3 DEF LiveStage, WorkerLive
    <3>5. KeyStage(u) => KeyStage(u)'
      BY <2>2, <3>2, <3>3 DEF KeyStage, WorkerKeys
    <3> QED BY <2>2, <3>4, <3>5 DEF Stage
  <2> QED BY <2>4, <2>5
<1>7. CASE wpc[s] \in Section /\ ~breached'
  <2>1. \/ LoginGetIp(s) \/ LoginRpc(s) \/ LoginBind(s) \/ LoginAdd(s)
        \/ LoginSetSession(s) \/ LoginUnlock(s)
    BY <1>7 DEF LoginStep, LoginCheck, LoginDel, LoginInfo, LoginLock, LoginToken, At, Section
  <2>2. /\ breached' = breached /\ crashed' = crashed
        /\ rpcFailed' = rpcFailed \/ LoginRpc(s)
        /\ Front(s)' = c /\ queue' = queue
    BY <2>1, Zenon DEF LoginGetIp, LoginRpc, LoginBind, LoginAdd, LoginSetSession, LoginUnlock,
           faults, Front
  <2>3. lock[v] = Worker(s)
    BY <1>7, <2>2 DEF LockInv, WorkerOwns, FaultsStay
  <2>4. \A t \in Server : /\ LoginAdd(s) \/ sessions'[t] \subseteq sessions[t]
                          /\ LoginAdd(s) \/ users'[t][u] \in {users[t][u], None}
    <3>1. CASE LoginGetIp(s) \/ LoginRpc(s)
      <4>1. \/ UNCHANGED <<sessions, users>>
            \/ \E t \in Server : Kick(t, v)
        BY <3>1 DEF LoginGetIp, LoginRpc, At, LockInv, TargetSet
      <4> QED BY <1>2, <4>1, KickTakes
    <3>2. CASE ~LoginGetIp(s) /\ ~LoginRpc(s) /\ ~LoginAdd(s)
      BY <2>1, <3>2 DEF LoginBind, LoginSetSession, LoginUnlock, maps
    <3> QED BY <3>1, <3>2
  <2>5. LoginAdd(s) \/ \A t \in Server : Live(t, u)' => Live(t, u) /\ users'[t][u] = users[t][u]
    BY <2>4 DEF Live
  <2>6. CASE u # v
    <3>1. lock[u] # Worker(s)
      BY <2>6, Outside
    <3>2. lock'[u] = lock[u] /\ usession'[u] = usession[u] /\ uip'[u] = uip[u]
      BY <1>2, <2>1, <2>6 DEF LoginGetIp, LoginRpc, LoginBind, LoginAdd, LoginSetSession,
             LoginUnlock, Unlocked, redis, TypeOK, RedisType
    <3>3. \A t \in Server : Live(t, u)' => Live(t, u) /\ users'[t][u] = users[t][u]
      <4>1. CASE LoginAdd(s)
        BY <1>2, <2>6, <4>1 DEF LoginAdd, Live, TypeOK, MapType
      <4> QED BY <2>5, <4>1
    <3>4. \A t \in Server : lock[u] = Worker(t) =>
              wpc'[t] = wpc[t] /\ target'[t] = target[t] /\ Front(t)' = Front(t)
      BY <1>3, <3>1
    <3>5. Aside(u)
      BY <1>3, <3>2, <3>3, <3>4 DEF Aside
    <3> QED BY <1>3, <3>5, AsideStage
  <2>7. CASE u = v
    <3>1. /\ LiveStage(u) => WorkerLive(s, u)
          /\ KeyStage(u) => WorkerKeys(s, u)
      BY <2>3, <2>7 DEF LiveStage, KeyStage
    <3>2. ASSUME lock' = lock
          PROVE  /\ WorkerLive(s, u)' => LiveStage(u)'
                 /\ WorkerKeys(s, u)' => KeyStage(u)'
      <4>1. /\ \A t \in Server : lock'[u] = Worker(t) => t = s
            /\ \A d \in Deals : lock'[u] # d
            /\ lock'[u] \notin {None, Orphan}
        BY <2>3, <2>7, <3>2, OwnersApart
      <4> QED BY <4>1 DEF LiveStage, KeyStage
    <3>3. \A t \in Server : Live(t, u) => home[users[t][u]] = t
      BY <2>7, <1>2 DEF Live, Placed, UserPlace
    <3>4. CASE LoginGetIp(s)
      <4>1. /\ lock' = lock /\ usession' = usession /\ uip' = uip /\ wpc[s] = "getip"
            /\ wpc'[s] = IF uip[u] = None THEN "bind" ELSE "rpc"
            /\ target'[s] = uip[u]
        BY <2>7, <3>4 DEF LoginGetIp, At, Goto, redis, TypeOK, WorkerType
      <4>2. uip[u] = s => ~Live(s, u)'
        BY <1>2, <2>7, <3>4, KickTakes DEF LoginGetIp
      <4>3. WorkerLive(s, u) => Registered(u) /\ Registered(u)'
        BY <2>5, <3>4, <4>1 DEF WorkerLive, Registered, LoginGetIp, LoginAdd, At
      <4>4. WorkerLive(s, u) => ~Live(s, u)'
        BY <4>1, <4>2, <4>3 DEF Registered
      <4>5. WorkerLive(s, u) /\ uip[u] = None => NoneLive(u)'
        BY <4>1, <4>3, RegistryAssumption DEF Registered, NoneLive
      <4>6. WorkerLive(s, u) => WorkerLive(s, u)'
        BY <4>1, <4>3, <4>4, <4>5 DEF WorkerLive
      <4>7. WorkerKeys(s, u) => WorkerKeys(s, u)'
        BY <1>3, <4>1 DEF WorkerKeys, Agree
      <4>8. rpcFailed' = rpcFailed
        BY <3>4 DEF LoginGetIp, faults
      <4> QED BY <2>2, <3>1, <3>2, <4>1, <4>6, <4>7, <4>8 DEF Stage
    <3>5. CASE LoginRpc(s)
      <4>1. /\ lock' = lock /\ usession' = usession /\ uip' = uip /\ wpc[s] = "rpc"
            /\ wpc'[s] = "bind"
        BY <3>5 DEF LoginRpc, At, Goto, redis, TypeOK, WorkerType
      <4>2. target[s] \in Server
        BY <4>1 DEF LockInv, TargetSet
      <4>3. /\ ~rpcFailed' => ~rpcFailed
            /\ \A t \in Server : ~rpcFailed' /\ t = target[s] /\ t # s => ~Live(t, u)'
        <5>1. CASE target[s] # s /\ Kick(target[s], v) /\ rpcFailed' = rpcFailed
          BY <1>2, <2>7, <4>2, <5>1, KickTakes
        <5>2. CASE target[s] = s /\ rpcFailed' = rpcFailed
          BY <5>2
        <5>3. CASE rpcFailed'
          BY <5>3
        <5> QED BY <3>5, <5>1, <5>2, <5>3 DEF LoginRpc
      <4>4. ~rpcFailed' /\ WorkerLive(s, u) => NoneLive(u)'
        <5> SUFFICES ASSUME ~rpcFailed', WorkerLive(s, u), NEW t \in Server, Live(t, u)'
                     PROVE  FALSE
          BY DEF NoneLive
        <5>1. Live(t, u)
          BY <2>5, <3>5, <4>1 DEF LoginAdd, At
        <5>2. uip[u] = t /\ target[s] = t /\ t # s
          BY <4>1, <5>1 DEF WorkerLive, Registered
        <5> QED BY <4>3, <5>2
      <4>5. ~rpcFailed' /\ WorkerLive(s, u) => WorkerLive(s, u)'
        BY <4>1, <4>4 DEF WorkerLive
      <4>6. WorkerKeys(s, u) => WorkerKeys(s, u)'
        BY <1>3, <4>1 DEF WorkerKeys, Agree
      <4> QED BY <2>2, <3>1, <3>2, <4>1, <4>3, <4>5, <4>6 DEF Stage
    <3>6. CASE LoginBind(s)
      <4>1. /\ lock' = lock /\ usession' = usession /\ uip'[u] = s /\ wpc[s] = "bind"
            /\ wpc'[s] = "add" /\ rpcFailed' = rpcFailed /\ UNCHANGED maps
        BY <1>2, <2>7, <3>6 DEF LoginBind, At, Goto, faults, TypeOK, WorkerType, RedisType
      <4>2. WorkerLive(s, u) => WorkerLive(s, u)'
        BY <4>1 DEF WorkerLive, NoneLive, Live, maps
      <4>3. WorkerKeys(s, u)'
        BY <4>1 DEF WorkerKeys
      <4> QED BY <2>2, <3>1, <3>2, <4>1, <4>2, <4>3 DEF Stage
    <3>7. CASE LoginAdd(s)
      <4>1. /\ lock' = lock /\ usession' = usession /\ uip' = uip /\ wpc[s] = "add"
            /\ wpc'[s] = "setsession" /\ rpcFailed' = rpcFailed /\ sessions' = sessions
            /\ users'[s][u] = c
            /\ \A t \in Server : t # s => users'[t][u] = users[t][u]
        BY <1>2, <2>7, <3>7 DEF LoginAdd, At, Goto, redis, faults, TypeOK, WorkerType, MapType
      <4>2. WorkerLive(s, u) => OnlyLive(u, c)'
        BY <2>2, <4>1 DEF WorkerLive, NoneLive, OnlyLive, Live
      <4>3. WorkerLive(s, u) => WorkerLive(s, u)'
        BY <2>2, <4>1, <4>2 DEF WorkerLive, OnlyLive
      <4>4. WorkerKeys(s, u) => WorkerKeys(s, u)'
        BY <4>1 DEF WorkerKeys
      <4> QED BY <2>2, <3>1, <3>2, <4>1, <4>3, <4>4 DEF Stage
    <3>8. CASE LoginSetSession(s)
      <4>1. /\ lock' = lock /\ usession'[u] = c /\ uip' = uip /\ wpc[s] = "setsession"
            /\ wpc'[s] = "unlock" /\ rpcFailed' = rpcFailed /\ UNCHANGED maps
        BY <1>2, <2>7, <3>8 DEF LoginSetSession, At, Goto, faults, TypeOK, WorkerType, RedisType
      <4>2. WorkerLive(s, u) => Registered(u)'
        BY <1>2, <3>3, <4>1 DEF WorkerLive, OnlyLive, Registered, Live, maps
      <4>3. WorkerLive(s, u) => WorkerLive(s, u)'
        BY <4>1, <4>2 DEF WorkerLive
      <4>4. WorkerKeys(s, u) => Agree(u)'
        BY <1>2, <1>3, <4>1, RegistryAssumption DEF WorkerKeys, Agree
      <4>5. WorkerKeys(s, u) => WorkerKeys(s, u)'
        BY <4>1, <4>4 DEF WorkerKeys
      <4> QED BY <2>2, <3>1, <3>2, <4>1, <4>3, <4>5 DEF Stage
    <3>9. CASE LoginUnlock(s)
      <4>1. /\ usession' = usession /\ uip' = uip /\ wpc[s] = "unlock" /\ held[s]
            /\ rpcFailed' = rpcFailed /\ UNCHANGED maps /\ lock'[u] = None
        BY <1>2, <2>3, <2>7, <3>9
           DEF LoginUnlock, Unlocked, At, faults, TypeOK, RedisType, LockInv, WorkerKnows
      <4>2. WorkerLive(s, u) => Registered(u)'
        BY <4>1 DEF WorkerLive, Registered, Live, maps
      <4>3. WorkerKeys(s, u) => Agree(u)'
        BY <1>3, <4>1 DEF WorkerKeys, Agree
      <4>4. WorkerLive(s, u) => LiveStage(u)'
        BY <4>1, <4>2, OwnersApart DEF LiveStage
      <4>5. WorkerKeys(s, u) => KeyStage(u)'
        BY <4>1, <4>3, OwnersApart DEF KeyStage
      <4> QED BY <2>2, <3>1, <4>1, <4>4, <4>5 DEF Stage
    <3> QED BY <2>1, <3>4, <3>5, <3>6, <3>7, <3>8, <3>9
  <2> QED BY <2>6, <2>7
<1> QED BY <1>4, <1>5, <1>6, <1>7

\* With its server dies whoever is live there; what the dead owner of a lock
\* had not finished yet concerned its own session or an earlier one.
LEMMA CrashStage ==
    ASSUME TypeOK, LockInv, Placed, NEW s \in Server, Crash(s), NEW u \in User, Stage(u)
    PROVE  Stage(u)'
<1>1. Settled /\ FaultsStay /\ crashed' /\ breached' = breached /\ rpcFailed' = rpcFailed
  BY DEF Settled, FaultsStay, Crash
<1>2. usession' = usession /\ uip' = uip
  BY DEF Crash
<1>3. /\ \A t \in Server : Live(t, u)' => Live(t, u) /\ users'[t][u] = users[t][u]
      /\ ~Live(s, u)'
  BY DEF Crash, Live, TypeOK, MapType
<1>4. CASE lock[u] \in DealsOf(s) \cup {Worker(s)}
  <2>1. lock'[u] = Orphan
    BY <1>4 DEF Crash
  <2>2. Registered(u) => Registered(u)'
    BY <1>2, <1>3 DEF Registered
  <2>3. ASSUME NEW c \in Conn, home[c] = s, OnlyLive(u, c) PROVE Registered(u)'
    BY <1>3, <2>3, RegistryAssumption DEF OnlyLive, Registered, Live, Placed, UserPlace
  <2>4. CASE lock[u] = Worker(s)
    <3>1. wpc[s] \in Section /\ queue[s] # <<>>
      BY <2>4, Outside DEF Section, LockInv, Busy
    <3>2. Front(s) \in Conn /\ home[Front(s)] = s
      <4>1. queue[s] \in Seq(Conn)
        BY DEF TypeOK, WorkerType
      <4>2. 1 \in 1..Len(queue[s]) /\ Front(s) = queue[s][1]
        BY <3>1, <4>1, LenProperties, EmptySeq DEF Front
      <4> QED BY <3>1, <4>2, FrontType DEF Placed, QueuePlace
    <3>3. NoneLive(u) => Registered(u)
      BY DEF NoneLive, Registered
    <3>4. LiveStage(u) => Registered(u)'
      BY <2>2, <2>3, <2>4, <3>1, <3>2, <3>3 DEF LiveStage, WorkerLive, Section
    <3> QED BY <1>1, <2>1, <3>4, OwnersApart DEF Stage, LiveStage
  <2>5. CASE lock[u] \in DealsOf(s)
    <3>1. PICK d \in Deals : lock[u] = d /\ home[d[2]] = s
      BY <2>5 DEF DealsOf
    <3>2. d[2] \in Conn /\ dpc[d] \in DealSection \cup {"clear"}
      BY <3>1, Outside DEF Deals
    <3>3. LiveStage(u) => Registered(u)'
      BY <2>2, <2>3, <3>1, <3>2 DEF LiveStage, DealLive, DealSection
    <3> QED BY <1>1, <2>1, <3>3, OwnersApart DEF Stage, LiveStage
  <2> QED BY <1>4, <2>4, <2>5
<1>5. CASE lock[u] \notin DealsOf(s) \cup {Worker(s)}
  <2>1. lock'[u] = lock[u]
    BY <1>5 DEF Crash
  <2>2. \A t \in Server : lock[u] = Worker(t) =>
            wpc'[t] = wpc[t] /\ target'[t] = target[t] /\ Front(t)' = Front(t)
    BY <1>5 DEF Crash, Front, TypeOK, WorkerType
  <2>3. \A d \in Deals : lock[u] = d => dpc'[d] = dpc[d]
    BY <1>5 DEF Crash, DealsOf
  <2>4. Aside(u)
    BY <1>2, <1>3, <2>1, <2>2, <2>3 DEF Aside
  <2> QED BY <1>1, <2>4, AsideStage
<1> QED BY <1>4, <1>5

LEMMA StageStep ==
    TypeOK /\ LockInv /\ Placed /\ (\A u \in User : Stage(u)) /\ [Next]_vars
        => \A u \in User : Stage(u)'
<1> SUFFICES ASSUME TypeOK, LockInv, Placed, \A w \in User : Stage(w), [Next]_vars, NEW u \in User
             PROVE  Stage(u)'
  OBVIOUS
<1>1. ASSUME NEW v \in User, LeaseEnd(v) PROVE Stage(u)'
  <2>1. UNCHANGED <<usession, uip, conns, maps, workers, deals, rpcFailed, crashed>>
    BY <1>1 DEF LeaseEnd
  <2>2. Settled /\ FaultsStay
    BY <1>1, <2>1 DEF LeaseEnd, Settled, FaultsStay, conns
  <2>3. CASE breached'
    BY <2>3 DEF Stage
  <2>4. CASE ~breached'
    <3>1. lock[v] = Orphan /\ lock' = [lock EXCEPT ![v] = None]
      BY <1>1, <2>4 DEF LeaseEnd
    <3>2. lock'[u] = lock[u] \/ (lock[u] = Orphan /\ lock'[u] = None)
      BY <3>1 DEF TypeOK, RedisType
    <3>3. Aside(u)
      BY <2>1, <3>2 DEF Aside, Live, Front, maps, workers, deals
    <3> QED BY <2>2, <3>3, AsideStage
  <2> QED BY <2>3, <2>4
<1>2. ASSUME NEW v \in User, NEW t \in Server, LateKick(t, v) PROVE Stage(u)'
  <2>1. Settled /\ FaultsStay /\ UNCHANGED <<redis, workers, deals>>
    BY <1>2 DEF LateKick, Settled, FaultsStay
  <2>2. \A s \in Server : Live(s, u)' => Live(s, u) /\ users'[s][u] = users[s][u]
    BY <1>2, KickTakes DEF LateKick, Live
  <2>3. Aside(u)
    BY <2>1, <2>2 DEF Aside, Front, redis, workers, deals
  <2> QED BY <2>1, <2>3, AsideStage
<1>3. CASE UNCHANGED vars
  <2>1. Settled /\ FaultsStay /\ Aside(u)
    BY <1>3 DEF vars, redis, conns, maps, workers, deals, faults, Settled, FaultsStay, Aside, Live,
           Front
  <2> QED BY <2>1, AsideStage
<1>4. ASSUME NEW c \in Conn,
             \/ insertToken(c) \/ RecvLogin(c) \/ RecvRemoved(c) \/ Disconnect(c)
             \/ IoStep(c) \/ TimerStep(c) \/ \E s \in Server : Start(c, s)
      PROVE  Stage(u)'
  BY <1>4, ConnStage, AsideStage
<1> QED BY <1>1, <1>2, <1>3, <1>4, DealStage, LoginStage, CrashStage DEF Next

LEMMA AllStages == Spec => [](TypeOK /\ LockInv /\ Placed /\ \A u \in User : Stage(u))
<1>1. TypeOK /\ LockInv /\ (Placed /\ \A u \in User : Stage(u)) /\ [Next]_vars
        => (Placed /\ \A u \in User : Stage(u))'
  BY PlaceStep, StageStep
<1> QED BY <1>1, PlaceInit, StageInit, Inductive, PTL DEF Spec

\* A user is live on one server at most, for any number of servers, logins,
\* cleanups and crashes, unless the lock or a kick has failed.
THEOREM LiveOnce == Spec => []OneLive
<1>1. TypeOK /\ LockInv /\ Placed /\ (\A u \in User : Stage(u)) => OneLive
  <2> SUFFICES ASSUME TypeOK, LockInv, Placed, \A w \in User : Stage(w), ~breached, ~rpcFailed,
                      NEW u \in User, NEW s \in Server, NEW t \in Server, Live(s, u), Live(t, u)
               PROVE  s = t
    BY DEF OneLive
  <2>1. LiveStage(u)
    BY DEF Stage
  <2>2. Registered(u) => s = t
    BY DEF Registered
  <2>3. ASSUME NEW c \in Conn, OnlyLive(u, c) PROVE s = t
    BY <2>3 DEF OnlyLive, Live, Placed, UserPlace
  <2>4. NoneLive(u) => FALSE
    BY DEF NoneLive
  <2>5. ASSUME NEW r \in Server, lock[u] = Worker(r) PROVE s = t
    <3>1. WorkerLive(r, u) /\ wpc[r] \in Section
      BY <2>1, <2>5, Outside DEF LiveStage
    <3>2. Front(r) \in Conn
      BY <3>1, FrontType DEF LockInv, Busy, Section
    <3> QED BY <2>2, <2>3, <2>4, <3>1, <3>2 DEF WorkerLive, Section
  <2>6. ASSUME NEW d \in Deals, lock[u] = d PROVE s = t
    <3>1. DealLive(d, u) /\ dpc[d] \in DealSection \cup {"clear"} /\ d[2] \in Conn
      BY <2>1, <2>6, Outside DEF LiveStage, Deals
    <3> QED BY <2>2, <2>3, <3>1 DEF DealLive, DealSection
  <2>7. lock[u] \in {None, Orphan} \/ (\E r \in Server : lock[u] = Worker(r)) \/ lock[u] \in Deals
    BY DEF TypeOK, RedisType, Owner, Worker
  <2> QED BY <2>1, <2>2, <2>5, <2>6, <2>7 DEF LiveStage
<1> QED BY <1>1, AllStages, PTL

\* While nobody holds the lock, a live session is the one that Redis names.
THEOREM LiveIsNamed == Spec => []LiveIsRegistered
<1>1. (\A u \in User : Stage(u)) => LiveIsRegistered
  BY DEF Stage, LiveStage, Registered, LiveIsRegistered
<1> QED BY <1>1, AllStages, PTL

\* While nobody holds the lock, a user has both keys or none, however logins
\* and cleanups interleave, if no lock fails and no server dies.
THEOREM BothKeys == Spec => []KeysAgree
<1>1. (\A u \in User : Stage(u)) => KeysAgree
  BY DEF Stage, KeyStage, Agree, KeysAgree
<1> QED BY <1>1, AllStages, PTL

-----------------------------------------------------------------------------
(* The session tokens.  A worker logs in one connection after the other, so  *)
(* on one server the last session token is that of the last usession.  Locks *)
(* are not needed for that, but that no login is handled twice.              *)

Waiting == \A s \in Server : \A i \in 1..Len(queue[s]) :
    /\ reply[queue[s][i]] = "queued"
    /\ \A j \in 1..Len(queue[s]) : queue[s][j] = queue[s][i] => j = i

TokenPlace == \A u \in User, e \in Conn : utoken[u] = SessionToken(e) => home[e] # None

NamesOwn == \A s \in Server : wpc[s] \in {"unlock", "token"} =>
    \A c \in Conn : usession[FrontUser(s)] = c /\ home[c] = s => c = Front(s)

TokenLast == \A c, e \in Conn :
    usession[UserOf[c]] = c /\ reply[c] = "ok" /\ home[e] = home[c]
        => (utoken[UserOf[c]] = SessionToken(e) => e = c)

Tokens == Waiting /\ TokenPlace /\ NamesOwn /\ TokenLast

\* What a step must not do to the tokens.
LEMMA TokenFrame ==
    ASSUME TypeOK, LockInv, Placed, Tokens, Settled,
           \A u \in User : utoken'[u] = utoken[u] \/ \A e \in Conn : utoken'[u] # SessionToken(e),
           \A u \in User : usession'[u] \in {usession[u], None},
           \A c \in Conn : reply'[c] = "ok" => reply[c] = "ok",
           \A s \in Server : wpc'[s] \in {"unlock", "token"} =>
                wpc[s] \in {"unlock", "token"} /\ queue'[s] = queue[s]
    PROVE  TokenPlace' /\ NamesOwn' /\ TokenLast'
<1> USE RegistryAssumption
<1>1. TokenPlace'
  BY DEF Tokens, TokenPlace, Settled
<1>2. \A u \in User, c \in Conn : usession'[u] = c => usession[u] = c /\ home[c] # None /\ home'[c] = home[c]
  BY DEF Placed, KeyPlace, Settled
<1>3. NamesOwn'
  <2> SUFFICES ASSUME NEW s \in Server, wpc'[s] \in {"unlock", "token"}, NEW c \in Conn,
                      usession'[FrontUser(s)'] = c, home'[c] = s
               PROVE  c = Front(s)'
    BY DEF NamesOwn
  <2>1. wpc[s] \in {"unlock", "token"} /\ queue'[s] = queue[s]
    OBVIOUS
  <2>2. Front(s)' = Front(s) /\ FrontUser(s)' = FrontUser(s)
    BY <2>1 DEF Front, FrontUser
  <2>3. FrontUser(s) \in User
    BY <2>1, FrontType DEF LockInv, Busy
  <2> QED BY <1>2, <2>1, <2>2, <2>3 DEF Tokens, NamesOwn
<1>4. TokenLast'
  <2> SUFFICES ASSUME NEW c \in Conn, NEW e \in Conn, usession'[UserOf[c]] = c, reply'[c] = "ok",
                      home'[e] = home'[c], utoken'[UserOf[c]] = SessionToken(e)
               PROVE  e = c
    BY DEF TokenLast
  <2>1. UserOf[c] \in User
    OBVIOUS
  <2>2. usession[UserOf[c]] = c /\ home'[c] = home[c] /\ reply[c] = "ok"
    BY <1>2, <2>1
  <2>3. utoken[UserOf[c]] = SessionToken(e)
    BY <2>1
  <2>4. home'[e] = home[e]
    BY <2>1, <2>3 DEF Tokens, TokenPlace, Settled
  <2> QED BY <2>2, <2>3, <2>4 DEF Tokens, TokenLast
<1> QED BY <1>1, <1>3, <1>4

LEMMA WaitingFrame ==
    ASSUME Waiting, \A c \in Conn : reply[c] = "queued" => reply'[c] = "queued", UNCHANGED queue, TypeOK
    PROVE  Waiting'
<1> SUFFICES ASSUME NEW s \in Server, NEW i \in 1..Len(queue[s])
             PROVE  /\ reply'[queue[s][i]] = "queued"
                    /\ \A j \in 1..Len(queue[s]) : queue[s][j] = queue[s][i] => j = i
  BY DEF Waiting
<1>1. queue[s][i] \in Conn
  BY ElementOfSeq DEF TypeOK, WorkerType
<1> QED BY <1>1 DEF Waiting

\* A message enters a queue when it is no longer being pushed.
LEMMA WaitingPush ==
    ASSUME TypeOK, Placed, Waiting, NEW c \in Conn, PushMsg(c)
    PROVE  Waiting'
<1>1. /\ home[c] \in Server /\ reply[c] = "pushing"
      /\ queue' = [queue EXCEPT ![home[c]] = Append(@, c)]
      /\ reply' = [reply EXCEPT ![c] = "queued"]
  BY DEF PushMsg, Placed, PushPlace
<1> SUFFICES ASSUME NEW s \in Server, NEW i \in 1..Len(queue'[s])
             PROVE  /\ reply'[queue'[s][i]] = "queued"
                    /\ \A j \in 1..Len(queue'[s]) : queue'[s][j] = queue'[s][i] => j = i
  BY DEF Waiting
<1>2. queue[s] \in Seq(Conn) /\ Len(queue[s]) \in Nat
  BY LenProperties DEF TypeOK, WorkerType
<1>3. \A j \in 1..Len(queue[s]) : /\ queue[s][j] \in Conn /\ queue[s][j] # c
                                  /\ reply'[queue[s][j]] = "queued"
  <2> SUFFICES ASSUME NEW j \in 1..Len(queue[s])
               PROVE  queue[s][j] \in Conn /\ queue[s][j] # c /\ reply'[queue[s][j]] = "queued"
    OBVIOUS
  <2>1. queue[s][j] \in Conn
    BY <1>2, ElementOfSeq
  <2>2. reply[queue[s][j]] = "queued"
    BY DEF Waiting
  <2> QED BY <1>1, <2>1, <2>2 DEF TypeOK, ConnType
<1>4. CASE s # home[c]
  <2>1. queue'[s] = queue[s]
    BY <1>1, <1>4 DEF TypeOK, WorkerType
  <2> QED BY <1>3, <2>1 DEF Waiting
<1>5. CASE s = home[c]
  <2>1. queue'[s] = Append(queue[s], c)
    BY <1>1, <1>5 DEF TypeOK, WorkerType
  <2>2. /\ Len(queue'[s]) = Len(queue[s]) + 1
        /\ \A j \in 1..Len(queue[s]) : queue'[s][j] = queue[s][j]
        /\ queue'[s][Len(queue[s]) + 1] = c
        /\ \A j \in 1..Len(queue'[s]) : j \in 1..Len(queue[s]) \/ j = Len(queue[s]) + 1
    BY <1>2, <2>1, AppendProperties
  <2>3. reply'[c] = "queued"
    BY <1>1 DEF TypeOK, ConnType
  <2>4. reply'[queue'[s][i]] = "queued"
    BY <1>3, <2>2, <2>3
  <2>5. \A j \in 1..Len(queue'[s]) : queue'[s][j] = queue'[s][i] => j = i
    BY <1>3, <2>2 DEF Waiting
  <2> QED BY <2>4, <2>5
<1> QED BY <1>4, <1>5

\* The message that is answered leaves the queue; it is in no other, and once only.
LEMMA WaitingAnswer ==
    ASSUME TypeOK, Placed, Waiting, NEW s \in Server, queue[s] # <<>>,
           NEW code \in {"ok", "refused"}, Answer(s, code)
    PROVE  Waiting'
<1>1. /\ Front(s) \in Conn /\ reply' = [reply EXCEPT ![Front(s)] = code]
      /\ queue' = [queue EXCEPT ![s] = Tail(@)]
  BY FrontType DEF Answer
<1>2. queue[s] \in Seq(Conn) /\ Len(queue[s]) \in Nat /\ Len(queue[s]) > 0 /\ Front(s) = queue[s][1]
  BY HeadTailProperties DEF TypeOK, WorkerType, Front
<1>3. home[Front(s)] = s
  BY <1>2 DEF Placed, QueuePlace
<1> SUFFICES ASSUME NEW t \in Server, NEW i \in 1..Len(queue'[t])
             PROVE  /\ reply'[queue'[t][i]] = "queued"
                    /\ \A j \in 1..Len(queue'[t]) : queue'[t][j] = queue'[t][i] => j = i
  BY DEF Waiting
<1>4. CASE t # s
  <2>1. queue'[t] = queue[t] /\ queue[t] \in Seq(Conn)
    BY <1>1, <1>4 DEF TypeOK, WorkerType
  <2>2. queue[t][i] \in Conn /\ home[queue[t][i]] = t /\ reply[queue[t][i]] = "queued"
    BY <2>1, ElementOfSeq DEF Placed, QueuePlace, Waiting
  <2>3. reply'[queue[t][i]] = "queued"
    BY <1>1, <1>3, <1>4, <2>2 DEF TypeOK, ConnType
  <2> QED BY <2>1, <2>3 DEF Waiting
<1>5. CASE t = s
  <2>1. queue'[s] = Tail(queue[s])
    BY <1>1 DEF TypeOK, WorkerType
  <2>2. /\ Len(queue'[s]) = Len(queue[s]) - 1
        /\ \A j \in 1..Len(queue'[s]) : queue'[s][j] = queue[s][j + 1]
    BY <1>2, <2>1, HeadTailProperties
  <2>3. \A j \in 1..Len(queue'[s]) : j + 1 \in 1..Len(queue[s]) /\ j + 1 # 1
    BY <1>2, <2>2
  <2>4. 1 \in 1..Len(queue[s])
    BY <1>2
  <2>5. queue[s][i + 1] \in Conn /\ queue[s][i + 1] # Front(s) /\ reply[queue[s][i + 1]] = "queued"
    BY <1>2, <1>5, <2>3, <2>4, ElementOfSeq DEF Waiting
  <2>6. reply'[queue'[s][i]] = "queued"
    BY <1>1, <1>5, <2>2, <2>5 DEF TypeOK, ConnType
  <2>7. \A j \in 1..Len(queue'[s]) : queue'[s][j] = queue'[s][i] => j = i
    BY <1>2, <1>5, <2>2, <2>3 DEF Waiting
  <2> QED BY <1>5, <2>6, <2>7
<1> QED BY <1>4, <1>5

LEMMA WaitingCrash ==
    ASSUME TypeOK, Placed, Waiting, NEW s \in Server, Crash(s)
    PROVE  Waiting'
<1> SUFFICES ASSUME NEW t \in Server, NEW i \in 1..Len(queue'[t])
             PROVE  /\ reply'[queue'[t][i]] = "queued"
                    /\ \A j \in 1..Len(queue'[t]) : queue'[t][j] = queue'[t][i] => j = i
  BY DEF Waiting
<1>1. queue' = [queue EXCEPT ![s] = <<>>]
  BY DEF Crash
<1>2. t # s
  <2>1. t = s => Len(queue'[t]) = 0
    BY <1>1 DEF TypeOK, WorkerType
  <2> QED BY <2>1
<1>3. queue'[t] = queue[t] /\ queue[t] \in Seq(Conn)
  BY <1>1, <1>2 DEF TypeOK, WorkerType
<1>4. queue[t][i] \in Conn /\ home[queue[t][i]] = t /\ reply[queue[t][i]] = "queued"
  BY <1>3, ElementOfSeq DEF Placed, QueuePlace, Waiting
<1>5. reply'[queue[t][i]] = "queued"
  BY <1>2, <1>4 DEF Crash
<1> QED BY <1>3, <1>5 DEF Waiting


LEMMA FrontPlace ==
    ASSUME TypeOK, Placed, NEW s \in Server, queue[s] # <<>>
    PROVE  /\ Front(s) \in Conn /\ FrontUser(s) = UserOf[Front(s)] /\ FrontUser(s) \in User
           /\ home[Front(s)] = s
           /\ Waiting => reply[Front(s)] = "queued"
<1>1. queue[s] \in Seq(Conn)
  BY DEF TypeOK, WorkerType
<1>2. 1 \in 1..Len(queue[s]) /\ Front(s) = queue[s][1]
  BY <1>1, LenProperties, EmptySeq DEF Front
<1> QED BY <1>2, FrontType DEF Placed, QueuePlace, Waiting, FrontUser

\* The answer frees a worker, and says ok only at the end of a login.
LEMMA Answered ==
    ASSUME TypeOK, NEW s \in Server, queue[s] # <<>>, NEW code \in {"ok", "refused"}, Answer(s, code)
    PROVE  /\ reply' = [reply EXCEPT ![Front(s)] = code]
           /\ wpc' = [wpc EXCEPT ![s] = "idle"]
           /\ \A t \in Server \ {s} : queue'[t] = queue[t]
BY DEF Answer, Goto, TypeOK, WorkerType

\* The session is named in Redis by the worker that has it at its front.
LEMMA TokenNamed ==
    ASSUME TypeOK, LockInv, Placed, Tokens, NEW s \in Server, LoginSetSession(s)
    PROVE  Tokens'
<1> USE RegistryAssumption
<1>1. /\ queue[s] # <<>> /\ wpc' = [wpc EXCEPT ![s] = "unlock"]
      /\ usession' = [usession EXCEPT ![FrontUser(s)] = Front(s)]
      /\ UNCHANGED <<utoken, home, reply, queue>>
  BY DEF LoginSetSession, At, Goto, conns
<1>2. /\ Front(s) \in Conn /\ FrontUser(s) = UserOf[Front(s)] /\ FrontUser(s) \in User
      /\ home[Front(s)] = s /\ reply[Front(s)] = "queued"
  BY <1>1, FrontPlace DEF Tokens
<1>3. Waiting'
  BY <1>1, WaitingFrame DEF Tokens
<1>4. TokenPlace'
  BY <1>1 DEF Tokens, TokenPlace
<1>5. \A u \in User : usession'[u] = IF u = FrontUser(s) THEN Front(s) ELSE usession[u]
  BY <1>1 DEF TypeOK, RedisType
<1>6. NamesOwn'
  <2> SUFFICES ASSUME NEW t \in Server, wpc'[t] \in {"unlock", "token"}, NEW c \in Conn,
                      usession'[FrontUser(t)] = c, home[c] = t
               PROVE  c = Front(t)
    BY <1>1 DEF NamesOwn, Front, FrontUser
  <2>1. CASE t = s
    BY <1>2, <1>5, <2>1
  <2>2. CASE t # s
    <3>1. wpc[t] \in {"unlock", "token"}
      BY <1>1, <2>2 DEF TypeOK, WorkerType
    <3>2. FrontUser(t) \in User
      BY <3>1, FrontPlace DEF LockInv, Busy
    <3>3. usession[FrontUser(t)] = c
      BY <1>2, <1>5, <2>2, <3>2
    <3> QED BY <3>1, <3>3 DEF Tokens, NamesOwn
  <2> QED BY <2>1, <2>2
<1>7. TokenLast'
  <2> SUFFICES ASSUME NEW c \in Conn, NEW e \in Conn, usession'[UserOf[c]] = c, reply[c] = "ok",
                      home[e] = home[c], utoken[UserOf[c]] = SessionToken(e)
               PROVE  e = c
    BY <1>1 DEF TokenLast
  <2>1. usession[UserOf[c]] = c
    BY <1>2, <1>5
  <2> QED BY <2>1 DEF Tokens, TokenLast
<1> QED BY <1>3, <1>4, <1>6, <1>7 DEF Tokens

\* Then its token is set, by the same worker, before the next login.
LEMMA TokenSet ==
    ASSUME TypeOK, LockInv, Placed, Tokens, NEW s \in Server, LoginToken(s)
    PROVE  Tokens'
<1> USE RegistryAssumption
<1>1. /\ queue[s] # <<>> /\ wpc[s] = "token" /\ Answer(s, "ok")
      /\ utoken' = [utoken EXCEPT ![FrontUser(s)] = SessionToken(Front(s))]
      /\ UNCHANGED <<usession, home>>
  BY DEF LoginToken, At
<1>2. /\ Front(s) \in Conn /\ FrontUser(s) = UserOf[Front(s)] /\ FrontUser(s) \in User
      /\ home[Front(s)] = s
  BY <1>1, FrontPlace
<1>3. /\ reply' = [reply EXCEPT ![Front(s)] = "ok"]
      /\ wpc' = [wpc EXCEPT ![s] = "idle"]
      /\ \A t \in Server \ {s} : queue'[t] = queue[t]
  BY <1>1, Answered
<1>4. Waiting'
  BY <1>1, WaitingAnswer DEF Tokens
<1>5. \A u \in User : utoken'[u] = IF u = FrontUser(s) THEN SessionToken(Front(s)) ELSE utoken[u]
  BY <1>1 DEF TypeOK, RedisType
<1>6. \A e \in Conn : SessionToken(Front(s)) = SessionToken(e) => e = Front(s)
  BY DEF SessionToken
<1>7. TokenPlace'
  BY <1>1, <1>2, <1>5, <1>6 DEF Tokens, TokenPlace
<1>8. NamesOwn'
  <2> SUFFICES ASSUME NEW t \in Server, wpc'[t] \in {"unlock", "token"}, NEW c \in Conn,
                      usession[FrontUser(t)'] = c, home[c] = t
               PROVE  c = Front(t)'
    BY <1>1 DEF NamesOwn
  <2>1. t # s /\ wpc[t] \in {"unlock", "token"} /\ queue'[t] = queue[t]
    BY <1>3 DEF TypeOK, WorkerType
  <2> QED BY <2>1 DEF Tokens, NamesOwn, Front, FrontUser
<1>9. TokenLast'
  <2> SUFFICES ASSUME NEW c \in Conn, NEW e \in Conn, usession[UserOf[c]] = c, reply'[c] = "ok",
                      home[e] = home[c], utoken'[UserOf[c]] = SessionToken(e)
               PROVE  e = c
    BY <1>1 DEF TokenLast
  <2>1. CASE UserOf[c] = FrontUser(s)
    <3>1. e = Front(s)
      BY <1>5, <1>6, <2>1
    <3>2. c = Front(s)
      BY <1>1, <1>2, <2>1, <3>1 DEF Tokens, NamesOwn
    <3> QED BY <3>1, <3>2
  <2>2. CASE UserOf[c] # FrontUser(s)
    <3>1. utoken[UserOf[c]] = SessionToken(e)
      BY <1>5, <2>2
    <3>2. reply[c] = "ok"
      BY <1>2, <1>3, <2>2 DEF TypeOK, ConnType
    <3> QED BY <3>1, <3>2 DEF Tokens, TokenLast
  <2> QED BY <2>1, <2>2
<1> QED BY <1>4, <1>7, <1>8, <1>9 DEF Tokens


\* A login that neither ends nor names its session: the worker goes on, and the
\* step that reads "token" comes from "unlock".
GoesOn(s) ==
    /\ UNCHANGED <<reply, queue>>
    /\ \/ \E step \in {"del", "info", "lock", "getip", "bind", "rpc", "add", "setsession"} :
              wpc' = [wpc EXCEPT ![s] = step]
       \/ wpc[s] = "unlock" /\ wpc' = [wpc EXCEPT ![s] = "token"]

LEMMA Middle ==
    ASSUME NEW s \in Server, LoginStep(s), ~LoginSetSession(s), ~LoginToken(s)
    PROVE  Answer(s, "refused") \/ GoesOn(s)
<1>1. CASE LoginCheck(s)
  BY <1>1 DEF LoginCheck, At, Goto, conns, GoesOn
<1>2. CASE LoginDel(s)
  BY <1>2 DEF LoginDel, At, Goto, conns, GoesOn
<1>3. CASE LoginInfo(s)
  BY <1>3 DEF LoginInfo, At, Goto, conns, GoesOn
<1>4. CASE LoginLock(s)
  BY <1>4 DEF LoginLock, At, Goto, conns, GoesOn
<1>5. CASE LoginGetIp(s)
  BY <1>5 DEF LoginGetIp, At, Goto, conns, GoesOn
<1>6. CASE LoginRpc(s)
  BY <1>6 DEF LoginRpc, At, Goto, conns, GoesOn
<1>7. CASE LoginBind(s)
  BY <1>7 DEF LoginBind, At, Goto, conns, GoesOn
<1>8. CASE LoginAdd(s)
  BY <1>8 DEF LoginAdd, At, Goto, conns, GoesOn
<1>9. CASE LoginUnlock(s)
  BY <1>9 DEF LoginUnlock, At, Goto, conns, GoesOn
<1> QED BY <1>1, <1>2, <1>3, <1>4, <1>5, <1>6, <1>7, <1>8, <1>9 DEF LoginStep


LEMMA TokenStep == TypeOK /\ LockInv /\ Placed /\ Tokens /\ [Next]_vars => Tokens'
<1> SUFFICES ASSUME TypeOK, LockInv, Placed, Tokens, [Next]_vars PROVE Tokens'
  OBVIOUS
<1> USE RegistryAssumption
<1>0. \A u \in User, e \in Conn : SessionToken(e) # None /\ \A c \in Conn : SessionToken(e) # Handshake(c)
  BY TokenAssumption DEF Token, SessionToken, Handshake
\* What leaves the workers alone, and all of Redis but the tokens it takes away.
<1>1. ASSUME Settled,
             \A u \in User : utoken'[u] = utoken[u] \/ \A e \in Conn : utoken'[u] # SessionToken(e),
             \A u \in User : usession'[u] \in {usession[u], None},
             UNCHANGED <<reply, workers>>
      PROVE  Tokens'
  <2>1. TokenPlace' /\ NamesOwn' /\ TokenLast'
    BY <1>1, TokenFrame DEF workers
  <2>2. Waiting'
    BY <1>1, WaitingFrame DEF Tokens, workers
  <2> QED BY <2>1, <2>2 DEF Tokens
<1>2. ASSUME NEW c \in Conn, insertToken(c) PROVE Tokens'
  <2>1. \A u \in User : utoken'[u] = utoken[u] \/ utoken'[u] = Handshake(c)
    BY <1>2 DEF insertToken, TypeOK, RedisType
  <2>2. Settled /\ UNCHANGED <<usession, reply, workers>>
    BY <1>2 DEF insertToken, Settled
  <2> QED BY <1>0, <1>1, <2>1, <2>2
<1>3. ASSUME NEW c \in Conn, NEW s \in Server, Start(c, s) PROVE Tokens'
  <2>1. Settled
    BY <1>3 DEF Start, Settled, Placed, SockPlace, TypeOK, ConnType
  <2> QED BY <1>1, <1>3, <2>1 DEF Start, redis
<1>4. ASSUME NEW c \in Conn,
             \/ RecvRemoved(c) \/ Disconnect(c) \/ Insert(c) \/ ReadError(c) \/ WriteError(c)
             \/ TimerStep(c)
      PROVE  Tokens'
  <2>1. /\ Settled
        /\ UNCHANGED <<utoken, usession, reply, workers>>
    <3>1. CASE Insert(c)
      BY <3>1 DEF Insert, Settled, redis, TypeOK, ConnType
    <3>2. CASE ~Insert(c)
      BY <1>4, <3>2 DEF RecvRemoved, Disconnect, ReadError, WriteError, TimerStep, TimerClose,
                        TimerDeal, Settled, redis, conns
    <3> QED BY <3>1, <3>2
  <2> QED BY <1>1, <2>1
<1>5. ASSUME NEW c \in Conn, RecvLogin(c) PROVE Tokens'
  <2>1. /\ Settled /\ UNCHANGED <<utoken, usession, workers>>
        /\ reply[c] = "none" /\ (reply' = reply \/ reply' = [reply EXCEPT ![c] = "pushing"])
    BY <1>5 DEF RecvLogin, Settled, redis
  <2>2. \A d \in Conn : /\ reply'[d] = "ok" => reply[d] = "ok"
                        /\ reply[d] = "queued" => reply'[d] = "queued"
    BY <2>1 DEF TypeOK, ConnType
  <2> QED BY <2>1, <2>2, TokenFrame, WaitingFrame DEF Tokens, workers
<1>6. ASSUME NEW c \in Conn, PushMsg(c) PROVE Tokens'
  <2>1. /\ Settled /\ UNCHANGED <<utoken, usession, wpc>>
        /\ reply' = [reply EXCEPT ![c] = "queued"]
        /\ queue' = [queue EXCEPT ![home[c]] = Append(@, c)] /\ wpc[home[c]] = "idle"
    BY <1>6 DEF PushMsg, Settled, redis
  <2>2. \A d \in Conn : reply'[d] = "ok" => reply[d] = "ok"
    BY <2>1 DEF TypeOK, ConnType
  <2>3. \A s \in Server : wpc'[s] \in {"unlock", "token"} =>
            wpc[s] \in {"unlock", "token"} /\ queue'[s] = queue[s]
    BY <2>1 DEF TypeOK, WorkerType
  <2> QED BY <1>6, <2>1, <2>2, <2>3, TokenFrame, WaitingPush DEF Tokens
<1>7. ASSUME NEW d \in Deals, DealStep(d) PROVE Tokens'
  <2>1. Settled /\ UNCHANGED <<reply, workers>>
    BY <1>7 DEF DealStep, DealLock, DealGet, DealDelSession, DealDelIp, DealDelToken, DealClear,
                DealRelease, conns, Settled
  <2>2. \A u \in User : usession'[u] \in {usession[u], None} /\ utoken'[u] \in {utoken[u], None}
    BY <1>7 DEF DealStep, DealLock, DealGet, DealDelSession, DealDelIp, DealDelToken, DealClear,
                DealRelease, redis, TypeOK, RedisType
  <2> QED BY <1>0, <1>1, <2>1, <2>2
<1>8. ASSUME NEW s \in Server, LoginStep(s) PROVE Tokens'
  <2>1. CASE LoginSetSession(s)
    BY <2>1, TokenNamed
  <2>2. CASE LoginToken(s)
    BY <2>2, TokenSet
  <2>3. CASE ~LoginSetSession(s) /\ ~LoginToken(s)
    <3>1. queue[s] # <<>>
      BY <1>8 DEF LoginStep, At, LoginCheck, LoginDel, LoginInfo, LoginLock, LoginGetIp,
                  LoginRpc, LoginBind, LoginAdd, LoginSetSession, LoginUnlock, LoginToken
    <3>2. Settled /\ usession' = usession
      BY <1>8, <2>3 DEF LoginStep, LoginCheck, LoginDel, LoginInfo, LoginLock, LoginGetIp,
                        LoginRpc, LoginBind, LoginAdd, LoginUnlock, conns, redis, Settled
    <3>3. \A u \in User : utoken'[u] \in {utoken[u], None}
      BY <1>8, <2>3 DEF LoginStep, LoginCheck, LoginDel, LoginInfo, LoginLock, LoginGetIp,
                        LoginRpc, LoginBind, LoginAdd, LoginUnlock, redis, TypeOK, RedisType
    <3>4. CASE Answer(s, "refused")
      <4>1. /\ reply' = [reply EXCEPT ![Front(s)] = "refused"]
            /\ wpc' = [wpc EXCEPT ![s] = "idle"]
            /\ \A t \in Server \ {s} : queue'[t] = queue[t]
        BY <3>1, <3>4, Answered
      <4>2. \A d \in Conn : reply'[d] = "ok" => reply[d] = "ok"
        BY <4>1 DEF TypeOK, ConnType
      <4>3. \A t \in Server : wpc'[t] \in {"unlock", "token"} =>
                wpc[t] \in {"unlock", "token"} /\ queue'[t] = queue[t]
        BY <4>1 DEF TypeOK, WorkerType
      <4> QED BY <1>0, <3>1, <3>2, <3>3, <3>4, <4>2, <4>3, TokenFrame, WaitingAnswer DEF Tokens
    <3>5. CASE GoesOn(s)
      <4>1. \A t \in Server : wpc'[t] \in {"unlock", "token"} => wpc[t] \in {"unlock", "token"}
        BY <3>5 DEF GoesOn, TypeOK, WorkerType
      <4> QED BY <1>0, <3>2, <3>3, <3>5, <4>1, TokenFrame, WaitingFrame DEF Tokens, GoesOn
    <3> QED BY <1>8, <2>3, <3>4, <3>5, Middle
  <2> QED BY <2>1, <2>2, <2>3
<1>9. ASSUME NEW s \in Server, Crash(s) PROVE Tokens'
  <2>1. Settled /\ UNCHANGED <<utoken, usession>>
    BY <1>9 DEF Crash, Settled
  <2>2. \A c \in Conn : reply'[c] = "ok" => reply[c] = "ok"
    BY <1>9 DEF Crash
  <2>3. wpc' = [wpc EXCEPT ![s] = "idle"] /\ queue' = [queue EXCEPT ![s] = <<>>]
    BY <1>9 DEF Crash
  <2>4. \A t \in Server : wpc'[t] \in {"unlock", "token"} =>
            wpc[t] \in {"unlock", "token"} /\ queue'[t] = queue[t]
    BY <2>3 DEF TypeOK, WorkerType
  <2> QED BY <1>9, <2>1, <2>2, <2>4, TokenFrame, WaitingCrash DEF Tokens
<1>10. ASSUME NEW u \in User, LeaseEnd(u) PROVE Tokens'
  BY <1>1, <1>10 DEF LeaseEnd, conns, Settled
<1>11. ASSUME NEW u \in User, NEW t \in Server, LateKick(t, u) PROVE Tokens'
  BY <1>1, <1>11 DEF LateKick, redis, Settled
<1>12. CASE UNCHANGED vars
  BY <1>1, <1>12 DEF vars, redis, conns, workers, Settled
<1> QED BY <1>2, <1>3, <1>4, <1>5, <1>6, <1>7, <1>8, <1>9, <1>10, <1>11, <1>12 DEF Next, IoStep

LEMMA TokenInit == Init => Tokens
<1> SUFFICES ASSUME Init PROVE Tokens
  OBVIOUS
<1> USE RegistryAssumption
<1>1. Waiting
  BY DEF Init, Waiting
<1>2. TokenPlace
  BY TokenAssumption DEF Init, TokenPlace, Token, SessionToken
<1>3. NamesOwn /\ TokenLast
  BY DEF Init, NamesOwn, TokenLast
<1> QED BY <1>1, <1>2, <1>3 DEF Tokens

\* The session that Redis names is not left with the token of another login on
\* its server, whatever the locks do and whoever crashes: each worker sets the
\* tokens in the order of its logins.
THEOREM TokensInOrder == Spec => []LoggedInTokenValid
<1>1. TypeOK /\ Tokens => LoggedInTokenValid
  BY DEF Tokens, TokenLast, LoggedInTokenValid
<1>2. TypeOK /\ LockInv /\ Placed /\ Tokens /\ [Next]_vars => Tokens'
  BY TokenStep
<1> QED BY <1>1, <1>2, AllStages, TokenInit, PTL DEF Spec
-----------------------------------------------------------------------------
(* The logins that were accepted wait for their answer.                      *)

\* Where a login waits in the queue of its server.
Places(c) == {i \in 1..Len(queue[home[c]]) : queue[home[c]][i] = c}

\* An accepted login is in the queue of its server, and there once; no other
\* connection is in a queue.
Enqueued == \A c \in Conn : reply[c] = "queued" =>
    home[c] \in Server /\ \E i \in 1..Len(queue[home[c]]) : queue[home[c]][i] = c

NoLoginLost ==
    /\ \A c \in Conn : reply[c] = "queued" => home[c] \in Server /\ \E i \in 1..Len(queue[home[c]]) : Places(c) = {i}
    /\ \A s \in Server : \A i \in 1..Len(queue[s]) : home[queue[s][i]] = s /\ reply[queue[s][i]] = "queued"

\* What leaves the queues alone accepts nothing.
LEMMA EnqueuedFrame ==
    ASSUME Enqueued, Settled, UNCHANGED queue,
           \A c \in Conn : reply'[c] = "queued" => reply[c] = "queued"
    PROVE  Enqueued'
<1> SUFFICES ASSUME NEW c \in Conn, reply'[c] = "queued"
             PROVE  home'[c] \in Server /\ \E i \in 1..Len(queue'[home'[c]]) : queue'[home'[c]][i] = c
  BY DEF Enqueued
<1>1. home[c] \in Server /\ \E i \in 1..Len(queue[home[c]]) : queue[home[c]][i] = c
  BY DEF Enqueued
<1>2. home'[c] = home[c]
  BY <1>1, RegistryAssumption DEF Settled
<1> QED BY <1>1, <1>2

LEMMA EnqueuedPush ==
    ASSUME TypeOK, Placed, Enqueued, NEW c \in Conn, PushMsg(c)
    PROVE  Enqueued'
<1>1. /\ home[c] \in Server /\ home' = home
      /\ queue' = [queue EXCEPT ![home[c]] = Append(@, c)]
      /\ reply' = [reply EXCEPT ![c] = "queued"]
  BY DEF PushMsg, Placed, PushPlace
<1> SUFFICES ASSUME NEW d \in Conn, reply'[d] = "queued"
             PROVE  home[d] \in Server /\ \E i \in 1..Len(queue'[home[d]]) : queue'[home[d]][i] = d
  BY <1>1 DEF Enqueued
<1>2. /\ queue[home[c]] \in Seq(Conn) /\ Len(queue[home[c]]) \in Nat
      /\ queue'[home[c]] = Append(queue[home[c]], c)
  BY <1>1, LenProperties DEF TypeOK, WorkerType
<1>3. /\ Len(queue'[home[c]]) = Len(queue[home[c]]) + 1
      /\ \A j \in 1..Len(queue[home[c]]) : queue'[home[c]][j] = queue[home[c]][j]
      /\ queue'[home[c]][Len(queue[home[c]]) + 1] = c
  BY <1>2, AppendProperties
<1>4. CASE d = c
  BY <1>1, <1>2, <1>3, <1>4
<1>5. CASE d # c
  <2>1. home[d] \in Server /\ \E i \in 1..Len(queue[home[d]]) : queue[home[d]][i] = d
    BY <1>1, <1>5 DEF Enqueued, TypeOK, ConnType
  <2>2. CASE home[d] = home[c]
    BY <1>2, <1>3, <2>1, <2>2
  <2>3. CASE home[d] # home[c]
    <3>1. queue'[home[d]] = queue[home[d]]
      BY <1>1, <2>1, <2>3 DEF TypeOK, WorkerType
    <3> QED BY <2>1, <3>1
  <2> QED BY <2>2, <2>3
<1> QED BY <1>4, <1>5

\* Only the login at the front is answered, and only it leaves the queue.
LEMMA EnqueuedAnswer ==
    ASSUME TypeOK, Enqueued, Settled, NEW s \in Server, queue[s] # <<>>,
           NEW code \in {"ok", "refused"}, Answer(s, code)
    PROVE  Enqueued'
<1>1. /\ Front(s) \in Conn /\ reply' = [reply EXCEPT ![Front(s)] = code]
      /\ queue' = [queue EXCEPT ![s] = Tail(@)]
  BY FrontType DEF Answer
<1> SUFFICES ASSUME NEW d \in Conn, reply'[d] = "queued"
             PROVE  home'[d] \in Server /\ \E i \in 1..Len(queue'[home'[d]]) : queue'[home'[d]][i] = d
  BY DEF Enqueued
<1>2. d # Front(s) /\ reply[d] = "queued"
  BY <1>1 DEF TypeOK, ConnType
<1>3. PICK i \in 1..Len(queue[home[d]]) : queue[home[d]][i] = d
  BY <1>2 DEF Enqueued
<1>4. home[d] \in Server /\ home'[d] = home[d]
  BY <1>2, RegistryAssumption DEF Enqueued, Settled
<1>5. CASE home[d] # s
  <2>1. queue'[home[d]] = queue[home[d]]
    BY <1>1, <1>4, <1>5 DEF TypeOK, WorkerType
  <2> QED BY <1>3, <1>4, <2>1
<1>6. CASE home[d] = s
  <2>1. queue[s] \in Seq(Conn) /\ Len(queue[s]) \in Nat /\ Front(s) = queue[s][1]
    BY HeadTailProperties DEF TypeOK, WorkerType, Front
  <2>2. /\ queue'[s] = Tail(queue[s]) /\ Len(queue'[s]) = Len(queue[s]) - 1
        /\ \A j \in 1..Len(queue'[s]) : queue'[s][j] = queue[s][j + 1]
    BY <1>1, <2>1, HeadTailProperties DEF TypeOK, WorkerType
  <2>3. i # 1
    BY <1>2, <1>3, <1>6, <2>1
  <2>4. i - 1 \in 1..Len(queue'[s]) /\ queue'[s][i - 1] = d
    BY <1>3, <1>6, <2>1, <2>2, <2>3
  <2> QED BY <1>4, <1>6, <2>4
<1> QED BY <1>5, <1>6

LEMMA EnqueuedCrash ==
    ASSUME TypeOK, Enqueued, NEW s \in Server, Crash(s)
    PROVE  Enqueued'
<1> SUFFICES ASSUME NEW d \in Conn, reply'[d] = "queued"
             PROVE  home[d] \in Server /\ \E i \in 1..Len(queue'[home[d]]) : queue'[home[d]][i] = d
  BY DEF Enqueued, Crash
<1>1. home[d] # s /\ reply[d] = "queued"
  BY DEF Crash
<1>2. home[d] \in Server /\ \E i \in 1..Len(queue[home[d]]) : queue[home[d]][i] = d
  BY <1>1 DEF Enqueued
<1>3. queue'[home[d]] = queue[home[d]]
  BY <1>1, <1>2 DEF Crash, TypeOK, WorkerType
<1> QED BY <1>2, <1>3

LEMMA EnqueuedStep == TypeOK /\ Placed /\ Enqueued /\ [Next]_vars => Enqueued'
<1> SUFFICES ASSUME TypeOK, Placed, Enqueued, [Next]_vars PROVE Enqueued'
  OBVIOUS
<1> USE RegistryAssumption
<1>1. ASSUME Settled, UNCHANGED <<reply, queue>> PROVE Enqueued'
  BY <1>1, EnqueuedFrame
<1>2. ASSUME NEW c \in Conn, NEW s \in Server, Start(c, s) PROVE Enqueued'
  <2>1. Settled
    BY <1>2 DEF Start, Settled, Placed, SockPlace, TypeOK, ConnType
  <2> QED BY <1>1, <1>2, <2>1 DEF Start, workers
<1>3. ASSUME NEW c \in Conn, Insert(c) PROVE Enqueued'
  <2>1. Settled
    BY <1>3 DEF Insert, Settled, TypeOK, ConnType
  <2> QED BY <1>1, <1>3, <2>1 DEF Insert, workers
<1>4. ASSUME NEW c \in Conn,
             \/ insertToken(c) \/ RecvRemoved(c) \/ Disconnect(c) \/ ReadError(c) \/ WriteError(c)
             \/ TimerStep(c)
      PROVE  Enqueued'
  <2>1. Settled /\ UNCHANGED <<reply, queue>>
    BY <1>4 DEF insertToken, RecvRemoved, Disconnect, ReadError, WriteError, TimerStep, TimerClose,
                TimerDeal, Settled, conns, workers
  <2> QED BY <1>1, <2>1
<1>5. ASSUME NEW c \in Conn, RecvLogin(c) PROVE Enqueued'
  <2>1. /\ Settled /\ UNCHANGED queue
        /\ reply' = reply \/ reply' = [reply EXCEPT ![c] = "pushing"]
    BY <1>5 DEF RecvLogin, Settled, workers
  <2>2. \A d \in Conn : reply'[d] = "queued" => reply[d] = "queued"
    BY <2>1 DEF TypeOK, ConnType
  <2> QED BY <2>1, <2>2, EnqueuedFrame
<1>6. ASSUME NEW c \in Conn, PushMsg(c) PROVE Enqueued'
  BY <1>6, EnqueuedPush
<1>7. ASSUME NEW d \in Deals, DealStep(d) PROVE Enqueued'
  <2>1. Settled /\ UNCHANGED <<reply, queue>>
    BY <1>7 DEF DealStep, DealLock, DealGet, DealDelSession, DealDelIp, DealDelToken, DealClear,
                DealRelease, conns, workers, Settled
  <2> QED BY <1>1, <2>1
<1>8. ASSUME NEW s \in Server, LoginStep(s) PROVE Enqueued'
  <2>0. Settled
    BY <1>8 DEF LoginStep, LoginCheck, LoginDel, LoginInfo, LoginLock, LoginGetIp, LoginRpc, LoginBind,
                LoginAdd, LoginSetSession, LoginUnlock, LoginToken, conns, Settled
  <2>1. CASE LoginSetSession(s)
    BY <1>1, <2>0, <2>1 DEF LoginSetSession, conns
  <2>2. CASE LoginToken(s)
    BY <2>0, <2>2, EnqueuedAnswer DEF LoginToken, At
  <2>3. CASE ~LoginSetSession(s) /\ ~LoginToken(s)
    <3>1. queue[s] # <<>>
      BY <1>8, <2>3 DEF LoginStep, At, LoginCheck, LoginDel, LoginInfo, LoginLock, LoginGetIp,
                        LoginRpc, LoginBind, LoginAdd, LoginUnlock
    <3>2. Answer(s, "refused") \/ GoesOn(s)
      BY <1>8, <2>3, Middle
    <3> QED BY <1>1, <2>0, <3>1, <3>2, EnqueuedAnswer DEF GoesOn
  <2> QED BY <2>1, <2>2, <2>3
<1>9. ASSUME NEW s \in Server, Crash(s) PROVE Enqueued'
  BY <1>9, EnqueuedCrash
<1>10. ASSUME NEW u \in User, LeaseEnd(u) \/ \E t \in Server : LateKick(t, u) PROVE Enqueued'
  BY <1>1, <1>10 DEF LeaseEnd, LateKick, conns, workers, Settled
<1>11. CASE UNCHANGED vars
  BY <1>1, <1>11 DEF vars, conns, workers, Settled
<1> QED BY <1>2, <1>3, <1>4, <1>5, <1>6, <1>7, <1>8, <1>9, <1>10, <1>11 DEF Next, IoStep

\* A login message that was accepted waits in the queue of its server, once,
\* until it is answered or its server dies, and nothing else is in a queue.
\* The safety part of LoginAnswered; with LockHasHolder, what the login at the
\* front waits for is released.
THEOREM AcceptedWaits == Spec => []NoLoginLost
<1>1. Init => Enqueued
  BY DEF Init, Enqueued
<1>2. ASSUME Placed, Waiting, Enqueued PROVE NoLoginLost
  <2>1. ASSUME NEW c \in Conn, reply[c] = "queued"
        PROVE  home[c] \in Server /\ \E i \in 1..Len(queue[home[c]]) : Places(c) = {i}
    <3>1. home[c] \in Server
      BY <1>2, <2>1 DEF Enqueued
    <3>2. PICK i \in 1..Len(queue[home[c]]) : queue[home[c]][i] = c
      BY <1>2, <2>1 DEF Enqueued
    <3>3. \A j \in 1..Len(queue[home[c]]) : queue[home[c]][j] = c => j = i
      BY <1>2, <3>1, <3>2 DEF Waiting
    <3>4. Places(c) = {i}
      BY <3>2, <3>3 DEF Places
    <3> QED BY <3>1, <3>4
  <2> QED BY <1>2, <2>1 DEF NoLoginLost, Placed, QueuePlace, Waiting
<1>3. Tokens => Waiting
  BY DEF Tokens
<1>4. TypeOK /\ LockInv /\ Placed /\ Tokens /\ [Next]_vars => Tokens'
  BY TokenStep
<1> QED BY <1>1, <1>2, <1>3, <1>4, EnqueuedStep, AllStages, TokenInit, PTL DEF Spec
=============================================================================
