# MyMusic: specifications, model checking and proofs

MyMusic is a music player with a Qt client and a set of C++ servers. This directory holds TLA+
modules for the parts of it whose correctness depends on the order in which things happen, the
configurations with which TLC checks them, and proofs that TLAPS checks. Paths below are relative
to `src/`; `SS` stands for `Server/SessionServer`, `CL` for `MyMusic/MyMusic`.

Contents: [the system](#the-system), [modules and code](#modules-and-code),
[runs](#runs-and-bounds), [fairness](#fairness), [what the checks found](#what-the-checks-found),
[proofs](#proofs), [limits](#limits), [plan](#plan).

## The system

| Part | State it keeps | Operations | Works with |
|---|---|---|---|
| GateServer (`Server/GateServer`) | none of its own; MySQL pool | HTTP routes for verification code, registration, password reset, login | VerifyServer, StatusServer (gRPC), Redis, MySQL |
| StatusServer (`Server/StatusServer`) | Redis `utoken_<uid>` | `GetChatServer` picks a server and stores a handshake token, `Login` checks one | Redis |
| VerifyServer (`Server/VerifyServer`) | Redis codes with a time to live | `GetVerifyCode` | Redis, SMTP |
| SessionServer, connections (`SS/Server.cpp`, `SS/Session.cpp`) | `_sessions`; per session a socket, a send queue, the time of the last message | accept, read, send, close, `DealExceptionSession`, `On_Timer` | UserManager, LogicSystem, Redis |
| SessionServer, worker (`SS/LogicSystem.cpp`) | `_msg_que`, `_b_stop`, `_spools`, `_song` | `PustMsg`, `Run`, one handler per message | all of the below |
| Registry of sessions | Redis `uip_`, `usession_`, `utoken_`, `lock_<uid>`; `UserManager` | login, kick (`NotifyKickUser`), cleanup | other SessionServers by gRPC |
| Distributed lock (`SS/DistributeLock.cpp`) | one Redis key per user | `acquireLock`, `releaseLock` | Redis |
| Login count, heartbeat | Redis hash `logincount`, time to live of `utoken_` | step up, step down, overwrite by the timer; refresh | Redis |
| MySQL pool and DAO (`SS/MysqlDao.*`) | `_pool`, `_fail_count`; the tables | get, return, check, reconnect; songs, albums, playlists | MySQL |
| Redis pool (`SS/RedisManager.*`) | free connections | get, return, close | Redis |
| StorageServer (`Server/StorageServer`) | none; FastDFS | `UploadImage`, a stream | FastDFS |
| Client (`CL`) | windows, token, song tables, upload dialog, decoder threads | login, upload, collect, play, scan, chat | GateServer by HTTP, SessionServer by TCP, an AI service |

How they meet: a client obtains a handshake token through GateServer and StatusServer, connects to a
SessionServer and sends a login message. I/O threads read messages and push them to the one worker
of their server, which handles them one after the other, keeping the mutex of the queue. Handlers
call Redis, MySQL, the other SessionServers and StorageServer synchronously. Answers are queued per
session. A timer thread closes silent sessions every minute. Nothing but Redis, MySQL, FastDFS and
the temporary files of uploads survives the death of a server.

Hard behaviours, and the properties that make each component right:

* **Registry.** Two logins of a user may run on two servers at once, while the previous session is
  cleaned up by its I/O thread and by the timer, a kick arrives late or a server dies. A user must be
  live on one server at most, Redis must name that session, and a cleanup may delete only its own keys.
* **Distributed lock.** Leases run out under their holders, holders die. Two callers may be inside
  only if a lease has run out, a release may not free a successor, an orphaned key goes away.
* **Send queue.** Several threads send, one asynchronous write may be in flight; writes fail half-way.
  Messages leave in order, once.
* **Logic queue.** Several producers, one condition variable, a notification only when the queue
  becomes non-empty, a drain at exit. No message may be left while the worker sleeps.
* **MySQL pool.** Users that nest, a check thread that takes connections away, outages. Connections
  may neither leak nor multiply; who waits is served.
* **Liked songs.** A list is made by select and insert from several servers, a song gets its position in
  two statements, a removal renumbers the rest, and the client shows hearts before the server has
  answered. There must be one list, in the order of the clicks, and hearts and page that agree with it.
* **Framing.** Streams are cut anywhere, bodies may be empty, connections are lost in a message. What is
  read is what was sent, and all of it is read.
* **Accounts.** Codes, rows and salts are read in one call and used in a later one, by requests for
  several addresses and purposes. Only who reads the mail to an address changes its account, a code
  that was mailed works while it lives, and the right password is accepted.
* **Upload.** One user's chunks, another's, a retry of a broken upload, a failed write, a failed RPC.
  Only whole files are stored, success means stored, nothing is left behind, the dialog closes.

The hazards list of `PROJECT.json` names the lines and, for each, the properties about it. Where the code
does go wrong, or the properties except the case, its note says so: a login without the lock, a late kick
that meets a later login, a session registered after it was closed, keys that outlive their session, two
servers at work on one list, a pool that shrinks.


## Modules and code

One module per component; `...MC` modules give the constants values for TLC, `...Proofs` modules hold
the theorems. Operators introduced by a comment `Mutant:` are deliberate mistakes, each of which
replaces the definition after it in a separate experiment: they show that the properties can fail,
and are not part of any specification.

| Module | Code | State and actions |
|---|---|---|
| `Mutex` | | what a lock promises: those inside exclude each other |
| `DistLock` | `SS/DistributeLock.cpp`, `acquireLock` and `releaseLock` of `SS/RedisManager.cpp` | the key, its remaining time, per caller its step, waiting time and age of its lease; one action per Redis command, `Tick` for time |
| `SessionRegistry` | `LoginHandler`, `DealExceptionSession`, `HandleAccept`, `ClearSession`, `On_Timer`, `UserManager`, `NotifyKickUser` on both sides, `GetChatServer` | four Redis keys per user, sockets and reads, `_sessions`, `UserManager`, the queue and the step of each worker, the step of each cleanup; one action per Redis command or map operation, so that all interleavings are there |
| `OrderedChannel` | | what a session promises: accepted messages leave in order, once |
| `SendQueue` | `Send`, `HandleWrite`, `Close` of `SS/Session.cpp` | `_send_que`, writes in flight, the wire; one action per critical section and per completion handler |
| `LogicQueue` | `PustMsg`, `Run`, the destructor of `LogicSystem` | `_msg_que`, mutex, waiting or not, `_b_stop`; pushes and their notifications, the steps of the worker, of the destructor |
| `MySqlPool` | `SS/MysqlDao.h` | `_pool`, `_fail_count`, what each thread holds and waits for, the check thread, health of each connection, MySQL up or down. A connection the check has tested less than 5 s ago it puts back untested, which the model allows at any time |
| `Upload` | `UploadMetaTypeHandler`, `UploadFileHandler`, `UploadAudio`, StorageServer's `UploadImage`, `getOrCreateSong`, `CL/UploadWidget.cpp` and the two answer handlers of `CL/tcpmanager.cpp` | dialog and file of each client, its messages, `_song`, `_spools`, temporary files, the RPC, FastDFS, the table of songs |
| `Collect` | the delegate, view and answer handlers of the client (`CL/tableview`, `CL/mainwindow.cpp`, `CL/tcpmanager.cpp`), `CollectSongHandler` and the two handlers of the page in `SS/LogicSystem.cpp`, the playlist methods of `SS/MysqlDao.cpp` | hearts and page of each client, requests and answers, the step of each handler, the playlists and the positions in them; one action per SQL statement, a failure beside each, the abort of the server, a login elsewhere |
| `Framing` | `AsyncReadHead`, `AsyncReadBody`, `AsyncReadLen` of `SS/Session.cpp`, `readyRead` and `slot_send_data` of `CL/tcpmanager.cpp`, `HandleAccept` | two byte streams, `_data` and the node of the session, `_buffer`, `_b_recv_pending` and the place of the stream of the client; one action per cell that is read and per head and body |
| `Accounts` | `Server/VerifyServer/VerifyServiceImpl.cpp`, the routes of `Server/GateServer/LogicSystem.cpp` with its `MysqlDao.cpp`, the dialogs for registration, reset and login | codes and their time in Redis, mail, rows of `user`, the step of each request; one action per call of Redis, MySQL, mail server, `Tick` for time |

`SessionRegistry` models the lock as an atomic variable; that `DistLock` behaves like that for callers
whose lease runs is what `MutexSpec` shows, and the faults `"lock"` of `SessionRegistry` stand for the
cases in which it does not (an acquire timeout that the login ignores, a lease that ends early).
In `Upload` the worker is one process, which `LogicQueue` justifies, and the answers of a connection
arrive in order or not at all, which `SendQueue` justifies.

Deliberate abstractions: tokens, names and payloads are values that are equal or not; a file is a
sequence of chunks; the tags of a song are its title and its artists; time is a count of ticks in
`DistLock` and `Accounts` and elsewhere the possibility that something expires. A connection logs in
once. In `Framing` the two bytes of an id, or of a length, are one cell. In `Accounts` a password hash
is the pair of password and salt, and codes and salts are never made twice.

## Runs and bounds

Every bound is a constant of its module. Faults are counted down from a maximum so that any order of
them is explored.

| Run | Instance | Shows |
|---|---|---|
| `dist_lock` | 3 callers | exclusion for exactly the lease (`LeaseExclusive`), a key goes only with its owner or its lease (`KeptWhileLeased`), an orphan goes away (`OrphanFreed`), leased callers see a `Mutex` (`MutexSpec`) |
| `registry` | one user, 2 connections, 2 servers, one failed or late kick or crash | `OneLive`, `LiveIsRegistered`, `CleanupSparesOthers`, `KeysAgree` |
| `registry_lock` | the same on one server, one of: acquire timeout, early end of a lease, crash | `LockHasHolder`, `LoggedInTokenValid` |
| `registry_live` | the same without faults, under fairness | closed sessions are forgotten (`ClosedForgotten`), logins are answered (`LoginAnswered`) |
| `send_queue` | 4 messages, `MAX_SEND_QUEUE` 1 | `OneWrite`, `QueueIsBacklog`, the refinement `ChannelSpec`, delivery (`Sent`) |
| `logic_queue` | 4 messages | `NoLostMessage`, `InOrder`, `NothingLeft`, `Handled`, `ExitsUnlessMissed` |
| `mysql_pool` | 2 threads, nesting 2, 3 connections, 2 failures (an outage, or one connection that is closed) | `NeverTooMany`, `NoneLost`, `NoLostWakeup`, `Served` |
| `upload` | 2 users, 3 uploads, files of 3 chunks of which one fits into memory, one fault | `FileWhole`, `ToldIsStored`, `NoFileLeft`, `DialogHasUpload`, `UploadEnds` |
| `upload_song` | 2 users, one upload each, no fault | `RowIsOneSong` fails |
| `collect` | 2 clients of a user, 3 songs, 2 clicks, one page, one login elsewhere, two failing statements | `OneList`, `HeartsAgree`, `PageAgrees`, `ListInOrder` |
| `framing` | 2 messages each way, full and empty, one new connection | `ServerReadsSent`, `ClientReadsSent`, `AllRead` |
| `accounts` | 2 persons, 2 requests at a time, 2 codes, 2 salts, a code lives 2 ticks, one failing call | `MailedIsStored`, `RightAccepted`, `OwnerChanges` |

Why these are enough. *Lock:* two callers compete for a key, a third is the successor that a wrong
release would free. *Registry:* users share nothing but the queue of a worker, so one user suffices;
two connections are a session and the login that replaces it; each connection has two cleanups, by its
I/O thread and by the timer, so four processes and the workers contend for the lock; the second
server makes kicks remote. One fault per behaviour keeps the runs small; `NoLockLeft` and
`CleanupSafe` below hold for any number of them. *Queues:* four messages make a queue full, overfull and empty again; with
`MAX_SEND_QUEUE` 1 the limit is met after two. *Pool:* two threads that nest need four connections
of three. *Upload:* three chunks are a first, a middle and a last one, the first in memory, the
second written together with it, the third appended; one user uploads a song twice or two songs, the
other one a song of the same name. One fault suffices to break an upload at any step, and the
repetition needs none. *Liked songs:* two servers at work on one list need two clients, an order that can
be turned round needs two songs beside the one that is moved, and two clicks are two requests under
way, or a song that is liked and taken back; a server aborts only after two failing statements. *Framing:* a full body next to an empty one, in both
orders of arrival; the width of the length is 8 instead of 65536, and every length fits, as
`FramingAssumption` says. *Accounts:* two persons have four keys, and each of two requests meets the
other at every step; two codes suffice for one that replaces another, two salts for a registration
and a reset.

The type invariants of all modules are theorems (below) and not part of the runs.

`CHECK_DEADLOCK FALSE` stands where the system may stop: clients that have nothing left to do, a
server that has ended, a pool whose users wait for each other.

## Fairness

* `SessionRegistry`: weak fairness of `SystemStep`, the steps of the threads of the servers and the
  end of an orphan's lease. The threads run on, Redis calls return, the acquire loop is bounded by 5
  s and a silent socket is found by the timer after 60 s. Clients, faults and crashes owe nothing.
* `SendQueue`: a write ends or fails, and asio runs its completion handler.
* `LogicQueue`: the threads run; pushing and exiting are up to the environment.
* `MySqlPool`: the threads run, MySQL comes back, a returned connection is handed on. The check comes
  once a minute while a thread may take and return connections in between; that it gets to a
  connection again and again is strong fairness of its steps, the least under which anything can be
  said about it.
* `Upload`: weak fairness of the worker, whose calls all have a deadline.
* `DistLock`: time passes, a caller inside releases and one whose timeout has passed gives up, unless
  it dies.
* `Framing`: bytes arrive while there is a connection, both programs read on, and the accept handler
  gets to the map. Nobody has to send, to lose or to make a connection.
* `Collect` and `Accounts` have no liveness property: what a request waits for is a call of a library.

## What the checks found

One run ends in a counterexample (`findings` in `PROJECT.json`): **songs with the tags of others**
(`upload_song`, `SS/LogicSystem.cpp:577`). `_song` belongs to all users, so the row of one upload has
the artists of another. After a failed upload even the next one of the same user inherits its artists.

The following is seen in the models too. The properties are stated so that they except exactly these
cases, and say what holds beside them:

* **A logged-in session with a useless token** (`SS/LogicSystem.cpp:267`). The session token is set after
  the lock is released. Of two logins on two servers the one that came first may set its token last,
  and the registered session is then refused by every handler. One server keeps the order, which is
  what `LoggedInTokenValid` says.
* **A server that does not exit** (`SS/LogicSystem.cpp:75`). The destructor sets `_b_stop` and notifies
  without the mutex; between the test of the wait condition and the wait the notification is lost.
  `ExitsUnlessMissed` excepts that moment. The Close methods of both pools have the same form.
* **A worker that waits for itself** (`SS/MysqlDao.h:115`). After an outage that closed all connections one
  successful reconnect resets `_fail_count`, the pool keeps one connection, and methods that need two
  at a time (`getOrCreateSong`, `getOrCreatePlaylist`) never return. `Served` excepts it (`NestDeadlock`).
* **A heart that is not put back** (`SS/LogicSystem.cpp:592`). The comment says the request is echoed so that
  the client can put the heart back after a failure, and `CL/mainwindow.cpp:81` does so; but the DAO
  swallows SQL errors and the handler answers with success. `HeartsAgree` and `PageAgrees` are stated for
  histories without a failing statement. They also except a login that reads the hearts while a
  handler of the login before still runs (`overlap`), on another server.
* **A second list, or an abort** (`SS/MysqlDao.cpp:359`, `SS/MysqlManager.cpp:48`). A failing SELECT is taken for
  "no list": the insertion that follows makes a second list of the same name, or, if there are two
  already, an exception that is logged as FATAL, which ends the server.
* **A second message in one `readyRead`** (`CL/tcpmanager.cpp:87`). The stream is made once, the bytes of a
  message are removed from the buffer under it, and the next head is read behind its place.
  `ClientReadsSent` and `AllRead` hold up to the first such case (`second`).
* **Half a message that outlives its connection** (`CL/tcpmanager.cpp:20`). `closeConnection` closes the
  socket and leaves `_buffer` and `_b_recv_pending`, although `CL/logindialog.cpp:43` calls it to clear half
  packets before a retry. The properties except connections that begin with something in the buffer
  (`stale`).
* **A code that never ends** (`Server/VerifyServer/VerifyServiceImpl.cpp:43`). When EXPIRE fails after SET the
  code stays, and is mailed to whoever asks next. Two requests that both find no code mail two, of
  which one is stored, and so does a GET that fails. `MailedIsStored` excepts these two (`raced`); the code
  that never ends it does not speak of, since its time never began (`due` is 0). A code that is mailed again keeps the time it
  had left, whereas the mail (`Server/VerifyServer/Email.cpp:52`) promises ten minutes.

Seen while modelling, beside what the properties say:

* A login goes on without the lock when `acquireLock` times out (`SS/LogicSystem.cpp:220`).
  `OneLive`, `LiveIsRegistered` and `KeysAgree` are therefore stated for histories without such a
  breach.
* A client that leaves while its login is handled leaves its token in Redis (`SS/Session.cpp:223`
  returns before the deletions), whereas `README.md:48` says that a cleanup deletes it.
* The send queue takes `MAX_SEND_QUEUE + 1` messages (`SS/Session.cpp:67`); `ChannelSpec` is stated
  with that capacity.
* A temporary file that survived a crash becomes the beginning of the next upload of that name, and
  when Redis fails for the first chunk of a repeated upload only, the others are appended to the
  old entry. The size of the stored file is right in both cases, its contents are not. `FileWhole`
  and `ToldIsStored` are stated for histories without these two.
* The progress dialog stays open when the song has no cover (it opens before that check), when the
  file is empty (no chunk is ever sent), when the connection breaks and when the token is rejected
  (`slotTokenInvalid` is connected to nothing).
* Answers are not tied to an upload: a late answer to a dismissed upload closes the dialog of the
  next. All open upload widgets send their file when one meta message is answered.
* An SQL error in `getOrCreateSong` is reported as success, whether it left no row, a second row of the
  same song (the SELECT failed) or a row without some of its artists (`InsertFails`).
* A handler that has not registered its session yet finds a head and closes the connection
  (`SS/Server.cpp:99`); `AllRead` counts that as closed.
* A message longer than 65535 bytes is sent with its length cut to 16 bits (`CL/tcpmanager.cpp:26`,
  `SS/MessageNode.h:42`); `Framing` assumes that all fit.

## Proofs

The theorems hold for every value of the constants that satisfies the named assumptions of the
modules.

* `SessionRegistryProofs`: `TypeCorrect`; `NoLockLeft` (`LockHasHolder`), whatever fails and whoever
  crashes; `CleanupSafe` (`CleanupSparesOthers`), as long as the lock is kept. The inductive
  invariant relates three views of the critical section: who is at a step inside it (`Busy`), who
  believes to hold the lock, and whom Redis names. `LockHasHolder` alone is not inductive: it needs
  that a worker's flag says whether it is inside and that its login is at the head of its queue, and
  that a cleanup inside it is one of the user whose key it holds. `CleanupSafe` adds that nobody else
  writes `usession` while a cleanup is between its check and its deletions. `LiveOnce` (`OneLive`),
  `LiveIsNamed` (`LiveIsRegistered`) and `BothKeys` (`KeysAgree`) share one more invariant, `Stage`: given
  who holds the lock of a user and at which step, what is known of the live sessions and of the keys.
  For instance a login that has kicked knows that nobody is live until it adds its session, and a cleanup
  past its first DEL knows that only its own session may be. Each step of the owner takes one stage to the
  next; all other steps are `Aside`, which leaves every stage as it is. A crash leaves the lock to nobody,
  and what its owner had not finished was live on that server only. That a session is on one server, in
  the maps of that server only (`Placed`), is an invariant of its own, which needs no lock.
  `TokensInOrder` (`LoggedInTokenValid`) needs none either: a login waits in the queue of its server once and
  unanswered, and while the worker is between `usession` and the token no other session of its server
  is named for that user, so the token it stores last is that of the session it named last.
  `AcceptedWaits` (`NoLoginLost`): an accepted login is in the queue of its server, and there once, until it is answered
  or its server dies.
* `DistLockProofs`: `TypeCorrect`, `Exclusive`, `Kept`, `ImplementsMutex` (every step of the lock is
  a step of `Mutex` or a stutter, for the callers whose lease runs), `LeaseRunsOut` (a key has time
  left, which every second shortens and nobody renews), `LeaversAreLeased` (if nobody
  stays longer than a lease those are all callers inside). The invariant says that the key of a
  caller whose lease runs names that caller and lives exactly as long as the rest of the lease.
* `QueueProofs`, the queue of a session: `TypeCorrect`, `NeverTwoWrites`, `NothingOvertaken` (`QueueIsBacklog`),
  `ImplementsChannel`, and from it `PeerGetsAccepted`: the peer receives the accepted messages in order, each once.
  The invariant says that the queue is what was accepted but not yet written off, and
  one write is in flight exactly while it is not empty on a working connection. The queue of the worker:
  `LogicTypeCorrect`, `NeverSleepsOverWork` (`NoLostMessage`), `EndsEmpty` (`NothingLeft`), `HandledInOrder` (`InOrder`).
  The invariant says who knows what while it has the mutex, and that a sleeping worker beside a
  non-empty queue has a pusher between its push and its notification. That holds only because a push
  that makes the queue non-empty notifies, which is what `PustMsg` does, and because the worker tests under
  the mutex. `InOrder` needs that the messages in the queue are the last ones pushed. A message's place is the
  number of known messages up to it (`Place`), so the order is stated by counting and no sequence has to be
  filtered, which would be induction.
* `MySqlPoolProofs`: `TypeCorrect`, `Bounded` (`NeverTooMany`), `NothingLost` (`NoneLost`),
  `NobodyOversleeps` (`NoLostWakeup`). The connections in use
  are counted as the slots of the threads' stacks that are filled, so that taking and returning one
  changes the count by one. `NoneLost` needs what "no outage" means: the database is up, nothing has
  failed, no connection was closed and every connection, wherever it is, is good. `NeverTooMany` needs that the check thread has a
  connection in hand exactly while it tests it, and that `fails` counts one that is gone. `NoLostWakeup` says that up to the first
  failure no more connections lie in the pool than threads are awake to take them, if anyone sleeps: each
  connection that is put back finds no sleeper or wakes one. It ends with the first failure because `ReConnect`
  puts a connection into the pool and notifies nobody.
* `UploadProofs`: `TypeCorrect`, `OnlyWholeFiles` (`FileWhole`), `SuccessIsStored` (`ToldIsStored`), `NothingLeft`
  (`NoFileLeft`), `DialogAttended` (`DialogHasUpload`), for files of any length and any number of users. `Files` says
  that a temporary file belongs to an entry of the spool or to the upload being forwarded, so a first
  chunk never meets an old file. `Order` says that the chunks on their way follow each other, so that the
  one before the one in front was the last one handled. `Contents` says that when chunk n + 1 is in front its
  entry has at most n chunks, and if it has n they are chunks 1 to n: what is complete after the last
  chunk is the file, and what has lost a chunk is shorter than the size announced, which StorageServer notices. The
  two cases excepted above (a file that survived a crash, a token check that failed for one message only) are
  exactly those in which `Contents` fails. `Complete` says that an online client sends whole uploads: the last
  message on its way is a meta message or a last chunk, so an upload whose dialog is open still has the message on its
  way that will be answered, until its file is forwarded.
* `CollectProofs`: `TypeCorrect`, `LikedInOneList` (`OneList`), `OrderKept` (`ListInOrder`), `HeartsTrue` (`HeartsAgree`),
  `PageTrue` (`PageAgrees`). The first invariant says that a handler at work on
  songs has found its list, and that without a failure the handler finds the default list after its attempt to
  create it, whoever has created it: that is where the UNIQUE key of the table is needed. The second, `Undisturbed`, holds while no login
  overlaps a handler: one handler at most is at work and nobody else is logged in who could start one, so the position
  and the order it has read are still those of the table. `Hearts` says of each song that its heart is what the last
  request for it says, or with none on its way what the handler at work will have done (`Will`), or with none at work
  what the table says; a step moves a song from one of the three to the next. `Pages` follows the songs that were asked
  for in the same way through the requests, the handler and the answers.
* `FramingProofs`: `TypeCorrect`, `ServerCorrect` (`ServerReadsSent`), `ClientCorrect` (`ClientReadsSent`) and
  `NothingIsStuck` (a reader that has nothing left to do has read all that was sent), for any number and
  length of messages. The invariant is the place of the stream. At the server the cells in `_data` are those
  before it, since the head or the body began, and the node has the length of the message the body belongs
  to. At the client the cells ahead, in the buffer and in the socket, follow each other as they were sent, and
  the first of them begins the head or the body that is awaited.
* `AccountsProofs`: `TypeCorrect`, `OwnersOnly` (`OwnerChanges`), `RightIsAccepted` (`RightAccepted`), `MailedCounts`
  (`MailedIsStored`). The invariant says that a code is made for
  one key: whether stored, on its way or mailed, it is found with no other. So a code that was read in the
  mail of a person and equals the stored one was mailed for that address and that purpose, and this
  stays true until the row is written, however long the request takes. `RightAccepted` needs that a row
  has the salt its hash was made with and that a name has one row. `MailedIsStored` needs that of the requests for
  a key one at most is between GET and EXPIRE, having found nothing, and that the ten minutes of a mailed code begin
  with that EXPIRE, so that a code is gone from Redis only when its time is over.

Every invariant and every action property that a passing run checks is a theorem. Model-checked only are
the liveness properties `OrphanFreed`, `ClosedForgotten`, `LoginAnswered`, `Sent`, `Handled`, `ExitsUnlessMissed`, `Served`,
`UploadEnds` and `AllRead`, because TLAPS does not reason about `ENABLED`, and the violation of `RowIsOneSong`.
The safety part of most of them is proved: `LeaseRunsOut` for `OrphanFreed`, `AcceptedWaits` and `NoLockLeft` for
`LoginAnswered`, `NeverTwoWrites` for `Sent`, `NeverSleepsOverWork` for `Handled`, `NobodyOversleeps` for `Served`,
`DialogAttended` for `UploadEnds`, `NothingIsStuck` for `AllRead`. What they leave to fairness is that a step which can be
taken is taken.

## Limits

Not modelled:

* painting and layout, audio decoding and effects, generated protocol code, reading of configuration;
  FastDFS, MySQL and the mail server themselves (their results are choices of the models);
* the player. Its threads share the decoder and the format context without a lock: `stop` closes the
  context while a detached reader may be inside `av_read_frame` (`CL/FFPlayer/FFPlayer.cpp:79`), and a state that
  went from playing to stopped and back looks unchanged to a thread that compares it. Nearly every
  interleaving of interest is undefined behaviour, so a model would list arbitrary outcomes;
* the order of play, the windows and the widgets, which are sequential code of one event loop;
* the login count, which nothing reads (`Server/StatusServer/StatusServiceImpl.cpp:83` is commented out), and the
  refresh of tokens by heartbeats;
* Close of the pools, the pools of the other servers, which are copies of the same header;
* the deadline of 60 s of an HTTP connection, and a SessionServer that exits while requests are handled.

Of the 35 000 lines of the implementation some 16 000 are generated protocol code, and much of the rest is
widgets, signal processing and configuration; the maps cover what is left of it where order matters.

What TLAPS cannot do here stays with TLC: liveness under fairness and `ENABLED`, and whatever needs
induction over data.

## Plan

Done, in this order: `DistLock`/`Mutex`, `SessionRegistry`, `SendQueue`/`OrderedChannel`, `LogicQueue`,
`MySqlPool`, `Upload`, `Collect`, `Framing`, `Accounts`. What would come next:

1. `Scanner`: directories and tasks of the thread pool, the end of the scan that may never be announced
   (`CL/Tool/filescannerworker.cpp:68`).
2. `RedisPool`, composed with `DistLock`: waiters that keep a connection while they poll.
3. Heartbeats with the life of the tokens, beside `SessionRegistry`.
4. Proofs: the safety parts of `ClosedForgotten` (a closed session has a cleanup under way or to come) and of
   `ExitsUnlessMissed`.
