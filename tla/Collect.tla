------------------------------ MODULE Collect ------------------------------
(***************************************************************************)
(* The songs a user likes: the hearts in the main table of the client,     *)
(* the requests that collect a song or take it back, the statements with   *)
(* which the worker of a SessionServer carries them out, and the page that *)
(* shows the list.                                                         *)
(*                                                                         *)
(* One user, whose login moves from one client to another; each client is  *)
(* connected to a server of its own, whose worker handles its messages one *)
(* after the other.  Statements are atomic, the handler is not.  A         *)
(* statement, or a look into Redis, may fail.                              *)
(***************************************************************************)
EXTENDS Naturals, Sequences, FiniteSets

CONSTANTS Client, Song, None,
          MaxClicks,    \* bound of the model: hearts clicked
          MaxOpens,     \* bound of the model: the page opened
          MaxPending,   \* bound of the model: requests of a client not handled yet
          MaxLogins,    \* bound of the model: logins after the first
          MaxFaults     \* bound of the model: statements that fail

ASSUME CollectAssumption ==
    /\ Client # {} /\ None \notin Client \cup Song
    /\ IsFiniteSet(Song)
    /\ MaxClicks \in Nat /\ MaxOpens \in Nat /\ MaxPending \in Nat
    /\ MaxLogins \in Nat /\ MaxFaults \in Nat

\* Playlists of the name of the liked songs: UNIQUE (user_id, is_default).
List == {"default", "plain"}

VARIABLES
    up,         \* per client: has it a connection, and is it logged in
    token,      \* the client whose login made the token in Redis
    heart,      \* per client: the hearts of the main table
    page,       \* per client: the songs on the page of the list
    fresh,      \* per client: no heart was clicked since the page was asked for
    req,        \* per client: its requests, on their way or in _msg_que
    rsp,        \* per client: the answers on their way
    job,        \* per client: the handler its server is in
    lists,      \* MySQL: the playlists
    pos,        \* MySQL: per playlist the position of each song, 0 for none
    overlap,    \* has a login read the list while an older login's handler ran
    clicks, opens, logins, faultsLeft

ui == <<heart, page, fresh>>
session == <<up, token, overlap>>
db == <<lists, pos>>
bounds == <<clicks, opens, logins>>
vars == <<session, ui, req, rsp, job, db, bounds, faultsLeft>>

Idle == [at |-> "idle", song |-> None, cover |-> TRUE, list |-> "default",
         place |-> 0, order |-> [s \in Song |-> 0]]

Songs(l) == {s \in Song : pos[l][s] # 0}
Liked == Songs("default")                 \* what the queries give as is_like

\* The positions are 1, 2, ...
Dense(f) ==
    LET there == {s \in Song : f[s] # 0} IN {f[s] : s \in there} = 1..Cardinality(there)

\* The user has logged in; there may be a list, with songs.
Init ==
    /\ \E c \in Client : token = c /\ up = [d \in Client |-> d = c]
    /\ pos \in [List -> [Song -> 0..Cardinality(Song)]]
    /\ \A l \in List : Dense(pos[l])
    /\ lists = {} \/ lists = {"default"}
    /\ \A l \in List \ lists : Songs(l) = {}
    /\ heart = [c \in Client |-> IF up[c] THEN Liked ELSE {}]
    /\ page = [c \in Client |-> {}]
    /\ fresh = [c \in Client |-> FALSE]
    /\ req = [c \in Client |-> <<>>]
    /\ rsp = [c \in Client |-> <<>>]
    /\ job = [c \in Client |-> Idle]
    /\ overlap = FALSE
    /\ clicks = MaxClicks
    /\ opens = MaxOpens
    /\ logins = MaxLogins
    /\ faultsLeft = MaxFaults

Fault == faultsLeft > 0 /\ faultsLeft' = faultsLeft - 1
NoFault == UNCHANGED faultsLeft
-----------------------------------------------------------------------------
(* The client *)

Send(c, kind, s) == req' = [req EXCEPT ![c] = Append(@, [kind |-> kind, song |-> s])]

\* The delegate flips the heart and tells the view, which sends the request.
Click(c, s) ==
    /\ up[c] /\ clicks > 0 /\ Len(req[c]) < MaxPending
    /\ clicks' = clicks - 1
    /\ heart' = [heart EXCEPT ![c] = IF s \in @ THEN @ \ {s} ELSE @ \cup {s}]
    /\ fresh' = [fresh EXCEPT ![c] = FALSE]
    /\ Send(c, IF s \in heart[c] THEN "unlike" ELSE "like", s)
    /\ UNCHANGED <<session, page, rsp, job, db, opens, logins, faultsLeft>>

\* The favourites in the sidebar: the page's head is asked for.
Open(c) ==
    /\ up[c] /\ opens > 0 /\ Len(req[c]) < MaxPending
    /\ opens' = opens - 1
    /\ Send(c, "info", None)
    /\ UNCHANGED <<session, ui, rsp, job, db, clicks, logins, faultsLeft>>

Received(c) == rsp' = [rsp EXCEPT ![c] = Tail(@)]

\* The answer for a heart: an error other than an invalid token puts it back.
ReceiveCollect(c) ==
    /\ rsp[c] # <<>>
    /\ LET a == Head(rsp[c]) IN
       /\ a.kind \in {"like", "unlike"}
       /\ heart' = [heart EXCEPT ![c] = IF a.error # "other" THEN @
                        ELSE IF a.kind = "like" THEN @ \ {a.song} ELSE @ \cup {a.song}]
    /\ Received(c)
    /\ UNCHANGED <<session, page, fresh, req, job, db, bounds, faultsLeft>>

\* The head of the page: now its songs are asked for.
ReceiveInfo(c) ==
    /\ rsp[c] # <<>>
    /\ Head(rsp[c]).kind = "info"
    /\ IF Head(rsp[c]).error = "success" THEN Send(c, "songs", None) /\ fresh' = [fresh EXCEPT ![c] = TRUE]
                                         ELSE UNCHANGED <<req, fresh>>
    /\ Received(c)
    /\ UNCHANGED <<session, heart, page, job, db, bounds, faultsLeft>>

\* The songs of the page; after an error the old ones stay.
ReceiveSongs(c) ==
    /\ rsp[c] # <<>>
    /\ LET a == Head(rsp[c]) IN
       /\ a.kind = "songs"
       /\ page' = [page EXCEPT ![c] = IF a.error = "success" THEN a.songs ELSE @]
    /\ Received(c)
    /\ UNCHANGED <<session, heart, fresh, req, job, db, bounds, faultsLeft>>
-----------------------------------------------------------------------------
(* Logins *)

\* StatusServer gives client c a token, which replaces the one there was.
InsertToken(c) ==
    /\ ~up[c] /\ logins > 0
    /\ logins' = logins - 1
    /\ token' = c
    /\ UNCHANGED <<up, overlap, ui, req, rsp, job, db, clicks, opens, faultsLeft>>

\* The login handler, after what the worker had queued for c: it reads all
\* songs with their hearts.
Login(c) ==
    /\ ~up[c] /\ token = c
    /\ job[c] = Idle /\ req[c] = <<>>
    /\ up' = [up EXCEPT ![c] = TRUE]
    /\ heart' = [heart EXCEPT ![c] = Liked]
    /\ page' = [page EXCEPT ![c] = {}]
    /\ fresh' = [fresh EXCEPT ![c] = FALSE]
    /\ overlap' = (overlap \/ \E d \in Client : job[d] # Idle)
    /\ UNCHANGED <<token, req, rsp, job, db, bounds, faultsLeft>>

\* The older login is thrown out; its requests stay with the worker.
Kick(c) ==
    /\ up[c] /\ token # c
    /\ up' = [up EXCEPT ![c] = FALSE]
    /\ rsp' = [rsp EXCEPT ![c] = <<>>]
    /\ UNCHANGED <<token, overlap, ui, req, job, db, bounds, faultsLeft>>
-----------------------------------------------------------------------------
(* The worker of the server of c *)

At(c, step) == job[c].at = step
Goto(c, step) == job' = [job EXCEPT ![c].at = step] /\ UNCHANGED rsp
WithList(c, l, step) == job' = [job EXCEPT ![c].at = step, ![c].list = l] /\ UNCHANGED rsp

\* The answer is sent by the Defer of the handler, if the session is still there.
Answer(c, kind, s, error, songs) ==
    rsp' = IF up[c] THEN [rsp EXCEPT ![c] = Append(@, [kind |-> kind, song |-> s,
                                               error |-> error, songs |-> songs])]
                    ELSE rsp

\* A collect handler answers with success, whatever the statements gave.
Finish(c, kind) ==
    /\ Answer(c, kind, job[c].song, "success", {})
    /\ job' = [job EXCEPT ![c] = Idle]

\* Mutant: the song is put in before the list is made.
FirstStepSong == [like |-> "select any", unlike |-> "find", info |-> "info", songs |-> "songs"]

FirstStep == [like |-> "cover", unlike |-> "find", info |-> "info", songs |-> "songs"]

\* A request carries the token of its own login: those a thrown-out login has
\* left with the worker are refused, also after a new token for the same client.
TokenIsValid(c) == up[c] /\ token = c

\* CheckToken; a Redis that fails makes the token invalid, too.
Handle(c, r) ==
    \/ /\ TokenIsValid(c) /\ NoFault
       /\ job' = [job EXCEPT ![c] = [Idle EXCEPT !.at = FirstStep[r.kind], !.song = r.song]]
       /\ UNCHANGED rsp
    \/ /\ \/ ~TokenIsValid(c) /\ NoFault
          \/ Fault
       /\ Answer(c, r.kind, r.song, "token", {})
       /\ UNCHANGED job

\* Mutant: the worker takes the last message.
TakeLast(c) ==
    /\ At(c, "idle") /\ req[c] # <<>>
    /\ req' = [req EXCEPT ![c] = SubSeq(@, 1, Len(@) - 1)]
    /\ Handle(c, req[c][Len(req[c])])
    /\ UNCHANGED <<session, ui, db, bounds>>

\* The worker takes a message.
Take(c) ==
    /\ At(c, "idle") /\ req[c] # <<>>
    /\ req' = [req EXCEPT ![c] = Tail(@)]
    /\ Handle(c, Head(req[c]))
    /\ UNCHANGED <<session, ui, db, bounds>>

\* getCoverUrlId: -1 is no value for the column of the playlist.
GetCoverUrlId(c) ==
    /\ At(c, "cover")
    /\ \E ok \in BOOLEAN : /\ IF ok THEN NoFault ELSE Fault
                           /\ job' = [job EXCEPT ![c].at = "select default", ![c].cover = ok]
    /\ UNCHANGED <<session, ui, req, rsp, db, bounds>>

\* getOrCreatePlaylist, from the handler, for the default list: look by name;
\* an error is followed by the insertion, as if there were none.
SelectDefault(c) ==
    /\ At(c, "select default")
    /\ \/ lists # {} /\ NoFault /\ Goto(c, "select any")
       \/ lists = {} /\ NoFault /\ Goto(c, "insert default")
       \/ Fault /\ Goto(c, "insert default")
    /\ UNCHANGED <<session, ui, req, db, bounds>>

CanInsert(c, l) == l \notin lists

\* The handler does not look at the result.
InsertDefault(c) ==
    /\ At(c, "insert default")
    /\ \/ CanInsert(c, "default") /\ job[c].cover /\ NoFault /\ lists' = lists \cup {"default"}
       \/ ~(CanInsert(c, "default") /\ job[c].cover) /\ NoFault /\ UNCHANGED lists
       \/ Fault /\ UNCHANGED lists
    /\ Goto(c, "select any")
    /\ UNCHANGED <<session, ui, req, pos, bounds>>

\* getOrCreatePlaylist again, from createPlaylistSong, for a list that is not the
\* default one, but by the same name: of two lists it may find either.
SelectAny(c) ==
    /\ At(c, "select any")
    /\ \/ \E l \in lists : NoFault /\ WithList(c, l, "count")
       \/ lists = {} /\ NoFault /\ Goto(c, "insert plain")
       \/ Fault /\ Goto(c, "insert plain")
    /\ UNCHANGED <<session, ui, req, db, bounds>>

InsertPlain(c) ==
    /\ At(c, "insert plain")
    /\ CanInsert(c, "plain") /\ NoFault
    /\ lists' = lists \cup {"plain"}
    /\ WithList(c, "plain", "count")
    /\ UNCHANGED <<session, ui, req, pos, bounds>>

\* Without a list createPlaylistSong throws, and MysqlManager logs that as FATAL:
\* the server is gone, and with it the connection.
Abort(c) ==
    /\ At(c, "insert plain")
    /\ \/ ~CanInsert(c, "plain") /\ NoFault
       \/ Fault
    /\ up' = [up EXCEPT ![c] = FALSE]
    /\ req' = [req EXCEPT ![c] = <<>>]
    /\ rsp' = [rsp EXCEPT ![c] = <<>>]
    /\ job' = [job EXCEPT ![c] = Idle]
    /\ UNCHANGED <<token, overlap, ui, db, bounds>>

\* createPlaylistSong: is the song there, what is the last position, insert it.
CountSong(c) ==
    /\ At(c, "count")
    /\ \/ pos[job[c].list][job[c].song] = 0 /\ NoFault /\ Goto(c, "max")
       \/ pos[job[c].list][job[c].song] # 0 /\ NoFault /\ Finish(c, "like")
       \/ Fault /\ Finish(c, "like")
    /\ UNCHANGED <<session, ui, req, db, bounds>>

Last(S) == {m \in S : \A n \in S : n <= m}

\* Mutant: COUNT + 1.
NextPositionCount(l) == {Cardinality(Songs(l)) + 1}

\* The position after the last one, in a set.
NextPosition(l) == {m + 1 : m \in Last({0} \cup {pos[l][s] : s \in Song})}

MaxPosition(c) ==
    /\ At(c, "max")
    /\ \/ /\ NoFault
          /\ \E p \in NextPosition(job[c].list) :
                job' = [job EXCEPT ![c].at = "insert", ![c].place = p]
          /\ UNCHANGED rsp
       \/ Fault /\ Finish(c, "like")
    /\ UNCHANGED <<session, ui, req, db, bounds>>

InsertSong(c) ==
    /\ At(c, "insert")
    /\ LET j == job[c] IN
       \/ /\ NoFault
          /\ pos' = IF pos[j.list][j.song] = 0 THEN [pos EXCEPT ![j.list][j.song] = j.place] ELSE pos
       \/ Fault /\ UNCHANGED pos
    /\ Finish(c, "like")
    /\ UNCHANGED <<session, ui, req, lists, bounds>>

\* deletePlaylistSong: the list's id, the deletion, then the new positions.
GetPlaylistId(c) ==
    /\ At(c, "find")
    /\ \/ \E l \in lists : NoFault /\ WithList(c, l, "delete")
       \/ lists = {} /\ NoFault /\ Finish(c, "unlike")
       \/ Fault /\ Finish(c, "unlike")
    /\ UNCHANGED <<session, ui, req, db, bounds>>

DeleteSong(c) ==
    /\ At(c, "delete")
    /\ LET j == job[c] IN
       \/ /\ pos[j.list][j.song] # 0 /\ NoFault
          /\ pos' = [pos EXCEPT ![j.list][j.song] = 0]
          /\ Goto(c, "order")
       \/ /\ \/ pos[j.list][j.song] = 0 /\ NoFault
             \/ Fault
          /\ Finish(c, "unlike")
          /\ UNCHANGED pos
    /\ UNCHANGED <<session, ui, req, lists, bounds>>

\* updatePlaylistSongPosition, a transaction: the songs by position ...
SelectOrder(c) ==
    /\ At(c, "order")
    /\ \/ /\ NoFault
          /\ job' = [job EXCEPT ![c].at = "renumber", ![c].order = pos[job[c].list]]
          /\ UNCHANGED rsp
       \/ Fault /\ Finish(c, "unlike")
    /\ UNCHANGED <<session, ui, req, db, bounds>>

\* (songs of one position come in any order)
IsRank(rank, old) ==
    LET there == {s \in Song : old[s] # 0} IN
    /\ {rank[s] : s \in there} = 1..Cardinality(there)
    /\ \A s, t \in there : old[s] < old[t] => rank[s] < rank[t]

\* ... and the updates, which the commit makes visible, or a rollback undoes.
Renumber(c) ==
    /\ At(c, "renumber")
    /\ LET j == job[c] IN
       \/ /\ NoFault
          /\ \E rank \in [Song -> 0..Cardinality(Song)] :
                /\ IsRank(rank, j.order)
                /\ \A s \in Song : j.order[s] = 0 => rank[s] = 0
                /\ pos' = [pos EXCEPT ![j.list] = [s \in Song |->
                        IF j.order[s] \in {0, rank[s]} \/ @[s] = 0 THEN @[s] ELSE rank[s]]]
       \/ Fault /\ UNCHANGED pos
    /\ Finish(c, "unlike")
    /\ UNCHANGED <<session, ui, req, lists, bounds>>

\* GetCollectSongListHandler: the head of the page, if there is a list.
PageInfo(c) ==
    /\ At(c, "info")
    /\ \/ NoFault /\ Answer(c, "info", None, IF lists # {} THEN "success" ELSE "other", {})
       \/ Fault /\ Answer(c, "info", None, "other", {})
    /\ job' = [job EXCEPT ![c] = Idle]
    /\ UNCHANGED <<session, ui, req, db, bounds>>

\* GetSongListPageInfoHandler: the songs, an empty list being an error.
PageSongs(c) ==
    /\ At(c, "songs")
    /\ \/ \E l \in lists : NoFault /\
            Answer(c, "songs", None, IF Songs(l) # {} THEN "success" ELSE "other", Songs(l))
       \/ Fault /\ Answer(c, "songs", None, "other", {})
    /\ job' = [job EXCEPT ![c] = Idle]
    /\ UNCHANGED <<session, ui, req, db, bounds>>

Worker(c) ==
    \/ Take(c)
    \/ GetCoverUrlId(c) \/ SelectDefault(c) \/ InsertDefault(c)
    \/ SelectAny(c) \/ InsertPlain(c) \/ Abort(c)
    \/ CountSong(c) \/ MaxPosition(c) \/ InsertSong(c)
    \/ GetPlaylistId(c) \/ DeleteSong(c) \/ SelectOrder(c) \/ Renumber(c)
    \/ PageInfo(c) \/ PageSongs(c)

Next == \E c \in Client :
    \/ Open(c) \/ \E s \in Song : Click(c, s)
    \/ ReceiveCollect(c) \/ ReceiveInfo(c) \/ ReceiveSongs(c)
    \/ InsertToken(c) \/ Login(c) \/ Kick(c)
    \/ Worker(c)

Spec == Init /\ [][Next]_vars
-----------------------------------------------------------------------------
Request == [kind : {"like", "unlike"}, song : Song] \cup [kind : {"info", "songs"}, song : {None}]
Response == [kind : {"like", "unlike"}, song : Song, error : {"success", "token", "other"},
             songs : SUBSET Song]
            \cup [kind : {"info", "songs"}, song : {None}, error : {"success", "token", "other"},
                  songs : SUBSET Song]
Step == {"idle", "cover", "select default", "insert default", "select any", "insert plain",
         "count", "max", "insert", "find", "delete", "order", "renumber", "info", "songs"}

Job == [at : Step, song : Song \cup {None}, cover : BOOLEAN, list : List,
        place : Nat, order : [Song -> Nat]]
SongSteps == Step \ {"idle", "info", "songs"}

TypeOK ==
    /\ up \in [Client -> BOOLEAN] /\ token \in Client /\ overlap \in BOOLEAN
    /\ heart \in [Client -> SUBSET Song] /\ page \in [Client -> SUBSET Song]
    /\ fresh \in [Client -> BOOLEAN]
    /\ req \in [Client -> Seq(Request)] /\ rsp \in [Client -> Seq(Response)]
    /\ job \in [Client -> Job] /\ \A c \in Client : job[c].at \in SongSteps => job[c].song \in Song
    /\ lists \subseteq List
    /\ pos \in [List -> [Song -> Nat]] /\ \A l \in List \ lists : Songs(l) = {}
    /\ clicks \in 0..MaxClicks /\ opens \in 0..MaxOpens
    /\ logins \in 0..MaxLogins /\ faultsLeft \in 0..MaxFaults

NoFaultYet == faultsLeft = MaxFaults
Quiet(c) == up[c] /\ token = c /\ req[c] = <<>> /\ rsp[c] = <<>> /\ job[c] = Idle

\* All liked songs are in one list, the default one, though two servers may both
\* find none and both create it, and though createPlaylistSong, which is what
\* the song is put in by, asks for a list that is not the default one.
OneList == NoFaultYet => "plain" \notin lists

\* The hearts of the client that is logged in are those of the database, however
\* they were clicked, once everything is answered.
HeartsAgree == NoFaultYet /\ ~overlap => \A c \in Client : Quiet(c) => heart[c] = Liked

\* The page shows the liked songs, if there are any, unless a heart was clicked
\* since it was asked for.
PageAgrees == NoFaultYet /\ ~overlap =>
    \A c \in Client : Quiet(c) /\ fresh[c] => page[c] = Liked \/ Liked = {}

\* Liking a song puts it after the others, and taking one back leaves the order
\* of the others, even if statements fail: MAX + 1 and the renumbering fit
\* together also when a renumbering did not happen.
ListInOrder == [][~overlap => \A l \in List : \A s \in Songs(l) : \A t \in Song \ {s} :
    pos'[l][s] # 0 /\ pos'[l][t] # 0 /\ (pos[l][t] = 0 \/ pos[l][s] < pos[l][t])
        => pos'[l][s] < pos'[l][t]]_pos
=============================================================================
