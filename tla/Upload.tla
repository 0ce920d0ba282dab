------------------------------- MODULE Upload -------------------------------
(***************************************************************************)
(* Uploading songs: the client sends the tags of a song (the meta message) *)
(* and, once that is answered, the file in chunks; the worker of the       *)
(* SessionServer keeps the tags in _song and the chunks in a spool entry,  *)
(* first in memory and then in a temporary file; with the last chunk it    *)
(* streams the file to StorageServer, which puts it into FastDFS, and      *)
(* inserts the song.                                                       *)
(*                                                                         *)
(* The worker handles one message after the other, those of a client in    *)
(* their order.  A file has Chunks chunks; a song stands for its title,    *)
(* artist and file name.  Clients lose their connections and tokens and    *)
(* the server may die; writing, RPCs and SQL may fail.                     *)
(***************************************************************************)
EXTENDS Naturals, Sequences

CONSTANTS Client, Song,
          Has,          \* per client: the songs on its disk
          Chunks,       \* chunks of a file
          MemLimit,     \* SPOOL_MEM_THRESHOLD, in chunks
          None,
          MaxTries,     \* bound of the model: uploads of each client
          MaxFaults     \* bound of the model: how often something goes wrong

Key == Client \X Song                    \* uid and cleaned file name
Chunk == Song \X (1..Chunks)
Entry == [mem : Seq(Chunk), spilled : BOOLEAN]      \* struct SpoolEntry

ASSUME UploadAssumption ==
    /\ Has \in [Client -> SUBSET Song]
    /\ Chunks \in Nat \ {0}
    /\ MemLimit \in Nat
    /\ MaxTries \in [Client -> Nat]
    /\ MaxFaults \in Nat
    /\ None \notin Song \cup Key \cup Entry

FileOf(g) == [i \in 1..Chunks |-> <<g, i>>]

Meta(g) == <<g, 0>>                      \* messages: chunk 0 is the meta message

VARIABLES
    dialog,     \* per client: is the progress dialog open
    path,       \* per client: _file_path of the upload widget
    tries,      \* per client: uploads begun
    online,     \* per client: has it a connection
    token,      \* per client: is the token of the connection the one in Redis
    inbox,      \* per client: its messages, on their way or in _msg_que
    wpc,        \* the worker: idle, forward (the RPC is running), insert
    song,       \* _song: title, artists, file
    spools,     \* _spools: per key the chunks in memory and whether there is a file
    stale,      \* keys without a chunk for SPOOL_STALE_SECONDS
    disk,       \* the temporary files; they survive the server
    fwd,        \* the key being forwarded, its data, has it a temporary file
    stored,     \* FastDFS: the files put there
    rows,       \* MySQL: the songs
    told,       \* the songs whose upload was answered with success
    past,       \* what has happened: "crash", "redis", "no cover"
    faultsLeft

ui == <<dialog, path, tries>>
net == <<online, token>>
spool == <<spools, stale, disk>>
database == <<stored, rows>>
faults == <<past, faultsLeft>>
vars == <<ui, net, inbox, wpc, song, spool, fwd, database, told, faults>>

NoSong == [title |-> None, artists |-> <<>>, file |-> <<>>]
NoFwd == [key |-> None, data |-> <<>>, spilled |-> FALSE]

Init ==
    /\ dialog = [c \in Client |-> FALSE]
    /\ path = [c \in Client |-> None]
    /\ tries = [c \in Client |-> 0]
    /\ online = [c \in Client |-> TRUE]
    /\ token = [c \in Client |-> TRUE]
    /\ inbox = [c \in Client |-> <<>>]
    /\ wpc = "idle"
    /\ song = NoSong
    /\ spools = [k \in Key |-> None]
    /\ stale = {}
    /\ disk = [k \in Key |-> <<>>]
    /\ fwd = NoFwd
    /\ stored = {}
    /\ rows = {}
    /\ told = {}
    /\ past = {}
    /\ faultsLeft = MaxFaults

Fault == faultsLeft > 0 /\ faultsLeft' = faultsLeft - 1
-----------------------------------------------------------------------------
(* The client *)

\* The sure button: the dialog opens, the meta message goes out.
Begin(c, g) ==
    /\ online[c]
    /\ ~dialog[c]
    /\ g \in Has[c]
    /\ tries[c] < MaxTries[c]
    /\ dialog' = [dialog EXCEPT ![c] = TRUE]
    /\ path' = [path EXCEPT ![c] = g]
    /\ tries' = [tries EXCEPT ![c] = @ + 1]
    /\ inbox' = [inbox EXCEPT ![c] = Append(@, Meta(g))]
    /\ UNCHANGED <<net, wpc, song, spool, fwd, database, told, faults>>

\* The sure button without a cover: the dialog opens, and that is all.
BeginWithoutCover(c, g) ==
    /\ online[c]
    /\ ~dialog[c]
    /\ g \in Has[c]
    /\ tries[c] < MaxTries[c]
    /\ Fault
    /\ past' = past \cup {"no cover"}
    /\ dialog' = [dialog EXCEPT ![c] = TRUE]
    /\ path' = [path EXCEPT ![c] = g]
    /\ tries' = [tries EXCEPT ![c] = @ + 1]
    /\ UNCHANGED <<net, inbox, wpc, song, spool, fwd, database, told>>

\* The dialog has no cancel button; the user gets rid of it with Escape.
Dismiss(c) ==
    /\ dialog[c]
    /\ dialog' = [dialog EXCEPT ![c] = FALSE]
    /\ UNCHANGED <<path, tries, net, inbox, wpc, song, spool, fwd, database, told, faults>>

\* What an answer does to the dialog of a client that is still there.  It is
\* not tied to an upload: progress opens a closed dialog again, a result
\* closes one that is open for a later upload.
Answer(c, open) == dialog' = [dialog EXCEPT ![c] = IF online[c] THEN open ELSE @]
Progress(c) == Answer(c, TRUE)
Result(c) == Answer(c, FALSE)

\* The connection breaks; what the server has not received is lost.  The
\* messages it has are handled, their answers reach nobody.
Disconnect(c) ==
    /\ online[c]
    /\ Fault
    /\ online' = [online EXCEPT ![c] = FALSE]
    /\ \E n \in 0..Len(inbox[c]) : inbox' = [inbox EXCEPT ![c] = SubSeq(@, 1, n)]
    /\ UNCHANGED <<ui, token, wpc, song, spool, fwd, database, told, past>>

\* The user, rid of the dialog, logs in: a message like the others for the
\* worker.  What is left of the old connection has the old token and will be
\* rejected.
Reconnect(c) ==
    /\ ~online[c]
    /\ wpc = "idle"
    /\ online' = [online EXCEPT ![c] = TRUE]
    /\ token' = [token EXCEPT ![c] = TRUE]
    /\ inbox' = [inbox EXCEPT ![c] = <<>>]
    /\ dialog' = [dialog EXCEPT ![c] = FALSE]
    /\ UNCHANGED <<path, tries, wpc, song, spool, fwd, database, told, faults>>

\* The session token is replaced (GetChatServer for another login) or expires.
LoseToken(c) ==
    /\ token[c]
    /\ Fault
    /\ token' = [token EXCEPT ![c] = FALSE]
    /\ UNCHANGED <<ui, online, inbox, wpc, song, spool, fwd, database, told, past>>
-----------------------------------------------------------------------------
(* The handlers of the worker *)

Ready(c) == wpc = "idle" /\ inbox[c] # <<>>
SongOf(c) == Head(inbox[c])[1]
Seqno(c) == Head(inbox[c])[2]
PopInbox(c) == inbox' = [inbox EXCEPT ![c] = Tail(@)]

\* CheckToken fails.  The client emits sig_token_invalid, which nobody listens to.
Reject(c) ==
    /\ Ready(c)
    /\ ~token[c]
    /\ PopInbox(c)
    /\ UNCHANGED <<ui, net, wpc, song, spool, fwd, database, told, faults>>

\* CheckToken fails because Redis does not answer.
RejectOnce(c) ==
    /\ Ready(c)
    /\ token[c]
    /\ Fault
    /\ past' = past \cup {"redis"}
    /\ PopInbox(c)
    /\ UNCHANGED <<ui, net, wpc, song, spool, fwd, database, told>>

Accepts(c) == Ready(c) /\ token[c]

\* Mutant: the last chunk is not sent.
AllButLast(c) == [i \in 1..(Chunks - 1) |-> <<path[c], i>>]

AllChunks(c) == [i \in 1..Chunks |-> <<path[c], i>>]

\* The artists are added to those _song has.
SongKept(c) == song' = [song EXCEPT !.title = SongOf(c), !.artists = Append(@, SongOf(c))]

\* UploadMetaTypeHandler.  The client reacts to the answer by sending the whole
\* file it has now.
UploadMetaType(c) ==
    /\ Accepts(c)
    /\ Seqno(c) = 0
    /\ SongKept(c)
    /\ inbox' = [inbox EXCEPT ![c] = IF online[c] THEN Tail(@) \o AllChunks(c) ELSE Tail(@)]
    /\ UNCHANGED <<ui, net, wpc, spool, fwd, database, told, faults>>

\* The client cannot read the file.
UploadMetaUnread(c) ==
    /\ Accepts(c)
    /\ Seqno(c) = 0
    /\ Fault
    /\ SongKept(c)
    /\ PopInbox(c)
    /\ Result(c)
    /\ UNCHANGED <<path, tries, net, wpc, spool, fwd, database, told, past>>

\* The cover cannot be stored: the handler returns early.
UploadMetaFails(c) ==
    /\ Accepts(c)
    /\ Seqno(c) = 0
    /\ Fault
    /\ PopInbox(c)
    /\ Result(c)
    /\ UNCHANGED <<path, tries, net, wpc, song, spool, fwd, database, told, past>>

NewEntry == [mem |-> <<>>, spilled |-> FALSE]

\* Mutant: the old entry of the same name is overwritten, its file stays.
PurgedStale(k) == stale

\* The keys a first chunk removes: its own and the stale ones.
Purged(k) == {k} \cup stale

\* Entries and files when chunk i of key k is appended: a first chunk has
\* purged, and made a new entry.
SpoolsAt(k, i) ==
    IF i = 1 THEN [j \in Key |-> CASE j = k -> NewEntry
                                   [] j # k /\ j \in Purged(k) -> None
                                   [] OTHER -> spools[j]]
             ELSE spools

HasFile(j) == spools[j] # None /\ spools[j].spilled

\* Mutant: the files of removed entries stay.
DiskKept(k, i) == disk

DiskAt(k, i) ==
    IF i = 1 THEN [j \in Key |-> IF j \in Purged(k) /\ HasFile(j) THEN <<>> ELSE disk[j]]
             ELSE disk

Fresh(k, i) == stale' = stale \ (IF i = 1 THEN Purged(k) ELSE {k})

FitsInMemory(e) == ~e.spilled /\ Len(e.mem) + 1 <= MemLimit

\* Append a chunk to entry e with file d, in memory or, above the limit, to
\* the file, which is opened for appending.
WithChunk(e, d, chunk) ==
    IF FitsInMemory(e)
      THEN [entry |-> [e EXCEPT !.mem = Append(@, chunk)], file |-> d]
      ELSE [entry |-> [mem |-> <<>>, spilled |-> TRUE], file |-> d \o Append(e.mem, chunk)]

\* What a failed open or write leaves: nothing written and the memory kept, or
\* a part written and the memory cleared.
AfterFailure(e, d, chunk) ==
    {[entry |-> [e EXCEPT !.spilled = TRUE], file |-> d]} \cup
    {[entry |-> [mem |-> <<>>, spilled |-> TRUE], file |-> d \o SubSeq(e.mem, 1, n)] :
        n \in 0..Len(e.mem)}

\* The reader takes the memory first, then the file.
DataOf(a) == IF a.entry.spilled THEN a.entry.mem \o a.file ELSE a.entry.mem

\* UploadFileHandler: the last chunk (trans_size = total_size) takes the entry
\* out and starts the RPC, whatever has been received.
UploadFile(c) ==
    LET i == Seqno(c)
        k == <<c, SongOf(c)>>
        e == SpoolsAt(k, i)[k]
    IN  /\ Accepts(c)
        /\ i # 0
        /\ e # None
        /\ LET a == WithChunk(e, DiskAt(k, i)[k], <<SongOf(c), i>>)
            IN  /\ disk' = [DiskAt(k, i) EXCEPT ![k] = a.file]
                /\ IF i = Chunks
                     THEN /\ spools' = [SpoolsAt(k, i) EXCEPT ![k] = None]
                          /\ fwd' = [key |-> k, data |-> DataOf(a),
                                     spilled |-> a.entry.spilled]
                          /\ UNCHANGED dialog
                          /\ wpc' = "forward"
                     ELSE /\ spools' = [SpoolsAt(k, i) EXCEPT ![k] = a.entry]
                          /\ Progress(c)
                          /\ UNCHANGED <<fwd, wpc>>
        /\ Fresh(k, i)
        /\ PopInbox(c)
        /\ UNCHANGED <<path, tries, net, song, database, told, faults>>

\* The temporary file cannot be opened or written: the chunk is lost.
UploadFileFails(c) ==
    LET i == Seqno(c)
        k == <<c, SongOf(c)>>
        e == SpoolsAt(k, i)[k]
    IN  /\ Accepts(c)
        /\ i # 0
        /\ e # None
        /\ ~FitsInMemory(e)
        /\ Fault
        /\ \E a \in AfterFailure(e, DiskAt(k, i)[k], <<SongOf(c), i>>) :
              /\ disk' = [DiskAt(k, i) EXCEPT ![k] = a.file]
              /\ spools' = [SpoolsAt(k, i) EXCEPT ![k] = a.entry]
        /\ Fresh(k, i)
        /\ PopInbox(c)
        /\ Result(c)
        /\ UNCHANGED <<path, tries, net, wpc, song, fwd, database, told, past>>

\* Mutant: a chunk without an entry is dropped unanswered.
UploadFileLateSilent(c) ==
    /\ Accepts(c)
    /\ Seqno(c) > 1
    /\ spools[<<c, SongOf(c)>>] = None
    /\ PopInbox(c)
    /\ UNCHANGED <<ui, net, wpc, song, spool, fwd, database, told, faults>>

\* A chunk of an entry that was purged.
UploadFileLate(c) ==
    /\ Accepts(c)
    /\ Seqno(c) > 1
    /\ spools[<<c, SongOf(c)>>] = None
    /\ PopInbox(c)
    /\ Result(c)
    /\ UNCHANGED <<path, tries, net, wpc, song, spool, fwd, database, told, faults>>

\* Mutant: the temporary file stays.
FileKept == UNCHANGED disk

\* The temporary file, if there is one, is removed after the RPC.
FileRemoved ==
    disk' = IF fwd.spilled THEN [disk EXCEPT ![fwd.key] = <<>>] ELSE disk

\* Mutant: a stream that ends early is not noticed.
StreamAny == TRUE

\* StorageServer, UploadImage: the announced size is stored; a stream that ends
\* early is an error, what comes beyond is not part of the file.
StoredFile == IF Len(fwd.data) > Chunks THEN SubSeq(fwd.data, 1, Chunks) ELSE fwd.data
StreamLongEnough == Len(fwd.data) >= Chunks

\* UploadAudio succeeds.
ForwardOk ==
    /\ wpc = "forward"
    /\ StreamLongEnough
    /\ stored' = stored \cup {StoredFile}
    /\ song' = [song EXCEPT !.file = StoredFile]
    /\ FileRemoved
    /\ wpc' = "insert"
    /\ UNCHANGED <<ui, net, inbox, spools, stale, fwd, rows, told, faults>>

\* The stream ends early, or the RPC fails or its answer is late, the file stored
\* or not.
ForwardFails ==
    /\ wpc = "forward"
    /\ \/ ~StreamLongEnough /\ UNCHANGED <<stored, faultsLeft>>
       \/ Fault /\ UNCHANGED stored
       \/ Fault /\ StreamLongEnough /\ stored' = stored \cup {StoredFile}
    /\ FileRemoved
    /\ Result(fwd.key[1])
    /\ fwd' = NoFwd
    /\ wpc' = "idle"
    /\ UNCHANGED <<path, tries, net, inbox, song, spools, stale, rows, told, past>>

\* The end of the handler of a last chunk.
Finish ==
    /\ Result(fwd.key[1])
    /\ fwd' = NoFwd
    /\ wpc' = "idle"
    /\ UNCHANGED <<path, tries, net, inbox, spool, stored, past>>

Success == told' = told \cup {fwd.key[2]}

\* getOrCreateSong keeps a song that is there.
InsertSong ==
    /\ wpc = "insert"
    /\ rows' = IF \E r \in rows : r.title = song.title THEN rows ELSE rows \cup {song}
    /\ song' = NoSong
    /\ Success
    /\ Finish
    /\ UNCHANGED faultsLeft

\* The artists of sg from the i-th to the j-th are lost.
WithoutArtists(sg, i, j) ==
    [sg EXCEPT !.artists = SubSeq(@, 1, i - 1) \o SubSeq(@, j + 1, Len(@))]

\* An SQL error in it is caught and goes on or is answered with -1, which nobody
\* looks at: there is no row, or there is one, a second one of the title if the
\* SELECT failed, with artists missing if their statements did.  An error in
\* getOrCreateAlbum is an exception, which leaves _song as it is.
InsertFails ==
    /\ wpc = "insert"
    /\ Fault
    /\ \/ /\ song' = NoSong
          /\ Success
          /\ \/ UNCHANGED rows
             \/ \E i \in 1..(Len(song.artists) + 1), j \in 0..Len(song.artists) :
                   /\ i <= j + 1
                   /\ rows' = rows \cup {WithoutArtists(song, i, j)}
       \/ UNCHANGED <<song, told, rows>>
    /\ Finish
-----------------------------------------------------------------------------
\* Time passes without a chunk for key k.
GrowStale(k) ==
    /\ spools[k] # None
    /\ k \notin stale
    /\ stale' = stale \cup {k}
    /\ UNCHANGED <<ui, net, inbox, wpc, song, spools, disk, fwd, database, told, faults>>

\* The server dies and restarts.
Crash ==
    /\ Fault
    /\ past' = past \cup {"crash"}
    /\ online' = [c \in Client |-> FALSE]
    /\ inbox' = [c \in Client |-> <<>>]
    /\ wpc' = "idle"
    /\ song' = NoSong
    /\ spools' = [k \in Key |-> None]
    /\ stale' = {}
    /\ fwd' = NoFwd
    /\ UNCHANGED <<ui, token, disk, database, told>>

Worker ==
    \/ \E c \in Client : \/ Reject(c) \/ UploadMetaType(c)
                         \/ UploadFile(c) \/ UploadFileLate(c)
    \/ ForwardOk \/ ForwardFails \/ InsertSong

Failure ==
    \/ \E c \in Client : \/ Disconnect(c) \/ LoseToken(c) \/ RejectOnce(c)
                         \/ UploadMetaFails(c) \/ UploadMetaUnread(c) \/ UploadFileFails(c)
                         \/ \E g \in Song : BeginWithoutCover(c, g)
    \/ InsertFails
    \/ Crash

Next ==
    \/ \E c \in Client : Dismiss(c) \/ Reconnect(c) \/ \E g \in Song : Begin(c, g)
    \/ Worker
    \/ Failure
    \/ \E k \in Key : GrowStale(k)

Spec == Init /\ [][Next]_vars

\* The worker runs on; users and faults owe nothing.
FairSpec == Spec /\ WF_vars(Worker)
-----------------------------------------------------------------------------
SongData == [title : Song \cup {None}, artists : Seq(Song), file : Seq(Chunk)]

TypeOK ==
    /\ dialog \in [Client -> BOOLEAN]
    /\ path \in [Client -> Song \cup {None}]
    /\ \A c \in Client : tries[c] \in 0..MaxTries[c]
    /\ online \in [Client -> BOOLEAN]
    /\ token \in [Client -> BOOLEAN]
    /\ inbox \in [Client -> Seq(Song \X (0..Chunks))]
    /\ wpc \in {"idle", "forward", "insert"}
    /\ song \in SongData
    /\ spools \in [Key -> Entry \cup {None}]
    /\ stale \subseteq {k \in Key : spools[k] # None}
    /\ disk \in [Key -> Seq(Chunk)]
    /\ fwd \in [key : Key, data : Seq(Chunk), spilled : BOOLEAN] \cup {NoFwd}
    /\ wpc = "idle" <=> fwd = NoFwd
    /\ stored \subseteq Seq(Chunk)
    /\ rows \subseteq SongData
    /\ told \subseteq Song
    /\ past \subseteq {"crash", "redis", "no cover"}
    /\ faultsLeft \in 0..MaxFaults

Intact == past \cap {"crash", "redis"} = {}

\* What FastDFS gets is one file, whole and in order: chunks of a broken upload
\* and of the next one of the same name, or of one with a chunk lost in a
\* failed write, are never put together.  (A server that died may have left a
\* temporary file, to which the next one appends; and when Redis fails for the
\* first chunk only, the others are appended to the old entry.)
FileWhole == Intact => \A f \in stored : \E g \in Song : f = FileOf(g)

\* A success is answered only for a song whose file is in FastDFS.
ToldIsStored == Intact => \A g \in told : FileOf(g) \in stored

\* A temporary file belongs to an upload at work: none is left behind by an
\* upload that is finished, has failed or was given up and replaced.
NoFileLeft ==
    "crash" \notin past => \A k \in Key : disk[k] # <<>> =>
        \/ HasFile(k)
        \/ wpc = "forward" /\ fwd.spilled /\ fwd.key = k

\* An open progress dialog has a message or an RPC under way that will close it:
\* none stays open for good, unless the connection, the session or Redis has
\* failed or there was no cover, when nothing is sent.  (Chunks >= 1 leaves out
\* the empty file, for which no chunk is ever sent.)
DialogHasUpload ==
    past \cap {"redis", "no cover"} = {} => \A c \in Client :
        dialog[c] /\ online[c] /\ token[c] =>
            inbox[c] # <<>> \/ (wpc # "idle" /\ fwd.key[1] = c)

\* The progress dialog, which is modal and cannot be cancelled, closes, unless
\* the connection, the session or Redis has failed or there was no cover.
UploadEnds == \A c \in Client :
    dialog[c] ~> ~dialog[c] \/ ~online[c] \/ ~token[c] \/ past \cap {"redis", "no cover"} # {}

\* Said by the comment in UploadMetaTypeHandler, that _song keeps the song's
\* data for its insertion: a row is about one song.
RowIsOneSong ==
    \A r \in rows : r.artists = <<r.title>> /\ r.file = FileOf(r.title)
=============================================================================
