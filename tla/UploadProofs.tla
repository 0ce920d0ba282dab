---------------------------- MODULE UploadProofs ----------------------------
(***************************************************************************)
(* The songs that reach FastDFS are whole, a success is answered only for  *)
(* a song that is there, and no temporary file is left behind.             *)
(*                                                                         *)
(* None of these is inductive.  Files: when a first chunk makes a new      *)
(* entry there is no file of that name, because every file belongs to an   *)
(* entry in the spool, which is purged with its file, or to the upload     *)
(* being forwarded, and while one is, no chunk is handled.  Order: the     *)
(* chunks a client has sent follow each other, so that the chunk before    *)
(* the one in front was the last one handled.  Contents: when chunk n + 1  *)
(* is in front and there is an entry, the entry has at most n chunks, and  *)
(* if it has n they are chunks 1 to n; so one that is complete after the   *)
(* last chunk is the file, and one that lost a chunk is too short, which   *)
(* StorageServer notices.  Contents fails after a crash, which leaves      *)
(* files, and after a token check that failed for one message only.        *)
(***************************************************************************)
EXTENDS Upload, SequenceTheorems, TLAPS

\* The types, by part of the system.  A client that has sent something has a
\* song selected.
ClientType ==
    /\ dialog \in [Client -> BOOLEAN]
    /\ path \in [Client -> Song \cup {None}]
    /\ tries \in [Client -> Nat] /\ \A c \in Client : tries[c] <= MaxTries[c]
    /\ online \in [Client -> BOOLEAN]
    /\ token \in [Client -> BOOLEAN]
    /\ inbox \in [Client -> Seq(Song \X (0..Chunks))]
    /\ \A c \in Client : inbox[c] # <<>> => path[c] \in Song

Forwarding == [key : Key, data : Seq(Chunk), spilled : BOOLEAN]

WorkerType ==
    /\ wpc \in {"idle", "forward", "insert"}
    /\ song \in SongData
    /\ IF wpc = "idle" THEN fwd = NoFwd ELSE fwd \in Forwarding

SpoolType ==
    /\ spools \in [Key -> Entry \cup {None}]
    /\ stale \subseteq {k \in Key : spools[k] # None}
    /\ disk \in [Key -> Seq(Chunk)]

StoreType ==
    /\ stored \subseteq Seq(Chunk)
    /\ rows \subseteq SongData
    /\ told \subseteq Song

FaultType ==
    /\ past \subseteq {"crash", "redis", "no cover"}
    /\ faultsLeft \in 0..MaxFaults

Types == ClientType /\ WorkerType /\ SpoolType /\ StoreType /\ FaultType

\* The entry that is being forwarded was taken out.
TakenOut == wpc # "idle" => spools[fwd.key] = None

Files == NoFileLeft /\ TakenOut

\* The chunks of a song follow each other, from the first one.
Following(s) == \A j \in 2..Len(s) :
    s[j][2] > 1 => s[j - 1] = <<s[j][1], s[j][2] - 1>>

Order == \A c \in Client : Following(inbox[c])

\* Chunks 1 to n of song g.
Part(s, g, n) == Len(s) = n /\ \A j \in 1..n : s[j] = <<g, j>>

\* What an entry has when n chunks of the upload were handled: no more than
\* these, and if none was lost just these, in memory or in the file.
Holds(e, d, g, n) ==
    /\ e \in Entry /\ d \in Seq(Chunk)
    /\ ~e.spilled => d = <<>>
    /\ Len(e.mem) + Len(d) <= n
    /\ Len(e.mem) + Len(d) = n =>
           IF e.spilled THEN e.mem = <<>> /\ Part(d, g, n) ELSE Part(e.mem, g, n)

\* When a chunk is the next one to be handled, its entry, if there is one, has
\* what came before.
Gathered == \A c \in Client, g \in Song, n \in 1..Chunks :
    token[c] /\ inbox[c] # <<>> /\ inbox[c][1] = <<g, n + 1>> /\ spools[<<c, g>>] # None =>
        Holds(spools[<<c, g>>], disk[<<c, g>>], g, n)

\* What is forwarded is too short or the file.
Forwarded == wpc # "idle" =>
    /\ Len(fwd.data) <= Chunks
    /\ Len(fwd.data) = Chunks => fwd.data = FileOf(fwd.key[2])

StoredFirst == wpc = "insert" => FileOf(fwd.key[2]) \in stored

Contents ==
    /\ Gathered
    /\ Forwarded
    /\ StoredFirst
    /\ \A f \in stored : \E g \in Song : f = FileOf(g)
    /\ \A g \in told : FileOf(g) \in stored

Whole == Intact => Contents

\* A client that is online has sent whole uploads.
Complete == \A c \in Client : online[c] /\ inbox[c] # <<>> =>
    inbox[c][Len(inbox[c])][2] \in {0, Chunks}

-----------------------------------------------------------------------------
(* Steps that leave a part alone, and faults *)

LEMMA Frames ==
    /\ ClientType /\ UNCHANGED <<ui, net, inbox>> => ClientType'
    /\ WorkerType /\ UNCHANGED <<wpc, song, fwd>> => WorkerType'
    /\ SpoolType /\ UNCHANGED spool => SpoolType'
    /\ StoreType /\ UNCHANGED <<database, told>> => StoreType'
    /\ FaultType /\ UNCHANGED faults => FaultType'
<1>1. ClientType /\ UNCHANGED <<ui, net, inbox>> => ClientType'
  BY DEF ClientType, ui, net
<1>2. WorkerType /\ UNCHANGED <<wpc, song, fwd>> => WorkerType'
  BY DEF WorkerType
<1>3. SpoolType /\ UNCHANGED spool => SpoolType'
  BY DEF SpoolType, spool
<1>4. StoreType /\ UNCHANGED <<database, told>> => StoreType'
  BY DEF StoreType, database
<1>5. FaultType /\ UNCHANGED faults => FaultType'
  BY DEF FaultType, faults
<1> QED BY <1>1, <1>2, <1>3, <1>4, <1>5

\* What a fault may change.
LEMMA Countdown == ASSUME FaultType, Fault
                   PROVE  faultsLeft' \in 0..MaxFaults
<1>1. MaxFaults \in Nat
  BY UploadAssumption
<1>2. faultsLeft \in 0..MaxFaults /\ faultsLeft > 0 /\ faultsLeft' = faultsLeft - 1
  BY DEF Fault, FaultType
<1> QED BY <1>1, <1>2

LEMMA FaultTypes ==
    ASSUME FaultType, Fault,
           past' = past \/ \E p \in {"crash", "redis", "no cover"} : past' = past \cup {p}
    PROVE  FaultType'
BY Countdown DEF FaultType

-----------------------------------------------------------------------------
(* The clients *)

Message == Song \X (0..Chunks)

LEMMA Lengths == ASSUME NEW S, NEW s \in Seq(S)
                 PROVE  Len(s) \in Nat /\ (s = <<>> <=> Len(s) = 0)
BY LenProperties, EmptySeq

LEMMA Appending ==
    ASSUME NEW S, NEW s \in Seq(S), NEW m \in S
    PROVE  /\ Append(s, m) \in Seq(S)
           /\ Append(s, m) # <<>>
           /\ Len(Append(s, m)) = Len(s) + 1
           /\ Append(s, m)[Len(s) + 1] = m
           /\ \A i \in 1..Len(s) : Append(s, m)[i] = s[i]
BY AppendProperties

LEMMA Popping ==
    ASSUME NEW S, NEW s \in Seq(S), s # <<>>
    PROVE  /\ Head(s) \in S /\ Head(s) = s[1]
           /\ Tail(s) \in Seq(S)
           /\ Len(s) > 0
           /\ Len(Tail(s)) = Len(s) - 1
           /\ \A i \in 1..(Len(s) - 1) : Tail(s)[i] = s[i + 1]
<1>1. Len(s) \in Nat /\ Len(s) # 0
  BY Lengths
<1>2. /\ Head(s) \in S /\ Tail(s) \in Seq(S) /\ Len(Tail(s)) = Len(s) - 1
      /\ \A i \in 1..Len(Tail(s)) : Tail(s)[i] = s[i + 1]
  BY HeadTailProperties
<1>3. Head(s) = s[1]
  OBVIOUS
<1> QED BY <1>1, <1>2, <1>3

LEMMA Cutting ==
    ASSUME NEW S, NEW s \in Seq(S), NEW n \in 0..Len(s)
    PROVE  /\ SubSeq(s, 1, n) \in Seq(S)
           /\ Len(SubSeq(s, 1, n)) = n
           /\ \A i \in 1..n : SubSeq(s, 1, n)[i] = s[i]
<1>1. Len(s) \in Nat /\ n \in Nat
  BY Lengths
<1>2. \A i \in 1..n : s[i] \in S
  BY <1>1, ElementOfSeq
<1> QED BY <1>1, <1>2, SubSeqProperties

LEMMA FrontType ==
    ASSUME ClientType, NEW c \in Client, Ready(c)
    PROVE  /\ SongOf(c) \in Song /\ Seqno(c) \in 0..Chunks
           /\ <<c, SongOf(c)>> \in Key
           /\ path[c] \in Song
           /\ Head(inbox[c]) = <<SongOf(c), Seqno(c)>>
<1>1. inbox[c] \in Seq(Message) /\ inbox[c] # <<>> /\ path[c] \in Song
  BY DEF ClientType, Ready, Message
<1>2. Head(inbox[c]) \in Message
  BY <1>1, Popping
<1>3. SongOf(c) \in Song /\ Seqno(c) \in 0..Chunks /\ Head(inbox[c]) = <<SongOf(c), Seqno(c)>>
  BY <1>2 DEF Message, SongOf, Seqno
<1> QED BY <1>1, <1>3 DEF Key

\* A step that moves messages and leaves the rest of the client alone.
LEMMA ClientKept ==
    ASSUME ClientType, UNCHANGED <<path, tries>>,
           dialog' \in [Client -> BOOLEAN], online' \in [Client -> BOOLEAN], token' \in [Client -> BOOLEAN],
           NEW c \in Client, NEW s \in Seq(Message), inbox' = [inbox EXCEPT ![c] = s],
           s # <<>> => inbox[c] # <<>>
    PROVE  ClientType'
<1>1. inbox \in [Client -> Seq(Message)]
  BY DEF ClientType, Message
<1>2. inbox' \in [Client -> Seq(Message)]
  BY <1>1
<1>3. \A d \in Client : inbox'[d] # <<>> => inbox[d] # <<>>
  BY <1>1
<1> QED BY <1>2, <1>3 DEF ClientType, Message

LEMMA Sending ==
    ASSUME ClientType, NEW c \in Client, path[c] \in Song
    PROVE  /\ AllChunks(c) \in Seq(Message) /\ Len(AllChunks(c)) = Chunks
           /\ \A i \in 1..Chunks : AllChunks(c)[i] = <<path[c], i>>
<1>1. Chunks \in Nat
  BY UploadAssumption
<1>2. \A i \in 1..Chunks : <<path[c], i>> \in Message
  BY <1>1 DEF Message
<1>3. AllChunks(c) \in [1..Chunks -> Message]
  BY <1>2 DEF AllChunks
<1>4. AllChunks(c) \in Seq(Message)
  BY <1>1, <1>3, SeqDef
<1> QED BY <1>1, <1>4 DEF AllChunks

\* The messages of a client after its front was handled.
LEMMA Popped ==
    ASSUME ClientType, NEW c \in Client, Ready(c), PopInbox(c), UNCHANGED <<path, tries, net>>,
           dialog' \in [Client -> BOOLEAN]
    PROVE  ClientType'
<1>1. inbox[c] \in Seq(Message) /\ inbox[c] # <<>>
  BY DEF ClientType, Ready, Message
<1>2. Tail(inbox[c]) \in Seq(Message)
  BY <1>1, Popping
<1>3. inbox' = [inbox EXCEPT ![c] = Tail(inbox[c])]
  BY DEF PopInbox
<1>4. online' \in [Client -> BOOLEAN] /\ token' \in [Client -> BOOLEAN]
  BY DEF ClientType, net
<1> QED BY <1>1, <1>2, <1>3, <1>4, ClientKept

LEMMA AnswerType ==
    ASSUME ClientType, NEW c \in Client, NEW open \in BOOLEAN, Answer(c, open)
    PROVE  dialog' \in [Client -> BOOLEAN]
BY DEF ClientType, Answer

LEMMA BeginTypes ==
    ASSUME ClientType, NEW c \in Client, NEW g \in Song, Begin(c, g) \/ BeginWithoutCover(c, g)
    PROVE  ClientType'
<1>1. /\ dialog' = [dialog EXCEPT ![c] = TRUE] /\ path' = [path EXCEPT ![c] = g]
      /\ tries' = [tries EXCEPT ![c] = @ + 1] /\ tries[c] < MaxTries[c]
      /\ UNCHANGED <<online, token>>
  BY DEF Begin, BeginWithoutCover, net
<1>2. inbox \in [Client -> Seq(Message)]
  BY DEF ClientType, Message
<1>3. inbox' \in [Client -> Seq(Message)] /\ \A d \in Client \ {c} : inbox'[d] = inbox[d]
  <2>1. CASE Begin(c, g)
    <3>1. Meta(g) \in Message
      BY UploadAssumption DEF Message, Meta
    <3>2. Append(inbox[c], Meta(g)) \in Seq(Message)
      BY <1>2, <3>1, Appending
    <3> QED BY <1>2, <2>1, <3>2 DEF Begin
  <2>2. CASE BeginWithoutCover(c, g)
    BY <1>2, <2>2 DEF BeginWithoutCover
  <2> QED BY <2>1, <2>2
<1>4. tries' \in [Client -> Nat] /\ \A d \in Client : tries'[d] <= MaxTries[d]
  <2>1. tries \in [Client -> Nat] /\ MaxTries \in [Client -> Nat]
    BY UploadAssumption DEF ClientType
  <2>2. tries[c] \in Nat /\ MaxTries[c] \in Nat /\ tries[c] + 1 <= MaxTries[c]
    BY <1>1, <2>1
  <2> QED BY <1>1, <2>1, <2>2 DEF ClientType
<1>5. /\ dialog' \in [Client -> BOOLEAN] /\ online' \in [Client -> BOOLEAN]
      /\ token' \in [Client -> BOOLEAN] /\ path' \in [Client -> Song \cup {None}]
  BY <1>1 DEF ClientType
<1>6. \A d \in Client : inbox'[d] # <<>> => path'[d] \in Song
  BY <1>1, <1>3 DEF ClientType
<1> QED BY <1>3, <1>4, <1>5, <1>6 DEF ClientType, Message

\* What the clients and their connections do.
LEMMA UserTypes ==
    ASSUME ClientType, NEW c \in Client, Dismiss(c) \/ Disconnect(c) \/ Reconnect(c) \/ LoseToken(c)
    PROVE  ClientType'
<1>1. CASE Dismiss(c)
  BY <1>1 DEF Dismiss, ClientType, net
<1>2. CASE LoseToken(c)
  BY <1>2 DEF LoseToken, ClientType, ui
<1>3. CASE Reconnect(c)
  <2>1. <<>> \in Seq(Message)
    BY EmptySeq
  <2>2. /\ dialog' \in [Client -> BOOLEAN] /\ online' \in [Client -> BOOLEAN]
        /\ token' \in [Client -> BOOLEAN]
    BY <1>3 DEF Reconnect, ClientType
  <2> QED BY <1>3, <2>1, <2>2, ClientKept DEF Reconnect
<1>4. CASE Disconnect(c)
  <2>1. PICK n \in 0..Len(inbox[c]) : inbox' = [inbox EXCEPT ![c] = SubSeq(inbox[c], 1, n)]
    BY <1>4 DEF Disconnect
  <2>2. inbox[c] \in Seq(Message)
    BY DEF ClientType, Message
  <2>3. /\ SubSeq(inbox[c], 1, n) \in Seq(Message) /\ Len(SubSeq(inbox[c], 1, n)) = n
    BY <2>2, Cutting
  <2>4. SubSeq(inbox[c], 1, n) # <<>> => inbox[c] # <<>>
    BY <2>2, <2>3, Lengths
  <2>5. /\ dialog' \in [Client -> BOOLEAN] /\ online' \in [Client -> BOOLEAN]
        /\ token' \in [Client -> BOOLEAN]
    BY <1>4 DEF Disconnect, ClientType, ui
  <2>6. UNCHANGED <<path, tries>>
    BY <1>4 DEF Disconnect, ui
  <2> QED BY <2>1, <2>3, <2>4, <2>5, <2>6, ClientKept
<1> QED BY <1>1, <1>2, <1>3, <1>4

\* What the worker does to the clients: it takes messages away and answers.
LEMMA MetaTypes ==
    ASSUME ClientType, NEW c \in Client, UploadMetaType(c)
    PROVE  ClientType'
<1>1. Ready(c)
  BY DEF UploadMetaType, Accepts
<1>2. inbox[c] \in Seq(Message) /\ inbox[c] # <<>> /\ path[c] \in Song
  BY <1>1, FrontType DEF ClientType, Ready, Message
<1>3. Tail(inbox[c]) \in Seq(Message) /\ Tail(inbox[c]) \o AllChunks(c) \in Seq(Message)
  BY <1>2, Popping, Sending, ConcatProperties
<1>4. PICK s \in Seq(Message) : inbox' = [inbox EXCEPT ![c] = s]
  BY <1>3 DEF UploadMetaType
<1>5. /\ dialog' \in [Client -> BOOLEAN] /\ online' \in [Client -> BOOLEAN]
      /\ token' \in [Client -> BOOLEAN] /\ UNCHANGED <<path, tries>>
  BY DEF UploadMetaType, ClientType, ui, net
<1> QED BY <1>2, <1>4, <1>5, ClientKept

LEMMA HandlerTypes ==
    ASSUME ClientType, NEW c \in Client,
           \/ Reject(c) \/ RejectOnce(c) \/ UploadMetaFails(c) \/ UploadMetaUnread(c)
           \/ UploadFile(c) \/ UploadFileFails(c) \/ UploadFileLate(c)
    PROVE  ClientType'
<1>1. Ready(c) /\ PopInbox(c) /\ UNCHANGED <<path, tries, net>>
  BY DEF Reject, RejectOnce, UploadMetaFails, UploadMetaUnread, UploadFile, UploadFileFails,
         UploadFileLate, Accepts, ui
<1>2. dialog' = dialog \/ \E open \in BOOLEAN : Answer(c, open)
  BY DEF Reject, RejectOnce, UploadMetaFails, UploadMetaUnread, UploadFile, UploadFileFails,
         UploadFileLate, Progress, Result, ui
<1>3. dialog' \in [Client -> BOOLEAN]
  BY <1>2, AnswerType DEF ClientType
<1> QED BY <1>1, <1>3, Popped

-----------------------------------------------------------------------------
(* The spool *)

\* Purging and opening the entry for chunk i of key k.
LEMMA Opened ==
    ASSUME SpoolType, NEW k \in Key, NEW i
    PROVE  /\ SpoolsAt(k, i) \in [Key -> Entry \cup {None}]
           /\ DiskAt(k, i) \in [Key -> Seq(Chunk)]
           /\ i # 1 => SpoolsAt(k, i) = spools /\ DiskAt(k, i) = disk
           /\ i = 1 => SpoolsAt(k, i)[k] = NewEntry
           /\ i = 1 => DiskAt(k, i)[k] = IF HasFile(k) THEN <<>> ELSE disk[k]
           /\ \A j \in Key \ {k} :
                 \/ SpoolsAt(k, i)[j] = spools[j] /\ DiskAt(k, i)[j] = disk[j]
                 \/ /\ SpoolsAt(k, i)[j] = None
                    /\ DiskAt(k, i)[j] = IF HasFile(j) THEN <<>> ELSE disk[j]
<1>1. NewEntry \in Entry /\ <<>> \in Seq(Chunk)
  BY EmptySeq DEF NewEntry, Entry
<1>2. CASE i # 1
  BY <1>2 DEF SpoolsAt, DiskAt, SpoolType
<1>3. CASE i = 1
  <2>1. k \in Purged(k)
    BY DEF Purged
  <2>2. SpoolsAt(k, i) = [j \in Key |-> IF j = k THEN NewEntry
                                        ELSE IF j \in Purged(k) THEN None ELSE spools[j]]
    BY <1>3 DEF SpoolsAt
  <2>3. DiskAt(k, i) = [j \in Key |-> IF j \in Purged(k) /\ HasFile(j) THEN <<>> ELSE disk[j]]
    BY <1>3 DEF DiskAt
  <2> QED BY <1>1, <1>3, <2>1, <2>2, <2>3 DEF SpoolType
<1> QED BY <1>2, <1>3

\* An entry with its file after a chunk.
Outcome == [entry : Entry, file : Seq(Chunk)]

LEMMA WithChunkType ==
    ASSUME NEW e \in Entry, NEW d \in Seq(Chunk), NEW chunk \in Chunk
    PROVE  WithChunk(e, d, chunk) \in Outcome /\ DataOf(WithChunk(e, d, chunk)) \in Seq(Chunk)
<1>1. e.mem \in Seq(Chunk) /\ e.spilled \in BOOLEAN
  BY DEF Entry
<1>2. Append(e.mem, chunk) \in Seq(Chunk)
  BY <1>1, Appending
<1>3. d \o Append(e.mem, chunk) \in Seq(Chunk) /\ <<>> \in Seq(Chunk)
  BY <1>2, ConcatProperties, EmptySeq
<1>4. [e EXCEPT !.mem = Append(e.mem, chunk)] \in Entry
  BY <1>2 DEF Entry
<1>5. [mem |-> <<>>, spilled |-> TRUE] \in Entry
  BY <1>3 DEF Entry
<1>6. WithChunk(e, d, chunk) \in Outcome
  BY <1>3, <1>4, <1>5 DEF WithChunk, Outcome
<1>7. ASSUME NEW a \in Outcome PROVE DataOf(a) \in Seq(Chunk)
  BY ConcatProperties DEF DataOf, Outcome, Entry
<1> QED BY <1>6, <1>7

LeftOf(a, e, d) ==
    \/ a.entry.mem = e.mem /\ a.file = d
    \/ a.entry.mem = <<>> /\ \E n \in 0..Len(e.mem) : a.file = d \o SubSeq(e.mem, 1, n)

LEMMA AfterFailureType ==
    ASSUME NEW e \in Entry, NEW d \in Seq(Chunk), NEW chunk, NEW a \in AfterFailure(e, d, chunk)
    PROVE  /\ a \in Outcome /\ a.entry.spilled
           /\ LeftOf(a, e, d)
<1>1. e.mem \in Seq(Chunk) /\ e.spilled \in BOOLEAN
  BY DEF Entry
<1>2. CASE a = [entry |-> [e EXCEPT !.spilled = TRUE], file |-> d]
  <2> DEFINE f == [e EXCEPT !.spilled = TRUE]
  <2>1. f \in Entry /\ f.mem = e.mem /\ f.spilled
    BY DEF Entry
  <2> HIDE DEF f
  <2>2. a = [entry |-> f, file |-> d]
    BY <1>2 DEF f
  <2> QED BY <2>1, <2>2 DEF Outcome, LeftOf
<1>3. ASSUME NEW n \in 0..Len(e.mem),
             a = [entry |-> [mem |-> <<>>, spilled |-> TRUE], file |-> d \o SubSeq(e.mem, 1, n)]
      PROVE  /\ a \in Outcome /\ a.entry.spilled
             /\ a.entry.mem = <<>> /\ a.file = d \o SubSeq(e.mem, 1, n)
  <2>1. SubSeq(e.mem, 1, n) \in Seq(Chunk) /\ <<>> \in Seq(Chunk)
    BY <1>1, Cutting, EmptySeq
  <2>2. d \o SubSeq(e.mem, 1, n) \in Seq(Chunk)
    BY <2>1, ConcatProperties
  <2> QED BY <1>3, <2>1, <2>2 DEF Outcome, Entry
<1> QED BY <1>2, <1>3 DEF AfterFailure, LeftOf

\* The entry of the front message of client c, opened, and its file.
KeyOf(c) == <<c, SongOf(c)>>
OldEntry(c) == SpoolsAt(KeyOf(c), Seqno(c))[KeyOf(c)]
OldFile(c) == DiskAt(KeyOf(c), Seqno(c))[KeyOf(c)]

\* What both outcomes of UploadFileHandler do to the spool.
Spooled(c, file, entry) ==
    /\ disk' = [DiskAt(KeyOf(c), Seqno(c)) EXCEPT ![KeyOf(c)] = file]
    /\ spools' = [SpoolsAt(KeyOf(c), Seqno(c)) EXCEPT ![KeyOf(c)] = entry]
    /\ stale' = stale \ (IF Seqno(c) = 1 THEN Purged(KeyOf(c)) ELSE {KeyOf(c)})

LEMMA Opening ==
    ASSUME ClientType, SpoolType, NEW c \in Client, UploadFile(c) \/ UploadFileFails(c)
    PROVE  /\ Ready(c) /\ token[c]
           /\ SongOf(c) \in Song /\ KeyOf(c) \in Key /\ Seqno(c) \in 1..Chunks
           /\ <<SongOf(c), Seqno(c)>> \in Chunk
           /\ OldEntry(c) \in Entry /\ OldFile(c) \in Seq(Chunk)
<1>1. Ready(c) /\ token[c] /\ Seqno(c) # 0 /\ OldEntry(c) # None
  BY DEF UploadFile, UploadFileFails, Accepts, OldEntry, KeyOf
<1>2. SongOf(c) \in Song /\ KeyOf(c) \in Key /\ Seqno(c) \in 1..Chunks
  BY <1>1, FrontType, UploadAssumption DEF KeyOf
<1>3. OldEntry(c) \in Entry /\ OldFile(c) \in Seq(Chunk)
  BY <1>1, <1>2, Opened DEF OldEntry, OldFile
<1> QED BY <1>1, <1>2, <1>3 DEF Chunk

NewOf(c) == WithChunk(OldEntry(c), OldFile(c), <<SongOf(c), Seqno(c)>>)

LEMMA Spooling ==
    ASSUME ClientType, SpoolType, NEW c \in Client, UploadFile(c)
    PROVE  /\ NewOf(c) \in Outcome /\ DataOf(NewOf(c)) \in Seq(Chunk)
           /\ Spooled(c, NewOf(c).file, IF Seqno(c) = Chunks THEN None ELSE NewOf(c).entry)
           /\ Seqno(c) # Chunks => UNCHANGED <<fwd, wpc>>
           /\ Seqno(c) = Chunks => /\ wpc' = "forward"
                                   /\ fwd' = [key |-> KeyOf(c), data |-> DataOf(NewOf(c)),
                                              spilled |-> NewOf(c).entry.spilled]
<1>1. NewOf(c) \in Outcome /\ DataOf(NewOf(c)) \in Seq(Chunk)
  BY Opening, WithChunkType DEF NewOf
<1>2. CASE Seqno(c) = Chunks
  BY <1>1, <1>2 DEF UploadFile, Spooled, OldEntry, OldFile, KeyOf, NewOf, Fresh
<1>3. CASE Seqno(c) # Chunks
  BY <1>1, <1>3 DEF UploadFile, Spooled, OldEntry, OldFile, KeyOf, NewOf, Fresh
<1> QED BY <1>2, <1>3

LEMMA SpoolingFails ==
    ASSUME ClientType, SpoolType, NEW c \in Client, UploadFileFails(c)
    PROVE  /\ \E a \in AfterFailure(OldEntry(c), OldFile(c), <<SongOf(c), Seqno(c)>>) :
                 a \in Outcome /\ Spooled(c, a.file, a.entry)
           /\ ~FitsInMemory(OldEntry(c))
           /\ UNCHANGED <<fwd, wpc>>
<1>1. /\ \E a \in AfterFailure(OldEntry(c), OldFile(c), <<SongOf(c), Seqno(c)>>) :
            Spooled(c, a.file, a.entry)
      /\ ~FitsInMemory(OldEntry(c)) /\ UNCHANGED <<fwd, wpc>>
  BY DEF UploadFileFails, Spooled, OldEntry, OldFile, KeyOf, Fresh
<1>2. \A a \in AfterFailure(OldEntry(c), OldFile(c), <<SongOf(c), Seqno(c)>>) : a \in Outcome
  BY Opening, AfterFailureType
<1> QED BY <1>1, <1>2

\* Whatever is left of the entry and its file, the spool keeps its type.
LEMMA SpooledType ==
    ASSUME SpoolType, NEW c \in Client, KeyOf(c) \in Key,
           NEW file \in Seq(Chunk), NEW entry \in Entry \cup {None}, Spooled(c, file, entry)
    PROVE  SpoolType'
<1> DEFINE k == KeyOf(c)
           i == Seqno(c)
<1>1. /\ SpoolsAt(k, i) \in [Key -> Entry \cup {None}] /\ DiskAt(k, i) \in [Key -> Seq(Chunk)]
  BY Opened
<1>2. spools' \in [Key -> Entry \cup {None}] /\ disk' \in [Key -> Seq(Chunk)]
  BY <1>1 DEF Spooled
<1>3. ASSUME NEW j \in stale' PROVE j \in Key /\ spools'[j] # None
  <2>1. j \in stale /\ j \in Key /\ spools[j] # None /\ j # k /\ ~(i = 1 /\ j \in Purged(k))
    BY <1>3 DEF Spooled, SpoolType, Purged
  <2>2. spools'[j] = SpoolsAt(k, i)[j]
    BY <1>1, <2>1 DEF Spooled
  <2>3. SpoolsAt(k, i)[j] = spools[j]
    BY <2>1 DEF SpoolsAt
  <2> QED BY <2>1, <2>2, <2>3
<1> QED BY <1>2, <1>3 DEF SpoolType

LEMMA SpoolTypes ==
    ASSUME ClientType, SpoolType, NEW c \in Client, UploadFile(c) \/ UploadFileFails(c)
    PROVE  SpoolType'
<1>1. CASE UploadFile(c)
  <2>1. NewOf(c).file \in Seq(Chunk) /\ NewOf(c).entry \in Entry
    BY <1>1, Spooling DEF Outcome
  <2> QED BY <1>1, <2>1, Opening, Spooling, SpooledType
<1>2. CASE UploadFileFails(c)
  <2>1. PICK a \in Outcome : Spooled(c, a.file, a.entry)
    BY <1>2, SpoolingFails
  <2>2. a.file \in Seq(Chunk) /\ a.entry \in Entry
    BY DEF Outcome
  <2> QED BY <2>1, <2>2, <1>2, Opening, SpooledType
<1> QED BY <1>1, <1>2

-----------------------------------------------------------------------------
(* The types are kept *)

LEMMA SongKeptType ==
    ASSUME ClientType, WorkerType, NEW c \in Client, Ready(c), SongKept(c)
    PROVE  song' \in SongData
<1>1. SongOf(c) \in Song /\ song \in SongData
  BY FrontType DEF WorkerType
<1>2. song.artists \in Seq(Song)
  BY <1>1 DEF SongData
<1>3. Append(song.artists, SongOf(c)) \in Seq(Song)
  BY <1>1, <1>2, Appending
<1> QED BY <1>1, <1>3 DEF SongKept, SongData

LEMMA Stored ==
    ASSUME fwd \in Forwarding
    PROVE  /\ StoredFile \in Seq(Chunk)
           /\ Len(fwd.data) = Chunks => StoredFile = fwd.data
<1>1. fwd.data \in Seq(Chunk) /\ Chunks \in Nat
  BY UploadAssumption DEF Forwarding
<1>2. Len(fwd.data) \in Nat
  BY <1>1, Lengths
<1>3. Len(fwd.data) > Chunks => SubSeq(fwd.data, 1, Chunks) \in Seq(Chunk)
  BY <1>1, <1>2, Cutting
<1> QED BY <1>1, <1>2, <1>3 DEF StoredFile

LEMMA RemovedType ==
    ASSUME SpoolType, fwd \in Forwarding, FileRemoved, UNCHANGED <<spools, stale>>
    PROVE  SpoolType'
<1>1. fwd.key \in Key /\ <<>> \in Seq(Chunk)
  BY EmptySeq DEF Forwarding
<1> QED BY <1>1 DEF SpoolType, FileRemoved

LEMMA NoSongType == NoSong \in SongData
BY EmptySeq DEF NoSong, SongData

\* The steps of the handler of the last chunk, after the RPC has started.
LEMMA ForwardTypes ==
    ASSUME Types, ForwardOk \/ ForwardFails
    PROVE  Types'
<1>1. /\ wpc = "forward" /\ fwd \in Forwarding /\ song \in SongData
      /\ UNCHANGED <<net, inbox, path, tries, spools, stale, rows, told>> /\ FileRemoved
      /\ ClientType /\ WorkerType /\ SpoolType /\ StoreType /\ FaultType
  BY DEF Types, WorkerType, ForwardOk, ForwardFails, ui
<1>2. SpoolType'
  BY <1>1, RemovedType
<1>3. StoredFile \in Seq(Chunk)
  BY <1>1, Stored
<1>4. stored' \subseteq stored \cup {StoredFile}
  BY DEF ForwardOk, ForwardFails
<1>5. StoreType'
  BY <1>1, <1>3, <1>4 DEF StoreType
<1>6. dialog' \in [Client -> BOOLEAN]
  <2>1. fwd.key[1] \in Client
    BY <1>1 DEF Forwarding, Key
  <2> QED BY <1>1, <2>1, AnswerType DEF ForwardOk, ForwardFails, Result, ui, ClientType
<1>7. ClientType'
  BY <1>1, <1>6 DEF ClientType, net
<1>8. CASE ForwardOk
  <2>1. song' \in SongData
    BY <1>1, <1>3, <1>8 DEF ForwardOk, SongData
  <2>2. WorkerType'
    BY <1>1, <1>8, <2>1 DEF ForwardOk, WorkerType
  <2>3. FaultType'
    BY <1>1, <1>8, Frames DEF ForwardOk
  <2> QED BY <1>2, <1>5, <1>7, <2>2, <2>3 DEF Types
<1>9. CASE ForwardFails
  <2>1. WorkerType'
    BY <1>1, <1>9 DEF ForwardFails, WorkerType
  <2>2. past' = past /\ (faultsLeft' = faultsLeft \/ Fault)
    BY <1>9 DEF ForwardFails
  <2>3. FaultType'
    BY <1>1, <2>2, FaultTypes DEF FaultType
  <2> QED BY <1>2, <1>5, <1>7, <2>1, <2>3 DEF Types
<1> QED BY <1>8, <1>9

LEMMA ArtistsLost ==
    ASSUME NEW sg \in SongData,
           NEW i \in 1..(Len(sg.artists) + 1), NEW j \in 0..Len(sg.artists)
    PROVE  WithoutArtists(sg, i, j) \in SongData
<1> DEFINE s == sg.artists
<1>1. s \in Seq(Song) /\ Len(s) \in Nat
  BY LenProperties DEF SongData
<1>2. \A k \in 1..Len(s) : s[k] \in Song
  BY <1>1, ElementOfSeq
<1>3. SubSeq(s, 1, i - 1) \in Seq(Song)
  BY <1>1, <1>2, SubSeqProperties
<1>4. SubSeq(s, j + 1, Len(s)) \in Seq(Song)
  BY <1>1, <1>2, SubSeqProperties
<1>5. SubSeq(s, 1, i - 1) \o SubSeq(s, j + 1, Len(s)) \in Seq(Song)
  BY <1>3, <1>4, ConcatProperties
<1> QED BY <1>5 DEF WithoutArtists, SongData

LEMMA InsertTypes ==
    ASSUME Types, InsertSong \/ InsertFails
    PROVE  Types'
<1>1. /\ wpc = "insert" /\ fwd \in Forwarding /\ song \in SongData
      /\ Finish
      /\ UNCHANGED <<net, inbox, path, tries, spool, stored>>
      /\ ClientType /\ WorkerType /\ SpoolType /\ StoreType /\ FaultType
  BY DEF Types, WorkerType, InsertSong, InsertFails, Finish
<1>2. fwd.key[1] \in Client /\ fwd.key[2] \in Song
  BY <1>1 DEF Forwarding, Key
<1>3. dialog' \in [Client -> BOOLEAN]
  BY <1>1, <1>2, AnswerType DEF Finish, Result
<1>4. ClientType'
  BY <1>1, <1>3 DEF ClientType, net
<1>5. SpoolType'
  BY <1>1, Frames
<1>6. song' \in SongData
  BY <1>1, NoSongType DEF InsertSong, InsertFails
<1>7. WorkerType'
  BY <1>1, <1>6 DEF Finish, WorkerType
<1>8. rows' \subseteq SongData /\ told' \subseteq told \cup {fwd.key[2]}
  <2>1. ASSUME NEW i \in 1..(Len(song.artists) + 1), NEW j \in 0..Len(song.artists)
        PROVE  WithoutArtists(song, i, j) \in SongData
    BY <1>1, ArtistsLost
  <2>2. rows \subseteq SongData /\ song \in SongData
    BY <1>1 DEF StoreType
  <2> QED BY <2>1, <2>2 DEF InsertSong, InsertFails, Success
<1>9. StoreType'
  BY <1>1, <1>2, <1>8 DEF StoreType
<1>10. past' = past /\ (faultsLeft' = faultsLeft \/ Fault)
  BY <1>1 DEF InsertSong, InsertFails, Finish
<1>11. FaultType'
  BY <1>1, <1>10, FaultTypes DEF FaultType
<1> QED BY <1>4, <1>5, <1>7, <1>9, <1>11 DEF Types

LEMMA CrashTypes ==
    ASSUME Types, Crash
    PROVE  Types'
<1>1. ClientType /\ WorkerType /\ SpoolType /\ StoreType /\ FaultType
  BY DEF Types
<1>2. ClientType'
  BY <1>1, EmptySeq DEF ClientType, Crash, ui
<1>3. WorkerType'
  BY <1>1, NoSongType DEF WorkerType, Crash
<1>4. SpoolType'
  BY <1>1 DEF SpoolType, Crash
<1>5. StoreType'
  BY <1>1, Frames DEF Crash
<1>6. FaultType'
  BY <1>1, FaultTypes DEF Crash
<1> QED BY <1>2, <1>3, <1>4, <1>5, <1>6 DEF Types

LEMMA TypesInit == Init => Types
<1> SUFFICES ASSUME Init PROVE Types
  OBVIOUS
<1>1. ClientType
  BY UploadAssumption, EmptySeq DEF Init, ClientType
<1>2. WorkerType
  BY NoSongType DEF Init, WorkerType
<1>3. SpoolType
  BY EmptySeq DEF Init, SpoolType
<1>4. StoreType
  BY DEF Init, StoreType
<1>5. FaultType
  BY UploadAssumption DEF Init, FaultType
<1> QED BY <1>1, <1>2, <1>3, <1>4, <1>5 DEF Types

LEMMA TypesStep == Types /\ [Next]_vars => Types'
<1> SUFFICES ASSUME Types, [Next]_vars PROVE Types'
  OBVIOUS
<1> USE DEF Types
<1>1. CASE UNCHANGED vars
  BY <1>1, Frames DEF vars
<1>2. ASSUME NEW c \in Client, NEW g \in Song, Begin(c, g)
      PROVE  Types'
  BY <1>2, BeginTypes, Frames DEF Begin
<1>3. ASSUME NEW c \in Client, NEW g \in Song, BeginWithoutCover(c, g)
      PROVE  Types'
  <2>1. FaultType'
    BY <1>3, FaultTypes DEF BeginWithoutCover
  <2> QED BY <1>3, <2>1, BeginTypes, Frames DEF BeginWithoutCover
<1>4. ASSUME NEW c \in Client, Dismiss(c) \/ Reconnect(c)
      PROVE  Types'
  BY <1>4, UserTypes, Frames DEF Dismiss, Reconnect
<1>5. ASSUME NEW c \in Client, Disconnect(c) \/ LoseToken(c)
      PROVE  Types'
  <2>1. FaultType'
    BY <1>5, FaultTypes DEF Disconnect, LoseToken
  <2> QED BY <1>5, <2>1, UserTypes, Frames DEF Disconnect, LoseToken
<1>6. ASSUME NEW c \in Client, Reject(c) \/ RejectOnce(c) \/ UploadFileLate(c) \/ UploadMetaFails(c)
      PROVE  Types'
  <2>1. FaultType'
    BY <1>6, FaultTypes, Frames DEF Reject, RejectOnce, UploadFileLate, UploadMetaFails
  <2> QED BY <1>6, <2>1, HandlerTypes, Frames
           DEF Reject, RejectOnce, UploadFileLate, UploadMetaFails
<1>7. ASSUME NEW c \in Client, UploadMetaType(c) \/ UploadMetaUnread(c)
      PROVE  Types'
  <2>1. FaultType'
    BY <1>7, FaultTypes, Frames DEF UploadMetaType, UploadMetaUnread
  <2>2. WorkerType'
    BY <1>7, SongKeptType DEF UploadMetaType, UploadMetaUnread, Accepts, WorkerType
  <2> QED BY <1>7, <2>1, <2>2, MetaTypes, HandlerTypes, Frames
           DEF UploadMetaType, UploadMetaUnread
<1>8. ASSUME NEW c \in Client, UploadFile(c)
      PROVE  Types'
  <2>1. WorkerType'
    <3>1. KeyOf(c) \in Key /\ wpc = "idle" /\ NewOf(c).entry.spilled \in BOOLEAN
      BY <1>8, Opening, Spooling DEF Ready, Outcome, Entry
    <3>2. CASE Seqno(c) = Chunks
      <4>1. /\ wpc' = "forward" /\ DataOf(NewOf(c)) \in Seq(Chunk)
            /\ fwd' = [key |-> KeyOf(c), data |-> DataOf(NewOf(c)),
                       spilled |-> NewOf(c).entry.spilled]
        BY <1>8, <3>2, Spooling
      <4>2. fwd' \in Forwarding
        BY <3>1, <4>1 DEF Forwarding
      <4>3. UNCHANGED song
        BY <1>8 DEF UploadFile
      <4> QED BY <4>1, <4>2, <4>3 DEF WorkerType
    <3>3. CASE Seqno(c) # Chunks
      BY <1>8, <3>3, Spooling DEF UploadFile, WorkerType
    <3> QED BY <3>2, <3>3
  <2> QED BY <1>8, <2>1, SpoolTypes, HandlerTypes, Frames DEF UploadFile
<1>9. ASSUME NEW c \in Client, UploadFileFails(c)
      PROVE  Types'
  <2>1. FaultType'
    BY <1>9, FaultTypes DEF UploadFileFails
  <2> QED BY <1>9, <2>1, SpoolTypes, HandlerTypes, Frames DEF UploadFileFails
<1>10. ASSUME NEW k \in Key, GrowStale(k)
       PROVE  Types'
  <2>1. SpoolType'
    BY <1>10 DEF GrowStale, SpoolType
  <2> QED BY <1>10, <2>1, Frames DEF GrowStale
<1>11. CASE ForwardOk \/ ForwardFails
  BY <1>11, ForwardTypes
<1>12. CASE InsertSong \/ InsertFails
  BY <1>12, InsertTypes
<1>13. CASE Crash
  BY <1>13, CrashTypes
<1> HIDE DEF Types
<1> QED BY <1>1, <1>2, <1>3, <1>4, <1>5, <1>6, <1>7, <1>8, <1>9, <1>10, <1>11, <1>12, <1>13
         DEF Next, Worker, Failure

LEMMA TypesInvariant == Spec => []Types
BY TypesInit, TypesStep, PTL DEF Spec

\* Every variable keeps its type: what is in the spool, in the files, on the
\* wire and in FastDFS are chunks, whatever fails; the worker has a key while it
\* forwards or inserts, and only then.
THEOREM TypeCorrect == Spec => []TypeOK
<1>1. ASSUME Types PROVE TypeOK
  <2>1. \A c \in Client : tries[c] \in 0..MaxTries[c]
    <3> TAKE c \in Client
    <3>1. tries[c] \in Nat /\ MaxTries[c] \in Nat /\ tries[c] <= MaxTries[c]
      BY <1>1, UploadAssumption DEF Types, ClientType
    <3> QED BY <3>1
  <2>2. None \notin Key
    BY UploadAssumption
  <2>3. /\ fwd \in Forwarding \cup {NoFwd}
        /\ wpc = "idle" <=> fwd = NoFwd
    BY <1>1, <2>2 DEF Types, WorkerType, Forwarding, NoFwd
  <2> QED BY <1>1, <2>1, <2>3
           DEF TypeOK, Types, ClientType, WorkerType, SpoolType, StoreType, FaultType, Forwarding
<1> QED BY <1>1, TypesInvariant, PTL

-----------------------------------------------------------------------------
(* No temporary file is left behind *)

LEMMA PastGrows ==
    ASSUME [Next]_vars
    PROVE  past \subseteq past'
<1>1. CASE UNCHANGED vars
  BY <1>1 DEF vars, faults
<1>2. ASSUME NEW c \in Client, NEW g \in Song, Begin(c, g) \/ BeginWithoutCover(c, g)
      PROVE  past \subseteq past'
  BY <1>2 DEF Begin, BeginWithoutCover, faults
<1>3. ASSUME NEW c \in Client, Dismiss(c) \/ Reconnect(c) \/ Disconnect(c) \/ LoseToken(c)
      PROVE  past \subseteq past'
  BY <1>3 DEF Dismiss, Reconnect, Disconnect, LoseToken, faults
<1>4. ASSUME NEW c \in Client, \/ Reject(c) \/ RejectOnce(c) \/ UploadMetaType(c) \/ UploadMetaFails(c)
                               \/ UploadMetaUnread(c)
      PROVE  past \subseteq past'
  BY <1>4 DEF Reject, RejectOnce, UploadMetaType, UploadMetaFails, UploadMetaUnread, faults
<1>5. ASSUME NEW c \in Client, UploadFile(c) \/ UploadFileFails(c) \/ UploadFileLate(c)
      PROVE  past \subseteq past'
  BY <1>5 DEF UploadFile, UploadFileFails, UploadFileLate, faults
<1>6. CASE ForwardOk \/ ForwardFails \/ InsertSong \/ InsertFails
  BY <1>6 DEF ForwardOk, ForwardFails, InsertSong, InsertFails, Finish, faults
<1>7. CASE Crash \/ \E k \in Key : GrowStale(k)
  BY <1>7 DEF Crash, GrowStale, faults
<1> QED BY <1>1, <1>2, <1>3, <1>4, <1>5, <1>6, <1>7 DEF Next, Worker, Failure

\* A first chunk starts with no file, and so does an entry in memory.
LEMMA OldFileEmpty ==
    ASSUME Types, NoFileLeft, "crash" \notin past,
           NEW c \in Client, UploadFile(c) \/ UploadFileFails(c)
    PROVE  /\ Seqno(c) = 1 => OldEntry(c) = NewEntry /\ OldFile(c) = <<>>
           /\ Seqno(c) # 1 => OldEntry(c) = spools[KeyOf(c)] /\ OldFile(c) = disk[KeyOf(c)]
           /\ ~OldEntry(c).spilled => OldFile(c) = <<>>
<1>1. KeyOf(c) \in Key /\ wpc = "idle" /\ OldEntry(c) \in Entry
  BY Opening DEF Types, Ready
<1>2. \A j \in Key : ~HasFile(j) => disk[j] = <<>>
  BY <1>1 DEF NoFileLeft
<1>3. CASE Seqno(c) = 1
  BY <1>1, <1>2, <1>3, Opened DEF OldEntry, OldFile, Types
<1>4. CASE Seqno(c) # 1
  <2>1. OldEntry(c) = spools[KeyOf(c)] /\ OldFile(c) = disk[KeyOf(c)]
    BY <1>1, <1>4, Opened DEF OldEntry, OldFile, Types
  <2>2. ~OldEntry(c).spilled => ~HasFile(KeyOf(c))
    BY <2>1 DEF HasFile
  <2> QED BY <1>1, <1>2, <1>4, <2>1, <2>2
<1> QED BY <1>3, <1>4

\* The entries of the other keys are kept with their files, or removed with them.
LEMMA OtherFiles ==
    ASSUME Types, NoFileLeft, "crash" \notin past, wpc = "idle",
           NEW c \in Client, KeyOf(c) \in Key, NEW file, NEW entry, Spooled(c, file, entry),
           NEW j \in Key \ {KeyOf(c)}
    PROVE  \/ spools'[j] = spools[j] /\ disk'[j] = disk[j]
           \/ spools'[j] = None /\ disk'[j] = <<>>
<1>1. ~HasFile(j) => disk[j] = <<>>
  BY DEF NoFileLeft
<1>2. /\ SpoolsAt(KeyOf(c), Seqno(c)) \in [Key -> Entry \cup {None}]
      /\ DiskAt(KeyOf(c), Seqno(c)) \in [Key -> Seq(Chunk)]
  BY Opened DEF Types
<1>3. /\ spools'[j] = SpoolsAt(KeyOf(c), Seqno(c))[j]
      /\ disk'[j] = DiskAt(KeyOf(c), Seqno(c))[j]
  BY <1>2 DEF Spooled
<1>4. \/ spools'[j] = spools[j] /\ disk'[j] = disk[j]
      \/ spools'[j] = None /\ disk'[j] = IF HasFile(j) THEN <<>> ELSE disk[j]
  BY <1>3, Opened DEF Types
<1> QED BY <1>1, <1>4

LEMMA OwnFile ==
    ASSUME SpoolType, NEW c \in Client, KeyOf(c) \in Key, NEW file, NEW entry, Spooled(c, file, entry)
    PROVE  spools'[KeyOf(c)] = entry /\ disk'[KeyOf(c)] = file
BY Opened DEF Spooled

LEMMA FilesOfSpooling ==
    ASSUME Types, NoFileLeft, "crash" \notin past,
           NEW c \in Client, UploadFile(c) \/ UploadFileFails(c)
    PROVE  NoFileLeft'
<1>0. KeyOf(c) \in Key /\ wpc = "idle" /\ OldEntry(c) \in Entry /\ SpoolType
  BY Opening DEF Types, Ready
<1>1. PICK k \in Key : k = KeyOf(c)
  BY <1>0
<1>2. ASSUME NEW file, NEW entry, Spooled(c, file, entry), NEW j \in Key \ {k}, disk'[j] # <<>>
      PROVE  HasFile(j)'
  <2>1. spools'[j] = spools[j] /\ disk[j] # <<>>
    BY <1>0, <1>1, <1>2, OtherFiles
  <2>2. HasFile(j)
    BY <1>0, <1>1, <2>1 DEF NoFileLeft
  <2> QED BY <2>1, <2>2 DEF HasFile
<1>3. CASE UploadFile(c)
  <2> DEFINE entry == IF Seqno(c) = Chunks THEN None ELSE NewOf(c).entry
  <2>1. Spooled(c, NewOf(c).file, entry) /\ NewOf(c) \in Outcome
    BY <1>3, Spooling DEF Types
  <2>2. spools'[k] = entry /\ disk'[k] = NewOf(c).file
    BY <1>0, <1>1, <2>1, OwnFile
  <2>3. NewOf(c).file = <<>> \/ NewOf(c).entry.spilled
    <3>1. CASE FitsInMemory(OldEntry(c))
      BY <1>3, <3>1, OldFileEmpty DEF NewOf, WithChunk, FitsInMemory
    <3>2. CASE ~FitsInMemory(OldEntry(c))
      BY <3>2 DEF NewOf, WithChunk
    <3> QED BY <3>1, <3>2
  <2>4. NewOf(c).entry # None
    BY <2>1, UploadAssumption DEF Outcome
  <2>5. disk'[k] # <<>> => HasFile(k)' \/ (wpc = "forward" /\ fwd.spilled /\ fwd.key = k)'
    <3>1. CASE Seqno(c) = Chunks
      BY <1>1, <1>3, <2>2, <2>3, <3>1, Spooling DEF Types
    <3>2. CASE Seqno(c) # Chunks
      BY <2>2, <2>3, <2>4, <3>2 DEF HasFile
    <3> QED BY <3>1, <3>2
  <2> QED BY <1>1, <1>2, <2>1, <2>5 DEF NoFileLeft
<1>4. CASE UploadFileFails(c)
  <2>1. PICK a \in AfterFailure(OldEntry(c), OldFile(c), <<SongOf(c), Seqno(c)>>) :
           a \in Outcome /\ Spooled(c, a.file, a.entry)
    BY <1>4, SpoolingFails DEF Types
  <2>2. a.entry.spilled /\ a.entry # None
    BY <1>4, <2>1, Opening, AfterFailureType, UploadAssumption DEF Outcome, Types
  <2>3. HasFile(k)'
    BY <1>0, <1>1, <2>1, <2>2, OwnFile DEF HasFile
  <2> QED BY <1>1, <1>2, <2>1, <2>3 DEF NoFileLeft
<1> QED BY <1>3, <1>4

LEMMA FilesKept ==
    ASSUME Files, past \subseteq past', UNCHANGED <<wpc, spools, disk, fwd>>
    PROVE  Files'
BY DEF Files, NoFileLeft, TakenOut, HasFile

LEMMA FilesStep == Types /\ Files /\ [Next]_vars => Files'
<1> SUFFICES ASSUME Types, Files, [Next]_vars PROVE Files'
  OBVIOUS
<1>1. past \subseteq past'
  BY PastGrows
<1>2. CASE UNCHANGED vars
  BY <1>1, <1>2, FilesKept DEF vars, spool
<1>3. ASSUME NEW c \in Client, NEW g \in Song, Begin(c, g) \/ BeginWithoutCover(c, g)
      PROVE  Files'
  BY <1>1, <1>3, FilesKept DEF Begin, BeginWithoutCover, spool
<1>4. ASSUME NEW c \in Client, Dismiss(c) \/ Reconnect(c) \/ Disconnect(c) \/ LoseToken(c)
      PROVE  Files'
  BY <1>1, <1>4, FilesKept DEF Dismiss, Reconnect, Disconnect, LoseToken, spool
<1>5. ASSUME NEW c \in Client, \/ Reject(c) \/ RejectOnce(c) \/ UploadMetaType(c) \/ UploadMetaFails(c)
                               \/ UploadMetaUnread(c) \/ UploadFileLate(c)
      PROVE  Files'
  BY <1>1, <1>5, FilesKept DEF Reject, RejectOnce, UploadMetaType, UploadMetaFails,
     UploadMetaUnread, UploadFileLate, spool
<1>6. ASSUME NEW c \in Client, UploadFile(c) \/ UploadFileFails(c)
      PROVE  Files'
  <2>1. NoFileLeft'
    <3>1. CASE "crash" \in past
      BY <1>1, <3>1 DEF NoFileLeft
    <3>2. CASE "crash" \notin past
      BY <1>6, <3>2, FilesOfSpooling DEF Files
    <3> QED BY <3>1, <3>2
  <2>2. TakenOut'
    <3>1. wpc = "idle" /\ KeyOf(c) \in Key
      BY <1>6, Opening DEF Ready, Types
    <3>2. CASE UploadFile(c) /\ Seqno(c) = Chunks
      BY <3>1, <3>2, Spooling, OwnFile DEF Types, TakenOut
    <3>3. CASE ~(UploadFile(c) /\ Seqno(c) = Chunks)
      BY <1>6, <3>1, <3>3, Spooling, SpoolingFails DEF Types, TakenOut
    <3> QED BY <3>2, <3>3
  <2> QED BY <2>1, <2>2 DEF Files
<1>7. CASE ForwardOk \/ ForwardFails
  <2>1. wpc = "forward" /\ UNCHANGED spools /\ FileRemoved /\ fwd \in Forwarding
    BY <1>7 DEF ForwardOk, ForwardFails, Types, WorkerType
  <2>2. TakenOut'
    BY <1>7, <2>1 DEF ForwardOk, ForwardFails, TakenOut, Files
  <2>3. \A k \in Key : disk'[k] # <<>> => disk[k] # <<>> /\ ~(fwd.spilled /\ fwd.key = k)
    BY <2>1 DEF FileRemoved, Types, SpoolType, Forwarding
  <2>4. NoFileLeft'
    BY <1>1, <2>1, <2>3 DEF NoFileLeft, HasFile, Files
  <2> QED BY <2>2, <2>4 DEF Files
<1>8. CASE InsertSong \/ InsertFails
  <2>1. wpc = "insert" /\ wpc' = "idle" /\ UNCHANGED <<spools, disk>>
    BY <1>8 DEF InsertSong, InsertFails, Finish, spool
  <2> QED BY <1>1, <2>1 DEF Files, NoFileLeft, TakenOut, HasFile
<1>9. CASE Crash
  <2>1. "crash" \in past' /\ wpc' = "idle"
    BY <1>9 DEF Crash
  <2> QED BY <2>1 DEF Files, NoFileLeft, TakenOut
<1>10. ASSUME NEW k \in Key, GrowStale(k)
       PROVE  Files'
  BY <1>1, <1>10, FilesKept DEF GrowStale
<1> QED BY <1>2, <1>3, <1>4, <1>5, <1>6, <1>7, <1>8, <1>9, <1>10 DEF Next, Worker, Failure

LEMMA FilesInvariant == Spec => []Files
<1>1. Init => Files
  BY DEF Init, Files, NoFileLeft, TakenOut
<1> QED BY <1>1, FilesStep, TypesInvariant, PTL DEF Spec

\* As long as the server does not die, every temporary file with something in
\* it belongs to an entry of the spool or to the upload being forwarded,
\* whatever fails, is given up, repeated or purged.
THEOREM NothingLeft == Spec => []NoFileLeft
BY FilesInvariant, PTL DEF Files

-----------------------------------------------------------------------------
(* The chunks of a client follow each other *)

LEMMA FollowingEmpty == Following(<<>>)
BY EmptySeq DEF Following

LEMMA FollowingPop ==
    ASSUME NEW s \in Seq(Message), s # <<>>, Following(s)
    PROVE  /\ Following(Tail(s))
           /\ Tail(s) # <<>> /\ Tail(s)[1][2] > 1 => s[1] = <<Tail(s)[1][1], Tail(s)[1][2] - 1>>
<1>1. /\ Tail(s) \in Seq(Message) /\ Len(Tail(s)) = Len(s) - 1 /\ Len(s) \in Nat \ {0}
      /\ \A i \in 1..(Len(s) - 1) : Tail(s)[i] = s[i + 1]
  BY Popping, Lengths
<1>2. \A j \in 2..Len(s) : s[j][2] > 1 => s[j - 1] = <<s[j][1], s[j][2] - 1>>
  BY DEF Following
<1>3. ASSUME NEW j \in 2..(Len(s) - 1), Tail(s)[j][2] > 1
      PROVE  Tail(s)[j - 1] = <<Tail(s)[j][1], Tail(s)[j][2] - 1>>
  <2>1. j + 1 \in 2..Len(s) /\ j \in 1..(Len(s) - 1) /\ j - 1 \in 1..(Len(s) - 1)
    BY <1>1
  <2>2. Tail(s)[j] = s[j + 1] /\ Tail(s)[j - 1] = s[(j - 1) + 1]
    BY <1>1, <2>1
  <2>3. (j - 1) + 1 = j /\ (j + 1) - 1 = j
    BY <1>1
  <2> QED BY <1>2, <1>3, <2>1, <2>2, <2>3
<1>4. Following(Tail(s))
  BY <1>1, <1>3 DEF Following
<1>5. ASSUME Tail(s) # <<>>, Tail(s)[1][2] > 1
      PROVE  s[1] = <<Tail(s)[1][1], Tail(s)[1][2] - 1>>
  <2>1. Len(Tail(s)) # 0
    BY <1>1, <1>5, Lengths
  <2>2. 2 \in 2..Len(s) /\ 1 \in 1..(Len(s) - 1)
    BY <1>1, <2>1
  <2>3. Tail(s)[1] = s[1 + 1] /\ 1 + 1 = 2 /\ 2 - 1 = 1
    BY <1>1, <2>2
  <2> QED BY <1>2, <1>5, <2>2, <2>3
<1> QED BY <1>4, <1>5

LEMMA FollowingSend ==
    ASSUME NEW s \in Seq(Message), Following(s), NEW m \in Message, m[2] = 0
    PROVE  Following(Append(s, m))
<1>1. /\ Len(s) \in Nat /\ Len(Append(s, m)) = Len(s) + 1 /\ Append(s, m)[Len(s) + 1] = m
      /\ \A i \in 1..Len(s) : Append(s, m)[i] = s[i]
  BY Appending, Lengths
<1>2. ASSUME NEW j \in 2..(Len(s) + 1), Append(s, m)[j][2] > 1
      PROVE  Append(s, m)[j - 1] = <<Append(s, m)[j][1], Append(s, m)[j][2] - 1>>
  <2>1. j # Len(s) + 1
    BY <1>1, <1>2
  <2>2. j \in 2..Len(s) /\ j \in 1..Len(s) /\ j - 1 \in 1..Len(s)
    BY <1>1, <2>1
  <2>3. Append(s, m)[j] = s[j] /\ Append(s, m)[j - 1] = s[j - 1]
    BY <1>1, <2>2
  <2> QED BY <1>2, <2>2, <2>3 DEF Following
<1> QED BY <1>1, <1>2 DEF Following

LEMMA FollowingCut ==
    ASSUME NEW s \in Seq(Message), Following(s), NEW n \in 0..Len(s)
    PROVE  Following(SubSeq(s, 1, n))
<1>1. /\ Len(SubSeq(s, 1, n)) = n /\ Len(s) \in Nat
      /\ \A i \in 1..n : SubSeq(s, 1, n)[i] = s[i]
  BY Cutting, Lengths
<1>2. ASSUME NEW j \in 2..n, SubSeq(s, 1, n)[j][2] > 1
      PROVE  SubSeq(s, 1, n)[j - 1] = <<SubSeq(s, 1, n)[j][1], SubSeq(s, 1, n)[j][2] - 1>>
  <2>1. j \in 2..Len(s) /\ j \in 1..n /\ j - 1 \in 1..n
    BY <1>1
  <2>2. SubSeq(s, 1, n)[j] = s[j] /\ SubSeq(s, 1, n)[j - 1] = s[j - 1]
    BY <1>1, <2>1
  <2> QED BY <1>2, <2>1, <2>2 DEF Following
<1> QED BY <1>1, <1>2 DEF Following

\* A file that is sent starts with its first chunk, whatever was sent before.
LEMMA FollowingFile ==
    ASSUME ClientType, NEW c \in Client, path[c] \in Song, NEW s \in Seq(Message), Following(s)
    PROVE  Following(s \o AllChunks(c))
<1> DEFINE t == AllChunks(c)
           u == s \o t
<1>1. /\ t \in Seq(Message) /\ Len(t) = Chunks /\ \A i \in 1..Chunks : t[i] = <<path[c], i>>
      /\ Chunks \in Nat \ {0} /\ Len(s) \in Nat
  BY Sending, Lengths, UploadAssumption
<1> HIDE DEF t
<1>2. /\ Len(u) = Len(s) + Chunks
      /\ \A i \in 1..(Len(s) + Chunks) : u[i] = IF i <= Len(s) THEN s[i] ELSE t[i - Len(s)]
  BY <1>1, ConcatProperties
<1> HIDE DEF u
<1>3. ASSUME NEW j \in 2..(Len(s) + Chunks), u[j][2] > 1
      PROVE  u[j - 1] = <<u[j][1], u[j][2] - 1>>
  <2>1. CASE j <= Len(s)
    <3>1. /\ j \in 2..Len(s) /\ j - 1 \in 1..(Len(s) + Chunks) /\ j - 1 <= Len(s)
          /\ j \in 1..(Len(s) + Chunks)
      BY <1>1, <2>1
    <3>2. u[j] = s[j] /\ u[j - 1] = s[j - 1]
      BY <1>2, <2>1, <3>1
    <3> QED BY <1>3, <3>1, <3>2 DEF Following
  <2>2. CASE j > Len(s)
    <3>1. j - Len(s) \in 1..Chunks /\ ~(j <= Len(s))
      BY <1>1, <2>2
    <3>2. u[j] = <<path[c], j - Len(s)>>
      BY <1>1, <1>2, <3>1
    <3>3. j - Len(s) > 1
      BY <1>3, <3>2
    <3>4. (j - 1) - Len(s) \in 1..Chunks /\ ~(j - 1 <= Len(s)) /\ j - 1 \in 1..(Len(s) + Chunks)
      BY <1>1, <3>1, <3>3
    <3>5. u[j - 1] = <<path[c], (j - 1) - Len(s)>>
      BY <1>1, <1>2, <3>4
    <3>6. (j - 1) - Len(s) = (j - Len(s)) - 1
      BY <1>1
    <3> QED BY <3>2, <3>5, <3>6
  <2> QED BY <1>1, <2>1, <2>2
<1>4. Following(u)
  BY <1>2, <1>3 DEF Following
<1> QED BY <1>4 DEF u, t

LEMMA OrderMoved ==
    ASSUME ClientType, Order, NEW c \in Client, NEW s \in Seq(Message), Following(s),
           inbox' = [inbox EXCEPT ![c] = s]
    PROVE  Order'
<1>1. \A d \in Client : inbox'[d] = IF d = c THEN s ELSE inbox[d]
  BY DEF ClientType
<1> QED BY <1>1 DEF Order

\* The messages of a client whose front is handled, and the next front.
LEMMA NextFront ==
    ASSUME ClientType, Order, NEW c \in Client, Ready(c), PopInbox(c)
    PROVE  /\ Order'
           /\ \A d \in Client \ {c} : inbox'[d] = inbox[d]
           /\ inbox'[c] = Tail(inbox[c]) /\ inbox'[c] \in Seq(Message)
           /\ inbox[c][1] = <<SongOf(c), Seqno(c)>>
           /\ inbox'[c] # <<>> /\ inbox'[c][1][2] > 1 =>
                 inbox[c][1] = <<inbox'[c][1][1], inbox'[c][1][2] - 1>>
<1>1. inbox[c] \in Seq(Message) /\ inbox[c] # <<>> /\ Following(inbox[c])
  BY DEF ClientType, Ready, Message, Order
<1>2. inbox' = [inbox EXCEPT ![c] = Tail(inbox[c])] /\ Tail(inbox[c]) \in Seq(Message)
  BY <1>1, Popping DEF PopInbox
<1>3. /\ \A d \in Client \ {c} : inbox'[d] = inbox[d]
      /\ inbox'[c] = Tail(inbox[c])
  BY <1>2 DEF ClientType
<1>4. inbox[c][1] = <<SongOf(c), Seqno(c)>>
  BY <1>1, FrontType, Popping
<1>5. Following(Tail(inbox[c]))
  BY <1>1, FollowingPop
<1>6. inbox'[c] # <<>> /\ inbox'[c][1][2] > 1 =>
         inbox[c][1] = <<inbox'[c][1][1], inbox'[c][1][2] - 1>>
  BY <1>1, <1>3, FollowingPop
<1> QED BY <1>2, <1>3, <1>4, <1>5, <1>6, OrderMoved

LEMMA MetaMessage == ASSUME NEW g \in Song
                     PROVE  Meta(g) \in Message /\ Meta(g)[2] = 0
BY UploadAssumption DEF Message, Meta

LEMMA OrderStep == Types /\ Order /\ [Next]_vars => Order'
<1> SUFFICES ASSUME Types, Order, [Next]_vars PROVE Order'
  OBVIOUS
<1>0. ClientType /\ inbox \in [Client -> Seq(Message)]
  BY DEF Types, ClientType, Message
<1>1. CASE UNCHANGED inbox
  BY <1>1 DEF Order
<1>2. ASSUME NEW c \in Client, NEW g \in Song, Begin(c, g)
      PROVE  Order'
  <2>1. Append(inbox[c], Meta(g)) \in Seq(Message) /\ Following(Append(inbox[c], Meta(g)))
    BY <1>0, Appending, FollowingSend, MetaMessage DEF Order
  <2> QED BY <1>0, <1>2, <2>1, OrderMoved DEF Begin
<1>3. ASSUME NEW c \in Client, Disconnect(c)
      PROVE  Order'
  <2>1. PICK n \in 0..Len(inbox[c]) : inbox' = [inbox EXCEPT ![c] = SubSeq(inbox[c], 1, n)]
    BY <1>3 DEF Disconnect
  <2>2. SubSeq(inbox[c], 1, n) \in Seq(Message) /\ Following(SubSeq(inbox[c], 1, n))
    BY <1>0, Cutting, FollowingCut DEF Order
  <2> QED BY <1>0, <2>1, <2>2, OrderMoved
<1>4. ASSUME NEW c \in Client, Reconnect(c)
      PROVE  Order'
  <2>1. <<>> \in Seq(Message)
    BY EmptySeq
  <2> QED BY <1>0, <1>4, <2>1, OrderMoved, FollowingEmpty DEF Reconnect
<1>5. ASSUME NEW c \in Client, Ready(c), PopInbox(c)
      PROVE  Order'
  BY <1>0, <1>5, NextFront
<1>6. ASSUME NEW c \in Client, UploadMetaType(c)
      PROVE  Order'
  <2>1. Ready(c) /\ path[c] \in Song /\ inbox[c] # <<>>
    BY <1>0, <1>6, FrontType DEF UploadMetaType, Accepts, Ready
  <2>2. Tail(inbox[c]) \in Seq(Message) /\ Following(Tail(inbox[c]))
    BY <1>0, <2>1, Popping, FollowingPop DEF Order
  <2>3. /\ Tail(inbox[c]) \o AllChunks(c) \in Seq(Message)
        /\ Following(Tail(inbox[c]) \o AllChunks(c))
    BY <1>0, <2>1, <2>2, Sending, ConcatProperties, FollowingFile
  <2> QED BY <1>0, <1>6, <2>2, <2>3, OrderMoved DEF UploadMetaType
<1>7. CASE Crash
  BY <1>7, FollowingEmpty DEF Crash, Order
<1>8. ASSUME NEW c \in Client, \/ Reject(c) \/ RejectOnce(c) \/ UploadMetaFails(c) \/ UploadMetaUnread(c)
                               \/ UploadFile(c) \/ UploadFileFails(c) \/ UploadFileLate(c)
      PROVE  Ready(c) /\ PopInbox(c)
  BY <1>8 DEF Reject, RejectOnce, UploadMetaFails, UploadMetaUnread, UploadFile, UploadFileFails,
              UploadFileLate, Accepts
<1>9. ASSUME NEW c \in Client, NEW g \in Song, Dismiss(c) \/ LoseToken(c) \/ BeginWithoutCover(c, g)
      PROVE  UNCHANGED inbox
  BY <1>9 DEF Dismiss, LoseToken, BeginWithoutCover
<1>10. CASE \/ UNCHANGED vars \/ ForwardOk \/ ForwardFails \/ InsertSong \/ InsertFails
            \/ \E k \in Key : GrowStale(k)
  BY <1>1, <1>10 DEF vars, ForwardOk, ForwardFails, InsertSong, InsertFails, Finish, GrowStale
<1>11. ASSUME NEW c \in Client, Dismiss(c) \/ LoseToken(c)
       PROVE  UNCHANGED inbox
  BY <1>11 DEF Dismiss, LoseToken
<1> QED BY <1>1, <1>2, <1>3, <1>4, <1>5, <1>6, <1>7, <1>8, <1>9, <1>10, <1>11
         DEF Next, Worker, Failure

LEMMA OrderInvariant == Spec => []Order
<1>1. Init => Order
  BY FollowingEmpty DEF Init, Order
<1> QED BY <1>1, OrderStep, TypesInvariant, PTL DEF Spec

-----------------------------------------------------------------------------
(* What is stored is whole *)

\* A chunk that is kept continues what the entry holds.
LEMMA WithChunkHolds ==
    ASSUME NEW e, NEW d, NEW g \in Song, NEW i \in 1..Chunks, Holds(e, d, g, i - 1)
    PROVE  Holds(WithChunk(e, d, <<g, i>>).entry, WithChunk(e, d, <<g, i>>).file, g, i)
<1> DEFINE chunk == <<g, i>>
           a == WithChunk(e, d, chunk)
           m == Append(e.mem, chunk)
<1> SUFFICES Holds(a.entry, a.file, g, i)
  OBVIOUS
<1>1. /\ e \in Entry /\ e.mem \in Seq(Chunk) /\ e.spilled \in BOOLEAN /\ d \in Seq(Chunk)
      /\ chunk \in Chunk /\ i \in Nat \ {0}
  BY UploadAssumption DEF Holds, Entry, Chunk
<1>2. a.entry \in Entry /\ a.file \in Seq(Chunk)
  BY <1>1, WithChunkType DEF Outcome
<1>3. /\ m \in Seq(Chunk) /\ Len(m) = Len(e.mem) + 1 /\ m[Len(e.mem) + 1] = chunk
      /\ \A j \in 1..Len(e.mem) : m[j] = e.mem[j]
      /\ Len(e.mem) \in Nat /\ Len(d) \in Nat
  BY <1>1, Appending, Lengths
<1>4. ASSUME Part(e.mem, g, i - 1)
      PROVE  Part(m, g, i)
  <2>1. Len(e.mem) = i - 1 /\ \A j \in 1..(i - 1) : e.mem[j] = <<g, j>>
    BY <1>4 DEF Part
  <2>2. Len(m) = i /\ m[i] = <<g, i>> /\ \A j \in 1..(i - 1) : m[j] = <<g, j>>
    BY <1>1, <1>3, <2>1
  <2>3. \A j \in 1..i : j = i \/ j \in 1..(i - 1)
    BY <1>1
  <2> QED BY <2>2, <2>3 DEF Part
<1>5. CASE FitsInMemory(e)
  <2>1. a.entry.mem = m /\ a.entry.spilled = FALSE /\ a.file = d /\ d = <<>> /\ ~e.spilled
    BY <1>1, <1>5 DEF WithChunk, FitsInMemory, Holds, Entry
  <2>2. Len(d) = 0
    BY <1>1, <2>1, Lengths
  <2>3. Len(e.mem) <= i - 1 /\ (Len(e.mem) = i - 1 => Part(e.mem, g, i - 1))
    BY <1>3, <2>1, <2>2 DEF Holds
  <2>4. Len(m) + Len(d) <= i /\ (Len(m) + Len(d) = i => Part(m, g, i))
    BY <1>1, <1>3, <1>4, <2>2, <2>3
  <2> HIDE DEF a, m
  <2> QED BY <1>2, <2>1, <2>4 DEF Holds
<1>6. CASE ~FitsInMemory(e)
  <2>1. a.entry.mem = <<>> /\ a.entry.spilled = TRUE /\ a.file = d \o m
    BY <1>6 DEF WithChunk
  <2>2. Len(a.entry.mem) = 0
    BY <2>1, EmptySeq
  <2>3. /\ Len(d \o m) = Len(d) + Len(m)
        /\ \A j \in 1..(Len(d) + Len(m)) : (d \o m)[j] = IF j <= Len(d) THEN d[j] ELSE m[j - Len(d)]
    BY <1>1, <1>3, ConcatProperties
  <2>4. /\ Len(e.mem) + Len(d) <= i - 1
        /\ Len(e.mem) + Len(d) = i - 1 =>
               IF e.spilled THEN e.mem = <<>> /\ Part(d, g, i - 1) ELSE Part(e.mem, g, i - 1)
    BY DEF Holds
  <2>5. Len(d \o m) <= i
    BY <1>1, <1>3, <2>3, <2>4
  <2>6. ASSUME Len(d \o m) = i
        PROVE  Part(d \o m, g, i)
    <3>1. Len(e.mem) + Len(d) = i - 1 /\ Len(d) + Len(m) = i
      BY <1>1, <1>3, <2>3, <2>6
    <3>2. CASE e.spilled
      <4>1. e.mem = <<>> /\ Part(d, g, i - 1) /\ Len(e.mem) = 0
        BY <2>4, <3>1, <3>2, EmptySeq
      <4>2. Len(d) = i - 1 /\ m[1] = chunk /\ \A j \in 1..(i - 1) : d[j] = <<g, j>>
        BY <1>3, <3>1, <4>1 DEF Part
      <4>3. ASSUME NEW j \in 1..i PROVE (d \o m)[j] = <<g, j>>
        <5>1. CASE j = i
          <6>1. i - Len(d) = 1 /\ ~(i <= Len(d)) /\ i \in 1..(Len(d) + Len(m))
            BY <1>1, <3>1, <4>2
          <6> QED BY <2>3, <4>2, <5>1, <6>1
        <5>2. CASE j # i
          <6>1. j \in 1..(i - 1) /\ j <= Len(d) /\ j \in 1..(Len(d) + Len(m))
            BY <1>1, <3>1, <4>2, <5>2
          <6> QED BY <2>3, <4>2, <6>1
        <5> QED BY <5>1, <5>2
      <4> QED BY <2>6, <4>3 DEF Part
    <3>3. CASE ~e.spilled
      <4>1. d = <<>> /\ Len(d) = 0 /\ Part(e.mem, g, i - 1)
        BY <2>4, <3>1, <3>3, EmptySeq DEF Holds
      <4>2. d \o m = m
        BY <1>3, <4>1, ConcatEmptySeq
      <4> QED BY <1>4, <4>1, <4>2
    <3> QED BY <3>2, <3>3
  <2> HIDE DEF a, m
  <2>7. Len(a.entry.mem) + Len(a.file) = Len(d \o m)
    BY <1>1, <1>3, <2>1, <2>2, <2>3
  <2> QED BY <1>2, <2>1, <2>5, <2>6, <2>7 DEF Holds
<1> QED BY <1>5, <1>6

\* After a failed write the entry has too little.
LEMMA AfterFailureHolds ==
    ASSUME NEW e \in Entry, NEW d \in Seq(Chunk), NEW g \in Song, NEW i \in 1..Chunks, Holds(e, d, g, i - 1),
           NEW chunk, NEW a \in AfterFailure(e, d, chunk)
    PROVE  Holds(a.entry, a.file, g, i)
<1>1. /\ e.mem \in Seq(Chunk) /\ i \in Nat \ {0}
      /\ Len(e.mem) \in Nat /\ Len(d) \in Nat /\ Len(e.mem) + Len(d) <= i - 1
  BY UploadAssumption, Lengths DEF Holds, Entry
<1>2. a \in Outcome /\ a.entry.spilled /\ LeftOf(a, e, d)
  BY AfterFailureType
<1>3. Len(a.entry.mem) + Len(a.file) <= i - 1
  <2>1. CASE a.entry.mem = e.mem /\ a.file = d
    BY <1>1, <2>1
  <2>2. ASSUME a.entry.mem = <<>>, NEW n \in 0..Len(e.mem), a.file = d \o SubSeq(e.mem, 1, n)
        PROVE  Len(a.entry.mem) + Len(a.file) <= i - 1
    <3>1. SubSeq(e.mem, 1, n) \in Seq(Chunk) /\ Len(SubSeq(e.mem, 1, n)) = n
      BY <1>1, Cutting
    <3>2. Len(a.file) = Len(d) + n
      BY <1>1, <2>2, <3>1, ConcatProperties
    <3>3. Len(a.entry.mem) = 0
      BY <2>2, EmptySeq
    <3> QED BY <1>1, <3>2, <3>3
  <2> QED BY <1>2, <2>1, <2>2 DEF LeftOf
<1>4. Len(a.entry.mem) + Len(a.file) \in Nat
  BY <1>2, Lengths DEF Outcome, Entry
<1> QED BY <1>1, <1>2, <1>3, <1>4 DEF Holds, Outcome

\* A new entry holds nothing yet.
LEMMA NewHolds == ASSUME NEW g
                  PROVE  Holds(NewEntry, <<>>, g, 0)
<1>1. <<>> \in Seq(Chunk) /\ NewEntry \in Entry /\ NewEntry.mem = <<>> /\ NewEntry.spilled = FALSE
  BY EmptySeq DEF NewEntry, Entry
<1>2. Len(<<>>) = 0
  BY EmptySeq
<1> QED BY <1>1, <1>2 DEF Holds, Part

\* What an entry holds after the last chunk is too short or the file.
LEMMA LastHolds ==
    ASSUME NEW a \in Outcome, NEW g \in Song, Holds(a.entry, a.file, g, Chunks)
    PROVE  /\ Len(DataOf(a)) <= Chunks
           /\ Len(DataOf(a)) = Chunks => DataOf(a) = FileOf(g)
<1>1. /\ a.entry.mem \in Seq(Chunk) /\ a.file \in Seq(Chunk) /\ Chunks \in Nat
      /\ Len(a.entry.mem) \in Nat /\ Len(a.file) \in Nat
  BY UploadAssumption, Lengths DEF Outcome, Entry
<1>2. DataOf(a) \in Seq(Chunk) /\ Len(DataOf(a)) = Len(a.entry.mem) + Len(a.file)
  <2>1. CASE a.entry.spilled
    BY <1>1, <2>1, ConcatProperties DEF DataOf
  <2>2. CASE ~a.entry.spilled
    <3>1. a.file = <<>> /\ Len(a.file) = 0
      BY <2>2, EmptySeq DEF Holds
    <3> QED BY <1>1, <2>2, <3>1 DEF DataOf
  <2> QED BY <2>1, <2>2
<1>3. Len(DataOf(a)) <= Chunks
  BY <1>2 DEF Holds
<1>4. ASSUME Len(DataOf(a)) = Chunks
      PROVE  DataOf(a) = FileOf(g)
  <2>1. Part(DataOf(a), g, Chunks)
    <3>1. CASE a.entry.spilled
      <4>1. a.entry.mem = <<>> /\ Part(a.file, g, Chunks)
        BY <1>2, <1>4, <3>1 DEF Holds
      <4>2. DataOf(a) = a.file
        BY <1>1, <3>1, <4>1, ConcatEmptySeq DEF DataOf
      <4> QED BY <4>1, <4>2
    <3>2. CASE ~a.entry.spilled
      BY <1>2, <1>4, <3>2 DEF Holds, DataOf
    <3> QED BY <3>1, <3>2
  <2>2. DataOf(a) \in [1..Chunks -> Chunk]
    BY <1>2, <1>4, LenProperties
  <2>3. \A j \in 1..Chunks : DataOf(a)[j] = <<g, j>>
    BY <2>1 DEF Part
  <2>4. DataOf(a) = [j \in 1..Chunks |-> <<g, j>>]
    BY <2>2, <2>3
  <2> QED BY <2>4 DEF FileOf
<1> QED BY <1>3, <1>4

\* What makes it worth looking at the front of a client.
Waiting(c, g, n) == token[c] /\ inbox[c] # <<>> /\ inbox[c][1] = <<g, n + 1>>

LEMMA GatheredKept ==
    ASSUME Gathered, UNCHANGED <<spools, disk>>,
           \A c \in Client, g \in Song, n \in 1..Chunks : Waiting(c, g, n)' => Waiting(c, g, n)
    PROVE  Gathered'
BY DEF Gathered, Waiting

LEMMA GatheredTokens ==
    ASSUME Gathered, UNCHANGED <<spools, disk, inbox>>, \A c \in Client : token'[c] => token[c]
    PROVE  Gathered'
<1>1. \A c \in Client, g \in Song, n \in 1..Chunks : Waiting(c, g, n)' => Waiting(c, g, n)
  BY DEF Waiting
<1> QED BY <1>1, GatheredKept

\* One client's front is taken away, or its connection is replaced.
LEMMA GatheredOthers ==
    ASSUME Gathered, UNCHANGED <<spools, disk>>, NEW c \in Client,
           \A d \in Client \ {c} : inbox'[d] = inbox[d] /\ token'[d] = token[d],
           \A g \in Song, n \in 1..Chunks : Waiting(c, g, n)' =>
               Waiting(c, g, n) \/ spools[<<c, g>>] = None
    PROVE  Gathered'
<1> SUFFICES ASSUME NEW d \in Client, NEW g \in Song, NEW n \in 1..Chunks,
                    Waiting(d, g, n)', spools'[<<d, g>>] # None
             PROVE  Holds(spools[<<d, g>>], disk[<<d, g>>], g, n)'
  BY DEF Gathered, Waiting
<1>1. Waiting(d, g, n) /\ spools[<<d, g>>] # None
  BY DEF Waiting
<1>2. Holds(spools[<<d, g>>], disk[<<d, g>>], g, n)
  BY <1>1 DEF Gathered, Waiting
<1> QED BY <1>2 DEF Holds, Part

LEMMA OldHolds ==
    ASSUME Types, NoFileLeft, "crash" \notin past, Gathered,
           NEW c \in Client, UploadFile(c) \/ UploadFileFails(c)
    PROVE  Holds(OldEntry(c), OldFile(c), SongOf(c), Seqno(c) - 1)
<1>1. /\ Ready(c) /\ token[c] /\ SongOf(c) \in Song /\ KeyOf(c) \in Key /\ Seqno(c) \in 1..Chunks
      /\ OldEntry(c) \in Entry /\ ClientType
  BY Opening DEF Types
<1>2. CASE Seqno(c) = 1
  BY <1>2, OldFileEmpty, NewHolds
<1>3. CASE Seqno(c) # 1
  <2>1. OldEntry(c) = spools[<<c, SongOf(c)>>] /\ OldFile(c) = disk[<<c, SongOf(c)>>]
    BY <1>3, OldFileEmpty DEF KeyOf
  <2>2. spools[<<c, SongOf(c)>>] # None
    BY <1>1, <2>1, UploadAssumption
  <2>3. Chunks \in Nat
    BY UploadAssumption
  <2>4. Seqno(c) - 1 \in 1..Chunks /\ (Seqno(c) - 1) + 1 = Seqno(c)
    BY <1>1, <1>3, <2>3
  <2>5. inbox[c] # <<>> /\ inbox[c] \in Seq(Message)
    BY <1>1 DEF Ready, ClientType, Message
  <2>6. inbox[c][1] = <<SongOf(c), (Seqno(c) - 1) + 1>>
    BY <1>1, <2>4, <2>5, FrontType, Popping
  <2> QED BY <1>1, <2>1, <2>2, <2>4, <2>5, <2>6 DEF Gathered
<1> QED BY <1>2, <1>3

\* When chunk i of song g was handled, with or without loss, the next one of
\* this client finds what came before it.
LEMMA GatheredSpooling ==
    ASSUME Types, NoFileLeft, "crash" \notin past, Gathered, Order, UNCHANGED token,
           NEW c \in Client, KeyOf(c) \in Key, Ready(c), PopInbox(c), NEW entry, NEW file,
           Spooled(c, file, entry), entry = None \/ Holds(entry, file, SongOf(c), Seqno(c))
    PROVE  Gathered'
<1>0. ClientType /\ SpoolType /\ wpc = "idle"
  BY DEF Types, Ready
<1> SUFFICES ASSUME NEW d \in Client, NEW g \in Song, NEW n \in 1..Chunks,
                    Waiting(d, g, n)', spools'[<<d, g>>] # None
             PROVE  Holds(spools[<<d, g>>], disk[<<d, g>>], g, n)'
  BY DEF Gathered, Waiting
<1>1. <<d, g>> \in Key
  BY DEF Key
<1>2. ASSUME d = c
      PROVE  Holds(spools'[<<d, g>>], disk'[<<d, g>>], g, n)
  <2>1. inbox'[c] # <<>> /\ inbox'[c][1] = <<g, n + 1>>
    BY <1>2 DEF Waiting
  <2>2. n \in Nat /\ n + 1 > 1 /\ (n + 1) - 1 = n
    BY UploadAssumption
  <2>3. inbox[c][1] = <<g, n>> /\ inbox[c][1] = <<SongOf(c), Seqno(c)>>
    BY <1>0, <2>1, <2>2, NextFront
  <2>4. SongOf(c) = g /\ Seqno(c) = n /\ KeyOf(c) = <<d, g>>
    BY <1>2, <2>3 DEF KeyOf
  <2>5. spools'[<<d, g>>] = entry /\ disk'[<<d, g>>] = file
    BY <1>0, <2>4, OwnFile
  <2> QED BY <2>4, <2>5
<1>3. ASSUME d # c
      PROVE  Holds(spools'[<<d, g>>], disk'[<<d, g>>], g, n)
  <2>1. <<d, g>> # KeyOf(c)
    BY <1>3 DEF KeyOf
  <2>2. spools'[<<d, g>>] = spools[<<d, g>>] /\ disk'[<<d, g>>] = disk[<<d, g>>]
    BY <1>0, <1>1, <2>1, OtherFiles
  <2>3. Waiting(d, g, n)
    BY <1>0, <1>3, NextFront DEF Waiting
  <2> QED BY <2>2, <2>3 DEF Gathered, Waiting
<1>4. Holds(spools'[<<d, g>>], disk'[<<d, g>>], g, n)
  BY <1>2, <1>3
<1> QED BY <1>4 DEF Holds, Part

\* The rest of Contents, when nothing happens to it.
LEMMA StoresKept ==
    ASSUME Contents, Gathered', UNCHANGED <<wpc, fwd, stored, told>>
    PROVE  Contents'
BY DEF Contents, Forwarded, StoredFirst

LEMMA ContentsOfSpooling ==
    ASSUME Types, NoFileLeft, "crash" \notin past, Contents, Order,
           NEW c \in Client, UploadFile(c) \/ UploadFileFails(c)
    PROVE  Contents'
<1>1. /\ KeyOf(c) \in Key /\ SongOf(c) \in Song /\ Seqno(c) \in 1..Chunks /\ Ready(c)
      /\ OldEntry(c) \in Entry /\ OldFile(c) \in Seq(Chunk) /\ Gathered
  BY Opening DEF Types, Contents
<1>2. Holds(OldEntry(c), OldFile(c), SongOf(c), Seqno(c) - 1)
  BY <1>1, OldHolds
<1>3. PopInbox(c) /\ UNCHANGED <<token, stored, told>>
  BY DEF UploadFile, UploadFileFails, net, database
<1>4. CASE UploadFile(c)
  <2> DEFINE entry == IF Seqno(c) = Chunks THEN None ELSE NewOf(c).entry
  <2>1. Spooled(c, NewOf(c).file, entry) /\ NewOf(c) \in Outcome
    BY <1>4, Spooling DEF Types
  <2>2. Holds(NewOf(c).entry, NewOf(c).file, SongOf(c), Seqno(c))
    BY <1>1, <1>2, WithChunkHolds DEF NewOf
  <2>3. entry = None \/ Holds(entry, NewOf(c).file, SongOf(c), Seqno(c))
    BY <2>2
  <2> HIDE DEF entry
  <2>4. Gathered'
    BY <1>1, <1>3, <2>1, <2>3, GatheredSpooling
  <2>5. CASE Seqno(c) = Chunks
    <3>1. /\ wpc' = "forward" /\ fwd'.data = DataOf(NewOf(c)) /\ fwd'.key = KeyOf(c)
          /\ KeyOf(c)[2] = SongOf(c)
      BY <1>4, <2>5, Spooling DEF Types, KeyOf
    <3>2. /\ Len(fwd'.data) <= Chunks
          /\ Len(fwd'.data) = Chunks => fwd'.data = FileOf(fwd'.key[2])
      BY <1>1, <2>1, <2>2, <2>5, <3>1, LastHolds
    <3>3. Forwarded' /\ StoredFirst'
      BY <3>1, <3>2 DEF Forwarded, StoredFirst, FileOf
    <3> QED BY <1>3, <2>4, <3>3 DEF Contents
  <2>6. CASE Seqno(c) # Chunks
    BY <1>3, <1>4, <2>4, <2>6, Spooling, StoresKept DEF Types
  <2> QED BY <2>5, <2>6
<1>5. CASE UploadFileFails(c)
  <2>1. PICK a \in AfterFailure(OldEntry(c), OldFile(c), <<SongOf(c), Seqno(c)>>) :
           a \in Outcome /\ Spooled(c, a.file, a.entry)
    BY <1>5, SpoolingFails DEF Types
  <2>2. Holds(a.entry, a.file, SongOf(c), Seqno(c))
    BY <1>1, <1>2, AfterFailureHolds
  <2>3. Gathered'
    BY <1>1, <1>3, <2>1, <2>2, GatheredSpooling
  <2> QED BY <1>3, <1>5, <2>3, SpoolingFails, StoresKept DEF Types
<1> QED BY <1>4, <1>5

\* What the clients do leaves the front of what they have sent.
LEMMA ClientContents ==
    ASSUME Types, Contents, UNCHANGED <<wpc, fwd, spools, disk, stored, told>>,
           NEW c \in Client, NEW g \in Song,
           \/ Begin(c, g) \/ BeginWithoutCover(c, g) \/ Dismiss(c)
           \/ Disconnect(c) \/ Reconnect(c) \/ LoseToken(c)
    PROVE  Contents'
<1>0. ClientType /\ Gathered /\ inbox \in [Client -> Seq(Message)] /\ token \in [Client -> BOOLEAN]
  BY DEF Types, ClientType, Message, Contents
<1>1. CASE BeginWithoutCover(c, g) \/ Dismiss(c) \/ LoseToken(c)
  <2>1. UNCHANGED inbox /\ \A d \in Client : token'[d] => token[d]
    BY <1>0, <1>1 DEF BeginWithoutCover, Dismiss, LoseToken, net
  <2> QED BY <1>0, <2>1, GatheredTokens, StoresKept
<1>2. CASE Begin(c, g) \/ Disconnect(c) \/ Reconnect(c)
  <2>1. \A d \in Client \ {c} : inbox'[d] = inbox[d] /\ token'[d] = token[d]
    BY <1>0, <1>2 DEF Begin, Disconnect, Reconnect, net
  <2>2. ASSUME NEW h \in Song, NEW n \in 1..Chunks, Waiting(c, h, n)'
        PROVE  Waiting(c, h, n)
    <3>1. inbox'[c] # <<>> /\ inbox'[c][1] = <<h, n + 1>> /\ n + 1 # 0
      BY <2>2, UploadAssumption DEF Waiting
    <3>2. CASE Begin(c, g)
      <4>1. /\ inbox'[c] = Append(inbox[c], Meta(g)) /\ Meta(g) \in Message /\ Meta(g)[2] = 0
            /\ token' = token
        BY <1>0, <3>2, MetaMessage DEF Begin, net
      <4>2. Append(inbox[c], Meta(g))[1] # Meta(g)
        BY <3>1, <4>1
      <4>3. Len(inbox[c]) # 0
        BY <1>0, <4>1, <4>2, Appending
      <4>4. 1 \in 1..Len(inbox[c]) /\ inbox[c] # <<>>
        BY <1>0, <4>3, Lengths
      <4>5. inbox'[c][1] = inbox[c][1]
        BY <1>0, <4>1, <4>4, Appending
      <4> QED BY <2>2, <4>1, <4>4, <4>5 DEF Waiting
    <3>3. CASE Disconnect(c)
      <4>1. PICK m \in 0..Len(inbox[c]) : inbox' = [inbox EXCEPT ![c] = SubSeq(inbox[c], 1, m)]
        BY <3>3 DEF Disconnect
      <4>2. inbox'[c] = SubSeq(inbox[c], 1, m)
        BY <1>0, <4>1
      <4>3. SubSeq(inbox[c], 1, m) \in Seq(Message) /\ Len(SubSeq(inbox[c], 1, m)) = m
        BY <1>0, Cutting
      <4>4. m # 0 /\ Len(inbox[c]) \in Nat
        BY <1>0, <3>1, <4>2, <4>3, Lengths
      <4>5. 1 \in 1..m /\ inbox[c] # <<>>
        BY <1>0, <4>4, Lengths
      <4>6. inbox'[c][1] = inbox[c][1]
        BY <1>0, <4>2, <4>5, Cutting
      <4>7. token' = token
        BY <3>3 DEF Disconnect
      <4> QED BY <2>2, <4>5, <4>6, <4>7 DEF Waiting
    <3>4. CASE Reconnect(c)
      BY <1>0, <3>1, <3>4 DEF Reconnect
    <3> QED BY <1>2, <3>2, <3>3, <3>4
  <2> QED BY <1>0, <2>1, <2>2, GatheredOthers, StoresKept
<1> QED BY <1>1, <1>2

\* Handling a message that is no chunk of an entry.
LEMMA PoppedContents ==
    ASSUME Types, Order, Contents, UNCHANGED <<wpc, fwd, spools, disk, stored, told, token>>,
           NEW c \in Client, Ready(c), PopInbox(c),
           token[c] /\ Seqno(c) # 0 => spools[<<c, SongOf(c)>>] = None
    PROVE  Contents'
<1>0. ClientType /\ Gathered
  BY DEF Types, Contents
<1>1. ASSUME NEW g \in Song, NEW n \in 1..Chunks, Waiting(c, g, n)'
      PROVE  spools[<<c, g>>] = None
  <2>1. inbox'[c] # <<>> /\ inbox'[c][1] = <<g, n + 1>> /\ token[c]
    BY <1>1 DEF Waiting
  <2>2. n \in Nat /\ n # 0 /\ n + 1 > 1 /\ (n + 1) - 1 = n
    BY UploadAssumption
  <2>3. inbox[c][1] = <<g, n>> /\ inbox[c][1] = <<SongOf(c), Seqno(c)>>
    BY <1>0, <2>1, <2>2, NextFront
  <2> QED BY <2>1, <2>2, <2>3
<1>2. \A d \in Client \ {c} : inbox'[d] = inbox[d] /\ token'[d] = token[d]
  BY <1>0, NextFront
<1>3. Gathered'
  BY <1>0, <1>1, <1>2, GatheredOthers
<1> QED BY <1>3, StoresKept

LEMMA Seqnos == ASSUME NEW m \in Message PROVE m[2] \in Nat
<1>1. m[2] \in 0..Chunks
  BY DEF Message
<1>2. Chunks \in Nat
  BY UploadAssumption
<1> QED BY <1>1, <1>2

LEMMA Second == ASSUME NEW p, NEW x, NEW y, p = <<x, y>> PROVE p[2] = y
OBVIOUS

\* The answer to the meta message has the file sent.
LEMMA MetaContents ==
    ASSUME Types, Order, Contents, NEW c \in Client, UploadMetaType(c)
    PROVE  Contents'
<1>0. /\ ClientType /\ Gathered /\ Ready(c) /\ Seqno(c) = 0
      /\ UNCHANGED <<wpc, fwd, spools, disk, stored, told, token>>
  BY DEF Types, Contents, UploadMetaType, Accepts, net, spool, database
<1>1. path[c] \in Song /\ inbox[c] \in Seq(Message) /\ inbox[c] # <<>> /\ Following(inbox[c])
  BY <1>0, FrontType DEF Ready, ClientType, Message, Order
<1>2. inbox[c][1] = <<SongOf(c), 0>>
  BY <1>0, <1>1, FrontType, Popping
<1>3. /\ inbox'[c] = Tail(inbox[c]) \/ inbox'[c] = Tail(inbox[c]) \o AllChunks(c)
      /\ \A d \in Client \ {c} : inbox'[d] = inbox[d] /\ token'[d] = token[d]
  BY <1>0 DEF UploadMetaType, ClientType
<1>4. /\ AllChunks(c) \in Seq(Message) /\ Len(AllChunks(c)) = Chunks
      /\ AllChunks(c)[1] = <<path[c], 1>> /\ Chunks \in Nat \ {0}
  <2>1. Chunks \in Nat \ {0}
    BY UploadAssumption
  <2>2. 1 \in 1..Chunks
    BY <2>1
  <2> QED BY <1>0, <1>1, <2>1, <2>2, Sending
<1>5. Tail(inbox[c]) \in Seq(Message)
  BY <1>1, Popping
<1>6. ~(Tail(inbox[c]) # <<>> /\ Tail(inbox[c])[1][2] > 1)
  <2>1. SUFFICES ASSUME Tail(inbox[c]) # <<>>, Tail(inbox[c])[1][2] > 1 PROVE FALSE
    OBVIOUS
  <2>2. inbox[c][1] = <<Tail(inbox[c])[1][1], Tail(inbox[c])[1][2] - 1>>
    BY <1>1, <2>1, FollowingPop
  <2>3. Tail(inbox[c])[1][2] \in Nat
    <3>1. 1 \in 1..Len(Tail(inbox[c]))
      BY <1>5, <2>1, Lengths
    <3>2. Tail(inbox[c])[1] \in Message
      BY <1>5, <3>1, ElementOfSeq
    <3> QED BY <3>2, Seqnos
  <2>4. inbox[c][1][2] = 0 /\ inbox[c][1][2] = Tail(inbox[c])[1][2] - 1
    <3>1. inbox[c][1][2] = 0
      BY <1>2, Second
    <3>2. inbox[c][1][2] = Tail(inbox[c])[1][2] - 1
      <4> DEFINE x == Tail(inbox[c])[1][1]
                 y == Tail(inbox[c])[1][2] - 1
      <4>1. inbox[c][1] = <<x, y>>
        BY <2>2
      <4> HIDE DEF x, y
      <4>2. inbox[c][1][2] = y
        BY <4>1, Second
      <4> QED BY <4>2 DEF y
    <3> QED BY <3>1, <3>2
  <2> QED BY <2>1, <2>3, <2>4
<1>7. ASSUME NEW g \in Song, NEW n \in 1..Chunks
      PROVE  ~Waiting(c, g, n)'
  <2>1. SUFFICES ASSUME inbox'[c] # <<>>, inbox'[c][1] = <<g, n + 1>> PROVE FALSE
    BY DEF Waiting
  <2>2. inbox'[c][1][2] > 1 /\ n + 1 # 1
    <3>1. inbox'[c][1][2] = n + 1
      BY <2>1
    <3> QED BY <1>4, <3>1
  <2>3. inbox'[c] = Tail(inbox[c]) \o AllChunks(c)
    BY <1>3, <1>6, <2>1, <2>2
  <2>4. CASE Tail(inbox[c]) = <<>>
    <3>1. inbox'[c][1] = <<path[c], 1>>
      BY <1>4, <2>3, <2>4, ConcatEmptySeq
    <3> QED BY <2>1, <2>2, <3>1
  <2>5. CASE Tail(inbox[c]) # <<>>
    <3>1. 1 \in 1..(Len(Tail(inbox[c])) + Len(AllChunks(c))) /\ 1 <= Len(Tail(inbox[c]))
      BY <1>4, <1>5, <2>5, Lengths
    <3>2. inbox'[c][1] = Tail(inbox[c])[1]
      BY <1>4, <1>5, <2>3, <3>1, ConcatProperties
    <3> QED BY <1>6, <2>1, <2>2, <2>5, <3>2
  <2> QED BY <2>4, <2>5
<1>8. Gathered'
  BY <1>0, <1>3, <1>7, GatheredOthers
<1> QED BY <1>0, <1>8, StoresKept

\* The RPC: a stream long enough is the file.
LEMMA ForwardContents ==
    ASSUME Types, Files, "crash" \notin past, Contents, ForwardOk \/ ForwardFails
    PROVE  Contents'
<1>1. /\ wpc = "forward" /\ fwd \in Forwarding /\ UNCHANGED <<spools, inbox, token, told>>
      /\ FileRemoved /\ disk \in [Key -> Seq(Chunk)] /\ Gathered /\ Forwarded
  BY DEF ForwardOk, ForwardFails, Types, WorkerType, SpoolType, net, Contents
<1>2. spools[fwd.key] = None /\ fwd.key \in Key /\ fwd.key[2] \in Song
  BY <1>1 DEF Files, TakenOut, Forwarding, Key
<1>3. \A k \in Key : k # fwd.key => disk'[k] = disk[k]
  BY <1>1, <1>2 DEF FileRemoved
<1>4. Gathered'
  <2> SUFFICES ASSUME NEW d \in Client, NEW g \in Song, NEW n \in 1..Chunks,
                      Waiting(d, g, n)', spools'[<<d, g>>] # None
               PROVE  Holds(spools[<<d, g>>], disk[<<d, g>>], g, n)'
    BY DEF Gathered, Waiting
  <2>1. <<d, g>> \in Key /\ Waiting(d, g, n) /\ spools[<<d, g>>] # None
    BY <1>1 DEF Key, Waiting
  <2>2. Holds(spools[<<d, g>>], disk[<<d, g>>], g, n)
    BY <1>1, <2>1 DEF Gathered, Waiting
  <2>3. spools'[<<d, g>>] = spools[<<d, g>>] /\ disk'[<<d, g>>] = disk[<<d, g>>]
    BY <1>1, <1>2, <1>3, <2>1
  <2>4. Holds(spools'[<<d, g>>], disk'[<<d, g>>], g, n)
    BY <2>2, <2>3
  <2> QED BY <2>4 DEF Holds, Part
<1>5. StreamLongEnough => StoredFile = FileOf(fwd.key[2])
  <2>1. fwd.data \in Seq(Chunk) /\ Chunks \in Nat
    BY <1>1, UploadAssumption DEF Forwarding
  <2>2. Len(fwd.data) \in Nat /\ Len(fwd.data) <= Chunks
    BY <1>1, <2>1, Lengths DEF Forwarded
  <2>3. StreamLongEnough => Len(fwd.data) = Chunks
    BY <2>1, <2>2 DEF StreamLongEnough
  <2> QED BY <1>1, <2>3, Stored DEF Forwarded
<1>6. stored' = stored \/ (StreamLongEnough /\ stored' = stored \cup {StoredFile})
  BY DEF ForwardOk, ForwardFails
<1>7. /\ stored \subseteq stored' /\ \A f \in stored' : f \in stored \/ f = FileOf(fwd.key[2])
  BY <1>5, <1>6
<1>8. /\ \A f \in stored' : \E g \in Song : f = FileOf(g)
      /\ \A g \in told' : FileOf(g) \in stored'
  BY <1>1, <1>2, <1>7 DEF Contents
<1>9. CASE ForwardOk
  <2>1. /\ UNCHANGED fwd /\ wpc' = "insert" /\ stored' = stored \cup {StoredFile}
        /\ StreamLongEnough
    BY <1>9 DEF ForwardOk
  <2>2. Forwarded' /\ StoredFirst'
    BY <1>1, <1>5, <2>1 DEF Forwarded, StoredFirst, FileOf
  <2> QED BY <1>4, <1>8, <2>2 DEF Contents, FileOf
<1>10. CASE ForwardFails
  <2>1. wpc' = "idle"
    BY <1>10 DEF ForwardFails
  <2> QED BY <1>4, <1>8, <2>1 DEF Contents, Forwarded, StoredFirst, FileOf
<1> QED BY <1>9, <1>10

LEMMA InsertContents ==
    ASSUME Types, Contents, InsertSong \/ InsertFails
    PROVE  Contents'
<1>1. /\ wpc = "insert" /\ wpc' = "idle" /\ UNCHANGED <<spools, disk, inbox, token, stored>>
      /\ told' \subseteq told \cup {fwd.key[2]}
      /\ Gathered /\ StoredFirst
  BY DEF InsertSong, InsertFails, Finish, Success, net, spool, Contents
<1>2. Gathered'
  BY <1>1, GatheredTokens
<1>3. \A g \in told' : FileOf(g) \in stored'
  BY <1>1 DEF Contents, StoredFirst
<1> QED BY <1>1, <1>2, <1>3 DEF Contents, Forwarded, StoredFirst, FileOf

LEMMA WholeStep == Types /\ Files /\ Order /\ Whole /\ [Next]_vars => Whole'
<1> SUFFICES ASSUME Types, Files, Order, Contents, [Next]_vars, Intact', "crash" \notin past
             PROVE  Contents'
  BY PastGrows DEF Whole, Intact
<1>1. CASE UNCHANGED vars
  <2>1. UNCHANGED <<spools, disk, inbox, token, wpc, fwd, stored, told>> /\ Gathered
    BY <1>1 DEF vars, spool, net, database, Contents
  <2> QED BY <2>1, GatheredTokens, StoresKept
<1>2. ASSUME NEW c \in Client, NEW g \in Song, Begin(c, g) \/ BeginWithoutCover(c, g)
      PROVE  Contents'
  BY <1>2, ClientContents DEF Begin, BeginWithoutCover, spool, database
<1>3. ASSUME NEW c \in Client, Dismiss(c) \/ Reconnect(c) \/ Disconnect(c) \/ LoseToken(c)
      PROVE  Contents'
  <2>1. UNCHANGED <<wpc, fwd, spools, disk, stored, told>>
    BY <1>3 DEF Dismiss, Reconnect, Disconnect, LoseToken, spool, database
  <2>2. CASE \E g \in Song : TRUE
    BY <1>3, <2>1, <2>2, ClientContents
  <2>3. CASE Song = {}
    BY <2>1, <2>3 DEF Contents, Gathered, Forwarded, StoredFirst, FileOf
  <2> QED BY <2>2, <2>3
<1>4. ASSUME NEW c \in Client, Reject(c)
      PROVE  Contents'
  BY <1>4, PoppedContents DEF Reject, net, spool, database
<1>5. ASSUME NEW c \in Client, RejectOnce(c)
      PROVE  FALSE
  BY <1>5 DEF RejectOnce, Intact
<1>6. ASSUME NEW c \in Client, UploadMetaType(c)
      PROVE  Contents'
  BY <1>6, MetaContents
<1>7. ASSUME NEW c \in Client, UploadMetaUnread(c)
      PROVE  Contents'
  BY <1>7, PoppedContents DEF UploadMetaUnread, Accepts, net, spool, database
<1>8. ASSUME NEW c \in Client, UploadMetaFails(c)
      PROVE  Contents'
  BY <1>8, PoppedContents DEF UploadMetaFails, Accepts, net, spool, database
<1>9. ASSUME NEW c \in Client, UploadFile(c) \/ UploadFileFails(c)
      PROVE  Contents'
  BY <1>9, ContentsOfSpooling DEF Files
<1>10. ASSUME NEW c \in Client, UploadFileLate(c)
       PROVE  Contents'
  BY <1>10, PoppedContents DEF UploadFileLate, Accepts, net, spool, database
<1>11. CASE ForwardOk \/ ForwardFails
  BY <1>11, ForwardContents
<1>12. CASE InsertSong \/ InsertFails
  BY <1>12, InsertContents
<1>13. CASE Crash
  BY <1>13 DEF Crash, Intact
<1>14. ASSUME NEW k \in Key, GrowStale(k)
       PROVE  Contents'
  <2>1. UNCHANGED <<spools, disk, inbox, token, wpc, fwd, stored, told>> /\ Gathered
    BY <1>14 DEF GrowStale, spool, net, database, Contents
  <2> QED BY <2>1, GatheredTokens, StoresKept
<1> QED BY <1>1, <1>2, <1>3, <1>4, <1>5, <1>6, <1>7, <1>8, <1>9, <1>10, <1>11, <1>12, <1>13, <1>14
         DEF Next, Worker, Failure

LEMMA WholeInvariant == Spec => []Whole
<1>1. Init => Whole
  BY DEF Init, Whole, Contents, Gathered, Forwarded, StoredFirst
<1> QED BY <1>1, WholeStep, TypesInvariant, FilesInvariant, OrderInvariant, PTL DEF Spec

\* Unless the server dies or Redis fails, every file that reaches FastDFS is all
\* the chunks of one song in their order, however uploads are broken off,
\* repeated, rejected, purged and lose chunks in failed writes.
THEOREM OnlyWholeFiles == Spec => []FileWhole
<1>1. Whole => FileWhole
  BY DEF Whole, Contents, FileWhole
<1> QED BY <1>1, WholeInvariant, PTL

\* Under the same condition a success is answered for a song only when its
\* file is in FastDFS.
THEOREM SuccessIsStored == Spec => []ToldIsStored
<1>1. Whole => ToldIsStored
  BY DEF Whole, Contents, ToldIsStored
<1> QED BY <1>1, WholeInvariant, PTL

-----------------------------------------------------------------------------
(* Every open dialog has something to wait for *)

LEMMA LastPopped ==
    ASSUME NEW s \in Seq(Message), s # <<>>
    PROVE  /\ Tail(s) # <<>> => Tail(s)[Len(Tail(s))] = s[Len(s)]
           /\ Tail(s) = <<>> => s[1] = s[Len(s)]
<1>1. /\ Tail(s) \in Seq(Message) /\ Len(Tail(s)) = Len(s) - 1 /\ Len(s) \in Nat \ {0}
      /\ \A i \in 1..(Len(s) - 1) : Tail(s)[i] = s[i + 1]
  BY Popping, Lengths
<1>2. CASE Tail(s) = <<>>
  <2>1. Len(Tail(s)) = 0
    BY <1>2, EmptySeq
  <2>2. Len(s) = 1
    <3>1. \A n \in Nat \ {0} : n - 1 = 0 => n = 1
      OBVIOUS
    <3> QED BY <1>1, <2>1, <3>1, Zenon
  <2> QED BY <1>2, <2>2
<1>3. CASE Tail(s) # <<>>
  <2>1. Len(Tail(s)) # 0
    BY <1>1, <1>3, Lengths
  <2>2. Len(s) - 1 \in 1..(Len(s) - 1) /\ (Len(s) - 1) + 1 = Len(s)
    BY <1>1, <2>1
  <2>3. Tail(s)[Len(s) - 1] = s[(Len(s) - 1) + 1]
    BY <1>1, <2>2
  <2> QED BY <1>1, <1>3, <2>2, <2>3
<1> QED BY <1>2, <1>3

Entire(s) == s # <<>> => s[Len(s)][2] \in {0, Chunks}

LEMMA CompleteMoved ==
    ASSUME ClientType, Complete, NEW c \in Client, NEW s \in Seq(Message),
           inbox' = [inbox EXCEPT ![c] = s], online'[c] => Entire(s),
           \A d \in Client \ {c} : online'[d] = online[d]
    PROVE  Complete'
<1>1. \A d \in Client : inbox'[d] = IF d = c THEN s ELSE inbox[d]
  BY DEF ClientType
<1>2. ASSUME NEW d \in Client, online'[d], inbox'[d] # <<>>
      PROVE  inbox'[d][Len(inbox'[d])][2] \in {0, Chunks}
  <2>1. CASE d = c
    BY <1>1, <1>2, <2>1 DEF Entire
  <2>2. CASE d # c
    BY <1>1, <1>2, <2>2 DEF Complete
  <2> QED BY <2>1, <2>2
<1> QED BY <1>2 DEF Complete

\* What a client that is online has left when its front is handled.
LEMMA CompletePopped ==
    ASSUME ClientType, Complete, NEW c \in Client, Ready(c), online[c]
    PROVE  /\ Entire(Tail(inbox[c])) /\ Tail(inbox[c]) \in Seq(Message)
           /\ Tail(inbox[c]) = <<>> => Seqno(c) \in {0, Chunks}
<1>1. inbox[c] \in Seq(Message) /\ inbox[c] # <<>>
  BY DEF Ready, ClientType, Message
<1>2. inbox[c][Len(inbox[c])][2] \in {0, Chunks}
  BY <1>1 DEF Complete
<1>3. inbox[c][1][2] = Seqno(c)
  BY <1>1, Popping DEF Seqno
<1>4. Tail(inbox[c]) \in Seq(Message)
  BY <1>1, Popping
<1> QED BY <1>1, <1>2, <1>3, <1>4, LastPopped DEF Entire

LEMMA PoppedComplete ==
    ASSUME ClientType, Complete, NEW c \in Client, Ready(c), PopInbox(c), UNCHANGED online
    PROVE  Complete'
<1>1. inbox' = [inbox EXCEPT ![c] = Tail(inbox[c])]
  BY DEF PopInbox
<1>2. Tail(inbox[c]) \in Seq(Message)
  BY Popping DEF Ready, ClientType, Message
<1>3. online'[c] => Entire(Tail(inbox[c]))
  BY CompletePopped
<1> QED BY <1>1, <1>2, <1>3, CompleteMoved

LEMMA MetaComplete ==
    ASSUME ClientType, Complete, NEW c \in Client, UploadMetaType(c)
    PROVE  /\ Complete'
           /\ online[c] => inbox'[c] # <<>>
<1>1. /\ Ready(c) /\ path[c] \in Song /\ inbox[c] # <<>> /\ UNCHANGED online
      /\ Tail(inbox[c]) \in Seq(Message)
  <2>1. Ready(c) /\ UNCHANGED online
    BY DEF UploadMetaType, Accepts, net
  <2> QED BY <2>1, FrontType, Popping DEF Ready, ClientType, Message
<1>2. /\ AllChunks(c) \in Seq(Message) /\ Len(AllChunks(c)) = Chunks /\ Chunks \in Nat \ {0}
      /\ \A i \in 1..Chunks : AllChunks(c)[i] = <<path[c], i>>
  BY <1>1, Sending, UploadAssumption
<1> DEFINE s == Tail(inbox[c]) \o AllChunks(c)
<1>3. s \in Seq(Message) /\ Len(s) = Len(Tail(inbox[c])) + Chunks /\ Len(Tail(inbox[c])) \in Nat
  BY <1>1, <1>2, ConcatProperties, Lengths
<1>4. s # <<>> /\ Len(s) \in 1..(Len(Tail(inbox[c])) + Len(AllChunks(c)))
  BY <1>2, <1>3, Lengths
<1>5. s[Len(s)] = <<path[c], Chunks>>
  <2>1. ~(Len(s) <= Len(Tail(inbox[c]))) /\ Len(s) - Len(Tail(inbox[c])) = Chunks /\ Chunks \in 1..Chunks
    BY <1>2, <1>3
  <2>2. s[Len(s)] = AllChunks(c)[Chunks]
    BY <1>1, <1>2, <1>4, <2>1, ConcatProperties
  <2> QED BY <1>2, <2>1, <2>2
<1> HIDE DEF s
<1>6. Entire(s)
  BY <1>5 DEF Entire
<1>7. CASE online[c]
  <2>1. inbox' = [inbox EXCEPT ![c] = s] /\ inbox'[c] = s
    BY <1>7 DEF UploadMetaType, ClientType, s
  <2> QED BY <1>1, <1>3, <1>4, <1>6, <2>1, CompleteMoved
<1>8. CASE ~online[c]
  <2>1. inbox' = [inbox EXCEPT ![c] = Tail(inbox[c])]
    BY <1>8 DEF UploadMetaType
  <2> QED BY <1>1, <1>8, <2>1, CompleteMoved
<1> QED BY <1>7, <1>8

LEMMA BeginComplete ==
    ASSUME ClientType, Complete, NEW c \in Client, NEW g \in Song, Begin(c, g)
    PROVE  /\ Complete'
           /\ inbox'[c] # <<>>
<1>1. inbox[c] \in Seq(Message) /\ Meta(g) \in Message /\ Meta(g)[2] = 0
  BY MetaMessage DEF ClientType, Message
<1> DEFINE s == Append(inbox[c], Meta(g))
<1>2. s \in Seq(Message) /\ s # <<>> /\ Len(s) = Len(inbox[c]) + 1 /\ s[Len(inbox[c]) + 1] = Meta(g)
  BY <1>1, Appending
<1>3. inbox' = [inbox EXCEPT ![c] = s] /\ inbox'[c] = s /\ UNCHANGED online
  BY DEF Begin, ClientType, net
<1>4. Entire(s)
  BY <1>1, <1>2 DEF Entire
<1> QED BY <1>2, <1>3, <1>4, CompleteMoved

LEMMA CompleteStep == Types /\ Complete /\ [Next]_vars => Complete'
<1> SUFFICES ASSUME Types, Complete, [Next]_vars PROVE Complete'
  OBVIOUS
<1>0. ClientType
  BY DEF Types
<1>1. CASE UNCHANGED <<inbox, online>>
  BY <1>1 DEF Complete
<1>2. ASSUME NEW c \in Client, NEW g \in Song, Begin(c, g)
      PROVE  Complete'
  BY <1>0, <1>2, BeginComplete
<1>3. ASSUME NEW c \in Client, Disconnect(c)
      PROVE  Complete'
  <2>1. PICK n \in 0..Len(inbox[c]) : inbox' = [inbox EXCEPT ![c] = SubSeq(inbox[c], 1, n)]
    BY <1>3 DEF Disconnect
  <2>2. SubSeq(inbox[c], 1, n) \in Seq(Message)
    BY <1>0, Cutting DEF ClientType, Message
  <2>3. online' = [online EXCEPT ![c] = FALSE]
    BY <1>3 DEF Disconnect
  <2>4. ~online'[c] /\ \A d \in Client \ {c} : online'[d] = online[d]
    BY <1>0, <2>3 DEF ClientType
  <2> QED BY <1>0, <2>1, <2>2, <2>4, CompleteMoved
<1>4. ASSUME NEW c \in Client, Reconnect(c)
      PROVE  Complete'
  <2>1. <<>> \in Seq(Message) /\ Entire(<<>>)
    BY EmptySeq DEF Entire
  <2>2. inbox' = [inbox EXCEPT ![c] = <<>>] /\ \A d \in Client \ {c} : online'[d] = online[d]
    BY <1>0, <1>4 DEF Reconnect, ClientType
  <2> QED BY <1>0, <2>1, <2>2, CompleteMoved
<1>5. ASSUME NEW c \in Client, \/ Reject(c) \/ RejectOnce(c) \/ UploadMetaFails(c) \/ UploadMetaUnread(c)
                               \/ UploadFile(c) \/ UploadFileFails(c) \/ UploadFileLate(c)
      PROVE  Complete'
  <2>1. Ready(c) /\ PopInbox(c) /\ UNCHANGED online
    BY <1>5 DEF Reject, RejectOnce, UploadMetaFails, UploadMetaUnread, UploadFile, UploadFileFails,
                UploadFileLate, Accepts, net
  <2> QED BY <1>0, <2>1, PoppedComplete
<1>6. ASSUME NEW c \in Client, UploadMetaType(c)
      PROVE  Complete'
  BY <1>0, <1>6, MetaComplete
<1>7. CASE Crash
  BY <1>7 DEF Crash, Complete
<1>8. ASSUME NEW c \in Client, NEW g \in Song, BeginWithoutCover(c, g)
      PROVE  UNCHANGED <<inbox, online>>
  BY <1>8 DEF BeginWithoutCover, net
<1>9. ASSUME NEW c \in Client, Dismiss(c) \/ LoseToken(c)
      PROVE  UNCHANGED <<inbox, online>>
  BY <1>9 DEF Dismiss, LoseToken, net
<1>10. CASE \/ UNCHANGED vars \/ ForwardOk \/ ForwardFails \/ InsertSong \/ InsertFails
            \/ \E k \in Key : GrowStale(k)
  BY <1>1, <1>10 DEF vars, net, ForwardOk, ForwardFails, InsertSong, InsertFails, Finish, GrowStale
<1> QED BY <1>1, <1>2, <1>3, <1>4, <1>5, <1>6, <1>7, <1>8, <1>9, <1>10
         DEF Next, Worker, Failure

\* What a client with an open dialog waits for.
Busy(c) == inbox[c] # <<>> \/ (wpc # "idle" /\ fwd.key[1] = c)
Attended(c) == dialog[c] /\ online[c] /\ token[c] => Busy(c)

LEMMA DialogHasUploadIs ==
    /\ DialogHasUpload <=> (past \cap {"redis", "no cover"} = {} => \A c \in Client : Attended(c))
    /\ DialogHasUpload' <=> (past' \cap {"redis", "no cover"} = {} => \A c \in Client : Attended(c)')
BY DEF DialogHasUpload, Attended, Busy

\* For the other clients the worker, when idle, takes nothing away.
LEMMA OthersAttended ==
    ASSUME ClientType, NEW c \in Client, Ready(c), \A d \in Client \ {c} : inbox'[d] = inbox[d],
           UNCHANGED net, NEW open, dialog' = dialog \/ Answer(c, open),
           \A d \in Client : Attended(d)
    PROVE  \A d \in Client \ {c} : Attended(d)'
<1>1. \A d \in Client \ {c} : dialog'[d] = dialog[d]
  BY DEF Answer, ClientType
<1>2. \A d \in Client \ {c} : Attended(d) => (dialog[d] /\ online[d] /\ token[d] => inbox[d] # <<>>)
  BY DEF Ready, Attended, Busy
<1>3. online' = online /\ token' = token
  BY DEF net
<1> QED BY <1>1, <1>2, <1>3 DEF Attended, Busy

LEMMA AnswerCloses ==
    ASSUME ClientType, NEW c \in Client, Result(c), UNCHANGED net
    PROVE  Attended(c)'
<1>1. online'[c] => ~dialog'[c]
  BY DEF Result, Answer, ClientType, net
<1> QED BY <1>1 DEF Attended

LEMMA HandlersAttend ==
    ASSUME Types, Complete, \A d \in Client : Attended(d),
           NEW c \in Client, \/ Reject(c) \/ UploadMetaFails(c) \/ UploadMetaUnread(c) \/ UploadMetaType(c)
                             \/ UploadFile(c) \/ UploadFileFails(c) \/ UploadFileLate(c)
    PROVE  \A d \in Client : Attended(d)'
<1>0. ClientType /\ SpoolType
  BY DEF Types
<1>1. Ready(c) /\ UNCHANGED net
  BY DEF Reject, UploadMetaFails, UploadMetaUnread, UploadMetaType, UploadFile, UploadFileFails,
         UploadFileLate, Accepts
<1>2. \A d \in Client \ {c} : inbox'[d] = inbox[d]
  BY <1>0 DEF Reject, UploadMetaFails, UploadMetaUnread, UploadMetaType, UploadFile, UploadFileFails,
         UploadFileLate, PopInbox, ClientType
<1>3. dialog' = dialog \/ Answer(c, TRUE) \/ Answer(c, FALSE)
  BY DEF Reject, UploadMetaFails, UploadMetaUnread, UploadMetaType, UploadFile, UploadFileFails,
         UploadFileLate, Progress, Result, ui
<1>4. \A d \in Client \ {c} : Attended(d)'
  BY <1>0, <1>1, <1>2, <1>3, OthersAttended
<1>5. Attended(c)'
  <2>1. CASE Reject(c)
    BY <1>1, <2>1 DEF Reject, Attended, net
  <2>2. CASE UploadMetaFails(c) \/ UploadMetaUnread(c) \/ UploadFileFails(c) \/ UploadFileLate(c)
    <3>1. Result(c)
      BY <2>2 DEF UploadMetaFails, UploadMetaUnread, UploadFileFails, UploadFileLate
    <3> QED BY <1>0, <1>1, <3>1, AnswerCloses
  <2>3. CASE UploadMetaType(c)
    <3>1. online[c] => inbox'[c] # <<>>
      BY <1>0, <2>3, MetaComplete
    <3> QED BY <1>1, <3>1 DEF Attended, Busy, net
  <2>4. CASE UploadFile(c)
    <3>1. CASE Seqno(c) = Chunks
      <4>1. wpc' = "forward" /\ fwd'.key[1] = c
        BY <1>0, <2>4, <3>1, Spooling DEF KeyOf
      <4> QED BY <4>1 DEF Attended, Busy
    <3>2. CASE Seqno(c) # Chunks
      <4>1. Seqno(c) # 0
        BY <2>4 DEF UploadFile
      <4>2. online[c] => Tail(inbox[c]) # <<>>
        BY <1>0, <1>1, <3>2, <4>1, CompletePopped
      <4>3. inbox'[c] = Tail(inbox[c])
        BY <1>0, <2>4 DEF UploadFile, PopInbox, ClientType
      <4> QED BY <1>1, <4>2, <4>3 DEF Attended, Busy, net
    <3> QED BY <3>1, <3>2
  <2> QED BY <2>1, <2>2, <2>3, <2>4
<1> QED BY <1>4, <1>5

LEMMA ClientsAttend ==
    ASSUME Types, Complete, \A d \in Client : Attended(d), NEW c \in Client,
           Dismiss(c) \/ Disconnect(c) \/ Reconnect(c) \/ LoseToken(c) \/ \E g \in Song : Begin(c, g)
    PROVE  \A d \in Client : Attended(d)'
<1>0. ClientType
  BY DEF Types
<1>1. UNCHANGED <<wpc, fwd>>
  BY DEF Dismiss, Disconnect, Reconnect, LoseToken, Begin
<1>2. \A d \in Client \ {c} : /\ inbox'[d] = inbox[d] /\ online'[d] = online[d]
                              /\ token'[d] = token[d] /\ dialog'[d] = dialog[d]
  BY <1>0 DEF Dismiss, Disconnect, Reconnect, LoseToken, Begin, ClientType, net, ui
<1>3. \A d \in Client \ {c} : Attended(d)'
  BY <1>1, <1>2 DEF Attended, Busy
<1>4. Attended(c)'
  <2>1. CASE Dismiss(c) \/ Reconnect(c)
    BY <1>0, <2>1 DEF Dismiss, Reconnect, ClientType, Attended
  <2>2. CASE Disconnect(c) \/ LoseToken(c)
    BY <1>0, <2>2 DEF Disconnect, LoseToken, ClientType, Attended
  <2>3. CASE \E g \in Song : Begin(c, g)
    BY <1>0, <2>3, BeginComplete DEF Attended, Busy
  <2> QED BY <2>1, <2>2, <2>3
<1> QED BY <1>3, <1>4

\* The answer after the RPC and the insertion closes the dialog it is for.
LEMMA RpcAttends ==
    ASSUME Types, \A d \in Client : Attended(d),
           ForwardOk \/ ForwardFails \/ InsertSong \/ InsertFails
    PROVE  \A d \in Client : Attended(d)'
<1>0. ClientType /\ wpc # "idle" /\ fwd \in Forwarding
  BY DEF Types, WorkerType, ForwardOk, ForwardFails, InsertSong, InsertFails
<1>1. UNCHANGED <<inbox, net>>
  BY DEF ForwardOk, ForwardFails, InsertSong, InsertFails, Finish
<1>2. CASE ForwardOk
  BY <1>0, <1>1, <1>2 DEF ForwardOk, Attended, Busy, ui, net
<1>3. CASE ForwardFails \/ InsertSong \/ InsertFails
  <2>1. Result(fwd.key[1])
    BY <1>3 DEF ForwardFails, InsertSong, InsertFails, Finish
  <2>2. PICK c \in Client : c = fwd.key[1]
    BY <1>0 DEF Forwarding, Key
  <2>3. Attended(c)'
    BY <1>0, <1>1, <2>1, <2>2, AnswerCloses
  <2>4. \A d \in Client \ {c} : dialog'[d] = dialog[d]
    BY <1>0, <2>1, <2>2 DEF Result, Answer, ClientType
  <2>5. \A d \in Client \ {c} : Attended(d)'
    BY <1>1, <2>2, <2>4 DEF Attended, Busy, net
  <2> QED BY <2>3, <2>5
<1> QED BY <1>2, <1>3

LEMMA AttendedStep == Types /\ Complete /\ DialogHasUpload /\ [Next]_vars => DialogHasUpload'
<1> SUFFICES ASSUME Types, Complete, [Next]_vars, past' \cap {"redis", "no cover"} = {},
                    \A d \in Client : Attended(d)
             PROVE  \A d \in Client : Attended(d)'
  BY PastGrows, DialogHasUploadIs
<1>1. CASE UNCHANGED vars
  BY <1>1 DEF vars, net, ui, Attended, Busy
<1>2. ASSUME NEW c \in Client, NEW g \in Song, BeginWithoutCover(c, g)
      PROVE  FALSE
  BY <1>2 DEF BeginWithoutCover
<1>3. ASSUME NEW c \in Client, RejectOnce(c)
      PROVE  FALSE
  BY <1>3 DEF RejectOnce
<1>4. CASE Crash
  BY <1>4 DEF Crash, Attended
<1>5. ASSUME NEW k \in Key, GrowStale(k)
      PROVE  \A d \in Client : Attended(d)'
  BY <1>5 DEF GrowStale, net, ui, Attended, Busy
<1> QED BY <1>1, <1>2, <1>3, <1>4, <1>5, ClientsAttend, HandlersAttend, RpcAttends
         DEF Next, Worker, Failure

LEMMA CompleteInvariant == Spec => []Complete
<1>1. Init => Complete
  BY DEF Init, Complete
<1> QED BY <1>1, CompleteStep, TypesInvariant, PTL DEF Spec

\* While the progress dialog of a client is open there is a message of it to be
\* handled or its file is being forwarded, so an answer to come closes it;
\* unless its connection or token is lost, or Redis has failed or a song has no
\* cover.  That is the safety part of UploadEnds.
THEOREM DialogAttended == Spec => []DialogHasUpload
<1>1. Init => DialogHasUpload
  BY DEF Init, DialogHasUpload
<1> QED BY <1>1, AttendedStep, TypesInvariant, CompleteInvariant, PTL DEF Spec
====
