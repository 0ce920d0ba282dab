------------------------------ MODULE Framing ------------------------------
(***************************************************************************)
(* How messages are cut out of the two byte streams between a client and   *)
(* its Session.  A message is a head, its id and its length, and a body.   *)
(* Session reads exactly what it waits for, head and body in turn.  The    *)
(* client's TcpManager appends what has come to _buffer and cuts messages  *)
(* off its front, with a QDataStream made once per readyRead; it outlives  *)
(* the connections, and its buffer with it.                                *)
(*                                                                         *)
(* A cell <<i, k>> stands for the (k + 1)th part of message i: 0 is the id *)
(* and 1 the length, two bytes each, and the others are the body.  Cells   *)
(* come one by one: a read of n bytes is n reads of one.                   *)
(***************************************************************************)
EXTENDS Naturals, Sequences

CONSTANTS Request,      \* the lengths of the messages to the server, in order
          Answer,       \* the lengths of the messages to the client, in order
          Width,        \* 2^16: what the length in a head is taken modulo
          Junk,         \* a length read from something that is no length
          MaxConnects   \* bound of the model: connections after the first

HEAD_TOTAL_LEN == 2

\* SendNode takes the length as a short, so an answer has less than 2^15 bytes.
ASSUME FramingAssumption ==
    /\ Request \in Seq(Nat) /\ Answer \in Seq(Nat)
    /\ Width \in Nat /\ Junk \in Nat /\ MaxConnects \in Nat
    /\ \A i \in DOMAIN Request : Request[i] < Width
    /\ \A i \in DOMAIN Answer : 2 * Answer[i] < Width

VARIABLES
    conn,       \* the connection: up, lost or closed (by closeConnection)
    connects,
    \* to the server
    requests,   \* messages the client has written
    up,         \* the next cell for the server
    entry,      \* the session in Server::_sessions: not yet, there, cleared
    reading,    \* what the session waits for: head, body, none
    data,       \* _data, as far as it is filled
    node,       \* id and length of the message that is being read
    read,       \* the messages passed to PustMsg
    \* to the client
    answers,    \* messages the server has written
    down,       \* the next cell for the client
    inbox,      \* the bytes on the socket
    gui,        \* waiting for readyRead, at a head, or at a body
    buffer, pending, head,      \* _buffer, _b_recv_pending, _message_id and _message_len
    offset,     \* where the stream reads next
    handled,    \* the messages passed to handleMsg
    second,     \* has a readyRead found a second head
    stale       \* did a connection begin with something in the buffer

server == <<entry, reading, data, node, read, up>>
client == <<gui, inbox, buffer, pending, head, offset, handled, second, down>>
link == <<connects, stale>>
vars == <<conn, link, requests, answers, server, client>>

First == <<1, 0>>
None == [id |-> 0, len |-> 0]

Init ==
    /\ conn = "up" /\ connects = MaxConnects
    /\ requests = 0 /\ up = First
    /\ entry = "not yet" /\ reading = "head" /\ data = <<>> /\ node = None /\ read = <<>>
    /\ answers = 0 /\ down = First
    /\ gui = "waiting" /\ inbox = <<>> /\ buffer = <<>> /\ pending = FALSE /\ head = None /\ offset = 0
    /\ handled = <<>> /\ second = FALSE /\ stale = FALSE
-----------------------------------------------------------------------------
(* The bytes *)

\* The cell after a cell in the stream of messages of these lengths.
After(cell, length) ==
    IF cell[2] + 1 < HEAD_TOTAL_LEN + length[cell[1]] THEN <<cell[1], cell[2] + 1>>
                                                      ELSE <<cell[1] + 1, 0>>

\* A head made of two cells, which may be anything.
Parse(id, len, length) ==
    [id |-> IF id[2] = 0 THEN id[1] ELSE 0,
     len |-> IF len[2] = 1 THEN length[len[1]] % Width ELSE Junk]

Body(i, length) == [k \in 1..length[i] |-> <<i, HEAD_TOTAL_LEN + k - 1>>]
Whole(i, length) == [id |-> i, body |-> Body(i, length)]
-----------------------------------------------------------------------------
(* To the server *)

\* slot_send_data
SendRequest ==
    /\ conn = "up" /\ requests < Len(Request)
    /\ requests' = requests + 1
    /\ UNCHANGED <<conn, link, answers, server, client>>

\* HandleAccept starts the reading before it puts the session into the map.
Insert ==
    /\ entry = "not yet"
    /\ entry' = "there"
    /\ UNCHANGED <<conn, link, requests, answers, reading, data, node, read, up, client>>

\* The session is kicked, or its heartbeat is overdue.
ClearSession ==
    /\ entry = "there"
    /\ entry' = "cleared"
    /\ UNCHANGED <<conn, link, requests, answers, reading, data, node, read, up, client>>

Total == IF reading = "head" THEN HEAD_TOTAL_LEN ELSE node.len

\* AsyncReadLen: never more than what is missing.
AsyncReadLen ==
    /\ conn = "up" /\ reading # "none"
    /\ Len(data) < Total /\ up[1] <= requests
    /\ data' = Append(data, up)
    /\ up' = After(up, Request)
    /\ UNCHANGED <<conn, link, requests, answers, entry, reading, node, read, client>>

\* A session that is not in the map is closed.
Closing ==
    /\ entry # "there"
    /\ reading' = "none"
    /\ UNCHANGED <<data, node, read>>

\* Mutant: the data of the head is still there when the body is read.
AsyncReadHeadDirty ==
    /\ reading = "head" /\ Len(data) >= Total
    /\ \/ Closing
       \/ /\ entry = "there"
          /\ node' = Parse(data[1], data[2], Request)
          /\ reading' = "body"
          /\ UNCHANGED <<data, read>>
    /\ UNCHANGED <<conn, link, requests, answers, entry, up, client>>

AsyncReadHead ==
    /\ reading = "head" /\ Len(data) >= Total
    /\ \/ Closing
       \/ /\ entry = "there"
          /\ node' = Parse(data[1], data[2], Request)
          /\ reading' = "body"
          /\ data' = <<>>
          /\ UNCHANGED read
    /\ UNCHANGED <<conn, link, requests, answers, entry, up, client>>

\* Mutant: an empty body is waited for.
AsyncReadBodyNotEmpty ==
    /\ reading = "body" /\ Len(data) >= Total /\ data # <<>>
    /\ \/ Closing
       \/ /\ entry = "there"
          /\ read' = Append(read, [id |-> node.id, body |-> data])
          /\ reading' = "head"
          /\ data' = <<>>
          /\ UNCHANGED node
    /\ UNCHANGED <<conn, link, requests, answers, entry, up, client>>

AsyncReadBody ==
    /\ reading = "body" /\ Len(data) >= Total
    /\ \/ Closing
       \/ /\ entry = "there"
          /\ read' = Append(read, [id |-> node.id, body |-> data])
          /\ reading' = "head"
          /\ data' = <<>>
          /\ UNCHANGED node
    /\ UNCHANGED <<conn, link, requests, answers, entry, up, client>>
-----------------------------------------------------------------------------
(* To the client *)

\* Session::Send
SendAnswer ==
    /\ conn = "up" /\ reading # "none" /\ answers < Len(Answer)
    /\ answers' = answers + 1
    /\ UNCHANGED <<conn, link, requests, server, client>>

Arrive ==
    /\ conn = "up" /\ down[1] <= answers
    /\ inbox' = Append(inbox, down)
    /\ down' = After(down, Answer)
    /\ UNCHANGED <<conn, link, requests, answers, server, gui, buffer, pending, head,
                   offset, handled, second>>

\* readyRead: all there is, and a stream on the buffer.
ReadyRead ==
    /\ gui = "waiting" /\ inbox # <<>> /\ conn # "closed"
    /\ buffer' = buffer \o inbox
    /\ inbox' = <<>>
    /\ offset' = 0
    /\ gui' = IF pending THEN "body" ELSE "head"
    /\ UNCHANGED <<conn, link, requests, answers, server, pending, head, handled, second, down>>

\* What the stream reads, zero behind the end; the head's bytes are then taken
\* from the front of the buffer, of which the stream knows nothing.
ReadHead ==
    /\ gui = "head"
    /\ IF Len(buffer) < HEAD_TOTAL_LEN
         THEN /\ gui' = "waiting"
              /\ UNCHANGED <<buffer, head, offset, second>>
         ELSE /\ head' = IF offset + 2 <= Len(buffer) THEN Parse(buffer[offset + 1], buffer[offset + 2], Answer)
                                                      ELSE None
              /\ second' = (second \/ offset > 0)
              /\ offset' = offset + HEAD_TOTAL_LEN
              /\ buffer' = SubSeq(buffer, HEAD_TOTAL_LEN + 1, Len(buffer))
              /\ gui' = "body"
    /\ UNCHANGED <<conn, link, requests, answers, server, inbox, pending, handled, down>>

\* Mutant: a body that has not come whole is forgotten.
ReadBodyForget ==
    /\ gui = "body"
    /\ IF Len(buffer) < head.len
         THEN /\ gui' = "waiting"
              /\ UNCHANGED <<conn, buffer, pending, handled>>
         ELSE /\ pending' = FALSE
              /\ buffer' = SubSeq(buffer, head.len + 1, Len(buffer))
              /\ handled' = Append(handled, [id |-> head.id, body |-> SubSeq(buffer, 1, head.len)])
              /\ gui' = "head"
              /\ conn' \in {conn, "closed"}
    /\ UNCHANGED <<link, requests, answers, server, inbox, head, offset, second, down>>

\* After some messages (a failed login, the news of another login) the client
\* closes the connection, within handleMsg.
ReadBody ==
    /\ gui = "body"
    /\ IF Len(buffer) < head.len
         THEN /\ pending' = TRUE
              /\ gui' = "waiting"
              /\ UNCHANGED <<conn, buffer, handled>>
         ELSE /\ pending' = FALSE
              /\ buffer' = SubSeq(buffer, head.len + 1, Len(buffer))
              /\ handled' = Append(handled, [id |-> head.id, body |-> SubSeq(buffer, 1, head.len)])
              /\ gui' = "head"
              /\ conn' \in {conn, "closed"}
    /\ UNCHANGED <<link, requests, answers, server, inbox, head, offset, second, down>>
-----------------------------------------------------------------------------
(* The connection *)

\* It breaks, or the server ends it.
Lose ==
    /\ conn = "up"
    /\ conn' = "lost"
    /\ UNCHANGED <<link, requests, answers, server, client>>

\* slot_tcp_connect, and a new session; of the client's state only what is on
\* the socket is new.
Connect ==
    /\ conn # "up" /\ gui = "waiting" /\ connects > 0
    /\ conn' = "up" /\ connects' = connects - 1
    /\ requests' = 0 /\ up' = First
    /\ entry' = "not yet" /\ reading' = "head" /\ data' = <<>> /\ node' = None /\ read' = <<>>
    /\ answers' = 0 /\ down' = First /\ inbox' = <<>>
    /\ handled' = <<>> /\ second' = FALSE
    /\ stale' = (buffer # <<>> \/ pending)
    /\ UNCHANGED <<gui, buffer, pending, head, offset>>

Session == AsyncReadLen \/ AsyncReadHead \/ AsyncReadBody
TcpManager == ReadyRead \/ ReadHead \/ ReadBody

Next ==
    \/ SendRequest \/ Insert \/ ClearSession \/ Session
    \/ SendAnswer \/ Arrive \/ TcpManager
    \/ Lose \/ Connect

Spec == Init /\ [][Next]_vars

\* Bytes arrive as long as there is a connection, and both programs read on.
FairSpec ==
    /\ Spec
    /\ WF_vars(Session) /\ WF_vars(Insert)
    /\ WF_vars(Arrive) /\ WF_vars(TcpManager)
-----------------------------------------------------------------------------
Cell == Nat \X Nat
Message == [id : Nat, body : Seq(Cell)]
Node == [id : Nat, len : Nat]

TypeOK ==
    /\ conn \in {"up", "lost", "closed"} /\ connects \in 0..MaxConnects
    /\ requests \in 0..Len(Request) /\ up \in Cell
    /\ entry \in {"not yet", "there", "cleared"} /\ reading \in {"head", "body", "none"}
    /\ data \in Seq(Cell) /\ node \in Node /\ read \in Seq(Message)
    /\ answers \in 0..Len(Answer) /\ down \in Cell /\ inbox \in Seq(Cell)
    /\ gui \in {"waiting", "head", "body"}
    /\ buffer \in Seq(Cell) /\ pending \in BOOLEAN /\ head \in Node /\ offset \in Nat
    /\ handled \in Seq(Message) /\ second \in BOOLEAN /\ stale \in BOOLEAN

\* The server gets the messages of the client as they were sent, in their order,
\* wherever the stream is cut and even if bodies are empty.
ServerReadsSent ==
    /\ Len(read) <= requests
    /\ \A i \in 1..Len(read) : read[i] = Whole(i, Request)

\* So does the client, if no readyRead meets a second head (its stream would
\* read it behind its place) and its buffer was empty when it connected.
ClientReadsSent == ~second /\ ~stale =>
    /\ Len(handled) <= answers
    /\ \A i \in 1..Len(handled) : handled[i] = Whole(i, Answer)

\* And neither stops: what was sent is read in the end, unless the connection
\* goes or the session is closed.
AllRead ==
    /\ \A i \in DOMAIN Request : requests >= i ~>
            (Len(read) >= i \/ conn # "up" \/ reading = "none")
    /\ \A i \in DOMAIN Answer : answers >= i ~>
            (Len(handled) >= i \/ conn # "up" \/ second \/ stale)
=============================================================================
