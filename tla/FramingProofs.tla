--------------------------- MODULE FramingProofs ---------------------------
(***************************************************************************)
(* Proof that both sides cut their stream into the messages that were      *)
(* sent, for any number of messages and any lengths that a head carries.   *)
(* What makes it inductive is the place of the stream.  At the server the  *)
(* cells in _data are those before it, since the head or the body began;   *)
(* at the client the cells ahead, in the buffer and in the socket, follow  *)
(* each other as they were sent, from the head or body that is awaited.    *)
(***************************************************************************)
EXTENDS Framing, SequenceTheorems, TLAPS

\* The message that is being read.
Current == Len(read) + 1

\* The cells that come first in its head, or in its body.
Cells(from) == [k \in 1..Len(data) |-> <<Current, from + k - 1>>]

\* The place of the stream when k cells of message i have been read.
Place(i, k) == IF k < HEAD_TOTAL_LEN + Request[i] THEN <<i, k>> ELSE <<i + 1, 0>>

ServerType ==
    /\ requests \in 0..Len(Request)
    /\ reading \in {"head", "body", "none"}
    /\ data \in Seq(Cell) /\ read \in Seq(Message)

InHead == reading = "head" =>
    /\ Len(data) <= HEAD_TOTAL_LEN
    /\ data = Cells(0)
    /\ data = <<>> => up = <<Current, 0>>
    /\ data # <<>> => Current <= requests /\ up = Place(Current, Len(data))

InBody == reading = "body" =>
    /\ Current <= requests
    /\ node = [id |-> Current, len |-> Request[Current]]
    /\ Len(data) <= node.len
    /\ data = Cells(HEAD_TOTAL_LEN)
    /\ up = Place(Current, HEAD_TOTAL_LEN + Len(data))

Inv == ServerType /\ InHead /\ InBody /\ ServerReadsSent

LEMMA InitInv == Init => Inv
<1> SUFFICES ASSUME Init PROVE Inv
  OBVIOUS
<1>1. requests = 0 /\ up = <<1, 0>> /\ reading = "head" /\ data = <<>> /\ read = <<>>
  BY DEF Init, First
<1>2. Len(read) = 0 /\ Len(data) = 0 /\ Len(Request) \in Nat
  BY <1>1, FramingAssumption
<1>3. ServerType
  BY <1>1, <1>2 DEF ServerType
<1>4. InHead /\ InBody
  BY <1>1, <1>2 DEF InHead, InBody, Cells, Current, HEAD_TOTAL_LEN
<1>5. ServerReadsSent
  BY <1>1, <1>2 DEF ServerReadsSent
<1> QED BY <1>3, <1>4, <1>5 DEF Inv

\* Lengths of requests are numbers, which the head carries.
LEMMA Lengths ==
    ASSUME NEW i \in 1..Len(Request)
    PROVE  Request[i] \in Nat /\ Request[i] % Width = Request[i]
<1>1. Request[i] \in Nat /\ Width \in Nat /\ Request[i] < Width
  BY FramingAssumption
<1> QED BY <1>1

\* Another cell, in its place.
LEMMA ReadCell == Inv /\ AsyncReadLen => Inv'
<1> SUFFICES ASSUME Inv, AsyncReadLen PROVE Inv'
  OBVIOUS
<1> USE DEF HEAD_TOTAL_LEN
<1>1. /\ ServerType /\ Len(data) < Total /\ up[1] <= requests
      /\ data' = Append(data, up) /\ up' = After(up, Request)
      /\ requests' = requests /\ reading' = reading /\ node' = node /\ read' = read
      /\ reading # "none"
  BY DEF Inv, AsyncReadLen
<1>2. Len(data) \in Nat /\ Current \in Nat \ {0} /\ requests \in Nat /\ Current' = Current
  BY <1>1 DEF ServerType, Current
<1>3. Current <= requests
  <2>1. CASE reading = "head" /\ data = <<>>
    BY <1>1, <1>2, <2>1 DEF Inv, InHead
  <2>2. CASE reading = "head" /\ data # <<>>
    BY <2>2 DEF Inv, InHead
  <2>3. CASE reading = "body"
    BY <2>3 DEF Inv, InBody
  <2> QED BY <1>1, <2>1, <2>2, <2>3 DEF ServerType
<1>4. Current \in 1..Len(Request) /\ Request[Current] \in Nat
  BY <1>1, <1>2, <1>3, Lengths, FramingAssumption DEF ServerType
<1> DEFINE from == IF reading = "head" THEN 0 ELSE HEAD_TOTAL_LEN
<1>5. /\ from \in Nat
      /\ up = <<Current, from + Len(data)>> /\ from + Len(data) < HEAD_TOTAL_LEN + Request[Current]
      /\ data = Cells(from)
  <2>1. CASE reading = "head" /\ data = <<>>
    BY <1>1, <1>2, <1>4, <2>1 DEF Inv, InHead
  <2>2. CASE reading = "head" /\ data # <<>>
    BY <1>1, <1>2, <1>4, <2>2 DEF Inv, InHead, Total, Place
  <2>3. CASE reading = "body"
    BY <1>1, <1>2, <1>4, <2>3 DEF Inv, InBody, Total, Place
  <2> QED BY <1>1, <2>1, <2>2, <2>3 DEF ServerType
<1> HIDE DEF from
<1>6. /\ up \in Cell /\ data' \in Seq(Cell) /\ Len(data') = Len(data) + 1
      /\ \A k \in 1..Len(data) : data'[k] = data[k]
      /\ data'[Len(data) + 1] = up
  <2>1. up \in Cell
    BY <1>2, <1>5 DEF Cell
  <2> QED BY <1>1, <2>1, AppendProperties DEF ServerType
<1>7. data' = [k \in 1..Len(data') |-> <<Current, from + k - 1>>]
  <2>1. \A k \in 1..Len(data) : data[k] = <<Current, from + k - 1>>
    BY <1>5 DEF Cells
  <2>2. \A k \in 1..Len(data') : data'[k] = <<Current, from + k - 1>>
    <3>1. ASSUME NEW k \in 1..Len(data') PROVE k \in 1..Len(data) \/ k = Len(data) + 1
      BY <1>2, <1>6
    <3>2. data'[Len(data) + 1] = <<Current, from + (Len(data) + 1) - 1>>
      BY <1>2, <1>5, <1>6
    <3> QED BY <1>6, <2>1, <3>1, <3>2
  <2>3. data' = [k \in 1..Len(data') |-> data'[k]]
    BY <1>6
  <2> QED BY <2>2, <2>3
<1>8. up' = Place(Current, from + Len(data'))
  BY SMTT(30), <1>1, <1>2, <1>4, <1>5, <1>6 DEF After, Place
<1>9. InHead'
  <2>1. ASSUME reading = "head" PROVE from = 0
    BY <2>1 DEF from
  <2>2. data' # <<>>
    BY <1>2, <1>6
  <2>3. reading = "head" => Len(data') <= 2
    BY <1>1, <1>2, <1>6 DEF Total
  <2>4. reading = "head" => data' = Cells(0)' /\ up' = Place(Current, Len(data'))
    BY <1>2, <1>6, <1>7, <1>8, <2>1 DEF Cells
  <2> QED BY <1>1, <1>2, <1>3, <2>2, <2>3, <2>4 DEF InHead, Place
<1>10. InBody'
  <2>1. ASSUME reading = "body" PROVE from = 2
    BY <2>1 DEF from
  <2>2. reading = "body" => data' = Cells(2)' /\ up' = Place(Current, 2 + Len(data'))
    BY <1>2, <1>6, <1>7, <1>8, <2>1 DEF Cells
  <2>3. reading = "body" => Len(data') <= node.len /\ node = [id |-> Current, len |-> Request[Current]]
    BY <1>1, <1>2, <1>4, <1>6 DEF Total, Inv, InBody
  <2> QED BY <1>1, <1>2, <1>3, <2>2, <2>3 DEF InBody, Place
<1>11. ServerType' /\ ServerReadsSent'
  BY <1>1, <1>6 DEF Inv, ServerType, ServerReadsSent, Whole, Body
<1> QED BY <1>9, <1>10, <1>11 DEF Inv

\* The head is that of the message, or the session is closed.
LEMMA ReadHeadInv == Inv /\ AsyncReadHead => Inv'
<1> SUFFICES ASSUME Inv, AsyncReadHead PROVE Inv'
  OBVIOUS
<1> USE DEF HEAD_TOTAL_LEN
<1>1. /\ ServerType /\ reading = "head" /\ Len(data) >= 2
      /\ requests' = requests /\ up' = up
  BY DEF Inv, AsyncReadHead, Total
<1>2. Len(data) = 2 /\ data = Cells(0) /\ Current <= requests /\ up = Place(Current, 2)
  <2>1. Len(data) \in Nat /\ data # <<>>
    BY <1>1 DEF ServerType
  <2>2. Len(data) <= 2 /\ data = Cells(0) /\ Current <= requests /\ up = Place(Current, Len(data))
    BY <1>1, <2>1 DEF Inv, InHead
  <2>3. Len(data) = 2
    <3>1. Len(data) <= 2
      BY <2>2
    <3>2. Len(data) >= 2
      BY <1>1
    <3>3. Len(data) \in Nat
      BY <2>1
    <3>4. \A n \in Nat : n >= 2 /\ n <= 2 => n = 2
      OBVIOUS
    <3> QED BY <3>1, <3>2, <3>3, <3>4
  <2> QED BY <2>2, <2>3
<1>3. CASE Closing
  BY <1>1, <1>3 DEF Closing, Inv, ServerType, InHead, InBody, ServerReadsSent
<1>4. CASE /\ node' = Parse(data[1], data[2], Request)
           /\ reading' = "body" /\ data' = <<>> /\ read' = read
  <2>1. Current \in 1..Len(Request) /\ Current' = Current
    BY <1>1, <1>2, <1>4, FramingAssumption DEF ServerType, Current
  <2>2. data[1] = <<Current, 0>> /\ data[2] = <<Current, 1>>
    BY <1>2 DEF Cells
  <2>3. node' = [id |-> Current, len |-> Request[Current]]
    BY <1>4, <2>1, <2>2, Lengths DEF Parse
  <2>4. InBody'
    BY <1>1, <1>2, <1>4, <2>1, <2>3, Lengths DEF InBody, Cells, Place
  <2>5. ServerType' /\ InHead' /\ ServerReadsSent'
    BY <1>1, <1>4 DEF Inv, ServerType, InHead, ServerReadsSent
  <2> QED BY <2>4, <2>5 DEF Inv
<1> QED BY <1>3, <1>4 DEF AsyncReadHead

\* The body is whole, and the next head begins where it ended.
LEMMA ReadBodyInv == Inv /\ AsyncReadBody => Inv'
<1> SUFFICES ASSUME Inv, AsyncReadBody PROVE Inv'
  OBVIOUS
<1> USE DEF HEAD_TOTAL_LEN
<1>1. /\ ServerType /\ reading = "body" /\ Len(data) >= node.len
      /\ requests' = requests /\ up' = up
  BY DEF Inv, AsyncReadBody, Total
<1>2. Current \in 1..Len(Request) /\ Current <= requests /\ Request[Current] \in Nat
  BY <1>1, Lengths, FramingAssumption DEF Inv, InBody, ServerType, Current
<1>3. /\ node = [id |-> Current, len |-> Request[Current]] /\ Len(data) = Request[Current]
      /\ data = Cells(2) /\ up = <<Current + 1, 0>>
  BY <1>1, <1>2 DEF Inv, InBody, ServerType, Place
<1>4. CASE Closing
  BY <1>1, <1>4 DEF Closing, Inv, ServerType, InHead, InBody, ServerReadsSent
<1>5. CASE /\ read' = Append(read, [id |-> node.id, body |-> data])
           /\ reading' = "head" /\ data' = <<>> /\ node' = node
  <2>1. [id |-> node.id, body |-> data] = Whole(Current, Request)
    BY <1>3 DEF Whole, Body, Cells
  <2>2. [id |-> node.id, body |-> data] \in Message
    BY <1>1, <1>2, <1>3 DEF Message, ServerType
  <2>3. /\ read' \in Seq(Message) /\ Len(read') = Current
        /\ \A i \in 1..Len(read) : read'[i] = read[i]
        /\ read'[Current] = [id |-> node.id, body |-> data]
    BY <1>1, <1>5, <2>2, AppendProperties DEF ServerType, Current
  <2>4. ServerReadsSent'
    BY <1>1, <1>2, <2>1, <2>3 DEF Inv, ServerReadsSent, ServerType, Current
  <2>5. InHead' /\ InBody'
    BY <1>1, <1>2, <1>3, <1>5, <2>3 DEF InHead, InBody, Cells, Current
  <2>6. ServerType'
    BY <1>1, <1>5, <2>3 DEF ServerType
  <2> QED BY <2>4, <2>5, <2>6 DEF Inv
<1> QED BY <1>4, <1>5 DEF AsyncReadBody

\* The other steps leave the reading, or begin it anew.
LEMMA OtherInv ==
    ASSUME Inv, \/ SendRequest \/ Insert \/ ClearSession \/ SendAnswer \/ Arrive
                \/ TcpManager \/ Lose \/ Connect \/ UNCHANGED vars
    PROVE  Inv'
<1>1. CASE SendRequest
  <2>1. /\ requests' = requests + 1 /\ requests' \in 0..Len(Request) /\ requests \in Nat
        /\ UNCHANGED <<reading, data, node, read, up>>
    BY <1>1, FramingAssumption DEF SendRequest, server, Inv, ServerType
  <2>2. Len(read) \in Nat
    BY DEF Inv, ServerType
  <2> QED BY <2>1, <2>2 DEF Inv, ServerType, InHead, InBody, Cells, Current, Place, ServerReadsSent
<1>2. CASE Connect
  <2>1. /\ requests' = 0 /\ up' = <<1, 0>> /\ reading' = "head" /\ data' = <<>> /\ read' = <<>>
    BY <1>2 DEF Connect, First
  <2>2. Len(read') = 0 /\ Len(data') = 0 /\ Len(Request) \in Nat
    BY <2>1, FramingAssumption
  <2>3. ServerType'
    BY <2>1, <2>2 DEF ServerType
  <2>4. InHead' /\ InBody'
    BY <2>1, <2>2 DEF InHead, InBody, Cells, Current, HEAD_TOTAL_LEN
  <2>5. ServerReadsSent'
    BY <2>1, <2>2 DEF ServerReadsSent
  <2> QED BY <2>3, <2>4, <2>5 DEF Inv
<1>3. CASE UNCHANGED <<requests, reading, data, node, read, up>>
  BY <1>3 DEF Inv, ServerType, InHead, InBody, Cells, Current, Place, ServerReadsSent
<1>4. ASSUME \/ Insert \/ ClearSession \/ SendAnswer \/ Arrive \/ Lose \/ UNCHANGED vars
      PROVE  UNCHANGED <<requests, reading, data, node, read, up>>
  BY <1>4 DEF Insert, ClearSession, SendAnswer, Arrive, Lose, vars, server
<1>5. ASSUME TcpManager PROVE UNCHANGED <<requests, reading, data, node, read, up>>
  BY <1>5 DEF TcpManager, ReadyRead, ReadHead, ReadBody, server
<1> QED BY <1>1, <1>2, <1>3, <1>4, <1>5

LEMMA StepInv == Inv /\ [Next]_vars => Inv'
BY ReadCell, ReadHeadInv, ReadBodyInv, OtherInv DEF Next, Session

\* The server gets the messages as they were sent, in their order.
THEOREM ServerCorrect == Spec => []ServerReadsSent
<1>1. Inv => ServerReadsSent
  BY DEF Inv
<1> QED BY <1>1, InitInv, StepInv, PTL DEF Spec
-----------------------------------------------------------------------------
(* To the client.  The cells ahead are those of the buffer, those on the socket *)
(* and the next one; they follow each other as they were sent, and the first is *)
(* that of the head, or of the body, that the client waits for.                 *)

Rest == Len(buffer) + Len(inbox)
Ahead(k) ==
    IF k <= Len(buffer) THEN buffer[k] ELSE IF k <= Rest THEN inbox[k - Len(buffer)] ELSE down

\* The message that the client waits for, and the place where its body begins.
Awaited == Len(handled) + 1
BodyOf(i) == IF Answer[i] = 0 THEN <<i + 1, 0>> ELSE <<i, HEAD_TOTAL_LEN>>

StreamType ==
    /\ gui \in {"waiting", "head", "body"}
    /\ buffer \in Seq(Cell) /\ inbox \in Seq(Cell) /\ handled \in Seq(Message)
    /\ down \in Cell /\ down[1] >= 1

Sent == \A k \in 1..Rest : Ahead(k) \in Cell /\ Ahead(k)[1] \in 1..answers

\* What comes d cells behind a cell, as far as its message reaches.
Follows(cell, d, then) ==
    /\ cell[2] + d < HEAD_TOTAL_LEN + Answer[cell[1]] => then = <<cell[1], cell[2] + d>>
    /\ cell[2] + d = HEAD_TOTAL_LEN + Answer[cell[1]] => then = <<cell[1] + 1, 0>>

InOrder == \A k \in 1..Rest, l \in 1..(Rest + 1) : k < l => Follows(Ahead(k), l - k, Ahead(l))

AtHead == gui = "head" \/ (gui = "waiting" /\ ~pending)
AtBody == gui = "body" \/ (gui = "waiting" /\ pending)

Waits ==
    /\ gui = "head" => ~pending
    /\ AtHead => Ahead(1) = <<Awaited, 0>>
    /\ AtBody => /\ Awaited <= answers
                 /\ head = [id |-> Awaited, len |-> Answer[Awaited]]
                 /\ Ahead(1) = BodyOf(Awaited)

Handled ==
    /\ Len(handled) <= answers
    /\ \A i \in 1..Len(handled) : handled[i] = Whole(i, Answer)

Stream == StreamType /\ Sent /\ InOrder /\ Waits /\ Handled
Sound == ~second /\ ~stale
ClientInv == answers \in 0..Len(Answer) /\ offset \in Nat /\ (Sound => Stream)

LEMMA AnswerLengths ==
    ASSUME NEW i \in 1..Len(Answer)
    PROVE  Answer[i] \in Nat /\ Answer[i] % Width = Answer[i]
<1>1. Answer[i] \in Nat /\ Width \in Nat /\ 2 * Answer[i] < Width
  BY FramingAssumption
<1> QED BY <1>1

\* A connection that begins with an empty buffer.
LEMMA FreshStream ==
    ASSUME gui = "waiting", ~pending, buffer = <<>>, inbox = <<>>, handled = <<>>,
           down = <<1, 0>>, answers \in Nat
    PROVE  Stream
<1>1. Rest = 0 /\ Len(handled) = 0 /\ Len(buffer) = 0 /\ Len(inbox) = 0
  BY DEF Rest
<1>2. Ahead(1) = <<1, 0>>
  BY <1>1 DEF Ahead
<1>3. StreamType
  BY DEF StreamType, Cell
<1>4. Sent /\ InOrder
  BY <1>1 DEF Sent, InOrder
<1>5. Waits /\ Handled
  BY <1>1, <1>2 DEF Waits, AtHead, AtBody, Awaited, Handled
<1> QED BY <1>3, <1>4, <1>5 DEF Stream

LEMMA InitClient == Init => ClientInv
<1> SUFFICES ASSUME Init PROVE ClientInv
  OBVIOUS
<1>1. /\ answers = 0 /\ offset = 0 /\ gui = "waiting" /\ buffer = <<>> /\ inbox = <<>>
      /\ handled = <<>> /\ down = <<1, 0>>
  BY DEF Init, First
<1>2. ~pending
  BY DEF Init
<1>3. Len(Answer) \in Nat
  BY FramingAssumption
<1>4. Stream
  BY <1>1, <1>2, FreshStream
<1> QED BY <1>1, <1>3, <1>4 DEF ClientInv

LEMMA ConnectClient == ClientInv /\ Connect => ClientInv'
<1> SUFFICES ASSUME ClientInv, Connect PROVE ClientInv'
  OBVIOUS
<1>1. answers' = 0 /\ offset' \in Nat /\ Len(Answer) \in Nat
  <2>1. answers' = 0 /\ offset' = offset
    BY DEF Connect
  <2> QED BY <2>1, FramingAssumption DEF ClientInv
<1>2. ASSUME Sound' PROVE Stream'
  <2>1. /\ gui' = "waiting" /\ ~pending' /\ buffer' = <<>> /\ inbox' = <<>> /\ handled' = <<>>
        /\ down' = <<1, 0>>
    BY <1>2 DEF Connect, Sound, First
  <2>2. Rest' = 0 /\ Len(handled') = 0 /\ Len(buffer') = 0 /\ Len(inbox') = 0
    BY <2>1 DEF Rest
  <2>3. Ahead(1)' = <<1, 0>>
    BY <2>1, <2>2 DEF Ahead
  <2>4. StreamType'
    BY <2>1 DEF StreamType, Cell
  <2>5. Sent' /\ InOrder'
    BY <2>2 DEF Sent, InOrder
  <2>6. Waits' /\ Handled'
    BY <1>1, <2>1, <2>2, <2>3 DEF Waits, AtHead, AtBody, Awaited, Handled
  <2> QED BY <2>4, <2>5, <2>6 DEF Stream
<1> QED BY <1>1, <1>2 DEF ClientInv

\* The steps that leave the cells ahead alone.
LEMMA OthersClient ==
    ASSUME ClientInv, \/ SendRequest \/ Insert \/ ClearSession \/ Session \/ SendAnswer
                      \/ Lose \/ UNCHANGED vars
    PROVE  ClientInv'
<1>1. UNCHANGED <<client, stale>>
  BY DEF SendRequest, Insert, ClearSession, Session, AsyncReadLen, AsyncReadHead, AsyncReadBody,
         SendAnswer, Lose, vars, link
<1>2. answers' = answers \/ (answers' = answers + 1 /\ answers < Len(Answer))
  BY DEF SendRequest, Insert, ClearSession, Session, AsyncReadLen, AsyncReadHead, AsyncReadBody,
         SendAnswer, Lose, vars
<1>3. answers \in Nat /\ answers <= answers' /\ answers' \in 0..Len(Answer)
  BY <1>2, FramingAssumption DEF ClientInv
<1>4. ASSUME Stream PROVE Stream'
  <2>1. Rest' = Rest /\ (\A k : Ahead(k)' = Ahead(k)) /\ StreamType'
    BY <1>1, <1>4 DEF client, Rest, Ahead, Stream, StreamType
  <2>2. Sent'
    BY <1>3, <1>4, <2>1 DEF Stream, Sent
  <2>3. InOrder'
    BY <1>4, <2>1 DEF Stream, InOrder, Follows
  <2>4. Handled' /\ Waits'
    <3>1. Len(handled) \in Nat
      BY <1>4 DEF Stream, StreamType
    <3> QED BY <1>1, <1>3, <1>4, <2>1, <3>1
            DEF Stream, Handled, Waits, AtHead, AtBody, Awaited, BodyOf, client, Whole, Body
  <2> QED BY <2>1, <2>2, <2>3, <2>4 DEF Stream
<1> QED BY <1>1, <1>3, <1>4 DEF ClientInv, Sound, client

\* One more byte on the socket.
LEMMA ArriveClient == ClientInv /\ Arrive => ClientInv'
<1> SUFFICES ASSUME ClientInv, Arrive PROVE ClientInv'
  OBVIOUS
<1> USE DEF HEAD_TOTAL_LEN
<1>1. /\ down[1] <= answers /\ inbox' = Append(inbox, down) /\ down' = After(down, Answer)
      /\ UNCHANGED <<answers, stale, gui, buffer, pending, head, offset, handled, second>>
  BY DEF Arrive, link
<1>2. ASSUME Stream PROVE Stream'
  <2>1. /\ StreamType /\ Sent /\ InOrder /\ Waits /\ Handled
        /\ Len(buffer) \in Nat /\ Len(inbox) \in Nat /\ Rest \in Nat
    BY <1>2 DEF Stream, StreamType, Rest
  <2>2. down[1] \in 1..answers /\ down[1] \in 1..Len(Answer) /\ down[2] \in Nat /\ down \in Cell
    BY <1>1, <2>1, FramingAssumption DEF StreamType, Cell, ClientInv
  <2>3. Answer[down[1]] \in Nat
    BY <2>2, AnswerLengths
  <2>4. down' \in Cell /\ down'[1] >= 1
    BY <1>1, <2>2, <2>3 DEF After, Cell
  <2>5. /\ inbox' \in Seq(Cell) /\ Len(inbox') = Len(inbox) + 1
        /\ \A k \in 1..Len(inbox) : inbox'[k] = inbox[k]
        /\ inbox'[Len(inbox) + 1] = down
    BY <1>1, <2>1, <2>2, AppendProperties DEF StreamType
  <2>6. StreamType'
    BY <1>1, <2>1, <2>4, <2>5 DEF StreamType
  <2>7. Rest' = Rest + 1
    BY <1>1, <2>1, <2>5 DEF Rest
  <2>8. Ahead(Rest + 1) = down
    BY <2>1 DEF Ahead, Rest
  <2>9. \A k \in 1..(Rest + 1) : Ahead(k)' = Ahead(k)
    <3> SUFFICES ASSUME NEW k \in 1..(Rest + 1) PROVE Ahead(k)' = Ahead(k)
      OBVIOUS
    <3>1. CASE k <= Len(buffer)
      BY <1>1, <3>1 DEF Ahead
    <3>2. CASE k > Len(buffer) /\ k <= Rest
      <4>1. k - Len(buffer) \in 1..Len(inbox)
        BY <2>1, <3>2 DEF Rest
      <4> QED BY <1>1, <2>1, <2>5, <2>7, <3>2, <4>1 DEF Ahead
    <3>3. CASE k = Rest + 1
      <4>1. k - Len(buffer) = Len(inbox) + 1 /\ k > Len(buffer)
        BY <2>1, <3>3 DEF Rest
      <4> QED BY <1>1, <2>1, <2>5, <2>7, <2>8, <3>3, <4>1 DEF Ahead
    <3> QED BY <2>1, <3>1, <3>2, <3>3
  <2>10. \A l : l = Rest + 2 => Ahead(l)' = After(down, Answer)
    BY <1>1, <2>1, <2>5, <2>7 DEF Ahead, Rest
  <2>11. Sent'
    <3> SUFFICES ASSUME NEW k \in 1..(Rest + 1)
                 PROVE  Ahead(k)' \in Cell /\ Ahead(k)'[1] \in 1..answers
      BY <1>1, <2>7 DEF Sent
    <3>1. CASE k \in 1..Rest
      BY <2>1, <2>9, <3>1 DEF Sent
    <3>2. CASE k = Rest + 1
      BY <2>2, <2>8, <2>9, <3>2
    <3> QED BY <2>1, <3>1, <3>2
  <2>12. InOrder'
    <3> SUFFICES ASSUME NEW k \in 1..(Rest + 1), NEW l \in 1..(Rest + 2), k < l
                 PROVE  Follows(Ahead(k), l - k, Ahead(l)')
      BY <1>1, <2>1, <2>7, <2>9 DEF InOrder, Follows
    <3>1. CASE l <= Rest + 1
      <4>1. k \in 1..Rest /\ l \in 1..(Rest + 1)
        BY <2>1, <3>1
      <4> QED BY <2>1, <2>9, <4>1 DEF InOrder
    <3>2. CASE l = Rest + 2 /\ k = Rest + 1
      <4>1. l - k = 1 /\ Ahead(k) = down /\ Ahead(l)' = After(down, Answer)
        BY <2>1, <2>8, <2>10, <3>2
      <4>2. Follows(down, 1, After(down, Answer))
        BY <2>2, <2>3 DEF Follows, After
      <4> QED BY <4>1, <4>2
    <3>3. CASE l = Rest + 2 /\ k \in 1..Rest
      <4> DEFINE c == Ahead(k)
                 d == Rest + 1 - k
      <4>1. c \in Cell /\ c[1] \in 1..Len(Answer) /\ c[1] \in Nat /\ c[2] \in Nat /\ d \in Nat \ {0}
        BY <2>1, <3>3, FramingAssumption DEF Sent, Cell, ClientInv
      <4>2. Answer[c[1]] \in Nat
        BY <4>1, AnswerLengths
      <4>3. Follows(c, d, down)
        BY <2>1, <2>8, <3>3 DEF InOrder
      <4>4. l - k = d + 1
        BY <2>1, <3>3
      <4> HIDE DEF c, d
      <4>5. Follows(c, d + 1, After(down, Answer))
        <5>1. CASE c[2] + (d + 1) <= 2 + Answer[c[1]]
          <6>1. down = <<c[1], c[2] + d>>
            BY SMTT(30), <4>1, <4>2, <4>3, <5>1 DEF Follows
          <6>2. down[1] = c[1] /\ down[2] = c[2] + d
            BY <6>1
          <6>3. CASE c[2] + (d + 1) < 2 + Answer[c[1]]
            <7>1. down[2] + 1 = c[2] + (d + 1) /\ c[2] + (d + 1) # 2 + Answer[c[1]]
              BY SMTT(30), <4>1, <4>2, <6>2, <6>3
            <7>2. After(down, Answer) = <<c[1], c[2] + (d + 1)>>
              BY <6>2, <6>3, <7>1 DEF After
            <7> QED BY <7>1, <7>2 DEF Follows
          <6>4. CASE c[2] + (d + 1) = 2 + Answer[c[1]]
            BY SMTT(30), <4>1, <4>2, <6>2, <6>4 DEF Follows, After
          <6> QED BY SMTT(30), <4>1, <4>2, <5>1, <6>3, <6>4
        <5>2. CASE c[2] + (d + 1) > 2 + Answer[c[1]]
          BY <4>1, <4>2, <5>2 DEF Follows
        <5> QED BY <4>1, <4>2, <5>1, <5>2
      <4>6. Ahead(l)' = After(down, Answer)
        BY <2>10, <3>3
      <4> QED BY <4>4, <4>5, <4>6 DEF c
    <3> QED BY <2>1, <3>1, <3>2, <3>3
  <2>13. Waits' /\ Handled'
    <3>1. Ahead(1)' = Ahead(1)
      BY <2>1, <2>9
    <3> QED BY <1>1, <2>1, <3>1 DEF Handled, Waits, AtHead, AtBody, Awaited, BodyOf, Whole, Body
  <2> QED BY <2>6, <2>11, <2>12, <2>13 DEF Stream
<1> QED BY <1>1, <1>2 DEF ClientInv, Sound

\* The bytes on the socket come to the buffer; no cell ahead moves.
LEMMA ReadyReadClient == ClientInv /\ ReadyRead => ClientInv'
<1> SUFFICES ASSUME ClientInv, ReadyRead PROVE ClientInv'
  OBVIOUS
<1>1. /\ gui = "waiting" /\ buffer' = buffer \o inbox /\ inbox' = <<>> /\ offset' = 0
      /\ gui' = (IF pending THEN "body" ELSE "head")
      /\ UNCHANGED <<answers, stale, pending, head, handled, second, down>>
  BY DEF ReadyRead, link
<1>2. ASSUME Stream PROVE Stream'
  <2>1. /\ StreamType /\ Sent /\ InOrder /\ Waits /\ Handled
        /\ Len(buffer) \in Nat /\ Len(inbox) \in Nat /\ Rest \in Nat
    BY <1>2 DEF Stream, StreamType, Rest
  <2>2. /\ buffer' \in Seq(Cell) /\ Len(buffer') = Rest
        /\ \A k \in 1..Rest : buffer'[k] = IF k <= Len(buffer) THEN buffer[k] ELSE inbox[k - Len(buffer)]
    BY <1>1, <2>1, ConcatProperties DEF StreamType, Rest
  <2>3. Rest' = Rest /\ Len(inbox') = 0
    BY <1>1, <2>1, <2>2 DEF Rest
  <2>4. \A k \in 1..(Rest + 1) : Ahead(k)' = Ahead(k)
    BY <1>1, <2>1, <2>2, <2>3 DEF Ahead
  <2>5. StreamType'
    BY <1>1, <2>1, <2>2 DEF StreamType
  <2>6. Sent' /\ InOrder'
    <3>1. \A k \in 1..Rest : k \in 1..(Rest + 1)
      BY <2>1
    <3>2. Sent'
      BY <1>1, <2>1, <2>3, <2>4, <3>1 DEF Sent
    <3>3. ASSUME NEW k \in 1..Rest, NEW l \in 1..(Rest + 1), k < l
          PROVE  Follows(Ahead(k)', l - k, Ahead(l)')
      <4>1. Follows(Ahead(k), l - k, Ahead(l))
        BY <2>1, <3>3 DEF InOrder
      <4>2. Ahead(k)' = Ahead(k) /\ Ahead(l)' = Ahead(l)
        BY <2>4, <3>1
      <4> QED BY <4>1, <4>2 DEF Follows
    <3>4. InOrder'
      BY <2>3, <3>3 DEF InOrder, Follows
    <3> QED BY <3>2, <3>4
  <2>7. Waits' /\ Handled'
    <3>1. Ahead(1)' = Ahead(1)
      BY <2>1, <2>4
    <3> QED BY <1>1, <2>1, <3>1 DEF Handled, Waits, AtHead, AtBody, Awaited, BodyOf, Whole, Body
  <2> QED BY <2>5, <2>6, <2>7 DEF Stream
<1> QED BY <1>1, <1>2 DEF ClientInv, Sound

\* The front of the buffer is taken off, n cells.
LEMMA Cut ==
    ASSUME StreamType, Sent, InOrder, NEW n \in 0..Len(buffer),
           buffer' = SubSeq(buffer, n + 1, Len(buffer)), UNCHANGED <<inbox, down, answers>>
    PROVE  /\ buffer' \in Seq(Cell) /\ Len(buffer) - n = Len(buffer') /\ Sent' /\ InOrder'
           /\ n + 1 \in 1..(Rest + 1) /\ Ahead(1)' = Ahead(n + 1)
<1>1. /\ buffer \in Seq(Cell) /\ Len(buffer) \in Nat /\ Len(inbox) \in Nat /\ Rest \in Nat /\ n \in Nat
      /\ n <= Len(buffer) /\ Rest = Len(buffer) + Len(inbox)
  BY DEF StreamType, Rest
<1>2. /\ Len(buffer') = Len(buffer) - n
      /\ \A k \in 1..(Len(buffer) - n) : buffer'[k] = buffer[n + k]
      /\ buffer' \in Seq(Cell)
  <2>1. CASE n = Len(buffer)
    <3>1. buffer' = <<>>
      BY <1>1, <2>1, SubSeqProperties
    <3> QED BY <1>1, <2>1, <3>1
  <2>2. CASE n < Len(buffer)
    <3>1. n + 1 \in 1..Len(buffer) /\ Len(buffer) \in (n + 1)..Len(buffer)
      BY <1>1, <2>2
    <3>2. /\ Len(buffer') = Len(buffer) - (n + 1) + 1
          /\ \A k \in 1..(Len(buffer) - (n + 1) + 1) : buffer'[k] = buffer[(n + 1) + k - 1]
          /\ buffer' \in Seq(Cell)
      BY <1>1, <3>1, SubSeqProperties
    <3> QED BY SMTT(30), <1>1, <3>2
  <2> QED BY <1>1, <2>1, <2>2
<1>3. Rest' = Rest - n /\ Rest' \in Nat
  BY <1>1, <1>2 DEF Rest
<1>4. \A k \in 1..(Rest - n + 1) : \A l : l = k + n => Ahead(k)' = Ahead(l)
  <2> SUFFICES ASSUME NEW k \in 1..(Rest - n + 1) PROVE Ahead(k)' = Ahead(k + n)
    OBVIOUS
  <2>1. CASE k <= Len(buffer) - n
    BY <1>1, <1>2, <2>1 DEF Ahead
  <2>2. CASE k > Len(buffer) - n /\ k <= Rest - n
    <3>1. k - (Len(buffer) - n) = (k + n) - Len(buffer)
      BY <1>1
    <3> QED BY <1>1, <1>2, <1>3, <2>2, <3>1 DEF Ahead
  <2>3. CASE k > Rest - n
    <3>1. Len(buffer) <= Rest /\ Len(buffer') <= Rest'
      BY <1>1, <1>2, <1>3
    <3>2. k > Rest' /\ k > Len(buffer') /\ k + n > Rest /\ k + n > Len(buffer)
      BY <1>1, <1>2, <1>3, <2>3, <3>1
    <3>3. Ahead(k + n) = down
      BY <1>1, <3>2 DEF Ahead
    <3>4. Ahead(k)' = down'
      BY <1>1, <1>2, <1>3, <3>2 DEF Ahead
    <3> QED BY <3>3, <3>4
  <2> QED BY <1>1, <2>1, <2>2, <2>3
<1>5. Sent'
  <2> SUFFICES ASSUME NEW k \in 1..(Rest - n)
               PROVE  Ahead(k)' \in Cell /\ Ahead(k)'[1] \in 1..answers
    BY <1>3 DEF Sent
  <2>1. k + n \in 1..Rest /\ k \in 1..(Rest - n + 1)
    BY <1>1, <1>3
  <2>2. Ahead(k)' = Ahead(k + n)
    BY <1>4, <2>1
  <2> QED BY <2>1, <2>2 DEF Sent
<1>6. InOrder'
  <2> SUFFICES ASSUME NEW k \in 1..(Rest - n), NEW l \in 1..(Rest - n + 1), k < l
               PROVE  Follows(Ahead(k)', l - k, Ahead(l)')
    BY <1>3 DEF InOrder, Follows
  <2>1. /\ k + n \in 1..Rest /\ l + n \in 1..(Rest + 1) /\ k + n < l + n
        /\ (l + n) - (k + n) = l - k /\ k \in 1..(Rest - n + 1)
    BY <1>1, <1>3
  <2>2. Ahead(k)' = Ahead(k + n) /\ Ahead(l)' = Ahead(l + n)
    BY <1>4, <2>1
  <2>3. Follows(Ahead(k + n), (l + n) - (k + n), Ahead(l + n))
    BY <2>1 DEF InOrder
  <2> QED BY <2>1, <2>2, <2>3
<1>7. n + 1 \in 1..(Rest + 1) /\ Ahead(1)' = Ahead(n + 1)
  <2>1. 1 \in 1..(Rest - n + 1) /\ n + 1 = 1 + n /\ n + 1 \in 1..(Rest + 1)
    BY <1>1, <1>3
  <2> QED BY <1>4, <2>1
<1> QED BY <1>2, <1>5, <1>6, <1>7

\* The first head of a readyRead is read in its place.
LEMMA ReadHeadClient == ClientInv /\ ReadHead => ClientInv'
<1> SUFFICES ASSUME ClientInv, ReadHead PROVE ClientInv'
  OBVIOUS
<1> USE DEF HEAD_TOTAL_LEN
<1>1. /\ gui = "head"
      /\ UNCHANGED <<answers, stale, inbox, pending, handled, down>>
  BY DEF ReadHead, link
<1>2. CASE /\ Len(buffer) < 2 /\ gui' = "waiting"
           /\ UNCHANGED <<buffer, head, offset, second>>
  <2>1. ASSUME Stream PROVE Stream'
    <3>1. Rest' = Rest /\ \A k : Ahead(k)' = Ahead(k)
      BY <1>1, <1>2 DEF Rest, Ahead
    <3> QED BY <1>1, <1>2, <2>1, <3>1
            DEF Stream, StreamType, Sent, InOrder, Follows, Waits, AtHead, AtBody, Awaited, BodyOf,
                Handled, Whole, Body
  <2> QED BY <1>1, <1>2, <2>1 DEF ClientInv, Sound
<1>3. CASE /\ ~(Len(buffer) < 2)
           /\ head' = IF offset + 2 <= Len(buffer)
                        THEN Parse(buffer[offset + 1], buffer[offset + 2], Answer) ELSE None
           /\ second' = (second \/ offset > 0)
           /\ offset' = offset + 2
           /\ buffer' = SubSeq(buffer, 2 + 1, Len(buffer))
           /\ gui' = "body"
  <2>1. ASSUME Sound' PROVE Stream'
    <3>1. Sound /\ ~(offset > 0)
      BY <1>1, <1>3, <2>1 DEF Sound
    <3>2. offset = 0 /\ StreamType /\ Sent /\ InOrder /\ Waits /\ Handled
      BY <3>1 DEF ClientInv, Stream
    <3>3. /\ Len(buffer) \in Nat /\ Len(inbox) \in Nat /\ Rest \in Nat /\ Len(buffer) >= 2 /\ Rest >= 2
          /\ Len(handled) \in Nat
      BY <1>3, <3>2 DEF StreamType, Rest
    <3>4. Ahead(1) = buffer[1] /\ Ahead(2) = buffer[2]
      BY <3>3 DEF Ahead
    <3>5. Ahead(1) = <<Awaited, 0>>
      BY <1>1, <3>2 DEF Waits, AtHead
    <3>6. Awaited \in 1..answers /\ Awaited \in 1..Len(Answer)
      <4>1. 1 \in 1..Rest
        BY <3>3
      <4>2. Awaited \in 1..answers
        BY <3>2, <3>5, <4>1 DEF Sent
      <4> QED BY <4>2, FramingAssumption DEF ClientInv
    <3>7. Answer[Awaited] \in Nat /\ Answer[Awaited] % Width = Answer[Awaited]
      BY <3>6, AnswerLengths
    <3>8. Ahead(2) = <<Awaited, 1>>
      <4>1. Follows(Ahead(1), 2 - 1, Ahead(2))
        BY <3>2, <3>3 DEF InOrder
      <4> QED BY <3>5, <3>7, <4>1 DEF Follows
    <3>9. Ahead(3) = BodyOf(Awaited)
      <4>1. Follows(Ahead(1), 3 - 1, Ahead(3))
        BY <3>2, <3>3 DEF InOrder
      <4> QED BY <3>5, <3>7, <4>1 DEF Follows, BodyOf
    <3>10. head' = [id |-> Awaited, len |-> Answer[Awaited]]
      <4>1. head' = Parse(<<Awaited, 0>>, <<Awaited, 1>>, Answer)
        <5>1. offset + 1 = 1 /\ offset + 2 = 2 /\ offset + 2 <= Len(buffer)
          BY <3>2, <3>3
        <5>2. head' = Parse(buffer[1], buffer[2], Answer)
          BY <1>3, <5>1
        <5> QED BY <3>4, <3>5, <3>8, <5>2
      <4> QED BY <3>7, <4>1 DEF Parse
    <3>11. buffer' \in Seq(Cell) /\ Sent' /\ InOrder' /\ Ahead(1)' = Ahead(3)
      <4>1. 2 \in 0..Len(buffer) /\ 2 + 1 = 3
        BY <3>3
      <4> QED BY <1>1, <1>3, <3>2, <4>1, Cut
    <3>12. StreamType' /\ Handled'
      BY <1>1, <1>3, <3>2, <3>11 DEF StreamType, Handled, Whole, Body
    <3>13. Waits'
      BY <1>1, <1>3, <3>2, <3>6, <3>9, <3>10, <3>11 DEF Waits, AtHead, AtBody, Awaited, BodyOf
    <3> QED BY <3>11, <3>12, <3>13 DEF Stream
  <2> QED BY <1>1, <1>3, <2>1 DEF ClientInv
<1> QED BY <1>1, <1>2, <1>3 DEF ReadHead

\* The body is whole, and the next cell is that of a head.
LEMMA ReadBodyClient == ClientInv /\ ReadBody => ClientInv'
<1> SUFFICES ASSUME ClientInv, ReadBody PROVE ClientInv'
  OBVIOUS
<1> USE DEF HEAD_TOTAL_LEN
<1>1. /\ gui = "body"
      /\ UNCHANGED <<answers, stale, inbox, head, offset, second, down>>
  BY DEF ReadBody, link
<1>2. CASE /\ pending' = TRUE /\ gui' = "waiting"
           /\ UNCHANGED <<buffer, handled>>
  <2>1. ASSUME Stream PROVE Stream'
    <3>1. Rest' = Rest /\ \A k : Ahead(k)' = Ahead(k)
      BY <1>1, <1>2 DEF Rest, Ahead
    <3>2. StreamType' /\ Sent' /\ InOrder' /\ Handled'
      BY <1>1, <1>2, <2>1, <3>1
         DEF Stream, StreamType, Sent, InOrder, Follows, Handled, Whole, Body
    <3>3. AtBody /\ AtBody' /\ ~AtHead' /\ gui' # "head"
      BY <1>1, <1>2 DEF AtHead, AtBody
    <3>4. Waits'
      BY <1>1, <1>2, <2>1, <3>1, <3>3 DEF Stream, Waits, Awaited, BodyOf
    <3> QED BY <3>2, <3>4 DEF Stream
  <2> QED BY <1>1, <1>2, <2>1 DEF ClientInv, Sound
<1>3. CASE /\ ~(Len(buffer) < head.len)
           /\ pending' = FALSE
           /\ buffer' = SubSeq(buffer, head.len + 1, Len(buffer))
           /\ handled' = Append(handled, [id |-> head.id, body |-> SubSeq(buffer, 1, head.len)])
           /\ gui' = "head"
  <2>1. ASSUME Stream PROVE Stream'
    <3> DEFINE n == Answer[Awaited]
               message == [id |-> head.id, body |-> SubSeq(buffer, 1, head.len)]
    <3>1. StreamType /\ Sent /\ InOrder /\ Waits /\ Handled
      BY <2>1 DEF Stream
    <3>2. /\ Awaited <= answers /\ head = [id |-> Awaited, len |-> n]
          /\ Ahead(1) = BodyOf(Awaited)
      BY <1>1, <3>1 DEF Waits, AtBody
    <3>3. /\ Len(buffer) \in Nat /\ Len(inbox) \in Nat /\ Rest \in Nat /\ Len(handled) \in Nat
          /\ Rest = Len(buffer) + Len(inbox) /\ buffer \in Seq(Cell) /\ handled \in Seq(Message)
      BY <3>1 DEF StreamType, Rest
    <3>4. Awaited \in 1..Len(Answer) /\ Awaited = Len(handled) + 1 /\ answers \in Nat
      BY SMTT(30), <3>2, <3>3, FramingAssumption DEF ClientInv, Awaited
    <3>5. n \in Nat /\ n <= Len(buffer) /\ n \in 0..Len(buffer) /\ head.len = n /\ head.id = Awaited
      BY <1>3, <3>2, <3>3, <3>4, AnswerLengths
    <3> HIDE DEF n
    <3>6. /\ buffer' \in Seq(Cell) /\ Sent' /\ InOrder' /\ Ahead(1)' = Ahead(n + 1)
      BY <1>1, <1>3, <3>1, <3>5, Cut
    <3>7. \A k \in 1..n : buffer[k] = <<Awaited, 2 + k - 1>>
      <4> SUFFICES ASSUME NEW k \in 1..n PROVE buffer[k] = <<Awaited, 2 + k - 1>>
        OBVIOUS
      <4>1. n # 0 /\ Ahead(1) = <<Awaited, 2>> /\ k \in 1..Rest /\ Ahead(k) = buffer[k] /\ 1 \in 1..Rest
        BY <3>2, <3>3, <3>5 DEF BodyOf, Ahead, n
      <4>2. CASE k = 1
        BY <4>1, <4>2
      <4>3. CASE k > 1
        <5>1. Follows(Ahead(1), k - 1, Ahead(k)) /\ 2 + (k - 1) < 2 + n
          BY <3>1, <3>3, <3>5, <4>1, <4>3 DEF InOrder
        <5>2. Ahead(k) = <<Awaited, 2 + (k - 1)>>
          BY <4>1, <5>1 DEF Follows, n
        <5> QED BY <3>5, <4>1, <5>2
      <4> QED BY <3>5, <4>2, <4>3
    <3>8. Ahead(n + 1) = <<Awaited + 1, 0>>
      <4>1. CASE n = 0
        BY <3>2, <4>1 DEF BodyOf, n
      <4>2. CASE n > 0
        <5>1. /\ Ahead(1) = <<Awaited, 2>> /\ 1 \in 1..Rest /\ n + 1 \in 1..(Rest + 1)
              /\ 1 < n + 1 /\ (n + 1) - 1 = n
          BY <3>2, <3>3, <3>5, <4>2 DEF BodyOf, n
        <5>2. Follows(Ahead(1), n, Ahead(n + 1))
          BY <3>1, <5>1 DEF InOrder
        <5> QED BY <5>1, <5>2 DEF Follows, n
      <4> QED BY <3>5, <4>1, <4>2
    <3>9. /\ SubSeq(buffer, 1, n) \in Seq(Cell)
          /\ SubSeq(buffer, 1, n) = [k \in 1..n |-> <<Awaited, 2 + k - 1>>]
      <4>1. /\ SubSeq(buffer, 1, n) \in Seq(Cell)
            /\ Len(SubSeq(buffer, 1, n)) = n
            /\ \A k \in 1..n : SubSeq(buffer, 1, n)[k] = buffer[k]
        <5>1. \A k \in 1..n : buffer[k] \in Cell
          BY <3>3, <3>5
        <5>2. 1 \in Int /\ n \in Int /\ n - 1 + 1 = n /\ \A k \in 1..n : 1 + k - 1 = k
          BY <3>5
        <5> QED BY <3>5, <5>1, <5>2, SubSeqProperties
      <4>2. SubSeq(buffer, 1, n) = [k \in 1..n |-> SubSeq(buffer, 1, n)[k]]
        BY <4>1
      <4> QED BY <3>7, <4>1, <4>2
    <3>10. message = Whole(Awaited, Answer) /\ message \in Message
      <4>1. message = [id |-> Awaited, body |-> SubSeq(buffer, 1, n)]
        BY <3>5
      <4>2. SubSeq(buffer, 1, n) = Body(Awaited, Answer)
        BY <3>9 DEF Body, n
      <4>3. Awaited \in Nat
        BY <3>4
      <4> QED BY <3>9, <4>1, <4>2, <4>3 DEF Whole, Message
    <3> HIDE DEF message
    <3>11. /\ handled' \in Seq(Message) /\ Len(handled') = Awaited
           /\ \A i \in 1..Len(handled) : handled'[i] = handled[i]
           /\ handled'[Awaited] = message
      BY <1>3, <3>3, <3>4, <3>10, AppendProperties DEF message
    <3>12. StreamType'
      BY <1>1, <1>3, <3>1, <3>6, <3>11 DEF StreamType
    <3>13. Handled'
      <4>1. \A i \in 1..Len(handled') : i \in 1..Len(handled) \/ i = Awaited
        BY <3>3, <3>4, <3>11
      <4>2. \A i \in 1..Len(handled') : handled'[i] = Whole(i, Answer)
        BY <3>1, <3>10, <3>11, <4>1 DEF Handled
      <4> QED BY <1>1, <3>2, <3>11, <4>2 DEF Handled
    <3>14. Waits'
      BY <1>1, <1>3, <3>3, <3>4, <3>6, <3>8, <3>11 DEF Waits, AtHead, AtBody, Awaited
    <3> QED BY <3>6, <3>12, <3>13, <3>14 DEF Stream
  <2> QED BY <1>1, <2>1 DEF ClientInv, Sound
<1> QED BY <1>1, <1>2, <1>3 DEF ReadBody

LEMMA StepClient == ClientInv /\ [Next]_vars => ClientInv'
BY OthersClient, ArriveClient, ReadyReadClient, ReadHeadClient, ReadBodyClient, ConnectClient
   DEF Next, TcpManager

\* So does the client, if no readyRead meets a second head and its buffer was
\* empty when it connected.
THEOREM ClientCorrect == Spec => []ClientReadsSent
<1>1. ClientInv => ClientReadsSent
  BY DEF ClientInv, Sound, Stream, Handled, ClientReadsSent
<1> QED BY <1>1, InitClient, StepClient, PTL DEF Spec

-----------------------------------------------------------------------------
(* Types.  A head is parsed from cells that may be anything, but every cell  *)
(* on its way belongs to a message that was sent, whose length is a number.  *)

CellOf(length) == (1..Len(length)) \X Nat

NextCell == (Nat \ {0}) \X Nat

LinkTypes ==
    /\ conn \in {"up", "lost", "closed"} /\ connects \in 0..MaxConnects /\ stale \in BOOLEAN
    /\ requests \in 0..Len(Request) /\ answers \in 0..Len(Answer)

SessionTypes ==
    /\ entry \in {"not yet", "there", "cleared"} /\ reading \in {"head", "body", "none"}
    /\ up \in NextCell /\ data \in Seq(CellOf(Request))
    /\ node \in Node /\ read \in Seq(Message)

ManagerTypes ==
    /\ gui \in {"waiting", "head", "body"} /\ pending \in BOOLEAN /\ second \in BOOLEAN
    /\ down \in NextCell /\ inbox \in Seq(CellOf(Answer)) /\ buffer \in Seq(CellOf(Answer))
    /\ head \in Node /\ offset \in Nat /\ handled \in Seq(Message)

Types == LinkTypes /\ SessionTypes /\ ManagerTypes

\* Sequences of sent cells are sequences of cells.
LEMMA CellsOf ==
    ASSUME NEW length \in Seq(Nat), NEW s \in Seq(CellOf(length))
    PROVE  s \in Seq(Cell) /\ Len(s) \in Nat /\ \A i \in 1..Len(s) : s[i] \in CellOf(length)
<1>1. CellOf(length) \subseteq Cell
  BY LenProperties DEF CellOf, Cell
<1> QED BY <1>1, SeqMonotonic, LenProperties, ElementOfSeq

LEMMA NextCellType ==
    ASSUME NEW length, NEW cell \in NextCell
    PROVE  After(cell, length) \in NextCell
BY DEF NextCell, After

\* A part of a sequence of sent cells.
LEMMA PartOf ==
    ASSUME NEW length \in Seq(Nat), NEW s \in Seq(CellOf(length)), NEW m \in Nat \ {0}, NEW n \in Nat,
           n <= Len(s)
    PROVE  SubSeq(s, m, n) \in Seq(CellOf(length))
<1>1. \A i \in m..n : s[i] \in CellOf(length)
  BY CellsOf
<1> QED BY <1>1, SubSeqProperties

\* A head parsed from two sent cells.
LEMMA ParseType ==
    ASSUME NEW length \in Seq(Nat), \A i \in 1..Len(length) : length[i] % Width \in Nat,
           NEW id \in CellOf(length), NEW len \in CellOf(length)
    PROVE  Parse(id, len, length) \in Node
<1>1. id[1] \in Nat /\ len[1] \in 1..Len(length)
  BY DEF CellOf
<1>2. Junk \in Nat
  BY FramingAssumption
<1> QED BY <1>1, <1>2 DEF Parse, Node

LEMMA InitTypes == Init => Types
<1> SUFFICES ASSUME Init PROVE Types
  OBVIOUS
<1>1. First \in NextCell /\ None \in Node
  BY DEF First, NextCell, None, Node
<1>2. Len(Request) \in Nat /\ Len(Answer) \in Nat /\ MaxConnects \in Nat
  BY FramingAssumption, LenProperties
<1>3. LinkTypes
  <2>1. conn = "up" /\ connects = MaxConnects /\ requests = 0 /\ answers = 0
    BY DEF Init
  <2>2. stale \in BOOLEAN
    BY DEF Init
  <2> QED BY <1>2, <2>1, <2>2 DEF LinkTypes
<1>4. SessionTypes
  BY <1>1, EmptySeq DEF Init, SessionTypes
<1>5. ManagerTypes
  BY <1>1, EmptySeq DEF Init, ManagerTypes
<1> QED BY <1>3, <1>4, <1>5 DEF Types

LEMMA TypeFrame ==
    /\ SessionTypes /\ UNCHANGED server => SessionTypes'
    /\ ManagerTypes /\ UNCHANGED client => ManagerTypes'
    /\ LinkTypes /\ UNCHANGED <<conn, link, requests, answers>> => LinkTypes'
<1>1. SessionTypes /\ UNCHANGED server => SessionTypes'
  BY DEF SessionTypes, server
<1>2. ManagerTypes /\ UNCHANGED client => ManagerTypes'
  BY DEF ManagerTypes, client
<1>3. LinkTypes /\ UNCHANGED <<conn, link, requests, answers>> => LinkTypes'
  BY DEF LinkTypes, link
<1> QED BY <1>1, <1>2, <1>3

LEMMA Constants ==
    /\ Request \in Seq(Nat) /\ Answer \in Seq(Nat) /\ MaxConnects \in Nat
    /\ Len(Request) \in Nat /\ Len(Answer) \in Nat
    /\ \A i \in 1..Len(Request) : Request[i] % Width \in Nat
    /\ \A i \in 1..Len(Answer) : Answer[i] % Width \in Nat
BY FramingAssumption, LenProperties, Lengths, AnswerLengths

LEMMA SessionStep ==
    ASSUME LinkTypes, SessionTypes, Session \/ Insert \/ ClearSession
    PROVE  SessionTypes'
<1>0. up \in NextCell /\ data \in Seq(CellOf(Request)) /\ node \in Node /\ read \in Seq(Message)
  BY DEF SessionTypes
<1>1. CASE AsyncReadLen
  <2>1. up \in CellOf(Request)
    <3>1. up[1] \in Nat \ {0} /\ up[2] \in Nat /\ up = <<up[1], up[2]>>
      BY <1>0 DEF NextCell
    <3>2. up[1] <= requests /\ requests \in 0..Len(Request)
      BY <1>1 DEF AsyncReadLen, LinkTypes
    <3>3. up[1] \in 1..Len(Request)
      BY <3>1, <3>2, Constants
    <3> QED BY <3>1, <3>3 DEF CellOf
  <2>2. data' \in Seq(CellOf(Request))
    BY <1>0, <1>1, <2>1, AppendProperties DEF AsyncReadLen
  <2>3. up' \in NextCell
    BY <1>0, <1>1, NextCellType DEF AsyncReadLen
  <2> QED BY <1>1, <2>2, <2>3 DEF AsyncReadLen, SessionTypes
<1>2. CASE AsyncReadHead
  <2>1. CASE Closing
    BY <1>2, <2>1 DEF AsyncReadHead, Closing, SessionTypes
  <2>2. CASE entry = "there" /\ node' = Parse(data[1], data[2], Request)
             /\ reading' = "body" /\ data' = <<>> /\ UNCHANGED read
    <3>1. Len(data) \in Nat /\ Len(data) >= 2
      BY <1>0, <1>2, CellsOf, Constants DEF AsyncReadHead, Total, HEAD_TOTAL_LEN
    <3>2. data[1] \in CellOf(Request) /\ data[2] \in CellOf(Request)
      BY <1>0, <3>1, CellsOf, Constants
    <3>3. node' \in Node
      BY <2>2, <3>2, ParseType, Constants
    <3>4. data' \in Seq(CellOf(Request))
      BY <2>2, EmptySeq
    <3> QED BY <1>2, <2>2, <3>3, <3>4 DEF AsyncReadHead, SessionTypes
  <2> QED BY <1>2, <2>1, <2>2 DEF AsyncReadHead
<1>3. CASE AsyncReadBody
  <2>1. CASE Closing
    BY <1>3, <2>1 DEF AsyncReadBody, Closing, SessionTypes
  <2>2. CASE entry = "there" /\ read' = Append(read, [id |-> node.id, body |-> data])
             /\ reading' = "head" /\ data' = <<>> /\ UNCHANGED node
    <3>1. data \in Seq(Cell)
      BY <1>0, CellsOf, Constants
    <3>2. [id |-> node.id, body |-> data] \in Message
      BY <1>0, <3>1 DEF Message, Node
    <3>3. read' \in Seq(Message)
      BY <1>0, <2>2, <3>2, AppendProperties
    <3>4. data' \in Seq(CellOf(Request))
      BY <2>2, EmptySeq
    <3> QED BY <1>3, <2>2, <3>3, <3>4 DEF AsyncReadBody, SessionTypes
  <2> QED BY <1>3, <2>1, <2>2 DEF AsyncReadBody
<1>4. CASE Insert \/ ClearSession
  BY <1>4 DEF Insert, ClearSession, SessionTypes
<1> QED BY <1>1, <1>2, <1>3, <1>4 DEF Session

LEMMA ManagerStep ==
    ASSUME LinkTypes, ManagerTypes, Arrive \/ TcpManager
    PROVE  ManagerTypes'
<1>0. /\ down \in NextCell /\ inbox \in Seq(CellOf(Answer)) /\ buffer \in Seq(CellOf(Answer))
      /\ head \in Node /\ offset \in Nat /\ handled \in Seq(Message) /\ second \in BOOLEAN
      /\ Len(buffer) \in Nat
  BY Constants, CellsOf DEF ManagerTypes
<1>1. CASE Arrive
  <2>1. down \in CellOf(Answer)
    <3>1. down[1] \in Nat \ {0} /\ down[2] \in Nat /\ down = <<down[1], down[2]>>
      BY <1>0 DEF NextCell
    <3>2. down[1] <= answers /\ answers \in 0..Len(Answer)
      BY <1>1 DEF Arrive, LinkTypes
    <3>3. down[1] \in 1..Len(Answer)
      BY <3>1, <3>2, Constants
    <3> QED BY <3>1, <3>3 DEF CellOf
  <2>2. inbox' \in Seq(CellOf(Answer))
    BY <1>0, <1>1, <2>1, AppendProperties DEF Arrive
  <2>3. down' \in NextCell
    BY <1>0, <1>1, NextCellType DEF Arrive
  <2> QED BY <1>1, <2>2, <2>3 DEF Arrive, ManagerTypes
<1>2. CASE ReadyRead
  <2>1. buffer' \in Seq(CellOf(Answer)) /\ inbox' \in Seq(CellOf(Answer))
    BY <1>0, <1>2, ConcatProperties, EmptySeq DEF ReadyRead
  <2> QED BY <1>2, <2>1 DEF ReadyRead, ManagerTypes
<1>3. CASE ReadHead
  <2>1. CASE Len(buffer) < HEAD_TOTAL_LEN
    BY <1>3, <2>1 DEF ReadHead, ManagerTypes
  <2>2. CASE ~(Len(buffer) < HEAD_TOTAL_LEN)
    <3>1. head' \in Node
      <4>1. CASE offset + 2 <= Len(buffer)
        <5>1. offset + 1 \in 1..Len(buffer) /\ offset + 2 \in 1..Len(buffer)
          BY <1>0, <4>1
        <5>2. buffer[offset + 1] \in CellOf(Answer) /\ buffer[offset + 2] \in CellOf(Answer)
          BY <1>0, <5>1, CellsOf, Constants
        <5>3. Parse(buffer[offset + 1], buffer[offset + 2], Answer) \in Node
          BY <5>2, ParseType, Constants
        <5> QED BY <1>3, <2>2, <4>1, <5>3 DEF ReadHead
      <4>2. CASE ~(offset + 2 <= Len(buffer))
        <5>1. head' = None
          BY <1>3, <2>2, <4>2 DEF ReadHead
        <5> QED BY <5>1 DEF None, Node
      <4> QED BY <4>1, <4>2
    <3>2. buffer' \in Seq(CellOf(Answer))
      <4>1. SubSeq(buffer, 2 + 1, Len(buffer)) \in Seq(CellOf(Answer))
        BY <1>0, PartOf, Constants
      <4> QED BY <1>3, <2>2, <4>1 DEF ReadHead, HEAD_TOTAL_LEN
    <3>3. offset' = offset + 2 /\ second' = (second \/ offset > 0)
      BY <1>3, <2>2 DEF ReadHead, HEAD_TOTAL_LEN
    <3>4. offset' \in Nat /\ second' \in BOOLEAN
      BY <1>0, <3>3
    <3> QED BY <1>3, <2>2, <3>1, <3>2, <3>4 DEF ReadHead, ManagerTypes
  <2> QED BY <2>1, <2>2
<1>4. CASE ReadBody
  <2>0. head.len \in Nat /\ head.id \in Nat
    BY <1>0 DEF Node
  <2>1. CASE Len(buffer) < head.len
    BY <1>4, <2>1 DEF ReadBody, ManagerTypes
  <2>2. CASE ~(Len(buffer) < head.len)
    <3> DEFINE b == SubSeq(buffer, head.len + 1, Len(buffer))
               m == [id |-> head.id, body |-> SubSeq(buffer, 1, head.len)]
    <3>1. b \in Seq(CellOf(Answer))
      <4>1. head.len + 1 \in Nat \ {0}
        BY <2>0
      <4> QED BY <1>0, <4>1, PartOf, Constants
    <3>2. SubSeq(buffer, 1, head.len) \in Seq(CellOf(Answer))
      <4>1. 1 \in Nat \ {0} /\ head.len <= Len(buffer)
        BY <1>0, <2>0, <2>2
      <4> QED BY <1>0, <2>0, <4>1, PartOf, Constants
    <3>3. m \in Message
      BY <2>0, <3>2, CellsOf, Constants DEF Message
    <3>4. Append(handled, m) \in Seq(Message)
      BY <1>0, <3>3, AppendProperties
    <3>5. buffer' = b /\ handled' = Append(handled, m) /\ pending' = FALSE /\ gui' = "head"
      BY <1>4, <2>2 DEF ReadBody
    <3> HIDE DEF b, m
    <3> QED BY <1>4, <3>1, <3>4, <3>5 DEF ReadBody, ManagerTypes
  <2> QED BY <2>1, <2>2
<1> QED BY <1>1, <1>2, <1>3, <1>4 DEF TcpManager

LEMMA ConnectTypes ==
    ASSUME Types, Connect
    PROVE  Types'
<1>1. First \in NextCell /\ None \in Node /\ \A S : <<>> \in Seq(S)
  BY EmptySeq DEF First, NextCell, None, Node
<1>2. LinkTypes'
  <2>1. /\ connects \in 0..MaxConnects /\ connects > 0 /\ connects' = connects - 1
        /\ conn' = "up" /\ requests' = 0 /\ answers' = 0
    BY DEF Connect, Types, LinkTypes
  <2>2. connects' \in 0..MaxConnects
    BY <2>1, Constants
  <2>3. stale' \in BOOLEAN
    BY DEF Connect
  <2> QED BY <2>1, <2>2, <2>3, Constants DEF LinkTypes
<1>3. SessionTypes'
  BY <1>1 DEF Connect, SessionTypes
<1>4. ManagerTypes'
  BY <1>1 DEF Connect, Types, ManagerTypes
<1> QED BY <1>2, <1>3, <1>4 DEF Types

LEMMA StepTypes == Types /\ [Next]_vars => Types'
<1> SUFFICES ASSUME Types, [Next]_vars PROVE Types'
  OBVIOUS
<1>0. LinkTypes /\ SessionTypes /\ ManagerTypes
  BY DEF Types
<1>1. CASE Session \/ Insert \/ ClearSession
  <2>1. UNCHANGED <<conn, link, requests, answers>> /\ UNCHANGED client
    BY <1>1 DEF Session, AsyncReadLen, AsyncReadHead, AsyncReadBody, Insert, ClearSession
  <2> QED BY <1>0, <1>1, <2>1, SessionStep, TypeFrame DEF Types
<1>2. CASE Arrive \/ TcpManager
  <2>1. UNCHANGED <<link, requests, answers, server>> /\ conn' \in {conn, "closed"}
    BY <1>2 DEF TcpManager, Arrive, ReadyRead, ReadHead, ReadBody
  <2>2. LinkTypes'
    BY <1>0, <2>1 DEF LinkTypes, link
  <2> QED BY <1>0, <1>2, <2>1, <2>2, ManagerStep, TypeFrame DEF Types
<1>3. CASE SendRequest \/ SendAnswer \/ Lose
  <2>1. UNCHANGED server /\ UNCHANGED client
    BY <1>3 DEF SendRequest, SendAnswer, Lose
  <2>2. LinkTypes'
    BY <1>0, <1>3, Constants DEF LinkTypes, link, SendRequest, SendAnswer, Lose
  <2> QED BY <1>0, <2>1, <2>2, TypeFrame DEF Types
<1>4. CASE Connect
  BY <1>4, ConnectTypes
<1>5. CASE UNCHANGED vars
  BY <1>0, <1>5, TypeFrame DEF Types, vars
<1> QED BY <1>1, <1>2, <1>3, <1>4, <1>5 DEF Next

\* The streams keep their types, whatever heads are cut out of them, also on
\* connections that begin in the middle of a message.
THEOREM TypeCorrect == Spec => []TypeOK
<1>1. ASSUME Types PROVE TypeOK
  <2>1. data \in Seq(Cell) /\ inbox \in Seq(Cell) /\ buffer \in Seq(Cell)
    BY <1>1, CellsOf, Constants DEF Types, SessionTypes, ManagerTypes
  <2>2. up \in Cell /\ down \in Cell
    BY <1>1 DEF Types, SessionTypes, ManagerTypes, NextCell, Cell
  <2> QED BY <1>1, <2>1, <2>2 DEF Types, LinkTypes, SessionTypes, ManagerTypes, TypeOK
<1> QED BY <1>1, InitTypes, StepTypes, PTL DEF Spec
-----------------------------------------------------------------------------
(* Nothing is held back: what fairness has to add for everything to be read *)
(* is only that those who can go on do.                                      *)

\* The client waits only while the head, or the body, has not come whole.
HeldBack ==
    /\ gui = "head" => ~pending
    /\ gui = "waiting" => Len(buffer) < (IF pending THEN head.len ELSE HEAD_TOTAL_LEN)

\* A session, or a client, that has nothing left to read or to wait for has
\* read everything that was sent.
NothingStuck ==
    /\ reading # "none" /\ Len(data) < Total /\ up[1] > requests => Len(read) = requests
    /\ ~second /\ ~stale /\ gui = "waiting" /\ inbox = <<>> /\ down[1] > answers =>
         Len(handled) = answers

LEMMA HeldBackStep == HeldBack /\ [Next]_vars => HeldBack'
<1> SUFFICES ASSUME HeldBack, [Next]_vars PROVE HeldBack'
  OBVIOUS
<1>1. CASE ReadyRead
  BY <1>1 DEF ReadyRead, HeldBack
<1>2. CASE ReadHead
  BY <1>2 DEF ReadHead, HeldBack
<1>3. CASE ReadBody
  BY <1>3 DEF ReadBody, HeldBack
<1>4. CASE UNCHANGED <<gui, buffer, pending, head>>
  BY <1>4 DEF HeldBack
<1>5. [Next]_vars => ReadyRead \/ ReadHead \/ ReadBody \/ UNCHANGED <<gui, buffer, pending, head>>
  BY DEF Next, vars, client, Session, TcpManager, SendRequest, Insert, ClearSession, AsyncReadLen,
         AsyncReadHead, AsyncReadBody, SendAnswer, Arrive, Lose, Connect
<1> QED BY <1>1, <1>2, <1>3, <1>4, <1>5

\* A session that waits for more is at the end of what was sent to it.
LEMMA SessionAtEnd ==
    ASSUME Inv, reading # "none", Len(data) < Total, up[1] > requests
    PROVE  Len(read) = requests
<1> USE DEF HEAD_TOTAL_LEN
<1>1. Len(data) \in Nat /\ Len(read) \in Nat /\ requests \in Nat /\ Len(read) <= requests
  <2>1. data \in Seq(Cell) /\ read \in Seq(Message)
    BY DEF Inv, ServerType
  <2>2. requests \in 0..Len(Request) /\ Len(Request) \in Nat
    BY FramingAssumption, LenProperties DEF Inv, ServerType
  <2> QED BY <2>1, <2>2, LenProperties DEF Inv, ServerReadsSent
<1>2. CASE reading = "head"
  <2>1. CASE data = <<>>
    BY <1>1, <1>2, <2>1 DEF Inv, InHead, Current
  <2>2. CASE data # <<>>
    <3>1. Current <= requests /\ up = Place(Current, Len(data)) /\ Len(data) < 2
      BY <1>2, <2>2 DEF Inv, InHead, Total
    <3>2. Current \in 1..Len(Request)
      BY <1>1, <3>1 DEF Inv, ServerType, Current
    <3>3. Len(data) < 2 + Request[Current]
      BY <1>1, <3>1, <3>2, Lengths
    <3>4. up[1] = Current
      BY <3>1, <3>3 DEF Place
    <3> QED BY <1>1, <3>1, <3>4 DEF Current
  <2> QED BY <2>1, <2>2
<1>3. CASE reading = "body"
  <2>1. /\ Current <= requests /\ up = Place(Current, 2 + Len(data))
        /\ Len(data) < Request[Current]
    BY <1>3 DEF Inv, InBody, Total
  <2>2. Current \in 1..Len(Request)
    BY <1>1, <2>1 DEF Inv, ServerType, Current
  <2>3. 2 + Len(data) < 2 + Request[Current]
    BY <1>1, <2>1, <2>2, Lengths
  <2>4. up[1] = Current
    BY <2>1, <2>3 DEF Place
  <2> QED BY <1>1, <2>1, <2>4 DEF Current
<1> QED BY <1>2, <1>3 DEF Inv, ServerType

\* A client that waits, with nothing on its socket, is at the end too.
LEMMA ClientAtEnd ==
    ASSUME HeldBack, Stream, answers \in 0..Len(Answer),
           gui = "waiting", inbox = <<>>, down[1] > answers
    PROVE  Len(handled) = answers
<1> USE DEF HEAD_TOTAL_LEN
<1>1. /\ Len(handled) \in Nat /\ Len(buffer) \in Nat /\ answers \in Nat /\ Len(handled) <= answers
      /\ Rest = Len(buffer) /\ Ahead(Rest + 1) = down
  <2>1. handled \in Seq(Message) /\ buffer \in Seq(Cell) /\ Len(inbox) = 0
    BY DEF Stream, StreamType
  <2>2. answers \in Nat
    BY FramingAssumption, LenProperties
  <2>3. Len(handled) \in Nat /\ Len(buffer) \in Nat
    BY <2>1, LenProperties
  <2>4. Rest = Len(buffer)
    BY <2>1, <2>3 DEF Rest
  <2>5. ~(Rest + 1 <= Len(buffer)) /\ ~(Rest + 1 <= Rest)
    BY <2>3, <2>4
  <2> QED BY <2>2, <2>3, <2>4, <2>5 DEF Ahead, Stream, Handled
\* What lies in the buffer begins the body that is awaited, and is shorter.
<1>2. CASE pending
  <2>1. /\ Awaited <= answers /\ head.len = Answer[Awaited] /\ Ahead(1) = BodyOf(Awaited)
        /\ Len(buffer) < head.len
    BY <1>2 DEF Stream, Waits, AtBody, HeldBack
  <2>2. Awaited \in 1..Len(Answer)
    BY <1>1, <2>1, FramingAssumption, LenProperties DEF Awaited
  <2>3. Answer[Awaited] \in Nat /\ Answer[Awaited] # 0
    BY <1>1, <2>1, <2>2, AnswerLengths
  <2>4. Ahead(1) = <<Awaited, 2>>
    BY <2>1, <2>3 DEF BodyOf
  <2>5. down[1] = Awaited
    <3>1. CASE Rest = 0
      BY <1>1, <2>4, <3>1
    <3>2. CASE Rest # 0
      <4>1. 1 \in 1..Rest /\ Rest + 1 \in 1..(Rest + 1) /\ 1 < Rest + 1 /\ (Rest + 1) - 1 = Rest
        BY <1>1, <3>2
      <4>2. Follows(<<Awaited, 2>>, Rest, down)
        BY <1>1, <2>4, <4>1 DEF Stream, InOrder
      <4>3. 2 + Rest < 2 + Answer[Awaited]
        BY <1>1, <2>1, <2>3
      <4> QED BY <4>2, <4>3 DEF Follows
    <3> QED BY <3>1, <3>2
  <2> QED BY <1>1, <2>1, <2>5 DEF Awaited
<1>3. CASE ~pending
  <2>1. Ahead(1) = <<Awaited, 0>> /\ Len(buffer) < 2
    BY <1>3 DEF Stream, Waits, AtHead, HeldBack
  <2>2. CASE Rest = 0
    BY <1>1, <2>1, <2>2 DEF Awaited
  <2>3. CASE Rest # 0
    <3>1. 1 \in 1..Rest /\ Rest + 1 \in 1..(Rest + 1) /\ 1 < Rest + 1 /\ (Rest + 1) - 1 = Rest
      BY <1>1, <2>3
    <3>2. Follows(<<Awaited, 0>>, Rest, down)
      BY <1>1, <2>1, <3>1 DEF Stream, InOrder
    <3>3. Awaited \in 1..answers
      BY <2>1, <3>1 DEF Stream, Sent
    <3>4. Awaited \in 1..Len(Answer)
      BY <1>1, <3>3, FramingAssumption, LenProperties
    <3>5. 0 + Rest < 2 + Answer[Awaited]
      BY <1>1, <2>1, <3>4, AnswerLengths
    <3>6. down[1] = Awaited
      BY <3>2, <3>5 DEF Follows
    <3> QED BY <1>1, <3>3, <3>6
  <2> QED BY <2>2, <2>3
<1> QED BY <1>2, <1>3

\* Neither side ever waits for more than was sent: when no step of a reader is
\* left, all messages have been read.  This is the safety part of AllRead.
THEOREM NothingIsStuck == Spec => []NothingStuck
<1>1. ASSUME Init PROVE HeldBack
  <2>1. gui = "waiting" /\ Len(buffer) = 0
    BY <1>1 DEF Init
  <2>2. ~pending
    BY <1>1 DEF Init
  <2> QED BY <2>1, <2>2 DEF HeldBack, HEAD_TOTAL_LEN
<1>2. Inv /\ ClientInv /\ HeldBack => NothingStuck
  BY SessionAtEnd, ClientAtEnd DEF NothingStuck, ClientInv, Sound
<1> QED BY <1>1, <1>2, HeldBackStep, InitInv, StepInv, InitClient, StepClient, PTL DEF Spec
=============================================================================
