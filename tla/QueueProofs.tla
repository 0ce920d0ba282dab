---------------------------- MODULE QueueProofs ----------------------------
(***************************************************************************)
(* Proofs about the two queues a message passes in a SessionServer, for    *)
(* any messages: Session's send queue (SendQueue) of any length, and the   *)
(* queue of LogicSystem with its worker (LogicQueue).                      *)
(*                                                                         *)
(* The send queue: together the three parts of Inv are inductive, because  *)
(* HandleWrite pops the message that is on the wire, as a write in flight  *)
(* means a message at the front.                                           *)
(*                                                                         *)
(* The logic queue: the worker never sleeps over a message, handles each   *)
(* message once and in order, and ends with none left.  What it knows      *)
(* between its steps stays true because it holds the mutex and only Push   *)
(* adds to the queue.                                                      *)
(***************************************************************************)
EXTENDS SendQueue, LogicQueue, FiniteSetTheorems, SequenceTheorems, TLAPS

\* What a write in flight and its end mean for the queue.
Pending ==
    /\ ended # "none" => writes = 1
    /\ writes > 0 => que # <<>>
    /\ ended = "err" => socket # "open"
    /\ Len(que) <= MAX_SEND_QUEUE + 1

Inv == TypeOK /\ OneWrite /\ QueueIsBacklog /\ Pending

\* The facts about sequences that the steps need.
LEMMA Appended ==
    ASSUME NEW S, NEW s \in Seq(S), NEW m \in S
    PROVE  /\ Append(s, m) \in Seq(S)
           /\ Append(s, m) # <<>>
           /\ Len(Append(s, m)) = Len(s) + 1
           /\ Append(s, m)[Len(s) + 1] = m
           /\ \A i \in 1..Len(s) : Append(s, m)[i] = s[i]
BY AppendProperties

LEMMA Popping ==
    ASSUME NEW S, NEW s \in Seq(S), s # <<>>
    PROVE  /\ Head(s) \in S /\ Head(s) = s[1]
           /\ Tail(s) \in Seq(S)
           /\ Len(s) > 0
           /\ Len(Tail(s)) = Len(s) - 1
           /\ Tail(s) = <<>> <=> Len(s) = 1
           /\ \A i \in 1..(Len(s) - 1) : Tail(s)[i] = s[i + 1]
<1>1. Len(s) \in Nat /\ Len(s) # 0
  BY EmptySeq, LenProperties
<1>2. Tail(s) \in Seq(S) /\ Len(Tail(s)) = Len(s) - 1
  BY <1>1, HeadTailProperties
<1>3. Head(s) \in S /\ Head(s) = s[1] /\ \A i \in 1..(Len(s) - 1) : Tail(s)[i] = s[i + 1]
  BY <1>1, <1>2, HeadTailProperties, ElementOfSeq
<1>4. Tail(s) = <<>> <=> Len(Tail(s)) = 0
  BY <1>2, EmptySeq
<1> QED BY <1>1, <1>2, <1>3, <1>4

LEMMA Lengths == ASSUME NEW S, NEW s \in Seq(S)
                 PROVE  Len(s) \in Nat /\ (s = <<>> <=> Len(s) = 0)
BY LenProperties, EmptySeq

LEMMA InvStep == Inv /\ [Next]_vars => Inv'
<1> SUFFICES ASSUME Inv, [Next]_vars PROVE Inv'
  OBVIOUS
<1> USE QueueAssumption
<1>0. /\ que \in Seq(Msg) /\ accepted \in Seq(Msg) /\ wire \in Seq(Msg)
      /\ Len(que) \in Nat /\ Len(accepted) \in Nat /\ Len(wire) \in Nat
      /\ que = <<>> <=> Len(que) = 0
      /\ wire = <<>> <=> Len(wire) = 0
  BY Lengths DEF Inv, TypeOK
<1>1. ASSUME NEW m \in Msg, Send(m) PROVE Inv'
  <2>1. CASE Full
    BY <1>1, <2>1 DEF Inv, TypeOK, OneWrite, Stalled, QueueIsBacklog, Popped, Pending, Send
  <2>2. CASE ~Full
    <3> DEFINE q == Append(que, m)
               a == Append(accepted, m)
    <3>1. /\ que' = q /\ accepted' = a /\ unsent' = unsent \ {m}
          /\ writes' = IF que = <<>> THEN writes + 1 ELSE writes
          /\ UNCHANGED <<wire, ended, socket>>
      BY <1>1, <2>2 DEF Send
    <3>2. /\ q \in Seq(Msg) /\ q # <<>> /\ Len(q) = Len(que) + 1
          /\ q[Len(que) + 1] = m /\ \A i \in 1..Len(que) : q[i] = que[i]
      BY <1>0, Appended
    <3>3. /\ a \in Seq(Msg) /\ Len(a) = Len(accepted) + 1
          /\ a[Len(accepted) + 1] = m
          /\ \A i \in 1..Len(accepted) : a[i] = accepted[i]
      BY <1>0, Appended
    <3> HIDE DEF q, a
    <3>4. TypeOK'
      BY <3>1, <3>2, <3>3 DEF Inv, TypeOK
    <3>5. OneWrite'
      BY <3>1, <3>2 DEF Inv, TypeOK, OneWrite, Stalled, Pending
    <3>6. QueueIsBacklog'
      <4>1. Popped' = Popped /\ Popped \in Nat
        BY <1>0, <3>1 DEF Inv, Popped, QueueIsBacklog
      <4>2. Len(a) = Popped + Len(q)
        BY <1>0, <4>1, <3>2, <3>3 DEF Inv, QueueIsBacklog
      <4>3. ASSUME NEW i \in 1..Len(q) PROVE q[i] = a[Popped + i]
        <5>1. CASE i = Len(q)
          BY <1>0, <5>1, <4>1, <4>2, <3>2, <3>3
        <5>2. CASE i # Len(q)
          <6>1. i \in 1..Len(que) /\ Popped + i \in 1..Len(accepted)
            BY <1>0, <5>2, <4>1, <4>2, <3>2, <3>3
          <6> QED BY <6>1, <3>2, <3>3 DEF Inv, QueueIsBacklog
        <5> QED BY <5>1, <5>2
      <4> QED BY <4>1, <4>2, <4>3, <3>1, <3>2 DEF Inv, QueueIsBacklog
    <3>7. Pending'
      BY <1>0, <2>2, <3>1, <3>2 DEF Inv, TypeOK, Pending, OneWrite, Full
    <3> QED BY <3>4, <3>5, <3>6, <3>7 DEF Inv
  <2> QED BY <2>1, <2>2
<1>2. CASE Write
  <2> DEFINE w == Append(wire, Head(que))
  <2>1. /\ writes > 0 /\ ended = "none" /\ ended' = "ok" /\ wire' = w
        /\ UNCHANGED <<unsent, que, accepted, writes, socket>>
    BY <1>2 DEF Write
  <2>2. que # <<>> /\ Head(que) \in Msg
    BY <1>0, <2>1, Popping DEF Inv, Pending
  <2>3. w \in Seq(Msg) /\ w # <<>> /\ Len(w) = Len(wire) + 1
    BY <1>0, <2>2, Appended
  <2> HIDE DEF w
  <2>4. Popped' = Popped
    BY <1>0, <2>1, <2>3 DEF Popped
  <2> QED BY <1>0, <2>1, <2>2, <2>3, <2>4
          DEF Inv, TypeOK, OneWrite, Stalled, QueueIsBacklog, Pending
<1>3. CASE WriteFails
  BY <1>3 DEF Inv, TypeOK, OneWrite, Stalled, QueueIsBacklog, Popped, Pending, WriteFails
<1>4. CASE Written
  <2> DEFINE q == Tail(que)
  <2>1. /\ ended = "ok" /\ ended' = "none" /\ que' = q
        /\ writes' = IF q = <<>> THEN writes - 1 ELSE writes
        /\ UNCHANGED <<unsent, accepted, wire, socket>>
    BY <1>4 DEF Written
  <2>2. que # <<>> /\ wire # <<>> /\ writes = 1
    BY <2>1 DEF Inv, QueueIsBacklog, Pending
  <2>3. /\ q \in Seq(Msg) /\ Len(q) = Len(que) - 1 /\ Len(que) > 0
        /\ q = <<>> <=> Len(que) = 1
        /\ \A i \in 1..(Len(que) - 1) : q[i] = que[i + 1]
    BY <1>0, <2>2, Popping
  <2> HIDE DEF q
  <2>4. Popped' = Popped + 1 /\ Popped \in Nat
    BY <1>0, <2>1, <2>2 DEF Popped
  <2>5. QueueIsBacklog'
    <3>1. Len(accepted) = Popped' + Len(q)
      BY <1>0, <2>3, <2>4 DEF Inv, QueueIsBacklog
    <3>2. ASSUME NEW i \in 1..Len(q) PROVE q[i] = accepted[Popped' + i]
      <4>1. i + 1 \in 1..Len(que) /\ Popped' + i = Popped + (i + 1)
        BY <1>0, <2>3, <2>4
      <4> QED BY <1>0, <4>1, <2>3 DEF Inv, QueueIsBacklog
    <3> QED BY <2>1, <3>1, <3>2 DEF QueueIsBacklog
  <2>6. TypeOK'
    BY <2>1, <2>2, <2>3 DEF Inv, TypeOK
  <2>7. OneWrite' /\ Pending'
    BY <1>0, <2>1, <2>2, <2>3 DEF Inv, TypeOK, OneWrite, Stalled, Pending
  <2> QED BY <2>5, <2>6, <2>7 DEF Inv
<1>5. CASE Failed
  BY <1>0, <1>5 DEF Inv, TypeOK, OneWrite, Stalled, QueueIsBacklog, Popped, Pending, Failed
<1>6. CASE Break
  BY <1>6 DEF Inv, TypeOK, OneWrite, Stalled, QueueIsBacklog, Popped, Pending, Break
<1>7. CASE Close
  BY <1>7 DEF Inv, TypeOK, OneWrite, Stalled, QueueIsBacklog, Popped, Pending, Close
<1>8. CASE UNCHANGED vars
  BY <1>8 DEF Inv, TypeOK, OneWrite, Stalled, QueueIsBacklog, Popped, Pending, vars
<1> QED BY <1>1, <1>2, <1>3, <1>4, <1>5, <1>6, <1>7, <1>8 DEF Next

LEMMA Invariance == Spec => []Inv
<1>1. Init => Inv
  BY QueueAssumption, EmptySeq
     DEF Init, Inv, TypeOK, OneWrite, Stalled, QueueIsBacklog, Popped, Pending
<1> QED BY <1>1, InvStep, PTL DEF Spec

\* The session's queue keeps its types: the number of writes in flight never
\* becomes negative.
THEOREM TypeCorrect == Spec => []TypeOK
<1>1. Inv => TypeOK
  BY DEF Inv
<1> QED BY <1>1, Invariance, PTL

\* However calls of Send, ends of writes and closes interleave, a write is in
\* flight exactly while there is something to write, and never two.
THEOREM NeverTwoWrites == Spec => []OneWrite
<1>1. Inv => OneWrite
  BY DEF Inv
<1> QED BY <1>1, Invariance, PTL

\* The queue holds what was accepted and not yet written off, in its order: no
\* end of a write, failed or not, loses, repeats or overtakes a message.
THEOREM NothingOvertaken == Spec => []QueueIsBacklog
<1>1. Inv => QueueIsBacklog
  BY DEF Inv
<1> QED BY <1>1, Invariance, PTL

\* The session implements a bounded ordered channel.
THEOREM ImplementsChannel == Spec => ChannelSpec
<1>1. Init => Channel!Init
  BY DEF Init, Channel!Init
<1>2. Inv /\ [Next]_vars => [Channel!Next]_<<accepted, wire, socket # "open">>
  <2> SUFFICES ASSUME Inv, [Next]_vars
               PROVE  Channel!Next \/ UNCHANGED <<accepted, wire, socket # "open">>
    OBVIOUS
  <2>0. Len(que) \in Nat /\ Len(accepted) \in Nat /\ Len(wire) \in Nat
    BY Lengths DEF Inv, TypeOK
  <2>1. ASSUME NEW m \in Msg, Send(m)
        PROVE  Channel!Accept(m) \/ UNCHANGED <<accepted, wire, socket # "open">>
    <3>1. CASE Full
      BY <2>1, <3>1 DEF Send
    <3>2. CASE ~Full
      <4>1. Len(accepted) <= Len(wire) + Len(que)
        BY <2>0 DEF Inv, QueueIsBacklog, Popped
      <4>2. Len(accepted) < Len(wire) + (MAX_SEND_QUEUE + 1)
        BY <2>0, <3>2, <4>1, QueueAssumption DEF Full
      <4> QED BY <2>1, <3>2, <4>2 DEF Send, Channel!Accept
    <3> QED BY <3>1, <3>2
  <2>2. CASE Write
    <3>1. que # <<>> /\ que \in Seq(Msg) /\ ended = "none"
      BY <2>2 DEF Inv, TypeOK, Pending, Write
    <3>2. Head(que) = que[1] /\ Len(que) > 0
      BY <3>1, Popping
    <3>3. Len(wire) < Len(accepted) /\ Head(que) = accepted[Len(wire) + 1]
      BY <2>0, <3>1, <3>2 DEF Inv, QueueIsBacklog, Popped
    <3> QED BY <2>2, <3>3 DEF Write, Channel!Deliver, Channel!Next
  <2>3. CASE WriteFails \/ Written
    BY <2>3 DEF WriteFails, Written
  <2>4. CASE Failed
    BY <2>4 DEF Inv, Pending, Failed
  <2>5. CASE Break \/ Close
    BY <2>5 DEF Break, Close, Channel!Next, Channel!Break
  <2>6. CASE UNCHANGED vars
    BY <2>6 DEF vars
  <2> QED BY <2>1, <2>2, <2>3, <2>4, <2>5, <2>6 DEF Next, Channel!Next
<1> QED BY <1>1, <1>2, Invariance, PTL DEF Spec, ChannelSpec, Channel!Spec

\* What an ordered channel means for the two who use it: the peer has received
\* the first of the accepted messages, and not too many are on their way.
Delivered ==
    /\ Len(wire) <= Len(accepted) /\ Len(accepted) <= Len(wire) + MAX_SEND_QUEUE + 1
    /\ \A i \in 1..Len(wire) : wire[i] = accepted[i]

LEMMA ChannelDelivers == ChannelSpec => []Delivered
<1> DEFINE Typed == accepted \in Seq(Msg) /\ wire \in Seq(Msg)
<1>1. Channel!Init => Typed /\ Delivered
  BY QueueAssumption, EmptySeq DEF Channel!Init, Delivered
<1>2. ASSUME Typed, Delivered, [Channel!Next]_<<accepted, wire, socket # "open">>
      PROVE  Typed' /\ Delivered'
  <2>0. Len(accepted) \in Nat /\ Len(wire) \in Nat /\ MAX_SEND_QUEUE \in Nat
    BY <1>2, Lengths, QueueAssumption
  <2>1. ASSUME NEW m \in Msg, Channel!Accept(m) PROVE Typed' /\ Delivered'
    <3>1. /\ accepted' \in Seq(Msg) /\ Len(accepted') = Len(accepted) + 1
          /\ \A i \in 1..Len(accepted) : accepted'[i] = accepted[i]
          /\ wire' = wire /\ Len(accepted) < Len(wire) + (MAX_SEND_QUEUE + 1)
      BY <1>2, <2>1, Appended DEF Channel!Accept
    <3> QED BY <1>2, <2>0, <3>1 DEF Delivered
  <2>2. CASE Channel!Deliver
    <3>1. Len(wire) + 1 \in 1..Len(accepted) /\ accepted[Len(wire) + 1] \in Msg
      BY <1>2, <2>0, <2>2, ElementOfSeq DEF Channel!Deliver
    <3>2. /\ wire' \in Seq(Msg) /\ Len(wire') = Len(wire) + 1
          /\ \A i \in 1..Len(wire) : wire'[i] = wire[i]
          /\ wire'[Len(wire) + 1] = accepted[Len(wire) + 1] /\ accepted' = accepted
      BY <1>2, <2>2, <3>1, Appended DEF Channel!Deliver
    <3>3. ASSUME NEW i \in 1..(Len(wire) + 1) PROVE wire'[i] = accepted[i]
      <4>1. i \in 1..Len(wire) \/ i = Len(wire) + 1
        BY <2>0
      <4> QED BY <1>2, <3>2, <4>1 DEF Delivered
    <3>4. Len(wire) + 1 <= Len(accepted) /\ Len(accepted) <= (Len(wire) + 1) + MAX_SEND_QUEUE + 1
      BY <1>2, <2>0, <3>1 DEF Delivered
    <3> QED BY <1>2, <3>2, <3>3, <3>4 DEF Delivered
  <2>3. CASE UNCHANGED <<accepted, wire>>
    BY <1>2, <2>3 DEF Delivered
  <2> QED BY <1>2, <2>1, <2>2, <2>3 DEF Channel!Next, Channel!Break
<1> QED BY <1>1, <1>2, PTL DEF ChannelSpec, Channel!Spec

\* The peer of a session receives the messages that Send has accepted in their
\* order, each once, with no other between them, and at most MAX_SEND_QUEUE + 1
\* of them are on their way: what the refinement is for.
THEOREM PeerGetsAccepted == Spec => []Delivered
BY ImplementsChannel, ChannelDelivers, PTL
-----------------------------------------------------------------------------
(* The logic queue *)

HasMutex == {"empty", "sleep", "stop", "handle", "pop", "drain"}

\* There is a message to handle whenever the worker handles one.
FrontThere == wpc \in {"handle", "pop"} => msg_que # <<>>

\* The queue is what was pushed last.
Backlog ==
    /\ Len(msg_que) <= Len(pushed)
    /\ \A i \in 1..Len(msg_que) : msg_que[i] = pushed[Len(pushed) - Len(msg_que) + i]

LogicInv ==
    /\ LogicTypeOK
    /\ mutex <=> wpc \in HasMutex
    /\ wpc = "sleep" => msg_que = <<>>
    /\ wpc = "stop" => msg_que # <<>> \/ stop
    /\ wpc \in {"drain", "ended"} => stop
    /\ stop <=> spc # "running"
    /\ stop => \A m \in Node : ppc[m] # "notify"
    /\ NoLostMessage /\ FrontThere /\ NothingLeft

Ordered == Backlog /\ InOrder

\* What the place of a pushed message is, and when it stays the same.
LEMMA Places ==
    ASSUME NEW i \in Nat
    PROVE  /\ Place(0) = 0
           /\ Place(i) \in Nat
           /\ Place(i + 1) = Place(i) + (IF pushed[i + 1] \in Known THEN 1 ELSE 0)
           /\ \A j \in 1..i : /\ Place(j) \in Nat /\ Place(j) <= Place(i)
                              /\ pushed[j] \in Known => Place(j) > 0
<1> DEFINE At(k) == {j \in 1..k : pushed[j] \in Known}
<1>1. \A k \in Nat : IsFiniteSet(1..k)
  BY FS_Interval
<1>2. \A k \in Nat : IsFiniteSet(At(k)) /\ Cardinality(At(k)) \in Nat
  <2> SUFFICES ASSUME NEW k \in Nat PROVE IsFiniteSet(At(k)) /\ Cardinality(At(k)) \in Nat
    OBVIOUS
  <2>1. IsFiniteSet(At(k))
    BY <1>1, FS_Subset
  <2> QED BY <2>1, FS_CardinalityType
<1>3. Cardinality(At(0)) = 0
  <2>1. At(0) = {}
    OBVIOUS
  <2> QED BY <2>1, FS_EmptySet
<1>4. Cardinality(At(i + 1)) = Cardinality(At(i)) + (IF pushed[i + 1] \in Known THEN 1 ELSE 0)
  <2>1. CASE pushed[i + 1] \in Known
    <3>1. At(i + 1) = At(i) \cup {i + 1} /\ i + 1 \notin At(i)
      BY <2>1
    <3> QED BY <1>2, <2>1, <3>1, FS_AddElement
  <2>2. CASE pushed[i + 1] \notin Known
    <3>1. At(i + 1) = At(i)
      BY <2>2
    <3> QED BY <1>2, <2>2, <3>1
  <2> QED BY <2>1, <2>2
<1>5. ASSUME NEW j \in 1..i PROVE Cardinality(At(j)) <= Cardinality(At(i))
  <2>1. At(j) \subseteq At(i)
    OBVIOUS
  <2> QED BY <1>2, <2>1, FS_Subset
<1>6. ASSUME NEW j \in 1..i, pushed[j] \in Known PROVE Cardinality(At(j)) > 0
  <2>1. j \in At(j)
    BY <1>6
  <2>2. Cardinality(At(j)) # 0
    BY <1>2, <2>1, FS_EmptySet
  <2> QED BY <1>2, <2>2
<1>7. ASSUME NEW k \in Nat PROVE Place(k) = Cardinality(At(k))
  BY DEF Place
<1> HIDE DEF At
<1> QED BY <1>2, <1>3, <1>4, <1>5, <1>6, <1>7

LEMMA SamePlace ==
    ASSUME NEW i \in Nat, \A j \in 1..i : pushed'[j] = pushed[j]
    PROVE  Place(i)' = Place(i)
BY DEF Place

\* How many messages are gone from the queue, the one being popped included.
LEMMA GoneType ==
    ASSUME LogicTypeOK, FrontThere, Backlog
    PROVE  /\ Len(msg_que) \in Nat /\ Len(pushed) \in Nat /\ Len(handled) \in Nat
           /\ Gone \in Nat /\ Gone <= Len(pushed)
           /\ wpc # "pop" => Gone = Len(pushed) - Len(msg_que)
           /\ wpc = "pop" => Gone = Len(pushed) - Len(msg_que) + 1 /\ Len(msg_que) > 0
<1>1. /\ Len(msg_que) \in Nat /\ Len(pushed) \in Nat /\ Len(handled) \in Nat
      /\ msg_que = <<>> <=> Len(msg_que) = 0
  BY Lengths DEF LogicTypeOK
<1> QED BY <1>1 DEF Gone, FrontThere, Backlog

\* Handling the front message puts the next one of the pushed in its place.
LEMMA FrontInOrder ==
    ASSUME LogicTypeOK, FrontThere, Ordered, msg_que # <<>>, wpc # "pop", HandleFront,
           UNCHANGED pushed, Gone' = Gone + 1
    PROVE  InOrder'
<1> DEFINE n == Gone
           place(i) == Place(i)
<1>1. /\ n \in Nat /\ n = Len(pushed) - Len(msg_que) /\ Len(handled) \in Nat
      /\ Len(msg_que) \in Nat /\ Len(pushed) \in Nat /\ Len(msg_que) > 0
  BY GoneType, Lengths DEF Ordered, LogicTypeOK
<1>2. Head(msg_que) = pushed[n + 1]
  <2>1. Head(msg_que) = msg_que[1]
    BY Popping DEF LogicTypeOK
  <2>2. msg_que[1] = pushed[Len(pushed) - Len(msg_que) + 1]
    <3>1. 1 \in 1..Len(msg_que)
      BY <1>1
    <3> QED BY <3>1, Zenon DEF Ordered, Backlog
  <2>3. Len(pushed) - Len(msg_que) + 1 = n + 1
    BY <1>1
  <2> QED BY <2>1, <2>2, <2>3
<1>3. \A i \in Nat : Place(i)' = Place(i)
  BY DEF Place
<1>4. /\ place(n) \in Nat
      /\ place(n + 1) = place(n) + (IF pushed[n + 1] \in Known THEN 1 ELSE 0)
      /\ \A j \in 1..n : place(j) \in Nat /\ place(j) <= place(n)
                         /\ (pushed[j] \in Known => place(j) > 0)
  BY <1>1, Places
<1>5. /\ Len(handled) = place(n)
      /\ \A i \in 1..n : pushed[i] \in Known => handled[place(i)] = pushed[i]
  BY DEF Ordered, InOrder
<1> HIDE DEF n, place
<1>6. Len(handled') = place(n + 1)
      /\ \A i \in 1..(n + 1) : pushed[i] \in Known => handled'[place(i)] = pushed[i]
  <2>1. CASE pushed[n + 1] \in Known
    <3> DEFINE h == Append(handled, pushed[n + 1])
    <3>1. handled' = h
      BY <1>2, <2>1 DEF HandleFront
    <3>2. /\ Len(h) = Len(handled) + 1 /\ h[Len(handled) + 1] = pushed[n + 1]
          /\ \A i \in 1..Len(handled) : h[i] = handled[i]
      BY <2>1, Appended DEF LogicTypeOK
    <3> HIDE DEF h
    <3>3. ASSUME NEW i \in 1..(n + 1), pushed[i] \in Known PROVE h[place(i)] = pushed[i]
      <4>1. CASE i = n + 1
        BY <1>4, <1>5, <2>1, <3>2, <4>1
      <4>2. CASE i # n + 1
        <5>1. i \in 1..n
          BY <1>1, <4>2
        <5>2. place(i) \in 1..Len(handled)
          BY <1>4, <1>5, <3>3, <5>1
        <5> QED BY <1>5, <3>2, <3>3, <5>1, <5>2
      <4> QED BY <4>1, <4>2
    <3> QED BY <1>4, <1>5, <2>1, <3>1, <3>2, <3>3
  <2>2. CASE pushed[n + 1] \notin Known
    <3>1. handled' = handled
      BY <1>2, <2>2 DEF HandleFront
    <3>2. ASSUME NEW i \in 1..(n + 1), pushed[i] \in Known PROVE i \in 1..n
      BY <1>1, <2>2, <3>2
    <3> QED BY <1>4, <1>5, <2>2, <3>1, <3>2
  <2> QED BY <2>1, <2>2
<1> QED BY <1>1, <1>3, <1>6 DEF InOrder, n, place

LEMMA HandleFrontType ==
    ASSUME LogicTypeOK, msg_que # <<>>, HandleFront
    PROVE  handled' \in Seq(Known)
BY Appended DEF LogicTypeOK, HandleFront

LEMMA LogicStep == LogicInv /\ [LogicNext]_logicVars => LogicInv'
<1> SUFFICES ASSUME LogicInv, [LogicNext]_logicVars PROVE LogicInv'
  OBVIOUS
<1> USE DEF HasMutex, NoLostMessage, FrontThere, NothingLeft
<1>1. ASSUME NEW m \in Node, Push(m) PROVE LogicInv'
  <2> DEFINE q == Append(msg_que, m)
             p == Append(pushed, m)
  <2>1. /\ q \in Seq(Node) /\ q # <<>> /\ p \in Seq(Node)
    BY Appended DEF LogicInv, LogicTypeOK
  <2>2. /\ spc = "running" /\ ppc[m] = "new" /\ ~mutex /\ msg_que' = q /\ pushed' = p
        /\ ppc' = [ppc EXCEPT ![m] = IF msg_que = <<>> THEN "notify" ELSE "done"]
        /\ UNCHANGED <<handled, mutex, wpc, stop, spc>>
    BY <1>1 DEF Push
  <2> HIDE DEF q, p
  <2>3. LogicTypeOK'
    BY <2>1, <2>2 DEF LogicInv, LogicTypeOK
  <2>4. NoLostMessage'
    <3>1. CASE msg_que = <<>>
      BY <2>2, <3>1 DEF LogicInv, LogicTypeOK
    <3>2. CASE msg_que # <<>>
      BY <2>2, <3>2 DEF LogicInv, LogicTypeOK
    <3> QED BY <3>1, <3>2
  <2> QED BY <2>1, <2>2, <2>3, <2>4 DEF LogicInv, LogicTypeOK
<1>2. ASSUME NEW m \in Node, Notify(m) PROVE LogicInv'
  BY <1>2 DEF LogicInv, LogicTypeOK, Notify, Woken
<1>3. CASE Lock
  BY <1>3 DEF LogicInv, LogicTypeOK, Lock
<1>4. CASE CheckEmpty
  BY <1>4 DEF LogicInv, LogicTypeOK, CheckEmpty
<1>5. CASE Sleep
  BY <1>5 DEF LogicInv, LogicTypeOK, Sleep
<1>6. CASE WakeSpuriously
  BY <1>6 DEF LogicInv, LogicTypeOK, WakeSpuriously
<1>7. CASE CheckStop
  BY <1>7 DEF LogicInv, LogicTypeOK, CheckStop
<1>8. CASE Handle
  <2>1. handled' \in Seq(Known)
    BY <1>8, HandleFrontType DEF LogicInv, Handle
  <2> QED BY <1>8, <2>1 DEF LogicInv, LogicTypeOK, Handle
<1>9. CASE Pop
  <2>1. msg_que # <<>> /\ Tail(msg_que) \in Seq(Node)
    BY <1>9, Popping DEF LogicInv, LogicTypeOK, Pop
  <2> QED BY <1>9, <2>1 DEF LogicInv, LogicTypeOK, Pop
<1>10. CASE Drain
  <2>1. CASE msg_que # <<>> /\ HandleFront /\ msg_que' = Tail(msg_que) /\ UNCHANGED <<mutex, wpc>>
    <3>1. handled' \in Seq(Known) /\ Tail(msg_que) \in Seq(Node)
      BY <2>1, HandleFrontType, Popping DEF LogicInv, LogicTypeOK
    <3> QED BY <1>10, <2>1, <3>1 DEF LogicInv, LogicTypeOK, Drain
  <2>2. CASE msg_que = <<>> /\ mutex' = FALSE /\ wpc' = "ended" /\ UNCHANGED <<msg_que, handled>>
    BY <1>10, <2>2 DEF LogicInv, LogicTypeOK, Drain
  <2> QED BY <1>10, <2>1, <2>2 DEF Drain
<1>11. CASE SetStop
  BY <1>11 DEF LogicInv, LogicTypeOK, SetStop
<1>12. CASE NotifyStop
  BY <1>12 DEF LogicInv, LogicTypeOK, NotifyStop, Woken
<1>13. CASE Join
  BY <1>13 DEF LogicInv, LogicTypeOK, Join
<1>14. CASE UNCHANGED logicVars
  BY <1>14 DEF LogicInv, LogicTypeOK, logicVars
<1> QED BY <1>1, <1>2, <1>3, <1>4, <1>5, <1>6, <1>7, <1>8, <1>9, <1>10, <1>11, <1>12, <1>13,
           <1>14 DEF LogicNext, Worker, Destructor

LEMMA LogicInvariance == LogicSpec => []LogicInv
<1>1. LogicInit => LogicInv
  BY EmptySeq DEF LogicInit, LogicInv, LogicTypeOK, HasMutex, NoLostMessage, FrontThere, NothingLeft
<1> QED BY <1>1, LogicStep, PTL DEF LogicSpec

\* The queue and its worker keep their types.
THEOREM LogicTypeCorrect == LogicSpec => []LogicTypeOK
<1>1. LogicInv => LogicTypeOK
  BY DEF LogicInv
<1> QED BY <1>1, LogicInvariance, PTL

\* Announcing only the first message of a queue is enough: the worker never
\* waits beside a message that nobody is about to announce.
THEOREM NeverSleepsOverWork == LogicSpec => []NoLostMessage
<1>1. LogicInv => NoLostMessage
  BY DEF LogicInv
<1> QED BY <1>1, LogicInvariance, PTL

\* A worker that has ended has handled everything that was pushed.
THEOREM EndsEmpty == LogicSpec => []NothingLeft
<1>1. LogicInv => NothingLeft
  BY DEF LogicInv
<1> QED BY <1>1, LogicInvariance, PTL

\* A step that leaves the queue, and what was handled, alone.
LEMMA OrderFrame ==
    ASSUME LogicTypeOK, FrontThere, Ordered, UNCHANGED <<msg_que, pushed, handled>>,
           wpc' = "pop" <=> wpc = "pop"
    PROVE  Ordered'
BY DEF Ordered, Backlog, InOrder, Place, Gone

\* A queue without its front is still what was pushed last.
LEMMA BacklogTail ==
    ASSUME LogicTypeOK, Backlog, msg_que # <<>>, msg_que' = Tail(msg_que), UNCHANGED pushed
    PROVE  Backlog' /\ Len(msg_que') = Len(msg_que) - 1
<1> DEFINE q == Tail(msg_que)
<1>1. /\ Len(msg_que) \in Nat /\ Len(pushed) \in Nat /\ Len(msg_que) > 0
      /\ Len(q) = Len(msg_que) - 1
      /\ \A i \in 1..(Len(msg_que) - 1) : q[i] = msg_que[i + 1]
  BY Lengths, Popping DEF LogicTypeOK
<1> HIDE DEF q
<1>2. msg_que' = q
  BY DEF q
<1>3. ASSUME NEW i \in 1..Len(q) PROVE q[i] = pushed[Len(pushed) - Len(q) + i]
  <2>1. i + 1 \in 1..Len(msg_que)
    BY <1>1
  <2>2. Len(pushed) - Len(q) + i = Len(pushed) - Len(msg_que) + (i + 1)
    BY <1>1
  <2> QED BY <1>1, <2>1, <2>2 DEF Backlog
<1> QED BY <1>1, <1>2, <1>3 DEF Backlog

LEMMA OrderStep == LogicInv /\ Ordered /\ [LogicNext]_logicVars => Ordered'
<1> SUFFICES ASSUME LogicInv, Ordered, [LogicNext]_logicVars PROVE Ordered'
  OBVIOUS
<1>0. LogicTypeOK /\ FrontThere
  BY DEF LogicInv
<1>1. ASSUME NEW m \in Node, Push(m) PROVE Ordered'
  <2> DEFINE q == Append(msg_que, m)
             p == Append(pushed, m)
             n == Gone
  <2>1. msg_que' = q /\ pushed' = p /\ UNCHANGED <<handled, wpc>> /\ wpc # "pop"
    BY <1>1 DEF Push, LogicInv, HasMutex
  <2>2. /\ Len(q) = Len(msg_que) + 1 /\ q[Len(msg_que) + 1] = m
        /\ \A i \in 1..Len(msg_que) : q[i] = msg_que[i]
        /\ Len(p) = Len(pushed) + 1 /\ p[Len(pushed) + 1] = m
        /\ \A i \in 1..Len(pushed) : p[i] = pushed[i]
    BY <1>0, Appended DEF LogicTypeOK
  <2>3. /\ Len(msg_que) \in Nat /\ Len(pushed) \in Nat /\ n \in Nat /\ n <= Len(pushed)
        /\ n = Len(pushed) - Len(msg_que) /\ Len(msg_que) <= Len(pushed)
    BY <1>0, <2>1, GoneType DEF Ordered, Backlog
  <2> HIDE DEF q, p
  <2>4. Gone' = n
    BY <2>1, <2>2, <2>3 DEF Gone
  <2>5. Backlog'
    <3>1. ASSUME NEW i \in 1..Len(q) PROVE q[i] = p[Len(p) - Len(q) + i]
      <4>1. CASE i = Len(msg_que) + 1
        BY <2>2, <2>3, <4>1
      <4>2. CASE i # Len(msg_que) + 1
        <5>1. i \in 1..Len(msg_que) /\ Len(pushed) - Len(msg_que) + i \in 1..Len(pushed)
          BY <2>2, <2>3, <4>2
        <5>2. Len(p) - Len(q) + i = Len(pushed) - Len(msg_que) + i
          BY <2>2, <2>3
        <5> QED BY <2>2, <5>1, <5>2 DEF Ordered, Backlog
      <4> QED BY <4>1, <4>2
    <3> QED BY <2>1, <2>2, <2>3, <3>1 DEF Backlog
  <2>6. \A i \in 0..n : Place(i)' = Place(i)
    <3> SUFFICES ASSUME NEW i \in 0..n PROVE Place(i)' = Place(i)
      OBVIOUS
    <3>1. \A j \in 1..i : pushed'[j] = pushed[j]
      BY <2>1, <2>2, <2>3
    <3> QED BY <2>3, <3>1, SamePlace
  <2>7. ASSUME NEW i \in 1..n, pushed'[i] \in Known PROVE handled'[Place(i)'] = pushed'[i]
    <3>1. pushed'[i] = pushed[i] /\ Place(i)' = Place(i)
      BY <2>1, <2>2, <2>3, <2>6
    <3> QED BY <2>1, <2>7, <3>1 DEF Ordered, InOrder
  <2>8. ASSUME NEW k \in Nat, k = n PROVE Len(handled') = Place(k)'
    <3>1. Place(k)' = Place(k)
      BY <2>6, <2>8
    <3> QED BY <2>1, <2>8, <3>1 DEF Ordered, InOrder
  <2> QED BY <2>3, <2>4, <2>5, <2>7, <2>8 DEF Ordered, InOrder
<1>2. CASE Handle
  <2>1. /\ HandleFront /\ wpc = "handle" /\ wpc' = "pop" /\ UNCHANGED <<msg_que, pushed>>
        /\ msg_que # <<>>
    BY <1>2 DEF Handle, LogicInv, FrontThere
  <2>2. Gone' = Gone + 1
    BY <1>0, <2>1, GoneType DEF Gone, Ordered
  <2> QED BY <1>0, <2>1, <2>2, FrontInOrder DEF Ordered, Backlog
<1>3. CASE Pop
  <2>1. /\ wpc = "pop" /\ wpc' = "top" /\ msg_que' = Tail(msg_que) /\ UNCHANGED <<pushed, handled>>
        /\ msg_que # <<>>
    BY <1>3 DEF Pop, LogicInv, FrontThere
  <2>2. Backlog' /\ Len(msg_que') = Len(msg_que) - 1
    BY <1>0, <2>1, BacklogTail DEF Ordered
  <2>3. Gone' = Gone
    BY <1>0, <2>1, <2>2, GoneType DEF Gone, Ordered
  <2> QED BY <2>1, <2>2, <2>3 DEF Ordered, InOrder, Place
<1>4. CASE Drain
  <2>1. CASE msg_que # <<>> /\ HandleFront /\ msg_que' = Tail(msg_que) /\ UNCHANGED <<mutex, wpc>>
    <3>1. wpc = "drain" /\ UNCHANGED pushed
      BY <1>4 DEF Drain
    <3>2. Backlog' /\ Len(msg_que') = Len(msg_que) - 1
      BY <1>0, <2>1, <3>1, BacklogTail DEF Ordered
    <3>3. Gone' = Gone + 1
      BY <1>0, <2>1, <3>1, <3>2, GoneType DEF Gone, Ordered
    <3> QED BY <1>0, <2>1, <3>1, <3>2, <3>3, FrontInOrder DEF Ordered
  <2>2. CASE msg_que = <<>> /\ mutex' = FALSE /\ wpc' = "ended" /\ UNCHANGED <<msg_que, handled>>
    <3>1. wpc = "drain" /\ UNCHANGED pushed
      BY <1>4 DEF Drain
    <3> QED BY <1>0, <2>2, <3>1, OrderFrame
  <2> QED BY <1>4, <2>1, <2>2 DEF Drain
<1>5. ASSUME NEW m \in Node, Notify(m) PROVE Ordered'
  BY <1>0, <1>5, OrderFrame DEF Notify, Woken
<1>6. CASE \/ Lock \/ CheckEmpty \/ Sleep \/ CheckStop
           \/ WakeSpuriously
  BY <1>0, <1>6, OrderFrame DEF Lock, CheckEmpty, Sleep, CheckStop,
                                WakeSpuriously
<1>7. CASE Destructor
  BY <1>0, <1>7, OrderFrame DEF Destructor, SetStop, NotifyStop, Join,
                                Woken
<1>8. CASE UNCHANGED logicVars
  BY <1>0, <1>8, OrderFrame DEF logicVars
<1> QED BY <1>1, <1>2, <1>3, <1>4, <1>5, <1>6, <1>7, <1>8 DEF LogicNext, Worker

\* Every message that has left the queue and has a handler was handled once,
\* in the order of the pushes, also by the drain of a stopped server.
THEOREM HandledInOrder == LogicSpec => []InOrder
<1>1. LogicInit => Ordered
  <2> SUFFICES ASSUME LogicInit PROVE Ordered
    OBVIOUS
  <2>1. /\ msg_que = <<>> /\ pushed = <<>> /\ handled = <<>> /\ wpc = "top"
        /\ Len(msg_que) = 0 /\ Len(pushed) = 0 /\ Len(handled) = 0
    BY DEF LogicInit
  <2>2. Gone = 0 /\ Place(0) = 0
    BY <2>1, Places DEF Gone
  <2> QED BY <2>1, <2>2 DEF Ordered, Backlog, InOrder
<1>2. Ordered => InOrder
  BY DEF Ordered
<1> QED BY <1>1, <1>2, OrderStep, LogicInvariance, PTL DEF LogicSpec
====
