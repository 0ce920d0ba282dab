----------------------------- MODULE SendQueue -----------------------------
(***************************************************************************)
(* The outgoing messages of one Session.  Session::Send is called by the   *)
(* LogicSystem worker, by the gRPC threads that kick, never waits, and     *)
(* keeps at most one asynchronous write in flight; HandleWrite runs on the *)
(* I/O thread when that write has ended.  Both hold _send_mutex, so each   *)
(* is one step.  asio writes the front of the queue in the meantime, or    *)
(* fails because the peer is gone or the socket was closed.                *)
(***************************************************************************)
EXTENDS Naturals, Sequences

CONSTANTS Msg,              \* the messages to be sent, each by one call of Send
          MAX_SEND_QUEUE    \* full above this length

ASSUME QueueAssumption == MAX_SEND_QUEUE \in Nat

VARIABLES
    unsent,     \* calls of Send still to come
    que,        \* _send_que: its front is the message being written
    accepted,   \* the messages put into the queue, in order
    wire,       \* the messages the peer receives, in order
    writes,     \* asynchronous writes in flight
    ended,      \* how the write ended: none, ok or err, HandleWrite to follow
    socket      \* open, broken (the peer is gone) or closed

vars == <<unsent, que, accepted, wire, writes, ended, socket>>

Init ==
    /\ unsent = Msg
    /\ que = <<>>
    /\ accepted = <<>>
    /\ wire = <<>>
    /\ writes = 0
    /\ ended = "none"
    /\ socket = "open"

Full == Len(que) > MAX_SEND_QUEUE

\* Mutant: one write per message, whatever is in flight.
SendAndWrite(m) ==
    /\ m \in unsent
    /\ unsent' = unsent \ {m}
    /\ IF Full
         THEN UNCHANGED <<que, accepted, writes>>
         ELSE /\ que' = Append(que, m)
              /\ accepted' = Append(accepted, m)
              /\ writes' = writes + 1
    /\ UNCHANGED <<wire, ended, socket>>

\* A full queue drops the message; only the first message starts a write.
Send(m) ==
    /\ m \in unsent
    /\ unsent' = unsent \ {m}
    /\ IF Full
         THEN UNCHANGED <<que, accepted, writes>>
         ELSE /\ que' = Append(que, m)
              /\ accepted' = Append(accepted, m)
              /\ writes' = IF que = <<>> THEN writes + 1 ELSE writes
    /\ UNCHANGED <<wire, ended, socket>>

\* asio writes the front of the queue to an open socket ...
Write ==
    /\ writes > 0
    /\ ended = "none"
    /\ socket = "open"
    /\ wire' = Append(wire, Head(que))
    /\ ended' = "ok"
    /\ UNCHANGED <<unsent, que, accepted, writes, socket>>

\* ... or fails.
WriteFails ==
    /\ writes > 0
    /\ ended = "none"
    /\ socket # "open"
    /\ ended' = "err"
    /\ UNCHANGED <<unsent, que, accepted, wire, writes, socket>>

\* Mutant: HandleWrite goes on with the next message before it pops.
WrittenNotPopped ==
    /\ ended = "ok"
    /\ ended' = "none"
    /\ que' = IF Len(que) > 1 THEN que ELSE Tail(que)
    /\ writes' = IF que' = <<>> THEN writes - 1 ELSE writes
    /\ UNCHANGED <<unsent, accepted, wire, socket>>

\* Mutant: after a message the next one waits for another Send.
WrittenNoNext ==
    /\ ended = "ok"
    /\ ended' = "none"
    /\ que' = Tail(que)
    /\ writes' = writes - 1
    /\ UNCHANGED <<unsent, accepted, wire, socket>>

\* HandleWrite after a success: pop, and write the next message if any.
Written ==
    /\ ended = "ok"
    /\ ended' = "none"
    /\ que' = Tail(que)
    /\ writes' = IF Tail(que) = <<>> THEN writes - 1 ELSE writes
    /\ UNCHANGED <<unsent, accepted, wire, socket>>

\* Mutant: the failed message is popped like a written one.
FailedPopped ==
    /\ ended = "err"
    /\ ended' = "none"
    /\ writes' = writes - 1
    /\ que' = Tail(que)
    /\ socket' = "closed"
    /\ UNCHANGED <<unsent, accepted, wire>>

\* HandleWrite after a failure: Close; the queue stays as it is.
Failed ==
    /\ ended = "err"
    /\ ended' = "none"
    /\ writes' = writes - 1
    /\ socket' = "closed"
    /\ UNCHANGED <<unsent, que, accepted, wire>>

\* The peer goes away.
Break ==
    /\ socket = "open"
    /\ socket' = "broken"
    /\ UNCHANGED <<unsent, que, accepted, wire, writes, ended>>

\* Session::Close, by the timer or after a failed read.
Close ==
    /\ socket # "closed"
    /\ socket' = "closed"
    /\ UNCHANGED <<unsent, que, accepted, wire, writes, ended>>

Next ==
    \/ \E m \in Msg : Send(m)
    \/ Write \/ WriteFails \/ Written \/ Failed \/ Break \/ Close

Spec == Init /\ [][Next]_vars

\* asio completes every write and runs its handler.
FairSpec == Spec /\ WF_vars(Write \/ WriteFails) /\ WF_vars(Written \/ Failed)
-----------------------------------------------------------------------------
TypeOK ==
    /\ unsent \subseteq Msg
    /\ que \in Seq(Msg)
    /\ accepted \in Seq(Msg)
    /\ wire \in Seq(Msg)
    /\ writes \in Nat
    /\ ended \in {"none", "ok", "err"}
    /\ socket \in {"open", "broken", "closed"}

\* A write is in flight exactly while there is something to write, and never
\* two: overlapping calls of Send, or a Send that meets the end of a write,
\* neither mix the bytes of two messages nor leave one lying.  After a failed
\* write nothing is written any more.
Stalled == socket = "closed" /\ que # <<>> /\ writes = 0
OneWrite == writes = (IF que = <<>> \/ Stalled THEN 0 ELSE 1)

\* The queue holds just the accepted messages that are not popped yet; one
\* that is on the wire stays at the front until HandleWrite has run.
Popped == IF ended = "ok" THEN Len(wire) - 1 ELSE Len(wire)
QueueIsBacklog ==
    /\ ended = "ok" => que # <<>> /\ wire # <<>>
    /\ Len(accepted) = Popped + Len(que)
    /\ \A i \in 1..Len(que) : que[i] = accepted[Popped + i]

\* The session implements an ordered channel of MAX_SEND_QUEUE + 1 messages.
Channel == INSTANCE OrderedChannel WITH Capacity <- MAX_SEND_QUEUE + 1,
                                        broken <- (socket # "open")
ChannelSpec == Channel!Spec

\* What was accepted reaches the wire unless the connection fails.
Sent == \A m \in Msg :
    (\E i \in DOMAIN accepted : accepted[i] = m)
        ~> (socket # "open" \/ \E i \in DOMAIN wire : wire[i] = m)
=============================================================================
