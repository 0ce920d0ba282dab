----------------------------- MODULE LogicQueue -----------------------------
(***************************************************************************)
(* The message queue of LogicSystem: I/O threads push, one worker handles  *)
(* the messages and holds _mutex while it does, and the destructor, which  *)
(* runs after main has stopped and joined the I/O threads, stops it.       *)
(* Condition variables are modelled with lost and spurious wake-ups.       *)
(*                                                                         *)
(* Names that every module has begin with Logic here, so that SendQueue,   *)
(* the other queue on the way of a message, can be extended beside it.     *)
(***************************************************************************)
EXTENDS Naturals, Sequences, FiniteSets

CONSTANTS Node,     \* the messages (LogicNode), each pushed once, by a thread of its own
          Known     \* those whose id has a handler

ASSUME KnownAssumption == Known \subseteq Node

VARIABLES
    ppc,        \* per message: new, notify (pushed, notify_one to follow), done
    msg_que,    \* _msg_que
    pushed,     \* all messages pushed, in order
    handled,    \* the messages whose handler has run, in order
    mutex,      \* the worker holds _mutex
    wpc,        \* the worker
    stop,       \* _b_stop
    spc         \* the destructor: its next step

logicVars == <<ppc, msg_que, pushed, handled, mutex, wpc, stop, spc>>

LogicInit ==
    /\ ppc = [m \in Node |-> "new"]
    /\ msg_que = <<>>
    /\ pushed = <<>>
    /\ handled = <<>>
    /\ mutex = FALSE
    /\ wpc = "top"
    /\ stop = FALSE
    /\ spc = "running"

\* notify_one: without effect when the worker does not wait.
Woken == IF wpc = "waiting" THEN "woken" ELSE wpc
-----------------------------------------------------------------------------
(* PustMsg *)

\* Mutant: the notification is left to a second message.
PushSecondNotifies(m) ==
    /\ spc = "running"
    /\ ppc[m] = "new"
    /\ ~mutex
    /\ msg_que' = Append(msg_que, m)
    /\ pushed' = Append(pushed, m)
    /\ ppc' = [ppc EXCEPT ![m] = IF Len(msg_que) = 1 THEN "notify" ELSE "done"]
    /\ UNCHANGED <<handled, mutex, wpc, stop, spc>>

\* Push under the mutex; only the first message of a queue is announced.
Push(m) ==
    /\ spc = "running"
    /\ ppc[m] = "new"
    /\ ~mutex
    /\ msg_que' = Append(msg_que, m)
    /\ pushed' = Append(pushed, m)
    /\ ppc' = [ppc EXCEPT ![m] = IF msg_que = <<>> THEN "notify" ELSE "done"]
    /\ UNCHANGED <<handled, mutex, wpc, stop, spc>>

\* The notification comes after the unlock.
Notify(m) ==
    /\ ppc[m] = "notify"
    /\ ppc' = [ppc EXCEPT ![m] = "done"]
    /\ wpc' = Woken
    /\ UNCHANGED <<msg_que, pushed, handled, mutex, stop, spc>>
-----------------------------------------------------------------------------
(* Run *)

Lock ==
    /\ wpc \in {"top", "woken"}
    /\ ~mutex
    /\ mutex' = TRUE
    /\ wpc' = "empty"
    /\ UNCHANGED <<ppc, msg_que, pushed, handled, stop, spc>>

\* Mutant: the condition of the wait does not read _b_stop.
CheckEmptyOnly ==
    /\ wpc = "empty"
    /\ wpc' = IF msg_que = <<>> THEN "sleep" ELSE "stop"
    /\ UNCHANGED <<ppc, msg_que, pushed, handled, mutex, stop, spc>>

\* The condition of the wait reads the queue and, if it is empty, _b_stop.
CheckEmpty ==
    /\ wpc = "empty"
    /\ wpc' = IF msg_que = <<>> /\ ~stop THEN "sleep" ELSE "stop"
    /\ UNCHANGED <<ppc, msg_que, pushed, handled, mutex, stop, spc>>

\* Between the check and the wait _b_stop may be set and announced.
Sleep ==
    /\ wpc = "sleep"
    /\ mutex' = FALSE
    /\ wpc' = "waiting"
    /\ UNCHANGED <<ppc, msg_que, pushed, handled, stop, spc>>

WakeSpuriously ==
    /\ wpc = "waiting"
    /\ wpc' = "woken"
    /\ UNCHANGED <<ppc, msg_que, pushed, handled, mutex, stop, spc>>

\* Mutant: a stopped worker leaves at once.
CheckStopLeave ==
    /\ wpc = "stop"
    /\ wpc' = IF stop THEN "ended" ELSE "handle"
    /\ mutex' = ~stop
    /\ UNCHANGED <<ppc, msg_que, pushed, handled, stop, spc>>

CheckStop ==
    /\ wpc = "stop"
    /\ wpc' = IF stop THEN "drain" ELSE "handle"
    /\ UNCHANGED <<ppc, msg_que, pushed, handled, mutex, stop, spc>>

\* Mutant: a message without a handler counts as handled.
HandleAny == handled' = Append(handled, Head(msg_que))

\* The handler of the front message, if its id has one.
HandleFront == handled' = IF Head(msg_que) \in Known THEN Append(handled, Head(msg_que)) ELSE handled

Handle ==
    /\ wpc = "handle"
    /\ HandleFront
    /\ wpc' = "pop"
    /\ UNCHANGED <<ppc, msg_que, pushed, mutex, stop, spc>>

\* Mutant: a message without a handler stays at the front.
PopKnown ==
    /\ wpc = "pop"
    /\ msg_que' = IF Head(msg_que) \in Known THEN Tail(msg_que) ELSE msg_que
    /\ mutex' = FALSE
    /\ wpc' = "top"
    /\ UNCHANGED <<ppc, pushed, handled, stop, spc>>

\* The message is popped and the mutex released with the end of the loop body.
Pop ==
    /\ wpc = "pop"
    /\ msg_que' = Tail(msg_que)
    /\ mutex' = FALSE
    /\ wpc' = "top"
    /\ UNCHANGED <<ppc, pushed, handled, stop, spc>>

\* What remains is handled before the worker ends.
Drain ==
    /\ wpc = "drain"
    /\ \/ /\ msg_que # <<>>
          /\ HandleFront
          /\ msg_que' = Tail(msg_que)
          /\ UNCHANGED <<mutex, wpc>>
       \/ /\ msg_que = <<>>
          /\ mutex' = FALSE
          /\ wpc' = "ended"
          /\ UNCHANGED <<msg_que, handled>>
    /\ UNCHANGED <<ppc, pushed, stop, spc>>
-----------------------------------------------------------------------------
(* ~LogicSystem *)

SetStop ==
    /\ spc = "running"
    /\ \A m \in Node : ppc[m] # "notify"       \* the I/O threads were joined
    /\ stop' = TRUE
    /\ spc' = "notify"
    /\ UNCHANGED <<ppc, msg_que, pushed, handled, mutex, wpc>>

NotifyStop ==
    /\ spc = "notify"
    /\ spc' = "join"
    /\ wpc' = Woken
    /\ UNCHANGED <<ppc, msg_que, pushed, handled, mutex, stop>>

Join ==
    /\ spc = "join"
    /\ wpc = "ended"
    /\ spc' = "joined"
    /\ UNCHANGED <<ppc, msg_que, pushed, handled, mutex, wpc, stop>>
-----------------------------------------------------------------------------
Worker == Lock \/ CheckEmpty \/ Sleep \/ CheckStop \/ Handle \/ Pop \/ Drain
Destructor == SetStop \/ NotifyStop \/ Join

LogicNext == (\E m \in Node : Push(m) \/ Notify(m)) \/ Worker \/ WakeSpuriously \/ Destructor

LogicSpec == LogicInit /\ [][LogicNext]_logicVars

\* The worker, a thread that has pushed and the destructor run on; nobody owes
\* a message, an exit or a spurious wake-up.
LogicFairSpec ==
    /\ LogicSpec
    /\ WF_logicVars(Worker)
    /\ \A m \in Node : WF_logicVars(Notify(m))
    /\ WF_logicVars(NotifyStop \/ Join)
-----------------------------------------------------------------------------
LogicTypeOK ==
    /\ ppc \in [Node -> {"new", "notify", "done"}]
    /\ msg_que \in Seq(Node)
    /\ pushed \in Seq(Node)
    /\ handled \in Seq(Known)
    /\ mutex \in BOOLEAN
    /\ wpc \in {"top", "empty", "sleep", "waiting", "woken", "stop", "handle", "pop",
                "drain", "ended"}
    /\ stop \in BOOLEAN
    /\ spc \in {"running", "notify", "join", "joined"}

\* The worker never sleeps over a message: it waits beside a full queue only
\* while the thread that pushed is about to wake it.
NoLostMessage ==
    wpc = "waiting" /\ msg_que # <<>> => \E m \in Node : ppc[m] = "notify"

\* The messages are handled once each, in the order of their pushes, those
\* without a handler skipped: the i-th that was pushed, if it is gone from the
\* queue and has a handler, was handled as one of the first i with a handler.
Gone == Len(pushed) - Len(msg_que) + (IF wpc = "pop" THEN 1 ELSE 0)
Place(i) == Cardinality({j \in 1..i : pushed[j] \in Known})
InOrder ==
    /\ Len(handled) = Place(Gone)
    /\ \A i \in 1..Gone : pushed[i] \in Known => handled[Place(i)] = pushed[i]

\* A worker that has ended has handled every message that was pushed.
NothingLeft == wpc = "ended" => msg_que = <<>>

\* Every message with a handler is handled, also when the server exits.
Handled == \A m \in Known : ppc[m] # "new" ~> \E i \in DOMAIN handled : handled[i] = m

\* The destructor gets the worker to end and the process exits, also when the
\* worker is busy, drains a queue or was just woken; except when _b_stop is set
\* and announced between the worker's check and its wait, which the destructor
\* does not exclude, as it does not take _mutex.
ExitsUnlessMissed == spc = "notify" /\ wpc # "sleep" ~> spc = "joined"
=============================================================================
