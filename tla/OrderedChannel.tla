--------------------------- MODULE OrderedChannel ---------------------------
(***************************************************************************)
(* What a session promises to those who send through it: the peer gets the *)
(* accepted messages in their order, nothing else, nothing after a break,  *)
(* and at most Capacity messages are on their way.                         *)
(***************************************************************************)
EXTENDS Naturals, Sequences

CONSTANTS Msg, Capacity

VARIABLES accepted, wire, broken

Init == accepted = <<>> /\ wire = <<>> /\ broken = FALSE

Accept(m) ==
    /\ Len(accepted) < Len(wire) + Capacity
    /\ accepted' = Append(accepted, m)
    /\ UNCHANGED <<wire, broken>>

Deliver ==
    /\ ~broken
    /\ Len(wire) < Len(accepted)
    /\ wire' = Append(wire, accepted[Len(wire) + 1])
    /\ UNCHANGED <<accepted, broken>>

Break ==
    /\ broken' = TRUE
    /\ UNCHANGED <<accepted, wire>>

Next == (\E m \in Msg : Accept(m)) \/ Deliver \/ Break

Spec == Init /\ [][Next]_<<accepted, wire, broken>>
=============================================================================
