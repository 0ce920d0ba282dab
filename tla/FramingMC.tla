----------------------------- MODULE FramingMC -----------------------------
EXTENDS Framing

\* Empty bodies and long ones, next to each other.
Requests == <<1, 0>>
Answers == <<2, 0>>
=============================================================================
