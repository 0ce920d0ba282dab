------------------------------ MODULE UploadMC ------------------------------
\* Two users; the first one uploads a song and tries again, or uploads another.
EXTENDS Upload, TLC

CONSTANTS alice, bob, s1, s2

Tries == (alice :> 2) @@ (bob :> 1)
OneTry == (alice :> 1) @@ (bob :> 1)
BothHas == (alice :> {s1, s2}) @@ (bob :> {s1})
EachHas == (alice :> {s1}) @@ (bob :> {s2})
=============================================================================
