\* Two clients of a user, three songs, two clicks, two failing statements.
SPECIFICATION Spec
CONSTANTS
    Client = {c1, c2}
    Song = {s1, s2, s3}
    None = None
    MaxClicks = 2
    MaxOpens = 1
    MaxPending = 2
    MaxLogins = 1
    MaxFaults = 2
SYMMETRY Alike
INVARIANTS OneList HeartsAgree PageAgrees
PROPERTIES ListInOrder
\* Users need not click.
CHECK_DEADLOCK FALSE
