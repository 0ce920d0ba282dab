\* Pushes against the worker and an exit at any time.
SPECIFICATION LogicFairSpec
CONSTANTS
    Node = {m1, m2, m3, m4}
    Known <- Some
INVARIANTS NoLostMessage InOrder NothingLeft
PROPERTIES Handled ExitsUnlessMissed
\* The worker may wait for good, and does after its end.
CHECK_DEADLOCK FALSE
