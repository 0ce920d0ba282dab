\* Two streams, cut anywhere; the connection may be lost once.
SPECIFICATION FairSpec
CONSTANTS
    Request <- Requests
    Answer <- Answers
    Width = 8
    Junk = 7
    MaxConnects = 1
INVARIANTS ServerReadsSent ClientReadsSent
PROPERTIES AllRead
\* Everything may have been read.
CHECK_DEADLOCK FALSE
