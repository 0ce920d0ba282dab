\* Two messages more than the queue takes.
SPECIFICATION FairSpec
CONSTANTS
    Msg = {m1, m2, m3, m4}
    MAX_SEND_QUEUE = 1
INVARIANTS OneWrite QueueIsBacklog
PROPERTIES ChannelSpec Sent
\* Everything may have been sent, or the connection be closed.
CHECK_DEADLOCK FALSE
