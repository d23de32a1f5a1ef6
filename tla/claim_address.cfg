\* Two calls of send(), of two packets and of one, two retransmission requests.
CONSTANTS
    Calls <- TwoThenOne
    MaxRequests = 2
SPECIFICATION Spec
INVARIANTS RepliesReachPeer
\* the threads end with the object, or wait for ever
CHECK_DEADLOCK FALSE
