\* Two calls of send(), of two packets and of one, two retransmission requests,
\* stopped and destroyed at any time.
CONSTANTS
    Calls <- TwoThenOne
    MaxRequests = 2
SPECIFICATION FairSpec
INVARIANTS SentInOrder
PROPERTIES NotifiedDrains DestructionEnds
\* the threads end with the object, or wait for ever
CHECK_DEADLOCK FALSE
