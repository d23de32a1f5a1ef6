\* Two messages that may share a sequence identifier, over a network that
\* duplicates, loses and reorders; conversions saturate, so sequences live on.
CONSTANTS
    m1 = m1
    m2 = m2
    Messages = {m1, m2}
    NoMsg = NoMsg
    SeqIDs = {1, 2}
    Payloads <- ThreeAndTwo
    FullSlice = 2
    LastSlice = 1
    Latencies = {1}
    RetryTimeouts = {1}
    RetryLimit = 3
    LostAfter = 5
    ExpireAfter = 3
    Lifetime = 1
    WordSize = 4
    FloatStep = 2
    Saturates = TRUE
    Epoch = 4
    TickLength = 2
    LastTime = 8
    LastSend = 8
    MaxQueued = 2
    MaxBuffered = 3
    Duplicates = TRUE
    Damages = FALSE
    Builtins = {}
    RacingSenders = TRUE
SPECIFICATION Spec
INVARIANTS DeliveredAsSent SequenceFound RequestsHaveSequence
\* the bounds on time and packets end every behaviour
CHECK_DEADLOCK FALSE
