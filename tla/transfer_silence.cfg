\* One message, then silence: the peer acknowledges, replies, damages and leaves
\* as it likes until LastSend, the connection must still come to an end.
CONSTANTS
    m1 = m1
    m2 = m2
    Messages = {m1}
    NoMsg = NoMsg
    SeqIDs = {1}
    Payloads <- OneOfTwo
    FullSlice = 2
    LastSlice = 1
    Latencies <- UnmeasuredOrOne
    RetryTimeouts = {1}
    RetryLimit = 3
    LostAfter = 5
    ExpireAfter = 3
    Lifetime = 1
    WordSize = 4
    FloatStep = 2
    Saturates = FALSE
    Epoch = 4
    TickLength = 2
    LastTime = 16
    LastSend = 8
    MaxQueued = 2
    MaxBuffered = 2
    Duplicates = FALSE
    Damages = TRUE
    Builtins = {"Ack", "RetransmissionAck", "RetransmissionReply"}
    RacingSenders = FALSE
SPECIFICATION FairSpec
INVARIANTS TypeOK
PROPERTIES SilentPeerGivenUp OnlyLaggingDelivers
\* the bounds on time and packets end every behaviour
CHECK_DEADLOCK FALSE
