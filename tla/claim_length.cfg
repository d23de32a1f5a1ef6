\* A message of two packets over a network that reorders.
CONSTANTS
    m1 = m1
    m2 = m2
    Messages = {m1}
    NoMsg = NoMsg
    SeqIDs = {1}
    Payloads <- OneOfTwo
    FullSlice = 2
    LastSlice = 1
    Latencies = {1}
    RetryTimeouts = {1}
    RetryLimit = 3
    LostAfter = 5
    ExpireAfter = 3
    Lifetime = 1
    WordSize = 4
    FloatStep = 2
    Saturates = TRUE
    Epoch = 4
    TickLength = 2
    LastTime = 8
    LastSend = 8
    MaxQueued = 2
    MaxBuffered = 3
    Duplicates = FALSE
    Damages = FALSE
    Builtins = {}
    RacingSenders = FALSE
SPECIFICATION Spec
INVARIANT TotalLengthDelivered
\* the bounds on time and packets end every behaviour
CHECK_DEADLOCK FALSE
