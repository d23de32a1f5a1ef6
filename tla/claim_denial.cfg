\* One peer that says goodbye.
CONSTANTS
    Addrs = {a1}
    Heartbeat = 1
    UpdateEvery = 2
    LostAfter = 2
    DenyFor = 1
    PerSecond = 4
    Epoch = 10
    LastTime = 14
    MaxPackets = 3
    MaxWaiting = 2
SPECIFICATION Spec
PROPERTIES KeptUntilTimeToRemove
\* the update thread ends with the server
CHECK_DEADLOCK FALSE
