\* Two peers, four packets, four heartbeats; the owner stops at any time.
CONSTANTS
    Addrs = {a1, a2}
    Heartbeat = 1
    UpdateEvery = 2
    LostAfter = 2
    DenyFor = 1
    PerSecond = 4
    Epoch = 10
    LastTime = 14
    MaxPackets = 4
    MaxWaiting = 2
SPECIFICATION Spec
SYMMETRY AddrSymmetry
INVARIANTS NobodyDenied LastWord
PROPERTIES GoodbyeRemoves
\* the update thread ends with the server
CHECK_DEADLOCK FALSE
