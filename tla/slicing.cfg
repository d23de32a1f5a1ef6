\* Three objects of the pair, so that either process begins anew; every length up to eight full packets; the sizes scaled down.
CONSTANTS
    PACKET_MAX_SIZE = 9
    PACKET_HEADER_SIZE = 4
    PACKET_MIN_RCV_SIZE = 5
    Lengths = {1, 2, 3, 4, 5, 6, 7, 8, 9, 10, 11, 12, 13, 14, 15, 16, 17, 18, 19, 20,
               21, 22, 23, 24, 25, 26, 27, 28, 29, 30, 31, 32, 33, 34, 35, 36, 37, 38, 39, 40}
    MaxLives = 3
    MaxCalls = 3
    QueueLength = 2
SPECIFICATION BothSpec
INVARIANTS SlicesSound CoversMessage IpcSound
PROPERTIES IpcProgress
\* the message is sent, the pair destroyed
CHECK_DEADLOCK FALSE
