SPECIFICATION Spec
CONSTANTS
  Screens = {0, 1, 2}
  NextOf <- NextLinks
  PrevOf <- PrevLinks
  Keys = {k1, k2}
  MaxEvents = 2
  MaxEntries = 2
  PIDs = {1, 2, 3}
  MaxArrivals = 3
\* the game ends or crashes, every child was reaped, the client is destroyed or
\* its destructor waits for a thread that sleeps
CHECK_DEADLOCK FALSE
INVARIANTS ScreensSound PressSeenInItsFrame ListTellsChildren ClientHears
PROPERTIES RequestsHonoured ZombieReaped ClientProgress
