----------------------------- MODULE GameProofs -----------------------------
(***************************************************************************)
(* What holds of the main loop, the child processes and the network client *)
(* for every number of screens, keys, children and packets.                *)
(***************************************************************************)
EXTENDS MCGame, FiniteSetTheorems, SequenceTheorems, TLAPS

-----------------------------------------------------------------------------
(* The screens *)

Playing == pc \in {"frame", "screen", "draw"}

\* Between init() and exitGame() there is a current screen, and the list stands
\* on it; what it asked for leads to a screen that may be entered once more.
\* Before init(), nothing was entered.
ScreensInv ==
  /\ GameTypeOK
  /\ log \in [pressed : SUBSET Keys, events : Int]
  /\ ScreensPaired
  /\ entries \in [Screens -> 0 .. MaxEntries]
  /\ Playing \/ pc \in {"exit", "ended"} => currentScreen \in Screens /\ index = currentScreen
  /\ Playing /\ state[currentScreen] = "CHANGE_NEXT" => entries[Moved(NextOf, index)] < MaxEntries
  /\ Playing /\ state[currentScreen] = "CHANGE_PREVIOUS" => entries[Moved(PrevOf, index)] < MaxEntries
  /\ pc = "init" => \A s \in Screens : entries[s] = 0 /\ exits[s] = 0

LEMMA NoScreenIsNone == NO_SCREEN \notin Screens
BY ScreensAssumption DEF NO_SCREEN

\* moveNext() and movePrevious() stay in the list.
LEMMA MovedIsScreen ==
    ASSUME NEW i \in Screens
    PROVE  Moved(NextOf, i) \in Screens /\ Moved(PrevOf, i) \in Screens
BY LinksAssumption DEF Moved

\* What is kept of the last request is a request, whatever step is taken.
LEMMA AskedIsTyped ==
    ASSUME GameTypeOK, [GameNext]_gameVars
    PROVE  asked' \in [what : ScreenState, where : {"first", "entry", "update"}]
<1>1. \A i, f, where : \A after \in Asks(i, f) :
        where \in {"first", "entry", "update"} =>
          Asked(after, where) \in [what : ScreenState, where : {"first", "entry", "update"}]
  BY DEF Asks, Asked, ScreenState
<1>2. CASE EnterFirst
  BY <1>1, <1>2 DEF EnterFirst
<1>3. CASE Change
  BY <1>1, <1>3 DEF Change, ChangeScreen
<1>4. CASE ScreenReturns
  BY <1>1, <1>4 DEF ScreenReturns, GameTypeOK
<1>5. CASE UNCHANGED asked
  BY <1>5 DEF GameTypeOK
<1>6. EnterFirst \/ Change \/ ScreenReturns \/ UNCHANGED asked
  BY DEF GameNext, Thread, NoFirstScreen, Crash, UpdateRunning, ExitApplication, Draw, ExitGame,
     Destroy, Quit, PressKey, ReleaseKey, UnchangedByEvent, gameVars
<1> QED BY <1>2, <1>3, <1>4, <1>5, <1>6

LEMMA ScreensInit ==
    ASSUME GameInit
    PROVE  ScreensInv
<1>1. GameTypeOK
  <2>1. state \in [Screens -> ScreenState]
    BY DEF GameInit, ScreenState
  <2>2. {entries, exits} \subseteq [Screens -> 0 .. MaxEntries + 1]
    BY EntriesAssumption DEF GameInit
  <2>3. log.pressed = {} /\ keyMap = {} /\ previousKeyMap = {}
    BY DEF GameInit, Quiet
  <2>4. asked \in [what : ScreenState, where : {"first", "entry", "update"}]
    BY DEF GameInit, Asked, ScreenState
  <2>5. /\ pc = "init" /\ isRunning = FALSE /\ index \in Screens \cup {NO_SCREEN}
        /\ currentScreen = NO_SCREEN
    BY DEF GameInit
  <2> QED BY <2>1, <2>2, <2>3, <2>4, <2>5 DEF GameTypeOK
<1>2. log \in [pressed : SUBSET Keys, events : Int]
  BY DEF GameInit, Quiet
<1>3. entries \in [Screens -> 0 .. MaxEntries] /\ \A s \in Screens : entries[s] = 0 /\ exits[s] = 0
  BY EntriesAssumption DEF GameInit
<1> QED BY <1>1, <1>2, <1>3 DEF GameInit, ScreensInv, ScreensPaired, Playing

\* A change of screens: the old one is left, the new one entered, in this order
\* also when they are the same.
LEMMA ChangeKeepsScreensInv ==
    ASSUME ScreensInv, NEW link \in {NextOf, PrevOf}, NEW request,
           [GameNext]_gameVars, ChangeScreen(request, link),
           entries[Moved(link, index)] < MaxEntries
    PROVE  ScreensInv'
<1> DEFINE new == Moved(link, index)
<1>a. asked' \in [what : ScreenState, where : {"first", "entry", "update"}]
  BY AskedIsTyped DEF ScreensInv
<1>1. pc = "frame" /\ pc' = "draw" /\ currentScreen \in Screens /\ index = currentScreen
  BY DEF ChangeScreen, ScreensInv, Playing
<1>2. new \in Screens
  BY <1>1, MovedIsScreen
<1>3. entries \in [Screens -> 0 .. MaxEntries] /\ exits \in [Screens -> 0 .. MaxEntries + 1]
  BY DEF ScreensInv, GameTypeOK
<1>4. \A s \in Screens : IF s = currentScreen THEN Inside(s) = 1 ELSE Inside(s) = 0
  BY <1>1 DEF ScreensInv, ScreensPaired
<1>5. /\ exits' = [exits EXCEPT ![currentScreen] = @ + 1]
      /\ entries' = [entries EXCEPT ![new] = @ + 1]
      /\ index' = new /\ currentScreen' = new /\ UNCHANGED isRunning
      /\ previousKeyMap' = keyMap /\ log' = Quiet /\ UNCHANGED keyMap
  BY DEF ChangeScreen, Count, UpdateInput
<1>6. PICK after \in Asks(new, entries') : state' = [state EXCEPT ![new] = after]
  BY DEF ChangeScreen, Count
<1>7. entries[new] < MaxEntries
  OBVIOUS
<1> HIDE DEF new
<1>8. entries' \in [Screens -> 0 .. MaxEntries]
  BY <1>2, <1>3, <1>5, <1>7, EntriesAssumption
<1>9. exits' \in [Screens -> 0 .. MaxEntries + 1]
  <2>1. exits[currentScreen] = entries[currentScreen] - 1
    BY <1>1, <1>3, <1>4 DEF Inside
  <2> QED BY <1>1, <1>3, <1>5, <2>1, EntriesAssumption
<1>10. after \in ScreenState
  BY <1>6 DEF Asks, ScreenState
<1>11. state' \in [Screens -> ScreenState] /\ state'[new] = after
  BY <1>2, <1>6, <1>10 DEF ScreensInv, GameTypeOK
<1>12. GameTypeOK' /\ (log \in [pressed : SUBSET Keys, events : Int])'
  BY <1>a, <1>1, <1>2, <1>5, <1>8, <1>9, <1>11, EntriesAssumption DEF ScreensInv, GameTypeOK, Quiet
<1>13. \A s \in Screens : IF s = new THEN Inside(s)' = 1 ELSE Inside(s)' = 0
  BY <1>1, <1>2, <1>3, <1>4, <1>5 DEF Inside
<1>14. ScreensPaired'
  BY <1>1, <1>5, <1>13 DEF ScreensPaired
<1>15. /\ after = "CHANGE_NEXT" => entries'[Moved(NextOf, new)] < MaxEntries
       /\ after = "CHANGE_PREVIOUS" => entries'[Moved(PrevOf, new)] < MaxEntries
  BY <1>6 DEF Asks
<1> QED BY <1>1, <1>2, <1>5, <1>8, <1>11, <1>12, <1>14, <1>15 DEF ScreensInv, Playing, Moved

LEMMA ScreensStep ==
    ASSUME ScreensInv, [GameNext]_gameVars
    PROVE  ScreensInv'
<1>0. /\ entries \in [Screens -> 0 .. MaxEntries] /\ exits \in [Screens -> 0 .. MaxEntries + 1]
      /\ state \in [Screens -> ScreenState]
  BY DEF ScreensInv, GameTypeOK
<1>a. asked' \in [what : ScreenState, where : {"first", "entry", "update"}]
  BY AskedIsTyped DEF ScreensInv
<1>1. CASE EnterFirst
  <2>1. index \in Screens /\ index' = index /\ currentScreen' = index /\ pc = "init" /\ pc' = "frame"
    BY <1>1 DEF EnterFirst, ScreensInv, GameTypeOK
  <2>2. entries' = [entries EXCEPT ![index] = 1] /\ exits' = exits
    <3>1. entries[index] = 0 /\ entries[index] + 1 = 1
      BY <2>1 DEF ScreensInv
    <3> QED BY <1>1, <3>1 DEF EnterFirst, Count
  <2>3. GameTypeOK' /\ (log \in [pressed : SUBSET Keys, events : Int])'
    <3>1. state' \in [Screens -> ScreenState] /\ isRunning' \in BOOLEAN
      BY <1>0, <1>1, <2>1 DEF EnterFirst, ScreenState
    <3>2. {entries, exits}' \subseteq [Screens -> 0 .. MaxEntries + 1]
      BY <1>0, <2>1, <2>2, EntriesAssumption
    <3> QED BY <1>1, <1>a, <2>1, <3>1, <3>2 DEF EnterFirst, UnchangedKeys, ScreensInv, GameTypeOK
  <2>4. ScreensPaired'
    BY <1>0, <2>1, <2>2 DEF ScreensInv, ScreensPaired, Inside
  <2>5. state'[index] = "RUNNING"
    BY <1>0, <1>1, <2>1 DEF EnterFirst
  <2> QED BY <1>0, <2>1, <2>2, <2>3, <2>4, <2>5, EntriesAssumption DEF ScreensInv, Playing
<1>2. CASE NoFirstScreen
  BY <1>2 DEF NoFirstScreen, Crash, ScreensInv, GameTypeOK, ScreensPaired, Playing
<1>3. CASE UpdateRunning
  <2>1. pc = "frame" /\ pc' = "screen" /\ UNCHANGED <<isRunning, index, currentScreen, state, entries, exits>>
        /\ previousKeyMap' = keyMap /\ log' = Quiet /\ UNCHANGED keyMap
    BY <1>3 DEF UpdateRunning, UpdateInput
  <2> QED BY <1>a, <2>1 DEF ScreensInv, GameTypeOK, ScreensPaired, Playing, Quiet, Inside
<1>4. CASE ChangeScreen("CHANGE_NEXT", NextOf)
  BY <1>4, ChangeKeepsScreensInv DEF ChangeScreen, ScreensInv, Playing
<1>5. CASE ChangeScreen("CHANGE_PREVIOUS", PrevOf)
  BY <1>5, ChangeKeepsScreensInv DEF ChangeScreen, ScreensInv, Playing
<1>6. CASE ExitApplication
  <2>1. /\ pc = "frame" /\ pc' = "exit" /\ UNCHANGED <<index, currentScreen, state, entries, keyMap>>
        /\ exits' = [exits EXCEPT ![currentScreen] = @ + 1] /\ isRunning' = FALSE
        /\ previousKeyMap' = keyMap /\ log' = Quiet /\ IsExit(currentScreen)
    BY <1>6 DEF ExitApplication, UpdateInput, Count, IsExit
  <2>2. currentScreen \in Screens /\ index = currentScreen
    BY <2>1 DEF ScreensInv, Playing
  <2>3. \A s \in Screens : IF s = currentScreen THEN Inside(s) = 1 ELSE Inside(s) = 0
    BY <2>1 DEF ScreensInv, ScreensPaired
  <2>4. exits' \in [Screens -> 0 .. MaxEntries + 1]
    BY <1>0, <2>1, <2>2, <2>3, EntriesAssumption DEF Inside
  <2>5. \A s \in Screens : Inside(s)' = 0
    BY <1>0, <2>1, <2>2, <2>3 DEF Inside
  <2>6. ScreensPaired'
    BY <2>1, <2>2, <2>5 DEF ScreensPaired, IsExit
  <2>7. GameTypeOK' /\ (log \in [pressed : SUBSET Keys, events : Int])'
    <3>1. log' \in [pressed : SUBSET Keys, events : Int] /\ log'.pressed = {}
      BY <2>1 DEF Quiet
    <3>2. {entries, exits}' \subseteq [Screens -> 0 .. MaxEntries + 1]
      BY <1>0, <2>1, <2>4, EntriesAssumption
    <3> QED BY <1>a, <2>1, <3>1, <3>2 DEF ScreensInv, GameTypeOK
  <2> QED BY <2>1, <2>2, <2>6, <2>7 DEF ScreensInv, Playing
<1>7. CASE ScreenReturns
  <2>1. /\ pc = "screen" /\ pc' \in {"draw", "exit"}
        /\ UNCHANGED <<isRunning, index, currentScreen, entries, exits, keyMap, previousKeyMap, log>>
    BY <1>7 DEF ScreenReturns, UnchangedKeys
  <2>2. PICK after \in Asks(index, entries) : state' = [state EXCEPT ![currentScreen] = after]
    BY <1>7 DEF ScreenReturns
  <2>3. currentScreen \in Screens /\ index = currentScreen
    BY <2>1 DEF ScreensInv, Playing
  <2>4. after \in ScreenState
    BY <2>2 DEF Asks, ScreenState
  <2>5. state' \in [Screens -> ScreenState] /\ state'[currentScreen] = after
    BY <1>0, <2>2, <2>3, <2>4
  <2>6. \A s \in Screens : IF s = currentScreen THEN Inside(s)' = 1 ELSE Inside(s)' = 0
    BY <2>1 DEF ScreensInv, ScreensPaired, Inside
  <2>7. ScreensPaired'
    BY <2>1, <2>6 DEF ScreensPaired
  <2>8. /\ after = "CHANGE_NEXT" => entries[Moved(NextOf, index)] < MaxEntries
        /\ after = "CHANGE_PREVIOUS" => entries[Moved(PrevOf, index)] < MaxEntries
    BY <2>2 DEF Asks
  <2> QED BY <1>a, <2>1, <2>3, <2>5, <2>7, <2>8 DEF ScreensInv, GameTypeOK, Playing, Moved
<1>8. CASE Draw
  BY <1>8 DEF Draw, UnchangedKeys, ScreensInv, GameTypeOK, ScreensPaired, Playing, Inside, IsExit
<1>9. CASE ExitGame
  <2>1. /\ pc = "exit" /\ pc' = "ended" /\ isRunning' = FALSE
        /\ UNCHANGED <<index, currentScreen, state, entries, keyMap, previousKeyMap, log>>
        /\ exits' = [exits EXCEPT ![currentScreen] = @ + 1]
    BY <1>9 DEF ExitGame, UnchangedKeys, Count
  <2>2. currentScreen \in Screens /\ index = currentScreen
    BY <2>1 DEF ScreensInv
  <2>3. \A s \in Screens :
          IF s # currentScreen THEN Inside(s) = 0
          ELSE Inside(s) = 1 \/ (Inside(s) = 0 /\ IsExit(s))
    BY <2>1 DEF ScreensInv, ScreensPaired
  <2>4. exits' \in [Screens -> 0 .. MaxEntries + 1]
    BY <1>0, <2>1, <2>2, <2>3, EntriesAssumption DEF Inside
  <2>5. \A s \in Screens :
          IF s # currentScreen THEN Inside(s)' = 0
          ELSE Inside(s)' = 0 \/ (Inside(s)' = -1 /\ IsExit(s)')
    BY <1>0, <2>1, <2>2, <2>3 DEF Inside, IsExit
  <2>6. ScreensPaired'
    BY <2>1, <2>5 DEF ScreensPaired
  <2> QED BY <1>a, <2>1, <2>2, <2>4, <2>6 DEF ScreensInv, GameTypeOK, Playing
<1>10. CASE Destroy
  BY <1>10 DEF Destroy, UnchangedKeys, ScreensInv, GameTypeOK, ScreensPaired, Playing, Inside, IsExit
<1>11. ASSUME Quit \/ (\E k \in Keys : PressKey(k) \/ ReleaseKey(k))
       PROVE  ScreensInv'
  <2>1. UNCHANGED <<pc, index, currentScreen, state, entries, exits>>
    BY <1>11 DEF Quit, PressKey, ReleaseKey, UnchangedByEvent
  <2>2. /\ {keyMap, previousKeyMap}' \subseteq SUBSET Keys /\ isRunning' \in BOOLEAN
        /\ (log \in [pressed : SUBSET Keys, events : Int])'
    <3>1. log \in [pressed : SUBSET Keys, events : Int]
      BY DEF ScreensInv
    <3>2. PICK more \in SUBSET Keys :
            log' = [log EXCEPT !.pressed = @ \cup more, !.events = @ + 1]
      <4>1. CASE Quit \/ (\E k \in Keys : ReleaseKey(k))
        <5>1. log' = [log EXCEPT !.pressed = @ \cup {}, !.events = @ + 1]
          BY <3>1, <4>1 DEF Quit, ReleaseKey
        <5> QED BY <5>1
      <4>2. ASSUME NEW k \in Keys, PressKey(k)
            PROVE  \E more \in SUBSET Keys :
                     log' = [log EXCEPT !.pressed = @ \cup more, !.events = @ + 1]
        <5>1. {k} \in SUBSET Keys
          OBVIOUS
        <5> QED BY <4>2, <5>1 DEF PressKey
      <4> QED BY <1>11, <4>1, <4>2
    <3>3. log' \in [pressed : SUBSET Keys, events : Int]
      <4>1. log.pressed \cup more \in SUBSET Keys /\ log.events + 1 \in Int
        BY <3>1
      <4> QED BY <3>1, <3>2, <4>1
    <3>4. keyMap' \subseteq Keys /\ previousKeyMap' \subseteq Keys /\ isRunning' \in BOOLEAN
      BY <1>11 DEF Quit, PressKey, ReleaseKey, UnchangedByEvent, ScreensInv, GameTypeOK
    <3> QED BY <3>3, <3>4
  <2> QED BY <1>a, <2>1, <2>2 DEF ScreensInv, GameTypeOK, ScreensPaired, Playing, Inside, IsExit, Moved
<1>12. CASE UNCHANGED gameVars
  BY <1>12 DEF gameVars, ScreensInv, GameTypeOK, ScreensPaired, Playing, Inside, IsExit, Moved
<1> QED BY <1>1, <1>2, <1>3, <1>4, <1>5, <1>6, <1>7, <1>8, <1>9, <1>10, <1>11, <1>12
        DEF GameNext, Thread, Change

\* A step of the instance is a step of the game or leaves it alone.
LEMMA StepOfGame ==
    ASSUME [Next]_vars
    PROVE  [GameNext]_gameVars /\ [ProcessNext]_processVars /\ [ClientNext]_clientVars
BY DEF Next, Moves, vars

\* The screens of every game are left as they are entered, in the one order that
\* update() and exitGame() of IMainGame.cpp allow, however the list is linked and
\* whatever the screens ask for.
THEOREM ScreensAreSound == Spec => []ScreensSound
<1>1. Init => ScreensInv
  BY ScreensInit DEF Init
<1>2. ScreensInv /\ [Next]_vars => ScreensInv'
  BY ScreensStep, StepOfGame
<1>3. ScreensInv => ScreensSound
  BY DEF ScreensInv, ScreensSound
<1> QED BY <1>1, <1>2, <1>3, PTL DEF Spec

-----------------------------------------------------------------------------
(* The keys *)

\* The copy of InputManager::update() is what the frame began with: a screen that
\* runs is told only of presses of its own frame.
THEOREM PressesAreOfTheFrame == Spec => []PressSeenInItsFrame
<1> USE DEF PressSeenInItsFrame, IsKeyPressed
<1>1. Init => PressSeenInItsFrame
  BY DEF Init, GameInit
<1>2. ScreensInv /\ PressSeenInItsFrame /\ [GameNext]_gameVars => PressSeenInItsFrame'
  <2> SUFFICES ASSUME ScreensInv, PressSeenInItsFrame, [GameNext]_gameVars
               PROVE  PressSeenInItsFrame'
    OBVIOUS
  <2>1. CASE UpdateRunning
    BY <2>1 DEF UpdateRunning, UpdateInput
  <2>2. ASSUME NEW k \in Keys, PressKey(k)
        PROVE  PressSeenInItsFrame'
    <3>1. log'.pressed = log.pressed \cup {k}
      BY <2>2 DEF PressKey, ScreensInv
    <3> QED BY <2>2, <3>1 DEF PressKey, UnchangedByEvent
  <2>3. ASSUME NEW k \in Keys, ReleaseKey(k)
        PROVE  PressSeenInItsFrame'
    <3>1. log'.pressed = log.pressed
      BY <2>3 DEF ReleaseKey, ScreensInv
    <3> QED BY <2>3, <3>1 DEF ReleaseKey, UnchangedByEvent
  <2>4. CASE Quit
    <3>1. log'.pressed = log.pressed
      BY <2>4 DEF Quit, ScreensInv
    <3> QED BY <2>4, <3>1 DEF Quit, UnchangedByEvent
  <2>5. CASE UNCHANGED gameVars
    BY <2>5 DEF gameVars
  <2>6. ASSUME EnterFirst \/ NoFirstScreen \/ Change \/ ExitApplication
                 \/ ScreenReturns \/ Draw \/ ExitGame \/ Destroy
        PROVE  pc' # "screen"
    BY <2>6 DEF EnterFirst, NoFirstScreen, Crash, Change, ChangeScreen, ExitApplication,
                ScreenReturns, Draw, ExitGame, Destroy
  <2> QED BY <2>1, <2>2, <2>3, <2>4, <2>5, <2>6 DEF GameNext, Thread
<1>3. Init => ScreensInv
  BY ScreensInit DEF Init
<1>4. ScreensInv /\ [Next]_vars => ScreensInv' /\ [GameNext]_gameVars
  BY ScreensStep, StepOfGame
<1> QED BY <1>1, <1>2, <1>3, <1>4, PTL DEF Spec
-----------------------------------------------------------------------------
(* The child processes *)

\* What update() keeps between its steps: the count it loaded may have grown
\* meanwhile, and never shrinks.
UpdaterInv ==
  /\ updater \in [pc : {"idle", "loaded", "wait", "found", "undefined"}, tmp : Nat, pid : PIDs \cup {None}]
  /\ updater.pc = "loaded" => updater.tmp > 0 /\ updater.tmp <= signalsCaught

\* A child between its fork() and its insert() has a Process and is in no list;
\* one that fork() has yet to return was never listed nor cleaned up.
StartingInv ==
  /\ starting # None => /\ starting \notin processList
                        /\ process[starting] = "owned"
                        /\ os[starting] = "gone" => starting \in raced
  /\ \A p \in PIDs : os[p] = "unused" => p # starting /\ p \notin processList /\ p \notin cleaned

ProcessInv == ListTellsChildren /\ UpdaterInv /\ StartingInv

LEMMA ZombiesAreFinite == IsFiniteSet(Zombies) /\ Cardinality(Zombies) \in Nat
<1>1. Zombies \subseteq PIDs
  BY DEF Zombies
<1> QED BY <1>1, PIDsAssumption, FS_Subset, FS_CardinalityType

LEMMA NoneIsNoChild == None \notin PIDs
BY PIDsAssumption DEF None

LEMMA ProcessesInit ==
    ASSUME ProcessInit
    PROVE  ProcessInv
<1>1. Zombies = {} /\ Cardinality(Zombies) = 0
  BY FS_EmptySet DEF ProcessInit, Zombies
<1>2. ProcessTypeOK
  BY DEF ProcessInit, ProcessTypeOK, Idle, NoKill
<1>3. ZombiesCounted /\ GhostsWereRaced /\ CleanupOwnsProcess
  BY <1>1 DEF ProcessInit, ZombiesCounted, GhostsWereRaced, CleanupOwnsProcess, Idle
<1>4. UpdaterInv /\ StartingInv
  BY NoneIsNoChild DEF ProcessInit, UpdaterInv, StartingInv, Idle
<1> QED BY <1>2, <1>3, <1>4 DEF ProcessInv, ListTellsChildren

LEMMA ProcessesStep ==
    ASSUME ProcessInv, [ProcessNext]_processVars
    PROVE  ProcessInv'
<1>0. ProcessTypeOK /\ ZombiesCounted /\ GhostsWereRaced /\ CleanupOwnsProcess
      /\ UpdaterInv /\ StartingInv
  BY DEF ProcessInv, ListTellsChildren
<1> SUFFICES ASSUME ProcessNext
             PROVE  ProcessInv'
  <2>1. CASE UNCHANGED processVars
    BY <2>1 DEF processVars, ProcessInv, ListTellsChildren, ProcessTypeOK, ZombiesCounted,
                GhostsWereRaced, CleanupOwnsProcess, UpdaterInv, StartingInv, Zombies
  <2> QED BY <2>1
<1> USE <1>0, ZombiesAreFinite, NoneIsNoChild DEF system
<1>a. updater.pc # "undefined"
  BY DEF ProcessNext
<1>b. Cardinality(Zombies) <=
        signalsCaught + missed + (IF pending THEN 1 ELSE 0) + (IF updater.pc = "wait" THEN 1 ELSE 0)
  BY <1>a DEF ZombiesCounted
<1>1. ASSUME NEW p \in PIDs, ChildExits(p)
      PROVE  ProcessInv'
  <2>1. Zombies' = Zombies \cup {p} /\ p \notin Zombies
    BY <1>1 DEF ChildExits, Zombies, ProcessTypeOK
  <2>2. Cardinality(Zombies') = Cardinality(Zombies) + 1
    BY <2>1, FS_AddElement
  <2>3. ZombiesCounted'
    BY <1>1, <1>b, <2>2 DEF ChildExits, ZombiesCounted, ProcessTypeOK
  <2>4. ProcessTypeOK' /\ UpdaterInv'
    BY <1>1 DEF ChildExits, ProcessTypeOK, UpdaterInv
  <2>5. GhostsWereRaced' /\ CleanupOwnsProcess' /\ StartingInv'
    BY <1>1 DEF ChildExits, ProcessTypeOK, GhostsWereRaced, CleanupOwnsProcess, StartingInv
  <2> QED BY <2>3, <2>4, <2>5 DEF ProcessInv, ListTellsChildren
<1>2. CASE ProcessChildSignal
  <2>1. Zombies' = Zombies
    BY <1>2 DEF ProcessChildSignal, Zombies
  <2>2. ZombiesCounted'
    BY <1>2, <1>b, <2>1 DEF ProcessChildSignal, ZombiesCounted, ProcessTypeOK
  <2>3. ProcessTypeOK' /\ UpdaterInv'
    <3>1. signalsCaught' = signalsCaught + 1 /\ signalsCaught \in Nat
          /\ UNCHANGED <<os, missed, processList, process, starting, killing, updater, raced, cleaned>>
          /\ pending' = FALSE
      BY <1>2 DEF ProcessChildSignal, ProcessTypeOK
    <3>2. updater.tmp \in Nat
      BY DEF UpdaterInv
    <3>3. ProcessTypeOK'
      <4>1. signalsCaught' \in Nat
        BY <3>1
      <4>2. pending' \in BOOLEAN
        BY <3>1
      <4> QED BY <3>1, <4>1, <4>2 DEF ProcessTypeOK
    <3>4. updater.pc = "loaded" => updater.tmp > 0 /\ updater.tmp <= signalsCaught'
      BY <3>1, <3>2 DEF UpdaterInv
    <3> QED BY <3>1, <3>3, <3>4 DEF UpdaterInv
  <2>4. GhostsWereRaced' /\ CleanupOwnsProcess' /\ StartingInv'
    BY <1>2 DEF ProcessChildSignal, GhostsWereRaced, CleanupOwnsProcess, StartingInv
  <2> QED BY <2>2, <2>3, <2>4 DEF ProcessInv, ListTellsChildren
<1>3. ASSUME NEW p \in PIDs, Fork(p)
      PROVE  ProcessInv'
  <2>1. Zombies' = Zombies
    BY <1>3 DEF Fork, Zombies, ProcessTypeOK
  <2>2. ZombiesCounted'
    BY <1>3, <1>b, <2>1 DEF Fork, ZombiesCounted
  <2>3. ProcessTypeOK' /\ UpdaterInv'
    BY <1>3 DEF Fork, ProcessTypeOK, UpdaterInv
  <2>4. p \notin processList /\ p \notin cleaned
    BY <1>3 DEF Fork, StartingInv
  <2>5. GhostsWereRaced' /\ CleanupOwnsProcess'
    BY <1>3, <2>4 DEF Fork, ProcessTypeOK, GhostsWereRaced, CleanupOwnsProcess
  <2>6. StartingInv'
    BY <1>3, <2>4 DEF Fork, ProcessTypeOK, StartingInv
  <2> QED BY <2>2, <2>3, <2>5, <2>6 DEF ProcessInv, ListTellsChildren
<1>4. CASE Insert
  <2>1. ZombiesCounted'
    BY <1>4, <1>b DEF Insert, ZombiesCounted, Zombies
  <2>2. ProcessTypeOK' /\ UpdaterInv'
    BY <1>4 DEF Insert, ProcessTypeOK, UpdaterInv
  <2>3. GhostsWereRaced' /\ CleanupOwnsProcess'
    BY <1>4, <1>a DEF Insert, StartingInv, GhostsWereRaced, CleanupOwnsProcess
  <2>4. StartingInv'
    BY <1>4 DEF Insert, StartingInv
  <2> QED BY <2>1, <2>2, <2>3, <2>4 DEF ProcessInv, ListTellsChildren
<1>5. CASE PKill
  <2>1. ASSUME NEW p \in PIDs, KillFind(p)
        PROVE  ProcessInv'
    BY <2>1, <1>b DEF KillFind, Zombies, ProcessInv, ListTellsChildren, ProcessTypeOK,
       ZombiesCounted, GhostsWereRaced, CleanupOwnsProcess, UpdaterInv, StartingInv
  <2>2. CASE KillSend
    <3>1. killing' \in [pid : PIDs \cup {None}, sent : BOOLEAN]
      BY <2>2 DEF KillSend, ProcessTypeOK, NoKill
    <3> QED
      BY <2>2, <3>1, <1>b DEF KillSend, Zombies, ProcessInv, ListTellsChildren, ProcessTypeOK,
         ZombiesCounted, GhostsWereRaced, CleanupOwnsProcess, UpdaterInv, StartingInv
  <2>3. CASE KillErase
    <3>1. CASE killing.pid \in processList
      <4> DEFINE p == killing.pid
      <4>1. /\ p \in processList /\ p \in PIDs /\ killing' = NoKill
            /\ processList' = processList \ {p} /\ process' = [process EXCEPT ![p] = "leaked"]
            /\ UNCHANGED <<os, pending, missed, signalsCaught, starting, updater, raced, cleaned>>
        BY <2>3, <3>1 DEF KillErase, ProcessTypeOK
      <4> HIDE DEF p
      <4>2. ZombiesCounted'
        BY <4>1, <1>b DEF ZombiesCounted, Zombies
      <4>3. ProcessTypeOK' /\ UpdaterInv'
        BY <4>1 DEF ProcessTypeOK, UpdaterInv, NoKill
      <4>4. GhostsWereRaced' /\ CleanupOwnsProcess'
        BY <4>1, <1>a DEF ProcessTypeOK, GhostsWereRaced, CleanupOwnsProcess
      <4>5. StartingInv'
        BY <4>1 DEF ProcessTypeOK, StartingInv
      <4> QED BY <4>2, <4>3, <4>4, <4>5 DEF ProcessInv, ListTellsChildren
    <3>2. CASE killing.pid \notin processList
      <4>1. /\ updater' = [updater EXCEPT !.pc = "undefined"] /\ killing' = NoKill
            /\ UNCHANGED <<os, pending, missed, signalsCaught, processList, process, starting,
                           raced, cleaned>>
        BY <2>3, <3>2 DEF KillErase
      <4>2. updater'.pc = "undefined"
        BY <4>1 DEF UpdaterInv
      <4>3. ProcessTypeOK' /\ UpdaterInv' /\ StartingInv'
        BY <4>1, <4>2 DEF ProcessTypeOK, UpdaterInv, StartingInv, NoKill
      <4>4. ZombiesCounted' /\ GhostsWereRaced' /\ CleanupOwnsProcess'
        BY <4>1, <4>2 DEF ZombiesCounted, GhostsWereRaced, CleanupOwnsProcess
      <4> QED BY <4>3, <4>4 DEF ProcessInv, ListTellsChildren
    <3> QED BY <3>1, <3>2
  <2> QED BY <1>5, <2>1, <2>2, <2>3 DEF PKill
<1>6. ASSUME NEW flush \in BOOLEAN, PKillAll(flush)
      PROVE  ProcessInv'
  <2>1. /\ UNCHANGED <<os, pending, missed, signalsCaught, starting, killing, raced, cleaned>>
        /\ starting = None
        /\ updater' = updater \/ updater' = [updater EXCEPT !.pc = "undefined"]
    BY <1>6 DEF PKillAll
  <2>2. /\ processList' \subseteq processList
        /\ process' \in [PIDs -> {"none", "owned", "leaked", "deleted"}]
        /\ \A p \in PIDs \ processList : process'[p] = process[p]
        /\ \A p \in processList' : process'[p] = "deleted" => process[p] = "deleted"
    <3>1. CASE UNCHANGED <<process, processList>>
      BY <3>1 DEF ProcessTypeOK
    <3>2. ASSUME NEW seen \in SUBSET processList, NEW mortal \in SUBSET processList,
                 process' = [p \in PIDs |->
                    IF p \notin processList THEN process[p]
                    ELSE IF flush THEN (IF p \in seen THEN "deleted" ELSE "leaked")
                    ELSE IF p \in seen \cap mortal THEN "leaked" ELSE process[p]],
                 processList' = IF flush THEN {} ELSE processList \ (seen \cap mortal)
          PROVE  <2>2!1 /\ <2>2!2 /\ <2>2!3 /\ <2>2!4
      BY <3>2 DEF ProcessTypeOK
    <3> QED
      <4> DEFINE mortal == {p \in processList : os[p] # "gone"}
      <4>1. mortal \in SUBSET processList
        OBVIOUS
      <4>2. \/ UNCHANGED <<process, processList>>
            \/ \E seen \in SUBSET processList :
                 /\ process' = [p \in PIDs |->
                      IF p \notin processList THEN process[p]
                      ELSE IF flush THEN (IF p \in seen THEN "deleted" ELSE "leaked")
                      ELSE IF p \in seen \cap mortal THEN "leaked" ELSE process[p]]
                 /\ processList' = IF flush THEN {} ELSE processList \ (seen \cap mortal)
        BY <1>6 DEF PKillAll
      <4> HIDE DEF mortal
      <4> QED BY <3>1, <3>2, <4>1, <4>2
  <2>3. updater'.pc = updater.pc \/ updater'.pc = "undefined"
    BY <2>1 DEF UpdaterInv
  <2>4. ZombiesCounted'
    BY <2>1, <2>3, <1>b DEF ZombiesCounted, Zombies
  <2>5. UpdaterInv'
    BY <2>1 DEF UpdaterInv
  <2>6. ProcessTypeOK'
    BY <2>1, <2>2, <2>3 DEF ProcessTypeOK
  <2>7. GhostsWereRaced'
    BY <2>1, <2>2, <2>3, <1>a DEF GhostsWereRaced, UpdaterInv
  <2>8. CleanupOwnsProcess'
    BY <2>1, <2>2 DEF CleanupOwnsProcess, ProcessTypeOK
  <2>9. StartingInv'
    BY <2>1, <2>2 DEF StartingInv
  <2> QED BY <2>4, <2>5, <2>6, <2>7, <2>8, <2>9 DEF ProcessInv, ListTellsChildren
<1>7. CASE Load
  <2>1. ZombiesCounted'
    BY <1>7, <1>b DEF Load, ZombiesCounted, Zombies, ProcessTypeOK, UpdaterInv
  <2>2. UpdaterInv' /\ ProcessTypeOK'
    <3>1. signalsCaught \in Nat /\ signalsCaught > 0
      BY <1>7 DEF Load, ProcessTypeOK
    <3>2. CASE updater' = [updater EXCEPT !.pc = "loaded", !.tmp = signalsCaught]
               /\ signalsCaught' = signalsCaught
      <4>1. UpdaterInv' /\ updater'.pc = "loaded"
        <5>1. updater' = [pc |-> "loaded", tmp |-> signalsCaught, pid |-> updater.pid]
          BY <3>2 DEF UpdaterInv
        <5> QED BY <3>1, <3>2, <5>1 DEF UpdaterInv
      <4> QED BY <1>7, <3>1, <3>2, <4>1 DEF Load, ProcessTypeOK
    <3>3. CASE updater' = [updater EXCEPT !.pc = "wait"] /\ signalsCaught' = signalsCaught - 1
      <4>1. UpdaterInv' /\ updater'.pc = "wait"
        BY <3>3 DEF UpdaterInv
      <4>2. signalsCaught' \in Nat
        BY <3>1, <3>3
      <4> QED BY <1>7, <4>1, <4>2 DEF Load, ProcessTypeOK
    <3> QED BY <1>7, <3>2, <3>3 DEF Load
  <2>3. GhostsWereRaced' /\ CleanupOwnsProcess' /\ StartingInv'
    BY <1>7, <1>a DEF Load, GhostsWereRaced, CleanupOwnsProcess, StartingInv, UpdaterInv
  <2> QED BY <2>1, <2>2, <2>3 DEF ProcessInv, ListTellsChildren
<1>8. CASE Store
  <2>1. ZombiesCounted'
    BY <1>8, <1>b DEF Store, ZombiesCounted, Zombies, ProcessTypeOK, UpdaterInv
  <2>2. UpdaterInv' /\ ProcessTypeOK'
    <3>1. UpdaterInv' /\ updater'.pc = "wait"
      BY <1>8 DEF Store, UpdaterInv
    <3>2. signalsCaught' \in Nat /\ missed' \in Nat
      BY <1>8 DEF Store, ProcessTypeOK, UpdaterInv
    <3> QED BY <1>8, <3>1, <3>2 DEF Store, ProcessTypeOK
  <2>3. GhostsWereRaced' /\ CleanupOwnsProcess' /\ StartingInv'
    BY <1>8, <1>a DEF Store, GhostsWereRaced, CleanupOwnsProcess, StartingInv, UpdaterInv
  <2> QED BY <2>1, <2>2, <2>3 DEF ProcessInv, ListTellsChildren
<1>9. CASE Wait /\ Zombies = {}
  <2>1. updater' = Idle /\ UNCHANGED <<os, pending, missed, signalsCaught, processList, process,
                                       starting, killing, raced, cleaned>>
        /\ updater.pc = "wait"
    BY <1>9 DEF Wait
  <2>2. ZombiesCounted'
    BY <1>9, <2>1, FS_EmptySet DEF ZombiesCounted, Zombies, ProcessTypeOK, Idle
  <2>3. UpdaterInv' /\ ProcessTypeOK'
    BY <2>1 DEF Idle, UpdaterInv, ProcessTypeOK
  <2>4. GhostsWereRaced' /\ CleanupOwnsProcess' /\ StartingInv'
    BY <2>1 DEF Idle, GhostsWereRaced, CleanupOwnsProcess, StartingInv
  <2> QED BY <2>2, <2>3, <2>4 DEF ProcessInv, ListTellsChildren
<1>10. CASE Wait /\ Zombies # {}
  <2>1. PICK p \in Zombies :
          /\ os' = [os EXCEPT ![p] = "gone"]
          /\ updater' = IF p \in processList
                        THEN [Idle EXCEPT !.pc = "found", !.pid = p] ELSE Idle
          /\ raced' = IF p = starting THEN raced \cup {p} ELSE raced
    BY <1>10 DEF Wait
  <2>2. /\ UNCHANGED <<pending, missed, signalsCaught, processList, process, starting, killing,
                       cleaned>>
        /\ updater.pc = "wait" /\ p \in PIDs /\ os[p] = "zombie"
    BY <1>10 DEF Wait, Zombies
  <2>3. Zombies' = Zombies \ {p}
    BY <2>1, <2>2 DEF Zombies, ProcessTypeOK
  <2>4. Cardinality(Zombies') = Cardinality(Zombies) - 1
    BY <2>3, FS_RemoveElement
  <2>5. /\ updater' \in [pc : {"idle", "found"}, tmp : Nat, pid : PIDs \cup {None}]
        /\ p \in processList => updater'.pc = "found" /\ updater'.pid = p
    BY <2>1, <2>2 DEF Idle
  <2>6. ZombiesCounted'
    BY <1>b, <2>2, <2>4, <2>5 DEF ZombiesCounted, ProcessTypeOK
  <2>7. UpdaterInv'
    BY <2>5 DEF UpdaterInv
  <2>8. ProcessTypeOK'
    BY <2>1, <2>2, <2>5 DEF ProcessTypeOK
  <2>9. GhostsWereRaced'
    BY <2>1, <2>2, <2>5 DEF GhostsWereRaced, ProcessTypeOK
  <2>10. CleanupOwnsProcess' /\ StartingInv'
    BY <2>1, <2>2 DEF CleanupOwnsProcess, StartingInv, ProcessTypeOK
  <2> QED BY <2>6, <2>7, <2>8, <2>9, <2>10 DEF ProcessInv, ListTellsChildren
<1>11. CASE CleanupProcess
  <2> DEFINE pid == updater.pid
  <2>1. updater.pc = "found"
        /\ UNCHANGED <<os, pending, missed, signalsCaught, starting, killing, raced>>
    BY <1>11 DEF CleanupProcess
  <2>2. CASE pid \in processList
    <3>1. /\ cleaned' = cleaned \cup {pid} /\ process' = [process EXCEPT ![pid] = "deleted"]
          /\ processList' = processList \ {pid} /\ updater' = Idle
      BY <1>11, <2>2 DEF CleanupProcess
    <3>2. pid \in PIDs /\ os[pid] # "unused" /\ pid # starting
      BY <2>2 DEF ProcessTypeOK, StartingInv
    <3>3. ZombiesCounted'
      BY <1>b, <2>1, <3>1 DEF ZombiesCounted, Zombies, Idle
    <3>4. UpdaterInv' /\ ProcessTypeOK'
      BY <2>1, <3>1, <3>2 DEF UpdaterInv, ProcessTypeOK, Idle
    <3>5. GhostsWereRaced'
      BY <1>a, <2>1, <3>1 DEF GhostsWereRaced
    <3>6. CleanupOwnsProcess'
      BY <3>1, <3>2 DEF CleanupOwnsProcess, ProcessTypeOK
    <3>7. StartingInv'
      BY <2>1, <3>1, <3>2 DEF StartingInv, ProcessTypeOK
    <3> QED BY <3>3, <3>4, <3>5, <3>6, <3>7 DEF ProcessInv, ListTellsChildren
  <2>3. CASE pid \notin processList
    <3>1. updater' = [updater EXCEPT !.pc = "undefined"] /\ UNCHANGED <<cleaned, process, processList>>
      BY <1>11, <2>3 DEF CleanupProcess
    <3>2. updater'.pc = "undefined"
      BY <3>1 DEF UpdaterInv
    <3>3. ZombiesCounted' /\ GhostsWereRaced'
      BY <3>2 DEF ZombiesCounted, GhostsWereRaced
    <3>4. UpdaterInv' /\ ProcessTypeOK'
      BY <2>1, <3>1 DEF UpdaterInv, ProcessTypeOK
    <3>5. CleanupOwnsProcess' /\ StartingInv'
      BY <2>1, <3>1 DEF CleanupOwnsProcess, StartingInv
    <3> QED BY <3>3, <3>4, <3>5 DEF ProcessInv, ListTellsChildren
  <2> QED BY <2>2, <2>3
<1> QED BY <1>1, <1>2, <1>3, <1>4, <1>5, <1>6, <1>7, <1>8, <1>9, <1>10, <1>11
        DEF ProcessNext, UpdateProcesses

\* However many children there are, and wherever SIGCHLD, start(), pKill() and
\* pKillAll() come between the steps of update(): what m_processList, the Process
\* objects and m_signalsCaught of ProcessManager.cpp tell of them is true.
THEOREM ListTellsOfChildren == Spec => []ListTellsChildren
<1>1. Init => ProcessInv
  BY ProcessesInit DEF Init
<1>2. ProcessInv /\ [Next]_vars => ProcessInv'
  BY ProcessesStep, StepOfGame
<1>3. ProcessInv => ListTellsChildren
  BY DEF ProcessInv
<1> QED BY <1>1, <1>2, <1>3, PTL DEF Spec
-----------------------------------------------------------------------------
(* The client *)

\* How many packets the update thread has taken, or the owner thrown away.
Taken == arrivals - Len(packetBuffer)

\* m_packetBuffer holds the latest arrivals, all of them, and what the
\* application was told came before; the parts that the connection holds came
\* from packets that were taken.
BufferInv ==
  /\ Len(packetBuffer) <= arrivals
  /\ \A i \in 1 .. Len(packetBuffer) : packetBuffer[i].num = Taken + i
  /\ \A j \in 1 .. Len(datagramBuffer) : datagramBuffer[j].num <= Taken
  /\ held <= Taken

\* What the application was told of is the acceptance, or nothing; a batch is
\* there as long as nobody destroys the client.
SessionInv ==
  /\ isConnectionAccepted <=> datagramBuffer # <<>>
  /\ owner \in {"using", "stopped"} =>
       /\ serverConnection # "deleted"
       /\ updatePC = "process" => pkts <= Len(packetBuffer)

ClientInv == ClientHears /\ BufferInv /\ SessionInv

LEMMA PacketsAreNumbered ==
    ASSUME NEW s \in Seq(Packet)
    PROVE  \A i \in 1 .. Len(s) : s[i].num \in Int
<1>1. \A i \in 1 .. Len(s) : s[i] \in Packet
  OBVIOUS
<1>2. \A p \in Packet : p.num \in Int
  BY DEF Packet
<1> QED BY <1>1, <1>2

LEMMA ClientsInit ==
    ASSUME ClientInit
    PROVE  ClientInv
<1>1. ClientTypeOK
  <2>1. packetBuffer \in Seq(Packet) /\ datagramBuffer \in Seq(Packet)
    BY DEF ClientInit
  <2>2. {pkts, arrivals, held} \subseteq 0 .. MaxArrivals
    BY ClientAssumption DEF ClientInit
  <2> QED BY <2>1, <2>2 DEF ClientInit, ClientTypeOK
<1>2. HeardInOrder /\ AcceptedHasConnection
  BY DEF ClientInit, HeardInOrder, AcceptedHasConnection
<1>3. BufferInv /\ SessionInv
  BY DEF ClientInit, BufferInv, SessionInv, Taken
<1> QED BY <1>1, <1>2, <1>3 DEF ClientInv, ClientHears

\* Steps that take nothing from the buffer and tell the application nothing.
LEMMA QuietClientStep ==
    ASSUME ClientInv,
           UNCHANGED <<packetBuffer, arrivals, session>>,
           ClientTypeOK',
           updatePC' # "undefined" \/ owner' \notin {"using", "stopped"},
           owner' \in {"using", "stopped"} => owner \in {"using", "stopped"},
           updatePC' = "process" /\ owner' \in {"using", "stopped"} =>
             pkts' <= Len(packetBuffer)
    PROVE  ClientInv'
BY DEF ClientInv, ClientHears, HeardInOrder, AcceptedHasConnection, BufferInv, SessionInv,
       Taken, session

\* What a packet adds to m_datagramBuffer came after all that is there.
LEMMA TellingKeepsOrder ==
    ASSUME HeardInOrder, NEW p \in Packet,
           datagramBuffer \in Seq(Packet),
           \A j \in 1 .. Len(datagramBuffer) : datagramBuffer[j].num < p.num,
           datagramBuffer = <<>> => p.op = "ConnectionAccepted",
           datagramBuffer' = Append(datagramBuffer, p)
    PROVE  /\ HeardInOrder'
           /\ datagramBuffer' \in Seq(Packet)
           /\ datagramBuffer' # <<>>
           /\ \A j \in 1 .. Len(datagramBuffer') : datagramBuffer'[j].num <= p.num
<1> DEFINE n == Len(datagramBuffer)
<1>1. /\ datagramBuffer' \in Seq(Packet) /\ n \in Nat /\ Len(datagramBuffer') = n + 1
      /\ \A i \in 1 .. n : datagramBuffer'[i] = datagramBuffer[i]
      /\ datagramBuffer'[n + 1] = p
  OBVIOUS
<1>2. DOMAIN datagramBuffer' = 1 .. n + 1 /\ DOMAIN datagramBuffer = 1 .. n
  BY <1>1
<1>3. p.num \in Int /\ \A i \in 1 .. n : datagramBuffer[i].num \in Int
  <2>1. p.num \in Int
    BY DEF Packet
  <2>2. \A i \in 1 .. n : datagramBuffer[i].num \in Int
    BY PacketsAreNumbered
  <2> QED BY <2>1, <2>2
<1>4. datagramBuffer'[1].op = "ConnectionAccepted"
  <2>1. CASE n = 0
    BY <1>1, <2>1
  <2>2. CASE n > 0
    BY <1>1, <2>2 DEF HeardInOrder
  <2> QED BY <1>1, <2>1, <2>2
<1>5. \A i, j \in 1 .. n + 1 : i < j => datagramBuffer'[i].num < datagramBuffer'[j].num
  BY <1>1, <1>2 DEF HeardInOrder
<1>6. \A j \in 1 .. n + 1 : datagramBuffer'[j].num <= p.num
  BY <1>1, <1>3
<1>7. datagramBuffer' # <<>>
  BY <1>1
<1> QED BY <1>1, <1>2, <1>4, <1>5, <1>6, <1>7 DEF HeardInOrder

LEMMA ClientsStep ==
    ASSUME ClientInv, [ClientNext]_clientVars
    PROVE  ClientInv'
<1>0. /\ ClientTypeOK /\ HeardInOrder /\ AcceptedHasConnection /\ BufferInv /\ SessionInv
      /\ packetBuffer \in Seq(Packet) /\ Len(packetBuffer) \in Nat
      /\ arrivals \in 0 .. MaxArrivals /\ held \in 0 .. MaxArrivals /\ MaxArrivals \in Nat
  BY ClientAssumption DEF ClientInv, ClientHears, ClientTypeOK
<1>1. ASSUME NEW op \in OpCodes, Arrive(op)
      PROVE  ClientInv'
  <2> DEFINE p == [op |-> op, num |-> arrivals + 1]
  <2>1. /\ arrivals' = arrivals + 1 /\ packetBuffer' = Append(packetBuffer, p)
        /\ arrivals' \in 0 .. MaxArrivals
        /\ UNCHANGED <<owner, updatePC, pkts, session>>
    BY <1>0, <1>1 DEF Arrive
  <2>2. p \in Packet
    BY <1>0, <1>1 DEF Arrive, Packet
  <2>3. /\ packetBuffer' \in Seq(Packet) /\ Len(packetBuffer') = Len(packetBuffer) + 1
        /\ \A i \in 1 .. Len(packetBuffer) : packetBuffer'[i] = packetBuffer[i]
        /\ packetBuffer'[Len(packetBuffer) + 1].num = arrivals + 1
    BY <1>0, <2>1, <2>2
  <2>4. Taken' = Taken /\ Taken \in Int
    BY <1>0, <2>1, <2>3 DEF Taken
  <2>5. BufferInv'
    <3>1. \A i \in 1 .. Len(packetBuffer') : packetBuffer'[i].num = Taken + i
      <4>1. \A i \in 1 .. Len(packetBuffer) : packetBuffer'[i].num = Taken + i
        BY <1>0, <2>3 DEF BufferInv
      <4>2. arrivals + 1 = Taken + (Len(packetBuffer) + 1)
        BY <1>0 DEF Taken
      <4>3. \A i \in 1 .. Len(packetBuffer') :
              i \in 1 .. Len(packetBuffer) \/ i = Len(packetBuffer) + 1
        BY <1>0, <2>3
      <4> QED BY <2>3, <4>1, <4>2, <4>3
    <3> QED BY <1>0, <2>1, <2>3, <2>4, <3>1 DEF BufferInv, session
  <2>6. ClientTypeOK'
    BY <1>0, <1>1, <2>1, <2>3 DEF Arrive, ClientTypeOK, session
  <2>7. HeardInOrder' /\ AcceptedHasConnection' /\ SessionInv'
    BY <1>0, <2>1, <2>3 DEF HeardInOrder, AcceptedHasConnection, SessionInv, session, ClientTypeOK
  <2> QED BY <2>5, <2>6, <2>7 DEF ClientInv, ClientHears
<1>2. CASE ListenEnds \/ Stop \/ Join \/ LoopHead \/ CheckEmpty \/ WakeUp \/ EndBatch \/ SpuriousWakeUp
  <2>1. ClientTypeOK' /\ UNCHANGED <<packetBuffer, arrivals, session, pkts>>
    BY <1>0, <1>2 DEF ListenEnds, Stop, Join, LoopHead, CheckEmpty, WakeUp, EndBatch, SpuriousWakeUp,
                      UnchangedByWait, ClientTypeOK, session
  <2>2. /\ updatePC' = updatePC \/ updatePC' \notin {"undefined", "process"}
        /\ owner' \in {"using", "stopped"} => owner \in {"using", "stopped"}
    BY <1>2 DEF ListenEnds, Stop, Join, LoopHead, CheckEmpty, WakeUp, EndBatch, SpuriousWakeUp,
                UnchangedByWait
  <2> QED BY <1>0, <2>1, <2>2, QuietClientStep DEF AcceptedHasConnection, SessionInv
<1>3. CASE BeginBatch
  <2>1. /\ pkts' = Len(packetBuffer) /\ updatePC' = "process"
        /\ UNCHANGED <<isActive, listening, owner, packetBuffer, arrivals, session, notified>>
    BY <1>3 DEF BeginBatch, UnchangedByWait
  <2>2. pkts' \in 0 .. MaxArrivals
    BY <1>0, <2>1 DEF BufferInv
  <2>3. ClientTypeOK'
    BY <1>0, <2>1, <2>2 DEF ClientTypeOK, session
  <2> QED BY <1>0, <2>1, <2>3, QuietClientStep
<1>4. CASE Shutdown
  <2>1. /\ owner' = "joining" /\ packetBuffer' = <<>>
        /\ serverConnection' \in {"none", "deleted"}
        /\ UNCHANGED <<listening, updatePC, notified, pkts, arrivals, isConnectionAccepted, held,
                       datagramBuffer>>
        /\ isActive' = FALSE
    BY <1>4 DEF Shutdown
  <2>2. ClientTypeOK'
    <3>1. packetBuffer' \in Seq(Packet)
      BY <2>1
    <3>2. isActive' \in BOOLEAN
      BY <2>1
    <3> QED BY <1>0, <2>1, <3>1, <3>2 DEF ClientTypeOK
  <2>3. BufferInv'
    <3>1. Len(packetBuffer') = 0 /\ Taken' = arrivals /\ Taken <= arrivals /\ Taken \in Int
      BY <1>0, <2>1 DEF Taken
    <3>2. \A j \in 1 .. Len(datagramBuffer) : datagramBuffer[j].num \in Int
      BY <1>0, PacketsAreNumbered DEF ClientTypeOK
    <3> QED BY <1>0, <2>1, <3>1, <3>2 DEF BufferInv
  <2>4. HeardInOrder' /\ AcceptedHasConnection' /\ SessionInv'
    BY <1>0, <2>1 DEF HeardInOrder, AcceptedHasConnection, SessionInv
  <2> QED BY <2>2, <2>3, <2>4 DEF ClientInv, ClientHears
<1>5. CASE ProcessPacket
  <2> DEFINE cutOff == packetBuffer = <<>> \/ (isConnectionAccepted /\ serverConnection = "deleted")
             p == Head(packetBuffer)
  <2>1. /\ updatePC = "process" /\ pkts > 0
        /\ UNCHANGED <<isActive, listening, owner, notified, arrivals>>
    BY <1>5 DEF ProcessPacket
  <2>2. CASE cutOff
    <3>1. updatePC' = "undefined" /\ UNCHANGED <<pkts, packetBuffer, session>>
      BY <1>5, <2>2 DEF ProcessPacket
    <3>2. owner \notin {"using", "stopped"}
      <4>1. pkts \in Nat /\ (packetBuffer = <<>> => Len(packetBuffer) = 0)
        BY <1>0 DEF ClientTypeOK
      <4> QED BY <1>0, <2>1, <2>2, <4>1 DEF SessionInv
    <3>3. ClientTypeOK'
      BY <1>0, <2>1, <3>1 DEF ClientTypeOK, session
    <3> QED BY <1>0, <2>1, <3>1, <3>2, <3>3, QuietClientStep
  <2>3. CASE ~cutOff
    <3>1. /\ packetBuffer' = Tail(packetBuffer) /\ pkts' = pkts - 1 /\ UNCHANGED updatePC
          /\ IF isConnectionAccepted THEN AddPacket(p) ELSE Accept(p)
      BY <1>5, <2>3 DEF ProcessPacket
    <3>2. /\ p \in Packet /\ p = packetBuffer[1] /\ Len(packetBuffer) > 0
          /\ packetBuffer' \in Seq(Packet) /\ Len(packetBuffer') = Len(packetBuffer) - 1
          /\ \A i \in 1 .. Len(packetBuffer') : packetBuffer'[i] = packetBuffer[i + 1]
      BY <1>0, <2>3, <3>1
    <3>3. Taken' = Taken + 1 /\ Taken \in Nat /\ Taken < MaxArrivals /\ p.num = Taken + 1
      BY <1>0, <2>1, <3>2 DEF Taken, BufferInv
    <3>4. \A i \in 1 .. Len(packetBuffer') : packetBuffer'[i].num = Taken' + i
      <4>1. \A i \in 1 .. Len(packetBuffer') :
              /\ i \in Nat /\ i + 1 \in 1 .. Len(packetBuffer)
              /\ Taken + (i + 1) = Taken' + i
        BY <1>0, <3>2, <3>3
      <4> QED BY <1>0, <3>2, <4>1 DEF BufferInv
    <3>5. pkts' \in 0 .. MaxArrivals /\ pkts' = pkts - 1 /\ pkts \in Nat
      BY <1>0, <2>1, <3>1 DEF ClientTypeOK
    <3>6. /\ \A j \in 1 .. Len(datagramBuffer) : datagramBuffer[j].num <= Taken
          /\ \A j \in 1 .. Len(datagramBuffer) : datagramBuffer[j].num \in Int
          /\ datagramBuffer \in Seq(Packet) /\ held <= Taken
      BY <1>0, PacketsAreNumbered DEF BufferInv, ClientTypeOK
    <3> HIDE DEF p, cutOff
    <3>7. /\ \/ UNCHANGED datagramBuffer
             \/ /\ datagramBuffer' = Append(datagramBuffer, p)
                /\ datagramBuffer = <<>> => p.op = "ConnectionAccepted"
          /\ held' \in {held, held + 1}
          /\ isConnectionAccepted' \in BOOLEAN
          /\ isConnectionAccepted' <=> datagramBuffer' # <<>>
          /\ isConnectionAccepted' => \/ serverConnection' \in {"open", "closing"}
                                      \/ serverConnection' = serverConnection /\ isConnectionAccepted
          /\ ~isConnectionAccepted' => serverConnection' = serverConnection /\ ~isConnectionAccepted
      <4>1. CASE isConnectionAccepted
        BY <1>0, <3>1, <3>2, <3>6, <4>1 DEF AddPacket, SessionInv
      <4>2. CASE ~isConnectionAccepted
        <5>1. datagramBuffer = <<>>
          BY <1>0, <4>2 DEF SessionInv
        <5>2. CASE p.op # "ConnectionAccepted"
          <6>1. UNCHANGED <<isConnectionAccepted, serverConnection, held, datagramBuffer>>
            BY <3>1, <4>2, <5>2 DEF Accept, session
          <6>2. isConnectionAccepted \in BOOLEAN
            BY <1>0 DEF ClientTypeOK
          <6> QED BY <4>2, <5>1, <6>1, <6>2
        <5>3. CASE p.op = "ConnectionAccepted"
          <6>1. /\ isConnectionAccepted' = TRUE /\ serverConnection' = "open"
                /\ datagramBuffer' = Append(datagramBuffer, p) /\ held' = held
            BY <3>1, <4>2, <5>3 DEF Accept
          <6>2. datagramBuffer' # <<>>
            BY <3>2, <3>6, <6>1
          <6> QED BY <5>1, <5>3, <6>1, <6>2
        <5> QED BY <5>2, <5>3
      <4> QED BY <4>1, <4>2
    <3>8. /\ HeardInOrder' /\ datagramBuffer' \in Seq(Packet)
          /\ \A j \in 1 .. Len(datagramBuffer') : datagramBuffer'[j].num <= Taken'
      <4>1. CASE UNCHANGED datagramBuffer
        BY <1>0, <3>3, <3>6, <4>1 DEF HeardInOrder
      <4>2. CASE datagramBuffer' = Append(datagramBuffer, p)
        BY <1>0, <3>2, <3>3, <3>6, <3>7, <4>2, TellingKeepsOrder
      <4> QED BY <3>7, <4>1, <4>2
    <3>9. held' \in 0 .. MaxArrivals /\ held' <= Taken'
      BY <1>0, <3>3, <3>6, <3>7
    <3>10. BufferInv'
      BY <1>0, <2>1, <3>2, <3>4, <3>8, <3>9 DEF BufferInv
    <3>11. serverConnection' \in {"none", "open", "closing", "deleted"}
      BY <1>0, <3>7 DEF ClientTypeOK
    <3>12. ClientTypeOK'
      BY <1>0, <2>1, <3>1, <3>2, <3>5, <3>7, <3>8, <3>9, <3>11 DEF ClientTypeOK
    <3>13. AcceptedHasConnection' /\ SessionInv'
      BY <1>0, <2>1, <3>1, <3>2, <3>5, <3>7 DEF AcceptedHasConnection, SessionInv
    <3> QED BY <3>8, <3>10, <3>12, <3>13 DEF ClientInv, ClientHears
  <2> QED BY <2>2, <2>3
<1>6. CASE UNCHANGED clientVars
  BY <1>0, <1>6, QuietClientStep DEF clientVars, session, ClientTypeOK, AcceptedHasConnection, SessionInv
<1> QED BY <1>1, <1>2, <1>3, <1>4, <1>5, <1>6 DEF ClientNext, UpdateThread

\* However many packets arrive, whenever the owner stops or destroys the client:
\* the update thread of NetworkClient.cpp tells the application of the acceptance
\* first and of every packet at most once, in the order of arrival; an accepted
\* client has its connection until it is destroyed, and nothing is undefined
\* before.
THEOREM ClientHearsInOrder == Spec => []ClientHears
<1>1. Init => ClientInv
  BY ClientsInit DEF Init
<1>2. ClientInv /\ [Next]_vars => ClientInv'
  BY ClientsStep, StepOfGame
<1>3. ClientInv => ClientHears
  BY DEF ClientInv
<1> QED BY <1>1, <1>2, <1>3, PTL DEF Spec
=============================================================================
