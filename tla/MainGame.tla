------------------------------ MODULE MainGame ------------------------------
(***************************************************************************)
(* The game loop (IMainGame.cpp), the list of screens it moves through     *)
(* (ScreenList.cpp, IGameScreen.h) and the key maps it refreshes every     *)
(* frame (srv/InputManager.cpp).  One thread.  The screens are the game's: *)
(* the model knows of them that their update() polls SDL's events into     *)
(* IMainGame::onSDLEvent and that their code may ask for another state,    *)
(* in update() and in onEntry().                                           *)
(***************************************************************************)
EXTENDS Integers

CONSTANTS Screens,        \* indices into ScreenList::m_screens
          NextOf, PrevOf, \* what the screens' index getters return
          Keys,           \* SDL key and button codes
          MaxEvents,      \* bound: events one update() polls
          MaxEntries      \* bound: entries of a screen

NO_SCREEN == -1

ASSUME ScreensAssumption == Screens \subseteq Nat
ASSUME LinksAssumption == {NextOf, PrevOf} \subseteq [Screens -> Screens \cup {NO_SCREEN}]
ASSUME EntriesAssumption == MaxEntries \in Nat \ {0}

VARIABLES
  pc,               \* what the thread is about to run
  isRunning,        \* m_isRunning
  index,            \* m_currentScreenIndex
  currentScreen,    \* m_currentScreen
  state,            \* m_currentState of each screen
  keyMap,           \* the keys m_keyMap holds as down
  previousKeyMap,   \* the same of m_previousKeyMap
  entries, exits,   \* how often onEntry() and onExit() of each screen ran
  log,              \* [pressed, events]: the keys pressed and events polled this frame
  asked             \* [what, where]: the last request of the screen that shows, and where it was made

gameVars == <<pc, isRunning, index, currentScreen, state, keyMap, previousKeyMap,
          entries, exits, log, asked>>

ScreenState == {"NONE", "RUNNING", "EXIT_APPLICATION", "CHANGE_NEXT", "CHANGE_PREVIOUS"}
Requests == ScreenState \ {"NONE", "RUNNING"}
Quiet == [pressed |-> {}, events |-> 0]
Asked(what, where) == [what |-> what, where |-> where]

GameTypeOK ==
  /\ pc \in {"init", "frame", "screen", "draw", "exit", "ended", "destroyed", "crashed"}
  /\ isRunning \in BOOLEAN
  /\ {index, currentScreen} \subseteq Screens \cup {NO_SCREEN}
  /\ state \in [Screens -> ScreenState]
  /\ {keyMap, previousKeyMap, log.pressed} \subseteq SUBSET Keys
  /\ {entries, exits} \subseteq [Screens -> 0..MaxEntries + 1]
  /\ asked \in [what : ScreenState, where : {"first", "entry", "update"}]

\* The screens are added; the game has called setScreen() or has not.
GameInit ==
  /\ pc = "init"
  /\ isRunning = FALSE
  /\ index \in Screens \cup {NO_SCREEN}
  /\ currentScreen = NO_SCREEN
  /\ state = [s \in Screens |-> "NONE"]
  /\ keyMap = {} /\ previousKeyMap = {}
  /\ entries = [s \in Screens |-> 0] /\ exits = [s \in Screens |-> 0]
  /\ log = Quiet
  /\ asked = Asked("NONE", "first")

Count(f, s) == [f EXCEPT ![s] = @ + 1]
UnchangedKeys == UNCHANGED <<keyMap, previousKeyMap, log>>

\* ScreenList::moveNext(), movePrevious(): the screen named, or the same one.
Moved(link, i) == IF link[i] # NO_SCREEN THEN link[i] ELSE i

\* Bound: what a screen may ask for; no move to one entered MaxEntries times.
Asks(i, entered) ==
  {"RUNNING", "EXIT_APPLICATION"}
    \cup (IF entered[Moved(NextOf, i)] < MaxEntries THEN {"CHANGE_NEXT"} ELSE {})
    \cup (IF entered[Moved(PrevOf, i)] < MaxEntries THEN {"CHANGE_PREVIOUS"} ELSE {})

-----------------------------------------------------------------------------
(* IMainGame::init(): the first screen.                                    *)

\* A member call through a null m_currentScreen.
Crash ==
  /\ pc' = "crashed"
  /\ UNCHANGED <<isRunning, index, currentScreen, state, keyMap, previousKeyMap,
                 entries, exits, log, asked>>

\* What onEntry() asks for is overwritten: setRunning() comes second here.
EnterFirst ==
  /\ pc = "init"
  /\ index # NO_SCREEN
  /\ currentScreen' = index
  /\ entries' = Count(entries, index)
  /\ \E after \in Asks(index, Count(entries, index)) : asked' = Asked(after, "first")
  /\ state' = [state EXCEPT ![index] = "RUNNING"]
  /\ isRunning' = TRUE
  /\ pc' = "frame"
  /\ UNCHANGED <<index, exits>> /\ UnchangedKeys

NoFirstScreen ==
  /\ pc = "init"
  /\ index = NO_SCREEN
  /\ Crash

-----------------------------------------------------------------------------
(* One turn of the loop: the key maps, update(), draw().                   *)

\* Mutation of UpdateInput: the maps are compared with those of an older frame.
LateUpdateInput ==
  /\ previousKeyMap' = keyMap \ log.pressed
  /\ log' = Quiet
  /\ UNCHANGED keyMap

\* InputManager::update()
UpdateInput ==
  /\ previousKeyMap' = keyMap
  /\ log' = Quiet
  /\ UNCHANGED keyMap

IsKeyPressed(k) == k \in keyMap /\ k \notin previousKeyMap

UpdateRunning ==
  /\ pc = "frame" /\ isRunning
  /\ currentScreen # NO_SCREEN
  /\ state[currentScreen] = "RUNNING"
  /\ UpdateInput
  /\ pc' = "screen"
  /\ UNCHANGED <<isRunning, index, currentScreen, state, entries, exits, asked>>

\* Mutation of ChangeScreen: the screen that is left is not told.
SilentChangeScreen(request, link) ==
  LET new == Moved(link, index) IN
  /\ pc = "frame" /\ isRunning
  /\ currentScreen # NO_SCREEN
  /\ state[currentScreen] = request
  /\ UpdateInput
  /\ index' = new /\ currentScreen' = new
  /\ entries' = Count(entries, new)
  /\ \E after \in Asks(new, Count(entries, new)) :
       state' = [state EXCEPT ![new] = after] /\ asked' = Asked(after, "entry")
  /\ pc' = "draw"
  /\ UNCHANGED <<isRunning, exits>>

\* Mutation of ChangeScreen: onEntry(), then setRunning(), as init() has them.
OverwritingChangeScreen(request, link) ==
  LET new == Moved(link, index) IN
  /\ pc = "frame" /\ isRunning
  /\ currentScreen # NO_SCREEN
  /\ state[currentScreen] = request
  /\ UpdateInput
  /\ exits' = Count(exits, currentScreen)
  /\ index' = new /\ currentScreen' = new
  /\ entries' = Count(entries, new)
  /\ \E after \in Asks(new, Count(entries, new)) : asked' = Asked(after, "entry")
  /\ state' = [state EXCEPT ![new] = "RUNNING"]
  /\ pc' = "draw"
  /\ UNCHANGED isRunning

\* setRunning(), then onEntry(): what onEntry() asks for stands.
ChangeScreen(request, link) ==
  LET new == Moved(link, index) IN
  /\ pc = "frame" /\ isRunning
  /\ currentScreen # NO_SCREEN
  /\ state[currentScreen] = request
  /\ UpdateInput
  /\ exits' = Count(exits, currentScreen)
  /\ index' = new /\ currentScreen' = new
  /\ entries' = Count(entries, new)
  /\ \E after \in Asks(new, Count(entries, new)) :
       state' = [state EXCEPT ![new] = after] /\ asked' = Asked(after, "entry")
  /\ pc' = "draw"
  /\ UNCHANGED isRunning

\* Mutation of ExitApplication: m_isRunning stays set, and the loop goes on.
RunningExitApplication ==
  /\ pc = "frame" /\ isRunning
  /\ currentScreen # NO_SCREEN
  /\ state[currentScreen] = "EXIT_APPLICATION"
  /\ UpdateInput
  /\ exits' = Count(exits, currentScreen)
  /\ pc' = "draw"
  /\ UNCHANGED <<isRunning, index, currentScreen, state, entries, asked>>

\* exitGame() by way of update(): draw() is skipped, run() calls it again.
ExitApplication ==
  /\ pc = "frame" /\ isRunning
  /\ currentScreen # NO_SCREEN
  /\ state[currentScreen] = "EXIT_APPLICATION"
  /\ UpdateInput
  /\ exits' = Count(exits, currentScreen)
  /\ isRunning' = FALSE
  /\ pc' = "exit"
  /\ UNCHANGED <<index, currentScreen, state, entries, asked>>

-----------------------------------------------------------------------------
(* Inside the running screen's update(): onSDLEvent() for each event.      *)

MayPoll == pc = "screen" /\ log.events < MaxEvents
UnchangedByEvent ==
  UNCHANGED <<pc, index, currentScreen, state, previousKeyMap, entries, exits, asked>>

PressKey(k) ==
  /\ MayPoll
  /\ keyMap' = keyMap \cup {k}
  /\ log' = [log EXCEPT !.pressed = @ \cup {k}, !.events = @ + 1]
  /\ UNCHANGED isRunning /\ UnchangedByEvent

ReleaseKey(k) ==
  /\ MayPoll
  /\ keyMap' = keyMap \ {k}
  /\ log' = [log EXCEPT !.events = @ + 1]
  /\ UNCHANGED isRunning /\ UnchangedByEvent

Quit ==
  /\ MayPoll
  /\ isRunning' = FALSE
  /\ log' = [log EXCEPT !.events = @ + 1]
  /\ UNCHANGED keyMap /\ UnchangedByEvent

\* Mutation of ScreenReturns: the frame is drawn though the game was told to quit.
DrawingScreenReturns ==
  /\ pc = "screen"
  /\ \E after \in Asks(index, entries) :
       /\ state' = [state EXCEPT ![currentScreen] = after]
       /\ asked' = IF after = "RUNNING" THEN asked ELSE Asked(after, "update")
  /\ pc' = "draw"
  /\ UNCHANGED <<isRunning, index, currentScreen, entries, exits>> /\ UnchangedKeys

\* The screen's update() returns, having asked for a state or not.
ScreenReturns ==
  /\ pc = "screen"
  /\ \E after \in Asks(index, entries) :
       /\ state' = [state EXCEPT ![currentScreen] = after]
       /\ asked' = IF after = "RUNNING" THEN asked ELSE Asked(after, "update")
  /\ pc' = IF isRunning THEN "draw" ELSE "exit"
  /\ UNCHANGED <<isRunning, index, currentScreen, entries, exits>> /\ UnchangedKeys

\* draw() and the swap; a screen that asked for a change is not drawn.
Draw ==
  /\ pc = "draw"
  /\ pc' = "frame"
  /\ UNCHANGED <<isRunning, index, currentScreen, state, entries, exits, asked>> /\ UnchangedKeys

\* The call of exitGame() that ends run().
ExitGame ==
  /\ pc = "exit"
  /\ exits' = Count(exits, currentScreen)
  /\ isRunning' = FALSE
  /\ pc' = "ended"
  /\ UNCHANGED <<index, currentScreen, state, entries, asked>> /\ UnchangedKeys

\* ~IMainGame(): the screens are deleted; m_currentScreen keeps its value.
Destroy ==
  /\ pc = "ended"
  /\ index' = NO_SCREEN
  /\ pc' = "destroyed"
  /\ UNCHANGED <<isRunning, currentScreen, state, entries, exits, asked>> /\ UnchangedKeys

Change ==
  \/ ChangeScreen("CHANGE_NEXT", NextOf)
  \/ ChangeScreen("CHANGE_PREVIOUS", PrevOf)

Thread ==
  \/ EnterFirst \/ NoFirstScreen \/ UpdateRunning \/ Change \/ ExitApplication
  \/ ScreenReturns \/ Draw \/ ExitGame \/ Destroy

GameNext ==
  \/ Thread
  \/ Quit
  \/ \E k \in Keys : PressKey(k) \/ ReleaseKey(k)

-----------------------------------------------------------------------------

Inside(s) == entries[s] - exits[s]
IsExit(s) == state[s] = "EXIT_APPLICATION"

\* A screen is left once for each time it is entered (IGameScreen.h:42), and the
\* one that shows is the only one inside.  The exception is the screen whose
\* EXIT_APPLICATION ends the game: exitGame() runs in update() and again at the
\* end of run(), and its onExit() with it.
ScreensPaired ==
  pc \notin {"init", "crashed"} =>
    \A s \in Screens :
      IF s # currentScreen THEN Inside(s) = 0
      ELSE CASE pc \in {"frame", "screen", "draw"} -> Inside(s) = 1
             [] pc = "exit" -> Inside(s) = 1 \/ (Inside(s) = 0 /\ IsExit(s))
             [] OTHER -> Inside(s) = 0 \/ (Inside(s) = -1 /\ IsExit(s))

\* A press is reported in the frame that polled it and in no later one, so a
\* screen is never told of a key that was pressed on the screen before it.
PressSeenInItsFrame ==
  pc = "screen" => \A k \in Keys : IsKeyPressed(k) => k \in log.pressed

\* What a screen asks for, in update() or while it is entered, is done: it is
\* left, entered once more where its getter names no other, or the game ends.
\* The exception is what the first screen asks for in the onEntry() of init():
\* the setRunning() that follows it there overwrites the request, which is lost.
RequestHonoured ==
  \A s \in Screens, n \in 1..MaxEntries :
    (currentScreen = s /\ entries[s] = n /\ asked.what \in Requests /\ asked.where # "first")
      ~> (pc = "destroyed" \/ currentScreen # s \/ entries[s] # n)

\* The game that is told to exit, by a screen or by SDL, ends.
GameEnds ==
  (pc \notin {"init", "crashed"} /\ (~isRunning \/ IsExit(currentScreen))) ~> (pc = "destroyed")

\* The screens are left as they are entered, in every state there is.
ScreensSound == GameTypeOK /\ ScreensPaired

\* What a screen asks for is done, but for a request of the first screen's first
\* entry; and a game that is told to exit ends.
RequestsHonoured == RequestHonoured /\ GameEnds
=============================================================================
