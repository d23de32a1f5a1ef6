------------------------------- MODULE MCGame -------------------------------
(***************************************************************************)
(* The main loop, the child processes and the network client share no      *)
(* state: a behaviour of this instance is that of one of them, the subject,*)
(* while the others stay as they were made.                                *)
(***************************************************************************)
EXTENDS MainGame, ProcessManager, NetworkClient

VARIABLE subject

\* Three screens: a menu with no previous screen, a level, and a last screen with
\* no next one.
NextLinks == [s \in Screens |-> IF s = 2 THEN NO_SCREEN ELSE s + 1]
PrevLinks == [s \in Screens |-> IF s = 0 THEN NO_SCREEN ELSE s - 1]

vars == <<subject, gameVars, processVars, clientVars>>

Init ==
  /\ subject \in {"game", "processes", "client"}
  /\ GameInit
  /\ subject # "game" => index = NO_SCREEN
  /\ ProcessInit
  /\ ClientInit

Moves(name, A, v) == IF subject = name THEN A ELSE UNCHANGED v

Next ==
  /\ UNCHANGED subject
  /\ Moves("game", GameNext, gameVars)
  /\ Moves("processes", ProcessNext, processVars)
  /\ Moves("client", ClientNext, clientVars)

OfGame(A) == subject = "game" /\ A /\ UNCHANGED <<subject, processVars, clientVars>>
OfProcesses(A) == subject = "processes" /\ updater.pc # "undefined" /\ A /\ UNCHANGED <<subject, gameVars, clientVars>>
OfClient(A) == subject = "client" /\ A /\ UNCHANGED <<subject, gameVars, processVars>>

\* The game's thread runs: a screen's update() polls finitely many events and
\* returns.  The game calls update() of the process manager again and again, and
\* a signal is delivered in the end.  The client's update thread, the end of its
\* listen thread and the owner's join are scheduled; nobody has to stop.
Spec == Init /\ [][Next]_vars
             /\ WF_vars(OfGame(Thread))
             /\ WF_vars(OfProcesses(UpdateProcesses)) /\ WF_vars(OfProcesses(ProcessChildSignal))
             /\ WF_vars(OfClient(UpdateThread)) /\ WF_vars(OfClient(ListenEnds \/ Join))
=============================================================================
