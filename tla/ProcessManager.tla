--------------------------- MODULE ProcessManager ---------------------------
(***************************************************************************)
(* srv/ProcessManager.cpp: the child processes that are started, killed    *)
(* and reaped.  SIGCHLD only counts up m_signalsCaught; update() calls     *)
(* waitpid() once per signal counted.  m_processList locks each of its     *)
(* operations, so start() and pKill() may run in another thread than       *)
(* update(); nothing protects what a caller does between two of them.      *)
(***************************************************************************)
EXTENDS Integers, FiniteSets

CONSTANT PIDs   \* what fork() may return, each at most once

ASSUME PIDsAssumption == IsFiniteSet(PIDs) /\ PIDs \subseteq Nat \ {0}

VARIABLES
  os,             \* the state of each child
  pending,        \* a SIGCHLD waits to be delivered: at most one does
  signalsCaught,  \* m_signalsCaught
  processList,    \* the keys of m_processList
  process,        \* what became of each Process object
  starting,       \* the child between fork() and insert(), or none
  killing,        \* [pid, sent]: the child pKill() has found, or none, and whether kill() took it
  updater,        \* [pc, tmp, pid] of the thread in update()
  missed,         \* children whose SIGCHLD is in no count: merged or overwritten
  raced,          \* children that were reaped before they were listed
  cleaned         \* children whose ProcessHandle::cleanup() ran

processVars == <<os, pending, signalsCaught, processList, process, starting, killing, updater,
          missed, raced, cleaned>>
system == <<os, pending, missed>>

None == 0
NoKill == [pid |-> None, sent |-> FALSE]
Idle == [pc |-> "idle", tmp |-> 0, pid |-> None]
Zombies == {p \in PIDs : os[p] = "zombie"}
Children == {p \in PIDs : os[p] \in {"running", "zombie"}}

ProcessTypeOK ==
  /\ os \in [PIDs -> {"unused", "running", "zombie", "gone"}]
  /\ pending \in BOOLEAN
  /\ signalsCaught \in Nat /\ missed \in Nat
  /\ processList \subseteq PIDs /\ raced \subseteq PIDs /\ cleaned \subseteq PIDs
  /\ process \in [PIDs -> {"none", "owned", "leaked", "deleted"}]
  /\ starting \in PIDs \cup {None}
  /\ killing \in [pid : PIDs \cup {None}, sent : BOOLEAN]
  /\ updater.pc \in {"idle", "loaded", "wait", "found", "undefined"}

ProcessInit ==
  /\ os = [p \in PIDs |-> "unused"]
  /\ pending = FALSE /\ signalsCaught = 0 /\ missed = 0
  /\ processList = {} /\ process = [p \in PIDs |-> "none"]
  /\ starting = None /\ killing = NoKill /\ updater = Idle
  /\ raced = {} /\ cleaned = {}

-----------------------------------------------------------------------------
(* The operating system                                                    *)

\* A child ends: of several SIGCHLDs that wait, one is kept.
ChildExits(p) ==
  /\ os[p] = "running"
  /\ os' = [os EXCEPT ![p] = "zombie"]
  /\ pending' = TRUE
  /\ missed' = IF pending THEN missed + 1 ELSE missed
  /\ UNCHANGED <<signalsCaught, processList, process, starting, killing, updater, raced, cleaned>>

\* Mutation of ProcessChildSignal: a flag in place of a counter.
FlagChildSignal ==
  /\ pending
  /\ pending' = FALSE
  /\ signalsCaught' = 1
  /\ UNCHANGED <<os, missed, processList, process, starting, killing, updater, raced, cleaned>>

\* The handler, on any thread and between any two of its steps.
ProcessChildSignal ==
  /\ pending
  /\ pending' = FALSE
  /\ signalsCaught' = signalsCaught + 1
  /\ UNCHANGED <<os, missed, processList, process, starting, killing, updater, raced, cleaned>>

-----------------------------------------------------------------------------
(* start(), pKill() and pKillAll()                                         *)

\* fork() may also fail: PIDerr, and nothing changes.  A child whose execv()
\* fails goes on as a copy of this program: to its parent it is a child that runs.
Fork(p) ==
  /\ starting = None /\ killing = NoKill
  /\ os[p] = "unused"
  /\ os' = [os EXCEPT ![p] = "running"]
  /\ process' = [process EXCEPT ![p] = "owned"]
  /\ starting' = p
  /\ UNCHANGED <<pending, missed, signalsCaught, processList, killing, updater, raced, cleaned>>

Insert ==
  /\ starting # None
  /\ processList' = processList \cup {starting}
  /\ starting' = None
  /\ UNCHANGED <<system, signalsCaught, process, killing, updater, raced, cleaned>>

(* pKill(): find(), kill() and erase() are three steps, and update() may run *)
(* between them.                                                           *)

KillFind(p) ==
  /\ starting = None /\ killing = NoKill
  /\ p \in processList
  /\ killing' = [pid |-> p, sent |-> FALSE]
  /\ UNCHANGED <<system, signalsCaught, processList, process, starting, updater, raced, cleaned>>

\* kill() fails for a child that was reaped; a signal need not end the child.
KillSend ==
  /\ killing.pid # None /\ ~killing.sent
  /\ killing' = IF os[killing.pid] = "gone" THEN NoKill ELSE [killing EXCEPT !.sent = TRUE]
  /\ UNCHANGED <<system, signalsCaught, processList, process, starting, updater, raced, cleaned>>

\* The Process goes from the list and is not deleted, nor cleaned up.  update()
\* may have erased what the iterator stands on.
KillErase ==
  /\ killing.sent
  /\ IF killing.pid \in processList
     THEN /\ processList' = processList \ {killing.pid}
          /\ process' = [process EXCEPT ![killing.pid] = "leaked"]
          /\ UNCHANGED updater
     ELSE /\ updater' = [updater EXCEPT !.pc = "undefined"]
          /\ UNCHANGED <<processList, process>>
  /\ killing' = NoKill
  /\ UNCHANGED <<system, signalsCaught, starting, raced, cleaned>>

PKill == KillSend \/ KillErase \/ \E p \in PIDs : KillFind(p)

\* The loop erases the entry its iterator stands on.  What follows the first
\* child that is killed is undefined: here the loop goes on, ends, or crashes.
PKillAll(flush) ==
  /\ starting = None /\ killing = NoKill
  /\ processList # {}
  /\ LET mortal == {p \in processList : os[p] # "gone"} IN
     \/ /\ \E seen \in SUBSET processList :
             /\ IF mortal = {} THEN seen = processList ELSE seen \cap mortal # {}
             /\ process' = [p \in PIDs |->
                  IF p \notin processList THEN process[p]
                  ELSE IF flush THEN (IF p \in seen THEN "deleted" ELSE "leaked")
                  ELSE IF p \in seen \cap mortal THEN "leaked" ELSE process[p]]
             /\ processList' = IF flush THEN {} ELSE processList \ (seen \cap mortal)
        /\ UNCHANGED updater
     \/ /\ mortal # {}
        /\ updater' = [updater EXCEPT !.pc = "undefined"]
        /\ UNCHANGED <<process, processList>>
  /\ UNCHANGED <<system, signalsCaught, starting, killing, raced, cleaned>>

-----------------------------------------------------------------------------
(* update()                                                                *)

\* Mutation of Load: the loop decrements first and asks afterwards.
EagerLoad ==
  /\ updater.pc = "idle"
  /\ updater' = [updater EXCEPT !.pc = "wait"]
  /\ signalsCaught' = signalsCaught - 1
  /\ UNCHANGED <<system, processList, process, starting, killing, raced, cleaned>>

\* m_signalsCaught-- is one instruction or a load and a store, as compiled.
Load ==
  /\ updater.pc = "idle"
  /\ signalsCaught > 0
  /\ \/ /\ updater' = [updater EXCEPT !.pc = "loaded", !.tmp = signalsCaught]
        /\ UNCHANGED signalsCaught
     \/ /\ updater' = [updater EXCEPT !.pc = "wait"]
        /\ signalsCaught' = signalsCaught - 1
  /\ UNCHANGED <<system, processList, process, starting, killing, raced, cleaned>>

\* A signal counted since the load is overwritten.
Store ==
  /\ updater.pc = "loaded"
  /\ signalsCaught' = updater.tmp - 1
  /\ missed' = missed + (signalsCaught - updater.tmp)
  /\ updater' = [updater EXCEPT !.pc = "wait", !.tmp = 0]
  /\ UNCHANGED <<os, pending, processList, process, starting, killing, raced, cleaned>>

\* waitpid(-1, WNOHANG) and, for a child reaped, find().
Wait ==
  /\ updater.pc = "wait"
  /\ IF Zombies = {}
     THEN /\ updater' = Idle
          /\ UNCHANGED <<os, raced>>
     ELSE \E p \in Zombies :
            /\ os' = [os EXCEPT ![p] = "gone"]
            /\ updater' = IF p \in processList
                          THEN [Idle EXCEPT !.pc = "found", !.pid = p] ELSE Idle
            /\ raced' = IF p = starting THEN raced \cup {p} ELSE raced
  /\ UNCHANGED <<pending, missed, signalsCaught, processList, process, starting, killing, cleaned>>

\* Mutation of CleanupProcess: the entry stays.
KeepingCleanup ==
  /\ updater.pc = "found"
  /\ cleaned' = cleaned \cup {updater.pid}
  /\ process' = [process EXCEPT ![updater.pid] = "deleted"]
  /\ updater' = Idle
  /\ UNCHANGED <<system, signalsCaught, processList, starting, killing, raced>>

\* cleanupProcess(it); pKillAll() may have erased what the iterator stands on.
CleanupProcess ==
  /\ updater.pc = "found"
  /\ IF updater.pid \in processList
     THEN /\ cleaned' = cleaned \cup {updater.pid}
          /\ process' = [process EXCEPT ![updater.pid] = "deleted"]
          /\ processList' = processList \ {updater.pid}
          /\ updater' = Idle
     ELSE /\ updater' = [updater EXCEPT !.pc = "undefined"]
          /\ UNCHANGED <<cleaned, process, processList>>
  /\ UNCHANGED <<system, signalsCaught, starting, killing, raced>>

UpdateProcesses == Load \/ Store \/ Wait \/ CleanupProcess

ProcessNext ==
  /\ updater.pc # "undefined"
  /\ \/ UpdateProcesses \/ ProcessChildSignal \/ Insert \/ PKill
     \/ \E p \in PIDs : ChildExits(p) \/ Fork(p)
     \/ \E flush \in BOOLEAN : PKillAll(flush)

-----------------------------------------------------------------------------

\* Every child that waits to be reaped is in a count: in m_signalsCaught, in a
\* signal that is on its way, in the call of waitpid() that update() has begun,
\* or among the signals that were merged or overwritten.
ZombiesCounted ==
  updater.pc # "undefined" =>
    Cardinality(Zombies) <=
      signalsCaught + missed + (IF pending THEN 1 ELSE 0)
        + (IF updater.pc = "wait" THEN 1 ELSE 0)

\* A listed process that is gone, which no update() will ever remove, was reaped
\* between its fork() and its insert(); or update() is about to remove it.
GhostsWereRaced ==
  updater.pc # "undefined" => \A p \in processList :
    os[p] = "gone" => p \in raced \/ (updater.pc = "found" /\ updater.pid = p)

\* A Process is deleted only when it is out of the list, and cleanup() runs for
\* a process that ended by itself, never for one that pKill() took out.
CleanupOwnsProcess ==
  /\ \A p \in PIDs : process[p] = "deleted" => p \notin processList
  /\ \A p \in cleaned : process[p] = "deleted"

\* Unless a signal was missed, a child that ends is reaped.
ZombieReaped ==
  \A p \in PIDs :
    os[p] = "zombie" ~> (os[p] = "gone" \/ missed > 0 \/ updater.pc = "undefined")

\* What the list, the Process objects and the count of signals tell of the
\* children of the operating system is true, but for the races named above.
ListTellsChildren == ProcessTypeOK /\ ZombiesCounted /\ GhostsWereRaced /\ CleanupOwnsProcess
=============================================================================
