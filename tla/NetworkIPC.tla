----------------------------- MODULE NetworkIPC -----------------------------
(***************************************************************************)
(* net/NetworkIPC.cpp and net/UnixSocket.cpp: two processes that talk over *)
(* datagram sockets in /tmp.  The primary reads at the name that ends in   *)
(* A, the secondary at the one that ends in B; each writes to the other's. *)
(* The application of each makes the object, completes the pair, sends and *)
(* destroys it; a thread of each reads.  Processes can be killed and begin *)
(* anew, and a signal may interrupt poll().  That a socket cannot be made  *)
(* or bound is left out; that a connect() finds nobody is not.             *)
(*                                                                         *)
(* addDatagram() sends through the read socket to an address that is zero, *)
(* as receive() asks for no address: it never changes any of this.         *)
(***************************************************************************)
EXTENDS Integers, Sequences

CONSTANTS
  MaxLives,      \* bound on how many objects are made
  MaxCalls,      \* bound on the calls of both applications
  QueueLength    \* datagrams a socket holds before it refuses more

ASSUME IpcAssumption == MaxLives \in Nat /\ MaxCalls \in Nat /\ QueueLength \in Nat \ {0}

VARIABLES
  ends,          \* the NetworkIPC objects
  inbox,         \* datagrams that wait in the socket a side reads from
  uses           \* calls so far

ipcVars == <<ends, inbox, uses>>

Sides == {"primary", "secondary"}

Peer(s) == IF s = "primary" THEN "secondary" ELSE "primary"

Ops == {"KeepAlive", "IPCData", "Data"}

IpcEnd ==
  [owner : {"absent", "using", "clearing", "joining", "gone", "killed"},
   lives : 0 .. MaxLives,
   active : BOOLEAN,                       \* m_isActive
   connected : BOOLEAN,                    \* m_isConnected
   id : {0, 1},                            \* m_uniqueID, of which there is one
   read : {"none", "open", "closed"},      \* m_readSocket
   write : {"none", "open", "closed"},     \* m_writeSocket
   thread : {"none", "head", "polling", "left"},
   heard : Nat]                            \* packets in *m_unixPackets

NoEnd == [owner |-> "absent", lives |-> 0, active |-> FALSE, connected |-> FALSE, id |-> 0,
          read |-> "none", write |-> "none", thread |-> "none", heard |-> 0]

IpcInit ==
  /\ ends = [s \in Sides |-> NoEnd]
  /\ inbox = [s \in Sides |-> <<>>]
  /\ uses = 0

-----------------------------------------------------------------------------
(* Sockets                                                                 *)

\* The name goes with the file in /tmp only when somebody binds it anew: what is
\* sent to the name of a closed socket is refused.
Bound(s) == ends[s].read = "open"

\* sendData() of a write socket gives each datagram to whoever is bound to the
\* name by then, which need not be whom it was connected to.  The socket never
\* blocks: a datagram that finds the queue full is gone.
Deliver(queue, ops) ==
  LET all == queue \o ops
  IN  IF Len(all) <= QueueLength THEN all ELSE SubSeq(all, 1, QueueLength)

\* sendSimple() and send(), of a side whose object is e by then.
Sends(s, e, ops) ==
  inbox' = IF e.active /\ e.write = "open" /\ Bound(Peer(s))
           THEN [inbox EXCEPT ![Peer(s)] = Deliver(@, ops)]
           ELSE inbox

Becomes(s, e) == ends' = [ends EXCEPT ![s] = e]

\* What the process had is closed; what it did not read is lost.
Loses(s) == inbox' = [inbox EXCEPT ![s] = <<>>]

-----------------------------------------------------------------------------
(* The application                                                         *)

New(s) ==
  /\ ends[s].owner \in {"absent", "gone", "killed"}
  /\ ends["primary"].lives + ends["secondary"].lives < MaxLives

CreatePrimary ==
  /\ New("primary")
  /\ Becomes("primary", [NoEnd EXCEPT !.owner = "using", !.lives = ends["primary"].lives + 1,
                                      !.active = TRUE, !.id = 1,
                                      !.read = "open", !.thread = "head"])
  /\ UNCHANGED <<inbox, uses>>

\* Without a primary the secondary stays inactive, for good.
CreateSecondary ==
  /\ New("secondary")
  /\ LET e == [NoEnd EXCEPT !.owner = "using", !.lives = ends["secondary"].lives + 1,
                            !.active = Bound("primary"),
                            !.write = IF Bound("primary") THEN "open" ELSE "closed"]
     IN  Becomes("secondary", e) /\ Sends("secondary", e, <<"KeepAlive">>)
  /\ UNCHANGED uses

Calling(s) ==
  /\ ends[s].owner = "using"
  /\ uses < MaxCalls
  /\ uses' = uses + 1

\* A primary that calls it before the secondary is bound keeps a closed socket,
\* which no later call replaces.
CompletePrimary ==
  /\ Calling("primary") /\ ends["primary"].active
  /\ LET e == ends["primary"]
         w == IF e.write # "none" THEN e.write
              ELSE IF Bound("secondary") THEN "open" ELSE "closed"
         f == [e EXCEPT !.write = w, !.connected = @ \/ w = "open"]
     IN  Becomes("primary", f) /\ Sends("primary", f, <<"KeepAlive", "IPCData">>)

\* isConnected() of a socket is always true: the pair counts as complete.
CompleteSecondary ==
  /\ Calling("secondary") /\ ends["secondary"].active
  /\ ends["secondary"].read = "none"
  /\ LET e == [ends["secondary"] EXCEPT !.read = "open", !.connected = TRUE, !.id = 0,
                                        !.thread = "head"]
     IN  Becomes("secondary", e) /\ Sends("secondary", e, <<"KeepAlive">>)

SendData(s) ==
  /\ Calling(s)
  /\ Sends(s, ends[s], <<"Data">>)
  /\ UNCHANGED ends

SetDisconnected(s) ==
  /\ Calling(s)
  /\ Becomes(s, [ends[s] EXCEPT !.connected = FALSE])
  /\ UNCHANGED inbox

StopIpc(s) ==
  /\ Calling(s)
  /\ Becomes(s, [ends[s] EXCEPT !.active = FALSE])
  /\ UNCHANGED inbox

\* ~NetworkIPC(): shutdownSockets() sets the flags and then clears the packets.
DestroyIpc(s) ==
  /\ ends[s].owner = "using"
  /\ Becomes(s, [ends[s] EXCEPT !.owner = "clearing", !.active = FALSE, !.connected = FALSE])
  /\ UNCHANGED <<inbox, uses>>

ClearPackets(s) ==
  /\ ends[s].owner = "clearing"
  /\ Becomes(s, [ends[s] EXCEPT !.owner = "joining", !.heard = 0])
  /\ UNCHANGED <<inbox, uses>>

\* What is left of an object: what the application has heard.
Gone(e, how) == [NoEnd EXCEPT !.owner = how, !.lives = e.lives, !.heard = e.heard]

\* Mutation of JoinIpc: the sockets are closed before the thread is joined.
HastyJoinIpc(s) ==
  /\ ends[s].owner = "joining"
  /\ Becomes(s, [Gone(ends[s], "gone") EXCEPT !.thread = ends[s].thread])
  /\ Loses(s)
  /\ UNCHANGED uses

JoinIpc(s) ==
  /\ ends[s].owner = "joining"
  /\ ends[s].thread \in {"none", "left"}
  /\ Becomes(s, Gone(ends[s], "gone"))
  /\ Loses(s)
  /\ UNCHANGED uses

\* The process is killed.
Kill(s) ==
  /\ ends[s].owner = "using"
  /\ Becomes(s, [Gone(ends[s], "killed") EXCEPT !.heard = 0])
  /\ Loses(s)
  /\ UNCHANGED uses

-----------------------------------------------------------------------------
(* mainLoop()                                                              *)

LoopIpc(s) ==
  /\ ends[s].thread = "head"
  /\ IF ends[s].active
     THEN Becomes(s, [ends[s] EXCEPT !.thread = "polling"]) /\ UNCHANGED inbox
     ELSE Becomes(s, [ends[s] EXCEPT !.thread = "left", !.read = "closed"]) /\ Loses(s)
  /\ UNCHANGED uses

\* Mutation of Answers: either side does.
BothAnswer(s) == s \in Sides

\* Who answers a keep-alive; the primary hands it to its application.
Answers(s) == s = "secondary"

\* A side that is not connected hears a keep-alive and nothing else.
Heard(s, e, op) ==
  CASE ~e.connected /\ op = "KeepAlive" -> [e EXCEPT !.connected = TRUE, !.heard = @ + 1]
    [] ~e.connected -> e
    [] op = "IPCData" -> [e EXCEPT !.id = IF @ = 0 THEN 1 ELSE @]
    [] op = "KeepAlive" /\ Answers(s) -> e
    [] OTHER -> [e EXCEPT !.heard = @ + 1]

\* poll() finds a datagram, also when the object became inactive meanwhile.
Receive(s) ==
  /\ ends[s].thread = "polling" /\ inbox[s] # <<>>
  /\ LET op == Head(inbox[s])
         e == ends[s]
         rest == [inbox EXCEPT ![s] = Tail(@)]
     IN  /\ Becomes(s, [Heard(s, e, op) EXCEPT !.thread = "head"])
         /\ inbox' = IF /\ e.connected /\ op = "KeepAlive" /\ Answers(s)
                        /\ e.active /\ e.write = "open" /\ Bound(Peer(s))
                     THEN [rest EXCEPT ![Peer(s)] = Deliver(@, <<"KeepAlive">>)]
                     ELSE rest
  /\ UNCHANGED uses

PollTimesOut(s) ==
  /\ ends[s].thread = "polling" /\ inbox[s] = <<>>
  /\ Becomes(s, [ends[s] EXCEPT !.thread = "head"])
  /\ UNCHANGED <<inbox, uses>>

\* A signal ends the loop, and with it the object's activity.
Interrupted(s) ==
  /\ ends[s].thread = "polling"
  /\ Becomes(s, [ends[s] EXCEPT !.thread = "head", !.active = FALSE])
  /\ UNCHANGED <<inbox, uses>>

IpcThread(s) == LoopIpc(s) \/ Receive(s) \/ PollTimesOut(s)

IpcOwner(s) == ClearPackets(s) \/ JoinIpc(s)

IpcNext ==
  \/ CreatePrimary \/ CreateSecondary \/ CompletePrimary \/ CompleteSecondary
  \/ \E s \in Sides :
       \/ SendData(s) \/ SetDisconnected(s) \/ StopIpc(s) \/ DestroyIpc(s) \/ Kill(s)
       \/ IpcOwner(s) \/ IpcThread(s) \/ Interrupted(s)

-----------------------------------------------------------------------------

IpcTypeOK ==
  /\ ends \in [Sides -> IpcEnd]
  /\ inbox \in [Sides -> Seq(Ops)]
  /\ uses \in 0 .. MaxCalls

\* A thread that has not left its loop has a socket to poll, whose name is bound.
ThreadHasSocket ==
  \A s \in Sides : ends[s].thread \in {"head", "polling"} => Bound(s)

\* shutdownSockets() does not wait for the thread: one packet, not more, may be
\* in the application's queue when the object that put it there is gone.
OneLatePacket == \A s \in Sides : ends[s].owner \in {"joining", "gone"} => ends[s].heard <= 1

\* Packets, sockets and threads of the pair belong together.
IpcSound == IpcTypeOK /\ ThreadHasSocket /\ OneLatePacket

\* Keep-alives die out: when nobody calls any more, nothing goes to and fro.
KeepAlivesEnd == <>[](\A s \in Sides : inbox[s] = <<>>)

\* The number a primary sends arrives, unless the secondary disconnects or ends.
IdArrives ==
  LET e == ends["secondary"]
  IN  (e.connected /\ \E i \in DOMAIN inbox["secondary"] : inbox["secondary"][i] = "IPCData")
        ~> (e.id # 0 \/ ~e.connected \/ ~e.active)

\* The destructor ends.
IpcDestroyed == \A s \in Sides : ends[s].owner = "joining" ~> ends[s].owner # "joining"

\* What is sent is read, and what is destroyed is joined.
IpcProgress == KeepAlivesEnd /\ IdArrives /\ IpcDestroyed
=============================================================================
