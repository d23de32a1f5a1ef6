------------------------------ MODULE SendQueue ------------------------------
(***************************************************************************)
(* The outbound half of a Network object (net/Network.cpp): the threads    *)
(* that fill m_sendQueue, sendLoop that empties it, and its owner, which   *)
(* stops and destroys it.                                                  *)
(*                                                                         *)
(* The application pushes the packets of a message and notifies m_sendCV.  *)
(* The listen thread answers a retransmission request with an entry that   *)
(* holds a pointer to its own local variable sender.  The send thread      *)
(* waits on m_sendCV without a predicate and under a mutex of its own.     *)
(* A signal (ProcessManager handles SIGCHLD) interrupts poll() in either   *)
(* of the threads, which takes that for the end.                           *)
(***************************************************************************)
EXTENDS Integers, Sequences, SequencesExt

CONSTANTS
    Calls,          \* Calls[i] is how many packets the i-th call of send() pushes
    MaxRequests     \* bound on the retransmission requests that arrive

ASSUME SendQueueAssumption == Calls \in Seq(Nat \ {0}) /\ MaxRequests \in Nat

\* The packets of the first n calls are numbered 1 .. PushedBy(n).
PushedBy(n) == FoldSeq(+, 0, SubSeq(Calls, 1, n))

Packets == 1 .. PushedBy(Len(Calls))

CallOf(k) == CHOOSE i \in 1 .. Len(Calls) : PushedBy(i - 1) < k /\ k <= PushedBy(i)

VARIABLES
    isActive,       \* m_isActive
    netListening,   \* m_netListening
    socketOpen,     \* m_socket has not been closed
    sendQueue,      \* m_sendQueue
    pushed,         \* how many entries were ever pushed
    sender,         \* the local variable of listenLoop: the peer that asked for
                    \* a retransmission, "other" or, cleared, "zero"
    sent,           \* what sendData gave to the socket
    requests,       \* how many requests arrived
    calls,          \* calls of send() that began
    toPush,         \* packets the running call has yet to push
    appPC, listenPC, sendPC, ownerPC

net == <<isActive, netListening, socketOpen>>
app == <<calls, toPush, appPC>>
listener == <<sender, requests, listenPC>>
vars == <<net, sendQueue, pushed, sender, sent, requests, calls,
          toPush, appPC, listenPC, sendPC, ownerPC>>

Entry == [id : Nat, pkt : Packets, retry : BOOLEAN]

-----------------------------------------------------------------------------
(* m_sendQueue and m_sendCV *)

\* Mutation of Push: a retransmission jumps the queue.
PushFront(k, r) ==
    /\ pushed' = pushed + 1
    /\ sendQueue' = <<[id |-> pushed + 1, pkt |-> k, retry |-> r]>> \o sendQueue

Push(k, r) ==
    /\ pushed' = pushed + 1
    /\ sendQueue' = Append(sendQueue, [id |-> pushed + 1, pkt |-> k, retry |-> r])

NotifyNobody == UNCHANGED sendPC   \* mutation of Notify: it is forgotten

\* notify_one wakes the send thread if it waits, and is lost otherwise.
Notify == sendPC' = IF sendPC = "waiting" THEN "drain" ELSE sendPC

-----------------------------------------------------------------------------
(* Network::send on the application's thread *)

\* Nothing in it asks whether the object is still active.
Send ==
    /\ appPC = "idle" /\ ownerPC \in {"running", "stopped"}
    /\ calls < Len(Calls)
    /\ calls' = calls + 1
    /\ toPush' = [i \in 1 .. Calls[calls + 1] |-> PushedBy(calls) + i]
    /\ appPC' = "push"
    /\ UNCHANGED <<net, sendQueue, pushed, listener, sent, sendPC, ownerPC>>

PushNext ==
    /\ appPC = "push"
    /\ Push(Head(toPush), FALSE)
    /\ toPush' = Tail(toPush)
    /\ appPC' = IF Tail(toPush) = <<>> THEN "notify" ELSE "push"
    /\ UNCHANGED <<net, listener, sent, calls, sendPC, ownerPC>>

SendNotify ==
    /\ appPC = "notify"
    /\ Notify
    /\ appPC' = "idle"
    /\ UNCHANGED <<net, sendQueue, pushed, listener, sent, calls, toPush, ownerPC>>

\* Network::setAccepting
SetAccepting(val) ==
    /\ appPC = "idle" /\ ownerPC \in {"running", "stopped"}
    /\ netListening' = val
    /\ Notify
    /\ UNCHANGED <<isActive, socketOpen, sendQueue, pushed, listener, sent, app, ownerPC>>

-----------------------------------------------------------------------------
(* Network::listenLoop *)

\* Mutation of Listen: m_isActive is only looked at while accepting.
ListenWhileAccepting ==
    /\ listenPC = "loop" /\ netListening
    /\ listenPC' = IF isActive THEN "poll" ELSE "done"
    /\ UNCHANGED <<net, sendQueue, pushed, sender, sent, requests, app, sendPC, ownerPC>>

\* A round of the loop clears sender before it polls.
Listen ==
    /\ listenPC = "loop"
    /\ IF ~isActive
       THEN /\ listenPC' = "done"
            /\ netListening' = FALSE /\ socketOpen' = FALSE
            /\ UNCHANGED sender
       ELSE /\ netListening
            /\ listenPC' = "poll"
            /\ sender' = "zero"
            /\ UNCHANGED <<netListening, socketOpen>>
    /\ UNCHANGED <<isActive, sendQueue, pushed, sent, requests, app, sendPC, ownerPC>>

\* Nothing, or a packet for the update thread, arrived.
PollAgain ==
    /\ listenPC = "poll"
    /\ listenPC' = "loop"
    /\ sender' \in {"zero", "other"}
    /\ UNCHANGED <<net, sendQueue, pushed, sent, requests, app, sendPC, ownerPC>>

\* The check at listenLoop for poll() < 0.
ListenInterrupted ==
    /\ listenPC = "poll"
    /\ listenPC' = "loop"
    /\ isActive' = FALSE
    /\ UNCHANGED <<netListening, socketOpen, sendQueue, pushed, sender, sent,
                   requests, app, sendPC, ownerPC>>

\* Messages of several packets are stored before the first of these is pushed.
Stored(k) == CallOf(k) <= calls /\ Calls[CallOf(k)] > 1

\* The peer asks for k once it has seen another packet of the message.
MayBeMissed(k) == \E i \in DOMAIN sent : CallOf(sent[i].pkt) = CallOf(k)

\* sendRetryResponse serializes the stored packet once more.
Respond(k) ==
    /\ listenPC = "poll"
    /\ requests < MaxRequests /\ Stored(k) /\ MayBeMissed(k)
    /\ requests' = requests + 1
    /\ sender' = "peer"
    /\ Push(k, TRUE)
    /\ listenPC' = "notify"
    /\ UNCHANGED <<net, sent, app, sendPC, ownerPC>>

RespondNotify ==
    /\ listenPC = "notify"
    /\ Notify
    /\ listenPC' = "loop"
    /\ UNCHANGED <<net, sendQueue, pushed, sender, sent, requests, app, ownerPC>>

-----------------------------------------------------------------------------
(* Network::sendLoop *)

\* m_isActive is read, then whether the queue is empty.
SendLoop ==
    /\ sendPC = "loop"
    /\ sendPC' = IF ~isActive THEN "done"
                 ELSE IF sendQueue = <<>> THEN "block" ELSE "drain"
    /\ UNCHANGED <<net, sendQueue, pushed, listener, sent, app, ownerPC>>

\* Only now does the thread start to wait: a notification before is lost.
Block ==
    /\ sendPC = "block"
    /\ sendPC' = "waiting"
    /\ UNCHANGED <<net, sendQueue, pushed, listener, sent, app, ownerPC>>

\* A condition variable may wake up on its own.
WakeSpuriously ==
    /\ sendPC = "waiting"
    /\ sendPC' = "drain"
    /\ UNCHANGED <<net, sendQueue, pushed, listener, sent, app, ownerPC>>

\* poll() reports a closed socket as ready, but never as ready for output.
Drain ==
    /\ sendPC = "drain"
    /\ IF sendQueue = <<>> THEN sendPC' = "loop"
                           ELSE socketOpen /\ sendPC' = "front"
    /\ UNCHANGED <<net, sendQueue, pushed, listener, sent, app, ownerPC>>

SendInterrupted ==
    /\ sendPC = "drain" /\ sendQueue # <<>>
    /\ isActive' = FALSE
    /\ UNCHANGED <<netListening, socketOpen, sendQueue, pushed, listener, sent,
                   app, sendPC, ownerPC>>

\* front() and sendData: of a queue that was cleared meanwhile, front() is
\* undefined, and what the thread does then is not followed further.
SendFront ==
    /\ sendPC = "front"
    /\ IF sendQueue = <<>>
       THEN sendPC' = "undefined" /\ UNCHANGED sent
       ELSE /\ sendPC' = "pop"
            /\ LET e == Head(sendQueue)
               IN sent' = Append(sent, [id |-> e.id, pkt |-> e.pkt,
                                        to |-> IF e.retry THEN sender ELSE "peer"])
    /\ UNCHANGED <<net, sendQueue, pushed, listener, app, ownerPC>>

\* Mutation of Pop: pop() is forgotten.
NoPop ==
    /\ sendPC = "pop"
    /\ sendPC' = "drain"
    /\ UNCHANGED <<net, sendQueue, pushed, listener, sent, app, ownerPC>>

Pop ==
    /\ sendPC = "pop"
    /\ sendQueue' = IF sendQueue = <<>> THEN <<>> ELSE Tail(sendQueue)
    /\ sendPC' = "drain"
    /\ UNCHANGED <<net, pushed, listener, sent, app, ownerPC>>

-----------------------------------------------------------------------------
(* The owner *)

\* Network::stop
Stop ==
    /\ ownerPC = "running" /\ appPC = "idle"
    /\ isActive' = FALSE
    /\ netListening' = FALSE
    /\ Notify
    /\ ownerPC' = "stopped"
    /\ UNCHANGED <<socketOpen, sendQueue, pushed, listener, sent, app>>

\* ~NetworkServer and ~NetworkClient: shutdownSockets clears the queue and
\* notifies nobody.
Shutdown ==
    /\ ownerPC \in {"running", "stopped"} /\ appPC = "idle"
    /\ isActive' = FALSE
    /\ netListening' = FALSE
    /\ sendQueue' = <<>>
    /\ ownerPC' = "joining"
    /\ UNCHANGED <<socketOpen, pushed, listener, sent, app, sendPC>>

\* ~Network: joins the listen thread, then the send thread.
Join ==
    /\ ownerPC = "joining"
    /\ listenPC = "done" /\ sendPC = "done"
    /\ ownerPC' = "destroyed"
    /\ UNCHANGED <<net, sendQueue, pushed, listener, sent, app, sendPC>>

-----------------------------------------------------------------------------
Init ==
    /\ isActive = TRUE /\ netListening = FALSE /\ socketOpen = TRUE
    /\ sendQueue = <<>> /\ pushed = 0
    /\ sender = "zero" /\ requests = 0
    /\ sent = <<>>
    /\ calls = 0 /\ toPush = <<>>
    /\ appPC = "idle" /\ listenPC = "loop" /\ sendPC = "loop" /\ ownerPC = "running"

AppStep == Send \/ PushNext \/ SendNotify \/ (\E val \in BOOLEAN : SetAccepting(val))
ListenStep == Listen \/ PollAgain \/ (\E k \in Packets : Respond(k)) \/ RespondNotify
SendStep == SendLoop \/ Block \/ Drain \/ SendFront \/ Pop
OwnerStep == Stop \/ Shutdown \/ Join

Unexpected == ListenInterrupted \/ SendInterrupted \/ WakeSpuriously

Next == AppStep \/ ListenStep \/ SendStep \/ OwnerStep \/ Unexpected

Spec == Init /\ [][Next]_vars

\* Every thread that can run does.  Nothing makes the application send or stop,
\* and nothing interrupts a poll or wakes the send thread up on its own.
FairSpec ==
    /\ Spec
    /\ WF_vars(PushNext \/ SendNotify)
    /\ WF_vars(ListenStep)
    /\ WF_vars(SendStep)
    /\ WF_vars(Join)

-----------------------------------------------------------------------------
(* Properties *)

\* Every variable has its type.
TypeOK ==
    /\ isActive \in BOOLEAN /\ netListening \in BOOLEAN /\ socketOpen \in BOOLEAN
    /\ sendQueue \in Seq(Entry) /\ pushed \in Nat
    /\ sender \in {"zero", "peer", "other"} /\ requests \in 0 .. MaxRequests
    /\ sendPC \in {"loop", "block", "waiting", "drain", "front", "pop", "done", "undefined"}

\* The entry in front is sent before it is popped.
Unsent == IF sendPC = "pop" /\ sendQueue # <<>> THEN Tail(sendQueue) ELSE sendQueue

\* Also while the owner clears the queue under the send thread, nothing is
\* sent twice: a pop that meets another entry only loses it.
NeverSentTwice ==
    \A i, j \in DOMAIN sent : i < j => sent[i].id < sent[j].id

\* Until the owner clears the queue, the send thread hands over every entry
\* exactly once and in the order in which the two producers pushed them.
SentInOrder ==
  /\ NeverSentTwice
  /\ ownerPC \in {"running", "stopped"} =>
        [i \in 1 .. Len(sent) + Len(Unsent) |->
            IF i <= Len(sent) THEN sent[i].id ELSE Unsent[i - Len(sent)].id]
        = [i \in 1 .. pushed |-> i]

\* A notification that finds the send thread asleep wakes it, and it sends all
\* there is before it sleeps again, unless the object has become inactive.
NotifiedDrains ==
    ("notify" \in {appPC, listenPC} /\ sendPC = "waiting")
        ~> (sendQueue = <<>> \/ ~isActive \/ sendPC = "undefined")

\* The destructor returns unless the send thread sleeps, which nobody ends, was
\* cut off inside the queue, or has something to send to a closed socket.
DestructionEnds ==
    (ownerPC = "joining")
        ~> \/ ownerPC = "destroyed"
           \/ sendPC \in {"waiting", "undefined"}
           \/ ~socketOpen /\ sendQueue # <<>>

-----------------------------------------------------------------------------
(* What comments of the code say and the code does not do *)

\* Network.cpp:256 announces the immediate reply of retry requests: the reply
\* should go to the peer that asked.
RepliesReachPeer == \A i \in DOMAIN sent : sent[i].to = "peer"
=============================================================================
