---------------------------- MODULE NetworkClient ----------------------------
(***************************************************************************)
(* net/NetworkClient.cpp: the client's update thread, the packets that     *)
(* Network::listenLoop leaves it, and the owner that stops and destroys    *)
(* the client.  The network below is unreliable: any packet a server sends *)
(* may arrive, once, twice or not at all, in any order.  What the one      *)
(* connection keeps of a packet is Connection::addPacket: a message of one *)
(* packet goes to the application at once, a part of a longer one waits    *)
(* for Connection::update, which the client never calls.                   *)
(***************************************************************************)
EXTENDS Integers, Sequences

CONSTANTS MaxArrivals   \* bound on the packets that arrive

ASSUME ClientAssumption == MaxArrivals \in Nat

VARIABLES
  isActive,             \* m_isActive
  listening,            \* the listen thread has not left its loop
  owner,                \* how far the owner is: "using", "stopped", "joining", "joined"
  updatePC,             \* where the update thread is
  notified,             \* m_updateCV was notified since the thread sleeps
  pkts,                 \* packets left of the batch
  packetBuffer,         \* m_packetBuffer: what the packets are, numbered by arrival
  arrivals,             \* how many packets arrived
  isConnectionAccepted, \* m_isConnectionAccepted
  serverConnection,     \* m_serverConnection: "none", "open", "closing", "deleted"
  held,                 \* parts in the connection's m_packets
  datagramBuffer        \* *m_datagramBuffer, which the application never empties

clientVars == <<isActive, listening, owner, updatePC, notified, pkts, packetBuffer, arrivals,
          isConnectionAccepted, serverConnection, held, datagramBuffer>>
session == <<isConnectionAccepted, serverConnection, held, datagramBuffer>>

\* The acceptance, a goodbye, a whole message, a part of one, and op codes that
\* change what the connection knows and are not kept.
OpCodes == {"ConnectionAccepted", "Disconnect", "Data", "Part", "Control"}

Packet == [op : OpCodes, num : 1 .. MaxArrivals]

ClientTypeOK ==
  /\ {isActive, listening} \subseteq BOOLEAN /\ notified \in BOOLEAN /\ isConnectionAccepted \in BOOLEAN
  /\ owner \in {"using", "stopped", "joining", "joined"}
  /\ updatePC \in {"head", "check", "wait", "batch", "process", "done", "undefined"}
  /\ {pkts, arrivals, held} \subseteq 0 .. MaxArrivals
  /\ packetBuffer \in Seq(Packet) /\ datagramBuffer \in Seq(Packet)
  /\ serverConnection \in {"none", "open", "closing", "deleted"}

ClientInit ==
  /\ isActive = TRUE /\ listening = TRUE /\ owner = "using"
  /\ updatePC = "head" /\ notified = FALSE /\ pkts = 0
  /\ packetBuffer = <<>> /\ arrivals = 0
  /\ isConnectionAccepted = FALSE /\ serverConnection = "none"
  /\ held = 0 /\ datagramBuffer = <<>>

Asleep == updatePC = "wait" /\ ~notified

-----------------------------------------------------------------------------
(* The listen thread and the owner                                         *)

\* Network::listenLoop looks at m_isActive after each packet.
Arrive(op) ==
  /\ listening
  /\ listening' = isActive
  /\ arrivals < MaxArrivals
  /\ arrivals' = arrivals + 1
  /\ packetBuffer' = Append(packetBuffer, [op |-> op, num |-> arrivals'])
  /\ notified' = (notified \/ updatePC = "wait")
  /\ UNCHANGED <<isActive, owner, updatePC, pkts, session>>

\* Mutation of ListenEnds: the thread blocks until a packet arrives.
BlockingListenEnds ==
  /\ listening /\ ~isActive
  /\ arrivals < MaxArrivals
  /\ listening' = FALSE
  /\ UNCHANGED <<isActive, owner, updatePC, notified, pkts, packetBuffer, arrivals, session>>

ListenEnds ==
  /\ listening /\ ~isActive
  /\ listening' = FALSE
  /\ UNCHANGED <<isActive, owner, updatePC, notified, pkts, packetBuffer, arrivals, session>>

\* Network::stop
Stop ==
  /\ owner = "using"
  /\ owner' = "stopped"
  /\ isActive' = FALSE
  /\ notified' = (notified \/ updatePC = "wait")
  /\ UNCHANGED <<listening, updatePC, pkts, packetBuffer, arrivals, session>>

\* ~NetworkClient(): shutdownSockets() notifies nobody and waits for nobody.
Shutdown ==
  /\ owner \in {"using", "stopped"}
  /\ owner' = "joining"
  /\ isActive' = FALSE
  /\ packetBuffer' = <<>>
  /\ serverConnection' = IF serverConnection = "none" THEN "none" ELSE "deleted"
  /\ UNCHANGED <<listening, updatePC, notified, pkts, arrivals, isConnectionAccepted, held,
                 datagramBuffer>>

\* ~Network() joins the threads.
Join ==
  /\ owner = "joining"
  /\ ~listening /\ updatePC = "done"
  /\ owner' = "joined"
  /\ UNCHANGED <<isActive, listening, updatePC, notified, pkts, packetBuffer, arrivals, session>>

-----------------------------------------------------------------------------
(* updateLoop()                                                            *)

UnchangedByWait == UNCHANGED <<isActive, listening, owner, packetBuffer, arrivals, session>>

LoopHead ==
  /\ updatePC = "head"
  /\ updatePC' = IF isActive THEN "check" ELSE "done"
  /\ UNCHANGED <<notified, pkts>> /\ UnchangedByWait

\* empty(); the mutex of the wait is the thread's own, so nothing keeps a packet
\* or a stop() from coming before the wait begins.
CheckEmpty ==
  /\ updatePC = "check"
  /\ updatePC' = IF packetBuffer = <<>> THEN "wait" ELSE "batch"
  /\ notified' = FALSE
  /\ UNCHANGED pkts /\ UnchangedByWait

BeginBatch ==
  /\ updatePC = "batch"
  /\ pkts' = Len(packetBuffer)
  /\ updatePC' = "process"
  /\ UNCHANGED notified /\ UnchangedByWait

WakeUp ==
  /\ updatePC = "wait" /\ notified
  /\ updatePC' = "batch" /\ notified' = FALSE
  /\ UNCHANGED pkts /\ UnchangedByWait

\* The first acceptance makes the connection; all else is discarded before it.
Accept(p) ==
  IF p.op # "ConnectionAccepted"
  THEN UNCHANGED session
  ELSE /\ isConnectionAccepted' = TRUE
       /\ serverConnection' = "open"
       /\ datagramBuffer' = Append(datagramBuffer, p)
       /\ UNCHANGED held

\* A goodbye only marks the connection: nothing removes it, the client stays
\* accepted, and packets that arrive later reach the application.
AddPacket(p) ==
  /\ serverConnection' = IF p.op = "Disconnect" THEN "closing" ELSE serverConnection
  /\ held' = IF p.op = "Part" THEN held + 1 ELSE held
  /\ datagramBuffer' = IF p.op \in {"ConnectionAccepted", "Data"}
                       THEN Append(datagramBuffer, p) ELSE datagramBuffer
  /\ UNCHANGED isConnectionAccepted

\* Mutation of ProcessPacket: the packet is not taken from the buffer.
KeepProcessPacket ==
  /\ updatePC = "process" /\ pkts > 0 /\ packetBuffer # <<>>
  /\ IF isConnectionAccepted THEN AddPacket(Head(packetBuffer)) ELSE Accept(Head(packetBuffer))
  /\ pkts' = pkts - 1
  /\ UNCHANGED <<isActive, listening, owner, updatePC, notified, arrivals, packetBuffer>>

\* Mutation of ProcessPacket: the client looks at every packet as accepted.
HastyProcessPacket ==
  /\ updatePC = "process" /\ pkts > 0 /\ packetBuffer # <<>>
  /\ AddPacket(Head(packetBuffer))
  /\ packetBuffer' = Tail(packetBuffer)
  /\ pkts' = pkts - 1
  /\ UNCHANGED <<isActive, listening, owner, updatePC, notified, arrivals>>

\* front() of a buffer that shutdownSockets() emptied, and the connection that
\* it deleted, are undefined.
ProcessPacket ==
  /\ updatePC = "process" /\ pkts > 0
  /\ IF packetBuffer = <<>> \/ (isConnectionAccepted /\ serverConnection = "deleted")
     THEN /\ updatePC' = "undefined"
          /\ UNCHANGED <<pkts, packetBuffer, session>>
     ELSE /\ IF isConnectionAccepted THEN AddPacket(Head(packetBuffer))
                                     ELSE Accept(Head(packetBuffer))
          /\ packetBuffer' = Tail(packetBuffer)
          /\ pkts' = pkts - 1
          /\ UNCHANGED updatePC
  /\ UNCHANGED <<isActive, listening, owner, notified, arrivals>>

EndBatch ==
  /\ updatePC = "process" /\ pkts = 0
  /\ updatePC' = "head"
  /\ UNCHANGED <<notified, pkts>> /\ UnchangedByWait

SpuriousWakeUp ==
  /\ Asleep
  /\ notified' = TRUE
  /\ UNCHANGED <<updatePC, pkts>> /\ UnchangedByWait

UpdateThread ==
  LoopHead \/ CheckEmpty \/ BeginBatch \/ WakeUp \/ ProcessPacket \/ EndBatch

ClientNext ==
  \/ UpdateThread
  \/ SpuriousWakeUp
  \/ \E op \in OpCodes : Arrive(op)
  \/ ListenEnds \/ Stop \/ Shutdown \/ Join

-----------------------------------------------------------------------------

\* The application hears of the acceptance first, and then of each packet at
\* most once and in the order of their arrival.
HeardInOrder ==
  /\ datagramBuffer # <<>> => datagramBuffer[1].op = "ConnectionAccepted"
  /\ \A i, j \in DOMAIN datagramBuffer :
       i < j => datagramBuffer[i].num < datagramBuffer[j].num

\* Until the client is destroyed, an accepted client has its connection, and
\* what happens to the thread afterwards is the only undefined behaviour.
AcceptedHasConnection ==
  owner \in {"using", "stopped"} =>
    /\ isConnectionAccepted <=> serverConnection \in {"open", "closing"}
    /\ updatePC # "undefined"

\* Whatever arrived is looked at, unless the thread began to wait after it came.
ArrivalsProcessed ==
  \A n \in 1 .. MaxArrivals :
    (\E i \in DOMAIN packetBuffer : packetBuffer[i].num = n)
      ~> (Asleep \/ updatePC \in {"done", "undefined"}
            \/ \A i \in DOMAIN packetBuffer : packetBuffer[i].num # n)

\* The destructor ends, unless its join waits for a thread that sleeps: one that
\* nobody called stop() for, or that missed the notification.
DestructionEnds ==
  (owner = "joining") ~> (owner = "joined" \/ updatePC = "undefined" \/ Asleep)

\* What the application hears, and of what connection.
ClientHears == ClientTypeOK /\ HeardInOrder /\ AcceptedHasConnection

\* The update thread gets through what arrives and, with the owner, to its end.
ClientProgress == ArrivalsProcessed /\ DestructionEnds
=============================================================================
