---------------------------- MODULE NetworkServer ----------------------------
(***************************************************************************)
(* NetworkServer::updateLoop (net/NetworkServer.cpp): the update thread,   *)
(* the packets that the listen thread leaves it, and the connections it    *)
(* creates, keeps by IP address and removes.                               *)
(*                                                                         *)
(* What one connection does with its packets is module Connection; here a  *)
(* packet either reaches the application at once or does not, and a        *)
(* connection may time out at any update.  Every NetConnection object has  *)
(* a number of its own, in the order of their creation.                    *)
(* Times are in ticks of a HEARTBEAT_INTERVAL, m_closedConnections in      *)
(* seconds, as in the code.                                                *)
(***************************************************************************)
EXTENDS Integers, Sequences, FiniteSets, Functions

CONSTANTS
    Addrs,          \* the IP addresses of the peers
    Heartbeat,      \* HEARTBEAT_INTERVAL
    UpdateEvery,    \* the connUpdate timer
    LostAfter,      \* the silence after which a connection is lost
    DenyFor,        \* 5, in seconds: NetworkServer.cpp:155
    PerSecond,      \* ticks in a second
    Epoch,          \* the time at which the server starts
    LastTime,       \* bound on the clock
    MaxPackets,     \* bound on the packets that arrive
    MaxWaiting      \* bound on the packets that wait for the update thread

ASSUME ServerAssumption ==
    /\ Heartbeat \in Nat \ {0} /\ UpdateEvery \in Nat /\ LostAfter \in Nat
    /\ DenyFor \in Nat /\ PerSecond \in Nat \ {0}
    /\ Epoch \in Nat /\ LastTime \in Nat /\ Epoch <= LastTime
    /\ MaxPackets \in Nat /\ MaxWaiting \in Nat

\* The seconds since 1970, even a few more of them, are fewer than the ms.
ASSUME EpochAssumption == \A t \in Epoch .. LastTime : (t \div PerSecond) + DenyFor < t

VARIABLES
    now,                \* Time::nowMS()
    isActive,           \* m_isActive
    isDestroyed,        \* shutdownSockets() ran
    listening,          \* the listen loop has not seen that m_isActive is false
    updatePC,           \* where the update thread is
    waitEnd,            \* until when it waits on m_updateCV, 0 when it does not
    pkts,               \* packets left of the batch
    connUpdate,         \* when the connUpdate timer expires
    packetBuffer,       \* m_packetBuffer
    arrivals,           \* how many packets arrived
    netConnections,     \* m_netConnections: [address -> object]
    created,            \* how many connections were created
    closing,            \* the objects with m_isClosing
    lastArrival,        \* m_lastArrival of each object
    closedConnections,  \* m_closedConnections: [address -> seconds]
    datagramBuffer      \* *m_datagramBuffer, which the application never empties

thread == <<updatePC, waitEnd, pkts, connUpdate>>
inbox == <<packetBuffer, arrivals>>
connections == <<netConnections, created, closing, lastArrival>>
vars == <<now, isActive, isDestroyed, listening, thread, inbox, connections, closedConnections,
          datagramBuffer>>

\* m_reqConnOP, OP_ConnectionDisconnect, op codes that addPacket hands to the
\* application at once, and op codes that change only what the connection knows.
OpCodes == {"ConnectionRequest", "Disconnect", "Data", "Control"}

Closers == {"Disconnect", "TimedOut", "Lost"}

\* The datagram of NetworkServer.cpp:152 names no connection object: netCon is 0.
Datagram(op, id, netCon) == [op |-> op, from |-> id, netCon |-> netCon]

-----------------------------------------------------------------------------
(* The listen thread and the owner *)

Sleeping == updatePC = "wait"

\* A notification ends the wait, but only a timeout lets the loop do its work.
Notify ==
    /\ updatePC' = IF Sleeping THEN "loop" ELSE updatePC
    /\ waitEnd' = IF Sleeping THEN 0 ELSE waitEnd

\* Network::listenLoop stores a packet for the update thread.  m_isActive is read
\* at the head of its loop only: a turn that was in poll() or in what follows it
\* when the server was stopped, or destroyed, still stores its packet.
Arrive(op, a) ==
    /\ listening
    /\ arrivals < MaxPackets /\ Len(packetBuffer) < MaxWaiting
    /\ arrivals' = arrivals + 1
    /\ packetBuffer' = Append(packetBuffer, [op |-> op, addr |-> a, at |-> now])
    /\ Notify
    /\ listening' = isActive
    /\ UNCHANGED <<now, isActive, isDestroyed, pkts, connUpdate, connections,
                   closedConnections, datagramBuffer>>

ListenEnds ==
    /\ listening /\ ~isActive
    /\ listening' = FALSE
    /\ UNCHANGED <<now, isActive, isDestroyed, thread, inbox, connections,
                   closedConnections, datagramBuffer>>

\* Network::stop
Stop ==
    /\ isActive
    /\ isActive' = FALSE
    /\ Notify
    /\ UNCHANGED <<now, isDestroyed, listening, pkts, connUpdate, inbox, connections,
                   closedConnections, datagramBuffer>>

\* shutdownSockets, which the destructor runs before it joins the update thread:
\* m_closedConnections stays, and a thread amid its work is not waited for.
Shutdown ==
    /\ ~isDestroyed
    /\ isDestroyed' = TRUE
    /\ isActive' = FALSE
    /\ packetBuffer' = <<>>
    /\ netConnections' = <<>>
    /\ UNCHANGED <<now, listening, thread, arrivals, created, closing, lastArrival,
                   closedConnections, datagramBuffer>>

-----------------------------------------------------------------------------
(* Waiting for packets *)

\* The head of the while loop, up to wait_until.
BeginWait ==
    /\ updatePC = "loop"
    /\ updatePC' = IF isActive THEN "wait" ELSE "done"
    /\ waitEnd' = IF isActive THEN now + Heartbeat ELSE waitEnd
    /\ UNCHANGED <<now, isActive, isDestroyed, listening, pkts, connUpdate, inbox, connections,
                   closedConnections, datagramBuffer>>

WaitSpuriouslyEnds ==
    /\ Sleeping
    /\ updatePC' = "loop" /\ waitEnd' = 0
    /\ UNCHANGED <<now, isActive, isDestroyed, listening, pkts, connUpdate, inbox, connections,
                   closedConnections, datagramBuffer>>

\* The wait times out: the packets that are there now make up the batch.
WaitTimesOut ==
    /\ Sleeping /\ now >= waitEnd
    /\ updatePC' = "batch" /\ waitEnd' = 0
    /\ pkts' = Len(packetBuffer)
    /\ UNCHANGED <<now, isActive, isDestroyed, listening, connUpdate, inbox, connections,
                   closedConnections, datagramBuffer>>

-----------------------------------------------------------------------------
(* One packet of the batch *)

Connected(a) == a \in DOMAIN netConnections

Put(f, a, x) == [b \in DOMAIN f \cup {a} |-> IF b = a THEN x ELSE f[b]]

\* A new connection notes the arrival by its creation, and its first datagram
\* is the request.
CreateConnection(a) ==
    /\ ~Connected(a) /\ a \notin DOMAIN closedConnections
    /\ created' = created + 1
    /\ netConnections' = Put(netConnections, a, created')
    /\ lastArrival' = Put(lastArrival, created', now)
    /\ datagramBuffer' = Append(datagramBuffer, Datagram("ConnectionRequest", created', created'))
    /\ UNCHANGED <<closing, closedConnections>>

\* A request that is denied, or comes from an address that is connected, and
\* anything else from an address that is not: nothing is kept.
IgnorePacket(p) ==
    /\ IF p.op = "ConnectionRequest"
       THEN Connected(p.addr) \/ p.addr \in DOMAIN closedConnections
       ELSE ~Connected(p.addr)
    /\ UNCHANGED <<connections, closedConnections, datagramBuffer>>

\* Mutation of TimeToRemove: milliseconds.
TimeToRemoveInMS == now + DenyFor * PerSecond

TimeToRemove == (now \div PerSecond) + DenyFor

\* What Connection::calculateLatency makes of m_lastArrival.
Noted(p) == [lastArrival EXCEPT ![netConnections[p.addr]] = p.at]

\* insert() keeps an entry that is there.
CloseByPeer(p) ==
    LET a == p.addr
    IN /\ Connected(a)
       /\ closing' = closing \cup {netConnections[a]}
       /\ closedConnections' = IF a \in DOMAIN closedConnections THEN closedConnections
                               ELSE Put(closedConnections, a, TimeToRemove)
       /\ datagramBuffer' = Append(datagramBuffer, Datagram("Disconnect", netConnections[a], 0))
       /\ lastArrival' \in {lastArrival, Noted(p)}
       /\ UNCHANGED <<netConnections, created>>

\* Connection::addPacket: every packet notes when it arrived, but for one that
\* finds no latency known yet and for some of the Control packets.
HandToConnection(p) ==
    /\ Connected(p.addr)
    /\ LET id == netConnections[p.addr]
       IN /\ lastArrival' \in {lastArrival, Noted(p)}
          /\ datagramBuffer' = IF p.op = "Data"
                               THEN Append(datagramBuffer, Datagram("Data", id, id))
                               ELSE datagramBuffer
    /\ UNCHANGED <<netConnections, created, closing, closedConnections>>

\* front() of a buffer that shutdownSockets emptied is undefined.
ProcessPacket ==
    /\ updatePC = "batch" /\ pkts > 0
    /\ IF packetBuffer = <<>>
       THEN /\ updatePC' = "undefined"
            /\ UNCHANGED <<pkts, inbox, connections, closedConnections, datagramBuffer>>
       ELSE LET p == Head(packetBuffer)
            IN /\ \/ IgnorePacket(p)
                  \/ p.op = "ConnectionRequest" /\ CreateConnection(p.addr)
                  \/ p.op = "Disconnect" /\ CloseByPeer(p)
                  \/ p.op \in {"Data", "Control"} /\ HandToConnection(p)
               /\ packetBuffer' = Tail(packetBuffer)
               /\ pkts' = pkts - 1
               /\ UNCHANGED <<updatePC, arrivals>>
    /\ UNCHANGED <<now, isActive, isDestroyed, listening, waitEnd, connUpdate>>

-----------------------------------------------------------------------------
(* The update of all connections, every 500 ms *)

Silent(id) == now > lastArrival[id] /\ now - lastArrival[id] > LostAfter

\* Mutation of Verdicts: m_isClosing is not looked at.
VerdictsOnTime(id) == {"TimedOut"} \cup (IF Silent(id) THEN {"Lost"} ELSE {"open"})

\* How an object may answer Connection::update: "open" or the reason to go.
Verdicts(id) ==
    IF id \in closing THEN {"Disconnect"}
    ELSE {"TimedOut"} \cup (IF Silent(id) THEN {"Lost"} ELSE {"open"})

\* Mutation of Surviving: the object is deleted, its entry stays.
SurvivingAll(verdict) == netConnections

Surviving(verdict) == Restrict(netConnections, {a \in DOMAIN netConnections : verdict[a] = "open"})

\* The map has no order; each object that goes leaves a datagram with itself.
Farewells(verdict) ==
    LET gone == {a \in DOMAIN netConnections : verdict[a] # "open"}
    IN {[i \in DOMAIN order |->
            Datagram(verdict[order[i]], netConnections[order[i]], netConnections[order[i]])] :
           order \in {f \in [1 .. Cardinality(gone) -> gone] : IsInjective(f)}}

UpdatePass ==
    /\ updatePC = "batch" /\ pkts = 0
    /\ updatePC' = "loop"
    /\ IF now < connUpdate
       THEN UNCHANGED <<netConnections, closedConnections, datagramBuffer, connUpdate>>
       ELSE /\ \E verdict \in [DOMAIN netConnections -> Closers \cup {"open"}] :
                  /\ \A a \in DOMAIN netConnections : verdict[a] \in Verdicts(netConnections[a])
                  /\ netConnections' = Surviving(verdict)
                  /\ \E f \in Farewells(verdict) : datagramBuffer' = datagramBuffer \o f
            /\ closedConnections' =
                  Restrict(closedConnections,
                           {a \in DOMAIN closedConnections : closedConnections[a] >= now})
            /\ connUpdate' = now + UpdateEvery
    /\ UNCHANGED <<now, isActive, isDestroyed, listening, waitEnd, pkts, inbox, created, closing,
                   lastArrival>>

Tick ==
    /\ now < LastTime
    /\ now' = now + 1
    /\ UNCHANGED <<isActive, isDestroyed, listening, thread, inbox, connections,
                   closedConnections, datagramBuffer>>

-----------------------------------------------------------------------------
Init ==
    /\ now = Epoch
    /\ isActive = TRUE /\ isDestroyed = FALSE /\ listening = TRUE
    /\ updatePC = "loop" /\ waitEnd = 0 /\ pkts = 0
    /\ connUpdate = Epoch + UpdateEvery
    /\ packetBuffer = <<>> /\ arrivals = 0
    /\ netConnections = <<>> /\ created = 0
    /\ closing = {} /\ lastArrival = <<>>
    /\ closedConnections = <<>>
    /\ datagramBuffer = <<>>

Next ==
    \/ \E op \in OpCodes, a \in Addrs : Arrive(op, a)
    \/ BeginWait \/ WaitTimesOut \/ ProcessPacket \/ UpdatePass
    \/ WaitSpuriouslyEnds
    \/ Tick
    \/ Stop \/ Shutdown \/ ListenEnds

Spec == Init /\ [][Next]_vars

-----------------------------------------------------------------------------
(* Properties *)

Packet == [op : OpCodes, addr : Addrs, at : Nat]

\* Every variable has its type.
TypeOK ==
    /\ now \in Epoch .. LastTime
    /\ isActive \in BOOLEAN /\ isDestroyed \in BOOLEAN /\ listening \in BOOLEAN
    /\ updatePC \in {"loop", "wait", "batch", "done", "undefined"}
    /\ waitEnd \in Nat /\ pkts \in Nat /\ connUpdate \in Nat
    /\ packetBuffer \in Seq(Packet) /\ arrivals \in Nat
    /\ DOMAIN netConnections \subseteq Addrs
    /\ created \in Nat
    /\ \A a \in DOMAIN netConnections : netConnections[a] \in 1 .. created
    /\ closing \subseteq 1 .. created
    /\ lastArrival \in [1 .. created -> Nat]
    /\ DOMAIN closedConnections \subseteq Addrs
    /\ \A a \in DOMAIN closedConnections : closedConnections[a] \in Nat

\* While the server lives, an address that is being denied still has its old
\* connection: the branch of updateLoop that denies it, which asks for the
\* opposite, is never taken, and no peer is ever told to wait.
NobodyDenied == ~isDestroyed => DOMAIN closedConnections \subseteq DOMAIN netConnections

\* The datagram with which an object's update gives it up is the last one the
\* application gets of it, however its packets and the updates interleave.
LastWord ==
    \A i, j \in DOMAIN datagramBuffer :
        /\ datagramBuffer[i].op \in Closers
        /\ datagramBuffer[i].netCon # 0
        /\ datagramBuffer[i].netCon = datagramBuffer[j].from
        => j <= i

\* Once the connections are updated, every one whose peer said goodbye before
\* is gone, also when its packets went on arriving.
GoodbyeRemoves ==
    [][connUpdate' # connUpdate => closing \cap Range(netConnections') = {}]_vars

-----------------------------------------------------------------------------
(* What comments of the code say and the code does not do *)

\* NetworkServer.h:35 keeps the closed connections with their "time to remove",
\* five seconds after the goodbye: an entry should stay until then.
KeptUntilTimeToRemove ==
    [][\A a \in DOMAIN closedConnections \ DOMAIN closedConnections' :
           closedConnections[a] <= now \div PerSecond]_vars

=============================================================================
