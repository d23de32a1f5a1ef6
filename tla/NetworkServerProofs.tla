------------------------- MODULE NetworkServerProofs -------------------------
(***************************************************************************)
(* What holds of NetworkServer for all addresses, times and bounds.        *)
(***************************************************************************)
EXTENDS NetworkServer, FiniteSetTheorems, TLAPS

-----------------------------------------------------------------------------
(* The connections and the addresses that are being denied *)

\* Seconds are fewer than milliseconds: every entry of m_closedConnections has
\* expired when it is made, and the next update of the connections removes it
\* together with the connection that said goodbye.
DenialInv ==
    /\ now \in Epoch .. LastTime
    /\ NobodyDenied
    /\ \A a \in DOMAIN closedConnections :
          closedConnections[a] \in Int /\ closedConnections[a] < now

LEMMA EntryExpired ==
    ASSUME now \in Epoch .. LastTime
    PROVE  TimeToRemove \in Int /\ TimeToRemove < now
<1>1. now \in Int /\ PerSecond \in Nat \ {0} /\ DenyFor \in Nat
  BY ServerAssumption
<1>2. (now \div PerSecond) \in Int
  BY <1>1
<1> QED BY <1>1, <1>2, EpochAssumption DEF TimeToRemove

LEMMA DenialInit ==
    ASSUME Init
    PROVE  DenialInv
BY ServerAssumption DEF Init, DenialInv, NobodyDenied

\* What a packet does to the two maps.
LEMMA PacketKeepsDenialInv ==
    ASSUME DenialInv, ProcessPacket
    PROVE  DenialInv'
<1> USE DEF DenialInv, NobodyDenied
<1>1. now' = now /\ isDestroyed' = isDestroyed
  BY DEF ProcessPacket
<1>2. CASE packetBuffer = <<>>
  BY <1>1, <1>2 DEF ProcessPacket, connections
<1>3. ASSUME NEW p, IgnorePacket(p) PROVE DenialInv'
  BY <1>1, <1>3 DEF IgnorePacket, connections
<1>4. ASSUME NEW a, CreateConnection(a) PROVE DenialInv'
  BY <1>1, <1>4 DEF CreateConnection, Put
<1>5. ASSUME NEW p, CloseByPeer(p) PROVE DenialInv'
  <2> DEFINE a == p.addr
  <2>1. netConnections' = netConnections /\ a \in DOMAIN netConnections
    BY <1>5 DEF CloseByPeer, Connected
  <2>2. CASE a \in DOMAIN closedConnections
    BY <1>1, <1>5, <2>1, <2>2 DEF CloseByPeer
  <2>3. CASE a \notin DOMAIN closedConnections
    <3>1. closedConnections' = [b \in DOMAIN closedConnections \cup {a} |->
                                   IF b = a THEN TimeToRemove ELSE closedConnections[b]]
      BY <1>5, <2>3 DEF CloseByPeer, Put
    <3> QED BY <1>1, <2>1, <3>1, EntryExpired
  <2> QED BY <2>2, <2>3
<1>6. ASSUME NEW p, HandToConnection(p) PROVE DenialInv'
  BY <1>1, <1>6 DEF HandToConnection
<1> QED BY <1>2, <1>3, <1>4, <1>5, <1>6 DEF ProcessPacket

LEMMA DenialStep ==
    ASSUME DenialInv, [Next]_vars
    PROVE  DenialInv'
<1> USE DEF DenialInv, NobodyDenied
<1>1. ASSUME NEW op \in OpCodes, NEW a \in Addrs, Arrive(op, a) PROVE DenialInv'
  BY <1>1 DEF Arrive, connections
<1>2. CASE BeginWait \/ WaitTimesOut \/ WaitSpuriouslyEnds \/ Stop \/ ListenEnds
  BY <1>2 DEF ListenEnds, BeginWait, WaitTimesOut, WaitSpuriouslyEnds, Stop, connections
<1>3. CASE ProcessPacket
  BY <1>3, PacketKeepsDenialInv
<1>4. CASE UpdatePass
  <2>1. now' = now
    BY <1>4 DEF UpdatePass
  <2>2. CASE now < connUpdate
    BY <1>4, <2>1, <2>2 DEF UpdatePass
  <2>3. CASE ~(now < connUpdate)
    <3>1. {a \in DOMAIN closedConnections : closedConnections[a] >= now} = {}
      BY ServerAssumption
    <3>2. DOMAIN closedConnections' = {}
      BY <1>4, <2>3, <3>1 DEF UpdatePass, Restrict
    <3> QED BY <2>1, <3>2
  <2> QED BY <2>2, <2>3
<1>5. CASE Tick
  BY <1>5, ServerAssumption DEF Tick, connections
<1>6. CASE Shutdown
  BY <1>6 DEF Shutdown
<1>7. CASE UNCHANGED vars
  BY <1>7 DEF vars, connections
<1> QED BY <1>1, <1>2, <1>3, <1>4, <1>5, <1>6, <1>7 DEF Next

\* The branch of updateLoop that denies a connection is dead code while the
\* server lives, for every number of peers and every time of denial.
THEOREM NobodyIsDenied == Spec => []NobodyDenied
<1>1. Init => DenialInv
  BY DenialInit
<1>2. DenialInv /\ [Next]_vars => DenialInv'
  BY DenialStep
<1>3. DenialInv => NobodyDenied
  BY DEF DenialInv
<1> QED BY <1>1, <1>2, <1>3, PTL DEF Spec

-----------------------------------------------------------------------------
(* Types *)

LEMMA PacketType ==
    ASSUME TypeOK, ProcessPacket
    PROVE  TypeOK'
<1> USE DEF TypeOK
<1>1. CASE packetBuffer = <<>>
  BY <1>1 DEF ProcessPacket, connections, inbox
<1>2. CASE packetBuffer # <<>>
  <2>1. PICK p : /\ p = Head(packetBuffer)
                 /\ \/ IgnorePacket(p)
                    \/ p.op = "ConnectionRequest" /\ CreateConnection(p.addr)
                    \/ p.op = "Disconnect" /\ CloseByPeer(p)
                    \/ p.op \in {"Data", "Control"} /\ HandToConnection(p)
    BY <1>2 DEF ProcessPacket
  <2>2. p \in Packet /\ p.addr \in Addrs
    <3>1. Head(packetBuffer) \in Packet
      BY <1>2
    <3> QED BY <2>1, <3>1 DEF Packet
  <2>3. /\ packetBuffer' \in Seq(Packet) /\ pkts' \in Nat /\ arrivals' = arrivals
        /\ UNCHANGED <<now, isActive, isDestroyed, listening, updatePC, waitEnd, connUpdate>>
    <3>1. /\ packetBuffer' = Tail(packetBuffer) /\ pkts' = pkts - 1 /\ pkts > 0
          /\ UNCHANGED <<updatePC, arrivals, now, isActive, isDestroyed, listening, waitEnd, connUpdate>>
      BY <1>2 DEF ProcessPacket
    <3>2. Tail(packetBuffer) \in Seq(Packet)
      BY <1>2
    <3> QED BY <3>1, <3>2
  <2>4. now \in Nat
    BY ServerAssumption
  <2>a. p.at \in Nat
    BY <2>2 DEF Packet
  <2>b. Connected(p.addr) => Noted(p) \in [1 .. created -> Nat]
    BY <2>a DEF Noted, Connected
  <2>5. CASE IgnorePacket(p)
    BY <2>3, <2>5 DEF IgnorePacket, connections
  <2>6. CASE CreateConnection(p.addr)
    <3>1. created' = created + 1 /\ closing' = closing /\ closedConnections' = closedConnections
      BY <2>6 DEF CreateConnection
    <3>2. netConnections' = [b \in DOMAIN netConnections \cup {p.addr} |->
                                IF b = p.addr THEN created + 1 ELSE netConnections[b]]
      BY <2>6, <3>1 DEF CreateConnection, Put
    <3>3. lastArrival' = [b \in DOMAIN lastArrival \cup {created + 1} |->
                             IF b = created + 1 THEN now ELSE lastArrival[b]]
      BY <2>6, <3>1 DEF CreateConnection, Put
    <3>4. DOMAIN lastArrival \cup {created + 1} = 1 .. created + 1
      OBVIOUS
    <3>5. lastArrival' \in [1 .. created + 1 -> Nat]
      BY <2>4, <3>3, <3>4
    <3>6. DOMAIN netConnections' \subseteq Addrs
          /\ \A a \in DOMAIN netConnections' : netConnections'[a] \in 1 .. created + 1
      BY <2>2, <3>2
    <3>7. closing \subseteq 1 .. created + 1 /\ created + 1 \in Nat
      OBVIOUS
    <3> QED BY <2>3, <3>1, <3>5, <3>6, <3>7
  <2>7. CASE CloseByPeer(p)
    <3>1. TimeToRemove \in Nat
      BY <2>4, ServerAssumption DEF TimeToRemove
    <3>2. DOMAIN closedConnections' \subseteq Addrs
          /\ \A a \in DOMAIN closedConnections' : closedConnections'[a] \in Nat
      BY <2>2, <2>7, <3>1 DEF CloseByPeer, Put
    <3>3. closing' \subseteq 1 .. created
      BY <2>7 DEF CloseByPeer, Connected
    <3>4. lastArrival' \in [1 .. created -> Nat] /\ UNCHANGED <<netConnections, created>>
      BY <2>b, <2>7 DEF CloseByPeer
    <3> QED BY <2>3, <3>2, <3>3, <3>4
  <2>8. CASE HandToConnection(p)
    <3>1. lastArrival' \in [1 .. created -> Nat]
      BY <2>b, <2>8 DEF HandToConnection
    <3> QED BY <2>3, <2>8, <3>1 DEF HandToConnection
  <2> QED BY <2>1, <2>5, <2>6, <2>7, <2>8
<1> QED BY <1>1, <1>2

LEMMA TypeStep ==
    ASSUME TypeOK, [Next]_vars
    PROVE  TypeOK'
<1> USE DEF TypeOK
<1>1. now \in Nat
  BY ServerAssumption
<1>2. ASSUME NEW op \in OpCodes, NEW a \in Addrs, Arrive(op, a) PROVE TypeOK'
  <2>1. [op |-> op, addr |-> a, at |-> now] \in Packet
    BY <1>1 DEF Packet
  <2>2. packetBuffer' \in Seq(Packet)
    BY <1>2, <2>1 DEF Arrive
  <2> QED BY <1>2, <2>2 DEF Arrive, Notify, connections
<1>3. CASE BeginWait
  BY <1>1, <1>3, ServerAssumption DEF BeginWait, connections, inbox
<1>4. CASE WaitTimesOut
  BY <1>4 DEF WaitTimesOut, connections, inbox
<1>5. CASE WaitSpuriouslyEnds \/ Stop
  <2>1. /\ updatePC' \in {"loop", updatePC} /\ waitEnd' \in Nat /\ isActive' \in BOOLEAN
        /\ UNCHANGED <<now, isDestroyed, listening, pkts, connUpdate, inbox, connections, closedConnections>>
    <3>1. CASE WaitSpuriouslyEnds
      BY <3>1 DEF WaitSpuriouslyEnds
    <3>2. CASE Stop
      BY <3>2 DEF Stop, Notify
    <3> QED BY <1>5, <3>1, <3>2
  <2> QED BY <2>1 DEF connections, inbox
<1>6. CASE ProcessPacket
  BY <1>6, PacketType
<1>7. CASE UpdatePass
  <2>1. CASE now < connUpdate
    BY <1>7, <2>1 DEF UpdatePass, inbox
  <2>2. CASE ~(now < connUpdate)
    <3>1. PICK verdict : netConnections' = Surviving(verdict)
      BY <1>7, <2>2 DEF UpdatePass
    <3>2. DOMAIN netConnections' \subseteq DOMAIN netConnections
          /\ \A a \in DOMAIN netConnections' : netConnections'[a] = netConnections[a]
      BY <3>1 DEF Surviving, Restrict
    <3>3. DOMAIN closedConnections' \subseteq DOMAIN closedConnections
          /\ \A a \in DOMAIN closedConnections' : closedConnections'[a] = closedConnections[a]
      BY <1>7, <2>2 DEF UpdatePass, Restrict
    <3>4. connUpdate' \in Nat
      BY <1>1, <1>7, <2>2, ServerAssumption DEF UpdatePass
    <3> QED BY <1>7, <3>2, <3>3, <3>4 DEF UpdatePass, inbox
  <2> QED BY <2>1, <2>2
<1>8. CASE Tick
  BY <1>8, ServerAssumption DEF Tick, thread, connections, inbox
<1>9. CASE Shutdown
  <2>1. <<>> \in Seq(Packet) /\ DOMAIN <<>> = {}
    OBVIOUS
  <2>2. packetBuffer' \in Seq(Packet) /\ DOMAIN netConnections' = {}
    BY <1>9, <2>1 DEF Shutdown
  <2>3. isActive' \in BOOLEAN /\ isDestroyed' \in BOOLEAN
    BY <1>9 DEF Shutdown
  <2>4. UNCHANGED <<now, listening, thread, arrivals, created, closing, lastArrival, closedConnections>>
    BY <1>9 DEF Shutdown
  <2> QED BY <2>2, <2>3, <2>4 DEF thread
<1>10. CASE UNCHANGED vars
  BY <1>10 DEF vars, thread, connections, inbox
<1>11. CASE ListenEnds
  BY <1>11 DEF ListenEnds, thread, connections, inbox
<1> QED BY <1>2, <1>3, <1>4, <1>5, <1>6, <1>7, <1>8, <1>9, <1>10, <1>11 DEF Next

LEMMA TypeInit == Init => TypeOK
<1> SUFFICES ASSUME Init PROVE TypeOK
  OBVIOUS
<1>1. DOMAIN <<>> = {} /\ <<>> \in Seq(Packet) /\ <<>> \in [1 .. 0 -> Nat]
  OBVIOUS
<1>2. /\ now \in Epoch .. LastTime /\ connUpdate \in Nat
      /\ waitEnd \in Nat /\ pkts \in Nat /\ arrivals \in Nat
  BY ServerAssumption DEF Init
<1>3. /\ packetBuffer \in Seq(Packet) /\ lastArrival \in [1 .. created -> Nat]
      /\ DOMAIN netConnections = {} /\ DOMAIN closedConnections = {}
      /\ created \in Nat /\ closing \subseteq 1 .. created
  BY <1>1 DEF Init
<1> QED BY <1>2, <1>3 DEF Init, TypeOK

-----------------------------------------------------------------------------
(* What an object says last *)

Told == [op : OpCodes \cup Closers, from : Nat, netCon : Nat]

\* The words with which an object's update gives it up.
Final(d) == d.op \in Closers /\ d.netCon # 0

\* No two addresses share an object, what was said came from objects that were
\* created, and an object that has said its last word is in no one's hands: it
\* cannot be found again, and the next one created has a number of its own.
WordInv ==
    /\ datagramBuffer \in Seq(Told)
    /\ \A i \in DOMAIN datagramBuffer :
          /\ datagramBuffer[i].from \in 1 .. created
          /\ datagramBuffer[i].netCon \in {0, datagramBuffer[i].from}
    /\ IsFiniteSet(DOMAIN netConnections)
    /\ \A a, b \in DOMAIN netConnections : netConnections[a] = netConnections[b] => a = b
    /\ \A i \in DOMAIN datagramBuffer : Final(datagramBuffer[i]) =>
          \A a \in DOMAIN netConnections : netConnections[a] # datagramBuffer[i].netCon
    /\ LastWord

\* Nothing is said: objects may go, and none comes.
LEMMA SilenceKeepsWords ==
    ASSUME WordInv, UNCHANGED <<datagramBuffer, created>>,
           DOMAIN netConnections' \subseteq DOMAIN netConnections,
           \A a \in DOMAIN netConnections' : netConnections'[a] = netConnections[a]
    PROVE  WordInv'
<1>1. IsFiniteSet(DOMAIN netConnections')
  BY FS_Subset DEF WordInv
<1> QED BY <1>1 DEF WordInv, LastWord, Final

\* The entry of an address stays as it is.
Kept(a) == a \in DOMAIN netConnections /\ netConnections'[a] = netConnections[a]

\* One more word of an object that has not said its last, nor says it now.
LEMMA WordKeepsWords ==
    ASSUME TypeOK, WordInv, NEW d \in Told, ~Final(d), d.from \in 1 .. created',
           created' \in Nat, created <= created', d.netCon \in {0, d.from},
           \A i \in DOMAIN datagramBuffer :
               Final(datagramBuffer[i]) => datagramBuffer[i].netCon # d.from,
           datagramBuffer' = Append(datagramBuffer, d),
           IsFiniteSet(DOMAIN netConnections'),
           \A a, b \in DOMAIN netConnections' : netConnections'[a] = netConnections'[b] => a = b,
           \A a \in DOMAIN netConnections' :
               netConnections'[a] > created \/ Kept(a)
    PROVE  WordInv'
<1> DEFINE n == Len(datagramBuffer)
<1>1. /\ n \in Nat /\ DOMAIN datagramBuffer = 1 .. n /\ DOMAIN datagramBuffer' = 1 .. n + 1
      /\ \A i \in 1 .. n : datagramBuffer'[i] = datagramBuffer[i]
      /\ datagramBuffer'[n + 1] = d
      /\ datagramBuffer' \in Seq(Told)
  BY DEF WordInv
<1> HIDE DEF n
<1>2. \A i \in 1 .. n + 1 : i \in 1 .. n \/ i = n + 1
  BY <1>1
<1>3. created \in Nat
  BY DEF TypeOK
<1>4. \A i \in DOMAIN datagramBuffer' :
          /\ datagramBuffer'[i].from \in 1 .. created'
          /\ datagramBuffer'[i].netCon \in {0, datagramBuffer'[i].from}
  BY <1>1, <1>2, <1>3 DEF WordInv
<1>5. ASSUME NEW i \in DOMAIN datagramBuffer', Final(datagramBuffer'[i])
      PROVE  \A a \in DOMAIN netConnections' : netConnections'[a] # datagramBuffer'[i].netCon
  <2>1. i \in 1 .. n /\ datagramBuffer'[i] = datagramBuffer[i]
    BY <1>1, <1>2, <1>5
  <2>2. datagramBuffer[i].netCon \in 1 .. created
    BY <1>1, <1>5, <2>1 DEF WordInv, Final
  <2>3. \A a \in DOMAIN netConnections : netConnections[a] # datagramBuffer[i].netCon
    BY <1>1, <1>5, <2>1 DEF WordInv
  <2>4. SUFFICES ASSUME NEW a \in DOMAIN netConnections'
                 PROVE  netConnections'[a] # datagramBuffer[i].netCon
    BY <2>1
  <2>5. CASE netConnections'[a] > created
    BY <1>3, <2>2, <2>5
  <2>6. CASE Kept(a)
    BY <2>3, <2>6 DEF Kept
  <2> QED BY <2>5, <2>6
<1>6. LastWord'
  <2> SUFFICES ASSUME NEW i \in DOMAIN datagramBuffer', NEW j \in DOMAIN datagramBuffer',
                      Final(datagramBuffer'[i]),
                      datagramBuffer'[i].netCon = datagramBuffer'[j].from
               PROVE  j <= i
    BY DEF LastWord, Final
  <2>1. i \in 1 .. n /\ datagramBuffer'[i] = datagramBuffer[i]
    BY <1>1, <1>2
  <2>2. j \in 1 .. n /\ datagramBuffer'[j] = datagramBuffer[j]
    BY <1>1, <1>2, <2>1
  <2> QED BY <1>1, <2>1, <2>2 DEF WordInv, LastWord, Final
<1> QED BY <1>1, <1>4, <1>5, <1>6 DEF WordInv, Final

LEMMA PacketKeepsWords ==
    ASSUME TypeOK, WordInv, ProcessPacket
    PROVE  WordInv'
<1>1. created \in Nat /\ \A a \in DOMAIN netConnections : netConnections[a] \in 1 .. created
  BY DEF TypeOK
<1>2. CASE UNCHANGED <<connections, datagramBuffer>>
  BY <1>2, SilenceKeepsWords DEF connections
<1>3. ASSUME NEW a, CreateConnection(a) PROVE WordInv'
  <2> DEFINE d == Datagram("ConnectionRequest", created + 1, created + 1)
  <2>1. /\ created' = created + 1 /\ a \notin DOMAIN netConnections
        /\ datagramBuffer' = Append(datagramBuffer, d)
    BY <1>3 DEF CreateConnection, Connected
  <2>2. netConnections' = [b \in DOMAIN netConnections \cup {a} |->
                              IF b = a THEN created + 1 ELSE netConnections[b]]
    BY <1>3, <2>1 DEF CreateConnection, Put
  <2>3. d \in Told /\ ~Final(d) /\ d.from = created + 1 /\ d.netCon = d.from
    BY <1>1 DEF Datagram, Told, Final, OpCodes, Closers
  <2>4. \A i \in DOMAIN datagramBuffer : Final(datagramBuffer[i]) => datagramBuffer[i].netCon # d.from
    <3>1. \A i \in DOMAIN datagramBuffer : datagramBuffer[i].netCon \in 0 .. created
      BY <1>1 DEF WordInv
    <3> QED BY <1>1, <2>3, <3>1
  <2> HIDE DEF d
  <2>5. IsFiniteSet(DOMAIN netConnections')
    BY <2>2, FS_AddElement DEF WordInv
  <2>6. \A b, c \in DOMAIN netConnections' : netConnections'[b] = netConnections'[c] => b = c
    BY <1>1, <2>2 DEF WordInv
  <2>7. \A b \in DOMAIN netConnections' :
           netConnections'[b] > created \/ Kept(b)
    <3>1. created + 1 > created
      BY <1>1
    <3> SUFFICES ASSUME NEW b \in DOMAIN netConnections'
                 PROVE  netConnections'[b] > created \/ Kept(b)
      OBVIOUS
    <3>2. CASE b = a
      <4>1. netConnections'[b] = created + 1
        BY <2>2, <3>2
      <4> QED BY <3>1, <4>1
    <3>3. CASE b # a
      BY <2>2, <3>3 DEF Kept
    <3> QED BY <3>2, <3>3
  <2>8. created' \in Nat /\ created <= created' /\ d.from \in 1 .. created'
    BY <1>1, <2>1, <2>3
  <2> QED BY <2>1, <2>3, <2>4, <2>5, <2>6, <2>7, <2>8, WordKeepsWords
<1>4. ASSUME NEW a, Connected(a), NEW d, d.from = netConnections[a],
             d.netCon \in {0, d.from}, d \in Told, ~Final(d),
             datagramBuffer' = Append(datagramBuffer, d),
             UNCHANGED <<netConnections, created>>
      PROVE  WordInv'
  <2>1. d.from \in 1 .. created
    BY <1>1, <1>4 DEF Connected
  <2>2. \A i \in DOMAIN datagramBuffer : Final(datagramBuffer[i]) => datagramBuffer[i].netCon # d.from
    BY <1>4 DEF WordInv, Connected
  <2>3. /\ IsFiniteSet(DOMAIN netConnections')
        /\ \A b, c \in DOMAIN netConnections' : netConnections'[b] = netConnections'[c] => b = c
    BY <1>4 DEF WordInv
  <2>4. \A b \in DOMAIN netConnections' : Kept(b)
    BY <1>4 DEF Kept
  <2> QED BY <1>1, <1>4, <2>1, <2>2, <2>3, <2>4, WordKeepsWords
<1>5. ASSUME NEW p, CloseByPeer(p) PROVE WordInv'
  <2> DEFINE a == p.addr
  <2> DEFINE d == Datagram("Disconnect", netConnections[a], 0)
  <2>1. d \in Told /\ d.from = netConnections[a] /\ d.netCon = 0 /\ ~Final(d) /\ Connected(a)
    BY <1>1, <1>5 DEF Datagram, Told, Final, Closers, CloseByPeer, Connected
  <2>2. datagramBuffer' = Append(datagramBuffer, d) /\ UNCHANGED <<netConnections, created>>
    BY <1>5 DEF CloseByPeer
  <2> HIDE DEF d
  <2> QED BY <1>4, <2>1, <2>2
<1>6. ASSUME NEW p, HandToConnection(p) PROVE WordInv'
  <2>1. CASE p.op # "Data"
    BY <1>6, <2>1, SilenceKeepsWords DEF HandToConnection
  <2>2. CASE p.op = "Data"
    <3> DEFINE d == Datagram("Data", netConnections[p.addr], netConnections[p.addr])
    <3>1. d \in Told /\ d.from = netConnections[p.addr] /\ d.netCon = d.from /\ ~Final(d)
          /\ Connected(p.addr)
      BY <1>1, <1>6 DEF Datagram, Told, Final, Closers, OpCodes, HandToConnection, Connected
    <3>2. datagramBuffer' = Append(datagramBuffer, d) /\ UNCHANGED <<netConnections, created>>
      BY <1>6, <2>2 DEF HandToConnection
    <3> HIDE DEF d
    <3> QED BY <1>4, <3>1, <3>2
  <2> QED BY <2>1, <2>2
<1> QED BY <1>2, <1>3, <1>5, <1>6 DEF ProcessPacket, IgnorePacket

LEMMA WordsConcatenated ==
    ASSUME NEW s \in Seq(Told), NEW t \in Seq(Told)
    PROVE  /\ Len(s) \in Nat /\ DOMAIN s = 1 .. Len(s) /\ DOMAIN (s \o t) = 1 .. Len(s) + Len(t)
           /\ s \o t \in Seq(Told)
           /\ \A i \in 1 .. Len(s) : (s \o t)[i] = s[i]
           /\ \A i \in 1 .. Len(t) : (s \o t)[Len(s) + i] = t[i]
OBVIOUS

\* The objects that go each say one word more, and go.
LEMMA UpdateKeepsWords ==
    ASSUME TypeOK, WordInv, UpdatePass
    PROVE  WordInv'
<1>1. CASE now < connUpdate
  BY <1>1, SilenceKeepsWords DEF UpdatePass
<1>2. CASE ~(now < connUpdate)
  <2>1. PICK verdict \in [DOMAIN netConnections -> Closers \cup {"open"}] :
           /\ netConnections' = Surviving(verdict)
           /\ \E f \in Farewells(verdict) : datagramBuffer' = datagramBuffer \o f
    BY <1>2 DEF UpdatePass
  <2> DEFINE gone == {a \in DOMAIN netConnections : verdict[a] # "open"}
             k == Cardinality(gone)
  <2>2. PICK order \in [1 .. k -> gone] :
           /\ IsInjective(order)
           /\ datagramBuffer' = datagramBuffer \o
                 [i \in DOMAIN order |-> Datagram(verdict[order[i]], netConnections[order[i]],
                                                  netConnections[order[i]])]
    BY <2>1 DEF Farewells
  <2> DEFINE w == [i \in DOMAIN order |-> Datagram(verdict[order[i]], netConnections[order[i]],
                                                   netConnections[order[i]])]
             obj(i) == netConnections[order[i]]
             n == Len(datagramBuffer)
  <2>3. k \in Nat
    BY FS_Subset, FS_CardinalityType DEF WordInv
  <2>4. created' = created /\ created \in Nat
    BY DEF UpdatePass, TypeOK
  <2>5. /\ DOMAIN netConnections' = DOMAIN netConnections \ gone
        /\ \A a \in DOMAIN netConnections' : netConnections'[a] = netConnections[a]
    BY <2>1 DEF Surviving, Restrict
  <2>6. ASSUME NEW i \in 1 .. k
        PROVE  /\ order[i] \in gone /\ order[i] \in DOMAIN netConnections
               /\ obj(i) \in 1 .. created
               /\ w[i] = [op |-> verdict[order[i]], from |-> obj(i), netCon |-> obj(i)]
               /\ w[i] \in Told
    <3>1. order[i] \in gone
      BY <2>2
    <3>2. verdict[order[i]] \in Closers
      BY <2>1, <3>1
    <3>3. obj(i) \in 1 .. created
      BY <3>1 DEF TypeOK
    <3>4. w[i] = [op |-> verdict[order[i]], from |-> obj(i), netCon |-> obj(i)]
      BY <2>2 DEF Datagram
    <3>5. obj(i) \in Nat
      BY <2>4, <3>3
    <3> QED BY <3>1, <3>2, <3>3, <3>4, <3>5 DEF Told
  <2>7. w \in [1 .. k -> Told]
    BY <2>2, <2>6
  <2> HIDE DEF w, k, n, gone
  <2>8. w \in Seq(Told) /\ Len(w) = k
    BY <2>3, <2>7
  <2>9. /\ n \in Nat /\ DOMAIN datagramBuffer = 1 .. n /\ DOMAIN datagramBuffer' = 1 .. n + k
        /\ datagramBuffer' \in Seq(Told)
        /\ \A i \in 1 .. n : datagramBuffer'[i] = datagramBuffer[i]
        /\ \A i \in 1 .. k : datagramBuffer'[n + i] = w[i]
    <3>1. datagramBuffer' = datagramBuffer \o w
      BY <2>2 DEF w
    <3>2. datagramBuffer \in Seq(Told)
      BY DEF WordInv
    <3> QED BY <2>8, <3>1, <3>2, WordsConcatenated DEF n
  <2>10. ASSUME NEW i \in 1 .. n + k, i \notin 1 .. n
         PROVE  /\ i - n \in 1 .. k /\ n < i
                /\ datagramBuffer'[i].from = obj(i - n) /\ datagramBuffer'[i].netCon = obj(i - n)
    <3>1. i - n \in 1 .. k /\ i = n + (i - n) /\ n < i
      BY <2>3, <2>9, <2>10
    <3>2. datagramBuffer'[i] = w[i - n]
      BY <2>9, <3>1
    <3>3. w[i - n].from = obj(i - n) /\ w[i - n].netCon = obj(i - n)
      <4>1. w[i - n] = [op |-> verdict[order[i - n]], from |-> obj(i - n), netCon |-> obj(i - n)]
        BY <2>6, <3>1
      <4> QED BY <4>1
    <3> QED BY <3>1, <3>2, <3>3
  <2>11. ASSUME NEW i \in 1 .. n PROVE datagramBuffer'[i] = datagramBuffer[i] /\ i \in 1 .. n + k
    BY <2>3, <2>9
  <2>12. ASSUME NEW i \in 1 .. k, NEW j \in 1 .. k, obj(i) = obj(j)
         PROVE  i = j
    <3>1. order[i] = order[j]
      BY <2>6, <2>12 DEF WordInv
    <3> QED BY <2>2, <3>1 DEF IsInjective
  <2> HIDE DEF obj
  <2>13. \A i \in DOMAIN datagramBuffer' :
           /\ datagramBuffer'[i].from \in 1 .. created
           /\ datagramBuffer'[i].netCon \in {0, datagramBuffer'[i].from}
    <3> SUFFICES ASSUME NEW i \in 1 .. n + k
                 PROVE  /\ datagramBuffer'[i].from \in 1 .. created
                        /\ datagramBuffer'[i].netCon \in {0, datagramBuffer'[i].from}
      BY <2>9
    <3>1. CASE i \in 1 .. n
      BY <2>9, <2>11, <3>1 DEF WordInv
    <3>2. CASE i \notin 1 .. n
      BY <2>6, <2>10, <3>2
    <3> QED BY <3>1, <3>2
  <2>14. ASSUME NEW i \in 1 .. n + k, Final(datagramBuffer'[i]), NEW a \in DOMAIN netConnections'
         PROVE  netConnections'[a] # datagramBuffer'[i].netCon
    <3>1. CASE i \in 1 .. n
      BY <2>5, <2>9, <2>11, <2>14, <3>1 DEF WordInv
    <3>2. CASE i \notin 1 .. n
      <4>1. order[i - n] \in gone /\ datagramBuffer'[i].netCon = netConnections[order[i - n]]
            /\ order[i - n] \in DOMAIN netConnections
        BY <2>6, <2>10, <3>2 DEF obj
      <4>2. a \in DOMAIN netConnections /\ a \notin gone /\ netConnections'[a] = netConnections[a]
        BY <2>5
      <4> QED BY <4>1, <4>2 DEF WordInv
    <3> QED BY <3>1, <3>2
  <2>15. ASSUME NEW i \in 1 .. n + k, NEW j \in 1 .. n + k, Final(datagramBuffer'[i]),
                datagramBuffer'[i].netCon = datagramBuffer'[j].from
         PROVE  j <= i
    <3>1. CASE i \in 1 .. n /\ j \in 1 .. n
      BY <2>9, <2>11, <2>15, <3>1 DEF WordInv, LastWord, Final
    <3>2. CASE i \notin 1 .. n /\ j \in 1 .. n
      BY <2>3, <2>9, <2>10, <3>2
    <3>3. CASE i \in 1 .. n /\ j \notin 1 .. n
      <4>1. order[j - n] \in DOMAIN netConnections
            /\ datagramBuffer'[j].from = netConnections[order[j - n]]
        BY <2>6, <2>10, <3>3 DEF obj
      <4>2. datagramBuffer[i].netCon # netConnections[order[j - n]]
        BY <2>9, <2>11, <2>15, <3>3, <4>1 DEF WordInv
      <4> QED BY <2>11, <2>15, <3>3, <4>1, <4>2
    <3>4. CASE i \notin 1 .. n /\ j \notin 1 .. n
      <4>1. /\ i - n \in 1 .. k /\ j - n \in 1 .. k
            /\ datagramBuffer'[i].netCon = obj(i - n) /\ datagramBuffer'[j].from = obj(j - n)
        BY <2>10, <3>4
      <4>2. i - n = j - n
        BY <2>12, <2>15, <4>1
      <4> QED BY <2>3, <2>9, <4>2
    <3> QED BY <3>1, <3>2, <3>3, <3>4
  <2>16. LastWord'
    BY <2>9, <2>15 DEF LastWord, Final
  <2>17. IsFiniteSet(DOMAIN netConnections')
    BY <2>5, FS_Subset DEF WordInv
  <2>18. \A a, b \in DOMAIN netConnections' : netConnections'[a] = netConnections'[b] => a = b
    BY <2>5 DEF WordInv
  <2> QED BY <2>4, <2>9, <2>13, <2>14, <2>16, <2>17, <2>18 DEF WordInv, Final
<1> QED BY <1>1, <1>2

LEMMA WordStep ==
    ASSUME TypeOK, WordInv, [Next]_vars
    PROVE  WordInv'
<1>1. CASE UNCHANGED <<connections, datagramBuffer>>
  BY <1>1, SilenceKeepsWords DEF connections
<1>2. CASE Shutdown
  <2>1. DOMAIN netConnections' = {}
    BY <1>2 DEF Shutdown
  <2> QED BY <1>2, <2>1, SilenceKeepsWords DEF Shutdown
<1> QED BY <1>1, <1>2, PacketKeepsWords, UpdateKeepsWords
        DEF Next, Arrive, BeginWait, WaitTimesOut, WaitSpuriouslyEnds, Tick, Stop,
            ListenEnds, vars

LEMMA WordInit == Init => WordInv
<1> SUFFICES ASSUME Init PROVE WordInv
  OBVIOUS
<1>1. DOMAIN <<>> = {} /\ <<>> \in Seq(Told) /\ IsFiniteSet({})
  BY FS_EmptySet
<1> QED BY <1>1 DEF Init, WordInv, LastWord

\* Every variable of the server has its type, for all addresses, times and
\* bounds.
THEOREM TypeCorrect == Spec => []TypeOK
BY TypeInit, TypeStep, PTL DEF Spec

\* When an object's update has given it up, the application hears no more of
\* it: for any number of peers, however packets, updates and the end of the
\* server interleave.
THEOREM LastWordIsLast == Spec => []LastWord
<1>1. WordInv => LastWord
  BY DEF WordInv
<1> QED BY <1>1, TypeInit, TypeStep, WordInit, WordStep, PTL DEF Spec

\* The update that is due leaves no connection whose peer said goodbye: it is
\* the first thing Connection::update looks at.
THEOREM GoodbyesRemove == Spec => GoodbyeRemoves
<1>1. ASSUME UpdatePass, connUpdate' # connUpdate
      PROVE  closing \cap Range(netConnections') = {}
  <2>1. PICK verdict \in [DOMAIN netConnections -> Closers \cup {"open"}] :
           /\ \A a \in DOMAIN netConnections : verdict[a] \in Verdicts(netConnections[a])
           /\ netConnections' = Surviving(verdict)
    BY <1>1 DEF UpdatePass
  <2>2. ASSUME NEW a \in DOMAIN netConnections'
        PROVE  netConnections'[a] \notin closing
    <3>1. a \in DOMAIN netConnections /\ verdict[a] = "open"
          /\ netConnections'[a] = netConnections[a]
      BY <2>1 DEF Surviving, Restrict
    <3> QED BY <2>1, <3>1 DEF Verdicts
  <2> QED BY <2>2 DEF Range
<1>2. [Next]_vars => [connUpdate' # connUpdate => closing \cap Range(netConnections') = {}]_vars
  <2>1. ASSUME Next, ~UpdatePass PROVE connUpdate' = connUpdate
    BY <2>1 DEF Next, Arrive, BeginWait, WaitTimesOut, ProcessPacket, WaitSpuriouslyEnds,
                Tick, Stop, Shutdown, ListenEnds, thread
  <2> QED BY <1>1, <2>1
<1> QED BY <1>2, PTL DEF Spec, GoodbyeRemoves
=============================================================================
