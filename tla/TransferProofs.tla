--------------------------- MODULE TransferProofs ---------------------------
(***************************************************************************)
(* What TLAPS proves of module Transfer, for every value of its constants. *)
(***************************************************************************)
EXTENDS Transfer, DataLemmas

-----------------------------------------------------------------------------
(* No late packet ends the server *)

\* An entry of m_expiredSequences is 32 bits wide and the time is not: every
\* entry is in the past the moment it is made, and goes with the same update.
NothingExpired ==
    /\ now \in Int /\ now >= Epoch
    /\ DOMAIN expiredSequences = {}
    /\ status \in {"open", "removed"}

LEMMA EntryInThePast ==
    ASSUME NEW t \in Int, NEW u \in Int, u >= Epoch
    PROVE  ToUint32(t) < u
<1>1. WordSize \in Nat \ {0} /\ WordSize <= Epoch /\ Epoch \in Nat
  BY ConnectionAssumption
<1>2. t % WordSize \in 0 .. WordSize - 1
  BY <1>1
<1> QED BY <1>1, <1>2 DEF ToUint32

LEMMA ExpireLeavesNothing ==
    ASSUME NothingExpired, NEW finished, Expire(finished)
    PROVE  DOMAIN expiredSequences' = {}
<1> DEFINE entry(s) == IF s \in DOMAIN expiredSequences THEN expiredSequences[s]
                                                        ELSE ToUint32(now + ExpireAfter)
<1>1. ASSUME NEW s PROVE ~(entry(s) >= now)
  <2>1. entry(s) = ToUint32(now + ExpireAfter)
    BY DEF NothingExpired
  <2>2. now \in Int /\ now + ExpireAfter \in Int /\ now >= Epoch
    BY ConnectionAssumption DEF NothingExpired
  <2>3. ToUint32(now + ExpireAfter) < now
    BY <2>2, EntryInThePast
  <2>4. ToUint32(now + ExpireAfter) \in Int
    BY <2>2, ConnectionAssumption DEF ToUint32
  <2> QED BY <2>1, <2>2, <2>3, <2>4
<1>2. expiredSequences' =
        [s \in {t \in DOMAIN expiredSequences \cup finished : entry(t) >= now} |-> entry(s)]
  BY DEF Expire
<1> HIDE DEF entry
<1> QED BY <1>1, <1>2

LEMMA NothingExpiredStep ==
    ASSUME NothingExpired, [Next]_vars
    PROVE  NothingExpired'
<1> USE DEF NothingExpired
<1>1. ASSUME NEW m \in Messages, Send(m) PROVE NothingExpired'
  BY <1>1 DEF Send, clock
<1>2. ASSUME NEW r \in wire, Retransmit(r) PROVE NothingExpired'
  BY <1>2 DEF Retransmit, clock
<1>3. ASSUME NEW p, AddPacket(p) PROVE NothingExpired'
  BY <1>3 DEF AddPacket, clock
<1>4. CASE Disconnect
  BY <1>4 DEF Disconnect, clock
<1>5. CASE Update
  <2>1. ASSUME NEW op, CloseConnection(op) PROVE NothingExpired'
    BY <2>1 DEF CloseConnection
  <2>2. CASE UpdateSequences
    <3>1. ~OutOfRange
      BY DEF OutOfRange
    <3>2. now' = now /\ status' = "open"
      BY <2>2, <3>1 DEF UpdateSequences
    <3>3. \E finished : Expire(finished)
      BY <2>2 DEF UpdateSequences
    <3> QED BY <3>2, <3>3, ExpireLeavesNothing
  <2> QED BY <1>5, <2>1, <2>2 DEF Update
<1>6. CASE Tick
  BY <1>6, ConnectionAssumption DEF Tick
<1>7. CASE UNCHANGED vars
  BY <1>7 DEF vars, connVars
<1> QED BY <1>1, <1>2, <1>3, <1>4, <1>5, <1>6, <1>7
        DEF Next, Receive, ReceiveDamaged, ReceiveBuiltin, KeepAlive

\* No order of arrival, however late, duplicated or retransmitted, makes
\* Connection::update look up a sequence it does not have.
THEOREM NoLookupFails == Spec => []SequenceFound
<1>1. Init => NothingExpired
  BY ConnectionAssumption DEF Init, ConnInit, NothingExpired
<1>2. NothingExpired /\ [Next]_vars => NothingExpired'
  BY NothingExpiredStep
<1>3. NothingExpired => SequenceFound
  BY DEF NothingExpired, SequenceFound
<1> QED BY <1>1, <1>2, <1>3, PTL DEF Spec

-----------------------------------------------------------------------------
(* Sequences keep their type through an update *)

LEMMA ArrivedType ==
    ASSUME packets \in Seq(Packet), NEW s
    PROVE  /\ Arrived(s) \subseteq DOMAIN packets
           /\ Arrived(s) \subseteq Nat
           /\ \A i \in Arrived(s) : packets[i] \in Packet
BY DEF Arrived

LEMMA BagOfType ==
    ASSUME packets \in Seq(Packet), NEW I, I \subseteq DOMAIN packets
    PROVE  /\ IsABag(BagOf(I))
           /\ DOMAIN BagOf(I) \subseteq Slice
           /\ I # {} => DOMAIN BagOf(I) # {}
<1>1. IsFiniteSet(I)
  BY FS_Interval, FS_Subset
<1>2. ASSUME NEW i \in I PROVE SliceOf(packets[i]) \in Slice
  <2>1. packets[i] \in Packet
    OBVIOUS
  <2> QED BY <2>1 DEF Packet, SliceOf, Slice
<1>3. ASSUME NEW x, x \in {SliceOf(packets[i]) : i \in I}
      PROVE  Cardinality({i \in I : SliceOf(packets[i]) = x}) \in {n \in Nat : n > 0}
  <2> DEFINE J == {i \in I : SliceOf(packets[i]) = x}
  <2>1. IsFiniteSet(J) /\ J # {}
    BY <1>1, <1>3, FS_Subset
  <2> HIDE DEF J
  <2>2. Cardinality(J) \in Nat /\ Cardinality(J) # 0
    BY <2>1, FS_CardinalityType, FS_EmptySet
  <2>3. Cardinality(J) > 0
    BY <2>2
  <2> QED BY <2>2, <2>3 DEF J
<1>4. DOMAIN BagOf(I) = {SliceOf(packets[i]) : i \in I}
  BY DEF BagOf
<1>5. IsABag(BagOf(I))
  BY <1>3, <1>4 DEF BagOf, IsABag
<1> QED BY <1>2, <1>4, <1>5

LEMMA BagSumType ==
    ASSUME NEW B, NEW C, IsABag(B), IsABag(C)
    PROVE  IsABag(B (+) C) /\ DOMAIN (B (+) C) = DOMAIN B \cup DOMAIN C
BY DEF IsABag, (+)

\* A sequence but for its packets, as the constructor leaves it.
IsNewSequence(x) ==
    /\ x = [total |-> x.total, first |-> x.first, held |-> x.held,
             missing |-> x.missing, hard |-> x.hard]
    /\ x.total \in Nat /\ x.first \in Slice
    /\ IsABag(x.held) /\ DOMAIN x.held \subseteq Slice
    /\ x.missing \subseteq Nat /\ x.hard \in 0 .. WordSize - 1

LEMMA NewSequenceType ==
    ASSUME NEW p \in Packet, now \in Nat
    PROVE  IsNewSequence(NewSequence(p))
<1>1. IsABag(EmptyBag) /\ DOMAIN EmptyBag = {}
  BY DEF EmptyBag, SetToBag, IsABag
<1>2. FloatToUint32(now + Lifetime) \in 0 .. WordSize - 1
  <2>1. (now + Lifetime) % FloatStep \in Int
    BY ConnectionAssumption
  <2> QED BY <2>1, ConnectionAssumption DEF FloatToUint32, ToUint32
<1>3. SliceOf(p) \in Slice /\ p.total \in Nat
  BY DEF Packet, SliceOf, Slice
<1> QED BY <1>1, <1>2, <1>3 DEF NewSequence, IsNewSequence

LEMMA WithPacketsType ==
    ASSUME packets \in Seq(Packet), NEW x, IsNewSequence(x),
           NEW I, I \subseteq DOMAIN packets, DOMAIN x.held # {} \/ I # {}
    PROVE  IsSequence(WithPackets(x, I))
<1> DEFINE h == x.held (+) BagOf(I)
<1>1. IsABag(h) /\ DOMAIN h \subseteq Slice /\ DOMAIN h # {}
  BY BagOfType, BagSumType DEF IsNewSequence
<1>2. WithPackets(x, I) = [total |-> x.total, first |-> x.first, held |-> h,
                           missing |-> x.missing, hard |-> x.hard]
  BY DEF WithPackets, IsNewSequence
<1> HIDE DEF h
<1> QED BY <1>1, <1>2 DEF IsNewSequence, IsSequence

LEMMA IngestedType ==
    ASSUME ConnTypeOK
    PROVE  /\ DOMAIN Ingested = DOMAIN sequences \cup Arriving
           /\ DOMAIN Ingested \subseteq SeqIDs
           /\ \A s \in DOMAIN Ingested : IsSequence(Ingested[s])
<1> USE DEF ConnTypeOK
<1>1. now \in Nat
  BY ConnectionAssumption
<1>2. ASSUME NEW s \in DOMAIN sequences
      PROVE  IsSequence(WithPackets(sequences[s], Arrived(s)))
  <2>1. IsNewSequence(sequences[s]) /\ DOMAIN sequences[s].held # {}
    BY DEF IsSequence, IsNewSequence
  <2> QED BY <2>1, ArrivedType, WithPacketsType
<1>3. ASSUME NEW s \in Arriving
      PROVE  IsSequence(WithPackets(NewSequence(packets[Min(Arrived(s))]), Arrived(s)))
  <2>1. Arrived(s) # {} /\ Arrived(s) \subseteq Nat
    BY ArrivedType DEF Arriving
  <2>2. packets[Min(Arrived(s))] \in Packet
    BY <2>1, LeastIsIn, ArrivedType
  <2>3. IsNewSequence(NewSequence(packets[Min(Arrived(s))]))
    BY <1>1, <2>2, NewSequenceType
  <2> QED BY <2>1, <2>3, ArrivedType, WithPacketsType
<1>4. Arriving \subseteq SeqIDs
  BY DEF Arriving
<1> QED BY <1>2, <1>3, <1>4 DEF Ingested

LEMMA GapsType == ASSUME NEW x PROVE Gaps(x) \subseteq Nat
BY DEF Gaps

\* The packet that a sort puts in front is one of those that are held.
LEMMA LowestIsHeld ==
    ASSUME NEW x, IsSequence(x)
    PROVE  (CHOOSE y \in DOMAIN x.held : \A z \in DOMAIN x.held : y.num <= z.num) \in DOMAIN x.held
<1> DEFINE nums == {y.num : y \in DOMAIN x.held}
<1>1. nums \subseteq Nat /\ nums # {}
  BY DEF IsSequence, Slice
<1> HIDE DEF nums
<1>2. Min(nums) \in nums /\ \A n \in nums : Min(nums) <= n
  BY <1>1, LeastIsIn
<1>3. \E y \in DOMAIN x.held : \A z \in DOMAIN x.held : y.num <= z.num
  BY <1>2 DEF nums
<1> QED BY <1>3

LEMMA SearchedType ==
    ASSUME NEW x, IsSequence(x)
    PROVE  IsSequence(Searched(x))
<1> DEFINE lowest == CHOOSE y \in DOMAIN x.held : \A z \in DOMAIN x.held : y.num <= z.num
<1>1. lowest \in DOMAIN x.held
  BY LowestIsHeld
<1>2. CASE Held(x) <= 1
  BY <1>2 DEF Searched
<1>3. CASE ~(Held(x) <= 1)
  <2>1. Searched(x) = [x EXCEPT !.first = lowest, !.missing = @ \cup Gaps(x)]
    BY <1>3 DEF Searched
  <2>2. Searched(x) = [total |-> x.total, first |-> lowest, held |-> x.held,
                       missing |-> x.missing \cup Gaps(x), hard |-> x.hard]
    BY <2>1 DEF IsSequence
  <2>3. lowest \in Slice
    BY <1>1 DEF IsSequence
  <2> HIDE DEF lowest
  <2> QED BY <2>2, <2>3, GapsType DEF IsSequence
<1> QED BY <1>2, <1>3

-----------------------------------------------------------------------------
(* Type correctness, with what is known of the packets in flight and queued *)

WireOK ==
    \A p \in wire :
        /\ p.op \in {"Data", "RetransmissionImpossible"} =>
               p \in Packet /\ p.seq \in SeqIDs /\ ~p.damaged
        /\ p.op = "RetransmissionRequest" => p \in Request

QueueOK ==
    \A i \in DOMAIN packets : packets[i].seq \in SeqIDs /\ (packets[i].damaged => Damages)

TypeInv == TypeOK /\ WireOK /\ QueueOK

\* What addPacket does to the variables with a type.
LEMMA CalculateLatencyType ==
    ASSUME ConnTypeOK, NEW b, CalculateLatency(b)
    PROVE  /\ isLagging' \in BOOLEAN /\ latency' \in Latencies
           /\ retryTimeout' \in Nat /\ lastArrival' \in Epoch .. LastTime
BY ConnectionAssumption DEF ConnTypeOK, CalculateLatency

LEMMA AddPacketType ==
    ASSUME ConnTypeOK, QueueOK, NEW p \in Packet, AddPacket(p),
           p.total # 1 => p.seq \in SeqIDs /\ (p.damaged => Damages)
    PROVE  ConnTypeOK' /\ QueueOK'
<1>1. ASSUME Keep(p) PROVE packets' \in Seq(Packet) /\ QueueOK'
  BY <1>1 DEF Keep, ConnTypeOK, QueueOK
<1>2. ASSUME UNCHANGED packets PROVE packets' \in Seq(Packet) /\ QueueOK'
  BY <1>2 DEF ConnTypeOK, QueueOK
<1>3. ASSUME UNCHANGED <<isLagging, latency, retryTimeout, lastArrival>>
      PROVE  /\ isLagging' \in BOOLEAN /\ latency' \in Latencies
             /\ retryTimeout' \in Nat /\ lastArrival' \in Epoch .. LastTime
  BY <1>3 DEF ConnTypeOK
<1>4. ASSUME UNCHANGED sequences
      PROVE  DOMAIN sequences' \subseteq SeqIDs /\ \A s \in DOMAIN sequences' : IsSequence(sequences'[s])
  BY <1>4 DEF ConnTypeOK
<1>5. ASSUME UNCHANGED retryRequests PROVE retryRequests' \subseteq RetryRequest
  BY <1>5 DEF ConnTypeOK
<1>6. ASSUME ForgetSequence(p)
      PROVE  /\ DOMAIN sequences' \subseteq SeqIDs /\ \A s \in DOMAIN sequences' : IsSequence(sequences'[s])
             /\ retryRequests' \subseteq RetryRequest
  BY <1>6 DEF ForgetSequence, Restrict, ConnTypeOK
<1>7. ASSUME RetireRequest(p) PROVE retryRequests' \subseteq RetryRequest
  BY <1>7 DEF RetireRequest, ConnTypeOK
<1>8. /\ now' \in Epoch .. LastTime /\ connUpdate' \in BOOLEAN
      /\ status' \in {"open", "removed", "threw"}
      /\ isClosing' \in BOOLEAN /\ DOMAIN expiredSequences' \subseteq SeqIDs
  BY DEF AddPacket, ConnTypeOK, clock
<1> DEFINE Typed ==
      /\ packets' \in Seq(Packet) /\ QueueOK'
      /\ isLagging' \in BOOLEAN /\ latency' \in Latencies
      /\ retryTimeout' \in Nat /\ lastArrival' \in Epoch .. LastTime
      /\ DOMAIN sequences' \subseteq SeqIDs /\ \A s \in DOMAIN sequences' : IsSequence(sequences'[s])
      /\ retryRequests' \subseteq RetryRequest
<1>9. Typed
  <2>1. CASE p.op = "RetransmissionReply" /\ CalculateLatency(FALSE) /\ Keep(p)
             /\ UNCHANGED <<sequences, retryRequests>>
    BY <2>1, <1>1, <1>4, <1>5, CalculateLatencyType
  <2>2. CASE p.op = "RetransmissionAck" /\ RetireRequest(p)
    <3>1. UNCHANGED <<isLagging, latency, retryTimeout, lastArrival>> /\ UNCHANGED packets /\ UNCHANGED sequences
      BY <2>2 DEF RetireRequest, estimators
    <3> QED BY <2>2, <3>1, <1>2, <1>3, <1>4, <1>7
  <2>3. CASE p.op \in {"Ack", "RetransmissionImpossible"} /\ ForgetSequence(p)
    <3>1. UNCHANGED <<isLagging, latency, retryTimeout, lastArrival>> /\ UNCHANGED packets
      BY <2>3 DEF ForgetSequence, estimators
    <3> QED BY <2>3, <3>1, <1>2, <1>3, <1>6
  <2>4. CASE CalculateLatency(TRUE) /\ UNCHANGED <<packets, sequences, retryRequests>>
    BY <2>4, <1>2, <1>4, <1>5, CalculateLatencyType
  <2>5. CASE p.op = "Data" /\ CalculateLatency(TRUE) /\ Keep(p)
             /\ UNCHANGED <<sequences, retryRequests>>
    BY <2>5, <1>1, <1>4, <1>5, CalculateLatencyType
  <2> QED BY <2>1, <2>2, <2>3, <2>4, <2>5 DEF AddPacket
<1> QED BY <1>8, <1>9 DEF ConnTypeOK

\* The requests an update keeps and makes.
LEMMA RequestsAfterType ==
    ASSUME TypeInv, NEW finished
    PROVE  RequestsAfter(Ingested, finished) \subseteq RetryRequest
<1>1. now \in Nat
  BY ConnectionAssumption DEF TypeInv, TypeOK, ConnTypeOK
<1>2. ASSUME NEW i \in DOMAIN packets
      PROVE  [seq |-> packets[i].seq, num |-> packets[i].num, next |-> now] \in RetryRequest
  <2>1. packets[i] \in Packet /\ packets[i].seq \in SeqIDs
    BY DEF TypeInv, TypeOK, ConnTypeOK, QueueOK
  <2> QED BY <1>1, <2>1 DEF Packet, RetryRequest
<1>3. ASSUME NEW s \in DOMAIN Ingested, NEW n \in NewGaps(Ingested[s])
      PROVE  [seq |-> s, num |-> n, next |-> 0] \in RetryRequest
  <2>1. s \in SeqIDs
    BY IngestedType DEF TypeInv, TypeOK
  <2>2. n \in Nat
    BY GapsType DEF NewGaps
  <2> QED BY <2>1, <2>2 DEF RetryRequest
<1>4. retryRequests \subseteq RetryRequest
  BY DEF TypeInv, TypeOK, ConnTypeOK
<1> QED BY <1>2, <1>3, <1>4 DEF RequestsAfter, AllRequests

LEMMA UpdateSequencesType ==
    ASSUME TypeInv, UpdateSequences, UNCHANGED clientVars
    PROVE  TypeInv'
<1> USE DEF TypeInv, TypeOK, ConnTypeOK
<1> DEFINE finished == {s \in DOMAIN Ingested : Complete(Ingested[s])}
                          \cup {s \in DOMAIN Ingested : HardExpired(Ingested[s])}
           requests == RequestsAfter(Ingested, finished)
<1>1. requests \subseteq RetryRequest
  BY RequestsAfterType
<1>2. /\ DOMAIN sequences' \subseteq SeqIDs
      /\ \A s \in DOMAIN sequences' : IsSequence(sequences'[s])
  <2>1. sequences' = [s \in DOMAIN Ingested \ finished |-> Searched(Ingested[s])]
    BY DEF UpdateSequences
  <2> HIDE DEF finished
  <2> QED BY <2>1, IngestedType, SearchedType
<1>3. /\ packets' = <<>> /\ now' = now /\ connUpdate' = FALSE
      /\ isClosing' = isClosing /\ status' \in {"open", "threw"}
      /\ RequestRetransmissions(requests)
      /\ wire' = wire \cup RequestMessages(requests)
                      \cup {[op |-> "Ack", seq |-> s] :
                               s \in {t \in DOMAIN Ingested : Complete(Ingested[t])}}
      /\ Expire(finished)
  BY DEF UpdateSequences
<1>4. DOMAIN expiredSequences' \subseteq SeqIDs
  <2>1. DOMAIN expiredSequences' \subseteq DOMAIN expiredSequences \cup finished
    BY <1>3 DEF Expire
  <2>2. finished \subseteq SeqIDs
    BY IngestedType
  <2> QED BY <2>1, <2>2
<1> HIDE DEF requests, finished
<1>5. retryTimeout' \in Nat /\ isLagging' \in BOOLEAN /\ latency' = latency
      /\ lastArrival' = lastArrival
  BY <1>3 DEF RequestRetransmissions
<1>6. retryRequests' \subseteq RetryRequest
  <2>1. now + retryTimeout \in Nat
    BY ConnectionAssumption
  <2>2. ASSUME NEW r \in requests
        PROVE  (IF r.next = 0 THEN [r EXCEPT !.next = now + retryTimeout] ELSE r) \in RetryRequest
    BY <1>1, <2>1 DEF RetryRequest
  <2>3. retryRequests' = {IF r.next = 0 THEN [r EXCEPT !.next = now + retryTimeout]
                                        ELSE r : r \in requests}
    BY <1>3 DEF RequestRetransmissions
  <2> QED BY <2>2, <2>3
<1>7. WireOK'
  <2>1. ASSUME NEW p \in RequestMessages(requests)
        PROVE  p \in Request /\ p.op = "RetransmissionRequest"
    BY <1>1 DEF RequestMessages, RetryRequest, Request
  <2> QED BY <1>3, <2>1 DEF WireOK
<1>8. QueueOK'
  BY <1>3 DEF QueueOK
<1>9. packets' \in Seq(Packet)
  BY <1>3
<1>10. ConnTypeOK'
  BY <1>2, <1>3, <1>4, <1>5, <1>6, <1>9
<1>11. TypeOK'
  BY <1>10 DEF clientVars
<1> QED BY <1>7, <1>8, <1>11

LEMMA CloseConnectionType ==
    ASSUME TypeInv, NEW op, CloseConnection(op), UNCHANGED clientVars
    PROVE  TypeInv'
<1>1. ConnTypeOK'
  <2>1. DOMAIN <<>> = {} /\ <<>> \in Seq(Packet)
    OBVIOUS
  <2>2. packets' = <<>> /\ sequences' = <<>> /\ expiredSequences' = <<>> /\ retryRequests' = {}
    BY DEF CloseConnection
  <2>3. /\ now' = now /\ connUpdate' = FALSE /\ status' = "removed" /\ isClosing' = isClosing
        /\ UNCHANGED <<isLagging, latency, retryTimeout, lastArrival>>
    BY DEF CloseConnection, estimators
  <2> QED BY <2>1, <2>2, <2>3 DEF TypeInv, TypeOK, ConnTypeOK
<1>2. WireOK' /\ QueueOK'
  BY DEF TypeInv, WireOK, QueueOK, CloseConnection
<1> QED BY <1>1, <1>2 DEF TypeInv, TypeOK, clientVars

\* A step of the client leaves the connection alone and puts only packets of
\* the right shape on the wire.
LEMMA ClientType ==
    ASSUME TypeInv,
           UNCHANGED <<clock, status, isClosing, estimators, packets, sequences,
                       expiredSequences, retryRequests, buffer>>
    PROVE  ConnTypeOK' /\ QueueOK'
BY DEF TypeInv, TypeOK, ConnTypeOK, QueueOK, clock, estimators

LEMMA PacketsOfType ==
    ASSUME NEW m \in Messages, NEW s \in SeqIDs, NEW p \in PacketsOf(m, s)
    PROVE  p \in Packet /\ p.seq \in SeqIDs /\ ~p.damaged /\ p.op = "Data"
<1>1. PICK k \in 0 .. Payloads[m] - 1 :
        p = [op |-> "Data", msg |-> m, seq |-> s, num |-> k, total |-> Payloads[m],
             damaged |-> FALSE]
  BY DEF PacketsOf
<1>2. Payloads[m] \in Nat
  BY ConnectionAssumption
<1> QED BY <1>1, <1>2 DEF Packet, OpCodes

LEMMA ControlType ==
    ASSUME NEW op \in OpCodes, NEW s \in SeqIDs \cup {0}, NEW k \in Nat
    PROVE  Control(op, s, k) \in Packet
BY DEF Control, Packet

LEMMA SendType ==
    ASSUME TypeInv, NEW m \in Messages, Send(m)
    PROVE  TypeInv'
<1>1. ConnTypeOK' /\ QueueOK'
  BY ClientType DEF Send
<1>2. PICK s \in SeqIDs :
        /\ seqID' = s
        /\ sentAs' = [sentAs EXCEPT ![m] = s]
        /\ wire' = wire \cup PacketsOf(m, s)
        /\ storedSequences' =
              IF MultiPacket(m) /\ s \notin DOMAIN storedSequences
              THEN [t \in DOMAIN storedSequences \cup {s} |->
                       IF t = s THEN m ELSE storedSequences[t]]
              ELSE storedSequences
  BY DEF Send, SequenceID
<1>3. WireOK'
  BY <1>2, PacketsOfType DEF TypeInv, WireOK
<1>4. TypeOK'
  BY <1>1, <1>2 DEF TypeInv, TypeOK
<1> QED BY <1>1, <1>3, <1>4 DEF TypeInv

LEMMA RetransmitType ==
    ASSUME TypeInv, NEW r \in wire, Retransmit(r)
    PROVE  TypeInv'
<1>1. ConnTypeOK' /\ QueueOK' /\ UNCHANGED clientVars
  BY ClientType DEF Retransmit
<1>2. r.seq \in SeqIDs /\ r.num \in Nat
  BY DEF Retransmit, TypeInv, WireOK, Request
<1>3. ASSUME NEW p \in wire', p \notin wire
      PROVE  /\ p \in Packet /\ p.seq \in SeqIDs /\ ~p.damaged
             /\ p.op \in {"Data", "RetransmissionImpossible"}
  <2>1. CASE Stored(r)
    <3>1. storedSequences[r.seq] \in Messages
      BY <2>1 DEF Stored, TypeInv, TypeOK
    <3>2. p \in PacketsOf(storedSequences[r.seq], r.seq)
      BY <1>3, <2>1 DEF Retransmit
    <3> QED BY <1>2, <3>1, <3>2, PacketsOfType
  <2>2. CASE ~Stored(r)
    <3>1. p = Control("RetransmissionImpossible", r.seq, r.num)
      BY <1>3, <2>2 DEF Retransmit
    <3>2. p \in Packet
      BY <1>2, <3>1, ControlType DEF OpCodes
    <3> QED BY <1>2, <3>1, <3>2 DEF Control
  <2> QED BY <2>1, <2>2
<1>4. WireOK'
  BY <1>3 DEF TypeInv, WireOK
<1> QED BY <1>1, <1>4 DEF TypeInv, TypeOK, clientVars

\* The connection takes a packet, the wire keeps or loses it.
LEMMA TakeType ==
    ASSUME TypeInv, NEW p \in Packet, AddPacket(p),
           p.total # 1 => p.seq \in SeqIDs /\ (p.damaged => Damages),
           wire' \subseteq wire, UNCHANGED clientVars
    PROVE  TypeInv'
<1>1. ConnTypeOK' /\ QueueOK'
  BY AddPacketType DEF TypeInv, TypeOK
<1>2. WireOK'
  BY DEF TypeInv, WireOK
<1> QED BY <1>1, <1>2 DEF TypeInv, TypeOK, clientVars

LEMMA TypeInvStep ==
    ASSUME TypeInv, [Next]_vars
    PROVE  TypeInv'
<1>1. ASSUME NEW m \in Messages, Send(m) PROVE TypeInv'
  BY <1>1, SendType
<1>2. ASSUME NEW r \in wire, Retransmit(r) PROVE TypeInv'
  BY <1>2, RetransmitType
<1>3. ASSUME NEW p \in wire, Receive(p) PROVE TypeInv'
  <2>1. p \in Packet /\ p.seq \in SeqIDs /\ ~p.damaged
    BY <1>3 DEF Receive, TypeInv, WireOK
  <2> QED BY <1>3, <2>1, TakeType DEF Receive, Consumed
<1>4. ASSUME NEW p \in wire, ReceiveDamaged(p) PROVE TypeInv'
  <2> DEFINE q == [p EXCEPT !.damaged = TRUE]
  <2>1. p \in Packet /\ p.seq \in SeqIDs
    BY <1>4 DEF ReceiveDamaged, TypeInv, WireOK
  <2>2. q \in Packet /\ q.seq = p.seq
    BY <2>1 DEF Packet
  <2>3. AddPacket(q) /\ Damages /\ wire' \subseteq wire /\ UNCHANGED clientVars
    BY <1>4 DEF ReceiveDamaged, Consumed
  <2> HIDE DEF q
  <2> QED BY <2>1, <2>2, <2>3, TakeType
<1>5. ASSUME NEW op \in Builtins, NEW s \in SeqIDs, NEW k \in PacketNums, ReceiveBuiltin(op, s, k)
      PROVE  TypeInv'
  <2>1. op \in OpCodes /\ k \in Nat
    BY TransferAssumption, ConnectionAssumption DEF OpCodes, PacketNums
  <2> DEFINE q == Control(op, s, k)
  <2>2. q \in Packet /\ q.total = 1
    BY <2>1, ControlType DEF Control
  <2>3. AddPacket(q) /\ wire' = wire /\ UNCHANGED clientVars
    BY <1>5 DEF ReceiveBuiltin
  <2> HIDE DEF q
  <2> QED BY <2>2, <2>3, TakeType
<1>6. CASE KeepAlive
  <2> DEFINE q == Control("KeepAlive", 0, 0)
  <2>1. q \in Packet /\ q.total = 1
    BY DEF Control, Packet, OpCodes
  <2>2. AddPacket(q) /\ wire' = wire /\ UNCHANGED clientVars
    BY <1>6 DEF KeepAlive
  <2> HIDE DEF q
  <2> QED BY <2>1, <2>2, TakeType
<1>7. CASE Disconnect
  <2>1. ConnTypeOK'
    BY <1>7 DEF Disconnect, SetClosed, TypeInv, TypeOK, ConnTypeOK, clock, estimators
  <2>2. WireOK' /\ QueueOK' /\ UNCHANGED clientVars
    BY <1>7 DEF Disconnect, TypeInv, WireOK, QueueOK
  <2> QED BY <2>1, <2>2 DEF TypeInv, TypeOK, clientVars
<1>8. CASE Update /\ UNCHANGED clientVars
  BY <1>8, CloseConnectionType, UpdateSequencesType DEF Update
<1>9. CASE Tick /\ UNCHANGED clientVars
  <2>1. ConnTypeOK'
    BY <1>9, ConnectionAssumption DEF Tick, TypeInv, TypeOK, ConnTypeOK, estimators
  <2>2. WireOK' /\ QueueOK'
    BY <1>9 DEF Tick, TypeInv, WireOK, QueueOK
  <2> QED BY <1>9, <2>1, <2>2 DEF TypeInv, TypeOK, clientVars
<1>10. CASE UNCHANGED vars
  <2>1. ConnTypeOK' /\ QueueOK'
    BY <1>10, ClientType DEF vars, connVars, clock, estimators
  <2> QED BY <1>10, <2>1 DEF vars, connVars, clientVars, TypeInv, TypeOK, WireOK
<1> QED BY <1>1, <1>2, <1>3, <1>4, <1>5, <1>6, <1>7, <1>8, <1>9, <1>10 DEF Next

LEMMA TypeInvInit == Init => TypeInv
<1> SUFFICES ASSUME Init PROVE TypeInv
  OBVIOUS
<1>1. DOMAIN <<>> = {} /\ <<>> \in Seq(Packet)
  OBVIOUS
<1>2. ConnTypeOK
  <2>1. Epoch \in Epoch .. LastTime /\ 0 \in Nat
    BY ConnectionAssumption
  <2>2. /\ now = Epoch /\ connUpdate = FALSE /\ status = "open" /\ isClosing = FALSE
        /\ isLagging = FALSE /\ latency \in Latencies /\ retryTimeout = 0
        /\ lastArrival = Epoch /\ packets = <<>> /\ sequences = <<>>
        /\ expiredSequences = <<>> /\ retryRequests = {}
    BY DEF Init, ConnInit
  <2> QED BY <1>1, <2>1, <2>2 DEF ConnTypeOK
<1>3. WireOK /\ QueueOK
  BY <1>1 DEF Init, ConnInit, WireOK, QueueOK
<1> QED BY <1>1, <1>2, <1>3 DEF Init, TypeInv, TypeOK

\* Every variable of the two peers keeps its type, whatever the network does:
\* a new sequence and every gap found in it are well formed.
THEOREM TypeCorrect == Spec => []TypeOK
<1>1. TypeInv => TypeOK
  BY DEF TypeInv
<1> QED BY <1>1, TypeInvInit, TypeInvStep, PTL DEF Spec

-----------------------------------------------------------------------------
(* Requests belong to sequences that are being assembled *)

LEMMA AssemblingUpdate ==
    ASSUME TypeInv, ~Damages, RequestsHaveSequence, UpdateSequences
    PROVE  RequestsHaveSequence'
<1> DEFINE finished == {s \in DOMAIN Ingested : Complete(Ingested[s])}
                          \cup {s \in DOMAIN Ingested : HardExpired(Ingested[s])}
           requests == RequestsAfter(Ingested, finished)
<1>1. DOMAIN sequences' = DOMAIN Ingested \ finished
  BY DEF UpdateSequences
<1>2. DOMAIN sequences \subseteq DOMAIN Ingested
  BY IngestedType DEF TypeInv, TypeOK
<1>3. {q \in {packets[i] : i \in DOMAIN packets} : q.damaged} = {}
  BY DEF TypeInv, QueueOK
<1>4. \A r \in requests : r.seq \in DOMAIN Ingested \ finished
  <2> HIDE DEF finished
  <2> QED BY <1>2, <1>3 DEF RequestsAfter, AllRequests, RequestsHaveSequence
<1>5. requests \subseteq RetryRequest
  BY RequestsAfterType
<1>6. retryRequests' = {IF r.next = 0 THEN [r EXCEPT !.next = now + retryTimeout]
                                      ELSE r : r \in requests}
  BY DEF UpdateSequences, RequestRetransmissions
<1> HIDE DEF requests, finished
<1>7. ASSUME NEW r \in requests
      PROVE  (IF r.next = 0 THEN [r EXCEPT !.next = now + retryTimeout] ELSE r).seq = r.seq
  BY <1>5 DEF RetryRequest
<1> QED BY <1>1, <1>4, <1>6, <1>7 DEF RequestsHaveSequence

LEMMA AssemblingPacket ==
    ASSUME RequestsHaveSequence, NEW p, AddPacket(p)
    PROVE  RequestsHaveSequence'
BY DEF RequestsHaveSequence, AddPacket, ForgetSequence, RetireRequest, Restrict

\* As long as no packet is damaged, finishing, expiring and forgetting a sequence
\* take its retransmission requests along, in whatever order packets come.
THEOREM RequestsFollowSequences == ~Damages /\ Spec => []RequestsHaveSequence
<1> SUFFICES ASSUME ~Damages PROVE Spec => []RequestsHaveSequence
  OBVIOUS
<1>1. Init => RequestsHaveSequence
  BY DEF Init, ConnInit, RequestsHaveSequence
<1>2. ASSUME TypeInv, RequestsHaveSequence, [Next]_vars PROVE RequestsHaveSequence'
  <2>1. ASSUME UNCHANGED <<sequences, retryRequests>> PROVE RequestsHaveSequence'
    BY <1>2, <2>1 DEF RequestsHaveSequence
  <2>2. CASE Update
    <3>1. ASSUME NEW op, CloseConnection(op) PROVE RequestsHaveSequence'
      BY <3>1 DEF CloseConnection, RequestsHaveSequence
    <3> QED BY <1>2, <2>2, <3>1, AssemblingUpdate DEF Update
  <2>3. ASSUME NEW p, AddPacket(p) PROVE RequestsHaveSequence'
    BY <1>2, <2>3, AssemblingPacket
  <2> QED BY <1>2, <2>1, <2>2, <2>3 DEF Next, Send, Retransmit, Receive, ReceiveDamaged,
          ReceiveBuiltin, KeepAlive, Disconnect, Tick, vars, connVars
<1> QED BY <1>1, <1>2, TypeInvInit, TypeInvStep, PTL DEF Spec
-----------------------------------------------------------------------------
(* What a bag counts *)

\* BagCardinality adds the counts one element at a time: the function it is
\* defined by, on the sets of elements.
Elt(S) == CHOOSE e \in S : TRUE

Adds(g, B) ==
  \A S \in SUBSET DOMAIN B : g[S] = IF S = {} THEN 0 ELSE B[Elt(S)] + g[S \ {Elt(S)}]

LEMMA EltRemoved ==
    ASSUME NEW S, IsFiniteSet(S), S # {}
    PROVE  /\ Elt(S) \in S
           /\ IsFiniteSet(S \ {Elt(S)})
           /\ Cardinality(S) \in Nat /\ Cardinality(S) > 0
           /\ Cardinality(S \ {Elt(S)}) = Cardinality(S) - 1
<1>1. Elt(S) \in S
  BY DEF Elt
<1>2. Cardinality(S) \in Nat /\ Cardinality(S) # 0
  BY FS_CardinalityType, FS_EmptySet
<1> QED BY <1>1, <1>2, FS_RemoveElement

\* There is such a function.
LEMMA SomethingAdds ==
    ASSUME NEW B, IsABag(B), IsFiniteSet(DOMAIN B)
    PROVE  \E g : g = [S \in SUBSET DOMAIN B |->
                         IF S = {} THEN 0 ELSE B[Elt(S)] + g[S \ {Elt(S)}]]
<1> DEFINE D == DOMAIN B
           c == [S \in SUBSET D |-> Elt(S)]
           plus == [x \in D |-> [y \in Int |-> B[x] + y]]
<1>1. \A x \in D : B[x] \in Int
  BY DEF IsABag
<1>2. plus \in [D -> [Int -> Int]] /\ \A x \in D, y \in Int : plus[x][y] = B[x] + y
  BY <1>1
<1>3. \A S \in SUBSET D : S # {} => c[S] \in S /\ c[S] = Elt(S)
  BY DEF Elt
<1>4. PICK g : Folds(D, Int, 0, plus, c, g)
  <2>1. IsFiniteSet(D) /\ 0 \in Int
    OBVIOUS
  <2>2. plus \in [D -> [Int -> Int]]
    BY <1>2, Zenon
  <2>3. \A S \in SUBSET D : S # {} => c[S] \in S
    BY <1>3, Zenon
  <2> HIDE DEF D, c, plus
  <2> QED BY <2>1, <2>2, <2>3, FoldExists
<1>5. /\ g \in [SUBSET D -> Int]
      /\ g = [S \in SUBSET D |-> IF S = {} THEN 0 ELSE plus[c[S]][g[S \ {c[S]}]]]
  BY <1>4 DEF Folds
<1>6. ASSUME NEW S \in SUBSET D, S # {} PROVE g[S] = B[Elt(S)] + g[S \ {Elt(S)}]
  <2>1. c[S] \in D /\ c[S] = Elt(S) /\ S \ {c[S]} \in SUBSET D
    BY <1>3, <1>6
  <2> HIDE DEF c, plus
  <2>2. g[S] = plus[c[S]][g[S \ {c[S]}]] /\ g[S \ {c[S]}] \in Int
    BY <1>5, <1>6, <2>1
  <2> QED BY <1>2, <2>1, <2>2
<1>7. g[{}] = 0
  BY <1>5
<1> QED BY <1>5, <1>6, <1>7

LEMMA CardinalityAdds ==
    ASSUME NEW B, IsABag(B), IsFiniteSet(DOMAIN B)
    PROVE  \E g : Adds(g, B) /\ BagCardinality(B) = g[DOMAIN B]
<1> DEFINE Is(g) == g = [S \in SUBSET DOMAIN B |->
                           IF S = {} THEN 0 ELSE B[Elt(S)] + g[S \ {Elt(S)}]]
           sum == CHOOSE g : Is(g)
<1>1. \E g : Is(g)
  BY SomethingAdds
<1>2. Is(sum)
  BY <1>1
<1>3. BagCardinality(B) = sum[DOMAIN B]
  BY DEF BagCardinality, Elt
<1>4. Adds(sum, B)
  BY <1>2 DEF Adds
<1> QED BY <1>3, <1>4

\* The counts add up to the number of elements when each occurs once, and to
\* more otherwise.
LEMMA CardinalityOfBag ==
    ASSUME NEW B, IsABag(B), IsFiniteSet(DOMAIN B)
    PROVE  /\ BagCardinality(B) \in Nat
           /\ BagCardinality(B) >= Cardinality(DOMAIN B)
           /\ BagCardinality(B) = Cardinality(DOMAIN B) <=> \A x \in DOMAIN B : B[x] = 1
<1> DEFINE D == DOMAIN B
<1>1. PICK g : Adds(g, B) /\ BagCardinality(B) = g[D]
  BY CardinalityAdds
<1> DEFINE Good(S) == /\ g[S] \in Nat /\ g[S] >= Cardinality(S)
                      /\ g[S] = Cardinality(S) <=> \A x \in S : B[x] = 1
           Bad == {Cardinality(S) : S \in {T \in SUBSET D : ~Good(T)}}
<1>2. \A S \in SUBSET D : IsFiniteSet(S) /\ Cardinality(S) \in Nat
  BY FS_Subset, FS_CardinalityType
<1>3. Good({})
  <2>1. g[{}] = 0
    BY <1>1 DEF Adds
  <2>2. Cardinality({}) = 0
    BY FS_EmptySet
  <2> QED BY <2>1, <2>2
<1>4. ASSUME NEW S \in SUBSET D, S # {}, Good(S \ {Elt(S)})
      PROVE  Good(S)
  <2> DEFINE e == Elt(S)
             T == S \ {e}
  <2>1. e \in S /\ Cardinality(T) = Cardinality(S) - 1 /\ Cardinality(S) \in Nat
    BY <1>2, <1>4, EltRemoved
  <2>2. B[e] \in Nat /\ B[e] >= 1
    BY <2>1 DEF IsABag
  <2>3. g[S] = B[e] + g[T]
    BY <1>1, <1>4 DEF Adds
  <2>4. S = T \cup {e}
    BY <2>1
  <2>5. g[T] \in Nat /\ g[T] >= Cardinality(T) /\ (g[T] = Cardinality(T) <=> \A x \in T : B[x] = 1)
    BY <1>4
  <2> HIDE DEF e, T
  <2>6. g[S] = Cardinality(S) <=> B[e] = 1 /\ g[T] = Cardinality(T)
    BY <2>1, <2>2, <2>3, <2>5
  <2>7. (\A x \in S : B[x] = 1) <=> B[e] = 1 /\ \A x \in T : B[x] = 1
    BY <2>4
  <2>8. g[S] \in Nat /\ g[S] >= Cardinality(S)
    BY <2>1, <2>2, <2>3, <2>5
  <2> QED BY <2>5, <2>6, <2>7, <2>8
<1> HIDE DEF Good
<1>5. Bad = {}
  <2> SUFFICES ASSUME Bad # {} PROVE FALSE
    OBVIOUS
  <2>1. Bad \subseteq Nat
    BY <1>2
  <2>2. Min(Bad) \in Bad /\ \A j \in Bad : Min(Bad) <= j
    BY <2>1, LeastIsIn
  <2>3. PICK S \in SUBSET D : ~Good(S) /\ Min(Bad) = Cardinality(S)
    BY <2>2
  <2>4. S # {}
    BY <1>3, <2>3
  <2>5. S \ {Elt(S)} \in SUBSET D /\ Cardinality(S \ {Elt(S)}) < Cardinality(S)
        /\ Cardinality(S) \in Nat /\ Cardinality(S \ {Elt(S)}) \in Nat
    BY <1>2, <2>4, EltRemoved
  <2>6. ~Good(S \ {Elt(S)})
    BY <1>4, <2>3, <2>4
  <2>7. Cardinality(S \ {Elt(S)}) \in Bad
    BY <2>5, <2>6
  <2>8. Min(Bad) <= Cardinality(S \ {Elt(S)})
    BY <2>2, <2>7
  <2> QED BY <2>3, <2>5, <2>8
<1>6. Good(D)
  BY <1>5
<1> QED BY <1>1, <1>6 DEF Good

\* A bag that holds all of T, and no more than there are in T, is T once.
LEMMA OnceEach ==
    ASSUME NEW B, IsABag(B), IsFiniteSet(DOMAIN B),
           NEW T \in SUBSET DOMAIN B, BagCardinality(B) = Cardinality(T)
    PROVE  B = [x \in T |-> 1]
<1>1. /\ IsFiniteSet(T) /\ Cardinality(T) <= Cardinality(DOMAIN B)
      /\ Cardinality(DOMAIN B) = Cardinality(T) => DOMAIN B = T
      /\ Cardinality(T) \in Nat /\ Cardinality(DOMAIN B) \in Nat
  BY FS_Subset, FS_CardinalityType
<1>2. BagCardinality(B) \in Nat /\ BagCardinality(B) >= Cardinality(DOMAIN B)
  BY CardinalityOfBag
<1>3. Cardinality(DOMAIN B) = Cardinality(T)
  BY <1>1, <1>2
<1>4. DOMAIN B = T /\ \A x \in T : B[x] = 1
  BY <1>1, <1>3, CardinalityOfBag
<1> QED BY <1>4 DEF IsABag

-----------------------------------------------------------------------------
(* Sequences of anything: the datagrams of the application *)

IsList(s) == \E S : s \in Seq(S)

LEMMA AppendToList ==
    ASSUME NEW s, IsList(s), NEW e
    PROVE  /\ IsList(Append(s, e)) /\ Len(s) \in Nat /\ Len(Append(s, e)) = Len(s) + 1
           /\ \A i \in 1 .. Len(s) : Append(s, e)[i] = s[i]
           /\ Append(s, e)[Len(s) + 1] = e
<1>1. PICK S : s \in Seq(S)
  BY DEF IsList
<1> DEFINE T == S \cup {e}
<1>2. s \in Seq(T) /\ e \in T
  BY <1>1
<1> HIDE DEF T
<1>3. Append(s, e) \in Seq(T)
  BY <1>2
<1> QED BY <1>2, <1>3 DEF IsList

LEMMA ConcatenateLists ==
    ASSUME NEW s, IsList(s), NEW n \in Nat, NEW t, t = [i \in 1 .. n |-> t[i]]
    PROVE  /\ IsList(s \o t) /\ Len(s) \in Nat /\ Len(s \o t) = Len(s) + n
           /\ \A i \in 1 .. Len(s) : (s \o t)[i] = s[i]
           /\ \A i \in 1 .. n : (s \o t)[Len(s) + i] = t[i]
<1>1. PICK S : s \in Seq(S)
  BY DEF IsList
<1> DEFINE T == S \cup {t[i] : i \in 1 .. n}
<1>2. s \in Seq(T)
  BY <1>1
<1>3. t \in [1 .. n -> T]
  OBVIOUS
<1> HIDE DEF T
<1>4. t \in Seq(T) /\ Len(t) = n
  BY <1>3
<1>5. s \o t \in Seq(T) /\ Len(s \o t) = Len(s) + n /\ Len(s) \in Nat
  BY <1>2, <1>4
<1>6. \A i \in 1 .. Len(s) : (s \o t)[i] = s[i]
  BY <1>2, <1>4
<1>7. ASSUME NEW i \in 1 .. n PROVE (s \o t)[Len(s) + i] = t[i]
  <2>1. Len(s) + i \in 1 .. Len(s) + Len(t) /\ Len(s) + i > Len(s) /\ (Len(s) + i) - Len(s) = i
    BY <1>4, <1>5
  <2> QED BY <1>2, <1>4, <1>5, <2>1
<1> QED BY <1>5, <1>6, <1>7 DEF IsList

-----------------------------------------------------------------------------
(* What reaches the application was sent *)

\* The slices a message is cut into, whatever sequence they travel with.
Slices(m) == {[msg |-> m, num |-> k, total |-> Payloads[m]] : k \in 0 .. Payloads[m] - 1}

SliceSent(x) == x.msg \in Messages /\ sentAs[x.msg] # 0 /\ x \in Slices(x.msg)

\* A sequence that holds slices of sent messages, of however many and however
\* often.
OfSentSlices(x) ==
    /\ IsFiniteSet(DOMAIN x.held)
    /\ \A y \in DOMAIN x.held : SliceSent(y)
    /\ SliceSent(x.first)

AsSent(d) ==
    d.op = "Data" =>
        \E m \in Messages :
            /\ sentAs[m] # 0
            /\ d.slices = [y \in Slices(m) |-> 1]
            /\ d.data = Beginning(m, d.length)

DeliveryInv ==
    /\ \A p \in wire : p.op = "Data" => SliceSent(SliceOf(p))
    /\ \A s \in DOMAIN storedSequences : sentAs[storedSequences[s]] # 0
    /\ \A i \in DOMAIN packets : ~packets[i].damaged => SliceSent(SliceOf(packets[i]))
    /\ IsFiniteSet(DOMAIN sequences)
    /\ \A s \in DOMAIN sequences : OfSentSlices(sequences[s])
    /\ IsList(buffer)
    /\ \A i \in 1 .. Len(buffer) : AsSent(buffer[i])

LEMMA SlicesOfPackets ==
    ASSUME NEW m \in Messages, NEW s
    PROVE  {SliceOf(p) : p \in PacketsOf(m, s)} = Slices(m)
<1>1. ASSUME NEW p \in PacketsOf(m, s) PROVE SliceOf(p) \in Slices(m)
  BY DEF SliceOf, PacketsOf, Slices
<1>2. ASSUME NEW k \in 0 .. Payloads[m] - 1
      PROVE  \E p \in PacketsOf(m, s) : SliceOf(p) = [msg |-> m, num |-> k, total |-> Payloads[m]]
  <2> DEFINE p == [op |-> "Data", msg |-> m, seq |-> s, num |-> k, total |-> Payloads[m],
                   damaged |-> FALSE]
  <2>1. p \in PacketsOf(m, s)
    BY DEF PacketsOf
  <2>2. SliceOf(p) = [msg |-> m, num |-> k, total |-> Payloads[m]]
    BY DEF SliceOf
  <2> QED BY <2>1, <2>2
<1> QED BY <1>1, <1>2 DEF Slices

LEMMA SlicesCounted ==
    ASSUME NEW m \in Messages
    PROVE  IsFiniteSet(Slices(m)) /\ Cardinality(Slices(m)) = Payloads[m]
<1> DEFINE n == Payloads[m]
           f == [k \in 0 .. n - 1 |-> [msg |-> m, num |-> k, total |-> n]]
<1>1. n \in Nat /\ n > 0
  BY ConnectionAssumption
<1>2. IsFiniteSet(0 .. n - 1) /\ Cardinality(0 .. n - 1) = n
  <2>1. IsFiniteSet(0 .. n - 1) /\ Cardinality(0 .. n - 1) = IF 0 > n - 1 THEN 0 ELSE (n - 1) - 0 + 1
    BY <1>1, FS_Interval
  <2> QED BY <1>1, <2>1
<1>3. f \in Surjection(0 .. n - 1, Slices(m))
  BY DEF Surjection, Slices
<1>4. f \in Injection(0 .. n - 1, Slices(m))
  <2>1. \A j, k \in 0 .. n - 1 : f[j] = f[k] => j = k
    OBVIOUS
  <2>2. f \in [0 .. n - 1 -> Slices(m)] /\ DOMAIN f = 0 .. n - 1
    BY <1>3 DEF Surjection
  <2> HIDE DEF f
  <2> QED BY <2>1, <2>2 DEF Injection, IsInjective
<1> QED BY <1>2, <1>3, <1>4, FS_Surjection

\* As many bytes as one of its slices has, copied from all of a message, are its
\* beginning: only its first slice has bytes that far in front.
LEMMA CopiedBegins ==
    ASSUME NEW m \in Messages, NEW y \in Slices(m)
    PROVE  Copied([z \in Slices(m) |-> 1], SliceLength(y)) = Beginning(m, SliceLength(y))
<1> DEFINE all == [z \in Slices(m) |-> 1]
           len == SliceLength(y)
           head == [msg |-> m, num |-> 0, total |-> Payloads[m]]
<1>1. /\ Payloads[m] \in Nat \ {0}
      /\ FullSlice \in Nat /\ LastSlice \in Nat /\ LastSlice < FullSlice
  BY ConnectionAssumption
<1>2. len \in Nat /\ len <= FullSlice
  BY <1>1 DEF SliceLength
<1>3. head \in Slices(m)
  BY <1>1 DEF Slices
<1>4. SliceLength(head) \in Nat /\ len <= SliceLength(head)
  <2>1. PICK k \in 0 .. Payloads[m] - 1 : y = [msg |-> m, num |-> k, total |-> Payloads[m]]
    BY DEF Slices
  <2>2. CASE Payloads[m] = 1
    BY <1>1, <2>1, <2>2 DEF SliceLength
  <2>3. CASE Payloads[m] # 1
    BY <1>1, <1>2, <2>3 DEF SliceLength
  <2> QED BY <2>2, <2>3
<1>5. ASSUME NEW k \in 0 .. len - 1 PROVE [msg |-> m, at |-> k] \in Copied(all, len)
  <2>1. k \in 0 .. SliceLength(head) - 1 /\ k < len /\ 0 * FullSlice + k = k
    BY <1>1, <1>2, <1>4
  <2>2. [msg |-> m, at |-> k] \in BytesOf(head)
    BY <2>1 DEF BytesOf
  <2> QED BY <1>3, <2>1, <2>2 DEF Copied
<1>6. ASSUME NEW b \in Copied(all, len) PROVE b \in Beginning(m, len)
  <2>1. PICK z \in Slices(m) : b \in BytesOf(z) /\ b.at < len
    BY DEF Copied
  <2>2. PICK n \in 0 .. Payloads[m] - 1 : z = [msg |-> m, num |-> n, total |-> Payloads[m]]
    BY DEF Slices
  <2>3. SliceLength(z) \in Nat
    BY <1>1 DEF SliceLength
  <2>4. PICK k \in 0 .. SliceLength(z) - 1 : b = [msg |-> z.msg, at |-> z.num * FullSlice + k]
    BY <2>1 DEF BytesOf
  <2>5. n \in Nat /\ k \in Nat /\ b = [msg |-> m, at |-> n * FullSlice + k] /\ n * FullSlice + k < len
    BY <1>1, <2>1, <2>2, <2>3, <2>4
  <2>6. n = 0
    <3>1. SUFFICES ASSUME n # 0 PROVE FALSE
      OBVIOUS
    <3>2. PICK r \in Nat : n = r + 1
      <4>1. n - 1 \in Nat /\ n = (n - 1) + 1
        BY <2>5, <3>1
      <4> QED BY <4>1
    <3>3. n * FullSlice = r * FullSlice + FullSlice /\ r * FullSlice \in Nat
      BY <1>1, <3>2
    <3> HIDE DEF len
    <3> QED BY <1>1, <1>2, <2>5, <3>3
  <2>7. b = [msg |-> m, at |-> k] /\ k \in 0 .. len - 1
    BY <1>1, <1>2, <2>5, <2>6
  <2> QED BY <2>7 DEF Beginning
<1> QED BY <1>5, <1>6 DEF Beginning

\* What was sent stays sent.
LEMMA SentStays ==
    ASSUME TypeInv, NEW m \in Messages, Send(m)
    PROVE  \A x \in Messages : (sentAs[x] # 0 => sentAs'[x] # 0) /\ sentAs'[m] # 0
BY ConnectionAssumption DEF Send, SequenceID, TypeInv, TypeOK

LEMMA SendDelivers ==
    ASSUME TypeInv, DeliveryInv, NEW m \in Messages, Send(m)
    PROVE  DeliveryInv'
<1> USE DEF DeliveryInv
<1>1. PICK s \in SeqIDs :
        /\ wire' = wire \cup PacketsOf(m, s)
        /\ storedSequences' =
              IF MultiPacket(m) /\ s \notin DOMAIN storedSequences
              THEN [t \in DOMAIN storedSequences \cup {s} |->
                       IF t = s THEN m ELSE storedSequences[t]]
              ELSE storedSequences
  BY DEF Send, SequenceID
<1>2. \A x : SliceSent(x) => SliceSent(x)'
  BY SentStays DEF SliceSent
<1>3. ASSUME NEW p \in PacketsOf(m, s) PROVE SliceSent(SliceOf(p))'
  <2>1. SliceOf(p) \in Slices(m) /\ SliceOf(p).msg = m
    BY SlicesOfPackets DEF SliceOf, PacketsOf
  <2> QED BY <2>1, SentStays DEF SliceSent
<1>4. \A p \in wire' : p.op = "Data" => SliceSent(SliceOf(p))'
  BY <1>1, <1>2, <1>3
<1>5. \A t \in DOMAIN storedSequences' : sentAs'[storedSequences'[t]] # 0
  BY <1>1, SentStays DEF TypeInv, TypeOK
<1>6. UNCHANGED <<packets, sequences, buffer>>
  BY DEF Send
<1>7. \A d : AsSent(d) => AsSent(d)'
  BY SentStays DEF AsSent
<1>8. \A x : OfSentSlices(x) => OfSentSlices(x)'
  BY <1>2 DEF OfSentSlices
<1> QED BY <1>2, <1>4, <1>5, <1>6, <1>7, <1>8 DEF SliceOf

LEMMA RetransmitDelivers ==
    ASSUME TypeInv, DeliveryInv, NEW r \in wire, Retransmit(r)
    PROVE  DeliveryInv'
<1>1. UNCHANGED <<packets, sequences, buffer, sentAs, storedSequences>>
  BY DEF Retransmit, clientVars
<1>2. ASSUME NEW p \in wire', p \notin wire, p.op = "Data"
      PROVE  SliceSent(SliceOf(p))
  <2>1. Stored(r) /\ p \in PacketsOf(storedSequences[r.seq], r.seq)
    BY <1>2 DEF Retransmit, Control
  <2> DEFINE m == storedSequences[r.seq]
  <2>2. m \in Messages /\ sentAs[m] # 0
    BY <2>1 DEF Stored, TypeInv, TypeOK, DeliveryInv
  <2>3. SliceOf(p) \in Slices(m) /\ SliceOf(p).msg = m
    BY <2>1, <2>2, SlicesOfPackets DEF SliceOf, PacketsOf
  <2> QED BY <2>2, <2>3 DEF SliceSent
<1>3. \A x : SliceSent(x) => SliceSent(x)'
  BY <1>1 DEF SliceSent
<1>4. \A p \in wire' : p.op = "Data" => SliceSent(SliceOf(p))'
  BY <1>2, <1>3 DEF DeliveryInv
<1> QED BY <1>1, <1>4 DEF DeliveryInv, SliceSent, OfSentSlices, AsSent
\* Keep: a packet that is all of its message is told as it is, another is queued.
LEMMA PacketDelivers ==
    ASSUME TypeInv, DeliveryInv, NEW p \in Packet, AddPacket(p),
           p.op = "Data" => p.damaged \/ SliceSent(SliceOf(p)),
           p.total = 1 => ~p.damaged,
           p.op = "RetransmissionReply" => p.total = 1,
           wire' \subseteq wire, UNCHANGED clientVars
    PROVE  DeliveryInv'
<1> USE DEF DeliveryInv
<1>1. \A x : SliceSent(x)' <=> SliceSent(x)
  BY DEF SliceSent, clientVars
<1>2. \A d : AsSent(d)' <=> AsSent(d)
  BY DEF AsSent, clientVars
<1>3. \A x : OfSentSlices(x) => OfSentSlices(x)'
  BY <1>1 DEF OfSentSlices
<1>4. /\ IsFiniteSet(DOMAIN sequences') /\ \A s \in DOMAIN sequences' : OfSentSlices(sequences'[s])
  <2>1. DOMAIN sequences' \subseteq DOMAIN sequences
        /\ \A s \in DOMAIN sequences' : sequences'[s] = sequences[s]
    BY DEF AddPacket, ForgetSequence, RetireRequest, Restrict
  <2> QED BY <2>1, FS_Subset
<1>5. CASE UNCHANGED <<packets, buffer>>
  BY <1>1, <1>2, <1>3, <1>4, <1>5 DEF clientVars, SliceOf
<1>6. CASE p.op \in {"Data", "RetransmissionReply"} /\ Keep(p) /\ p.total = 1
  <2> DEFINE d == Datagram(p.op, SetToBag({SliceOf(p)}), SliceLength(p))
  <2>1. buffer' = Append(buffer, d) /\ packets' = packets
    BY <1>6 DEF Keep
  <2>2. AsSent(d)
    <3> SUFFICES ASSUME p.op = "Data"
                 PROVE  \E m \in Messages : /\ sentAs[m] # 0 /\ d.slices = [y \in Slices(m) |-> 1]
                                             /\ d.data = Beginning(m, d.length)
      BY DEF AsSent, Datagram
    <3>1. SliceSent(SliceOf(p)) /\ SliceOf(p).msg = p.msg /\ SliceOf(p).total = 1
      BY <1>6 DEF SliceOf
    <3>2. p.msg \in Messages /\ sentAs[p.msg] # 0 /\ SliceOf(p) \in Slices(p.msg)
      BY <3>1 DEF SliceSent
    <3>3. Payloads[p.msg] = 1
      BY <3>1, <3>2 DEF Slices
    <3>4. Slices(p.msg) = {SliceOf(p)}
      BY <3>2, <3>3 DEF Slices
    <3>5. d.slices = [y \in Slices(p.msg) |-> 1]
      BY <3>4 DEF Datagram, SetToBag
    <3>6. d.data = Copied(d.slices, SliceLength(SliceOf(p))) /\ d.length = SliceLength(SliceOf(p))
      BY DEF Datagram, SliceLength, SliceOf
    <3>7. d.data = Beginning(p.msg, d.length)
      BY <3>2, <3>5, <3>6, CopiedBegins
    <3> QED BY <3>2, <3>5, <3>7
  <2> HIDE DEF d
  <2>3. IsList(buffer') /\ \A j \in 1 .. Len(buffer') : AsSent(buffer'[j])
    <3>1. /\ IsList(buffer') /\ Len(buffer) \in Nat /\ Len(buffer') = Len(buffer) + 1
          /\ \A j \in 1 .. Len(buffer) : buffer'[j] = buffer[j]
          /\ buffer'[Len(buffer) + 1] = d
      BY <2>1, AppendToList
    <3>2. \A j \in 1 .. Len(buffer') : j \in 1 .. Len(buffer) \/ j = Len(buffer) + 1
      BY <3>1
    <3> QED BY <2>2, <3>1, <3>2
  <2> QED BY <1>1, <1>2, <1>3, <1>4, <2>1, <2>3 DEF clientVars, SliceOf
<1>7. CASE p.op \in {"Data", "RetransmissionReply"} /\ Keep(p) /\ p.total # 1
  <2>1. packets' = Append(packets, p) /\ buffer' = buffer /\ p.op = "Data"
    <3>1. packets' = Append(packets, p) /\ buffer' = buffer
      BY <1>7 DEF Keep
    <3>2. p.op # "RetransmissionReply"
      BY <1>7
    <3> QED BY <1>7, <3>1, <3>2
  <2>2. packets \in Seq(Packet)
    BY DEF TypeInv, TypeOK, ConnTypeOK
  <2>3. /\ DOMAIN packets' = 1 .. Len(packets) + 1 /\ DOMAIN packets = 1 .. Len(packets)
        /\ Len(packets) \in Nat
        /\ \A j \in 1 .. Len(packets) : packets'[j] = packets[j]
        /\ packets'[Len(packets) + 1] = p
    BY <2>1, <2>2
  <2>4. \A j \in DOMAIN packets' : j \in DOMAIN packets \/ j = Len(packets) + 1
    BY <2>3
  <2>5. \A j \in DOMAIN packets' : ~packets'[j].damaged => SliceSent(SliceOf(packets'[j]))
    BY <2>1, <2>3, <2>4
  <2> QED BY <1>1, <1>2, <1>3, <1>4, <2>1, <2>5 DEF clientVars, SliceOf
<1>8. UNCHANGED <<packets, buffer>> \/ (p.op \in {"Data", "RetransmissionReply"} /\ Keep(p))
  BY DEF AddPacket, RetireRequest, ForgetSequence
<1> QED BY <1>5, <1>6, <1>7, <1>8

-----------------------------------------------------------------------------
(* An update of the connection *)

LEMMA ArrivedIsFinite ==
    ASSUME packets \in Seq(Packet), NEW s
    PROVE  /\ IsFiniteSet(Arrived(s))
           /\ IsFiniteSet(DOMAIN BagOf(Arrived(s)))
           /\ IsFiniteSet(Arriving)
<1> DEFINE I == Arrived(s)
<1>1. IsFiniteSet(DOMAIN packets)
  BY FS_Interval
<1>2. IsFiniteSet(I)
  BY <1>1, ArrivedType, FS_Subset
<1>3. [i \in I |-> SliceOf(packets[i])] \in Surjection(I, DOMAIN BagOf(I))
  BY DEF Surjection, BagOf
<1>4. IsFiniteSet(DOMAIN BagOf(I))
  BY <1>2, <1>3, FS_Surjection
<1> DEFINE named == {packets[i].seq : i \in DOMAIN packets}
<1>5. [i \in DOMAIN packets |-> packets[i].seq] \in Surjection(DOMAIN packets, named)
  BY DEF Surjection
<1>6. IsFiniteSet(named)
  BY <1>1, <1>5, FS_Surjection
<1>7. Arriving \subseteq named
  BY DEF Arriving, Arrived
<1> QED BY <1>2, <1>4, <1>6, <1>7, FS_Subset

LEMMA IngestedOfSentSlices ==
    ASSUME TypeInv, DeliveryInv
    PROVE  /\ IsFiniteSet(DOMAIN Ingested)
           /\ \A s \in DOMAIN Ingested : OfSentSlices(Ingested[s])
<1>1. packets \in Seq(Packet) /\ ConnTypeOK
  BY DEF TypeInv, TypeOK, ConnTypeOK
<1>2. IsFiniteSet(DOMAIN Ingested)
  BY <1>1, IngestedType, ArrivedIsFinite, FS_Union DEF DeliveryInv
<1>3. ASSUME NEW s, NEW i \in Arrived(s) PROVE SliceSent(SliceOf(packets[i]))
  BY DEF DeliveryInv, Arrived
<1>4. ASSUME NEW s, NEW x, IsABag(x.held), IsFiniteSet(DOMAIN x.held),
             \A y \in DOMAIN x.held : SliceSent(y), SliceSent(x.first),
             x = [total |-> x.total, first |-> x.first, held |-> x.held,
                  missing |-> x.missing, hard |-> x.hard]
      PROVE  OfSentSlices(WithPackets(x, Arrived(s)))
  <2> DEFINE I == Arrived(s)
             w == WithPackets(x, I)
  <2>1. w.held = x.held (+) BagOf(I) /\ w.first = x.first
    BY <1>4 DEF WithPackets
  <2>2. DOMAIN w.held = DOMAIN x.held \cup DOMAIN BagOf(I)
    BY <2>1 DEF (+)
  <2>3. \A y \in DOMAIN BagOf(I) : SliceSent(y)
    BY <1>3 DEF BagOf
  <2>4. IsFiniteSet(DOMAIN w.held)
    BY <1>1, <1>4, <2>2, ArrivedIsFinite, FS_Union
  <2> HIDE DEF w, I
  <2>5. OfSentSlices(w)
    BY <1>4, <2>1, <2>2, <2>3, <2>4 DEF OfSentSlices
  <2> QED BY <2>5 DEF w, I
<1>5. ASSUME NEW s \in DOMAIN sequences
      PROVE  OfSentSlices(WithPackets(sequences[s], Arrived(s)))
  <2>1. IsSequence(sequences[s]) /\ OfSentSlices(sequences[s])
    BY <1>1 DEF ConnTypeOK, DeliveryInv
  <2> QED BY <1>4, <2>1 DEF IsSequence, OfSentSlices
<1>6. ASSUME NEW s \in Arriving
      PROVE  OfSentSlices(WithPackets(NewSequence(packets[Min(Arrived(s))]), Arrived(s)))
  <2> DEFINE p == packets[Min(Arrived(s))]
             x == NewSequence(p)
  <2>1. SliceSent(SliceOf(p))
    BY <1>1, <1>3, LeastIsIn, ArrivedType DEF Arriving
  <2>2. x.held = EmptyBag /\ x.first = SliceOf(p)
        /\ x = [total |-> x.total, first |-> x.first, held |-> x.held,
                missing |-> x.missing, hard |-> x.hard]
    BY DEF NewSequence
  <2>3. IsABag(EmptyBag) /\ DOMAIN EmptyBag = {}
    BY DEF EmptyBag, SetToBag, IsABag
  <2> HIDE DEF x, p
  <2>4. OfSentSlices(WithPackets(x, Arrived(s)))
    BY <1>4, <2>1, <2>2, <2>3, FS_EmptySet
  <2> QED BY <2>4 DEF x, p
<1>7. ASSUME NEW s \in DOMAIN Ingested PROVE OfSentSlices(Ingested[s])
  <2>1. CASE s \in DOMAIN sequences
    <3>1. Ingested[s] = WithPackets(sequences[s], Arrived(s))
      BY <2>1 DEF Ingested
    <3> QED BY <1>5, <2>1, <3>1
  <2>2. CASE s \notin DOMAIN sequences
    <3>1. s \in Arriving
      BY <1>1, <2>2, IngestedType
    <3>2. Ingested[s] = WithPackets(NewSequence(packets[Min(Arrived(s))]), Arrived(s))
      BY <2>2, <3>1 DEF Ingested
    <3> QED BY <1>6, <3>1, <3>2
  <2> QED BY <2>1, <2>2
<1> QED BY <1>2, <1>7

\* A search for gaps leaves what is held alone; the packet in front is one of them.
LEMMA SearchedHolds ==
    ASSUME NEW x, IsSequence(x)
    PROVE  /\ Searched(x).held = x.held /\ Searched(x).hard = x.hard
           /\ Searched(x).first = x.first \/ Searched(x).first \in DOMAIN x.held
<1> DEFINE lowest == CHOOSE y \in DOMAIN x.held : \A z \in DOMAIN x.held : y.num <= z.num
<1>1. lowest \in DOMAIN x.held
  BY LowestIsHeld
<1>2. CASE Held(x) <= 1
  BY <1>2 DEF Searched
<1>3. CASE ~(Held(x) <= 1)
  <2>1. Searched(x) = [x EXCEPT !.first = lowest, !.missing = @ \cup Gaps(x)]
    BY <1>3 DEF Searched
  <2> HIDE DEF lowest
  <2>2. Searched(x) = [total |-> x.total, first |-> lowest, held |-> x.held,
                       missing |-> x.missing \cup Gaps(x), hard |-> x.hard]
    BY <2>1 DEF IsSequence
  <2> QED BY <1>1, <2>2
<1> QED BY <1>2, <1>3

\* Of slices of sent messages, as many as one message has and with all of its
\* numbers, nothing else can be made than that message.
LEMMA CompleteAndIntact ==
    ASSUME NEW x, IsSequence(x), OfSentSlices(x), Complete(x), Intact(x)
    PROVE  AsSent(Assembled(x))
<1> DEFINE m == x.first.msg
<1>1. m \in Messages /\ sentAs[m] # 0 /\ x.first \in Slices(m)
  BY DEF OfSentSlices, SliceSent
<1>2. x.first.total = Payloads[m] /\ x.total = Payloads[m]
      /\ \A k \in 0 .. Payloads[m] - 1 :
           [x.first EXCEPT !.num = k] = [msg |-> m, num |-> k, total |-> Payloads[m]]
  BY <1>1 DEF Slices, Intact
<1>3. Slices(m) \subseteq DOMAIN x.held
  <2>1. ASSUME NEW k \in 0 .. Payloads[m] - 1
        PROVE  [msg |-> m, num |-> k, total |-> Payloads[m]] \in DOMAIN x.held
    <3>1. [x.first EXCEPT !.num = k] \in DOMAIN x.held
      BY <1>2 DEF Intact
    <3> QED BY <1>2, <3>1
  <2> HIDE DEF m
  <2> QED BY <2>1 DEF Slices
<1>4. BagCardinality(x.held) = Payloads[m]
  BY <1>2 DEF Complete, Held
<1>5. BagCardinality(x.held) = Cardinality(Slices(m))
  BY <1>1, <1>4, SlicesCounted
<1>6. x.held = [y \in Slices(m) |-> 1]
  BY <1>3, <1>5, OnceEach DEF IsSequence, OfSentSlices
<1>7. Copied(x.held, SliceLength(x.first)) = Beginning(m, SliceLength(x.first))
  BY <1>1, <1>6, CopiedBegins
<1> QED BY <1>1, <1>6, <1>7 DEF AsSent, Assembled, Datagram

LEMMA UpdateDelivers ==
    ASSUME TypeInv, DeliveryInv, UpdateSequences, UNCHANGED clientVars
    PROVE  DeliveryInv'
<1> DEFINE complete == {s \in DOMAIN Ingested : Complete(Ingested[s])}
           delivered == {s \in complete : Intact(Ingested[s])}
           finished == complete \cup {s \in DOMAIN Ingested : HardExpired(Ingested[s])}
           told(order) == [i \in DOMAIN order |-> Assembled(Ingested[order[i]])]
<1>1. ConnTypeOK /\ IsList(buffer) /\ \A i \in 1 .. Len(buffer) : AsSent(buffer[i])
  BY DEF TypeInv, TypeOK, DeliveryInv
<1>2. PICK order \in [1 .. Cardinality(delivered) -> delivered] : buffer' = buffer \o told(order)
  BY DEF UpdateSequences, PushAssembled
<1>3. Cardinality(delivered) \in Nat
  <2>1. IsFiniteSet(delivered)
    BY IngestedOfSentSlices, FS_Subset
  <2> QED BY <2>1, FS_CardinalityType
<1>4. \A s \in delivered : AsSent(Assembled(Ingested[s]))
  BY <1>1, IngestedType, IngestedOfSentSlices, CompleteAndIntact
<1>5. /\ packets' = <<>>
      /\ sequences' = [s \in DOMAIN Ingested \ finished |-> Searched(Ingested[s])]
      /\ wire' = wire \cup RequestMessages(RequestsAfter(Ingested, finished))
                      \cup {[op |-> "Ack", seq |-> s] : s \in complete}
  BY DEF UpdateSequences
<1> HIDE DEF complete, finished, delivered
<1>6. /\ IsList(buffer') /\ \A j \in 1 .. Len(buffer') : AsSent(buffer'[j])
  <2> DEFINE n == Cardinality(delivered)
             t == told(order)
  <2>1. t = [i \in 1 .. n |-> t[i]] /\ \A i \in 1 .. n : AsSent(t[i])
    BY <1>2, <1>4
  <2>6. n \in Nat
    BY <1>3
  <2>7. buffer' = buffer \o t
    BY <1>2
  <2> HIDE DEF t, n
  <2>2. n \in Nat /\ buffer' = buffer \o t
    BY <2>6, <2>7
  <2>3. /\ IsList(buffer') /\ Len(buffer) \in Nat /\ Len(buffer') = Len(buffer) + n
        /\ \A i \in 1 .. Len(buffer) : buffer'[i] = buffer[i]
        /\ \A i \in 1 .. n : buffer'[Len(buffer) + i] = t[i]
    <3>1. t = [i \in 1 .. n |-> t[i]]
      BY <2>1
    <3> DEFINE c == buffer \o t
    <3>2. /\ IsList(c) /\ Len(buffer) \in Nat /\ Len(c) = Len(buffer) + n
          /\ \A i \in 1 .. Len(buffer) : c[i] = buffer[i]
          /\ \A i \in 1 .. n : c[Len(buffer) + i] = t[i]
      BY <1>1, <2>2, <3>1, ConcatenateLists
    <3>3. buffer' = c
      BY <2>2
    <3> HIDE DEF c
    <3> QED BY <3>2, <3>3
  <2>4. ASSUME NEW j \in 1 .. Len(buffer') PROVE AsSent(buffer'[j])
    <3>1. CASE j \in 1 .. Len(buffer)
      BY <1>1, <2>3, <3>1
    <3>2. CASE j \notin 1 .. Len(buffer)
      <4>1. j - Len(buffer) \in 1 .. n /\ j = Len(buffer) + (j - Len(buffer))
        BY <2>2, <2>3, <3>2
      <4>2. buffer'[j] = t[j - Len(buffer)]
        BY <2>3, <4>1
      <4> QED BY <2>1, <4>1, <4>2
    <3> QED BY <3>1, <3>2
  <2> QED BY <2>3, <2>4
<1>7. \A x : SliceSent(x)' <=> SliceSent(x)
  BY DEF SliceSent, clientVars
<1>8. \A d : AsSent(d)' <=> AsSent(d)
  BY DEF AsSent, clientVars
<1>9. /\ IsFiniteSet(DOMAIN sequences') /\ \A s \in DOMAIN sequences' : OfSentSlices(sequences'[s])
  <2>1. DOMAIN sequences' \subseteq DOMAIN Ingested
    BY <1>5
  <2>2. ASSUME NEW s \in DOMAIN sequences' PROVE OfSentSlices(sequences'[s])
    <3>1. IsSequence(Ingested[s]) /\ OfSentSlices(Ingested[s]) /\ sequences'[s] = Searched(Ingested[s])
      BY <1>1, <1>5, <2>1, IngestedType, IngestedOfSentSlices
    <3> QED BY <3>1, SearchedHolds DEF OfSentSlices
  <2> QED BY <2>1, <2>2, IngestedOfSentSlices, FS_Subset
<1>10. \A p \in wire' : p.op = "Data" => SliceSent(SliceOf(p))
  BY <1>5 DEF DeliveryInv, RequestMessages
<1> QED BY <1>5, <1>6, <1>7, <1>8, <1>9, <1>10 DEF DeliveryInv, OfSentSlices, SliceOf, clientVars

\* The update that gives the peer up, and its goodbye, tell of themselves only.
LEMMA NoticeDelivers ==
    ASSUME DeliveryInv, NEW op, op # "Data", buffer' = Append(buffer, Notice(op)),
           UNCHANGED <<packets, sequences>> \/ (packets' = <<>> /\ sequences' = <<>>),
           wire' = wire, UNCHANGED clientVars
    PROVE  DeliveryInv'
<1> USE DEF DeliveryInv
<1>1. AsSent(Notice(op))
  BY DEF AsSent, Notice, Datagram
<1>2. IsList(buffer') /\ \A j \in 1 .. Len(buffer') : AsSent(buffer'[j])
  <2>1. /\ IsList(buffer') /\ Len(buffer) \in Nat /\ Len(buffer') = Len(buffer) + 1
        /\ \A j \in 1 .. Len(buffer) : buffer'[j] = buffer[j]
        /\ buffer'[Len(buffer) + 1] = Notice(op)
    BY AppendToList
  <2>2. \A j \in 1 .. Len(buffer') : j \in 1 .. Len(buffer) \/ j = Len(buffer) + 1
    BY <2>1
  <2> QED BY <1>1, <2>1, <2>2
<1>3. /\ \A x : SliceSent(x)' <=> SliceSent(x)
      /\ \A d : AsSent(d)' <=> AsSent(d)
  BY DEF SliceSent, AsSent, clientVars
<1>4. DOMAIN <<>> = {}
  OBVIOUS
<1> QED BY <1>2, <1>3, <1>4, FS_EmptySet DEF clientVars, OfSentSlices, SliceOf

LEMMA DeliveryStep ==
    ASSUME TypeInv, DeliveryInv, [Next]_vars
    PROVE  DeliveryInv'
<1>1. ASSUME NEW m \in Messages, Send(m) PROVE DeliveryInv'
  BY <1>1, SendDelivers
<1>2. ASSUME NEW r \in wire, Retransmit(r) PROVE DeliveryInv'
  BY <1>2, RetransmitDelivers
<1>3. ASSUME NEW p \in wire, Receive(p) PROVE DeliveryInv'
  <2>1. p \in Packet /\ ~p.damaged /\ p.op \in {"Data", "RetransmissionImpossible"}
    BY <1>3 DEF Receive, TypeInv, WireOK
  <2> QED BY <1>3, <2>1, PacketDelivers DEF Receive, Consumed, DeliveryInv
<1>4. ASSUME NEW p \in wire, ReceiveDamaged(p) PROVE DeliveryInv'
  <2> DEFINE q == [p EXCEPT !.damaged = TRUE]
  <2>1. p \in Packet /\ p.op = "Data" /\ p.total > 1
    BY <1>4 DEF ReceiveDamaged, TypeInv, WireOK
  <2>2. q \in Packet /\ q.damaged /\ q.op = "Data" /\ q.total = p.total
    BY <2>1 DEF Packet
  <2>3. AddPacket(q) /\ wire' \subseteq wire /\ UNCHANGED clientVars
    BY <1>4 DEF ReceiveDamaged, Consumed
  <2>4. q.total # 1
    BY <2>1, <2>2 DEF Packet
  <2> HIDE DEF q
  <2> QED BY <2>2, <2>3, <2>4, PacketDelivers
<1>5. ASSUME NEW op \in Builtins, NEW s \in SeqIDs, NEW k \in PacketNums, ReceiveBuiltin(op, s, k)
      PROVE  DeliveryInv'
  <2>1. op \in OpCodes /\ op # "Data" /\ k \in Nat
    BY TransferAssumption, ConnectionAssumption DEF OpCodes, PacketNums
  <2> DEFINE q == Control(op, s, k)
  <2>2. q \in Packet /\ q.total = 1 /\ ~q.damaged /\ q.op # "Data"
    BY <2>1, ControlType DEF Control
  <2>3. AddPacket(q) /\ wire' = wire /\ UNCHANGED clientVars
    BY <1>5 DEF ReceiveBuiltin
  <2> HIDE DEF q
  <2> QED BY <2>2, <2>3, PacketDelivers
<1>6. CASE KeepAlive
  <2> DEFINE q == Control("KeepAlive", 0, 0)
  <2>1. q \in Packet /\ q.total = 1 /\ ~q.damaged /\ q.op # "Data"
    BY DEF Control, Packet, OpCodes
  <2>2. AddPacket(q) /\ wire' = wire /\ UNCHANGED clientVars
    BY <1>6 DEF KeepAlive
  <2> HIDE DEF q
  <2> QED BY <2>1, <2>2, PacketDelivers
<1>7. CASE Disconnect
  BY <1>7, NoticeDelivers DEF Disconnect
<1>8. CASE Update /\ UNCHANGED clientVars
  <2>1. ASSUME NEW op \in {"Disconnect", "TimedOut", "Lost"}, CloseConnection(op)
        PROVE  DeliveryInv'
    BY <1>8, <2>1, NoticeDelivers DEF CloseConnection
  <2> QED BY <1>8, <2>1, UpdateDelivers DEF Update
<1>9. CASE (Tick /\ UNCHANGED clientVars) \/ UNCHANGED vars
  <2>1. UNCHANGED <<packets, sequences, buffer, wire, clientVars>>
    BY <1>9 DEF Tick, vars, connVars
  <2> QED BY <2>1 DEF DeliveryInv, clientVars, SliceSent, OfSentSlices, AsSent
<1> QED BY <1>1, <1>2, <1>3, <1>4, <1>5, <1>6, <1>7, <1>8, <1>9 DEF Next

LEMMA DeliveryInit == Init => DeliveryInv
<1> SUFFICES ASSUME Init PROVE DeliveryInv
  OBVIOUS
<1>1. DOMAIN <<>> = {} /\ <<>> \in Seq({}) /\ Len(<<>>) = 0
  OBVIOUS
<1>2. IsList(buffer) /\ Len(buffer) = 0
  BY <1>1 DEF Init, ConnInit, IsList
<1> QED BY <1>1, <1>2, FS_EmptySet DEF Init, ConnInit, DeliveryInv

\* However many messages and slices there are, and whatever the network drops,
\* repeats, reorders and damages, with sequence identifiers used twice or not:
\* the count of packets and the CRC of PacketSequence::update let nothing reach
\* the application but the beginning of a message the client sent, copied from
\* that message alone, each slice once.
THEOREM DataIsAsSent == Spec => []DeliveredAsSent
<1>1. DeliveryInv => DeliveredAsSent
  <2>1. ASSUME IsList(buffer) PROVE DOMAIN buffer = 1 .. Len(buffer)
    BY <2>1 DEF IsList
  <2>2. ASSUME NEW m \in Messages PROVE WholeMessage(m) = [y \in Slices(m) |-> 1]
    BY SlicesOfPackets DEF WholeMessage
  <2> SUFFICES ASSUME DeliveryInv, NEW i \in DOMAIN buffer, buffer[i].op = "Data"
               PROVE  \E m \in Messages : /\ sentAs[m] # 0 /\ buffer[i].slices = WholeMessage(m)
                                           /\ buffer[i].data = Beginning(m, buffer[i].length)
    BY DEF DeliveredAsSent
  <2>3. AsSent(buffer[i])
    BY <2>1 DEF DeliveryInv
  <2>4. PICK m \in Messages : /\ sentAs[m] # 0 /\ buffer[i].slices = [y \in Slices(m) |-> 1]
                              /\ buffer[i].data = Beginning(m, buffer[i].length)
    BY <2>3 DEF AsSent
  <2>5. buffer[i].slices = WholeMessage(m)
    BY <2>2, <2>4
  <2> QED BY <2>4, <2>5
<1> QED BY <1>1, TypeInvInit, TypeInvStep, DeliveryInit, DeliveryStep, PTL DEF Spec
-----------------------------------------------------------------------------
(* When the conversion wraps, every sequence is past its end when created *)

LEMMA OneHasNoFactor ==
    ASSUME NEW F \in Nat, F > 1, NEW z \in Int PROVE F * z # 1
<1>1. CASE z >= 1
  <2>1. PICK d \in Nat : z = 1 + d
    <3>1. z - 1 \in Nat /\ z = 1 + (z - 1)
      BY <1>1
    <3> QED BY <3>1
  <2>2. F * z = F + F * d /\ F * d \in Nat
    BY <2>1
  <2> QED BY <2>2
<1>2. CASE z <= 0
  <2>1. PICK d \in Nat : z = -d
    <3>1. -z \in Nat /\ z = -(-z)
      BY <1>2
    <3> QED BY <3>1
  <2>2. F * z = -(F * d) /\ F * d \in Nat
    BY <2>1
  <2> QED BY <2>2
<1> QED BY <1>1, <1>2

LEMMA Division ==
    ASSUME NEW n \in Nat, n > 0, NEW t \in Int
    PROVE  t \div n \in Int /\ t % n \in 0 .. n - 1 /\ t = n * (t \div n) + (t % n)
<1>1. t % n = t - n * (t \div n)
  OBVIOUS
<1>2. t \div n \in Int /\ n * (t \div n) \in Int
  OBVIOUS
<1>3. t % n \in 0 .. n - 1
  OBVIOUS
<1> QED BY <1>1, <1>2, <1>3

LEMMA CoarseRemainder ==
    ASSUME NEW F \in Nat, F > 1, NEW k \in Nat \ {0}, NEW t \in Nat
    PROVE  (t - (t % F)) % (k * F) # k * F - 1
<1>1. PICK q \in Int : t - (t % F) = F * q
  <2>1. t - (t % F) = F * (t \div F)
    <3>1. t \div F \in Int /\ t % F \in Int /\ t = F * (t \div F) + (t % F)
      BY Division
    <3>2. ASSUME NEW b \in Int, NEW r \in Int, t = b + r PROVE t - r = b
      BY <3>2
    <3>3. F * (t \div F) \in Int
      BY <3>1
    <3> QED BY <3>1, <3>2, <3>3
  <2>2. t \div F \in Int
    BY Division
  <2> QED BY <2>1, <2>2
<1>2. k * F \in Nat /\ k * F > 0
  OBVIOUS
<1>3. F * q \in Int
  OBVIOUS
<1>4. PICK r \in Int : F * q = (k * F) * r + ((F * q) % (k * F))
  BY <1>2, <1>3, Division
<1>5. SUFFICES ASSUME (F * q) % (k * F) = k * F - 1 PROVE FALSE
  BY <1>1
<1>6. F * q = (k * F) * r + (k * F) - 1
  BY <1>2, <1>4, <1>5
<1>7. F * (k * r + k - q) = 1
  <2>1. k * r \in Int /\ k * r + k - q \in Int
    OBVIOUS
  <2>2. F * (k * r + k - q) = F * (k * r) + F * k - F * q
    BY <2>1
  <2>3. F * (k * r) = (k * F) * r /\ F * k = k * F
    OBVIOUS
  <2> QED BY <1>6, <2>2, <2>3
<1>8. k * r + k - q \in Int
  OBVIOUS
<1> QED BY <1>7, <1>8, OneHasNoFactor

\* In the code WordSize is 2^32 and FloatStep 2^17: a float of that size is a
\* multiple of its step, and so is what is left of it in 32 bits.
FloatsAreCoarse == FloatStep > 1 /\ \E k \in Nat \ {0} : WordSize = k * FloatStep

HardInv == \A s \in DOMAIN sequences : sequences[s].hard # Never

LEMMA NewSequenceEnds ==
    ASSUME FloatsAreCoarse, ~Saturates, now \in Nat, NEW p
    PROVE  NewSequence(p).hard # Never
<1>1. PICK k \in Nat \ {0} : WordSize = k * FloatStep
  BY DEF FloatsAreCoarse
<1>2. FloatStep \in Nat /\ FloatStep > 1 /\ now + Lifetime \in Nat
  BY ConnectionAssumption DEF FloatsAreCoarse
<1> DEFINE t == now + Lifetime
<1>3. (t - (t % FloatStep)) % (k * FloatStep) # k * FloatStep - 1
  BY <1>1, <1>2, CoarseRemainder
<1> QED BY <1>1, <1>3 DEF NewSequence, FloatToUint32, ToUint32, Never

LEMMA IngestedEnds ==
    ASSUME FloatsAreCoarse, ~Saturates, TypeInv, HardInv
    PROVE  \A s \in DOMAIN Ingested : Ingested[s].hard # Never
<1>1. ConnTypeOK /\ now \in Nat
  BY ConnectionAssumption DEF TypeInv, TypeOK, ConnTypeOK
<1>2. ASSUME NEW x, NEW I, x = [total |-> x.total, first |-> x.first, held |-> x.held,
                                missing |-> x.missing, hard |-> x.hard]
      PROVE  WithPackets(x, I).hard = x.hard
  BY <1>2 DEF WithPackets
<1>3. ASSUME NEW s \in DOMAIN sequences
      PROVE  WithPackets(sequences[s], Arrived(s)).hard # Never
  <2>1. IsSequence(sequences[s])
    BY <1>1 DEF ConnTypeOK
  <2> QED BY <1>2, <2>1 DEF HardInv, IsSequence
<1>4. ASSUME NEW p, NEW I
      PROVE  WithPackets(NewSequence(p), I).hard # Never
  <2> DEFINE x == NewSequence(p)
  <2>1. x = [total |-> x.total, first |-> x.first, held |-> x.held,
             missing |-> x.missing, hard |-> x.hard]
    BY DEF NewSequence
  <2>2. x.hard # Never
    BY <1>1, NewSequenceEnds
  <2> HIDE DEF x
  <2>3. WithPackets(x, I).hard # Never
    BY <1>2, <2>1, <2>2
  <2> QED BY <2>3 DEF x
<1> QED BY <1>3, <1>4 DEF Ingested

\* Only a lagging connection looks past the end of a sequence.
LEMMA NothingCompletes ==
    ASSUME FloatsAreCoarse, ~Saturates, TypeInv, HardInv, ~isLagging,
           NEW s \in DOMAIN Ingested
    PROVE  ~Complete(Ingested[s])
<1>1. Ingested[s].hard \in 0 .. WordSize - 1 /\ Ingested[s].hard # Never
  BY IngestedType, IngestedEnds DEF TypeInv, TypeOK, IsSequence
<1>2. Epoch <= now /\ now \in Nat
  BY ConnectionAssumption DEF TypeInv, TypeOK, ConnTypeOK
<1>3. Ingested[s].hard < now
  BY <1>1, <1>2, ConnectionAssumption
<1> QED BY <1>1, <1>3 DEF Complete, HardExpired

LEMMA SmallBags ==
    ASSUME NEW x
    PROVE  BagCardinality(EmptyBag) = 0 /\ BagCardinality(SetToBag({x})) = 1
<1>1. IsABag(EmptyBag) /\ DOMAIN EmptyBag = {}
  BY DEF EmptyBag, SetToBag, IsABag
<1>2. IsABag(SetToBag({x})) /\ DOMAIN SetToBag({x}) = {x} /\ SetToBag({x})[x] = 1
  BY DEF SetToBag, IsABag
<1>3. BagCardinality(EmptyBag) = 0
  <2>1. IsFiniteSet({}) /\ Cardinality({}) = 0
    BY FS_EmptySet
  <2>2. BagCardinality(EmptyBag) = Cardinality(DOMAIN EmptyBag)
    BY <1>1, <2>1, CardinalityOfBag
  <2> QED BY <1>1, <2>1, <2>2
<1>4. BagCardinality(SetToBag({x})) = 1
  <2>1. IsFiniteSet({x}) /\ Cardinality({x}) = 1
    BY FS_Singleton
  <2>2. BagCardinality(SetToBag({x})) = Cardinality(DOMAIN SetToBag({x}))
    BY <1>2, <2>1, CardinalityOfBag
  <2> QED BY <1>2, <2>1, <2>2
<1> QED BY <1>3, <1>4

LEMMA AppendAssemblesNot ==
    ASSUME IsList(buffer), NEW d, BagCardinality(d.slices) \in {0, 1},
           buffer' = Append(buffer, d)
    PROVE  ~Assembles
<1>1. /\ Len(buffer) \in Nat /\ Len(buffer') = Len(buffer) + 1
      /\ buffer'[Len(buffer) + 1] = d
  BY AppendToList
<1>2. \A i \in Len(buffer) + 1 .. Len(buffer') : i = Len(buffer) + 1
  BY <1>1
<1>3. ~(BagCardinality(d.slices) > 1)
  OBVIOUS
<1> QED BY <1>1, <1>2, <1>3 DEF Assembles

LEMMA SilentAssemblesNot ==
    ASSUME IsList(buffer), UNCHANGED buffer
    PROVE  ~Assembles
<1>1. Len(buffer) \in Nat
  BY DEF IsList
<1>2. Len(buffer) + 1 .. Len(buffer) = {}
  BY <1>1
<1> QED BY <1>2 DEF Assembles

LEMMA PacketAssemblesNot ==
    ASSUME IsList(buffer), NEW p, AddPacket(p)
    PROVE  ~Assembles
<1>1. CASE UNCHANGED buffer
  BY <1>1, SilentAssemblesNot
<1>2. CASE buffer' = Append(buffer, Datagram(p.op, SetToBag({SliceOf(p)}), SliceLength(p)))
  <2> DEFINE d == Datagram(p.op, SetToBag({SliceOf(p)}), SliceLength(p))
  <2>1. d.slices = SetToBag({SliceOf(p)})
    BY DEF Datagram
  <2>2. BagCardinality(d.slices) \in {0, 1}
    BY <2>1, SmallBags
  <2> HIDE DEF d
  <2>3. buffer' = Append(buffer, d)
    BY <1>2 DEF d
  <2> QED BY <2>2, <2>3, AppendAssemblesNot
<1> QED BY <1>1, <1>2 DEF AddPacket, Keep, ForgetSequence, RetireRequest

LEMMA NoticeAssemblesNot ==
    ASSUME IsList(buffer), NEW op, buffer' = Append(buffer, Notice(op))
    PROVE  ~Assembles
<1>1. Notice(op).slices = EmptyBag
  BY DEF Notice, Datagram
<1>2. BagCardinality(Notice(op).slices) \in {0, 1}
  BY <1>1, SmallBags
<1> QED BY <1>2, AppendAssemblesNot

LEMMA UpdateAssembles ==
    ASSUME FloatsAreCoarse, ~Saturates, TypeInv, HardInv, IsList(buffer),
           ~isLagging, UpdateSequences
    PROVE  ~Assembles
<1> DEFINE complete == {s \in DOMAIN Ingested : Complete(Ingested[s])}
           delivered == {s \in complete : Intact(Ingested[s])}
<1>1. delivered = {}
  BY NothingCompletes
<1>2. PICK order \in [1 .. Cardinality(delivered) -> delivered] :
         buffer' = buffer \o [i \in DOMAIN order |-> Assembled(Ingested[order[i]])]
  BY DEF UpdateSequences, PushAssembled
<1> DEFINE t == [i \in DOMAIN order |-> Assembled(Ingested[order[i]])]
<1>3. DOMAIN order = 1 .. 0
  BY <1>1, <1>2, FS_EmptySet
<1>4. t = [i \in 1 .. 0 |-> t[i]] /\ buffer' = buffer \o t
  BY <1>2, <1>3
<1> HIDE DEF t
<1>5. Len(buffer) \in Nat /\ Len(buffer \o t) = Len(buffer) + 0
  BY <1>4, ConcatenateLists
<1>6. Len(buffer) + 1 .. Len(buffer') = {}
  BY <1>4, <1>5
<1> QED BY <1>6 DEF Assembles

LEMMA HardStep ==
    ASSUME FloatsAreCoarse, ~Saturates, TypeInv, HardInv, [Next]_vars
    PROVE  HardInv'
<1>1. ASSUME UNCHANGED sequences PROVE HardInv'
  BY <1>1 DEF HardInv, Never
<1>2. CASE Update
  <2>1. ASSUME NEW op, CloseConnection(op) PROVE HardInv'
    BY <2>1 DEF CloseConnection, HardInv
  <2>2. CASE UpdateSequences
    <3>1. \A s \in DOMAIN sequences' :
             s \in DOMAIN Ingested /\ sequences'[s] = Searched(Ingested[s])
      BY <2>2 DEF UpdateSequences
    <3>2. \A s \in DOMAIN Ingested : Searched(Ingested[s]).hard = Ingested[s].hard
      BY IngestedType, SearchedHolds DEF TypeInv, TypeOK
    <3> QED BY <3>1, <3>2, IngestedEnds DEF HardInv, Never
  <2> QED BY <1>2, <2>1, <2>2 DEF Update
<1>3. ASSUME NEW p, AddPacket(p) PROVE HardInv'
  <2>1. DOMAIN sequences' \subseteq DOMAIN sequences
        /\ \A s \in DOMAIN sequences' : sequences'[s] = sequences[s]
    BY <1>3 DEF AddPacket, ForgetSequence, RetireRequest, Restrict
  <2> QED BY <2>1 DEF HardInv, Never
<1> QED BY <1>1, <1>2, <1>3 DEF Next, Send, Retransmit, Receive, ReceiveDamaged,
        ReceiveBuiltin, KeepAlive, Disconnect, Tick, vars, connVars

LEMMA LaggingStep ==
    ASSUME FloatsAreCoarse, ~Saturates, TypeInv, HardInv, IsList(buffer),
           ~isLagging, [Next]_vars
    PROVE  ~Assembles
<1>1. CASE Update
  <2>1. ASSUME NEW op, CloseConnection(op) PROVE ~Assembles
    BY <2>1, NoticeAssemblesNot DEF CloseConnection
  <2> QED BY <1>1, <2>1, UpdateAssembles DEF Update
<1>2. CASE Disconnect
  BY <1>2, NoticeAssemblesNot DEF Disconnect
<1>3. ASSUME NEW p, AddPacket(p) PROVE ~Assembles
  BY <1>3, PacketAssemblesNot
<1>4. CASE UNCHANGED buffer
  BY <1>4, SilentAssemblesNot
<1> QED BY <1>1, <1>2, <1>3, <1>4 DEF Next, Send, Retransmit, Receive, ReceiveDamaged,
        ReceiveBuiltin, KeepAlive, Tick, vars, connVars

\* On a processor whose conversion wraps no message of several packets reaches
\* the application but over a connection that lags: for every word and float
\* in which a multiple of FloatStep cannot be the value m_hardExpiration is
\* compared with, and however long a sequence is meant to live.
THEOREM OnlyLaggingAssembles == FloatsAreCoarse /\ Spec => OnlyLaggingDelivers
<1> SUFFICES ASSUME FloatsAreCoarse PROVE Spec => OnlyLaggingDelivers
  OBVIOUS
<1>1. CASE Saturates
  <2>1. [Next]_vars => [~Saturates /\ Assembles => isLagging]_vars
    BY <1>1
  <2> QED BY <2>1, PTL DEF Spec, OnlyLaggingDelivers
<1>2. CASE ~Saturates
  <2>1. Init => HardInv
    BY DEF Init, ConnInit, HardInv
  <2>2. TypeInv /\ HardInv /\ [Next]_vars => HardInv'
    BY <1>2, HardStep
  <2>3. TypeInv /\ HardInv /\ DeliveryInv /\ [Next]_vars
           => [~Saturates /\ Assembles => isLagging]_vars
    BY <1>2, LaggingStep DEF DeliveryInv
  <2> QED BY <2>1, <2>2, <2>3, TypeInvInit, TypeInvStep, DeliveryInit, DeliveryStep, PTL
          DEF Spec, OnlyLaggingDelivers
<1> QED BY <1>1, <1>2
=============================================================================
