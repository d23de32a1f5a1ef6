----------------------------- MODULE Connection -----------------------------
(***************************************************************************)
(* One peer's NetConnection as the server keeps it (net/Connection.cpp)    *)
(* with the PacketSequences it assembles (net/PacketSequence.cpp).         *)
(*                                                                         *)
(* Both Connection::addPacket and Connection::update run on the update     *)
(* thread of NetworkServer, so each is one action.  What is abstracted:    *)
(*   - the payload of a packet is the message it is a slice of (msg) and   *)
(*     its number; a CRC tells any two byte strings apart;                 *)
(*   - the ten latency samples are replaced by their effect: an estimator  *)
(*     update leaves any of Latencies and any of RetryTimeouts;            *)
(*   - m_retryThreshold is a uint32_t compared with a time in ms since     *)
(*     1970, so the test at PacketSequence.cpp:109 always passes.          *)
(* Times are counted in ticks of the 500 ms connUpdate timer.              *)
(***************************************************************************)
EXTENDS Integers, Sequences, FiniteSetsExt, Functions, Bags

CONSTANTS
    SeqIDs,         \* sequence identifiers, the keys of the ordered maps
    Messages,       \* what the application of the peer sends
    NoMsg,          \* the payload of a packet that carries none
    Payloads,       \* [Messages -> Nat]: packets a message is sliced into
    FullSlice,      \* PACKET_DATA_SIZE, the length of all slices but the last
    LastSlice,      \* the length of the last slice
    Latencies,      \* the values the latency estimate takes
    RetryTimeouts,  \* the values the estimator gives m_retryTimeout
    RetryLimit,     \* 10000 ms, Connection.cpp:21
    LostAfter,      \* 15000 ms, Connection.cpp:27
    ExpireAfter,    \* 5000 ms, Connection.cpp:94
    Lifetime,       \* what a new sequence adds to its time of creation
    WordSize,       \* 2^32: m_expiredSequences and m_hardExpiration are uint32_t
    FloatStep,      \* the distance between two floats at the epoch (2^17 ms)
    Saturates,      \* float to uint32_t: TRUE clamps (ARM), FALSE wraps (x86-64)
    Epoch,          \* the time at which the connection is created
    TickLength,     \* 500 ms, the connUpdate timer, NetworkServer.cpp:62
    LastTime,       \* bound on the clock
    MaxQueued,      \* bound on the packets that wait for one update
    MaxBuffered     \* bound on the datagrams, which the application never takes

ASSUME ConnectionAssumption ==
    /\ SeqIDs \subseteq Nat \ {0}
    /\ NoMsg \notin Messages
    /\ Payloads \in [Messages -> Nat \ {0}]
    /\ FullSlice \in Nat /\ LastSlice \in 0 .. FullSlice - 1
    /\ Latencies \subseteq Int
    /\ RetryTimeouts \subseteq Nat
    /\ RetryLimit \in Nat /\ LostAfter \in Nat
    /\ ExpireAfter \in Nat /\ Lifetime \in Nat
    /\ WordSize \in Nat \ {0} /\ FloatStep \in Nat \ {0}
    /\ Saturates \in BOOLEAN
    /\ Epoch \in Nat /\ WordSize <= Epoch   \* 2^32 ms passed in February 1970
    /\ TickLength \in Nat \ {0} /\ LastTime \in Nat /\ Epoch <= LastTime
    /\ MaxQueued \in Nat /\ MaxBuffered \in Nat

VARIABLES
    now,                \* Time::nowMS()
    connUpdate,         \* connUpdate.isExpired(): an update is due
    status,             \* "open", "removed" by the server, or "threw"
    isClosing,          \* m_isClosing
    isLagging,          \* m_isLagging
    latency,            \* m_latency, -1 when not yet measured
    retryTimeout,       \* m_retryTimeout
    lastArrival,        \* m_lastArrival
    packets,            \* m_packets
    sequences,          \* m_sequences
    expiredSequences,   \* m_expiredSequences
    retryRequests,      \* m_retryRequests
    buffer,             \* *m_buffer: datagrams for the application
    wire                \* packets in flight, in both directions

clock == <<now, connUpdate>>
estimators == <<isLagging, latency, retryTimeout, lastArrival>>
connVars == <<now, connUpdate, status, isClosing, isLagging, latency,
              retryTimeout, lastArrival, packets, sequences,
              expiredSequences, retryRequests, buffer, wire>>

-----------------------------------------------------------------------------
(* Packets, slices and datagrams *)

\* OP_ConnectionDisconnect is not among them: the update loops of the server
\* and of the client handle it before addPacket.  "Data" is any other op code.
OpCodes == {"Data", "KeepAlive", "Ack", "RetransmissionAck",
            "RetransmissionImpossible", "RetransmissionReply"}

Packet == [op : OpCodes, msg : Messages \cup {NoMsg}, seq : SeqIDs \cup {0},
           num : Nat, total : Nat, damaged : BOOLEAN]

Request == [op : {"RetransmissionRequest"}, seq : SeqIDs, num : Nat]

Slice == [msg : Messages \cup {NoMsg}, num : Nat, total : Nat]

SliceOf(p) == [msg |-> p.msg, num |-> p.num, total |-> p.total]

SliceLength(x) == IF x.num = x.total - 1 THEN LastSlice ELSE FullSlice

(* A PacketSequence.  held is m_packets without its order, which matters    *)
(* only for m_packets[0]: the packet that came first, until a sort puts    *)
(* the lowest number there.                                                *)
IsSequence(x) ==
    /\ x = [total |-> x.total, first |-> x.first, held |-> x.held,
             missing |-> x.missing, hard |-> x.hard]
    /\ x.total \in Nat /\ x.first \in Slice
    /\ IsABag(x.held) /\ DOMAIN x.held \subseteq Slice
    /\ DOMAIN x.held # {}
    /\ x.missing \subseteq Nat /\ x.hard \in 0 .. WordSize - 1

RetryRequest == [seq : SeqIDs, num : Nat, next : Nat]

\* The bytes of a slice, each with its place in the message.
BytesOf(y) == {[msg |-> y.msg, at |-> y.num * FullSlice + k] : k \in 0 .. SliceLength(y) - 1}

\* memcpy of the first len bytes of the slices, laid end to end.
Copied(slices, len) == {b \in UNION {BytesOf(y) : y \in DOMAIN slices} : b.at < len}

\* What the application takes out of the buffer: data, of the length it is told.
\* slices is what they were copied from, which goes no further.
Datagram(op, source, len) ==
    [op |-> op, slices |-> source, data |-> Copied(source, len), length |-> len]

Notice(op) == Datagram(op, EmptyBag, 0)

-----------------------------------------------------------------------------
(* Arithmetic of the 32-bit time fields *)

Untruncated(t) == t   \* mutation of ToUint32: a 64-bit field

ToUint32(t) == t % WordSize

\* Mutation of FloatToUint32: a 64-bit field.
FloatToUint64(t) == IF Saturates THEN WordSize - 1 ELSE t - (t % FloatStep)

\* The constructor adds a float to the time and converts the sum to uint32_t,
\* which cannot hold it: the outcome is the one of the processor.
FloatToUint32(t) ==
    IF Saturates THEN WordSize - 1 ELSE ToUint32(t - (t % FloatStep))

Never == WordSize - 1   \* m_hardExpiration != -1

-----------------------------------------------------------------------------
(* Connection::calculateLatency: the first call only measures.  A later one  *)
(* notes the arrival and, unless told not to, updates the estimators.        *)
(* m_prevLatency is 0 from construction on, so 0.75 * m_prevLatency is 0.    *)

CalculateLatency(updateEstimators) ==
    \/ /\ latency = -1
       /\ latency' \in Latencies
       /\ UNCHANGED <<lastArrival, retryTimeout, isLagging>>
    \/ /\ latency # -1
       /\ lastArrival' = now
       /\ IF updateEstimators
          THEN /\ latency' \in Latencies
               /\ retryTimeout' \in RetryTimeouts
               /\ isLagging' = (isLagging /\ latency' > 0)
          ELSE UNCHANGED <<latency, retryTimeout, isLagging>>

\* A packet worth keeping goes straight to the application when it is the
\* only one of its sequence, and waits for the next update otherwise.
Keep(p) ==
    IF p.total = 1
    THEN /\ buffer' = Append(buffer, Datagram(p.op, SetToBag({SliceOf(p)}), SliceLength(p)))
         /\ UNCHANGED packets
    ELSE /\ packets' = Append(packets, p)
         /\ UNCHANGED buffer

\* OP_Ack and OP_RetransmissionImpossible
ForgetSequence(p) ==
    /\ retryRequests' = {r \in retryRequests : r.seq # p.seq}
    /\ sequences' = Restrict(sequences, DOMAIN sequences \ {p.seq})
    /\ UNCHANGED <<estimators, packets, buffer>>

\* OP_RetransmissionAck: find() returns one of the requests of the sequence,
\* which goes if it is about that packet.
RetireRequest(p) ==
    /\ LET Found == {r \in retryRequests : r.seq = p.seq}
       IN \/ /\ Found = {}
             /\ UNCHANGED retryRequests
          \/ \E r \in Found :
                retryRequests' = IF r.num = p.num THEN retryRequests \ {r}
                                                  ELSE retryRequests
    /\ UNCHANGED <<estimators, packets, sequences, buffer>>

\* Connection::addPacket
AddPacket(p) ==
    /\ status = "open"
    /\ \/ /\ p.op = "RetransmissionReply"
          /\ CalculateLatency(FALSE)
          /\ Keep(p)
          /\ UNCHANGED <<sequences, retryRequests>>
       \/ /\ p.op = "RetransmissionAck"
          /\ RetireRequest(p)
       \/ /\ p.op \in {"Ack", "RetransmissionImpossible"}
          /\ ForgetSequence(p)
       \/ /\ p.op = "KeepAlive"
          /\ CalculateLatency(TRUE)
          /\ UNCHANGED <<packets, sequences, retryRequests, buffer>>
       \/ /\ p.op = "Data"
          /\ CalculateLatency(TRUE)
          /\ Keep(p)
          /\ UNCHANGED <<sequences, retryRequests>>
    /\ UNCHANGED <<clock, status, isClosing, expiredSequences>>

\* Connection::setClosed
SetClosed == isClosing' = TRUE

-----------------------------------------------------------------------------
(* PacketSequence: what a sequence holds, misses and becomes *)

Held(x) == BagCardinality(x.held)

\* Where in m_packets are the packets that addPacket of the sequence gets.
Arrived(s) == {i \in DOMAIN packets : packets[i].seq = s /\ ~packets[i].damaged}

Arriving == {s \in SeqIDs : Arrived(s) # {}}

BagOf(indices) ==
    [x \in {SliceOf(packets[i]) : i \in indices} |->
        Cardinality({i \in indices : SliceOf(packets[i]) = x})]

\* The constructor, given the first packet of the sequence to be looked at.
NewSequence(p) ==
    [total |-> p.total, first |-> SliceOf(p), held |-> EmptyBag,
     missing |-> {}, hard |-> FloatToUint32(now + Lifetime)]

\* Duplicates are added like any other packet.
WithPackets(x, indices) == [x EXCEPT !.held = @ (+) BagOf(indices)]

\* m_sequences after the loop over m_packets.
Ingested ==
    [s \in DOMAIN sequences \cup Arriving |->
        IF s \in DOMAIN sequences
        THEN WithPackets(sequences[s], Arrived(s))
        ELSE WithPackets(NewSequence(packets[Min(Arrived(s))]), Arrived(s))]

\* m_sequences.at() of a sequence that is only in m_expiredSequences.
OutOfRange ==
    \E s \in Arriving : s \notin DOMAIN sequences /\ s \in DOMAIN expiredSequences

\* Mutation of HardExpired: the comparison swapped.
HardExpiresLater(x) == x.hard > now /\ x.hard # Never /\ ~isLagging

HardExpired(x) == x.hard < now /\ x.hard # Never /\ ~isLagging

Complete(x) == ~HardExpired(x) /\ Held(x) > 1 /\ Held(x) = x.total

Unchecked(x) == TRUE   \* mutation of Intact: no CRC check

\* The CRC of the concatenated slices is that of the message of m_packets[0].
Intact(x) ==
    /\ x.total = x.first.total
    /\ \A k \in 0 .. x.total - 1 : [x.first EXCEPT !.num = k] \in DOMAIN x.held

\* m_packets sorted by pktNum: the number of the packet at each index.
SortedNums(x) ==
    LET below(n) == FoldFunctionOnSet(+, 0, x.held, {y \in DOMAIN x.held : y.num < n})
    IN [i \in 0 .. Held(x) - 1 |->
          CHOOSE n \in {y.num : y \in DOMAIN x.held} : below(n) <= i /\ i < below(n + 1)]

\* The numbers the search for gaps comes up with.
Gaps(x) ==
    LET nums == SortedNums(x)
        offset[i \in 0 .. Held(x)] ==
            IF i = 0 THEN 0
            ELSE offset[i - 1] + (IF nums[i - 1] # i - 1 + offset[i - 1] THEN 1 ELSE 0)
    IN {i \in 0 .. Held(x) - 1 : nums[i] # i + offset[i]}

\* PacketSequence::update when neither expired nor complete: the sort leaves
\* a lowest-numbered packet in front, the gaps are remembered.
Searched(x) ==
    IF Held(x) <= 1 THEN x
    ELSE [x EXCEPT
            !.first = CHOOSE y \in DOMAIN x.held : \A z \in DOMAIN x.held : y.num <= z.num,
            !.missing = @ \cup Gaps(x)]

NewGaps(x) == IF Held(x) <= 1 THEN {} ELSE Gaps(x) \ x.missing

-----------------------------------------------------------------------------
(* Connection::update *)

\* Mutation of GivesUp: no limit to the silence.
NeverLost(op) ==
    \/ isClosing /\ op = "Disconnect"
    \/ ~isClosing /\ retryTimeout > RetryLimit /\ op = "TimedOut"

\* The reasons to give the connection up, with the datagram each leaves.  The
\* server never creates a connection without a buffer, the fourth one.
GivesUp(op) ==
    \/ isClosing /\ op = "Disconnect"
    \/ ~isClosing /\ retryTimeout > RetryLimit /\ op = "TimedOut"
    \/ /\ ~isClosing /\ retryTimeout <= RetryLimit
       /\ now > lastArrival /\ now - lastArrival > LostAfter
       /\ op = "Lost"

CloseConnection(op) ==
    /\ GivesUp(op)
    /\ buffer' = Append(buffer, Notice(op))
    /\ status' = "removed"
    /\ packets' = <<>>
    /\ sequences' = <<>>
    /\ expiredSequences' = <<>>
    /\ retryRequests' = {}
    /\ connUpdate' = FALSE
    /\ UNCHANGED <<now, isClosing, estimators, wire>>

\* An entry is stored with 32 bits of its time; insert keeps an older entry.
Expire(finished) ==
    LET entry(s) == IF s \in DOMAIN expiredSequences THEN expiredSequences[s]
                                                     ELSE ToUint32(now + ExpireAfter)
        all == DOMAIN expiredSequences \cup finished
    IN  expiredSequences' = [s \in {t \in all : entry(t) >= now} |-> entry(s)]

\* Requests for damaged packets wait for the next update, those for gaps do not.
AllRequests(S, finished) ==
    LET damaged == {[seq |-> p.seq, num |-> p.num, next |-> now] :
                        p \in {q \in {packets[i] : i \in DOMAIN packets} : q.damaged}}
        gaps == UNION {{[seq |-> s, num |-> n, next |-> 0] : n \in NewGaps(S[s])} :
                           s \in DOMAIN S \ finished}
    IN  retryRequests \cup damaged \cup gaps

RequestsAfter(S, finished) == {r \in AllRequests(S, finished) : r.seq \notin finished}

\* Every request whose time has come is sent; one that was sent before means
\* the connection lags, and its time never moves on.
RequestRetransmissions(requests) ==
    LET due == {r \in requests : r.next < now}
        lagging == \E r \in due : r.next # 0
    IN  /\ retryRequests' = {IF r.next = 0 THEN [r EXCEPT !.next = now + retryTimeout]
                                           ELSE r : r \in requests}
        /\ retryTimeout' = IF lagging THEN 2 * retryTimeout ELSE retryTimeout
        /\ isLagging' = (isLagging \/ lagging)
        /\ UNCHANGED <<latency, lastArrival>>

RequestMessages(requests) ==
    {[op |-> "RetransmissionRequest", seq |-> r.seq, num |-> r.num] :
        r \in {q \in requests : q.next < now}}

\* The dataLength of the packet in front, not the totalLength, is how much of the
\* assembled slices is copied into the datagram.
Assembled(x) == Datagram("Data", x.held, SliceLength(x.first))

\* Datagrams of one update are pushed in the order of their sequence numbers.
PushAssembled(S, delivered) ==
    \E order \in [1 .. Cardinality(delivered) -> delivered] :
        /\ \A i, j \in DOMAIN order : i < j => order[i] < order[j]
        /\ buffer' = buffer \o [i \in DOMAIN order |-> Assembled(S[order[i]])]

\* An exception would leave updateLoop, the entry function of its thread, and
\* end the server: what the rest of the update does then is of no account.
UpdateSequences ==
    LET S == Ingested
        complete == {s \in DOMAIN S : Complete(S[s])}
        finished == complete \cup {s \in DOMAIN S : HardExpired(S[s])}
        requests == RequestsAfter(S, finished)
    IN  /\ \A op \in {"Disconnect", "TimedOut", "Lost"} : ~GivesUp(op)
        /\ status' = IF OutOfRange THEN "threw" ELSE "open"
        /\ packets' = <<>>
        /\ sequences' = [s \in DOMAIN S \ finished |-> Searched(S[s])]
        /\ PushAssembled(S, {s \in complete : Intact(S[s])})
        /\ Expire(finished)
        /\ RequestRetransmissions(requests)
        /\ wire' = wire \cup RequestMessages(requests)
                        \cup {[op |-> "Ack", seq |-> s] : s \in complete}
        /\ connUpdate' = FALSE
        /\ UNCHANGED <<now, isClosing>>

Update ==
    /\ status = "open"
    /\ connUpdate
    /\ \/ \E op \in {"Disconnect", "TimedOut", "Lost"} : CloseConnection(op)
       \/ UpdateSequences

\* Time passes and the 500 ms timer of the update loop expires.
Tick ==
    /\ now + TickLength <= LastTime
    /\ now' = now + TickLength
    /\ connUpdate' = TRUE
    /\ UNCHANGED <<status, isClosing, estimators, packets, sequences,
                   expiredSequences, retryRequests, buffer, wire>>

-----------------------------------------------------------------------------
\* The connection as the server creates it for a connection request, whose
\* packet gave the first latency sample and the first datagram.
ConnInit ==
    /\ now = Epoch
    /\ connUpdate = FALSE
    /\ status = "open"
    /\ isClosing = FALSE
    /\ isLagging = FALSE
    /\ latency \in Latencies
    /\ retryTimeout = 0
    /\ lastArrival = Epoch
    /\ packets = <<>>
    /\ sequences = <<>>
    /\ expiredSequences = <<>>
    /\ retryRequests = {}
    /\ buffer = <<>>
    /\ wire = {}

ConnTypeOK ==
    /\ now \in Epoch .. LastTime
    /\ connUpdate \in BOOLEAN
    /\ status \in {"open", "removed", "threw"}
    /\ isClosing \in BOOLEAN /\ isLagging \in BOOLEAN
    /\ latency \in Latencies /\ retryTimeout \in Nat
    /\ lastArrival \in Epoch .. LastTime
    /\ packets \in Seq(Packet)
    /\ DOMAIN sequences \subseteq SeqIDs
    /\ \A s \in DOMAIN sequences : IsSequence(sequences[s])
    /\ DOMAIN expiredSequences \subseteq SeqIDs
    /\ retryRequests \subseteq RetryRequest
=============================================================================
