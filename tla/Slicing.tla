------------------------------- MODULE Slicing -------------------------------
(***************************************************************************)
(* How Network::send (net/Network.cpp) cuts a message into packets, and    *)
(* which of them Network::listenLoop of the other side lets through.       *)
(*                                                                         *)
(* A packet is the part of the message it holds.  Lengths are below 2^31,  *)
(* where none of the C++ types of the code overflows.                      *)
(***************************************************************************)
EXTENDS Integers, Sequences, SequencesExt

CONSTANTS
    PACKET_MAX_SIZE,        \* 1000
    PACKET_HEADER_SIZE,     \* 39
    PACKET_MIN_RCV_SIZE,    \* 40
    Lengths                 \* the values of dataLength

PACKET_DATA_SIZE == PACKET_MAX_SIZE - PACKET_HEADER_SIZE

ASSUME SlicingAssumption ==
    /\ PACKET_MAX_SIZE \in Nat /\ PACKET_HEADER_SIZE \in Nat
    /\ PACKET_MIN_RCV_SIZE \in Nat
    /\ PACKET_DATA_SIZE > 0
    /\ Lengths \subseteq Nat \ {0}

VARIABLES
    dataLength,
    payloads, leftoverSlice, sliceLength, position, p,  \* locals of send()
    packets,        \* the slices made so far
    abandoned,      \* numbers of packets the receiver threw away
    pc              \* "count", "slice" or "sent"

vars == <<dataLength, payloads, leftoverSlice, sliceLength, position, p, packets,
          abandoned, pc>>

\* Mutation of TooLarge: the header is forgotten.
TooLargeForPacket(len) == len > PACKET_MAX_SIZE

TooLarge(len) == len + PACKET_HEADER_SIZE > PACKET_MAX_SIZE

\* Mutation of PayloadCount: nothing is added for the remainder.
FullPayloads(len) == len \div PACKET_DATA_SIZE

PayloadCount(len) == (len \div PACKET_DATA_SIZE) + 1

\* send() up to its loop.
CountPayloads ==
    /\ pc = "count"
    /\ IF TooLarge(dataLength)
       THEN /\ payloads' = PayloadCount(dataLength)
            /\ leftoverSlice' = dataLength - PACKET_DATA_SIZE * (dataLength \div PACKET_DATA_SIZE)
       ELSE payloads' = 1 /\ leftoverSlice' = 0
    /\ sliceLength' = IF payloads' = 1 THEN dataLength ELSE PACKET_DATA_SIZE
    /\ pc' = "slice"
    /\ UNCHANGED <<dataLength, position, p, packets, abandoned>>

\* Mutation of IsLeftover: off by one.
IsPastLast == payloads > 1 /\ p = payloads

IsLeftover == payloads > 1 /\ p + 1 = payloads

\* One round of the loop.
MakeSlice ==
    /\ pc = "slice" /\ p < payloads
    /\ sliceLength' = IF IsLeftover THEN leftoverSlice ELSE sliceLength
    /\ packets' = Append(packets, [offset |-> position, length |-> sliceLength'])
    /\ position' = position + sliceLength'
    /\ p' = p + 1
    /\ UNCHANGED <<dataLength, payloads, leftoverSlice, abandoned, pc>>

QueuePackets ==
    /\ pc = "slice" /\ p = payloads
    /\ pc' = "sent"
    /\ UNCHANGED <<dataLength, payloads, leftoverSlice, sliceLength, position, p, packets,
                   abandoned>>

\* What serializeOut makes of the packet, and the socket reads.
Size(k) == PACKET_HEADER_SIZE + packets[k].length

\* The listen thread abandons a packet that is too small, whenever it arrives.
Abandon(k) ==
    /\ pc = "sent"
    /\ Size(k) <= PACKET_MIN_RCV_SIZE
    /\ abandoned' = abandoned \cup {k}
    /\ UNCHANGED <<dataLength, payloads, leftoverSlice, sliceLength, position, p, packets, pc>>

Init ==
    /\ dataLength \in Lengths
    /\ payloads = 1 /\ leftoverSlice = 0 /\ sliceLength = 0
    /\ position = 0 /\ p = 0
    /\ packets = <<>> /\ abandoned = {}
    /\ pc = "count"

Next == CountPayloads \/ MakeSlice \/ QueuePackets \/ \E k \in DOMAIN packets : Abandon(k)

Spec == Init /\ [][Next]_vars

-----------------------------------------------------------------------------
(* Properties *)

\* memcpy never reads past the end of the message: the warning about a
\* misaligned slice length is never logged, whatever the length.
InBounds ==
    \A k \in DOMAIN packets : packets[k].offset + packets[k].length <= dataLength

\* Every slice fits the packet that carries it: the constructor of Packet, which
\* leaves a packet that is too large without its content, never refuses one.
FitsPacket ==
    \A k \in DOMAIN packets : packets[k].length \in 0 .. PACKET_DATA_SIZE

\* Whatever is copied is the message's, and fits.
SlicesSound == InBounds /\ FitsPacket

\* The slices put one after the other are the message, without a gap or an
\* overlap: each begins where the one before ends, the last ends where it does.
End(k) == IF k = 0 THEN 0 ELSE packets[k].offset + packets[k].length

CoversMessage ==
    /\ \A k \in DOMAIN packets : packets[k].offset = End(k - 1)
    /\ pc = "sent" => End(Len(packets)) = dataLength
=============================================================================
