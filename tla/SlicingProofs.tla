---------------------------- MODULE SlicingProofs ----------------------------
(***************************************************************************)
(* That send() cuts a message of any length, for any sizes of packet and   *)
(* header, into slices that fit and cover it; and what holds of a pair of  *)
(* processes on one machine however often either begins anew, whatever     *)
(* they call and whenever they are killed.                                 *)
(***************************************************************************)
EXTENDS MCSlicing, TLAPS

D == PACKET_DATA_SIZE

-----------------------------------------------------------------------------
(* Arithmetic *)

LEMMA Sizes ==
    /\ D \in Nat \ {0} /\ PACKET_MAX_SIZE \in Nat /\ PACKET_HEADER_SIZE \in Nat
    /\ PACKET_MAX_SIZE = D + PACKET_HEADER_SIZE
BY SlicingAssumption DEF D, PACKET_DATA_SIZE

LEMMA Quotient ==
    ASSUME NEW n \in Nat, NEW d \in Nat \ {0}
    PROVE  /\ (n \div d) \in Nat
           /\ n - d * (n \div d) \in 0 .. d - 1
           /\ n >= d => (n \div d) >= 1
<1>1. (n \div d) \in Int /\ n % d \in 0 .. d - 1 /\ n = d * (n \div d) + (n % d)
  OBVIOUS
<1> QED BY <1>1

LEMMA AtLeastOne ==
    ASSUME NEW d \in Nat, NEW m \in Nat, m >= 1
    PROVE  d * m >= d
OBVIOUS

LEMMA Room ==
    ASSUME NEW n \in Int, NEW a \in Int, NEW b \in Int, NEW c \in Nat, NEW d \in Int,
           n = a + b + c, b >= d
    PROVE  a + d <= n
OBVIOUS

-----------------------------------------------------------------------------
(* The loop *)

TypeOK ==
    /\ dataLength \in Nat \ {0} /\ payloads \in Nat \ {0} /\ leftoverSlice \in Nat
    /\ sliceLength \in Nat /\ position \in Nat
    /\ p \in 0 .. payloads
    /\ packets \in Seq([offset : Nat, length : Nat])
    /\ pc \in {"count", "slice", "sent"}

\* Before the last slice the position is so far from the end of the message
\* that exactly the slices to come fit in between.
Remaining ==
    /\ pc = "count" => p = 0 /\ position = 0
    /\ pc # "count" /\ p < payloads =>
          IF payloads = 1
          THEN sliceLength = dataLength /\ position = 0 /\ dataLength <= D
          ELSE /\ sliceLength = D
               /\ leftoverSlice < D
               /\ dataLength = position + D * (payloads - 1 - p) + leftoverSlice
    /\ pc # "count" /\ p = payloads => position = dataLength
    /\ pc = "sent" => p = payloads

Made ==
    /\ Len(packets) = p
    /\ End(p) = position
    /\ position <= dataLength
    /\ \A k \in DOMAIN packets : packets[k].offset = End(k - 1)

LoopInv == TypeOK /\ Remaining /\ Made /\ InBounds /\ FitsPacket

LEMMA LoopInit == ASSUME Init PROVE LoopInv
BY SlicingAssumption DEF Init, LoopInv, TypeOK, Remaining, Made, InBounds, FitsPacket, End

LEMMA CountStep ==
    ASSUME LoopInv, CountPayloads
    PROVE  LoopInv'
<1> USE DEF LoopInv
<1>1. /\ UNCHANGED <<dataLength, position, p, packets>>
      /\ p = 0 /\ position = 0 /\ pc' = "slice"
      /\ sliceLength' = IF payloads' = 1 THEN dataLength ELSE PACKET_DATA_SIZE
  BY DEF CountPayloads, Remaining
<1>2. /\ dataLength \in Nat \ {0} /\ D \in Nat \ {0}
  BY Sizes DEF TypeOK
<1>3. CASE TooLarge(dataLength)
  <2>1. dataLength > D
    BY <1>2, <1>3, Sizes DEF TooLarge, TypeOK
  <2>2. /\ payloads' = (dataLength \div D) + 1
        /\ leftoverSlice' = dataLength - D * (dataLength \div D)
    BY <1>3 DEF CountPayloads, PayloadCount, D
  <2>3. /\ (dataLength \div D) \in Nat /\ (dataLength \div D) >= 1
        /\ leftoverSlice' \in 0 .. D - 1
    <3>1. dataLength \in Nat /\ dataLength >= D
      BY <1>2, <2>1
    <3> QED BY <1>2, <2>2, <3>1, Quotient
  <2>4. sliceLength' = D
    BY <1>1, <2>2, <2>3 DEF D
  <2>5. dataLength = D * (payloads' - 1 - 0) + leftoverSlice'
    BY <1>2, <2>2, <2>3
  <2>6. TypeOK'
    BY <1>1, <1>2, <2>2, <2>3, <2>4 DEF TypeOK
  <2>7. Remaining'
    BY <1>1, <1>2, <2>2, <2>3, <2>4, <2>5 DEF Remaining
  <2> QED BY <1>1, <2>6, <2>7 DEF Made, InBounds, FitsPacket, End
<1>4. CASE ~TooLarge(dataLength)
  <2>1. payloads' = 1 /\ leftoverSlice' = 0 /\ sliceLength' = dataLength
    BY <1>4 DEF CountPayloads
  <2>2. dataLength <= D
    BY <1>2, <1>4, Sizes DEF TooLarge
  <2>3. TypeOK'
    BY <1>1, <1>2, <2>1 DEF TypeOK
  <2>4. Remaining'
    BY <1>1, <1>2, <2>1, <2>2 DEF Remaining
  <2> QED BY <1>1, <2>3, <2>4 DEF Made, InBounds, FitsPacket, End
<1> QED BY <1>3, <1>4

LEMMA MakeStep ==
    ASSUME LoopInv, MakeSlice
    PROVE  LoopInv'
<1> USE DEF LoopInv
<1>1. /\ UNCHANGED <<dataLength, payloads, leftoverSlice, pc>>
      /\ p < payloads /\ p' = p + 1 /\ position' = position + sliceLength' /\ pc = "slice"
      /\ packets' = Append(packets, [offset |-> position, length |-> sliceLength'])
      /\ sliceLength' = IF payloads > 1 /\ p + 1 = payloads THEN leftoverSlice ELSE sliceLength
  BY DEF MakeSlice, IsLeftover
<1>2. TypeOK /\ Len(packets) = p /\ D \in Nat \ {0}
  BY Sizes DEF Made
<1>3. sliceLength' \in 0 .. D
  BY <1>1, <1>2 DEF TypeOK, Remaining
<1>4. position' <= dataLength /\ Remaining'
  <2>1. CASE payloads = 1
    <3>1. p = 0 /\ sliceLength' = dataLength /\ position = 0
      BY <1>1, <1>2, <2>1 DEF TypeOK, Remaining
    <3>2. position' = dataLength /\ p' = payloads
      BY <1>1, <1>2, <2>1, <3>1 DEF TypeOK
    <3>3. position' <= dataLength
      BY <1>2, <3>2 DEF TypeOK
    <3>4. Remaining'
      BY <1>1, <1>2, <2>1, <3>2 DEF TypeOK, Remaining
    <3> QED BY <3>3, <3>4
  <2>2. CASE payloads > 1 /\ p + 1 = payloads
    <3>1. dataLength = position + D * 0 + leftoverSlice
      <4>1. dataLength = position + D * (payloads - 1 - p) + leftoverSlice
        BY <1>1, <1>2, <2>2 DEF TypeOK, Remaining
      <4>2. payloads - 1 - p = 0
        BY <1>2, <2>2 DEF TypeOK
      <4> QED BY <4>1, <4>2
    <3>2. position' = dataLength
      BY <1>1, <1>2, <2>2, <3>1 DEF TypeOK
    <3> QED BY <1>1, <1>2, <2>2, <3>2 DEF TypeOK, Remaining
  <2>3. CASE payloads > 1 /\ p + 1 < payloads
    <3>1. /\ dataLength = position + D * (payloads - 1 - p) + leftoverSlice
          /\ sliceLength' = D /\ sliceLength = D /\ leftoverSlice < D
      BY <1>1, <1>2, <2>3 DEF TypeOK, Remaining
    <3>2. D * (payloads - 1 - p) = D + D * (payloads - 1 - (p + 1))
      BY <1>2 DEF TypeOK
    <3>3. payloads - 1 - p \in Nat /\ payloads - 1 - p >= 1
      BY <1>2, <2>3 DEF TypeOK
    <3>4. D * (payloads - 1 - p) >= D
      BY <1>2, <3>3, AtLeastOne
    <3>5. D * (payloads - 1 - p) \in Int /\ D * (payloads - 1 - (p + 1)) \in Int
      BY <1>2 DEF TypeOK
    <3>6. position' <= dataLength
      <4>1. position \in Int /\ leftoverSlice \in Nat /\ dataLength \in Int /\ D \in Int
        BY <1>2 DEF TypeOK
      <4>2. position + D <= dataLength
        BY <3>1, <3>4, <3>5, <4>1, Room
      <4> QED BY <1>1, <3>1, <4>2
    <3>7. dataLength = position' + D * (payloads - 1 - p') + leftoverSlice
      BY <1>1, <1>2, <3>1, <3>2, <3>5 DEF TypeOK
    <3> QED BY <1>1, <1>2, <2>3, <3>1, <3>6, <3>7 DEF TypeOK, Remaining
  <2> QED BY <1>1, <1>2, <2>1, <2>2, <2>3 DEF TypeOK
<1>5. TypeOK'
  BY <1>1, <1>2, <1>3 DEF TypeOK
<1>6. /\ DOMAIN packets = 1 .. p /\ DOMAIN packets' = 1 .. p + 1
      /\ packets'[p + 1] = [offset |-> position, length |-> sliceLength']
      /\ \A k \in 1 .. p : packets'[k] = packets[k]
  BY <1>1, <1>2 DEF TypeOK
<1>7. Made'
  <2>1. position' = IF p + 1 = 0 THEN 0
                    ELSE packets'[p + 1].offset + packets'[p + 1].length
    BY <1>1, <1>2, <1>6 DEF TypeOK
  <2>2. ASSUME NEW k \in 1 .. p + 1
        PROVE  packets'[k].offset =
                  IF k - 1 = 0 THEN 0
                  ELSE packets'[k - 1].offset + packets'[k - 1].length
    <3>1. CASE k = p + 1
      <4>1. packets'[k].offset = position /\ k - 1 = p
        BY <1>2, <1>6, <3>1 DEF TypeOK
      <4>2. position = IF p = 0 THEN 0 ELSE packets[p].offset + packets[p].length
        BY DEF Made, End
      <4>3. p # 0 => packets'[p] = packets[p]
        BY <1>2, <1>6 DEF TypeOK
      <4> QED BY <4>1, <4>2, <4>3
    <3>2. CASE k \in 1 .. p
      <4>1. packets'[k] = packets[k]
        BY <1>6, <3>2
      <4>2. packets[k].offset =
              IF k - 1 = 0 THEN 0 ELSE packets[k - 1].offset + packets[k - 1].length
        BY <1>6, <3>2 DEF Made, End
      <4>3. k - 1 # 0 => packets'[k - 1] = packets[k - 1]
        BY <1>2, <1>6, <3>2 DEF TypeOK
      <4> QED BY <4>1, <4>2, <4>3
    <3> QED BY <1>2, <3>1, <3>2 DEF TypeOK
  <2>3. /\ Len(packets') = p' /\ p' = p + 1 /\ position' <= dataLength'
        /\ DOMAIN packets' = 1 .. p + 1
    BY <1>1, <1>2, <1>4, <1>6 DEF TypeOK
  <2> QED BY <2>1, <2>2, <2>3 DEF Made, End
<1>8. InBounds' /\ FitsPacket'
  BY <1>1, <1>2, <1>3, <1>4, <1>6 DEF TypeOK, InBounds, FitsPacket, D
<1> QED BY <1>4, <1>5, <1>7, <1>8

LEMMA LoopStep ==
    ASSUME LoopInv, [Next]_vars
    PROVE  LoopInv'
<1>1. CASE CountPayloads
  BY <1>1, CountStep
<1>2. CASE MakeSlice
  BY <1>2, MakeStep
<1>3. CASE QueuePackets
  BY <1>3 DEF QueuePackets, LoopInv, TypeOK, Remaining, Made, InBounds, FitsPacket, End
<1>4. ASSUME NEW k \in DOMAIN packets, Abandon(k) PROVE LoopInv'
  BY <1>4 DEF Abandon, LoopInv, TypeOK, Remaining, Made, InBounds, FitsPacket, End
<1>5. CASE UNCHANGED vars
  BY <1>5 DEF vars, LoopInv, TypeOK, Remaining, Made, InBounds, FitsPacket, End
<1> QED BY <1>1, <1>2, <1>3, <1>4, <1>5 DEF Next

\* memcpy stays within the message and every slice within its packet.
THEOREM SlicesFit == Spec => []SlicesSound
<1>1. LoopInv => SlicesSound
  BY DEF LoopInv, SlicesSound
<1> QED BY <1>1, LoopInit, LoopStep, PTL DEF Spec

\* The slices of every message, laid end to end, are the message.
THEOREM SlicesCover == Spec => []CoversMessage
<1>1. LoopInv => CoversMessage
  BY DEF LoopInv, TypeOK, Remaining, Made, CoversMessage
<1> QED BY <1>1, LoopInit, LoopStep, PTL DEF Spec

-----------------------------------------------------------------------------
(* The pair of processes *)

\* A side by itself: a thread in its loop has a socket, one without an object has
\* no thread, a destructor has made the object inactive.  Once the packets are
\* cleared, a thread in poll() is the only one that can bring another.
EndSound(e) ==
    /\ e.thread \in {"head", "polling"} => e.read = "open"
    /\ e.owner \in {"absent", "gone", "killed"} => e.thread = "none"
    /\ e.owner \in {"clearing", "joining"} => ~e.active
    /\ e.owner \in {"joining", "gone"} =>
         e.heard <= 1 /\ (e.thread = "polling" => e.heard = 0)

PairInv ==
    /\ IpcTypeOK
    /\ \A s \in Sides : EndSound(ends[s])

LEMMA QueuesAreTyped ==
    ASSUME NEW q \in Seq(Ops), NEW ops \in Seq(Ops)
    PROVE  Deliver(q, ops) \in Seq(Ops)
<1>1. q \o ops \in Seq(Ops) /\ Len(q \o ops) \in Nat
  OBVIOUS
<1> DEFINE all == q \o ops
<1> HIDE DEF all
<1>2. CASE Len(all) <= QueueLength
  BY <1>1, <1>2 DEF Deliver, all
<1>3. CASE ~(Len(all) <= QueueLength)
  <2>1. QueueLength \in Nat /\ QueueLength <= Len(all) /\ all \in Seq(Ops)
    BY <1>1, <1>3, IpcAssumption DEF all
  <2>2. SubSeq(all, 1, QueueLength) \in Seq(Ops)
    BY <2>1
  <2> QED BY <1>3, <2>2 DEF Deliver, all
<1> QED BY <1>2, <1>3

LEMMA SendsIsTyped ==
    ASSUME PairInv, NEW s \in Sides, NEW e, NEW ops \in Seq(Ops), Sends(s, e, ops)
    PROVE  inbox' \in [Sides -> Seq(Ops)]
<1>1. Peer(s) \in Sides
  BY DEF Peer, Sides
<1>2. Deliver(inbox[Peer(s)], ops) \in Seq(Ops)
  BY <1>1, QueuesAreTyped DEF PairInv, IpcTypeOK
<1> QED BY <1>1, <1>2 DEF Sends, PairInv, IpcTypeOK

LEMMA LosesIsTyped ==
    ASSUME PairInv, NEW s \in Sides, Loses(s)
    PROVE  inbox' \in [Sides -> Seq(Ops)]
<1>1. <<>> \in Seq(Ops)
  OBVIOUS
<1> QED BY <1>1 DEF Loses, PairInv, IpcTypeOK

\* A step is one of one side: the object it leaves is what counts.
LEMMA EndStep ==
    ASSUME PairInv, NEW s \in Sides, NEW e \in IpcEnd, EndSound(e), Becomes(s, e),
           inbox' \in [Sides -> Seq(Ops)], uses' \in 0 .. MaxCalls
    PROVE  PairInv'
<1>1. ends' \in [Sides -> IpcEnd] /\ ends'[s] = e /\ \A t \in Sides \ {s} : ends'[t] = ends[t]
  BY DEF Becomes, PairInv, IpcTypeOK
<1> QED BY <1>1 DEF PairInv, IpcTypeOK

LEMMA NoEndType == NoEnd \in IpcEnd
BY IpcAssumption DEF NoEnd, IpcEnd

LEMMA Called ==
    ASSUME PairInv, NEW s \in Sides, Calling(s)
    PROVE  uses' \in 0 .. MaxCalls /\ ends[s].owner = "using"
BY IpcAssumption DEF Calling, PairInv, IpcTypeOK

LEMMA MoreLives ==
    ASSUME PairInv, NEW s \in Sides, New(s)
    PROVE  ends[s].lives + 1 \in 0 .. MaxLives
<1>1. ends["primary"] \in IpcEnd /\ ends["secondary"] \in IpcEnd
  BY DEF PairInv, IpcTypeOK, Sides
<1>2. ends["primary"].lives \in Nat /\ ends["secondary"].lives \in Nat
  BY <1>1, IpcAssumption DEF IpcEnd
<1>3. s = "primary" \/ s = "secondary"
  BY DEF Sides
<1> QED BY <1>2, <1>3, IpcAssumption DEF New

\* What is left of an object has no thread.
LEMMA GoneIsSound ==
    ASSUME NEW e \in IpcEnd, NEW how \in {"gone", "killed"}
    PROVE  /\ Gone(e, how) \in IpcEnd
           /\ Gone(e, how).owner = how /\ Gone(e, how).thread = "none" /\ Gone(e, how).heard = e.heard
BY NoEndType DEF Gone, NoEnd, IpcEnd

LEMMA HeardIsOneMore ==
    ASSUME NEW s, NEW e \in IpcEnd, NEW op
    PROVE  /\ Heard(s, e, op) \in IpcEnd
           /\ Heard(s, e, op).heard \in {e.heard, e.heard + 1}
           /\ Heard(s, e, op).owner = e.owner /\ Heard(s, e, op).active = e.active
           /\ Heard(s, e, op).read = e.read
<1>1. e.heard \in Nat
  BY DEF IpcEnd
<1>2. CASE Heard(s, e, op) = e
  BY <1>1, <1>2
<1>3. e.heard + 1 \in Nat
  BY <1>1
<1>4. CASE Heard(s, e, op) = [e EXCEPT !.connected = TRUE, !.heard = @ + 1]
  <2>1. PICK n \in Nat : n = e.heard + 1
    BY <1>3
  <2>2. Heard(s, e, op) = [e EXCEPT !.connected = TRUE, !.heard = n]
    BY <1>4, <2>1
  <2>3. ASSUME NEW f, f = [e EXCEPT !.connected = TRUE, !.heard = n]
        PROVE  f \in IpcEnd /\ f.heard = n /\ f.owner = e.owner /\ f.active = e.active /\ f.read = e.read
    BY <2>3 DEF IpcEnd
  <2> QED BY <2>1, <2>2, <2>3
<1>5. CASE Heard(s, e, op) = [e EXCEPT !.id = IF @ = 0 THEN 1 ELSE @]
  BY <1>1, <1>5 DEF IpcEnd
<1>6. CASE Heard(s, e, op) = [e EXCEPT !.heard = @ + 1]
  BY <1>1, <1>6 DEF IpcEnd
<1>7. \/ Heard(s, e, op) = e
      \/ Heard(s, e, op) = [e EXCEPT !.connected = TRUE, !.heard = @ + 1]
      \/ Heard(s, e, op) = [e EXCEPT !.id = IF @ = 0 THEN 1 ELSE @]
      \/ Heard(s, e, op) = [e EXCEPT !.heard = @ + 1]
  BY DEF Heard
<1> QED BY <1>2, <1>4, <1>5, <1>6, <1>7

LEMMA OpsAreTyped ==
    /\ <<"KeepAlive">> \in Seq(Ops) /\ <<"Data">> \in Seq(Ops) /\ <<"KeepAlive", "IPCData">> \in Seq(Ops)
BY DEF Ops

\* The application's steps.
LEMMA ApplicationStep ==
    ASSUME PairInv,
           \/ CreatePrimary \/ CreateSecondary \/ CompletePrimary \/ CompleteSecondary
           \/ \E s \in Sides : SendData(s) \/ SetDisconnected(s) \/ StopIpc(s) \/ DestroyIpc(s) \/ Kill(s)
                               \/ ClearPackets(s) \/ JoinIpc(s)
    PROVE  PairInv'
<1>1. /\ inbox \in [Sides -> Seq(Ops)] /\ uses \in 0 .. MaxCalls
      /\ \A s \in Sides : ends[s] \in IpcEnd /\ EndSound(ends[s])
  BY DEF PairInv, IpcTypeOK
<1>2. "primary" \in Sides /\ "secondary" \in Sides
  BY DEF Sides
<1>3. CASE CreatePrimary
  <2>1. PICK e : /\ e = [NoEnd EXCEPT !.owner = "using", !.lives = ends["primary"].lives + 1,
                                     !.active = TRUE, !.id = 1, !.read = "open", !.thread = "head"]
                 /\ Becomes("primary", e)
    BY <1>3 DEF CreatePrimary
  <2>2. ends["primary"].lives + 1 \in 0 .. MaxLives
    BY <1>2, <1>3, MoreLives DEF CreatePrimary
  <2>3. e \in IpcEnd /\ EndSound(e)
    BY <2>1, <2>2, NoEndType DEF IpcEnd, EndSound, NoEnd
  <2> QED BY <1>1, <1>2, <1>3, <2>1, <2>3, EndStep DEF CreatePrimary
<1>4. CASE CreateSecondary
  <2>1. PICK e : /\ e = [NoEnd EXCEPT !.owner = "using", !.lives = ends["secondary"].lives + 1,
                                     !.active = Bound("primary"),
                                     !.write = IF Bound("primary") THEN "open" ELSE "closed"]
                 /\ Becomes("secondary", e) /\ Sends("secondary", e, <<"KeepAlive">>)
    BY <1>4 DEF CreateSecondary
  <2>2. ends["secondary"].lives + 1 \in 0 .. MaxLives
    BY <1>2, <1>4, MoreLives DEF CreateSecondary
  <2>3. Bound("primary") \in BOOLEAN
    BY DEF Bound
  <2>4. e \in IpcEnd /\ EndSound(e)
    BY <2>1, <2>2, <2>3, NoEndType DEF IpcEnd, EndSound, NoEnd
  <2>5. inbox' \in [Sides -> Seq(Ops)]
    BY <1>2, <2>1, SendsIsTyped, OpsAreTyped
  <2> QED BY <1>1, <1>2, <1>4, <2>1, <2>4, <2>5, EndStep DEF CreateSecondary
<1>5. CASE CompletePrimary
  <2> DEFINE o == ends["primary"]
  <2>1. PICK w \in {"open", "closed"} : \E e :
           /\ e = [o EXCEPT !.write = w, !.connected = @ \/ w = "open"]
           /\ Becomes("primary", e) /\ Sends("primary", e, <<"KeepAlive", "IPCData">>)
    <3>1. (IF o.write # "none" THEN o.write ELSE IF Bound("secondary") THEN "open" ELSE "closed")
            \in {"open", "closed"}
      BY <1>1, <1>2 DEF IpcEnd
    <3> HIDE DEF o
    <3> QED BY <1>5, <3>1 DEF CompletePrimary, o
  <2>2. PICK e : /\ e = [o EXCEPT !.write = w, !.connected = @ \/ w = "open"]
                 /\ Becomes("primary", e) /\ Sends("primary", e, <<"KeepAlive", "IPCData">>)
    BY <2>1
  <2>3. o \in IpcEnd /\ EndSound(o) /\ o.owner = "using"
    BY <1>1, <1>2, <1>5, Called DEF CompletePrimary
  <2>4. e \in IpcEnd /\ EndSound(e)
    BY <2>2, <2>3 DEF IpcEnd, EndSound
  <2>5. inbox' \in [Sides -> Seq(Ops)] /\ uses' \in 0 .. MaxCalls
    BY <1>2, <1>5, <2>2, SendsIsTyped, OpsAreTyped, Called DEF CompletePrimary
  <2> QED BY <1>2, <2>2, <2>4, <2>5, EndStep
<1>6. CASE CompleteSecondary
  <2> DEFINE o == ends["secondary"]
  <2>1. PICK e : /\ e = [o EXCEPT !.read = "open", !.connected = TRUE, !.id = 0, !.thread = "head"]
                 /\ Becomes("secondary", e) /\ Sends("secondary", e, <<"KeepAlive">>)
    BY <1>6 DEF CompleteSecondary
  <2>2. o \in IpcEnd /\ EndSound(o) /\ o.owner = "using"
    BY <1>1, <1>2, <1>6, Called DEF CompleteSecondary
  <2>3. e \in IpcEnd /\ EndSound(e)
    BY <2>1, <2>2 DEF IpcEnd, EndSound
  <2>4. inbox' \in [Sides -> Seq(Ops)] /\ uses' \in 0 .. MaxCalls
    BY <1>2, <1>6, <2>1, SendsIsTyped, OpsAreTyped, Called DEF CompleteSecondary
  <2> QED BY <1>2, <2>1, <2>3, <2>4, EndStep
<1>7. ASSUME NEW s \in Sides, SendData(s) PROVE PairInv'
  <2>1. inbox' \in [Sides -> Seq(Ops)] /\ uses' \in 0 .. MaxCalls /\ ends' = ends
    BY <1>7, SendsIsTyped, OpsAreTyped, Called DEF SendData
  <2> QED BY <1>1, <2>1 DEF PairInv, IpcTypeOK
<1>8. ASSUME NEW s \in Sides, SetDisconnected(s) \/ StopIpc(s) PROVE PairInv'
  <2>1. PICK e : /\ e \in {[ends[s] EXCEPT !.connected = FALSE], [ends[s] EXCEPT !.active = FALSE]}
                 /\ Becomes(s, e)
    BY <1>8 DEF SetDisconnected, StopIpc
  <2>2. uses' \in 0 .. MaxCalls /\ inbox' = inbox
    BY <1>8, Called DEF SetDisconnected, StopIpc
  <2>3. e \in IpcEnd /\ EndSound(e)
    BY <1>1, <2>1 DEF IpcEnd, EndSound
  <2> QED BY <1>1, <2>1, <2>2, <2>3, EndStep
<1>9. ASSUME NEW s \in Sides, DestroyIpc(s) PROVE PairInv'
  <2>1. PICK e : /\ e = [ends[s] EXCEPT !.owner = "clearing", !.active = FALSE, !.connected = FALSE]
                 /\ Becomes(s, e)
    BY <1>9 DEF DestroyIpc
  <2>2. e \in IpcEnd /\ EndSound(e)
    BY <1>1, <2>1 DEF IpcEnd, EndSound
  <2> QED BY <1>1, <1>9, <2>1, <2>2, EndStep DEF DestroyIpc
<1>10. ASSUME NEW s \in Sides, Kill(s) PROVE PairInv'
  <2>1. PICK e : e = [Gone(ends[s], "killed") EXCEPT !.heard = 0] /\ Becomes(s, e)
    BY <1>10 DEF Kill
  <2>2. Gone(ends[s], "killed") \in IpcEnd /\ Gone(ends[s], "killed").owner = "killed"
        /\ Gone(ends[s], "killed").thread = "none"
    BY <1>1, GoneIsSound
  <2>3. e \in IpcEnd /\ EndSound(e)
    BY <2>1, <2>2 DEF IpcEnd, EndSound
  <2> QED BY <1>1, <1>10, <2>1, <2>3, EndStep, LosesIsTyped DEF Kill
<1>11. ASSUME NEW s \in Sides, ClearPackets(s) PROVE PairInv'
  <2>1. PICK e : e = [ends[s] EXCEPT !.owner = "joining", !.heard = 0] /\ Becomes(s, e)
    BY <1>11 DEF ClearPackets
  <2>2. e \in IpcEnd /\ e.owner = "joining" /\ e.heard = 0
        /\ e.active = ends[s].active /\ e.read = ends[s].read /\ e.thread = ends[s].thread
    BY <1>1, <2>1 DEF IpcEnd
  <2>3. EndSound(e)
    <3>1. e.heard <= 1
      BY <2>2
    <3> QED BY <1>1, <1>11, <2>2, <3>1 DEF EndSound, ClearPackets
  <2> QED BY <1>1, <1>11, <2>1, <2>2, <2>3, EndStep DEF ClearPackets
<1>12. ASSUME NEW s \in Sides, JoinIpc(s) PROVE PairInv'
  <2>1. Gone(ends[s], "gone") \in IpcEnd /\ EndSound(Gone(ends[s], "gone"))
    BY <1>1, <1>12, GoneIsSound DEF EndSound, JoinIpc
  <2> QED BY <1>1, <1>12, <2>1, EndStep, LosesIsTyped DEF JoinIpc
<1> QED BY <1>3, <1>4, <1>5, <1>6, <1>7, <1>8, <1>9, <1>10, <1>11, <1>12

\* The thread's steps.
LEMMA ThreadStep ==
    ASSUME PairInv, NEW s \in Sides, IpcThread(s) \/ Interrupted(s)
    PROVE  PairInv'
<1>1. /\ inbox \in [Sides -> Seq(Ops)] /\ uses \in 0 .. MaxCalls
      /\ ends[s] \in IpcEnd /\ EndSound(ends[s])
  BY DEF PairInv, IpcTypeOK
<1>2. CASE LoopIpc(s)
  <2>1. CASE ends[s].active
    <3>1. PICK e : e = [ends[s] EXCEPT !.thread = "polling"] /\ Becomes(s, e)
      BY <1>2, <2>1 DEF LoopIpc
    <3>2. e \in IpcEnd /\ EndSound(e)
      BY <1>1, <1>2, <2>1, <3>1 DEF IpcEnd, EndSound, LoopIpc
    <3> QED BY <1>1, <1>2, <2>1, <3>1, <3>2, EndStep DEF LoopIpc
  <2>2. CASE ~ends[s].active
    <3>1. PICK e : e = [ends[s] EXCEPT !.thread = "left", !.read = "closed"] /\ Becomes(s, e)
      BY <1>2, <2>2 DEF LoopIpc
    <3>2. e \in IpcEnd /\ EndSound(e)
      BY <1>1, <1>2, <3>1 DEF IpcEnd, EndSound, LoopIpc
    <3> QED BY <1>1, <1>2, <2>2, <3>1, <3>2, EndStep, LosesIsTyped DEF LoopIpc
  <2> QED BY <2>1, <2>2
<1>3. CASE Receive(s)
  <2> DEFINE op == Head(inbox[s])
             h == Heard(s, ends[s], op)
             rest == [inbox EXCEPT ![s] = Tail(@)]
  <2>1. PICK e : e = [h EXCEPT !.thread = "head"] /\ Becomes(s, e)
    BY <1>3 DEF Receive
  <2>2. /\ h \in IpcEnd /\ h.heard \in {ends[s].heard, ends[s].heard + 1}
        /\ h.owner = ends[s].owner /\ h.active = ends[s].active /\ h.read = ends[s].read
    BY <1>1, HeardIsOneMore
  <2>3. ends[s].heard \in Nat /\ ends[s].thread = "polling"
    BY <1>1, <1>3 DEF IpcEnd, Receive
  <2>4. e \in IpcEnd /\ EndSound(e)
    <3> HIDE DEF h
    <3>1. e \in IpcEnd /\ e.thread = "head" /\ e.owner = h.owner /\ e.active = h.active
          /\ e.read = h.read /\ e.heard = h.heard
      BY <2>1, <2>2 DEF IpcEnd
    <3>2. e.owner \in {"joining", "gone"} => e.heard <= 1
      BY <1>1, <2>2, <2>3, <3>1 DEF EndSound
    <3> QED BY <1>1, <2>2, <2>3, <3>1, <3>2 DEF EndSound
  <2>5. Tail(inbox[s]) \in Seq(Ops)
    BY <1>1, <1>3 DEF Receive
  <2>6. rest \in [Sides -> Seq(Ops)]
    BY <1>1, <2>5
  <2>7. Peer(s) \in Sides
    BY DEF Peer, Sides
  <2> HIDE DEF rest
  <2>8. Deliver(rest[Peer(s)], <<"KeepAlive">>) \in Seq(Ops)
    BY <2>6, <2>7, QueuesAreTyped, OpsAreTyped
  <2>9. inbox' = rest \/ inbox' = [rest EXCEPT ![Peer(s)] = Deliver(@, <<"KeepAlive">>)]
    BY <1>3 DEF Receive, rest
  <2>10. inbox' \in [Sides -> Seq(Ops)]
    BY <2>6, <2>7, <2>8, <2>9
  <2> QED BY <1>1, <1>3, <2>1, <2>4, <2>10, EndStep DEF Receive
<1>4. CASE PollTimesOut(s) \/ Interrupted(s)
  <2>1. PICK e : /\ e \in {[ends[s] EXCEPT !.thread = "head"], [ends[s] EXCEPT !.thread = "head", !.active = FALSE]}
                 /\ Becomes(s, e)
    BY <1>4 DEF PollTimesOut, Interrupted
  <2>2. e \in IpcEnd /\ EndSound(e)
    BY <1>1, <1>4, <2>1 DEF IpcEnd, EndSound, PollTimesOut, Interrupted
  <2> QED BY <1>1, <1>4, <2>1, <2>2, EndStep DEF PollTimesOut, Interrupted
<1> QED BY <1>2, <1>3, <1>4 DEF IpcThread

LEMMA PairInvInit == IpcInit => PairInv
<1> SUFFICES ASSUME IpcInit PROVE PairInv
  OBVIOUS
<1>1. <<>> \in Seq(Ops) /\ EndSound(NoEnd)
  BY DEF EndSound, NoEnd
<1> QED BY <1>1, NoEndType, IpcAssumption DEF IpcInit, PairInv, IpcTypeOK

\* The sockets, threads and packets of the pair belong together: no thread polls
\* a socket that is closed, and an object that is gone leaves one packet at most,
\* for any number of objects and calls, and any length of the socket's queue.
THEOREM PairIsSound == BothSpec => []IpcSound
<1>1. BothInit => PairInv
  BY PairInvInit DEF BothInit
<1>2. PairInv /\ [BothNext]_bothVars => PairInv'
  <2> SUFFICES ASSUME PairInv, [BothNext]_bothVars PROVE PairInv'
    OBVIOUS
  <2>1. CASE IpcNext
    BY <2>1, ApplicationStep, ThreadStep DEF IpcNext, IpcOwner
  <2>2. CASE UNCHANGED ipcVars
    BY <2>2 DEF ipcVars, PairInv, IpcTypeOK
  <2> QED BY <2>1, <2>2 DEF BothNext, OfSlicing, OfPair, bothVars
<1>3. PairInv => IpcSound
  BY DEF PairInv, IpcSound, ThreadHasSocket, OneLatePacket, EndSound, Bound
<1> QED BY <1>1, <1>2, <1>3, PTL DEF BothSpec
=============================================================================
