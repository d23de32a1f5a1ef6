-------------------------- MODULE SendQueueProofs --------------------------
(***************************************************************************)
(* Network::sendLoop hands over what was pushed, once each and in order,   *)
(* for every number of calls, packets and retransmission requests.         *)
(***************************************************************************)
EXTENDS SendQueue, TLAPS

-----------------------------------------------------------------------------
(* Sequences whose elements nobody constrains: what an entry of the queue  *)
(* carries is of no concern to its order.                                  *)

IsSequence(s) == \E S : s \in Seq(S)

LEMMA EmptyIsSequence == IsSequence(<<>>) /\ Len(<<>>) = 0
<1>1. <<>> \in Seq({})
  OBVIOUS
<1> QED BY <1>1 DEF IsSequence

LEMMA AppendToSequence ==
    ASSUME NEW s, IsSequence(s), NEW e
    PROVE  /\ IsSequence(Append(s, e))
           /\ Len(s) \in Nat
           /\ Len(Append(s, e)) = Len(s) + 1
           /\ \A i \in 1 .. Len(s) : Append(s, e)[i] = s[i]
           /\ Append(s, e)[Len(s) + 1] = e
           /\ Append(s, e) # <<>>
<1>1. PICK S : s \in Seq(S)
  BY DEF IsSequence
<1> DEFINE T == S \cup {e}
<1>2. s \in Seq(T) /\ e \in T
  BY <1>1
<1> HIDE DEF T
<1>3. Append(s, e) \in Seq(T)
  BY <1>2
<1> QED BY <1>2, <1>3 DEF IsSequence

LEMMA TailOfSequence ==
    ASSUME NEW s, IsSequence(s), s # <<>>
    PROVE  /\ IsSequence(Tail(s))
           /\ Len(s) \in Nat /\ Len(s) > 0
           /\ Len(Tail(s)) = Len(s) - 1
           /\ \A i \in 1 .. Len(s) - 1 : Tail(s)[i] = s[i + 1]
           /\ Head(s) = s[1]
<1>1. PICK S : s \in Seq(S)
  BY DEF IsSequence
<1>2. Tail(s) \in Seq(S)
  BY <1>1
<1> QED BY <1>1, <1>2 DEF IsSequence

LEMMA SequenceLength ==
    ASSUME NEW s, IsSequence(s)
    PROVE  Len(s) \in Nat /\ DOMAIN s = 1 .. Len(s) /\ (s = <<>> <=> Len(s) = 0)
BY DEF IsSequence

-----------------------------------------------------------------------------
(* The inductive invariant *)

\* Nobody has destroyed the object.
Alive == ownerPC \in {"running", "stopped"}

\* The entry in front was sent, and is about to be popped.
Sending == IF sendPC = "pop" /\ sendQueue # <<>> THEN 1 ELSE 0

\* The entries are numbered as they were pushed, in the queue and in what was
\* sent; all that is yet to be sent was pushed after all that was sent.
IdsIncrease ==
  /\ IsSequence(sendQueue) /\ IsSequence(sent) /\ pushed \in Nat
  /\ \A i \in 1 .. Len(sendQueue) : sendQueue[i].id \in Nat /\ sendQueue[i].id <= pushed
  /\ \A i \in 1 .. Len(sent) : sent[i].id \in Nat /\ sent[i].id <= pushed
  /\ \A i, j \in 1 .. Len(sendQueue) : i < j => sendQueue[i].id < sendQueue[j].id
  /\ \A i, j \in 1 .. Len(sent) : i < j => sent[i].id < sent[j].id
  /\ \A i \in 1 .. Len(sent), j \in 1 .. Len(sendQueue) :
       j > Sending => sent[i].id < sendQueue[j].id

\* Nothing is lost while nobody clears the queue.
NothingLost ==
  Alive =>
    /\ sendPC = "pop" => sendQueue # <<>>
    /\ pushed = Len(sent) + Len(sendQueue) - Sending
    /\ \A i \in 1 .. Len(sent) : sent[i].id = i
    /\ \A i \in 1 .. Len(sendQueue) : sendQueue[i].id = Len(sent) - Sending + i

QueueInv == IdsIncrease /\ NothingLost

\* The invariant is what SentInOrder says, and more.
LEMMA QueueInvIsInOrder ==
    ASSUME QueueInv
    PROVE  SentInOrder
<1>1. IsSequence(sendQueue) /\ IsSequence(sent) /\ Len(sendQueue) \in Nat /\ Len(sent) \in Nat
  BY SequenceLength DEF QueueInv, IdsIncrease
<1>2. NeverSentTwice
  BY <1>1, SequenceLength DEF QueueInv, IdsIncrease, NeverSentTwice
<1>3. /\ Len(Unsent) = Len(sendQueue) - Sending
      /\ \A i \in 1 .. Len(Unsent) : Unsent[i] = sendQueue[i + Sending]
      /\ Len(Unsent) \in Nat /\ Sending \in {0, 1}
  BY <1>1, TailOfSequence, SequenceLength DEF Unsent, Sending
<1>4. ASSUME Alive
      PROVE  [i \in 1 .. Len(sent) + Len(Unsent) |->
                IF i <= Len(sent) THEN sent[i].id ELSE Unsent[i - Len(sent)].id]
             = [i \in 1 .. pushed |-> i]
  <2>1. pushed = Len(sent) + Len(Unsent)
    BY <1>1, <1>3, <1>4 DEF QueueInv, NothingLost
  <2>2. ASSUME NEW i \in 1 .. pushed
        PROVE  (IF i <= Len(sent) THEN sent[i].id ELSE Unsent[i - Len(sent)].id) = i
    <3>1. CASE i <= Len(sent)
      BY <1>1, <1>4, <3>1 DEF QueueInv, NothingLost, IdsIncrease
    <3>2. CASE ~(i <= Len(sent))
      <4> DEFINE j == i - Len(sent)
      <4>1. /\ j \in 1 .. Len(Unsent) /\ j + Sending \in 1 .. Len(sendQueue)
            /\ Len(sent) - Sending + (j + Sending) = i
        BY <1>1, <1>3, <2>1, <3>2
      <4>2. Unsent[j] = sendQueue[j + Sending]
        BY <1>3, <4>1
      <4>3. sendQueue[j + Sending].id = Len(sent) - Sending + (j + Sending)
        BY <1>4, <4>1 DEF QueueInv, NothingLost
      <4> QED BY <3>2, <4>1, <4>2, <4>3
    <3> QED BY <3>1, <3>2
  <2> QED BY <2>1, <2>2
<1> QED BY <1>2, <1>4 DEF SentInOrder, Alive

-----------------------------------------------------------------------------
(* The steps *)

\* A step that touches neither end of the queue.
LEMMA ElsewhereKeepsQueueInv ==
    ASSUME QueueInv, UNCHANGED <<sendQueue, pushed, sent>>,
           (sendPC' = "pop") <=> (sendPC = "pop"),
           Alive' => Alive
    PROVE  QueueInv'
BY DEF QueueInv, IdsIncrease, NothingLost, Sending

\* push_back, by either producer.
LEMMA PushKeepsQueueInv ==
    ASSUME QueueInv, NEW k, NEW r, Push(k, r), UNCHANGED <<sent, sendPC, ownerPC>>
    PROVE  QueueInv'
<1> DEFINE e == [id |-> pushed + 1, pkt |-> k, retry |-> r]
           n == Len(sendQueue)
<1>1. pushed' = pushed + 1 /\ sendQueue' = Append(sendQueue, e) /\ e.id = pushed + 1
  BY DEF Push
<1> HIDE DEF e
<1>2. /\ IsSequence(sendQueue') /\ n \in Nat /\ Len(sendQueue') = n + 1
      /\ \A i \in 1 .. n : sendQueue'[i] = sendQueue[i]
      /\ sendQueue'[n + 1].id = pushed + 1 /\ sendQueue' # <<>>
  BY <1>1, AppendToSequence DEF QueueInv, IdsIncrease
<1>3. pushed \in Nat /\ Len(sent) \in Nat /\ IsSequence(sent) /\ (sendQueue = <<>> <=> n = 0)
  BY SequenceLength DEF QueueInv, IdsIncrease
<1>4. Sending \in {0, 1} /\ Sending' \in {0, 1} /\ Sending' >= Sending
      /\ (Sending' # Sending => n = 0 /\ Sending' = 1)
  BY <1>2, <1>3 DEF Sending
<1>5. \A i \in 1 .. n + 1 : i \in 1 .. n \/ i = n + 1
  BY <1>2
<1>6. IdsIncrease'
  <2>1. \A i \in 1 .. n + 1 : sendQueue'[i].id \in Nat /\ sendQueue'[i].id <= pushed + 1
    BY <1>2, <1>3, <1>5 DEF QueueInv, IdsIncrease
  <2>2. \A i, j \in 1 .. n + 1 : i < j => sendQueue'[i].id < sendQueue'[j].id
    <3> SUFFICES ASSUME NEW i \in 1 .. n + 1, NEW j \in 1 .. n + 1, i < j
                 PROVE  sendQueue'[i].id < sendQueue'[j].id
      OBVIOUS
    <3>1. i \in 1 .. n
      BY <1>2, <1>5
    <3>2. sendQueue'[i].id = sendQueue[i].id /\ sendQueue[i].id \in Nat /\ sendQueue[i].id <= pushed
      BY <1>2, <3>1 DEF QueueInv, IdsIncrease
    <3>3. CASE j = n + 1
      BY <1>2, <1>3, <3>2, <3>3
    <3>4. CASE j \in 1 .. n
      <4>1. sendQueue'[j].id = sendQueue[j].id /\ sendQueue[i].id < sendQueue[j].id
        BY <1>2, <3>1, <3>4 DEF QueueInv, IdsIncrease
      <4> QED BY <3>2, <4>1
    <3> QED BY <1>5, <3>3, <3>4
  <2>3. \A i \in 1 .. Len(sent) : sent[i].id \in Nat /\ sent[i].id <= pushed + 1
                                  /\ sent[i].id < pushed + 1
    BY <1>3 DEF QueueInv, IdsIncrease
  <2>4. \A i \in 1 .. Len(sent), j \in 1 .. n + 1 :
          j > Sending' => sent[i].id < sendQueue'[j].id
    BY <1>2, <1>3, <1>4, <1>5, <2>3 DEF QueueInv, IdsIncrease
  <2> QED BY <1>1, <1>2, <1>3, <2>1, <2>2, <2>3, <2>4 DEF QueueInv, IdsIncrease
<1>7. NothingLost'
  <2> SUFFICES ASSUME Alive
               PROVE  NothingLost'
    BY DEF NothingLost, Alive
  <2>1. Sending' = Sending
    BY <1>2 DEF QueueInv, NothingLost, Sending
  <2>2. \A i \in 1 .. n + 1 : sendQueue'[i].id = Len(sent) - Sending + i
    <3>1. pushed + 1 = Len(sent) - Sending + (n + 1)
      BY <1>2, <1>3, <1>4 DEF QueueInv, NothingLost
    <3> QED BY <1>2, <1>5, <3>1 DEF QueueInv, NothingLost
  <2>3. pushed' = Len(sent) + Len(sendQueue') - Sending
    <3>1. pushed = Len(sent) + n - Sending
      BY DEF QueueInv, NothingLost
    <3> QED BY <1>1, <1>2, <1>3, <1>4, <3>1
  <2> QED BY <1>2, <2>1, <2>2, <2>3 DEF QueueInv, NothingLost
<1> QED BY <1>6, <1>7 DEF QueueInv

\* sendData of the entry in front: it is the next one that was pushed.
LEMMA SendFrontKeepsQueueInv ==
    ASSUME QueueInv, SendFront
    PROVE  QueueInv'
<1>1. CASE sendQueue = <<>>
  <2>1. UNCHANGED <<sendQueue, pushed, sent, ownerPC>> /\ sendPC = "front" /\ sendPC' = "undefined"
    BY <1>1 DEF SendFront, app, net
  <2> QED BY <2>1, ElsewhereKeepsQueueInv DEF Alive
<1>2. CASE sendQueue # <<>>
  <2> DEFINE e == [id |-> Head(sendQueue).id, pkt |-> Head(sendQueue).pkt,
                   to |-> IF Head(sendQueue).retry THEN sender ELSE "peer"]
             m == Len(sent)
  <2>1. /\ sendPC = "front" /\ sendPC' = "pop" /\ UNCHANGED <<sendQueue, pushed, ownerPC>>
        /\ sent' = Append(sent, e) /\ e.id = Head(sendQueue).id
    BY <1>2 DEF SendFront
  <2> HIDE DEF e
  <2>2. /\ IsSequence(sent') /\ m \in Nat /\ Len(sent') = m + 1
        /\ \A i \in 1 .. m : sent'[i] = sent[i]
        /\ sent'[m + 1].id = Head(sendQueue).id
    BY <2>1, AppendToSequence DEF QueueInv, IdsIncrease
  <2>3. Len(sendQueue) \in Nat /\ Len(sendQueue) > 0 /\ Head(sendQueue) = sendQueue[1]
    BY <1>2, TailOfSequence DEF QueueInv, IdsIncrease
  <2>4. Sending = 0 /\ Sending' = 1
    BY <1>2, <2>1 DEF Sending
  <2>5. \A i \in 1 .. m + 1 : i \in 1 .. m \/ i = m + 1
    BY <2>2
  <2>6. /\ sendQueue[1].id \in Nat /\ sendQueue[1].id <= pushed
        /\ \A i \in 1 .. m : sent[i].id < sendQueue[1].id
        /\ \A j \in 1 .. Len(sendQueue) : j > 1 => sendQueue[1].id < sendQueue[j].id
    BY <2>2, <2>3, <2>4 DEF QueueInv, IdsIncrease
  <2>7. IdsIncrease'
    <3>1. \A i \in 1 .. m + 1 : sent'[i].id \in Nat /\ sent'[i].id <= pushed
      BY <2>2, <2>3, <2>5, <2>6 DEF QueueInv, IdsIncrease
    <3>2. \A i, j \in 1 .. m + 1 : i < j => sent'[i].id < sent'[j].id
      BY <2>2, <2>3, <2>5, <2>6 DEF QueueInv, IdsIncrease
    <3>3. \A i \in 1 .. m + 1, j \in 1 .. Len(sendQueue) : j > 1 => sent'[i].id < sendQueue[j].id
      <4>1. \A i \in 1 .. m, j \in 1 .. Len(sendQueue) : sent[i].id < sendQueue[j].id
        BY <2>3, <2>4 DEF QueueInv, IdsIncrease
      <4> QED BY <2>2, <2>3, <2>5, <2>6, <4>1
    <3> QED BY <2>1, <2>2, <2>4, <3>1, <3>2, <3>3 DEF QueueInv, IdsIncrease
  <2>8. NothingLost'
    <3> SUFFICES ASSUME Alive
                 PROVE  NothingLost'
      BY <2>1 DEF NothingLost, Alive
    <3>1. sendQueue[1].id = m + 1
      BY <2>2, <2>3, <2>4 DEF QueueInv, NothingLost
    <3>2. \A i \in 1 .. m + 1 : sent'[i].id = i
      BY <2>2, <2>3, <2>5, <3>1 DEF QueueInv, NothingLost
    <3>3. pushed = (m + 1) + Len(sendQueue) - 1
      BY <2>2, <2>3, <2>4 DEF QueueInv, NothingLost, IdsIncrease
    <3>4. \A i \in 1 .. Len(sendQueue) : sendQueue[i].id = (m + 1) - 1 + i
      BY <2>2, <2>3, <2>4 DEF QueueInv, NothingLost
    <3> QED BY <1>2, <2>1, <2>2, <2>4, <3>2, <3>3, <3>4 DEF NothingLost
  <2> QED BY <2>7, <2>8 DEF QueueInv
<1> QED BY <1>1, <1>2

\* pop(): what was sent goes; of a queue that was cleared and filled again, an
\* entry that nobody sent.
LEMMA PopKeepsQueueInv ==
    ASSUME QueueInv, Pop
    PROVE  QueueInv'
<1>0. sendPC = "pop" /\ sendPC' = "drain" /\ UNCHANGED <<pushed, sent, ownerPC>> /\ Sending' = 0
  BY DEF Pop, Sending
<1>1. CASE sendQueue = <<>>
  <2>1. sendQueue' = sendQueue /\ Sending = 0 /\ ~Alive
    BY <1>0, <1>1 DEF Pop, Sending, QueueInv, NothingLost
  <2> QED BY <1>0, <2>1 DEF QueueInv, IdsIncrease, NothingLost, Alive
<1>2. CASE sendQueue # <<>>
  <2> DEFINE n == Len(sendQueue)
  <2>1. /\ IsSequence(sendQueue') /\ n \in Nat /\ n > 0 /\ Len(sendQueue') = n - 1
        /\ \A i \in 1 .. n - 1 : sendQueue'[i] = sendQueue[i + 1]
    BY <1>2, TailOfSequence DEF Pop, QueueInv, IdsIncrease
  <2>2. Sending = 1
    BY <1>0, <1>2 DEF Sending
  <2>3. \A i \in 1 .. n - 1 : i + 1 \in 1 .. n /\ i + 1 > 1
    BY <2>1
  <2>4. IdsIncrease'
    <3>1. \A i, j \in 1 .. n - 1 : i < j => sendQueue'[i].id < sendQueue'[j].id
      <4> TAKE i, j \in 1 .. n - 1
      <4>1. i < j => i + 1 < j + 1
        OBVIOUS
      <4> QED BY <2>1, <2>3, <4>1 DEF QueueInv, IdsIncrease
    <3>2. \A i \in 1 .. Len(sent), j \in 1 .. n - 1 : sent[i].id < sendQueue'[j].id
      BY <2>1, <2>2, <2>3 DEF QueueInv, IdsIncrease
    <3>3. \A i \in 1 .. n - 1 : sendQueue'[i].id \in Nat /\ sendQueue'[i].id <= pushed
      BY <2>1, <2>3 DEF QueueInv, IdsIncrease
    <3> QED BY <1>0, <2>1, <3>1, <3>2, <3>3 DEF QueueInv, IdsIncrease
  <2>5. NothingLost'
    <3> SUFFICES ASSUME Alive
                 PROVE  NothingLost'
      BY <1>0 DEF NothingLost, Alive
    <3>1. Len(sent) \in Nat
      BY SequenceLength DEF QueueInv, IdsIncrease
    <3>2. \A i \in 1 .. n - 1 : sendQueue'[i].id = Len(sent) - 0 + i
      <4> TAKE i \in 1 .. n - 1
      <4>1. sendQueue[i + 1].id = Len(sent) - 1 + (i + 1)
        BY <2>2, <2>3 DEF QueueInv, NothingLost
      <4> QED BY <2>1, <3>1, <4>1
    <3>3. pushed = Len(sent) + (n - 1) - 0
      BY <2>1, <2>2, <3>1 DEF QueueInv, NothingLost
    <3> QED BY <1>0, <2>1, <3>2, <3>3 DEF QueueInv, NothingLost
  <2> QED BY <2>4, <2>5 DEF QueueInv
<1> QED BY <1>1, <1>2

\* shutdownSockets clears the queue, wherever the send thread stands.
LEMMA ShutdownKeepsQueueInv ==
    ASSUME QueueInv, Shutdown
    PROVE  QueueInv'
<1>1. sendQueue' = <<>> /\ ownerPC' = "joining" /\ UNCHANGED <<pushed, sent>>
  BY DEF Shutdown
<1>2. NothingLost' /\ IsSequence(sendQueue') /\ 1 .. Len(sendQueue') = {}
  BY <1>1, EmptyIsSequence DEF NothingLost, Alive
<1> QED BY <1>1, <1>2 DEF QueueInv, IdsIncrease

LEMMA QueueStep ==
    ASSUME QueueInv, [Next]_vars
    PROVE  QueueInv'
<1>1. CASE PushNext
  BY <1>1, PushKeepsQueueInv DEF PushNext
<1>2. ASSUME NEW k \in Packets, Respond(k)
      PROVE  QueueInv'
  BY <1>2, PushKeepsQueueInv DEF Respond
<1>3. CASE SendFront
  BY <1>3, SendFrontKeepsQueueInv
<1>4. CASE Pop
  BY <1>4, PopKeepsQueueInv
<1>5. CASE Shutdown
  BY <1>5, ShutdownKeepsQueueInv
<1>6. CASE Send \/ SendNotify \/ (\E val \in BOOLEAN : SetAccepting(val)) \/ Listen \/ PollAgain
           \/ RespondNotify \/ ListenInterrupted \/ Stop \/ Join
  <2>1. UNCHANGED <<sendQueue, pushed, sent>> /\ (sendPC' = sendPC \/ Notify) /\ (Alive' => Alive)
    BY <1>6 DEF Send, SendNotify, SetAccepting, Listen, PollAgain, RespondNotify,
                ListenInterrupted, Stop, Join, Alive
  <2> QED BY <2>1, ElsewhereKeepsQueueInv DEF Notify
<1>7. CASE SendLoop \/ Block \/ Drain \/ WakeSpuriously \/ SendInterrupted
  <2>1. UNCHANGED <<sendQueue, pushed, sent, ownerPC>> /\ sendPC # "pop" /\ sendPC' # "pop"
    BY <1>7 DEF SendLoop, Block, Drain, WakeSpuriously, SendInterrupted
  <2> QED BY <2>1, ElsewhereKeepsQueueInv DEF Alive
<1>8. CASE UNCHANGED vars
  BY <1>8, ElsewhereKeepsQueueInv DEF vars, Alive
<1> QED BY <1>1, <1>2, <1>3, <1>4, <1>5, <1>6, <1>7, <1>8
        DEF Next, AppStep, ListenStep, SendStep, OwnerStep, Unexpected

\* Whatever the application, the listen thread and the owner do between the steps
\* of sendLoop of Network.cpp: nothing is sent twice, and until the queue is
\* cleared every entry is sent once, in the order in which it was pushed.
THEOREM EverySendIsInOrder == Spec => []SentInOrder
<1>1. Init => QueueInv
  BY EmptyIsSequence DEF Init, QueueInv, IdsIncrease, NothingLost, Sending
<1>2. QueueInv /\ [Next]_vars => QueueInv'
  BY QueueStep
<1>3. QueueInv => SentInOrder
  BY QueueInvIsInOrder
<1> QED BY <1>1, <1>2, <1>3, PTL DEF Spec
=============================================================================
