------------------------------ MODULE Transfer ------------------------------
(***************************************************************************)
(* A client sends messages to the server over UDP.  The client slices and  *)
(* stores them (Network::send), answers retransmission requests from the   *)
(* store (Network::listenLoop), and never ages the store out, which only   *)
(* NetworkServer::updateLoop does.  The server is module Connection.  The  *)
(* network between them loses, reorders and, if told so, duplicates and    *)
(* damages packets: wire is a set, and nothing has to be received.         *)
(***************************************************************************)
EXTENDS Connection

CONSTANTS
    Duplicates,     \* the network may deliver a packet again
    Damages,        \* the network may damage the lengths of a packet
    Builtins,       \* op codes the peer sends through sendBuiltin by itself
    LastSend,       \* bound: nothing arrives after that time
    RacingSenders   \* two threads of the client may be in getSequenceID at once

ASSUME TransferAssumption ==
    /\ Duplicates \in BOOLEAN /\ Damages \in BOOLEAN /\ RacingSenders \in BOOLEAN
    /\ Builtins \subseteq {"Ack", "RetransmissionAck", "RetransmissionReply"}
    /\ LastSend \in Nat

VARIABLES
    seqID,              \* m_seqID of the client
    sentAs,             \* the sequence each message was sent with, 0 before
    storedSequences     \* m_storedSequences of the client

clientVars == <<seqID, sentAs, storedSequences>>
vars == <<connVars, clientVars>>

PacketNums == UNION {0 .. Payloads[m] - 1 : m \in Messages}

MultiPacket(m) == Payloads[m] > 1

PacketsOf(m, s) ==
    {[op |-> "Data", msg |-> m, seq |-> s, num |-> k, total |-> Payloads[m],
      damaged |-> FALSE] : k \in 0 .. Payloads[m] - 1}

Control(op, s, k) == [op |-> op, msg |-> NoMsg, seq |-> s, num |-> k, total |-> 1,
                      damaged |-> FALSE]

-----------------------------------------------------------------------------
(* The client *)

\* getSequenceID increments m_seqID and returns a reference to it, both
\* without a lock: of two calls at once both may read the later number.
SequenceID ==
    {s \in SeqIDs : s = seqID + 1 \/ (RacingSenders /\ s = seqID /\ seqID # 0)}

\* Network::send: an identifier that is stored already stays as it is.
Send(m) ==
    /\ sentAs[m] = 0
    /\ \E s \in SequenceID :
          /\ seqID' = s
          /\ sentAs' = [sentAs EXCEPT ![m] = s]
          /\ wire' = wire \cup PacketsOf(m, s)
          /\ storedSequences' =
                IF MultiPacket(m) /\ s \notin DOMAIN storedSequences
                THEN [t \in DOMAIN storedSequences \cup {s} |->
                         IF t = s THEN m ELSE storedSequences[t]]
                ELSE storedSequences
    /\ UNCHANGED <<clock, status, isClosing, estimators, packets, sequences,
                   expiredSequences, retryRequests, buffer>>

Stored(r) == r.seq \in DOMAIN storedSequences /\ r.num < Payloads[storedSequences[r.seq]]

\* Network::listenLoop on OP_RetransmissionRequest: the stored packet goes out
\* as it was sent first, op code included.
Retransmit(r) ==
    /\ r \in wire /\ r.op = "RetransmissionRequest"
    /\ wire' = (wire \ {r}) \cup
          (IF Stored(r)
           THEN {p \in PacketsOf(storedSequences[r.seq], r.seq) : p.num = r.num}
           ELSE {Control("RetransmissionImpossible", r.seq, r.num)})
    /\ UNCHANGED <<clock, status, isClosing, estimators, packets, sequences,
                   expiredSequences, retryRequests, buffer, clientVars>>

-----------------------------------------------------------------------------
(* The server: the packets the update loop hands to the connection *)

\* The bounds under which the network still brings something.
Arrives == now <= LastSend /\ Len(packets) < MaxQueued /\ Len(buffer) < MaxBuffered

Consumed(p) == wire' = IF Duplicates THEN wire ELSE wire \ {p}

Receive(p) ==
    /\ p \in wire /\ p.op \in {"Data", "RetransmissionImpossible"}
    /\ Arrives
    /\ AddPacket(p)
    /\ Consumed(p)
    /\ UNCHANGED clientVars

\* Lengths that disagree with each other arrive instead of what was sent.
ReceiveDamaged(p) ==
    /\ Damages
    /\ p \in wire /\ p.op = "Data" /\ p.total > 1
    /\ Arrives
    /\ AddPacket([p EXCEPT !.damaged = TRUE])
    /\ Consumed(p)
    /\ UNCHANGED clientVars

\* Network::sendBuiltin is public: the peer may acknowledge, or reply, unasked.
ReceiveBuiltin(op, s, k) ==
    /\ Arrives
    /\ op \in Builtins
    /\ AddPacket(Control(op, s, k))
    /\ UNCHANGED <<wire, clientVars>>

KeepAlive ==
    /\ Arrives
    /\ AddPacket(Control("KeepAlive", 0, 0))
    /\ UNCHANGED <<wire, clientVars>>

\* OP_ConnectionDisconnect does not reach addPacket: the update loop itself
\* tells the application and marks the connection.
Disconnect ==
    /\ Arrives
    /\ status = "open"
    /\ SetClosed
    /\ buffer' = Append(buffer, Notice("Disconnect"))
    /\ UNCHANGED <<clock, status, estimators, packets, sequences,
                   expiredSequences, retryRequests, wire, clientVars>>

Init ==
    /\ ConnInit
    /\ seqID = 0
    /\ sentAs = [m \in Messages |-> 0]
    /\ storedSequences = <<>>

Next ==
    \/ \E m \in Messages : Send(m)
    \/ \E r \in wire : Retransmit(r)
    \/ \E p \in wire : Receive(p) \/ ReceiveDamaged(p)
    \/ \E op \in Builtins, s \in SeqIDs, k \in PacketNums : ReceiveBuiltin(op, s, k)
    \/ KeepAlive
    \/ Disconnect
    \/ Update /\ UNCHANGED clientVars
    \/ Tick /\ UNCHANGED clientVars

Spec == Init /\ [][Next]_vars

\* The update thread keeps running and time keeps passing.
FairSpec == Spec /\ WF_vars(Update /\ UNCHANGED clientVars)
                 /\ WF_vars(Tick /\ UNCHANGED clientVars)

-----------------------------------------------------------------------------
(* Properties *)

\* Every variable has its type.
TypeOK ==
    /\ ConnTypeOK
    /\ seqID \in SeqIDs \cup {0}
    /\ sentAs \in [Messages -> SeqIDs \cup {0}]
    /\ DOMAIN storedSequences \subseteq SeqIDs
    /\ \A s \in DOMAIN storedSequences : storedSequences[s] \in Messages

WholeMessage(m) == [y \in {SliceOf(p) : p \in PacketsOf(m, sentAs[m])} |-> 1]

Beginning(m, len) == {[msg |-> m, at |-> k] : k \in 0 .. len - 1}

\* Whatever the network drops, repeats and reorders, and even when two threads
\* of the client got the same sequence identifier, data that reaches the
\* application begin one message the client sent, without a gap or a foreign
\* byte: PacketSequence::update copies them from slices that its CRC check has
\* found to be exactly that message, with no mixture and no repetition.  How
\* much of the message they are is what TotalLengthDelivered asks.
DeliveredAsSent ==
    \A i \in DOMAIN buffer :
        buffer[i].op = "Data" =>
            \E m \in Messages :
                /\ sentAs[m] # 0
                /\ buffer[i].slices = WholeMessage(m)
                /\ buffer[i].data = Beginning(m, buffer[i].length)

\* Connection::update never looks up a sequence that only m_expiredSequences
\* knows, where m_sequences.at() would throw and end the server.
SequenceFound == status # "threw"

\* While no packet is damaged, a retransmission is only ever outstanding for a
\* sequence that is being assembled: a finished or forgotten sequence takes
\* its requests along, or they would be repeated until the connection times out.
RequestsHaveSequence ==
    \A r \in retryRequests : r.seq \in DOMAIN sequences

Assembles ==
    \E i \in Len(buffer) + 1 .. Len(buffer') : BagCardinality(buffer'[i].slices) > 1

\* On a processor whose conversion wraps, m_hardExpiration is in the past when
\* a sequence is created: only while the connection lags does a message of
\* several packets ever reach the application.
OnlyLaggingDelivers == [][~Saturates /\ Assembles => isLagging]_vars

\* A peer that has fallen silent is given up, whatever was in progress.
SilentPeerGivenUp == <>(status = "removed")

-----------------------------------------------------------------------------
(* What comments of the code say and the code does not do *)

\* Packet.h:35: totalLength is the length of data across packets, and as many
\* bytes of an assembled message should reach the application.
TotalLengthDelivered ==
    \A i \in DOMAIN buffer :
        buffer[i].op = "Data" =>
            Cardinality(buffer[i].data) = FullSlice * (BagCardinality(buffer[i].slices) - 1) + LastSlice
=============================================================================
