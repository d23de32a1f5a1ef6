----------------------------- MODULE MCSlicing -----------------------------
(***************************************************************************)
(* The two ways out of a process that do not wait for an answer: a message *)
(* in slices, and the pair of processes on one machine.  They share no     *)
(* state: a behaviour of this instance is that of one, the subject, while  *)
(* the other stays as it was made.                                         *)
(***************************************************************************)
EXTENDS Slicing, NetworkIPC

VARIABLE subject

bothVars == <<subject, vars, ipcVars>>

OfSlicing(A) == subject = "slicing" /\ A /\ UNCHANGED <<subject, ipcVars>>
OfPair(A) == subject = "pair" /\ A /\ UNCHANGED <<subject, vars>>

BothInit ==
  /\ subject \in {"slicing", "pair"}
  /\ Init
  /\ subject = "pair" => dataLength = 1
  /\ IpcInit

BothNext == OfSlicing(Next) \/ OfPair(IpcNext)

\* The threads and the destructors of the pair are scheduled.
BothSpec ==
  BothInit /\ [][BothNext]_bothVars
    /\ \A s \in Sides : WF_bothVars(OfPair(IpcThread(s))) /\ WF_bothVars(OfPair(IpcOwner(s)))
=============================================================================
