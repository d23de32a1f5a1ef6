---------------------------- MODULE MCSendQueue ----------------------------
(* SendQueue with the calls of the runs *)
EXTENDS SendQueue

TwoThenOne == <<2, 1>>
=============================================================================
