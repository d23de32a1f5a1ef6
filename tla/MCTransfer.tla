----------------------------- MODULE MCTransfer -----------------------------
(* Transfer with the constants of the runs *)
EXTENDS Transfer, TLC

CONSTANTS m1, m2

ThreeAndTwo == (m1 :> 3) @@ (m2 :> 2)
TwoAndOne == (m1 :> 2) @@ (m2 :> 1)
OneOfFour == (m1 :> 4)
OneOfThree == (m1 :> 3)
UnmeasuredOrOne == {-1, 1}
OneOfTwo == (m1 :> 2)
=============================================================================
