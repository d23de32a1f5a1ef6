-------------------------- MODULE MCNetworkServer --------------------------
(* NetworkServer with the symmetry of its addresses *)
EXTENDS NetworkServer, TLC

AddrSymmetry == Permutations(Addrs)
=============================================================================
