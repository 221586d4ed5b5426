-------------------------- MODULE MCSessionCatalog --------------------------
(* Any number of the sessions exists at first, in any order.               *)
EXTENDS SessionCatalog

MCSymmetry == Permutations(Sessions)
=============================================================================
