---------------------------- MODULE MCJsonStore -----------------------------
(* A small instance of JsonStore: the sessions s1 and s2 have a file of     *)
(* their own, and "s1x" is an identity whose sanitized name is that of s1.  *)
EXTENDS JsonStore, TLC

CONSTANTS s1, s1x, s2, p1, p2

MCPathOf == (s1 :> p1) @@ (s1x :> p1) @@ (s2 :> p2)

MCPathOfSmall == (s1 :> p1) @@ (s1x :> p1)

WorkerSymmetry == Permutations(Workers)
=============================================================================
