-------------------------- MODULE MCSessionRuntime --------------------------
(* Instances of SessionRuntime: one session; two sessions with a file each; *)
(* two identities with the same sanitized file name.                        *)
EXTENDS SessionRuntime, TLC

CONSTANTS s1, s2, p1, p2

MCPathOfOne == s1 :> p1

MCPathOf == (s1 :> p1) @@ (s2 :> p2)

MCPathOfShared == (s1 :> p1) @@ (s2 :> p1)

MCSymmetryOne == Permutations(Workers) \cup Permutations(Turns)

\* The two sessions change places together with their files.
MCSymmetry ==
  Permutations(Workers) \cup {(s1 :> s2) @@ (s2 :> s1) @@ (p1 :> p2) @@ (p2 :> p1)}
=============================================================================
