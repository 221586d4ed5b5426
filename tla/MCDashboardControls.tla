------------------------ MODULE MCDashboardControls ------------------------
(* One or both of two sessions exist at first; two saves may be under way. *)
EXTENDS DashboardControls, TLC

MCInit == Init /\ latest # None /\ \A s \in Sessions : revision[s] \in {Missing, 0}

MCSpec == MCInit /\ [][Next]_vars

MCSymmetry == Permutations(Sessions) \cup Permutations(Refreshes)
=============================================================================
