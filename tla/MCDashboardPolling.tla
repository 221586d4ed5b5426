------------------------- MODULE MCDashboardPolling -------------------------
(* Two sessions, two refreshes.                                            *)
EXTENDS DashboardPolling, TLC

\* From revision 1 a state may rise, stay or, created again, fall.
MCInit == Init /\ \A s \in Sessions : revision[s] \in {Missing, 1}

MCSpec == MCInit /\ [][Next]_vars

MCSymmetry == Permutations(Sessions) \cup Permutations(Refreshes)
=============================================================================
