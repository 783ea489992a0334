---------------------------- MODULE MCDataPlane ----------------------------
(* DataPlane for TLC: revisions and requests are interchangeable.          *)
EXTENDS DataPlane, TLC

Symmetric == Permutations(Rev \ Rejected) \cup Permutations(Handlers)

\* Bound: the process restarts where the agent is undisturbed.  (MCBackground lets
\* it restart after a crash of the agent, too.)
RestartsApart == restarts = 0 \/ (faults = 0 /\ ~overlap)
=============================================================================
