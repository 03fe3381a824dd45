----------------------------- MODULE MCJobQueue -----------------------------
(* Instances of JobQueue for TLC.                                           *)
EXTENDS JobQueue, TLC

CONSTANTS j1, j2, j3, t1, t2, t3, l1, l2

AllOutcomes == HandlerOutcomes
Symmetry == Permutations(Jobs) \cup Permutations(Tasks) \cup Permutations(Loops)
=============================================================================
