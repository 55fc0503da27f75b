--------------------------- MODULE MCLeaderElection ---------------------------
(***************************************************************************)
(* LeaderElection for TLC.                                                 *)
(***************************************************************************)
EXTENDS LeaderElection, TLC

\* Instances are interchangeable, and so are connections; used by the runs
\* without liveness only.
Symmetry == Permutations(Instances) \cup Permutations(Conns)
===============================================================================
