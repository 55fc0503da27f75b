--------------------------- MODULE MCLeaseProtocol ----------------------------
(***************************************************************************)
(* LeaseProtocol for TLC.                                                  *)
(***************************************************************************)
EXTENDS LeaseProtocol, TLC

\* Workers are interchangeable; used by the runs without liveness only.
Symmetry == Permutations(Workers)
===============================================================================
