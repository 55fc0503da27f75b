------------------------------ MODULE MCJobStore ------------------------------
(***************************************************************************)
(* JobStore for TLC.  Neither a worker's nor a job's identity matters      *)
(* (created_at orders jobs, not the key), so both are symmetric; the       *)
(* properties are invariants and one step simulation, no liveness.         *)
(***************************************************************************)
EXTENDS JobStore, TLC

Symmetry == Permutations(Workers) \cup Permutations(Jobs)
===============================================================================
