---------------------------- MODULE MCCronSchedules ---------------------------
(***************************************************************************)
(* CronSchedules for TLC.                                                  *)
(***************************************************************************)
EXTENDS CronSchedules, TLC

\* Evaluators are interchangeable; used by the runs without liveness only.
Symmetry == Permutations(Evaluators)
===============================================================================
