-------------------------- MODULE MCWorkerLifecycle ---------------------------
(***************************************************************************)
(* WorkerLifecycle for TLC; the runs differ in their cfg files.            *)
(***************************************************************************)
EXTENDS WorkerLifecycle
===============================================================================
