----------------------------- MODULE JobLifecycle -----------------------------
(***************************************************************************)
(* What the job store promises the rest of the system about one job,       *)
(* without leases, clocks, priorities or SQL:                              *)
(*                                                                         *)
(*   - a job is submitted once, waits in the queue, is owned by one worker *)
(*     at a time, and ends succeeded, cancelled or dead;                   *)
(*   - every grant of ownership opens a new epoch;                         *)
(*   - a job dies exactly when its failures reach its budget, and giving   *)
(*     ownership back without a verdict costs nothing;                     *)
(*   - an ended job never changes again.                                   *)
(*                                                                         *)
(* JobStore implements this specification (JobStore!Lifecycle).            *)
(***************************************************************************)
EXTENDS Integers

CONSTANTS
    Jobs,       \* jobs, known by their idempotency keys
    Workers,
    Budgets,    \* the retry budgets a client may ask for
    NULL

VARIABLES
    phase,      \* [Jobs -> Phases]
    owner,      \* the worker that owns the job in this epoch, or NULL
    epoch,      \* how many times ownership was granted
    failures,   \* how many attempts ended in a reported failure
    budget      \* the number of failures that kills the job

vars == <<phase, owner, epoch, failures, budget>>

Phases == {"absent", "queued", "owned", "succeeded", "cancelled", "dead"}

Init ==
    /\ phase    = [j \in Jobs |-> "absent"]
    /\ owner    = [j \in Jobs |-> NULL]
    /\ epoch    = [j \in Jobs |-> 0]
    /\ failures = [j \in Jobs |-> 0]
    /\ budget   = [j \in Jobs |-> 0]

Submit(j, m) ==
    /\ phase[j] = "absent"
    /\ phase'  = [phase EXCEPT ![j] = "queued"]
    /\ budget' = [budget EXCEPT ![j] = m]
    /\ UNCHANGED <<owner, epoch, failures>>

Grant(j, w) ==
    /\ phase[j] = "queued"
    /\ phase' = [phase EXCEPT ![j] = "owned"]
    /\ owner' = [owner EXCEPT ![j] = w]
    /\ epoch' = [epoch EXCEPT ![j] = @ + 1]
    /\ UNCHANGED <<failures, budget>>

\* Ownership of the jobs in S lapses: they are queued again, free of charge.
Release(S) ==
    /\ \A j \in S : phase[j] = "owned"
    /\ phase' = [j \in Jobs |-> IF j \in S THEN "queued" ELSE phase[j]]
    /\ owner' = [j \in Jobs |-> IF j \in S THEN NULL ELSE owner[j]]
    /\ UNCHANGED <<epoch, failures, budget>>

Succeed(j) ==
    /\ phase[j] = "owned"
    /\ phase' = [phase EXCEPT ![j] = "succeeded"]
    /\ owner' = [owner EXCEPT ![j] = NULL]
    /\ UNCHANGED <<epoch, failures, budget>>

FailAttempt(j) ==
    /\ phase[j] = "owned"
    /\ failures' = [failures EXCEPT ![j] = @ + 1]
    /\ phase' = [phase EXCEPT
                    ![j] = IF failures[j] + 1 >= budget[j] THEN "dead" ELSE "queued"]
    /\ owner' = [owner EXCEPT ![j] = NULL]
    /\ UNCHANGED <<epoch, budget>>

Cancel(j) ==
    /\ phase[j] \in {"queued", "owned"}
    /\ phase' = [phase EXCEPT ![j] = "cancelled"]
    /\ owner' = [owner EXCEPT ![j] = NULL]
    /\ UNCHANGED <<epoch, failures, budget>>

Next ==
    \/ \E j \in Jobs : \/ \E m \in Budgets : Submit(j, m)
                       \/ \E w \in Workers : Grant(j, w)
                       \/ Succeed(j)
                       \/ FailAttempt(j)
                       \/ Cancel(j)
    \/ \E S \in SUBSET Jobs : Release(S)

Spec == Init /\ [][Next]_vars
===============================================================================
