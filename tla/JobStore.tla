------------------------------- MODULE JobStore -------------------------------
(***************************************************************************)
(* The jobs table and the SQL statements the scheduler runs on it:         *)
(* internal/db/jobstore.go, and RenewLease of scheduler/scheduler.go.      *)
(*                                                                         *)
(* Every operation is one UPDATE or INSERT and is atomic in PostgreSQL, so *)
(* it is one action.  Callers are unconstrained here: any worker may come  *)
(* with any lease version at any time, as the RPC handlers allow.          *)
(* LeaseProtocol adds the real callers.                                    *)
(*                                                                         *)
(* A job is known by its request_id, the idempotency key; a key with no    *)
(* row has status "ABSENT".  Timestamps compared with NOW() are kept as    *)
(* the time left until them, counted down by Age, where the delay of a     *)
(* retry is in the same unit.                                              *)
(***************************************************************************)
EXTENDS Backoff, FiniteSets

CONSTANTS
    Jobs,             \* request ids
    Workers,          \* worker ids
    Tenants,
    Priorities,       \* a subset of DOMAIN Rank
    RetryLimits,      \* the max_retries values clients send; any int32
    LeaseDuration,    \* cfg.LeaseDuration, in ticks
    MaxLeaseVersion,  \* bound: claims of one job that the model explores
    NULL

ASSUME JobStoreAssumption ==
    /\ IsFiniteSet(Jobs)
    /\ RetryLimits \subseteq Int
    /\ LeaseDuration \in Nat
    /\ MaxLeaseVersion \in Nat
    /\ NULL \notin Int
    /\ NULL \notin Workers

VARIABLE jobs    \* the table: [Jobs -> Row]

\* The CASE of ClaimNextJob's ORDER BY.  A priority it does not list yields
\* SQL NULL, which ORDER BY ... ASC sorts last.
Rank == [HIGH |-> 1, MEDIUM |-> 2, LOW |-> 3, UNLISTED |-> 4]

ASSUME PriorityAssumption == Priorities \subseteq DOMAIN Rank

Active   == {"DISPATCHED", "RUNNING"}
Terminal == {"SUCCEEDED", "CANCELLED", "DEAD_LETTER"}
Status   == {"ABSENT", "PENDING"} \cup Active \cup Terminal

Row ==
    [status          : Status,
     tenant          : Tenants \cup {NULL},
     priority        : Priorities \cup {NULL},
     max_retries     : RetryLimits \cup {0},
     retry_count     : Nat,
     assigned_worker : Workers \cup {NULL},
     lease_left      : (-1 .. LeaseDuration) \cup {NULL},  \* lease_expires_at - NOW()
     lease_version   : 0 .. MaxLeaseVersion,
     retry_left      : Nat \cup {NULL},                    \* retry_after - NOW()
     created         : Nat]                                \* rank of created_at

NoRow ==
    [status |-> "ABSENT", tenant |-> NULL, priority |-> NULL, max_retries |-> 0,
     retry_count |-> 0, assigned_worker |-> NULL, lease_left |-> NULL,
     lease_version |-> 0, retry_left |-> NULL, created |-> 0]

JobInit == jobs = [j \in Jobs |-> NoRow]

Exists(j)   == jobs[j].status # "ABSENT"
IsActive(j) == jobs[j].status \in Active

\* Faulty variants of an operation stand before it, named for the mistake.  No
\* specification uses them; they show that the properties can fail.

\* Mistake: AND status IN (...) left out.
FencedAnyStatus(j, w, v, S) ==
    jobs[j].assigned_worker = w /\ jobs[j].lease_version = v

\* Mistake: AND lease_version = $3 left out.
FencedAnyVersion(j, w, v, S) ==
    jobs[j].assigned_worker = w /\ jobs[j].status \in S

\* The WHERE clause of the fenced statements: the caller still holds the job.
Fenced(j, w, v, S) ==
    /\ jobs[j].assigned_worker = w
    /\ jobs[j].lease_version = v
    /\ jobs[j].status \in S
-------------------------------------------------------------------------------
\* INSERT ... ON CONFLICT (request_id) DO NOTHING.  On a conflict the existing
\* row is returned as it is, which changes nothing.
CreateJob(j, t, p, m) ==
    /\ ~Exists(j)
    /\ jobs' = [jobs EXCEPT ![j] =
                  [NoRow EXCEPT !.status = "PENDING", !.tenant = t, !.priority = p,
                                !.max_retries = m,
                                !.created = Cardinality({i \in Jobs : Exists(i)})]]

\* Mistake: OR retry_after <= NOW() left out.
ClaimableNoRetry(j) ==
    jobs[j].status = "PENDING" /\ jobs[j].retry_left = NULL

\* status = 'PENDING' AND (retry_after IS NULL OR retry_after <= NOW())
Claimable(j) ==
    /\ jobs[j].status = "PENDING"
    /\ jobs[j].retry_left \in {NULL, 0}

\* ORDER BY priority, created_at
Before(i, j) ==
    \/ Rank[jobs[i].priority] < Rank[jobs[j].priority]
    \/ /\ Rank[jobs[i].priority] = Rank[jobs[j].priority]
       /\ jobs[i].created <= jobs[j].created

\* What SELECT ... LIMIT 1 FOR UPDATE SKIP LOCKED may return while concurrent
\* statements hold the rows in locked.
FirstClaimable(locked) ==
    {j \in Jobs \ locked : /\ Claimable(j)
                           /\ \A i \in Jobs \ locked : Claimable(i) => Before(j, i)}

\* retry_after is left as it was.
ClaimNextJob(j, w, locked) ==
    /\ j \in FirstClaimable(locked)
    /\ jobs[j].lease_version < MaxLeaseVersion
    /\ jobs' = [jobs EXCEPT ![j].status          = "DISPATCHED",
                            ![j].assigned_worker = w,
                            ![j].lease_left      = LeaseDuration,
                            ![j].lease_version   = @ + 1]

MarkJobRunning(j, w, v) ==
    /\ Fenced(j, w, v, {"DISPATCHED"})
    /\ jobs' = [jobs EXCEPT ![j].status = "RUNNING"]

\* assigned_worker and the lease stay in the row.
CompleteJob(j, w, v) ==
    /\ Fenced(j, w, v, Active)
    /\ jobs' = [jobs EXCEPT ![j].status = "SUCCEEDED"]

\* Mistake: the count before the increment.
BudgetSpentLate(j) == jobs[j].retry_count >= jobs[j].max_retries

\* retry_count + 1 >= max_retries, the condition of both CASE expressions.
BudgetSpent(j) == jobs[j].retry_count + 1 >= jobs[j].max_retries

\* Mistake: the job is left FAILED, a status no statement picks up again.
FailJobForGood(j, w, v, d) ==
    /\ Fenced(j, w, v, Active)
    /\ jobs' = [jobs EXCEPT ![j].status = "FAILED"]

\* The fenced UPDATE of FailJob, with the delay d computed before it.
FailJob(j, w, v, d) ==
    /\ Fenced(j, w, v, Active)
    /\ jobs' = [jobs EXCEPT
         ![j].status          = IF BudgetSpent(j) THEN "DEAD_LETTER" ELSE "PENDING",
         ![j].retry_count     = @ + 1,
         ![j].assigned_worker = NULL,
         ![j].lease_left      = NULL,
         ![j].retry_left      = IF BudgetSpent(j) THEN NULL ELSE d]

\* Mistakes: <= for <; every active job; only the jobs that are RUNNING.
ExpiredEarly(j)   == IsActive(j) /\ jobs[j].lease_left \in {-1, 0}
ExpiredAlways(j)  == IsActive(j)
ExpiredRunning(j) == jobs[j].status = "RUNNING" /\ jobs[j].lease_left = -1

\* lease_expires_at < NOW(); a NULL lease satisfies no comparison.
Expired(j) == IsActive(j) /\ jobs[j].lease_left = -1

\* Mistakes: assigned_worker not cleared; lease_version reset with the lease.
ReclaimedKeepsWorker(row) ==
    [row EXCEPT !.status = "PENDING", !.lease_left = NULL, !.retry_left = NULL]
ReclaimedResetsVersion(row) ==
    [row EXCEPT !.status = "PENDING", !.assigned_worker = NULL, !.lease_left = NULL,
                !.lease_version = 0, !.retry_left = NULL]

Reclaimed(row) ==
    [row EXCEPT !.status = "PENDING", !.assigned_worker = NULL,
                !.lease_left = NULL, !.retry_left = NULL]

ReclaimExpiredJobs ==
    /\ \E j \in Jobs : Expired(j)
    /\ jobs' = [j \in Jobs |-> IF Expired(j) THEN Reclaimed(jobs[j]) ELSE jobs[j]]

\* assigned_worker and the lease stay in the row.
CancelJob(j, t) ==
    /\ Exists(j)
    /\ jobs[j].tenant = t
    /\ jobs[j].status \notin Terminal
    /\ jobs' = [jobs EXCEPT ![j].status = "CANCELLED"]

\* The UPDATE of the RenewLease RPC: the job must be RUNNING.
RenewLease(j, w, v) ==
    /\ Fenced(j, w, v, {"RUNNING"})
    /\ jobs' = [jobs EXCEPT ![j].lease_left = LeaseDuration]

\* Time passes.  A lease that has run out stays "expired", and a retry_after
\* that has come stays "due".
Aged(row) ==
    [row EXCEPT !.lease_left = IF @ = NULL \/ @ = -1 THEN @ ELSE @ - 1,
                !.retry_left = IF @ = NULL \/ @ = 0 THEN @ ELSE @ - 1]

Age == jobs' = [j \in Jobs |-> Aged(jobs[j])]
-------------------------------------------------------------------------------
JobNext ==
    \/ \E j \in Jobs, t \in Tenants, p \in Priorities, m \in RetryLimits :
          CreateJob(j, t, p, m)
    \/ \E j \in Jobs, w \in Workers, locked \in SUBSET Jobs :
          ClaimNextJob(j, w, locked)
    \/ \E j \in Jobs, w \in Workers, v \in 1 .. MaxLeaseVersion :
          \/ MarkJobRunning(j, w, v)
          \/ CompleteJob(j, w, v)
          \/ \E d \in RetryDelays(jobs[j].retry_count) : FailJob(j, w, v, d)
          \/ RenewLease(j, w, v)
    \/ \E j \in Jobs, t \in Tenants : CancelJob(j, t)
    \/ ReclaimExpiredJobs
    \/ Age

JobSpec == JobInit /\ [][JobNext]_jobs
-------------------------------------------------------------------------------
\* Every row is well formed.
JobTypeOK == jobs \in [Jobs -> Row]

(***************************************************************************)
(* The lease columns and the status never disagree, whatever the order of  *)
(* claims, results, cancellations and sweeps.  A dispatched or running job *)
(* has a worker, a lease and a version: with no lease, the predicate       *)
(* lease_expires_at < NOW() of ReclaimExpiredJobs would never hold and the *)
(* job would be stuck for ever.  A queued or dead job has no worker, so no *)
(* late result can pass a fence on assigned_worker.                        *)
(***************************************************************************)
LeaseShape ==
    \A j \in Jobs :
       /\ IsActive(j) => /\ jobs[j].assigned_worker # NULL
                         /\ jobs[j].lease_left # NULL
                         /\ jobs[j].lease_version > 0
       /\ jobs[j].status \in {"PENDING", "DEAD_LETTER"} =>
             jobs[j].assigned_worker = NULL /\ jobs[j].lease_left = NULL
       /\ jobs[j].status = "SUCCEEDED" => jobs[j].assigned_worker # NULL

(***************************************************************************)
(* FailJob kills a job at the first failure that exhausts max_retries,     *)
(* neither sooner nor later, although retry_count is moved by FailJob and  *)
(* carried across reclaims and cancellations.  Zero or a negative          *)
(* max_retries still allows one attempt.                                   *)
(***************************************************************************)
RetryBudget ==
    \A j \in Jobs :
       LET row == jobs[j] IN
       IF row.status = "DEAD_LETTER"
       THEN /\ row.retry_count > 0
            /\ row.retry_count >= row.max_retries
            /\ row.retry_count > 1 => row.retry_count = row.max_retries
       ELSE row.retry_count = 0 \/ row.retry_count < row.max_retries

\* A failure that requeues job j.
Requeues(j) ==
    jobs'[j].retry_count > jobs[j].retry_count /\ jobs'[j].status = "PENDING"

(***************************************************************************)
(* A failed job that is requeued waits for the time the formula of         *)
(* CalculateBackoff gives for its retry_count, whatever the jitter and the *)
(* cut to seconds do to it, as long as the product fits a time.Duration:   *)
(* at the defaults, up to a retry_count of 32.                             *)
(***************************************************************************)
RetryWaits ==
    [][\A j \in Jobs :
          Requeues(j) /\ Fits(jobs[j].retry_count)
             => FollowsFormula(jobs[j].retry_count, jobs'[j].retry_left)]_jobs

(***************************************************************************)
(* backoff.go, CalculateBackoff: "Formula: min(baseDelay * 2^retryCount,   *)
(* maxDelay) +/- 25% jitter", for every retryCount a job can reach.        *)
(***************************************************************************)
BackoffFollowsFormula ==
    [][\A j \in Jobs :
          Requeues(j) => FollowsFormula(jobs[j].retry_count, jobs'[j].retry_left)]_jobs

(***************************************************************************)
(* The table implements the life cycle of JobLifecycle: one owner at a     *)
(* time, a new epoch for every claim, no charge for a lapsed lease, death  *)
(* exactly at the budget, and nothing after the end.                       *)
(***************************************************************************)
PhaseOf(s) ==
    CASE s = "ABSENT"      -> "absent"
      [] s = "PENDING"     -> "queued"
      [] s \in Active      -> "owned"
      [] s = "SUCCEEDED"   -> "succeeded"
      [] s = "CANCELLED"   -> "cancelled"
      [] s = "DEAD_LETTER" -> "dead"

OwnerOf(row) == IF row.status \in Active THEN row.assigned_worker ELSE NULL

Life == INSTANCE JobLifecycle WITH
    Budgets  <- RetryLimits,
    phase    <- [j \in Jobs |-> PhaseOf(jobs[j].status)],
    owner    <- [j \in Jobs |-> OwnerOf(jobs[j])],
    epoch    <- [j \in Jobs |-> jobs[j].lease_version],
    failures <- [j \in Jobs |-> jobs[j].retry_count],
    budget   <- [j \in Jobs |-> jobs[j].max_retries]

Lifecycle == Life!Spec
===============================================================================
