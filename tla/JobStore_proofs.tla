--------------------------- MODULE JobStore_proofs ----------------------------
(***************************************************************************)
(* Theorems about JobStore, for every set of jobs, workers and tenants,    *)
(* every lease length and every retry limit.                               *)
(***************************************************************************)
EXTENDS JobStore, FiniteSetTheorems, TLAPS

\* The rank given to a new row is a natural number because the table is finite.
LEMMA CreatedRank == Cardinality({i \in Jobs : Exists(i)}) \in Nat
<1>1. {i \in Jobs : Exists(i)} \subseteq Jobs
      OBVIOUS
<1>2. IsFiniteSet({i \in Jobs : Exists(i)})
      BY <1>1, JobStoreAssumption, FS_Subset
<1> QED
    BY <1>2, FS_CardinalityType

LEMMA NoRowType == NoRow \in Row
BY JobStoreAssumption DEF NoRow, Row, Status, Active, Terminal

LEMMA ReclaimedType == ASSUME NEW row \in Row PROVE Reclaimed(row) \in Row
BY JobStoreAssumption DEF Reclaimed, Row, Status

LEMMA AgedType == ASSUME NEW row \in Row PROVE Aged(row) \in Row
<1> DEFINE lease == IF row.lease_left = NULL \/ row.lease_left = -1
                    THEN row.lease_left ELSE row.lease_left - 1
           retry == IF row.retry_left = NULL \/ row.retry_left = 0
                    THEN row.retry_left ELSE row.retry_left - 1
<1>1. lease \in (-1 .. LeaseDuration) \cup {NULL}
      BY JobStoreAssumption DEF Row
<1>2. retry \in Nat \cup {NULL}
      BY JobStoreAssumption DEF Row
<1>3. Aged(row) = [row EXCEPT !.lease_left = lease, !.retry_left = retry]
      BY DEF Aged
<1> HIDE DEF lease, retry
<1> QED
    BY <1>1, <1>2, <1>3 DEF Row

\* Time changes no column but the two it counts down, and loses neither.
LEMMA AgedRow ==
    ASSUME NEW row \in Row
    PROVE  /\ \A f \in DOMAIN NoRow \ {"lease_left", "retry_left"} : Aged(row)[f] = row[f]
           /\ (Aged(row).lease_left = NULL) <=> (row.lease_left = NULL)
<1>1. Aged(row).lease_left = IF row.lease_left = NULL \/ row.lease_left = -1
                             THEN row.lease_left ELSE row.lease_left - 1
      BY DEF Aged, Row
<1>2. row.lease_left \in (-1 .. LeaseDuration) \cup {NULL}
      BY DEF Row
<1>3. (Aged(row).lease_left = NULL) <=> (row.lease_left = NULL)
      BY <1>1, <1>2, JobStoreAssumption
<1>4. \A f \in DOMAIN NoRow \ {"lease_left", "retry_left"} : Aged(row)[f] = row[f]
      BY DEF Aged, Row, NoRow
<1> QED
    BY <1>3, <1>4

\* The columns the invariants read, after time has passed.
LEMMA AgedTable ==
    ASSUME JobTypeOK, Age, NEW j \in Jobs
    PROVE  /\ jobs'[j].status = jobs[j].status
           /\ jobs'[j].assigned_worker = jobs[j].assigned_worker
           /\ jobs'[j].lease_version = jobs[j].lease_version
           /\ jobs'[j].retry_count = jobs[j].retry_count
           /\ jobs'[j].max_retries = jobs[j].max_retries
           /\ (jobs'[j].lease_left = NULL) <=> (jobs[j].lease_left = NULL)
<1>1. jobs[j] \in Row /\ jobs'[j] = Aged(jobs[j])
      BY DEF JobTypeOK, Age
<1> QED
    BY <1>1, AgedRow DEF NoRow

\* The sweep requeues exactly the expired jobs, with their retry_count as it was.
LEMMA ReclaimedTable ==
    ASSUME JobTypeOK, ReclaimExpiredJobs, NEW j \in Jobs
    PROVE  /\ ~Expired(j) => jobs'[j] = jobs[j]
           /\ Expired(j) => /\ jobs'[j].status = "PENDING"
                            /\ jobs'[j].assigned_worker = NULL
                            /\ jobs'[j].lease_left = NULL
                            /\ jobs'[j].lease_version = jobs[j].lease_version
                            /\ jobs'[j].retry_count = jobs[j].retry_count
                            /\ jobs'[j].max_retries = jobs[j].max_retries
<1>1. ASSUME NEW row \in Row
      PROVE  /\ Reclaimed(row).status = "PENDING"
             /\ Reclaimed(row).assigned_worker = NULL
             /\ Reclaimed(row).lease_left = NULL
             /\ Reclaimed(row).lease_version = row.lease_version
             /\ Reclaimed(row).retry_count = row.retry_count
             /\ Reclaimed(row).max_retries = row.max_retries
      BY DEF Reclaimed, Row
<1>2. jobs[j] \in Row /\ jobs'[j] = IF Expired(j) THEN Reclaimed(jobs[j]) ELSE jobs[j]
      BY DEF JobTypeOK, ReclaimExpiredJobs
<1> QED
    BY <1>1, <1>2

\* A delay is a natural number of seconds, even when the product overflows.
LEMMA DelayType == ASSUME NEW n PROVE RetryDelays(n) \subseteq Nat
<1> SUFFICES ASSUME NEW x \in ToDuration(BaseDelay * 2 ^ n),
                    NEW d \in Jittered(Capped(x))
             PROVE  NotNegative(d) \div Second \in Nat
    BY DEF RetryDelays, CalculateBackoff
<1> DEFINE c == Capped(x)
<1>1. c \in Int
      BY BackoffAssumption DEF ToDuration, Capped
<1> HIDE DEF c
<1>2. d \in Int
      BY <1>1 DEF Jittered, c
<1> QED
    BY <1>2, BackoffAssumption DEF NotNegative

\* Division by a second, spelled out.
LEMMA WholeSeconds ==
    ASSUME NEW d \in Nat
    PROVE  /\ (d \div Second) * Second <= d
           /\ d < (d \div Second + 1) * Second
BY BackoffAssumption

\* CalculateBackoff in integers of a fixed width agrees with the formula while
\* the product fits.
LEMMA DelayFormula ==
    ASSUME NEW n, Fits(n), NEW s \in RetryDelays(n)
    PROVE  FollowsFormula(n, s)
<1> DEFINE p == BaseDelay * 2 ^ n
<1>0. PICK x \in ToDuration(p) :
         \E d \in Jittered(Capped(x)) : s = NotNegative(d) \div Second
      BY DEF RetryDelays, CalculateBackoff
<1>1. PICK d \in Jittered(Capped(x)) : s = NotNegative(d) \div Second
      BY <1>0
<1> HIDE DEF p
<1>2. x \in Nat /\ x = p
      BY <1>0, BackoffAssumption DEF ToDuration, Fits, p
<1>3. FollowsFormula(n, s)
      <2> DEFINE f == Formula(n)
      <2>1. f \in Nat /\ Capped(x) = f
            BY <1>2, BackoffAssumption DEF Capped, Formula, p
      <2> HIDE DEF f
      <2>2. d \in Nat /\ f - f \div 4 <= d /\ d <= f + f \div 4 /\ NotNegative(d) = d
            BY <1>1, <2>1 DEF Jittered, NotNegative
      <2>3. s * Second <= d /\ d < (s + 1) * Second /\ s \in Int
            BY <1>1, <2>2, WholeSeconds, BackoffAssumption
      <2>4. s * Second <= f + f \div 4 /\ (s + 1) * Second > f - f \div 4
            <3> DEFINE a == s * Second
                       b == (s + 1) * Second
            <3>1. a \in Int /\ b \in Int
                  BY <2>3, BackoffAssumption
            <3>2. a <= d /\ d < b
                  BY <2>3
            <3> HIDE DEF a, b
            <3>3. a <= f + f \div 4 /\ b > f - f \div 4
                  BY <2>1, <2>2, <3>1, <3>2
            <3> QED
                BY <3>3 DEF a, b
      <2> QED
          BY <2>4 DEF FollowsFormula, f
<1> QED
    BY <1>3

\* Every statement on the jobs table leaves well-formed rows.
LEMMA TypeStep == JobTypeOK /\ [JobNext]_jobs => JobTypeOK'
<1> SUFFICES ASSUME JobTypeOK, [JobNext]_jobs
             PROVE  JobTypeOK'
    OBVIOUS
<1> USE JobStoreAssumption DEF JobTypeOK
<1>1. ASSUME NEW j \in Jobs, NEW t \in Tenants, NEW p \in Priorities, NEW m \in RetryLimits,
             CreateJob(j, t, p, m)
      PROVE  JobTypeOK'
      BY <1>1, CreatedRank, NoRowType DEF CreateJob, Row, NoRow, Status
<1>2. ASSUME NEW j \in Jobs, NEW w \in Workers, NEW locked \in SUBSET Jobs,
             ClaimNextJob(j, w, locked)
      PROVE  JobTypeOK'
      BY <1>2 DEF ClaimNextJob, Row, Status, Active
<1>3. ASSUME NEW j \in Jobs, NEW w \in Workers, NEW v \in 1 .. MaxLeaseVersion,
             MarkJobRunning(j, w, v)
      PROVE  JobTypeOK'
      BY <1>3 DEF MarkJobRunning, Row, Status, Active
<1>4. ASSUME NEW j \in Jobs, NEW w \in Workers, NEW v \in 1 .. MaxLeaseVersion,
             CompleteJob(j, w, v)
      PROVE  JobTypeOK'
      BY <1>4 DEF CompleteJob, Row, Status, Terminal
<1>5. ASSUME NEW j \in Jobs, NEW w \in Workers, NEW v \in 1 .. MaxLeaseVersion,
             NEW d \in RetryDelays(jobs[j].retry_count), FailJob(j, w, v, d)
      PROVE  JobTypeOK'
      BY <1>5, DelayType DEF FailJob, Row, Status, Terminal
<1>6. ASSUME NEW j \in Jobs, NEW w \in Workers, NEW v \in 1 .. MaxLeaseVersion,
             RenewLease(j, w, v)
      PROVE  JobTypeOK'
      BY <1>6 DEF RenewLease, Row
<1>7. ASSUME NEW j \in Jobs, NEW t \in Tenants, CancelJob(j, t)
      PROVE  JobTypeOK'
      BY <1>7 DEF CancelJob, Row, Status, Terminal
<1>8. CASE ReclaimExpiredJobs
      BY <1>8, ReclaimedType DEF ReclaimExpiredJobs
<1>9. CASE Age
      BY <1>9, AgedType DEF Age
<1>10. CASE UNCHANGED jobs
      BY <1>10
<1> QED
    BY <1>1, <1>2, <1>3, <1>4, <1>5, <1>6, <1>7, <1>8, <1>9, <1>10 DEF JobNext

-------------------------------------------------------------------------------
\* The lease columns never disagree with the status: the inductive step.
LEMMA LeaseShapeStep == JobTypeOK /\ LeaseShape /\ [JobNext]_jobs => LeaseShape'
<1> SUFFICES ASSUME JobTypeOK, LeaseShape, [JobNext]_jobs
             PROVE  LeaseShape'
    OBVIOUS
<1> USE JobStoreAssumption DEF JobTypeOK, LeaseShape, IsActive, Active
<1>1. ASSUME NEW j \in Jobs, NEW t \in Tenants, NEW p \in Priorities, NEW m \in RetryLimits,
             CreateJob(j, t, p, m)
      PROVE  LeaseShape'
      BY <1>1 DEF CreateJob, NoRow
<1>2. ASSUME NEW j \in Jobs, NEW w \in Workers, NEW locked \in SUBSET Jobs,
             ClaimNextJob(j, w, locked)
      PROVE  LeaseShape'
      BY <1>2 DEF ClaimNextJob, Row
<1>3. ASSUME NEW j \in Jobs, NEW w \in Workers, NEW v \in 1 .. MaxLeaseVersion,
             MarkJobRunning(j, w, v)
      PROVE  LeaseShape'
      BY <1>3 DEF MarkJobRunning, Fenced, Row
<1>4. ASSUME NEW j \in Jobs, NEW w \in Workers, NEW v \in 1 .. MaxLeaseVersion,
             CompleteJob(j, w, v)
      PROVE  LeaseShape'
      BY <1>4 DEF CompleteJob, Fenced, Row
<1>5. ASSUME NEW j \in Jobs, NEW w \in Workers, NEW v \in 1 .. MaxLeaseVersion,
             NEW d \in RetryDelays(jobs[j].retry_count), FailJob(j, w, v, d)
      PROVE  LeaseShape'
      BY <1>5 DEF FailJob, Row
<1>6. ASSUME NEW j \in Jobs, NEW w \in Workers, NEW v \in 1 .. MaxLeaseVersion,
             RenewLease(j, w, v)
      PROVE  LeaseShape'
      BY <1>6 DEF RenewLease, Fenced, Row
<1>7. ASSUME NEW j \in Jobs, NEW t \in Tenants, CancelJob(j, t)
      PROVE  LeaseShape'
      BY <1>7 DEF CancelJob, Row
<1>8. CASE ReclaimExpiredJobs
  <2>1. ASSUME NEW j \in Jobs
        PROVE  \/ jobs'[j] = jobs[j]
               \/ /\ jobs'[j].status = "PENDING"
                  /\ jobs'[j].assigned_worker = NULL
                  /\ jobs'[j].lease_left = NULL
    BY <1>8, ReclaimedTable
  <2> QED  BY <2>1
<1>9. CASE Age
      BY <1>9, AgedTable
<1>10. CASE UNCHANGED jobs
      BY <1>10
<1> QED
    BY <1>1, <1>2, <1>3, <1>4, <1>5, <1>6, <1>7, <1>8, <1>9, <1>10 DEF JobNext

\* A job dies exactly at its retry budget: the inductive step.
LEMMA RetryBudgetStep == JobTypeOK /\ RetryBudget /\ [JobNext]_jobs => RetryBudget'
<1> SUFFICES ASSUME JobTypeOK, RetryBudget, [JobNext]_jobs
             PROVE  RetryBudget'
    OBVIOUS
<1> USE JobStoreAssumption DEF JobTypeOK, RetryBudget, Active
<1>1. ASSUME NEW j \in Jobs, NEW t \in Tenants, NEW p \in Priorities, NEW m \in RetryLimits,
             CreateJob(j, t, p, m)
      PROVE  RetryBudget'
      BY <1>1 DEF CreateJob, NoRow
<1>2. ASSUME NEW j \in Jobs, NEW w \in Workers, NEW locked \in SUBSET Jobs,
             ClaimNextJob(j, w, locked)
      PROVE  RetryBudget'
      BY <1>2 DEF ClaimNextJob, FirstClaimable, Claimable, Row
<1>3. ASSUME NEW j \in Jobs, NEW w \in Workers, NEW v \in 1 .. MaxLeaseVersion,
             MarkJobRunning(j, w, v)
      PROVE  RetryBudget'
      BY <1>3 DEF MarkJobRunning, Fenced, Row
<1>4. ASSUME NEW j \in Jobs, NEW w \in Workers, NEW v \in 1 .. MaxLeaseVersion,
             CompleteJob(j, w, v)
      PROVE  RetryBudget'
      BY <1>4 DEF CompleteJob, Fenced, Row
<1>5. ASSUME NEW j \in Jobs, NEW w \in Workers, NEW v \in 1 .. MaxLeaseVersion,
             NEW d \in RetryDelays(jobs[j].retry_count), FailJob(j, w, v, d)
      PROVE  RetryBudget'
  <2>1. /\ jobs[j] \in Row /\ jobs[j].status \in Active
        /\ jobs'[j].status = IF BudgetSpent(j) THEN "DEAD_LETTER" ELSE "PENDING"
        /\ jobs'[j].retry_count = jobs[j].retry_count + 1
        /\ jobs'[j].max_retries = jobs[j].max_retries
    BY <1>5 DEF FailJob, Fenced, Row
  <2>2. \A i \in Jobs \ {j} : jobs'[i] = jobs[i]
    BY <1>5 DEF FailJob
  <2>3. jobs[j].retry_count \in Nat /\ jobs[j].max_retries \in Int
    <3>1. \A row \in Row : row.retry_count \in Nat /\ row.max_retries \in RetryLimits \cup {0}
      BY DEF Row
    <3>2. RetryLimits \cup {0} \subseteq Int
      BY JobStoreAssumption
    <3> QED  BY <2>1, <3>1, <3>2
  <2>4. jobs[j].retry_count = 0 \/ jobs[j].retry_count < jobs[j].max_retries
    BY <2>1 DEF Active
  <2> QED  BY <2>1, <2>2, <2>3, <2>4 DEF BudgetSpent
<1>6. ASSUME NEW j \in Jobs, NEW w \in Workers, NEW v \in 1 .. MaxLeaseVersion,
             RenewLease(j, w, v)
      PROVE  RetryBudget'
      BY <1>6 DEF RenewLease, Row
<1>7. ASSUME NEW j \in Jobs, NEW t \in Tenants, CancelJob(j, t)
      PROVE  RetryBudget'
      BY <1>7 DEF CancelJob, Terminal, Row
<1>8. CASE ReclaimExpiredJobs
      BY <1>8, ReclaimedTable DEF Expired, IsActive
<1>9. CASE Age
      BY <1>9, AgedTable
<1>10. CASE UNCHANGED jobs
      BY <1>10
<1> QED
    BY <1>1, <1>2, <1>3, <1>4, <1>5, <1>6, <1>7, <1>8, <1>9, <1>10 DEF JobNext

\* A key that was never submitted has no trace in the table: nothing but
\* CreateJob touches it.
AbsentEmpty == \A j \in Jobs : Exists(j) \/ jobs[j] = NoRow

LEMMA AbsentEmptyStep == JobTypeOK /\ AbsentEmpty /\ [JobNext]_jobs => AbsentEmpty'
<1> SUFFICES ASSUME JobTypeOK, AbsentEmpty, [JobNext]_jobs,
                    NEW i \in Jobs
             PROVE  (Exists(i) \/ jobs[i] = NoRow)'
    BY DEF AbsentEmpty
<1> USE DEF JobTypeOK, AbsentEmpty, Exists, Active
<1>1. ASSUME NEW j \in Jobs, NEW t \in Tenants, NEW p \in Priorities, NEW m \in RetryLimits,
             CreateJob(j, t, p, m)
      PROVE  (Exists(i) \/ jobs[i] = NoRow)'
      BY <1>1 DEF CreateJob, NoRow
<1>2. ASSUME NEW j \in Jobs, NEW w \in Workers, NEW locked \in SUBSET Jobs,
             ClaimNextJob(j, w, locked)
      PROVE  (Exists(i) \/ jobs[i] = NoRow)'
      BY <1>2 DEF ClaimNextJob, Row
<1>3. ASSUME NEW j \in Jobs, NEW w \in Workers, NEW v \in 1 .. MaxLeaseVersion,
             \/ MarkJobRunning(j, w, v)
             \/ CompleteJob(j, w, v)
             \/ \E d \in RetryDelays(jobs[j].retry_count) : FailJob(j, w, v, d)
             \/ RenewLease(j, w, v)
      PROVE  (Exists(i) \/ jobs[i] = NoRow)'
      <2>1. i # j => jobs'[i] = jobs[i]
            BY <1>3 DEF MarkJobRunning, CompleteJob, FailJob, RenewLease
      <2>2. Exists(j)
            BY <1>3 DEF MarkJobRunning, CompleteJob, FailJob, RenewLease, Fenced
      <2>3. Exists(j)'
            BY <1>3, <2>2 DEF MarkJobRunning, CompleteJob, FailJob, RenewLease, Row
      <2> QED
          BY <2>1, <2>3
<1>4. ASSUME NEW j \in Jobs, NEW t \in Tenants, CancelJob(j, t)
      PROVE  (Exists(i) \/ jobs[i] = NoRow)'
      BY <1>4 DEF CancelJob, Row
<1>5. CASE ReclaimExpiredJobs
      BY <1>5, ReclaimedTable
<1>6. CASE Age
      <2>1. jobs[i] = NoRow => Aged(jobs[i]) = NoRow
            <3>1. ASSUME NEW row \in Row, row.lease_left = NULL, row.retry_left = NULL
                  PROVE  Aged(row) = row
                  BY <3>1 DEF Aged, Row
            <3>2. NoRow.lease_left = NULL /\ NoRow.retry_left = NULL
                  BY DEF NoRow
            <3> QED
                BY <3>1, <3>2, NoRowType
      <2>2. jobs'[i] = Aged(jobs[i])
            BY <1>6 DEF Age
      <2>3. jobs'[i].status = jobs[i].status
            BY <1>6, AgedTable
      <2> QED
          BY <2>1, <2>2, <2>3
<1>7. CASE UNCHANGED jobs
      BY <1>7
<1> QED
    BY <1>1, <1>2, <1>3, <1>4, <1>5, <1>6, <1>7 DEF JobNext

(***************************************************************************)
(* The jobs table is well formed, its lease columns agree with the status, *)
(* and retries are charged exactly, in every state the statements of       *)
(* jobstore.go can reach with any callers.                                 *)
(***************************************************************************)
JobInv == JobTypeOK /\ LeaseShape /\ RetryBudget /\ AbsentEmpty

THEOREM JobStoreInv == JobSpec => []JobInv
<1>1. JobInit => JobInv
      BY NoRowType DEF JobInit, JobInv, JobTypeOK, LeaseShape, RetryBudget,
                       AbsentEmpty, NoRow, IsActive, Active
<1>2. JobInv /\ [JobNext]_jobs => JobInv'
      BY TypeStep, LeaseShapeStep, RetryBudgetStep, AbsentEmptyStep DEF JobInv
<1> QED
    BY <1>1, <1>2, PTL DEF JobSpec

\* Rows are always well formed.
THEOREM JobTypeCorrect == JobSpec => []JobTypeOK
BY JobStoreInv, PTL DEF JobInv

\* ClaimNextJob, the verdicts, CancelJob and the sweep keep worker, lease and
\* status in step, so an active job can always be reclaimed.
THEOREM LeaseShapeHolds == JobSpec => []LeaseShape
BY JobStoreInv, PTL DEF JobInv

\* The only step that adds to retry_count is a failure, with a delay of its own.
LEMMA RetryWaitStep ==
    ASSUME JobInv, [JobNext]_jobs, NEW j \in Jobs,
           Requeues(j), Fits(jobs[j].retry_count)
    PROVE  FollowsFormula(jobs[j].retry_count, jobs'[j].retry_left)
<1> USE DEF JobInv, JobTypeOK, Requeues
<1>0. jobs[j].retry_count \in Nat
      BY DEF Row
<1>1. ASSUME NEW i \in Jobs, NEW w \in Workers, NEW v \in 1 .. MaxLeaseVersion,
             NEW d \in RetryDelays(jobs[i].retry_count), FailJob(i, w, v, d)
      PROVE  FollowsFormula(jobs[j].retry_count, jobs'[j].retry_left)
      <2>1. i = j
            BY <1>0, <1>1 DEF FailJob
      <2>2. jobs'[j].retry_left = d
            BY <1>1, <2>1 DEF FailJob, Row
      <2> QED
          BY <1>1, <2>1, <2>2, DelayFormula
<1>2. ASSUME NEW i \in Jobs, NEW t \in Tenants, NEW p \in Priorities, NEW m \in RetryLimits,
             CreateJob(i, t, p, m)
      PROVE  FALSE
      BY <1>0, <1>2 DEF CreateJob, NoRow
<1>3. ASSUME NEW i \in Jobs, NEW w \in Workers, NEW locked \in SUBSET Jobs,
             ClaimNextJob(i, w, locked)
      PROVE  FALSE
      BY <1>0, <1>3 DEF ClaimNextJob, Row
<1>4. ASSUME NEW i \in Jobs, NEW w \in Workers, NEW v \in 1 .. MaxLeaseVersion,
             MarkJobRunning(i, w, v) \/ CompleteJob(i, w, v) \/ RenewLease(i, w, v)
      PROVE  FALSE
      BY <1>0, <1>4 DEF MarkJobRunning, CompleteJob, RenewLease, Row
<1>5. ASSUME NEW i \in Jobs, NEW t \in Tenants, CancelJob(i, t)
      PROVE  FALSE
      BY <1>0, <1>5 DEF CancelJob, Row
<1>6. CASE ReclaimExpiredJobs
      BY <1>0, <1>6, ReclaimedTable
<1>7. CASE Age
      BY <1>0, <1>7, AgedTable
<1>8. CASE UNCHANGED jobs
      BY <1>0, <1>8
<1> QED
    BY <1>1, <1>2, <1>3, <1>4, <1>5, <1>6, <1>7, <1>8 DEF JobNext

\* Every retry whose product fits a time.Duration waits for what CalculateBackoff's
\* formula says, for any base, maximum and width, and for any number of failures.
\* Beyond that width the formula does not hold (run BackoffOverflow).
THEOREM RetryWaitsHolds == JobSpec => RetryWaits
<1>1. JobInv /\ [JobNext]_jobs =>
        [\A j \in Jobs :
            Requeues(j) /\ Fits(jobs[j].retry_count)
               => FollowsFormula(jobs[j].retry_count, jobs'[j].retry_left)]_jobs
      BY RetryWaitStep
<1> QED
    BY <1>1, JobStoreInv, PTL DEF JobSpec, RetryWaits

\* FailJob dead-letters a job at the failure that exhausts max_retries.
THEOREM RetryBudgetHolds == JobSpec => []RetryBudget
BY JobStoreInv, PTL DEF JobInv
-------------------------------------------------------------------------------
\* The image of each status.
LEMMA PhaseValues ==
    /\ PhaseOf("ABSENT") = "absent"
    /\ PhaseOf("PENDING") = "queued"
    /\ PhaseOf("DISPATCHED") = "owned"
    /\ PhaseOf("RUNNING") = "owned"
    /\ PhaseOf("SUCCEEDED") = "succeeded"
    /\ PhaseOf("CANCELLED") = "cancelled"
    /\ PhaseOf("DEAD_LETTER") = "dead"
BY DEF PhaseOf, Active

\* A statement that changes one row changes the image of that row only.
LEMMA OneRow ==
    ASSUME NEW j \in Jobs, \A i \in Jobs \ {j} : jobs'[i] = jobs[i],
           NEW p, NEW o, NEW e, NEW f, NEW b,
           PhaseOf(jobs'[j].status) = p, OwnerOf(jobs'[j]) = o,
           jobs'[j].lease_version = e, jobs'[j].retry_count = f, jobs'[j].max_retries = b
    PROVE  /\ [i \in Jobs |-> PhaseOf(jobs'[i].status)]
                = [[i \in Jobs |-> PhaseOf(jobs[i].status)] EXCEPT ![j] = p]
           /\ [i \in Jobs |-> OwnerOf(jobs'[i])]
                = [[i \in Jobs |-> OwnerOf(jobs[i])] EXCEPT ![j] = o]
           /\ [i \in Jobs |-> jobs'[i].lease_version]
                = [[i \in Jobs |-> jobs[i].lease_version] EXCEPT ![j] = e]
           /\ [i \in Jobs |-> jobs'[i].retry_count]
                = [[i \in Jobs |-> jobs[i].retry_count] EXCEPT ![j] = f]
           /\ [i \in Jobs |-> jobs'[i].max_retries]
                = [[i \in Jobs |-> jobs[i].max_retries] EXCEPT ![j] = b]
OBVIOUS

\* ... and leaves the image alone when it keeps what the image shows of that row.
LEMMA SameImage ==
    ASSUME \A i \in Jobs : /\ PhaseOf(jobs'[i].status) = PhaseOf(jobs[i].status)
                           /\ OwnerOf(jobs'[i]) = OwnerOf(jobs[i])
                           /\ jobs'[i].lease_version = jobs[i].lease_version
                           /\ jobs'[i].retry_count = jobs[i].retry_count
                           /\ jobs'[i].max_retries = jobs[i].max_retries
    PROVE  UNCHANGED Life!vars
BY DEF Life!vars

LEMMA GrantStep ==
    ASSUME JobInv, NEW j \in Jobs, NEW w \in Workers, NEW locked \in SUBSET Jobs,
           ClaimNextJob(j, w, locked)
    PROVE  Life!Grant(j, w)
<1>1. /\ jobs[j].status = "PENDING"
      /\ \A i \in Jobs \ {j} : jobs'[i] = jobs[i]
      /\ jobs'[j].status = "DISPATCHED"
      /\ jobs'[j].assigned_worker = w
      /\ jobs'[j].lease_version = jobs[j].lease_version + 1
      /\ jobs'[j].retry_count = jobs[j].retry_count
      /\ jobs'[j].max_retries = jobs[j].max_retries
      BY DEF ClaimNextJob, FirstClaimable, Claimable, JobInv, JobTypeOK, Row
<1>2. PhaseOf(jobs[j].status) = "queued"
      BY <1>1, PhaseValues DEF Active
<1>3. PhaseOf(jobs'[j].status) = "owned" /\ OwnerOf(jobs'[j]) = w
      BY <1>1, PhaseValues DEF OwnerOf, Active
<1> QED
    BY <1>1, <1>2, <1>3, OneRow DEF Life!Grant

LEMMA SucceedStep ==
    ASSUME JobInv, NEW j \in Jobs, NEW w \in Workers, NEW v \in 1 .. MaxLeaseVersion,
           CompleteJob(j, w, v)
    PROVE  Life!Succeed(j)
<1>1. /\ jobs[j].status \in Active
      /\ \A i \in Jobs \ {j} : jobs'[i] = jobs[i]
      /\ jobs'[j].status = "SUCCEEDED"
      /\ jobs'[j].lease_version = jobs[j].lease_version
      /\ jobs'[j].retry_count = jobs[j].retry_count
      /\ jobs'[j].max_retries = jobs[j].max_retries
      BY DEF CompleteJob, Fenced, JobInv, JobTypeOK, Row
<1>2. PhaseOf(jobs[j].status) = "owned"
      BY <1>1, PhaseValues DEF Active
<1>3. PhaseOf(jobs'[j].status) = "succeeded" /\ OwnerOf(jobs'[j]) = NULL
      BY <1>1, PhaseValues DEF OwnerOf, Active
<1> QED
    BY <1>1, <1>2, <1>3, OneRow DEF Life!Succeed

LEMMA FailStep ==
    ASSUME JobInv, NEW j \in Jobs, NEW w \in Workers, NEW v \in 1 .. MaxLeaseVersion,
           NEW d \in RetryDelays(jobs[j].retry_count), FailJob(j, w, v, d)
    PROVE  Life!FailAttempt(j)
<1>1. /\ jobs[j].status \in Active
      /\ \A i \in Jobs \ {j} : jobs'[i] = jobs[i]
      /\ jobs'[j].status = IF BudgetSpent(j) THEN "DEAD_LETTER" ELSE "PENDING"
      /\ jobs'[j].lease_version = jobs[j].lease_version
      /\ jobs'[j].retry_count = jobs[j].retry_count + 1
      /\ jobs'[j].max_retries = jobs[j].max_retries
      BY DEF FailJob, Fenced, JobInv, JobTypeOK, Row
<1>2. PhaseOf(jobs[j].status) = "owned"
      BY <1>1, PhaseValues DEF Active
<1>3. /\ PhaseOf(jobs'[j].status) = (IF BudgetSpent(j) THEN "dead" ELSE "queued")
      /\ OwnerOf(jobs'[j]) = NULL
      BY <1>1, PhaseValues DEF OwnerOf, Active
<1>4. [i \in Jobs |-> PhaseOf(jobs'[i].status)]
        = [[i \in Jobs |-> PhaseOf(jobs[i].status)] EXCEPT
             ![j] = IF jobs[j].retry_count + 1 >= jobs[j].max_retries THEN "dead" ELSE "queued"]
      BY <1>1, <1>3 DEF BudgetSpent
<1>5. [i \in Jobs |-> OwnerOf(jobs'[i])] = [[i \in Jobs |-> OwnerOf(jobs[i])] EXCEPT ![j] = NULL]
      BY <1>1, <1>3
<1>6. [i \in Jobs |-> jobs'[i].retry_count]
        = [[i \in Jobs |-> jobs[i].retry_count] EXCEPT ![j] = jobs[j].retry_count + 1]
      BY <1>1
<1>7. /\ [i \in Jobs |-> jobs'[i].lease_version] = [i \in Jobs |-> jobs[i].lease_version]
      /\ [i \in Jobs |-> jobs'[i].max_retries] = [i \in Jobs |-> jobs[i].max_retries]
      BY <1>1
<1> QED
    BY <1>2, <1>4, <1>5, <1>6, <1>7 DEF Life!FailAttempt

LEMMA CancelStep ==
    ASSUME JobInv, NEW j \in Jobs, NEW t \in Tenants,
           CancelJob(j, t)
    PROVE  Life!Cancel(j)
<1>1. /\ jobs[j].status \in {"PENDING", "DISPATCHED", "RUNNING"}
      /\ \A i \in Jobs \ {j} : jobs'[i] = jobs[i]
      /\ jobs'[j].status = "CANCELLED"
      /\ jobs'[j].lease_version = jobs[j].lease_version
      /\ jobs'[j].retry_count = jobs[j].retry_count
      /\ jobs'[j].max_retries = jobs[j].max_retries
      BY DEF CancelJob, Exists, Terminal, Status, Active, JobInv, JobTypeOK, Row
<1>2. PhaseOf(jobs[j].status) \in {"queued", "owned"}
      BY <1>1, PhaseValues DEF Active
<1>3. PhaseOf(jobs'[j].status) = "cancelled" /\ OwnerOf(jobs'[j]) = NULL
      BY <1>1, PhaseValues DEF OwnerOf, Active
<1> QED
    BY <1>1, <1>2, <1>3, OneRow DEF Life!Cancel

LEMMA SubmitStep ==
    ASSUME JobInv, NEW j \in Jobs, NEW t \in Tenants, NEW p \in Priorities,
           NEW m \in RetryLimits, CreateJob(j, t, p, m)
    PROVE  Life!Submit(j, m)
<1>0. jobs[j] = NoRow
      BY DEF CreateJob, JobInv, AbsentEmpty
<1>1. /\ \A i \in Jobs \ {j} : jobs'[i] = jobs[i]
      /\ jobs'[j].status = "PENDING"
      /\ jobs'[j].lease_version = jobs[j].lease_version
      /\ jobs'[j].retry_count = jobs[j].retry_count
      /\ jobs'[j].max_retries = m
      BY <1>0 DEF CreateJob, NoRow, JobInv, JobTypeOK
<1>2. PhaseOf(jobs[j].status) = "absent" /\ OwnerOf(jobs[j]) = NULL
      BY <1>0, PhaseValues DEF OwnerOf, Active, NoRow
<1>3. PhaseOf(jobs'[j].status) = "queued" /\ OwnerOf(jobs'[j]) = NULL
      BY <1>1, PhaseValues DEF OwnerOf, Active
<1>4. [i \in Jobs |-> OwnerOf(jobs'[i])] = [i \in Jobs |-> OwnerOf(jobs[i])]
      BY <1>1, <1>2, <1>3
<1>5. [i \in Jobs |-> PhaseOf(jobs'[i].status)]
        = [[i \in Jobs |-> PhaseOf(jobs[i].status)] EXCEPT ![j] = "queued"]
      BY <1>1, <1>3
<1>6. [i \in Jobs |-> jobs'[i].max_retries] = [[i \in Jobs |-> jobs[i].max_retries] EXCEPT ![j] = m]
      BY <1>1
<1>7. /\ [i \in Jobs |-> jobs'[i].lease_version] = [i \in Jobs |-> jobs[i].lease_version]
      /\ [i \in Jobs |-> jobs'[i].retry_count] = [i \in Jobs |-> jobs[i].retry_count]
      BY <1>1
<1> QED
    BY <1>2, <1>4, <1>5, <1>6, <1>7 DEF Life!Submit

LEMMA ReleaseStep ==
    ASSUME JobInv, ReclaimExpiredJobs
    PROVE  Life!Release({j \in Jobs : Expired(j)})
<1> DEFINE S == {j \in Jobs : Expired(j)}
<1>1. \A j \in S : jobs[j].status \in Active /\ PhaseOf(jobs[j].status) = "owned"
      BY PhaseValues DEF Expired, IsActive, Active
<1>2. \A j \in S : PhaseOf(jobs'[j].status) = "queued" /\ OwnerOf(jobs'[j]) = NULL
      BY ReclaimedTable, PhaseValues DEF JobInv, OwnerOf, Active
<1>3. \A j \in Jobs \ S : jobs'[j] = jobs[j]
      BY ReclaimedTable DEF JobInv
<1>4. \A j \in Jobs : /\ jobs'[j].lease_version = jobs[j].lease_version
                      /\ jobs'[j].retry_count = jobs[j].retry_count
                      /\ jobs'[j].max_retries = jobs[j].max_retries
      BY ReclaimedTable DEF JobInv
<1> HIDE DEF S
<1>5. [i \in Jobs |-> PhaseOf(jobs'[i].status)]
        = [j \in Jobs |-> IF j \in S THEN "queued"
                          ELSE [i \in Jobs |-> PhaseOf(jobs[i].status)][j]]
      BY <1>2, <1>3
<1>6. [i \in Jobs |-> OwnerOf(jobs'[i])]
        = [j \in Jobs |-> IF j \in S THEN NULL ELSE [i \in Jobs |-> OwnerOf(jobs[i])][j]]
      BY <1>2, <1>3
<1>7. \A j \in S : [i \in Jobs |-> PhaseOf(jobs[i].status)][j] = "owned"
      BY <1>1 DEF S
<1>8. Life!Release(S)
      BY <1>4, <1>5, <1>6, <1>7 DEF Life!Release
<1> QED
    BY <1>8 DEF S

\* Steps of the table that the life cycle does not see.
LEMMA StutterStep ==
    ASSUME JobInv, NEW j \in Jobs, NEW w \in Workers, NEW v \in 1 .. MaxLeaseVersion,
           MarkJobRunning(j, w, v) \/ RenewLease(j, w, v)
    PROVE  UNCHANGED Life!vars
<1>1. /\ \A i \in Jobs \ {j} : jobs'[i] = jobs[i]
      /\ jobs[j].status \in Active
      /\ jobs'[j].status \in Active
      /\ jobs'[j].assigned_worker = jobs[j].assigned_worker
      /\ jobs'[j].lease_version = jobs[j].lease_version
      /\ jobs'[j].retry_count = jobs[j].retry_count
      /\ jobs'[j].max_retries = jobs[j].max_retries
      BY DEF MarkJobRunning, RenewLease, Fenced, JobInv, JobTypeOK, Row, Active
<1>2. /\ PhaseOf(jobs[j].status) = "owned"
      /\ PhaseOf(jobs'[j].status) = "owned"
      BY <1>1, PhaseValues DEF Active
<1> QED
    BY <1>1, <1>2, SameImage DEF OwnerOf

LEMMA LifeStep == JobInv /\ [JobNext]_jobs => [Life!Next]_(Life!vars)
<1> SUFFICES ASSUME JobInv, [JobNext]_jobs
             PROVE  Life!Next \/ UNCHANGED Life!vars
    OBVIOUS
<1>1. ASSUME NEW j \in Jobs, NEW t \in Tenants, NEW p \in Priorities, NEW m \in RetryLimits,
             CreateJob(j, t, p, m)
      PROVE  Life!Next
      BY <1>1, SubmitStep DEF Life!Next
<1>2. ASSUME NEW j \in Jobs, NEW w \in Workers, NEW locked \in SUBSET Jobs,
             ClaimNextJob(j, w, locked)
      PROVE  Life!Next
      BY <1>2, GrantStep DEF Life!Next
<1>3. ASSUME NEW j \in Jobs, NEW w \in Workers, NEW v \in 1 .. MaxLeaseVersion,
             \/ CompleteJob(j, w, v)
             \/ \E d \in RetryDelays(jobs[j].retry_count) : FailJob(j, w, v, d)
      PROVE  Life!Next
      BY <1>3, SucceedStep, FailStep DEF Life!Next
<1>4. ASSUME NEW j \in Jobs, NEW t \in Tenants, CancelJob(j, t)
      PROVE  Life!Next
      BY <1>4, CancelStep DEF Life!Next
<1>5. ASSUME ReclaimExpiredJobs
      PROVE  Life!Next
      BY <1>5, ReleaseStep DEF Life!Next
<1>6. ASSUME Age
      PROVE  UNCHANGED Life!vars
      BY <1>6, AgedTable, SameImage DEF JobInv, OwnerOf
<1>7. ASSUME UNCHANGED jobs
      PROVE  UNCHANGED Life!vars
      BY <1>7, SameImage
<1> QED
    BY <1>1, <1>2, <1>3, <1>4, <1>5, <1>6, <1>7, StutterStep DEF JobNext

(***************************************************************************)
(* The jobs table implements the life cycle: with any callers, a job has   *)
(* one owner at a time, every claim opens a new epoch (lease_version),     *)
(* lapsed leases are free, death comes exactly at max_retries, and a       *)
(* finished job never changes.                                             *)
(***************************************************************************)
THEOREM JobStoreImplementsLifecycle == JobSpec => Lifecycle
<1>1. JobInit => Life!Init
      BY PhaseValues DEF JobInit, NoRow, Life!Init, OwnerOf, Active
<1> QED
    BY <1>1, JobStoreInv, LifeStep, PTL DEF JobSpec, Lifecycle, Life!Spec
===============================================================================
