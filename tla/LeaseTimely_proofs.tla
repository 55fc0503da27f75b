--------------------------- MODULE LeaseTimely_proofs -------------------------
(***************************************************************************)
(* What LeaseProtocol adds to the fence when RPCs and runs keep their      *)
(* deadlines and the deadlines of a dispatch, a run and a report fit into  *)
(* a lease together: no double execution and no verdict thrown away.       *)
(*                                                                         *)
(* A token is open until its verdict is in.  The argument is that an open  *)
(* token keeps its job: the lease has at least as long to go as all that   *)
(* the token still has before it, so the sweep cannot take the job, and a  *)
(* job with an open token is never claimed again.                          *)
(***************************************************************************)
EXTENDS LeaseProtocol_proofs

\* The hypotheses: see Tick, and cfg.LeaseDuration covers cfg.DispatchTimeout, the
\* job's run_timeout_ms and the timeout of reportResult.  The code enforces none
\* of this: with the defaults (30 s against 10 s, 5 minutes and 3 s) it fails.
DeadlinesWithinLease ==
    /\ Timely
    /\ DispatchTimeout + RunTimeout + ReportTimeout <= LeaseDuration

Runs     == {e \in execs : e.phase = "running"}
Verdicts == results \cup {h \in handlers : h.stage = "read"}
Open     == dispatches \cup Runs \cup Verdicts

\* The job is this token's, or was when a client cancelled it.
Owns(x) ==
    /\ jobs[x.job].lease_version = x.version
    /\ jobs[x.job].assigned_worker = x.worker
    /\ jobs[x.job].status \in Active \cup {"CANCELLED"}

OpenOwns == \A x \in Open : Owns(x)

\* The lease has n ticks to go.
LeaseFor(j, n) == IsActive(j) => n <= jobs[j].lease_left

\* The lease lasts as long as the token needs it.
LeaseLasts ==
    /\ \A d \in dispatches : LeaseFor(d.job, d.left + RunTimeout + ReportTimeout)
    /\ \A e \in Runs : LeaseFor(e.job, e.left + ReportTimeout)
    /\ \A x \in Verdicts : LeaseFor(x.job, x.left)

\* A lease has one verdict.
JudgedOnce == \A x, y \in results \cup handlers : SameToken(x, y) => x = y

TimelyInv == OpenOwns /\ LeaseLasts /\ JudgedOnce
-------------------------------------------------------------------------------
LEMMA OpenTypes ==
    ASSUME TypeOK
    PROVE  /\ \A x \in Open : x \in Tokens /\ x.job \in Jobs
           /\ \A d \in dispatches : d.left \in 0 .. DispatchTimeout
           /\ \A e \in Runs : e.left \in 0 .. RunTimeout
           /\ \A x \in Verdicts : x.left \in 0 .. ReportTimeout
BY DEF TypeOK, Open, Runs, Verdicts, Tokens, Token, Exec, Result, Handler

\* What is before a token is some number of ticks, and no longer than a lease.
LEMMA OpenNeeds ==
    ASSUME DeadlinesWithinLease, TypeOK
    PROVE  /\ RunTimeout \in Nat /\ ReportTimeout \in Nat /\ DispatchTimeout \in Nat
           /\ \A d \in dispatches : /\ d.left \in Nat
                                    /\ d.left + RunTimeout + ReportTimeout <= LeaseDuration
           /\ \A e \in Runs : e.left \in Nat /\ e.left + ReportTimeout <= LeaseDuration
           /\ \A x \in Verdicts : x.left \in Nat /\ x.left <= LeaseDuration
BY OpenTypes, LeaseProtocolAssumption, JobStoreAssumption DEF DeadlinesWithinLease

\* A job has at most one open token.
LEMMA OpenAlone ==
    ASSUME ProtocolInv, OpenOwns, JudgedOnce, NEW x \in Open, NEW y \in Open,
           x.job = y.job
    PROVE  x = y
<1>1. SameToken(x, y) /\ SameToken(y, x)
      BY DEF OpenOwns, Owns, SameToken
<1>2. ASSUME NEW d \in dispatches, NEW c \in dispatches, SameToken(c, d)
      PROVE  c = d
      BY <1>2 DEF ProtocolInv, SpentOnce, SentOnce
<1>3. ASSUME NEW d \in dispatches, NEW z \in Runs \cup Verdicts, SameToken(d, z)
      PROVE  FALSE
      BY <1>3 DEF ProtocolInv, SpentOnce, LeaseSpentOnce, NotYetRun, Runs, Verdicts
<1>4. ASSUME NEW e \in Runs, NEW f \in Runs, SameToken(e, f)
      PROVE  e = f
      BY <1>4 DEF ProtocolInv, SpentOnce, LeaseSpentOnce, Runs
<1>5. ASSUME NEW e \in Runs, NEW z \in Verdicts, SameToken(z, e)
      PROVE  FALSE
      BY <1>5 DEF ProtocolInv, SpentOnce, LeaseSpentOnce, Answered, Runs, Verdicts
<1>6. ASSUME NEW e \in Verdicts, NEW f \in Verdicts, SameToken(e, f)
      PROVE  e = f
      BY <1>6 DEF JudgedOnce, Verdicts
<1> QED
    BY <1>1, <1>2, <1>3, <1>4, <1>5, <1>6 DEF Open

\* What a step leaves of the lease of a job whose token may be open.
KeepsLease(j) ==
    jobs[j].status \in Active \cup {"CANCELLED"} =>
       /\ jobs'[j].lease_version = jobs[j].lease_version
       /\ jobs'[j].assigned_worker = jobs[j].assigned_worker
       /\ jobs'[j].status \in Active \cup {"CANCELLED"}
       /\ (IsActive(j))' => IsActive(j)
       /\ jobs'[j].lease_left \in {jobs[j].lease_left, LeaseDuration}

\* Steps in which no time passes: open tokens move along, with their leases.
LEMMA OpenMoves ==
    ASSUME DeadlinesWithinLease, ProtocolInv, OpenOwns, LeaseLasts,
           \A d \in dispatches' :
              \/ d \in dispatches /\ KeepsLease(d.job)
              \/ /\ Owns(d)'
                 /\ d.left = DispatchTimeout
                 /\ jobs'[d.job].lease_left = LeaseDuration,
           \A e \in Runs' :
              \/ \E f \in Runs : SameToken(e, f) /\ e.left = f.left /\ KeepsLease(f.job)
              \/ \E d \in dispatches : /\ SameToken(e, d)
                                       /\ e.left = RunTimeout
                                       /\ KeepsLease(d.job),
           \A x \in Verdicts' :
              \/ \E y \in Verdicts : SameToken(x, y) /\ x.left = y.left /\ KeepsLease(y.job)
              \/ \E e \in Runs : /\ SameToken(x, e)
                                 /\ x.left = ReportTimeout
                                 /\ KeepsLease(e.job)
    PROVE  OpenOwns' /\ LeaseLasts'
<1>0. TypeOK
      BY DEF ProtocolInv
<1>1. ASSUME NEW x \in Open, NEW y, SameToken(y, x), KeepsLease(x.job),
             NEW n \in Nat, n <= LeaseDuration, LeaseFor(x.job, n)
      PROVE  Owns(y)' /\ LeaseFor(y.job, n)'
      <2>1. Owns(x) /\ x.job \in Jobs
            BY <1>0, <1>1, OpenTypes DEF OpenOwns
      <2>2. Owns(y)'
            BY <1>1, <2>1 DEF Owns, KeepsLease, SameToken
      <2>3. (IsActive(y.job))' => n <= jobs'[y.job].lease_left
            BY <1>1, <2>1 DEF Owns, KeepsLease, SameToken, LeaseFor
      <2> QED
          BY <2>2, <2>3 DEF LeaseFor
<1>2. ASSUME NEW d \in dispatches'
      PROVE  Owns(d)' /\ LeaseFor(d.job, d.left + RunTimeout + ReportTimeout)'
      <2>1. CASE d \in dispatches /\ KeepsLease(d.job)
            <3>1. d \in Open /\ SameToken(d, d)
                  BY <2>1 DEF Open, SameToken
            <3>2. /\ d.left + RunTimeout + ReportTimeout \in Nat
                  /\ d.left + RunTimeout + ReportTimeout <= LeaseDuration
                  /\ LeaseFor(d.job, d.left + RunTimeout + ReportTimeout)
                  BY <1>0, <2>1, OpenNeeds DEF LeaseLasts
            <3> QED
                BY <1>1, <2>1, <3>1, <3>2
      <2>2. CASE /\ Owns(d)'
                 /\ d.left = DispatchTimeout
                 /\ jobs'[d.job].lease_left = LeaseDuration
            BY <2>2 DEF LeaseFor, DeadlinesWithinLease
      <2> QED
          BY <1>2, <2>1, <2>2
<1>3. ASSUME NEW e \in Runs'
      PROVE  Owns(e)' /\ LeaseFor(e.job, e.left + ReportTimeout)'
      <2>1. ASSUME NEW f \in Runs, SameToken(e, f), e.left = f.left, KeepsLease(f.job)
            PROVE  Owns(e)' /\ LeaseFor(e.job, e.left + ReportTimeout)'
            <3>1. f \in Open
                  BY DEF Open
            <3>2. /\ e.left + ReportTimeout \in Nat
                  /\ e.left + ReportTimeout <= LeaseDuration
                  /\ LeaseFor(f.job, e.left + ReportTimeout)
                  BY <1>0, <2>1, OpenNeeds DEF LeaseLasts
            <3> QED
                BY <1>1, <2>1, <3>1, <3>2
      <2>2. ASSUME NEW d \in dispatches, SameToken(e, d), e.left = RunTimeout,
                   KeepsLease(d.job)
            PROVE  Owns(e)' /\ LeaseFor(e.job, e.left + ReportTimeout)'
            <3>1. d \in Open
                  BY DEF Open
            <3>2. /\ e.left + ReportTimeout \in Nat
                  /\ e.left + ReportTimeout <= d.left + RunTimeout + ReportTimeout
                  /\ d.left \in Nat
                  /\ d.left + RunTimeout + ReportTimeout <= LeaseDuration
                  BY <1>0, <2>2, OpenNeeds
            <3>3. LeaseFor(d.job, e.left + ReportTimeout)
                  <4>1. LeaseFor(d.job, d.left + RunTimeout + ReportTimeout)
                        BY DEF LeaseLasts
                  <4>2. IsActive(d.job) => jobs[d.job].lease_left \in Int
                        BY <1>0, <3>1, OpenTypes
                        DEF ProtocolInv, JobInv, LeaseShape, JobTypeOK, Row
                  <4> QED
                      BY <3>2, <4>1, <4>2, OpenNeeds, <1>0 DEF LeaseFor
            <3>4. e.left + ReportTimeout <= LeaseDuration
                  BY <1>0, <3>2, OpenNeeds, JobStoreAssumption
            <3> QED
                BY <1>1, <2>2, <3>1, <3>2, <3>3, <3>4
      <2> QED
          BY <1>3, <2>1, <2>2
<1>4. ASSUME NEW x \in Verdicts'
      PROVE  Owns(x)' /\ LeaseFor(x.job, x.left)'
      <2>1. ASSUME NEW y \in Verdicts, SameToken(x, y), x.left = y.left, KeepsLease(y.job)
            PROVE  Owns(x)' /\ LeaseFor(x.job, x.left)'
            <3>1. y \in Open
                  BY DEF Open
            <3>2. x.left \in Nat /\ x.left <= LeaseDuration /\ LeaseFor(y.job, x.left)
                  BY <1>0, <2>1, OpenNeeds DEF LeaseLasts
            <3> QED
                BY <1>1, <2>1, <3>1, <3>2
      <2>2. ASSUME NEW e \in Runs, SameToken(x, e), x.left = ReportTimeout, KeepsLease(e.job)
            PROVE  Owns(x)' /\ LeaseFor(x.job, x.left)'
            <3>1. e \in Open
                  BY DEF Open
            <3>2. /\ x.left \in Nat
                  /\ e.left \in Nat
                  /\ x.left <= e.left + ReportTimeout
                  /\ e.left + ReportTimeout <= LeaseDuration
                  BY <1>0, <2>2, OpenNeeds
            <3>3. LeaseFor(e.job, x.left)
                  <4>1. LeaseFor(e.job, e.left + ReportTimeout)
                        BY DEF LeaseLasts
                  <4>2. IsActive(e.job) => jobs[e.job].lease_left \in Int
                        BY <1>0, <3>1, OpenTypes
                        DEF ProtocolInv, JobInv, LeaseShape, JobTypeOK, Row
                  <4> QED
                      BY <3>2, <4>1, <4>2, OpenNeeds, <1>0 DEF LeaseFor
            <3>4. x.left <= LeaseDuration
                  BY <1>0, <3>2, OpenNeeds, JobStoreAssumption
            <3> QED
                BY <1>1, <2>2, <3>1, <3>2, <3>3, <3>4
      <2> QED
          BY <1>4, <2>1, <2>2
<1> QED
    BY <1>2, <1>3, <1>4 DEF OpenOwns, Open, LeaseLasts
-------------------------------------------------------------------------------
(***************************************************************************)
(* Which statements leave a lease alone.                                   *)
(***************************************************************************)
LEMMA SameRowKeeps ==
    ASSUME NEW j \in Jobs, jobs'[j] = jobs[j]
    PROVE  KeepsLease(j)
BY DEF KeepsLease, IsActive

LEMMA ClientKeeps ==
    ASSUME JobTypeOK, NEW j \in Jobs, NEW i \in Jobs, NEW t \in Tenants,
           \/ \E p \in Priorities, m \in RetryLimits : CreateJob(i, t, p, m)
           \/ CancelJob(i, t)
    PROVE  KeepsLease(j)
<1>1. CASE i # j
      <2>1. jobs'[j] = jobs[j]
            BY <1>1 DEF CreateJob, CancelJob, JobTypeOK
      <2> QED
          BY <2>1, SameRowKeeps
<1>2. CASE i = j /\ CancelJob(i, t)
      BY <1>2 DEF KeepsLease, CancelJob, JobTypeOK, Row, IsActive, Active
<1>3. CASE i = j /\ ~CancelJob(i, t)
      BY <1>3 DEF KeepsLease, CreateJob, Exists, Active
<1> QED
    BY <1>1, <1>2, <1>3

LEMMA ClaimKeeps ==
    ASSUME JobTypeOK, NEW j \in Jobs, NEW i \in Jobs, NEW w \in Workers,
           ClaimNextJob(i, w, {})
    PROVE  KeepsLease(j)
<1>1. CASE i # j
      <2>1. jobs'[j] = jobs[j]
            BY <1>1, ClaimedVersion
      <2> QED
          BY <2>1, SameRowKeeps
<1>2. CASE i = j
      BY <1>2 DEF KeepsLease, ClaimNextJob, FirstClaimable, Claimable, Active
<1> QED
    BY <1>1, <1>2

LEMMA RenewKeeps ==
    ASSUME JobTypeOK, NEW j \in Jobs, NEW i \in Jobs, NEW w, NEW v, RenewLease(i, w, v)
    PROVE  KeepsLease(j)
<1>1. CASE i # j
      <2>1. jobs'[j] = jobs[j]
            BY <1>1 DEF RenewLease, JobTypeOK
      <2> QED
          BY <2>1, SameRowKeeps
<1>2. CASE i = j
      BY <1>2 DEF KeepsLease, RenewLease, JobTypeOK, Row, IsActive, Active
<1> QED
    BY <1>1, <1>2

LEMMA VerdictKeeps ==
    ASSUME JobTypeOK, NEW j \in Jobs, NEW i \in Jobs, i # j, NEW w, NEW v,
           CompleteJob(i, w, v) \/ \E d \in Nat : FailJob(i, w, v, d)
    PROVE  KeepsLease(j)
<1>1. jobs'[j] = jobs[j]
      BY DEF CompleteJob, FailJob, JobTypeOK
<1> QED
    BY <1>1, SameRowKeeps

\* An open token's lease has time left, so the sweep does not see its job.
LEMMA SweepKeeps ==
    ASSUME DeadlinesWithinLease, ProtocolInv, LeaseLasts, ReclaimExpiredJobs, NEW x \in Open
    PROVE  KeepsLease(x.job)
<1>1. x.job \in Jobs
      BY OpenTypes DEF ProtocolInv
<1>2. ~Expired(x.job)
      <2> SUFFICES ASSUME Expired(x.job) PROVE FALSE
          OBVIOUS
      <2>1. IsActive(x.job) /\ jobs[x.job].lease_left = -1
            BY DEF Expired
      <2>2. CASE x \in dispatches
            BY <2>1, <2>2, OpenNeeds DEF LeaseLasts, LeaseFor, ProtocolInv
      <2>3. CASE x \in Runs
            BY <2>1, <2>3, OpenNeeds DEF LeaseLasts, LeaseFor, ProtocolInv
      <2>4. CASE x \in Verdicts
            BY <2>1, <2>4, OpenNeeds DEF LeaseLasts, LeaseFor, ProtocolInv
      <2> QED
          BY <2>2, <2>3, <2>4 DEF Open
<1> QED
    BY <1>1, <1>2, ReclaimedTable, SameRowKeeps DEF ProtocolInv, JobInv
-------------------------------------------------------------------------------
(***************************************************************************)
(* Open tokens keep their jobs, action by action.                          *)
(***************************************************************************)
\* Steps that drop open tokens or leave them, and leave their leases.
LEMMA OpenShrinks ==
    ASSUME DeadlinesWithinLease, ProtocolInv, OpenOwns, LeaseLasts,
           dispatches' \subseteq dispatches, Runs' \subseteq Runs,
           Verdicts' \subseteq Verdicts,
           \A x \in dispatches' \cup Runs' \cup Verdicts' : KeepsLease(x.job)
    PROVE  OpenOwns' /\ LeaseLasts'
<1>1. \A x : SameToken(x, x)
      BY DEF SameToken
<1> QED
    BY <1>1, OpenMoves

LEMMA OpenTick ==
    ASSUME DeadlinesWithinLease, ProtocolInv, OpenOwns, LeaseLasts, Tick
    PROVE  OpenOwns' /\ LeaseLasts'
<1>0. TypeOK /\ JobTypeOK
      BY DEF ProtocolInv, JobInv
<1>1. /\ \A x \in dispatches \cup results \cup handlers : x.left > 0
      /\ \A e \in Runs : e.left > 0
      BY DEF Tick, Punctual, DeadlinesWithinLease, Runs
<1>2. ASSUME NEW y \in Open, NEW x, SameToken(x, y), NEW n \in Nat, LeaseFor(y.job, n + 1)
      PROVE  Owns(x)' /\ LeaseFor(x.job, n)'
      <2>1. y.job \in Jobs /\ Owns(y) /\ x.job = y.job
            BY <1>0, <1>2, OpenTypes DEF OpenOwns, SameToken
      <2>2. /\ jobs'[y.job].status = jobs[y.job].status
            /\ jobs'[y.job].assigned_worker = jobs[y.job].assigned_worker
            /\ jobs'[y.job].lease_version = jobs[y.job].lease_version
            BY <2>1, AgedTable DEF Tick, ProtocolInv, JobInv
      <2>3. Owns(x)'
            BY <1>2, <2>1, <2>2 DEF Owns, SameToken
      <2>4. ASSUME IsActive(y.job)
            PROVE  n <= jobs'[y.job].lease_left
            <3>1. PICK row \in Row : row = jobs[y.job]
                  BY <1>0, <2>1 DEF JobTypeOK
            <3>2. row.lease_left \in Int /\ n + 1 <= row.lease_left
                  BY <1>2, <2>1, <2>4, <3>1 DEF LeaseFor, ProtocolInv, JobInv, LeaseShape, Row
            <3>3. jobs'[y.job] = Aged(row)
                  BY <2>1, <3>1 DEF Tick, Age
            <3>4. Aged(row).lease_left = row.lease_left - 1
                  BY <1>2, <3>2, JobStoreAssumption DEF Aged, Row
            <3> QED
                BY <1>2, <3>2, <3>3, <3>4
      <2> QED
          BY <2>1, <2>2, <2>3, <2>4 DEF LeaseFor, IsActive
<1>3. ASSUME NEW d \in dispatches'
      PROVE  Owns(d)' /\ LeaseFor(d.job, d.left + RunTimeout + ReportTimeout)'
      <2>1. PICK c \in dispatches : d = Nearer(c)
            BY <1>3, TickedTokens
      <2>2. c \in Token /\ c \in Open
            BY <1>0 DEF TypeOK, Open
      <2>3. SameToken(d, c) /\ c.left \in Nat /\ d.left = c.left - 1 /\ c.left > 0
            BY <1>0, <1>1, <2>1, <2>2, NearerDispatch, OpenNeeds DEF Nearer, Token
      <2>4. LeaseFor(c.job, c.left + RunTimeout + ReportTimeout)
            BY DEF LeaseLasts
      <2>5. PICK n \in Nat : n = d.left + RunTimeout + ReportTimeout
            BY <1>0, <2>3, OpenNeeds
      <2>6. n + 1 = c.left + RunTimeout + ReportTimeout
            BY <1>0, <2>3, <2>5, OpenNeeds
      <2> QED
          BY <1>2, <2>2, <2>3, <2>4, <2>5, <2>6
<1>4. ASSUME NEW e \in Runs'
      PROVE  Owns(e)' /\ LeaseFor(e.job, e.left + ReportTimeout)'
      <2>1. PICK f \in execs : e = AgedExec(f)
            BY <1>4, TickedTokens DEF Runs
      <2>2. f \in Exec
            BY <1>0 DEF TypeOK
      <2>3. f \in Runs /\ f \in Open
            BY <1>4, <2>1, <2>2, AgedExecType DEF Runs, Open
      <2>4. SameToken(e, f) /\ e.left = Nearer(f).left
            BY <2>1, <2>2, AgedExecType
      <2>5. f.left \in Nat /\ e.left = f.left - 1 /\ f.left > 0
            BY <1>0, <1>1, <2>2, <2>3, <2>4, OpenNeeds DEF Nearer, Exec
      <2>6. LeaseFor(f.job, f.left + ReportTimeout)
            BY <2>3 DEF LeaseLasts
      <2>7. PICK n \in Nat : n = e.left + ReportTimeout
            BY <1>0, <2>5, OpenNeeds
      <2>8. n + 1 = f.left + ReportTimeout
            BY <1>0, <2>5, <2>7, OpenNeeds
      <2> QED
          BY <1>2, <2>3, <2>4, <2>6, <2>7, <2>8
<1>5. ASSUME NEW x \in Verdicts'
      PROVE  Owns(x)' /\ LeaseFor(x.job, x.left)'
      <2>1. PICK y \in Verdicts : x = Nearer(y)
            <3>1. CASE x \in results'
                  BY <3>1, TickedTokens DEF Verdicts
            <3>2. CASE x \in handlers' /\ x.stage = "read"
                  <4>1. PICK h \in handlers : x = Nearer(h)
                        BY <3>2, TickedTokens
                  <4>2. h.stage = "read"
                        BY <1>0, <3>2, <4>1, NearerHandler DEF TypeOK
                  <4> QED
                      BY <4>1, <4>2 DEF Verdicts
            <3> QED
                BY <1>5, <3>1, <3>2 DEF Verdicts
      <2>2. y \in Open /\ y.left > 0 /\ y.left \in Nat
            BY <1>0, <1>1, OpenNeeds DEF Verdicts, Open
      <2>3. SameToken(x, y)
            BY <1>0, <2>1, NearerResult, NearerHandler DEF TypeOK, Verdicts
      <2>4. x.left = y.left - 1
            BY <1>0, <2>1, <2>2 DEF Nearer, TypeOK, Verdicts, Result, Handler
      <2>5. LeaseFor(y.job, y.left)
            BY DEF LeaseLasts
      <2>6. PICK n \in Nat : n = x.left
            BY <2>2, <2>4
      <2>7. n + 1 = y.left
            BY <2>2, <2>4, <2>6
      <2> QED
          BY <1>2, <2>2, <2>3, <2>5, <2>6, <2>7
<1> QED
    BY <1>3, <1>4, <1>5 DEF OpenOwns, Open, LeaseLasts

LEMMA OpenStep ==
    ASSUME DeadlinesWithinLease, ProtocolInv, OpenOwns, LeaseLasts, JudgedOnce, [Next]_vars
    PROVE  OpenOwns' /\ LeaseLasts'
<1> USE DEF rpcs, dead
<1>0. TypeOK /\ JobTypeOK /\ \A x \in Open : x.job \in Jobs
      BY OpenTypes DEF ProtocolInv, JobInv
<1>1. ASSUME UNCHANGED jobs, dispatches' \subseteq dispatches, execs' \subseteq execs,
             Verdicts' \subseteq Verdicts
      PROVE  OpenOwns' /\ LeaseLasts'
      <2>1. Runs' \subseteq Runs
            BY <1>1 DEF Runs
      <2>2. \A x \in dispatches' \cup Runs' \cup Verdicts' : KeepsLease(x.job)
            BY <1>0, <1>1, <2>1, SameRowKeeps DEF Open
      <2> QED
          BY <1>1, <2>1, <2>2, OpenShrinks
<1>2. ASSUME NEW j \in Jobs, NEW t \in Tenants,
             ClientCancel(j, t) \/ \E p \in Priorities, m \in RetryLimits : SubmitJob(j, t, p, m)
      PROVE  OpenOwns' /\ LeaseLasts'
      <2>1. dispatches' = dispatches /\ Runs' = Runs /\ Verdicts' = Verdicts
            BY <1>2 DEF ClientCancel, SubmitJob, Runs, Verdicts
      <2>2. \A i \in Jobs : KeepsLease(i)
            BY <1>0, <1>2, ClientKeeps DEF ClientCancel, SubmitJob
      <2>3. \A x \in dispatches' \cup Runs' \cup Verdicts' : KeepsLease(x.job)
            BY <1>0, <2>1, <2>2 DEF Open
      <2> QED
          BY <2>1, <2>3, OpenShrinks
<1>3. ASSUME NEW j \in Jobs, NEW w \in Workers, DispatchPending(j, w)
      PROVE  OpenOwns' /\ LeaseLasts'
      <2>0. PICK d : d = [job |-> j, worker |-> w, version |-> jobs[j].lease_version + 1,
                          left |-> DispatchTimeout]
            OBVIOUS
      <2>1. /\ dispatches' \subseteq dispatches \cup {d}
            /\ Runs' = Runs /\ Verdicts' = Verdicts
            BY <1>3, <2>0 DEF DispatchPending, Runs, Verdicts
      <2>2. \A i \in Jobs : KeepsLease(i)
            BY <1>0, <1>3, ClaimKeeps DEF DispatchPending
      <2>3. \A x \in Open : KeepsLease(x.job)
            BY <1>0, <2>2
      <2>4. /\ Owns(d)' /\ jobs'[d.job].lease_left = LeaseDuration
            /\ d.left = DispatchTimeout
            <3>1. /\ jobs'[j].lease_version = jobs[j].lease_version + 1
                  /\ jobs'[j].assigned_worker = w
                  BY <1>0, <1>3, ClaimedVersion DEF DispatchPending
            <3>2. jobs'[j].status = "DISPATCHED" /\ jobs'[j].lease_left = LeaseDuration
                  BY <1>0, <1>3 DEF DispatchPending, ClaimNextJob, JobTypeOK, Row
            <3> QED
                BY <2>0, <3>1, <3>2 DEF Owns, Active
      <2>5. \A x : SameToken(x, x)
            BY DEF SameToken
      <2>6. \A c \in dispatches' :
               \/ c \in dispatches /\ KeepsLease(c.job)
               \/ /\ Owns(c)'
                  /\ c.left = DispatchTimeout
                  /\ jobs'[c.job].lease_left = LeaseDuration
            BY <2>1, <2>3, <2>4 DEF Open, Owns
      <2>7. \A e \in Runs' : e \in Runs /\ KeepsLease(e.job)
            BY <2>1, <2>3 DEF Open
      <2>8. \A x \in Verdicts' : x \in Verdicts /\ KeepsLease(x.job)
            BY <2>1, <2>3 DEF Open
      <2> QED
          BY <2>5, <2>6, <2>7, <2>8, OpenMoves
<1>4. ASSUME NEW d \in dispatches, DispatchJob(d)
      PROVE  OpenOwns' /\ LeaseLasts'
      <2> DEFINE e == [job |-> d.job, worker |-> d.worker, version |-> d.version,
                       phase |-> "running", left |-> RunTimeout, renew |-> LeaseRenewAt]
      <2>1. /\ dispatches' \subseteq dispatches /\ jobs' = jobs
            /\ Runs' \subseteq Runs \cup {e} /\ Verdicts' = Verdicts
            BY <1>4 DEF DispatchJob, Runs, Verdicts
      <2>2. \A x \in Open : KeepsLease(x.job)
            BY <1>0, <2>1, SameRowKeeps
      <2>3. SameToken(e, d) /\ e.left = RunTimeout
            BY DEF SameToken
      <2> HIDE DEF e
      <2>4. \A x : SameToken(x, x)
            BY DEF SameToken
      <2>5. \A c \in dispatches' : c \in dispatches /\ KeepsLease(c.job)
            BY <2>1, <2>2 DEF Open
      <2>6. \A f \in Runs' : (f \in Runs /\ KeepsLease(f.job)) \/ (f = e /\ KeepsLease(d.job))
            BY <2>1, <2>2 DEF Open
      <2>7. \A x \in Verdicts' : x \in Verdicts /\ KeepsLease(x.job)
            BY <2>1, <2>2 DEF Open
      <2> QED
          BY <2>3, <2>4, <2>5, <2>6, <2>7, OpenMoves
<1>5. ASSUME NEW e \in execs, NEW ok \in BOOLEAN, FinishRun(e, ok)
      PROVE  OpenOwns' /\ LeaseLasts'
      <2> DEFINE f == [e EXCEPT !.phase = "reporting"]
                 r == [job |-> e.job, worker |-> e.worker, version |-> e.version,
                       left |-> ReportTimeout, ok |-> ok]
      <2>1. /\ e \in Runs /\ f.phase # "running"
            /\ SameToken(r, e) /\ r.left = ReportTimeout
            BY <1>0, <1>5 DEF FinishRun, Runs, TypeOK, Exec, SameToken
      <2>2. /\ dispatches' = dispatches /\ jobs' = jobs
            /\ execs' = (execs \ {e}) \cup {f}
            /\ Verdicts' = Verdicts \cup {r}
            BY <1>5 DEF FinishRun, Verdicts
      <2> HIDE DEF f, r
      <2>3. Runs' \subseteq Runs
            BY <2>1, <2>2 DEF Runs
      <2>4. \A x \in Open : KeepsLease(x.job)
            BY <1>0, <2>2, SameRowKeeps
      <2>5. \A x : SameToken(x, x)
            BY DEF SameToken
      <2>6. \A c \in dispatches' : c \in dispatches /\ KeepsLease(c.job)
            BY <2>2, <2>4 DEF Open
      <2>7. \A g \in Runs' : g \in Runs /\ KeepsLease(g.job)
            BY <2>3, <2>4 DEF Open
      <2>8. \A x \in Verdicts' : (x \in Verdicts /\ KeepsLease(x.job)) \/ (x = r /\ KeepsLease(e.job))
            BY <2>1, <2>2, <2>4 DEF Open
      <2> QED
          BY <2>1, <2>5, <2>6, <2>7, <2>8, OpenMoves
<1>6. ASSUME NEW e \in execs, RenewTick(e)
      PROVE  OpenOwns' /\ LeaseLasts'
      <2>1. PICK next \in {LeaseRenewAt, NULL} :
                  execs' = (execs \ {e}) \cup {[e EXCEPT !.renew = next]}
            BY <1>6 DEF RenewTick
      <2> DEFINE f == [e EXCEPT !.renew = next]
      <2>2. SameToken(f, e) /\ f.phase = e.phase /\ f.left = e.left /\ e.job \in Jobs
            BY <1>0 DEF TypeOK, Exec, SameToken
      <2>3. dispatches' = dispatches /\ Verdicts' = Verdicts
            BY <1>6 DEF RenewTick, Verdicts
      <2>4. execs' = (execs \ {e}) \cup {f}
            BY <2>1
      <2>5. RenewLease(e.job, e.worker, e.version) \/ UNCHANGED jobs
            BY <1>6 DEF RenewTick
      <2> HIDE DEF f
      <2>6. \A j \in Jobs : KeepsLease(j)
            BY <1>0, <2>2, <2>5, RenewKeeps, SameRowKeeps
      <2>7. \A x \in Open : KeepsLease(x.job)
            BY <1>0, <2>6
      <2>8. \A x : SameToken(x, x)
            BY DEF SameToken
      <2>9. \A c \in dispatches' : c \in dispatches /\ KeepsLease(c.job)
            BY <2>3, <2>7 DEF Open
      <2>10. \A g \in Runs' : \/ g \in Runs /\ KeepsLease(g.job)
                              \/ g = f /\ e \in Runs /\ KeepsLease(e.job)
            BY <2>2, <2>4, <2>7 DEF Open, Runs
      <2>11. \A x \in Verdicts' : x \in Verdicts /\ KeepsLease(x.job)
            BY <2>3, <2>7 DEF Open
      <2> QED
          BY <2>2, <2>8, <2>9, <2>10, <2>11, OpenMoves
<1>7. ASSUME NEW r \in results, ReportSuccess(r)
      PROVE  OpenOwns' /\ LeaseLasts'
      <2>1. r \in Verdicts /\ r \in Open
            BY DEF Verdicts, Open
      <2>2. dispatches' = dispatches /\ Runs' = Runs
            BY <1>7 DEF ReportSuccess, Runs
      <2>3. Verdicts' \subseteq Verdicts \ {r}
            <3>1. r \notin handlers
                  BY <1>0, <1>7 DEF ReportSuccess, TypeOK, Result, Handler
            <3> QED
                BY <1>7, <3>1 DEF ReportSuccess, Verdicts
      <2>4. r \notin dispatches /\ r \notin Runs
            BY <1>0 DEF TypeOK, Result, Token, Exec, Runs
      <2>5. \A x \in dispatches' \cup Runs' \cup Verdicts' : x \in Open /\ x # r
            BY <2>2, <2>3, <2>4 DEF Open
      <2>6. \A x \in Open : x # r => x.job # r.job
            BY <2>1, OpenAlone
      <2>7. CompleteJob(r.job, r.worker, r.version) \/ UNCHANGED jobs
            BY <1>7 DEF ReportSuccess
      <2>8. \A x \in Open : x # r => KeepsLease(x.job)
            BY <1>0, <2>1, <2>6, <2>7, VerdictKeeps, SameRowKeeps
      <2> QED
          BY <2>2, <2>3, <2>5, <2>8, OpenShrinks
<1>8. ASSUME NEW r \in results, ReportFailure(r)
      PROVE  OpenOwns' /\ LeaseLasts'
      <2> DEFINE h == [job |-> r.job, worker |-> r.worker, version |-> r.version,
                       left |-> r.left, count |-> jobs[r.job].retry_count, stage |-> "read"]
      <2>1. SameToken(h, r) /\ h.left = r.left /\ r \in Verdicts
            BY DEF SameToken, Verdicts
      <2>2. /\ dispatches' = dispatches /\ Runs' = Runs /\ jobs' = jobs
            /\ Verdicts' \subseteq Verdicts \cup {h}
            BY <1>8 DEF ReportFailure, Runs, Verdicts
      <2> HIDE DEF h
      <2>3. \A x \in Open : KeepsLease(x.job)
            BY <1>0, <2>2, SameRowKeeps
      <2>4. \A x : SameToken(x, x)
            BY DEF SameToken
      <2>5. \A c \in dispatches' : c \in dispatches /\ KeepsLease(c.job)
            BY <2>2, <2>3 DEF Open
      <2>6. \A f \in Runs' : f \in Runs /\ KeepsLease(f.job)
            BY <2>2, <2>3 DEF Open
      <2>7. \A x \in Verdicts' : (x \in Verdicts /\ KeepsLease(x.job)) \/ (x = h /\ KeepsLease(r.job))
            BY <2>1, <2>2, <2>3 DEF Open
      <2> QED
          BY <2>1, <2>4, <2>5, <2>6, <2>7, OpenMoves
<1>9. ASSUME NEW h \in handlers, FailUpdate(h)
      PROVE  OpenOwns' /\ LeaseLasts'
      <2> DEFINE g == [h EXCEPT !.stage = "updated"]
      <2>1. h \in Verdicts /\ h \in Open
            BY <1>9 DEF FailUpdate, Verdicts, Open
      <2>2. g.stage = "updated"
            BY <1>0 DEF TypeOK, Handler
      <2>3. /\ dispatches' = dispatches /\ Runs' = Runs /\ results' = results
            /\ handlers' \subseteq (handlers \ {h}) \cup {g}
            BY <1>9 DEF FailUpdate, Runs
      <2> HIDE DEF g
      <2>4. h \notin results /\ h \notin dispatches /\ h \notin Runs
            BY <1>0 DEF TypeOK, Result, Token, Exec, Handler, Runs
      <2>5. Verdicts' \subseteq Verdicts \ {h}
            BY <2>2, <2>3, <2>4 DEF Verdicts
      <2>6. \A x \in dispatches' \cup Runs' \cup Verdicts' : x \in Open /\ x # h
            BY <2>3, <2>4, <2>5 DEF Open
      <2>7. \A x \in Open : x # h => x.job # h.job
            BY <2>1, OpenAlone
      <2>8. (\E d \in Nat : FailJob(h.job, h.worker, h.version, d)) \/ UNCHANGED jobs
            BY <1>9, DelayType DEF FailUpdate
      <2>9. \A x \in Open : x # h => KeepsLease(x.job)
            BY <1>0, <2>1, <2>7, <2>8, VerdictKeeps, SameRowKeeps
      <2> QED
          BY <2>3, <2>5, <2>6, <2>9, OpenShrinks
<1>10. ASSUME Reconcile
      PROVE  OpenOwns' /\ LeaseLasts'
      <2>1. dispatches' = dispatches /\ Runs' = Runs /\ Verdicts' = Verdicts
            BY <1>10 DEF Reconcile, Runs, Verdicts
      <2>2. \A x \in Open : KeepsLease(x.job)
            BY <1>10, SweepKeeps DEF Reconcile
      <2> QED
          BY <2>1, <2>2, OpenShrinks DEF Open
<1>11. ASSUME \/ \E e \in execs : ReturnExec(e)
              \/ \E h \in handlers : CheckDead(h) \/ AbortHandler(h)
              \/ \E a \in autopsies : GenerateAutopsy(a)
              \/ \E d \in dispatches : LoseDispatch(d)
              \/ \E r \in results : LoseResult(r)
              \/ \E w \in Workers : StopWorker(w) \/ RestartWorker(w)
              \/ UNCHANGED vars
      PROVE  OpenOwns' /\ LeaseLasts'
      <2>1. /\ UNCHANGED jobs /\ dispatches' \subseteq dispatches /\ execs' \subseteq execs
            /\ results' \subseteq results /\ handlers' \subseteq handlers
            BY <1>11 DEF ReturnExec, CheckDead, AbortHandler, GenerateAutopsy, LoseDispatch,
                         LoseResult, StopWorker, RestartWorker, vars
      <2>2. Verdicts' \subseteq Verdicts
            BY <2>1 DEF Verdicts
      <2> QED
          BY <1>1, <2>1, <2>2
<1> QED
    BY <1>2, <1>3, <1>4, <1>5, <1>6, <1>7, <1>8, <1>9, <1>10, <1>11, OpenTick
    DEF Next, Dispatcher, Delivery, Running, Returning, Renewing, Reporting, Autopsy
-------------------------------------------------------------------------------
\* A run reports once, and its report becomes one handler.
LEMMA JudgedOnceStep ==
    ASSUME ProtocolInv, JudgedOnce, [Next]_vars
    PROVE  JudgedOnce'
<1> USE DEF rpcs, dead
<1>0. TypeOK /\ SpentOnce
      BY DEF ProtocolInv
<1>1. ASSUME NEW e \in execs, NEW ok \in BOOLEAN, FinishRun(e, ok)
      PROVE  JudgedOnce'
      <2> DEFINE r == [job |-> e.job, worker |-> e.worker, version |-> e.version,
                       left |-> ReportTimeout, ok |-> ok]
      <2>1. results' = results \cup {r} /\ handlers' = handlers
            BY <1>1 DEF FinishRun
      <2>2. SameToken(r, e) /\ \A x \in results \cup handlers : ~SameToken(x, e)
            BY <1>0, <1>1 DEF FinishRun, SpentOnce, LeaseSpentOnce, Answered, SameToken
      <2> HIDE DEF r
      <2>3. \A x \in results \cup handlers : ~SameToken(x, r) /\ ~SameToken(r, x)
            BY <2>2 DEF SameToken
      <2> QED
          BY <2>1, <2>3 DEF JudgedOnce
<1>2. ASSUME NEW r \in results, ReportFailure(r)
      PROVE  JudgedOnce'
      <2> DEFINE h == [job |-> r.job, worker |-> r.worker, version |-> r.version,
                       left |-> r.left, count |-> jobs[r.job].retry_count, stage |-> "read"]
      <2>1. results' = results \ {r} /\ handlers' = handlers \cup {h}
            BY <1>2 DEF ReportFailure
      <2>2. SameToken(h, r) /\ r \notin handlers
            BY <1>0 DEF SameToken, TypeOK, Result, Handler
      <2> HIDE DEF h
      <2>3. \A x \in results' \cup handlers : ~SameToken(x, h) /\ ~SameToken(h, x)
            BY <2>1, <2>2 DEF JudgedOnce, SameToken
      <2> QED
          BY <2>1, <2>3 DEF JudgedOnce
<1>3. ASSUME NEW h \in handlers, FailUpdate(h)
      PROVE  JudgedOnce'
      <2> DEFINE g == [h EXCEPT !.stage = "updated"]
      <2>1. results' = results /\ handlers' \subseteq (handlers \ {h}) \cup {g}
            BY <1>3 DEF FailUpdate
      <2>2. SameToken(g, h) /\ h \notin results
            BY <1>0 DEF SameToken, TypeOK, Result, Handler
      <2> HIDE DEF g
      <2>3. \A x \in results \cup (handlers \ {h}) : ~SameToken(x, g) /\ ~SameToken(g, x)
            BY <2>2 DEF JudgedOnce, SameToken
      <2> QED
          BY <2>1, <2>3 DEF JudgedOnce
<1>4. ASSUME results' \subseteq results, handlers' \subseteq handlers
      PROVE  JudgedOnce'
      BY <1>4 DEF JudgedOnce
<1>5. ASSUME NEW j \in Jobs, NEW t \in Tenants,
             ClientCancel(j, t) \/ \E p \in Priorities, m \in RetryLimits : SubmitJob(j, t, p, m)
      PROVE  JudgedOnce'
      BY <1>4, <1>5 DEF ClientCancel, SubmitJob
<1>6. ASSUME Dispatcher \/ Delivery \/ Returning \/ Renewing \/ Autopsy \/ Reconcile
      PROVE  JudgedOnce'
      BY <1>4, <1>6 DEF Dispatcher, DispatchPending, Delivery, DispatchJob, Returning,
                        ReturnExec, Renewing, RenewTick, Autopsy, GenerateAutopsy,
                        Reconcile
<1>7. ASSUME \/ \E r \in results : ReportSuccess(r) \/ LoseResult(r)
             \/ \E h \in handlers : CheckDead(h) \/ AbortHandler(h)
             \/ \E d \in dispatches : LoseDispatch(d)
             \/ \E w \in Workers : StopWorker(w) \/ RestartWorker(w)
             \/ UNCHANGED vars
      PROVE  JudgedOnce'
      BY <1>4, <1>7 DEF ReportSuccess, LoseResult, CheckDead, AbortHandler, LoseDispatch,
                        StopWorker, RestartWorker, vars
<1>8. ASSUME Tick
      PROVE  JudgedOnce'
      <2>1. \A x \in results \cup handlers : SameToken(Nearer(x), x)
            BY <1>0, NearerResult, NearerHandler DEF TypeOK
      <2> QED
          BY <1>8, <2>1, TickedTokens DEF JudgedOnce, SameToken
<1> QED
    BY <1>1, <1>2, <1>3, <1>5, <1>6, <1>7, <1>8 DEF Next, Running, Reporting
-------------------------------------------------------------------------------
(***************************************************************************)
(* When the deadlines fit in the lease, every open token owns its job, for *)
(* any number of jobs, workers and claims and with every fault.            *)
(***************************************************************************)
THEOREM TimelyInvariant == DeadlinesWithinLease => (Spec => [](ProtocolInv /\ TimelyInv))
<1> SUFFICES ASSUME DeadlinesWithinLease PROVE Spec => [](ProtocolInv /\ TimelyInv)
    OBVIOUS
<1>1. Init => TimelyInv
      BY DEF Init, TimelyInv, OpenOwns, Open, Runs, Verdicts, LeaseLasts, JudgedOnce
<1>2. ProtocolInv /\ TimelyInv /\ [Next]_vars => TimelyInv'
      BY OpenStep, JudgedOnceStep DEF TimelyInv
<1> QED
    BY <1>1, <1>2, ProtocolInvariant, PTL DEF Spec

\* README.md's "prevent double execution" holds where the deadlines of dispatch,
\* run and report fit into the lease and are kept: no job is ever run by two
\* executeJob goroutines at a time, on one worker or on two.
THEOREM NoDoubleExecutionHolds == DeadlinesWithinLease => (Spec => []NoDoubleExecution)
<1>1. ProtocolInv /\ TimelyInv => NoDoubleExecution
      <2> SUFFICES ASSUME ProtocolInv, TimelyInv, NEW e \in execs, NEW f \in execs,
                          e.job = f.job, e.phase = "running", f.phase = "running"
                   PROVE  e = f
          BY DEF NoDoubleExecution
      <2>1. e \in Open /\ f \in Open
            BY DEF Open, Runs
      <2> QED
          BY <2>1, OpenAlone DEF TimelyInv
<1> QED
    BY <1>1, TimelyInvariant, PTL

\* Under the same premise CompleteJob and FailJob accept every result, however
\* late in its deadlines, unless the client has cancelled the job.
THEOREM VerdictCountsHolds == DeadlinesWithinLease => (Spec => []VerdictCounts)
<1>1. TimelyInv => VerdictCounts
      BY DEF TimelyInv, OpenOwns, Open, Verdicts, Owns, VerdictCounts, Held, Fenced
<1> QED
    BY <1>1, TimelyInvariant, PTL
===============================================================================
