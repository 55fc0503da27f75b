------------------------- MODULE LeaseProtocol_proofs -------------------------
(***************************************************************************)
(* Theorems about LeaseProtocol: the fence holds for any number of jobs,   *)
(* workers and claims, with every fault and with no assumption on timing.  *)
(***************************************************************************)
EXTENDS LeaseProtocol, JobStore_proofs

\* The real callers use the jobs table only through its statements; FailJob's
\* delay fits the row it changes because the count it was computed from is fresh.
LEMMA TableCall == TypeOK /\ BackoffFresh /\ [Next]_vars => [JobNext]_jobs
<1> SUFFICES ASSUME TypeOK, BackoffFresh, [Next]_vars
             PROVE  JobNext \/ UNCHANGED jobs
    OBVIOUS
<1>1. ASSUME NEW j \in Jobs, NEW t \in Tenants, NEW p \in Priorities, NEW m \in RetryLimits,
             SubmitJob(j, t, p, m)
      PROVE  JobNext
      BY <1>1 DEF SubmitJob, JobNext
<1>2. ASSUME NEW j \in Jobs, NEW t \in Tenants, ClientCancel(j, t)
      PROVE  JobNext
      BY <1>2 DEF ClientCancel, JobNext
<1>3. ASSUME Dispatcher
      PROVE  JobNext
      BY <1>3 DEF Dispatcher, DispatchPending, JobNext
<1>4. ASSUME Renewing
      PROVE  JobNext \/ UNCHANGED jobs
      BY <1>4 DEF Renewing, RenewTick, TypeOK, Exec, JobNext
<1>5. ASSUME Reporting
      PROVE  JobNext \/ UNCHANGED jobs
      <2>1. ASSUME NEW r \in results, ReportSuccess(r)
            PROVE  JobNext \/ UNCHANGED jobs
            BY <2>1 DEF ReportSuccess, TypeOK, Result, JobNext
      <2>2. ASSUME NEW h \in handlers, FailUpdate(h)
            PROVE  JobNext \/ UNCHANGED jobs
            <3>1. CASE ~Held(h)
                  BY <2>2, <3>1 DEF FailUpdate, FailJob, Held
            <3>2. CASE Held(h)
                  <4>1. h.count = jobs[h.job].retry_count
                        BY <2>2, <3>2 DEF FailUpdate, BackoffFresh
                  <4>2. \E d \in RetryDelays(jobs[h.job].retry_count) :
                           FailJob(h.job, h.worker, h.version, d)
                        BY <2>2, <3>2, <4>1 DEF FailUpdate
                  <4> QED
                      BY <4>2 DEF TypeOK, Handler, JobNext
            <3> QED
                BY <3>1, <3>2
      <2> QED
          BY <1>5, <2>1, <2>2 DEF Reporting, ReportFailure, CheckDead
<1>6. ASSUME Reconcile
      PROVE  JobNext
      BY <1>6 DEF Reconcile, JobNext
<1>7. ASSUME Tick
      PROVE  JobNext
      BY <1>7 DEF Tick, JobNext
<1>8. ASSUME Delivery \/ Running \/ Returning \/ Autopsy
      PROVE  UNCHANGED jobs
      BY <1>8 DEF Delivery, DispatchJob, Running, FinishRun, Returning, ReturnExec,
                  Autopsy, GenerateAutopsy
<1>9. ASSUME \/ \E d \in dispatches : LoseDispatch(d)
             \/ \E r \in results : LoseResult(r)
             \/ \E h \in handlers : AbortHandler(h)
             \/ \E w \in Workers : StopWorker(w) \/ RestartWorker(w)
      PROVE  UNCHANGED jobs
      BY <1>9 DEF LoseDispatch, LoseResult, AbortHandler, StopWorker, RestartWorker
<1>10. ASSUME UNCHANGED vars
      PROVE  UNCHANGED jobs
      BY <1>10 DEF vars
<1> QED
    BY <1>1, <1>2, <1>3, <1>4, <1>5, <1>6, <1>7, <1>8, <1>9, <1>10 DEF Next

\* Everything but the jobs table.
SoftTypeOK ==
    /\ dispatches \subseteq Token
    /\ execs \subseteq Exec
    /\ activeJobs \in [Workers -> SUBSET Jobs]
    /\ results \subseteq Result
    /\ handlers \subseteq Handler
    /\ autopsies \subseteq Death
    /\ reports \subseteq Death
    /\ procs \in [Workers -> {"up", "down"}]

\* A claim opens a version within the model's bound.
LEMMA ClaimedVersion ==
    ASSUME JobTypeOK, NEW j \in Jobs, NEW w \in Workers, ClaimNextJob(j, w, {})
    PROVE  /\ jobs[j].lease_version + 1 \in 1 .. MaxLeaseVersion
           /\ jobs'[j].lease_version = jobs[j].lease_version + 1
           /\ jobs'[j].assigned_worker = w
           /\ \A i \in Jobs \ {j} : jobs'[i] = jobs[i]
BY JobStoreAssumption DEF ClaimNextJob, JobTypeOK, Row

\* Time keeps a token, and brings its deadline nearer.
LEMMA NearerDispatch ==
    ASSUME NEW d \in Token
    PROVE  Nearer(d) \in Token /\ SameToken(Nearer(d), d)
BY LeaseProtocolAssumption DEF Nearer, Token, SameToken

LEMMA NearerResult ==
    ASSUME NEW r \in Result
    PROVE  Nearer(r) \in Result /\ SameToken(Nearer(r), r)
BY LeaseProtocolAssumption DEF Nearer, Result, SameToken

LEMMA NearerHandler ==
    ASSUME NEW h \in Handler
    PROVE  /\ Nearer(h) \in Handler
           /\ SameToken(Nearer(h), h)
           /\ Nearer(h).stage = h.stage
           /\ Nearer(h).count = h.count
BY LeaseProtocolAssumption DEF Nearer, Handler, SameToken

AgedExec(e) == [Nearer(e) EXCEPT !.renew = IF @ = NULL \/ @ = 0 THEN @ ELSE @ - 1]

LEMMA AgedExecType ==
    ASSUME NEW e \in Exec
    PROVE  /\ AgedExec(e) \in Exec
           /\ SameToken(AgedExec(e), e)
           /\ AgedExec(e).phase = e.phase
           /\ AgedExec(e).left = Nearer(e).left
<1> DEFINE left == IF e.left = 0 THEN 0 ELSE e.left - 1
           renew == IF e.renew = NULL \/ e.renew = 0 THEN e.renew ELSE e.renew - 1
<1>1. left \in 0 .. RunTimeout
      BY LeaseProtocolAssumption DEF Exec
<1>2. renew \in (0 .. LeaseRenewAt) \cup {NULL}
      BY LeaseProtocolAssumption, JobStoreAssumption DEF Exec
<1>3. Nearer(e) = [e EXCEPT !.left = left]
      BY DEF Nearer
<1>4. Nearer(e).renew = e.renew /\ Nearer(e).left = left
      BY <1>3 DEF Exec
<1>5. AgedExec(e) = [e EXCEPT !.left = left, !.renew = renew]
      BY <1>3, <1>4 DEF AgedExec, Exec
<1> HIDE DEF left, renew
<1> QED
    BY <1>1, <1>2, <1>4, <1>5 DEF Exec, SameToken

LEMMA TickedTokens ==
    ASSUME Tick
    PROVE  /\ dispatches' = {Nearer(d) : d \in dispatches}
           /\ results' = {Nearer(r) : r \in results}
           /\ handlers' = {Nearer(h) : h \in handlers}
           /\ execs' = {AgedExec(e) : e \in execs}
BY DEF Tick, AgedExec

LEMMA SoftTypeStep == TypeOK /\ [Next]_vars => SoftTypeOK'
<1> SUFFICES ASSUME TypeOK, [Next]_vars
             PROVE  SoftTypeOK'
    OBVIOUS
<1> USE DEF TypeOK, SoftTypeOK, rpcs, dead
<1>1. ASSUME NEW j \in Jobs, NEW t \in Tenants,
             ClientCancel(j, t) \/ \E p \in Priorities, m \in RetryLimits : SubmitJob(j, t, p, m)
      PROVE  SoftTypeOK'
      BY <1>1 DEF SubmitJob, ClientCancel
<1>2. ASSUME NEW j \in Jobs, NEW w \in Workers, DispatchPending(j, w)
      PROVE  SoftTypeOK'
      BY <1>2, ClaimedVersion, LeaseProtocolAssumption DEF DispatchPending, Token
<1>3. ASSUME NEW d \in dispatches, DispatchJob(d)
      PROVE  SoftTypeOK'
      <2>1. d \in Token
            OBVIOUS
      <2>2. [job |-> d.job, worker |-> d.worker, version |-> d.version, phase |-> "running",
             left |-> RunTimeout, renew |-> LeaseRenewAt] \in Exec
            BY <2>1, LeaseProtocolAssumption DEF Token, Exec
      <2>3. execs' \subseteq Exec
            BY <1>3, <2>2 DEF DispatchJob
      <2>4. activeJobs' \in [Workers -> SUBSET Jobs]
            BY <1>3, <2>1 DEF DispatchJob, Token
      <2> QED
          BY <1>3, <2>3, <2>4 DEF DispatchJob
<1>4. ASSUME NEW e \in execs, NEW ok \in BOOLEAN, FinishRun(e, ok)
      PROVE  SoftTypeOK'
      <2>1. [e EXCEPT !.phase = "reporting"] \in Exec
            BY DEF Exec
      <2>2. [job |-> e.job, worker |-> e.worker, version |-> e.version,
             left |-> ReportTimeout, ok |-> ok] \in Result
            BY LeaseProtocolAssumption DEF Exec, Result
      <2> QED
          BY <1>4, <2>1, <2>2 DEF FinishRun
<1>5. ASSUME NEW e \in execs, ReturnExec(e)
      PROVE  SoftTypeOK'
      BY <1>5 DEF ReturnExec
<1>6. ASSUME NEW e \in execs, RenewTick(e)
      PROVE  SoftTypeOK'
      <2>1. \A next \in {LeaseRenewAt, NULL} : [e EXCEPT !.renew = next] \in Exec
            BY LeaseProtocolAssumption DEF Exec
      <2> QED
          BY <1>6, <2>1 DEF RenewTick
<1>7. ASSUME NEW r \in results, ReportSuccess(r)
      PROVE  SoftTypeOK'
      BY <1>7 DEF ReportSuccess
<1>8. ASSUME NEW r \in results, ReportFailure(r)
      PROVE  SoftTypeOK'
      <2>1. [job |-> r.job, worker |-> r.worker, version |-> r.version, left |-> r.left,
             count |-> jobs[r.job].retry_count, stage |-> "read"] \in Handler
            BY DEF Result, Handler, JobTypeOK, Row
      <2> QED
          BY <1>8, <2>1 DEF ReportFailure
<1>9. ASSUME NEW h \in handlers, FailUpdate(h)
      PROVE  SoftTypeOK'
      <2>1. [h EXCEPT !.stage = "updated"] \in Handler
            BY DEF Handler
      <2> QED
          BY <1>9, <2>1 DEF FailUpdate
<1>10. ASSUME NEW h \in handlers, CheckDead(h)
      PROVE  SoftTypeOK'
      <2>1. [job |-> h.job, version |-> h.version] \in Death
            BY DEF Handler, Death
      <2> QED
          BY <1>10, <2>1 DEF CheckDead
<1>11. ASSUME NEW a \in autopsies, GenerateAutopsy(a)
      PROVE  SoftTypeOK'
      BY <1>11 DEF GenerateAutopsy
<1>12. ASSUME Reconcile
      PROVE  SoftTypeOK'
      BY <1>12 DEF Reconcile
<1>13. ASSUME \/ \E d \in dispatches : LoseDispatch(d)
              \/ \E r \in results : LoseResult(r)
              \/ \E h \in handlers : AbortHandler(h)
      PROVE  SoftTypeOK'
      BY <1>13 DEF LoseDispatch, LoseResult, AbortHandler
<1>14. ASSUME NEW w \in Workers, StopWorker(w) \/ RestartWorker(w)
      PROVE  SoftTypeOK'
      BY <1>14 DEF StopWorker, RestartWorker
<1>15. ASSUME Tick
      PROVE  SoftTypeOK'
      <2>1. execs' \subseteq Exec
            BY <1>15, TickedTokens, AgedExecType
      <2>2. dispatches' \subseteq Token /\ results' \subseteq Result /\ handlers' \subseteq Handler
            BY <1>15, TickedTokens, NearerDispatch, NearerResult, NearerHandler
      <2> QED
          BY <1>15, <2>1, <2>2 DEF Tick
<1>16. ASSUME UNCHANGED vars
      PROVE  SoftTypeOK'
      BY <1>16 DEF vars
<1> QED
    BY <1>1, <1>2, <1>3, <1>4, <1>5, <1>6, <1>7, <1>8, <1>9, <1>10, <1>11, <1>12, <1>13,
       <1>14, <1>15, <1>16
    DEF Next, Dispatcher, Delivery, Running, Returning, Renewing, Reporting, Autopsy

-------------------------------------------------------------------------------
(***************************************************************************)
(* What a step of the jobs table can do to a holder: it may end the lease, *)
(* or open the next version; a lease that goes on keeps its worker and its *)
(* retry_count.                                                            *)
(***************************************************************************)
HolderStep(j) ==
    /\ jobs'[j].lease_version >= jobs[j].lease_version
    /\ (IsActive(j))' =>
          \/ jobs'[j].lease_version > jobs[j].lease_version
          \/ /\ IsActive(j)
             /\ jobs'[j].lease_version = jobs[j].lease_version
             /\ jobs'[j].assigned_worker = jobs[j].assigned_worker
             /\ jobs'[j].retry_count = jobs[j].retry_count

LEMMA HolderSteps ==
    ASSUME JobInv, [JobNext]_jobs, NEW j \in Jobs
    PROVE  HolderStep(j)
<1> USE JobStoreAssumption DEF JobInv, JobTypeOK, IsActive, Active, HolderStep
<1>0. jobs[j].lease_version \in Nat
      BY DEF Row
<1>1. ASSUME NEW i \in Jobs, NEW t \in Tenants, NEW p \in Priorities, NEW m \in RetryLimits,
             CreateJob(i, t, p, m)
      PROVE  HolderStep(j)
      <2>1. jobs[i] = NoRow
            BY <1>1 DEF AbsentEmpty, CreateJob
      <2> QED
          BY <1>0, <1>1, <2>1 DEF CreateJob, NoRow
<1>2. ASSUME NEW i \in Jobs, NEW w \in Workers, NEW locked \in SUBSET Jobs,
             ClaimNextJob(i, w, locked)
      PROVE  HolderStep(j)
      BY <1>0, <1>2 DEF ClaimNextJob, Row
<1>3. ASSUME NEW i \in Jobs, NEW w \in Workers, NEW v \in 1 .. MaxLeaseVersion,
             MarkJobRunning(i, w, v) \/ RenewLease(i, w, v)
      PROVE  HolderStep(j)
      BY <1>0, <1>3 DEF MarkJobRunning, RenewLease, Fenced, Row
<1>4. ASSUME NEW i \in Jobs, NEW w \in Workers, NEW v \in 1 .. MaxLeaseVersion,
             CompleteJob(i, w, v)
      PROVE  HolderStep(j)
      BY <1>0, <1>4 DEF CompleteJob, Row
<1>5. ASSUME NEW i \in Jobs, NEW w \in Workers, NEW v \in 1 .. MaxLeaseVersion,
             NEW d \in RetryDelays(jobs[i].retry_count), FailJob(i, w, v, d)
      PROVE  HolderStep(j)
      BY <1>0, <1>5 DEF FailJob, Row
<1>6. ASSUME NEW i \in Jobs, NEW t \in Tenants, CancelJob(i, t)
      PROVE  HolderStep(j)
      BY <1>0, <1>6 DEF CancelJob, Row
<1>7. ASSUME ReclaimExpiredJobs
      PROVE  HolderStep(j)
      BY <1>0, <1>7, ReclaimedTable
<1>8. ASSUME Age
      PROVE  HolderStep(j)
      BY <1>0, <1>8, AgedTable
<1>9. ASSUME UNCHANGED jobs
      PROVE  HolderStep(j)
      BY <1>0, <1>9
<1> QED
    BY <1>1, <1>2, <1>3, <1>4, <1>5, <1>6, <1>7, <1>8, <1>9 DEF JobNext

\* Tokens are born in claims only; every other step passes them on or drops them.
Inherited(x) == \E y \in Tokens : SameToken(x, y)
Granted(x) ==
    /\ x.job \in Jobs
    /\ x.version = jobs'[x.job].lease_version
    /\ x.worker = jobs'[x.job].assigned_worker
    /\ x.version > jobs[x.job].lease_version

LEMMA TokenOrigin ==
    ASSUME TypeOK, [Next]_vars, NEW x \in Tokens'
    PROVE  Inherited(x) \/ Granted(x)
<1> USE DEF Tokens, Inherited, SameToken, rpcs, dead
<1>1. ASSUME NEW j \in Jobs, NEW t \in Tenants,
             ClientCancel(j, t) \/ \E p \in Priorities, m \in RetryLimits : SubmitJob(j, t, p, m)
      PROVE  Inherited(x)
      BY <1>1 DEF SubmitJob, ClientCancel
<1>2. ASSUME NEW j \in Jobs, NEW w \in Workers, DispatchPending(j, w)
      PROVE  Inherited(x) \/ Granted(x)
      <2>1. /\ jobs[j].lease_version \in Nat
            /\ jobs'[j].lease_version = jobs[j].lease_version + 1
            /\ jobs'[j].assigned_worker = w
            BY <1>2, ClaimedVersion DEF TypeOK, DispatchPending, JobTypeOK, Row
      <2>2. x \in Tokens \/ x = [job |-> j, worker |-> w,
                               version |-> jobs[j].lease_version + 1, left |-> DispatchTimeout]
            BY <1>2 DEF DispatchPending
      <2> QED
          BY <2>1, <2>2 DEF Granted
<1>3. ASSUME NEW d \in dispatches, DispatchJob(d)
      PROVE  Inherited(x)
      BY <1>3 DEF DispatchJob
<1>4. ASSUME NEW e \in execs, NEW ok \in BOOLEAN, FinishRun(e, ok)
      PROVE  Inherited(x)
      <2>1. SameToken([e EXCEPT !.phase = "reporting"], e)
            BY DEF TypeOK, Exec
      <2>2. \/ x \in Tokens
            \/ x = [e EXCEPT !.phase = "reporting"]
            \/ x = [job |-> e.job, worker |-> e.worker, version |-> e.version,
                    left |-> ReportTimeout, ok |-> ok]
            BY <1>4 DEF FinishRun
      <2>3. e \in Tokens
            OBVIOUS
      <2>4. SameToken([job |-> e.job, worker |-> e.worker, version |-> e.version,
                       left |-> ReportTimeout, ok |-> ok], e)
            OBVIOUS
      <2>5. x \in Tokens \/ SameToken(x, e)
            <3> HIDE DEF SameToken, Tokens
            <3> QED
                BY <2>1, <2>2, <2>4
      <2> HIDE DEF Tokens
      <2> QED
          BY <2>3, <2>5
<1>5. ASSUME NEW e \in execs, ReturnExec(e)
      PROVE  Inherited(x)
      BY <1>5 DEF ReturnExec
<1>6. ASSUME NEW e \in execs, RenewTick(e)
      PROVE  Inherited(x)
      <2>1. \A next \in {LeaseRenewAt, NULL} : SameToken([e EXCEPT !.renew = next], e)
            BY DEF TypeOK, Exec
      <2> QED
          BY <1>6, <2>1 DEF RenewTick
<1>7. ASSUME NEW r \in results, ReportSuccess(r) \/ ReportFailure(r) \/ LoseResult(r)
      PROVE  Inherited(x)
      BY <1>7 DEF ReportSuccess, ReportFailure, LoseResult
<1>8. ASSUME NEW h \in handlers, FailUpdate(h)
      PROVE  Inherited(x)
      <2>1. SameToken([h EXCEPT !.stage = "updated"], h)
            BY DEF TypeOK, Handler
      <2> QED
          BY <1>8, <2>1 DEF FailUpdate
<1>9. ASSUME NEW h \in handlers, CheckDead(h) \/ AbortHandler(h)
      PROVE  Inherited(x)
      BY <1>9 DEF CheckDead, AbortHandler
<1>10. ASSUME \/ \E a \in autopsies : GenerateAutopsy(a)
              \/ \E d \in dispatches : LoseDispatch(d)
              \/ Reconcile
      PROVE  Inherited(x)
      BY <1>10 DEF GenerateAutopsy, LoseDispatch, Reconcile
<1>11. ASSUME NEW w \in Workers, StopWorker(w) \/ RestartWorker(w)
      PROVE  Inherited(x)
      BY <1>11 DEF StopWorker, RestartWorker
<1>12. ASSUME Tick
      PROVE  Inherited(x)
      <2>1. /\ \A e \in execs : SameToken(AgedExec(e), e)
            /\ \A y \in dispatches \cup results \cup handlers : SameToken(Nearer(y), y)
            BY AgedExecType, NearerDispatch, NearerResult, NearerHandler DEF TypeOK
      <2> QED
          BY <1>12, <2>1, TickedTokens
<1>13. ASSUME UNCHANGED vars
      PROVE  Inherited(x)
      BY <1>13 DEF vars
<1> QED
    BY <1>1, <1>2, <1>3, <1>4, <1>5, <1>6, <1>7, <1>8, <1>9, <1>10, <1>11, <1>12, <1>13
    DEF Next, Dispatcher, Delivery, Running, Returning, Renewing, Reporting, Autopsy

LEMMA TokenTypes ==
    ASSUME TypeOK, NEW x \in Tokens
    PROVE  x.job \in Jobs /\ x.version \in Nat /\ jobs[x.job].lease_version \in Nat
BY DEF TypeOK, Tokens, Token, Exec, Result, Handler, JobTypeOK, Row

LEMMA FencingStep ==
    ASSUME TypeOK, JobInv, BackoffFresh, FencingToken, [Next]_vars
    PROVE  FencingToken'
<1> SUFFICES ASSUME NEW x \in Tokens'
             PROVE  /\ x.version <= jobs'[x.job].lease_version
                    /\ x.version = jobs'[x.job].lease_version /\ IsActive(x.job)'
                         => x.worker = jobs'[x.job].assigned_worker
    BY DEF FencingToken
<1>0. TypeOK'
      BY TableCall, TypeStep, SoftTypeStep DEF TypeOK, SoftTypeOK
<1>1. x.job \in Jobs /\ x.version \in Nat /\ jobs'[x.job].lease_version \in Nat
      BY <1>0 DEF TypeOK, Tokens, Token, Exec, Result, Handler, JobTypeOK, Row
<1>2. CASE Inherited(x)
      <2>1. PICK y \in Tokens : SameToken(x, y)
            BY <1>2 DEF Inherited
      <2>2. HolderStep(x.job)
            BY <1>1, TableCall, HolderSteps
      <2>3. x.version <= jobs[x.job].lease_version /\ jobs[x.job].lease_version \in Nat
            BY <2>1, TokenTypes DEF SameToken, FencingToken
      <2>4. x.version = jobs[x.job].lease_version /\ IsActive(x.job)
              => x.worker = jobs[x.job].assigned_worker
            BY <2>1 DEF SameToken, FencingToken
      <2> QED
          BY <1>1, <2>2, <2>3, <2>4 DEF HolderStep
<1>3. CASE Granted(x)
      BY <1>1, <1>3 DEF Granted
<1> QED
    BY <1>2, <1>3, TokenOrigin

\* The read of retry_count is as old as the handler, but never stale: the count
\* moves only when the lease it was read under ends.
LEMMA BackoffStep ==
    ASSUME TypeOK, JobInv, FencingToken, BackoffFresh, [Next]_vars
    PROVE  BackoffFresh'
<1> SUFFICES ASSUME NEW h \in handlers', h.stage = "read", Held(h)'
             PROVE  h.count = jobs'[h.job].retry_count
    BY DEF BackoffFresh
<1>1. h \in handlers \/ (\E r \in results : ReportFailure(r)) \/ Tick
      <2>1. ASSUME NEW g \in handlers, FailUpdate(g)
            PROVE  h \in handlers
            <3>1. [g EXCEPT !.stage = "updated"].stage = "updated"
                  BY DEF TypeOK, Handler
            <3> QED
                BY <2>1, <3>1 DEF FailUpdate
      <2>2. ASSUME NEW g \in handlers, CheckDead(g) \/ AbortHandler(g)
            PROVE  h \in handlers
            BY <2>2 DEF CheckDead, AbortHandler
      <2>3. ASSUME NEW j \in Jobs, NEW t \in Tenants,
                   \/ ClientCancel(j, t)
                   \/ \E p \in Priorities, m \in RetryLimits : SubmitJob(j, t, p, m)
            PROVE  h \in handlers
            BY <2>3 DEF ClientCancel, SubmitJob, rpcs
      <2>4. ASSUME Dispatcher \/ Delivery \/ Running \/ Returning \/ Renewing \/ Autopsy
            PROVE  h \in handlers
            BY <2>4 DEF Dispatcher, DispatchPending, Delivery, DispatchJob, Running, FinishRun,
                        Returning, ReturnExec, Renewing, RenewTick, Autopsy, GenerateAutopsy,
                        rpcs
      <2>5. ASSUME \/ Reconcile
                   \/ \E d \in dispatches : LoseDispatch(d)
                   \/ \E r \in results : LoseResult(r) \/ ReportSuccess(r)
                   \/ \E w \in Workers : StopWorker(w) \/ RestartWorker(w)
                   \/ UNCHANGED vars
            PROVE  h \in handlers
            BY <2>5 DEF Reconcile, LoseDispatch, LoseResult, ReportSuccess,
                        StopWorker, RestartWorker, vars, rpcs
      <2> QED
          BY <2>1, <2>2, <2>3, <2>4, <2>5 DEF Next, Reporting
<1>2. ASSUME NEW g \in handlers, SameToken(h, g), g.stage = "read", g.count = h.count
      PROVE  h.count = jobs'[h.job].retry_count
      <2>1. g \in Tokens
            BY <1>2 DEF Tokens
      <2>2. g.job \in Jobs /\ g.version \in Nat /\ jobs[g.job].lease_version \in Nat
            BY <2>1, TokenTypes
      <2>3. HolderStep(g.job)
            BY <2>2, TableCall, HolderSteps
      <2>4. g.version <= jobs[g.job].lease_version
            BY <2>1 DEF FencingToken
      <2>5. h.job = g.job /\ h.worker = g.worker /\ h.version = g.version
            BY <1>2 DEF SameToken
      <2>6. Held(g) /\ jobs'[g.job].retry_count = jobs[g.job].retry_count
            BY <2>2, <2>3, <2>4, <2>5 DEF HolderStep, Held, Fenced, IsActive
      <2> QED
          BY <1>2, <2>5, <2>6 DEF BackoffFresh
<1>3. CASE h \in handlers
      BY <1>2, <1>3 DEF SameToken
<1>4. CASE h \notin handlers /\ \E r \in results : ReportFailure(r)
      BY <1>4 DEF ReportFailure
<1>5. CASE Tick
      <2>1. PICK g \in handlers : h = Nearer(g)
            BY <1>5, TickedTokens
      <2> QED
          BY <1>2, <2>1, NearerHandler DEF TypeOK
<1> QED
    BY <1>1, <1>3, <1>4, <1>5
-------------------------------------------------------------------------------
\* A lease is sent once, and the call in flight precedes every verdict on it: what
\* LeaseSpentOnce needs when the call is delivered.
SentOnce  == \A c, d \in dispatches : SameToken(c, d) => c = d
NotYetRun == \A d \in dispatches, x \in results \cup handlers : ~SameToken(d, x)

SpentOnce == LeaseSpentOnce /\ NotYetRun /\ SentOnce

\* Steps that only drop tokens cannot spend a lease twice.
LEMMA SpentOnceShrinks ==
    ASSUME SpentOnce,
           dispatches' \subseteq dispatches, execs' \subseteq execs,
           results' \subseteq results, handlers' \subseteq handlers
    PROVE  SpentOnce'
BY DEF SpentOnce, LeaseSpentOnce, NotYetRun, SentOnce, Answered

LEMMA SpentOnceStep ==
    ASSUME TypeOK, FencingToken, SpentOnce, [Next]_vars
    PROVE  SpentOnce'
<1> USE DEF rpcs, dead
<1>1. ASSUME NEW j \in Jobs, NEW t \in Tenants,
             ClientCancel(j, t) \/ \E p \in Priorities, m \in RetryLimits : SubmitJob(j, t, p, m)
      PROVE  SpentOnce'
      BY <1>1, SpentOnceShrinks DEF SubmitJob, ClientCancel
<1>2. ASSUME NEW j \in Jobs, NEW w \in Workers, DispatchPending(j, w)
      PROVE  SpentOnce'
      <2> DEFINE d == [job |-> j, worker |-> w, version |-> jobs[j].lease_version + 1,
                       left |-> DispatchTimeout]
      <2>1. \A x \in Tokens : ~SameToken(d, x)
            <3> SUFFICES ASSUME NEW x \in Tokens, SameToken(d, x)
                         PROVE  FALSE
                OBVIOUS
            <3>1. x.job = j /\ x.version = jobs[j].lease_version + 1
                  BY DEF SameToken
            <3> QED
                BY <3>1, TokenTypes DEF FencingToken
      <2>2. /\ dispatches' \subseteq dispatches \cup {d}
            /\ execs' = execs /\ results' = results /\ handlers' = handlers
            BY <1>2 DEF DispatchPending
      <2>3. \A x \in dispatches \cup execs \cup results \cup handlers : ~SameToken(d, x)
            BY <2>1 DEF Tokens
      <2> HIDE DEF d
      <2> QED
          BY <2>2, <2>3 DEF SpentOnce, LeaseSpentOnce, NotYetRun, SentOnce, Answered, SameToken
<1>3. ASSUME NEW d \in dispatches, DispatchJob(d)
      PROVE  SpentOnce'
      <2> DEFINE e == [job |-> d.job, worker |-> d.worker, version |-> d.version,
                       phase |-> "running", left |-> RunTimeout, renew |-> LeaseRenewAt]
      <2>1. /\ dispatches' = dispatches \ {d}
            /\ execs' \subseteq execs \cup {e}
            /\ results' = results /\ handlers' = handlers
            BY <1>3 DEF DispatchJob
      <2>2. SameToken(e, d)
            BY DEF SameToken
      <2>3. \A c \in dispatches' : ~SameToken(c, e)
            <3> HIDE DEF e
            <3> QED
                BY <2>1, <2>2 DEF SpentOnce, SentOnce, SameToken
      <2>4. \A x \in execs \cup results \cup handlers : ~SameToken(x, e)
            BY <2>2 DEF SpentOnce, LeaseSpentOnce, NotYetRun, SameToken
      <2> HIDE DEF e
      <2> QED
          BY <2>1, <2>3, <2>4
          DEF SpentOnce, LeaseSpentOnce, NotYetRun, SentOnce, Answered, SameToken
<1>4. ASSUME NEW e \in execs, NEW ok \in BOOLEAN, FinishRun(e, ok)
      PROVE  SpentOnce'
      <2> DEFINE f == [e EXCEPT !.phase = "reporting"]
                 r == [job |-> e.job, worker |-> e.worker, version |-> e.version,
                       left |-> ReportTimeout, ok |-> ok]
      <2>1. SameToken(f, e) /\ f.phase = "reporting" /\ SameToken(r, e)
            BY DEF TypeOK, Exec, SameToken
      <2>2. /\ dispatches' = dispatches /\ handlers' = handlers
            /\ execs' = (execs \ {e}) \cup {f}
            /\ results' = results \cup {r}
            BY <1>4 DEF FinishRun
      <2> HIDE DEF f, r
      <2>3. NotYetRun' /\ SentOnce'
            BY <2>1, <2>2 DEF SpentOnce, LeaseSpentOnce, NotYetRun, SentOnce, SameToken
      <2>4. \A x \in execs' : \A d \in dispatches' : ~SameToken(d, x)
            BY <2>1, <2>2 DEF SpentOnce, LeaseSpentOnce, SameToken
      <2>5. \A x, y \in execs' : SameToken(y, x) => y = x
            BY <2>1, <2>2 DEF SpentOnce, LeaseSpentOnce, SameToken
      <2>6. \A x \in execs' : x.phase = "running" => Answered(x)'
            <3> SUFFICES ASSUME NEW x \in execs', x.phase = "running"
                         PROVE  Answered(x)'
                OBVIOUS
            <3>1. x \in execs /\ x # e
                  BY <2>1, <2>2
            <3>2. ~SameToken(r, x)
                  BY <2>1, <3>1 DEF SpentOnce, LeaseSpentOnce, SameToken
            <3> QED
                BY <2>2, <3>1, <3>2 DEF SpentOnce, LeaseSpentOnce, Answered
      <2> QED
          BY <2>3, <2>4, <2>5, <2>6 DEF SpentOnce, LeaseSpentOnce
<1>5. ASSUME NEW e \in execs, ReturnExec(e)
      PROVE  SpentOnce'
      BY <1>5, SpentOnceShrinks DEF ReturnExec
<1>6. ASSUME NEW e \in execs, RenewTick(e)
      PROVE  SpentOnce'
      <2>1. PICK next \in {LeaseRenewAt, NULL} :
                  execs' = (execs \ {e}) \cup {[e EXCEPT !.renew = next]}
            BY <1>6 DEF RenewTick
      <2> DEFINE f == [e EXCEPT !.renew = next]
      <2>2. SameToken(f, e) /\ f.phase = e.phase
            BY DEF TypeOK, Exec, SameToken
      <2>3. /\ dispatches' = dispatches /\ handlers' = handlers /\ results' = results
            /\ execs' = (execs \ {e}) \cup {f}
            BY <1>6, <2>1 DEF RenewTick
      <2> HIDE DEF f
      <2> QED
          BY <2>2, <2>3 DEF SpentOnce, LeaseSpentOnce, NotYetRun, SentOnce, Answered, SameToken
<1>7. ASSUME NEW r \in results, ReportSuccess(r) \/ LoseResult(r)
      PROVE  SpentOnce'
      BY <1>7, SpentOnceShrinks DEF ReportSuccess, LoseResult
<1>8. ASSUME NEW r \in results, ReportFailure(r)
      PROVE  SpentOnce'
      <2> DEFINE h == [job |-> r.job, worker |-> r.worker, version |-> r.version,
                       left |-> r.left, count |-> jobs[r.job].retry_count, stage |-> "read"]
      <2>1. SameToken(h, r)
            BY DEF SameToken
      <2>2. /\ dispatches' = dispatches /\ execs' = execs
            /\ results' = results \ {r} /\ handlers' = handlers \cup {h}
            BY <1>8 DEF ReportFailure
      <2> HIDE DEF h
      <2> QED
          BY <2>1, <2>2 DEF SpentOnce, LeaseSpentOnce, NotYetRun, SentOnce, Answered, SameToken
<1>9. ASSUME NEW h \in handlers, FailUpdate(h)
      PROVE  SpentOnce'
      <2> DEFINE g == [h EXCEPT !.stage = "updated"]
      <2>1. SameToken(g, h)
            BY DEF TypeOK, Handler, SameToken
      <2>2. /\ dispatches' = dispatches /\ execs' = execs /\ results' = results
            /\ handlers' \subseteq handlers \cup {g}
            BY <1>9 DEF FailUpdate
      <2> HIDE DEF g
      <2> QED
          BY <2>1, <2>2 DEF SpentOnce, LeaseSpentOnce, NotYetRun, SentOnce, Answered, SameToken
<1>10. ASSUME NEW h \in handlers, CheckDead(h) \/ AbortHandler(h)
      PROVE  SpentOnce'
      BY <1>10, SpentOnceShrinks DEF CheckDead, AbortHandler
<1>11. ASSUME \/ \E a \in autopsies : GenerateAutopsy(a)
              \/ \E d \in dispatches : LoseDispatch(d)
              \/ Reconcile
      PROVE  SpentOnce'
      BY <1>11, SpentOnceShrinks DEF GenerateAutopsy, LoseDispatch, Reconcile
<1>12. ASSUME NEW w \in Workers, StopWorker(w) \/ RestartWorker(w)
      PROVE  SpentOnce'
      BY <1>12, SpentOnceShrinks DEF StopWorker, RestartWorker
<1>13. ASSUME Tick
      PROVE  SpentOnce'
      <2>1. /\ \A e \in execs : SameToken(AgedExec(e), e) /\ AgedExec(e).phase = e.phase
            /\ \A x \in dispatches \cup results \cup handlers : SameToken(Nearer(x), x)
            BY AgedExecType, NearerDispatch, NearerResult, NearerHandler DEF TypeOK
      <2>2. NotYetRun' /\ SentOnce'
            BY <1>13, <2>1, TickedTokens DEF SpentOnce, NotYetRun, SentOnce, SameToken
      <2>3. \A e \in execs' : /\ \A d \in dispatches' : ~SameToken(d, e)
                              /\ \A f \in execs' : SameToken(f, e) => f = e
            BY <1>13, <2>1, TickedTokens DEF SpentOnce, LeaseSpentOnce, SameToken
      <2>4. \A e \in execs' : e.phase = "running" => Answered(e)'
            BY <1>13, <2>1, TickedTokens DEF SpentOnce, LeaseSpentOnce, Answered, SameToken
      <2> QED
          BY <2>2, <2>3, <2>4 DEF SpentOnce, LeaseSpentOnce
<1>14. ASSUME UNCHANGED vars
      PROVE  SpentOnce'
      BY <1>14, SpentOnceShrinks DEF vars
<1> QED
    BY <1>1, <1>2, <1>3, <1>4, <1>5, <1>6, <1>7, <1>8, <1>9, <1>10, <1>11, <1>12, <1>13, <1>14
    DEF Next, Dispatcher, Delivery, Running, Returning, Renewing, Reporting, Autopsy
-------------------------------------------------------------------------------
(***************************************************************************)
(* The inductive invariant of the protocol.  The table's own invariant is  *)
(* in it because a fence is only as good as the columns it compares.       *)
(***************************************************************************)
ProtocolInv == TypeOK /\ JobInv /\ FencingToken /\ SpentOnce /\ BackoffFresh

THEOREM ProtocolInvariant == Spec => []ProtocolInv
<1>1. Init => ProtocolInv
      <2> SUFFICES ASSUME Init PROVE ProtocolInv
          OBVIOUS
      <2>1. TypeOK
            BY NoRowType DEF Init, JobInit, TypeOK, JobTypeOK
      <2>2. JobInv
            BY NoRowType DEF Init, JobInit, JobInv, JobTypeOK, LeaseShape, RetryBudget,
                             AbsentEmpty, NoRow, IsActive, Active
      <2>3. FencingToken /\ SpentOnce /\ BackoffFresh
            BY DEF Init, FencingToken, Tokens, SpentOnce, LeaseSpentOnce, NotYetRun,
                   SentOnce, BackoffFresh
      <2> QED
          BY <2>1, <2>2, <2>3 DEF ProtocolInv
<1>2. ProtocolInv /\ [Next]_vars => ProtocolInv'
      <2> SUFFICES ASSUME ProtocolInv, [Next]_vars PROVE ProtocolInv'
          OBVIOUS
      <2>1. [JobNext]_jobs
            BY TableCall DEF ProtocolInv
      <2>2. JobInv'
            BY <2>1, TypeStep, LeaseShapeStep, RetryBudgetStep, AbsentEmptyStep
            DEF ProtocolInv, JobInv
      <2>3. TypeOK'
            BY <2>2, SoftTypeStep DEF ProtocolInv, JobInv, TypeOK, SoftTypeOK
      <2>4. FencingToken' /\ SpentOnce' /\ BackoffFresh'
            BY FencingStep, SpentOnceStep, BackoffStep DEF ProtocolInv
      <2> QED
          BY <2>2, <2>3, <2>4 DEF ProtocolInv
<1> QED
    BY <1>1, <1>2, PTL DEF Spec

\* Every record in flight, every execution and every row is well formed.
THEOREM TypeCorrect == Spec => []TypeOK
BY ProtocolInvariant, PTL DEF ProtocolInv

(***************************************************************************)
(* The protocol uses the jobs table as JobStore specifies it, so whatever  *)
(* holds of the table with arbitrary callers holds of the system.          *)
(***************************************************************************)
THEOREM ProtocolUsesStore == Spec => JobSpec
<1>1. Init => JobInit
      BY DEF Init
<1>2. ProtocolInv /\ [Next]_vars => [JobNext]_jobs
      BY TableCall DEF ProtocolInv
<1> QED
    BY <1>1, <1>2, ProtocolInvariant, PTL DEF Spec, JobSpec

\* Dispatcher, workers, late results, sweeps and crashes together implement the
\* job life cycle: one owner, a new epoch per claim, exact retry accounting.
THEOREM ProtocolImplementsLifecycle == Spec => Lifecycle
BY ProtocolUsesStore, JobStoreImplementsLifecycle

\* The handler reads retry_count, computes the delay and stores it in another
\* statement; the job still waits as the formula says for its count, for as
\* long as the product fits into a time.Duration.
THEOREM ProtocolRetryWaits == Spec => RetryWaits
BY ProtocolUsesStore, RetryWaitsHolds

\* No late dispatch, execution, renewal or result can act in a later holder's
\* name: the fences of CompleteJob, FailJob and RenewLease are sound.
THEOREM FencingHolds == Spec => []FencingToken
BY ProtocolInvariant, PTL DEF ProtocolInv

\* One lease version is dispatched, run and judged at most once.
THEOREM LeaseSpentOnceHolds == Spec => []LeaseSpentOnce
BY ProtocolInvariant, PTL DEF ProtocolInv, SpentOnce

\* FailJob's backoff is computed from the retry_count its UPDATE increments.
THEOREM BackoffFreshHolds == Spec => []BackoffFresh
BY ProtocolInvariant, PTL DEF ProtocolInv
===============================================================================
