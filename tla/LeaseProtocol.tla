----------------------------- MODULE LeaseProtocol ----------------------------
(***************************************************************************)
(* One job's way through the system: the dispatcher and reconciler loops   *)
(* and the ReportResult and RenewLease handlers of scheduler/scheduler.go, *)
(* and DispatchJob, executeJob, renewLease, reportResult and the shutdown  *)
(* of worker/worker.go, around the jobs table of JobStore.                 *)
(*                                                                         *)
(* A claim gives a worker a token <<job, worker, lease_version>>.  The     *)
(* token travels in the DispatchJob call, lives in an execution, and comes *)
(* back in ReportResult, where the table's fence decides whether it still  *)
(* counts.  RPCs in flight are sets: nothing orders them.                  *)
(*                                                                         *)
(* The worker a job is claimed for is any worker: the choice by            *)
(* GetLeastLoadedWorker reads rows that may be stale (WorkerLifecycle).    *)
(* MarkJobRunning has no caller in the repository, so it is not a step.    *)
(***************************************************************************)
EXTENDS JobStore

CONSTANTS
    DispatchTimeout, \* cfg.DispatchTimeout, in ticks, as all times below
    RunTimeout,      \* the job's run_timeout_ms
    ReportTimeout,   \* the timeout of reportResult
    LeaseRenewAt,    \* cfg.LeaseRenewAt, the renewal ticker
    MaxActive,       \* cfg.MaxWorkerCount, DispatchJob's capacity check
    Faults,          \* which disturbances happen, of FaultKinds
    Timely           \* whether calls and runs end by their deadlines, see Tick

\* claim:   the claim commits but the job is not sent: recordTransition fails,
\*          or the leader stops in between
\* message: a DispatchJob or ReportResult call is lost, or its handler is cut
\*          off by the RPC deadline or a scheduler crash
\* renew:   a RenewLease call fails in transport
\* autopsy: the goroutine that writes the report fails
\* crash:   a worker process dies or is shut down
FaultKinds == {"claim", "message", "renew", "autopsy", "crash"}

ASSUME LeaseProtocolAssumption ==
    /\ DispatchTimeout \in Nat
    /\ RunTimeout \in Nat
    /\ ReportTimeout \in Nat
    /\ LeaseRenewAt \in Nat \ {0}  \* time.NewTicker panics otherwise
    /\ MaxActive \in Nat
    /\ Faults \subseteq FaultKinds
    /\ Timely \in BOOLEAN

VARIABLES
    dispatches,  \* DispatchJob calls in flight: tokens
    execs,       \* executeJob goroutines
    activeJobs,  \* Worker.activeJobs: the keys of each worker's map
    results,     \* ReportResult calls in flight
    handlers,    \* ReportResult handlers inside FailJob or after it
    autopsies,   \* generateAutopsy goroutines that have not stored a report
    reports,     \* autopsy_reports rows
    procs        \* the worker processes

rpcs == <<dispatches, results, handlers>>
dead == <<autopsies, reports>>
vars == <<jobs, rpcs, execs, activeJobs, dead, procs>>

\* left: the ticks until the deadline of a call, or of a run's context.
Token   == [job : Jobs, worker : Workers, version : 1 .. MaxLeaseVersion,
            left : 0 .. DispatchTimeout]
Exec    == [job : Jobs, worker : Workers, version : 1 .. MaxLeaseVersion,
            phase : {"running", "reporting"},
            left  : 0 .. RunTimeout,
            renew : (0 .. LeaseRenewAt) \cup {NULL}]  \* until renewLease's ticker; NULL: it returned
Result  == [job : Jobs, worker : Workers, version : 1 .. MaxLeaseVersion,
            left : 0 .. ReportTimeout, ok : BOOLEAN]
Handler == [job : Jobs, worker : Workers, version : 1 .. MaxLeaseVersion,
            left  : 0 .. ReportTimeout,               \* of the call it serves
            count : Nat,                              \* retry_count as FailJob's SELECT saw it
            stage : {"read", "updated"}]
Death   == [job : Jobs, version : 1 .. MaxLeaseVersion]

Held(x) == Fenced(x.job, x.worker, x.version, Active)
SameToken(x, y) == x.job = y.job /\ x.worker = y.worker /\ x.version = y.version

Init ==
    /\ JobInit
    /\ dispatches = {} /\ results = {} /\ handlers = {}
    /\ execs = {}
    /\ activeJobs = [w \in Workers |-> {}]
    /\ autopsies = {} /\ reports = {}
    /\ procs = [w \in Workers |-> "up"]
-------------------------------------------------------------------------------
\* Clients: SubmitJob and CancelJob.  SubmitJob's quota check restricts nothing
\* here: the count it read may be out of date when it inserts, and the jobs
\* of schedules are inserted without it.  A cancellation is not sent to the
\* worker.
SubmitJob(j, t, p, m) ==
    /\ CreateJob(j, t, p, m)
    /\ UNCHANGED <<rpcs, execs, activeJobs, dead, procs>>

ClientCancel(j, t) ==
    /\ CancelJob(j, t)
    /\ UNCHANGED <<rpcs, execs, activeJobs, dead, procs>>

\* Mistake: the job is sent as it was read before the claim.
DispatchPendingOld(j, w) ==
    /\ ClaimNextJob(j, w, {})
    /\ dispatches' = dispatches \cup
          {[job |-> j, worker |-> w, version |-> jobs[j].lease_version,
            left |-> DispatchTimeout]}
    /\ UNCHANGED <<results, handlers, execs, activeJobs, dead, procs>>

\* One turn of dispatchPendingJobs: the claim is committed, then a goroutine
\* sends it.
DispatchPending(j, w) ==
    /\ ClaimNextJob(j, w, {})
    /\ \/ dispatches' = dispatches \cup
             {[job |-> j, worker |-> w, version |-> jobs[j].lease_version + 1,
               left |-> DispatchTimeout]}
       \/ "claim" \in Faults /\ UNCHANGED dispatches
    /\ UNCHANGED <<results, handlers, execs, activeJobs, dead, procs>>

\* dispatchToWorker gives up: an error is only logged.
LoseDispatch(d) ==
    /\ "message" \in Faults \/ procs[d.worker] = "down"
    /\ dispatches' = dispatches \ {d}
    /\ UNCHANGED <<jobs, results, handlers, execs, activeJobs, dead, procs>>

\* Mistake: the call is sent again although the worker took it.
DispatchJobTwice(d) ==
    /\ procs[d.worker] = "up"
    /\ execs' = execs \cup
         {[job |-> d.job, worker |-> d.worker, version |-> d.version,
           phase |-> "running", left |-> RunTimeout, renew |-> LeaseRenewAt]}
    /\ activeJobs' = [activeJobs EXCEPT ![d.worker] = @ \cup {d.job}]
    /\ UNCHANGED <<jobs, rpcs, dead, procs>>

\* Worker.DispatchJob.  A rejection is only logged by the scheduler.  The
\* worker does not look whether it is draining or already runs this job.
DispatchJob(d) ==
    /\ procs[d.worker] = "up"
    /\ dispatches' = dispatches \ {d}
    /\ IF Cardinality(activeJobs[d.worker]) >= MaxActive
       THEN UNCHANGED <<execs, activeJobs>>
       ELSE /\ execs' = execs \cup
                 {[job |-> d.job, worker |-> d.worker, version |-> d.version,
                   phase |-> "running", left |-> RunTimeout, renew |-> LeaseRenewAt]}
            /\ activeJobs' = [activeJobs EXCEPT ![d.worker] = @ \cup {d.job}]
    /\ UNCHANGED <<jobs, results, handlers, dead, procs>>

\* runJob returns, with an error or without; executeJob calls reportResult.
FinishRun(e, ok) ==
    /\ e.phase = "running"
    /\ execs' = (execs \ {e}) \cup {[e EXCEPT !.phase = "reporting"]}
    /\ results' = results \cup
         {[job |-> e.job, worker |-> e.worker, version |-> e.version,
           left |-> ReportTimeout, ok |-> ok]}
    /\ UNCHANGED <<jobs, dispatches, handlers, activeJobs, dead, procs>>

\* The ReportResult call this execution waits for has been answered or lost.
Answered(e) == ~\E x \in results \cup handlers : SameToken(x, e)

\* reportResult returns, answered or (unless Timely) after its own timeout.
\* The deferred delete removes the key, whichever execution put it there.
ReturnExec(e) ==
    /\ e.phase = "reporting"
    /\ Timely => Answered(e)
    /\ execs' = execs \ {e}
    /\ activeJobs' = [activeJobs EXCEPT ![e.worker] = @ \ {e.job}]
    /\ UNCHANGED <<jobs, rpcs, dead, procs>>

\* One tick of renewLease's loop.  The statement demands status RUNNING.  The
\* loop ends with the run's context, with a refusal, or with a call that failed,
\* even one that took effect; it goes on if the client could not be set up.
RenewTick(e) ==
    /\ e.renew = 0
    /\ \E next \in {LeaseRenewAt, NULL} :
          /\ execs' = (execs \ {e}) \cup {[e EXCEPT !.renew = next]}
          /\ \/ /\ RenewLease(e.job, e.worker, e.version)
                /\ e.left > 0
                /\ next # NULL \/ "renew" \in Faults
             \/ /\ "renew" \in Faults \/ next = NULL
                /\ \/ "renew" \in Faults \/ e.left = 0
                   \/ ~Fenced(e.job, e.worker, e.version, {"RUNNING"})
                /\ UNCHANGED jobs
    /\ UNCHANGED <<rpcs, activeJobs, dead, procs>>

\* The reconciler loop, and the sweep of a leader that has just been promoted.
Reconcile ==
    /\ ReclaimExpiredJobs
    /\ UNCHANGED <<rpcs, execs, activeJobs, dead, procs>>
-------------------------------------------------------------------------------
LoseResult(r) ==
    /\ "message" \in Faults
    /\ results' = results \ {r}
    /\ UNCHANGED <<jobs, dispatches, handlers, execs, activeJobs, dead, procs>>

\* ReportResult with Success: one fenced statement.
ReportSuccess(r) ==
    /\ r.ok
    /\ results' = results \ {r}
    /\ \/ CompleteJob(r.job, r.worker, r.version)
       \/ ~Held(r) /\ UNCHANGED jobs
    /\ UNCHANGED <<dispatches, handlers, execs, activeJobs, dead, procs>>

\* ReportResult without: FailJob first reads retry_count, in a statement and a
\* transaction of its own.
ReportFailure(r) ==
    /\ ~r.ok
    /\ results' = results \ {r}
    /\ handlers' = handlers \cup
         {[job |-> r.job, worker |-> r.worker, version |-> r.version, left |-> r.left,
           count |-> jobs[r.job].retry_count, stage |-> "read"]}
    /\ UNCHANGED <<jobs, dispatches, execs, activeJobs, dead, procs>>

\* ... then runs the fenced UPDATE with the backoff it computed.  A refused or
\* failed call ends the handler with accepted = false.
FailUpdate(h) ==
    /\ h.stage = "read"
    /\ \/ /\ \E d \in RetryDelays(h.count) : FailJob(h.job, h.worker, h.version, d)
          /\ handlers' = (handlers \ {h}) \cup {[h EXCEPT !.stage = "updated"]}
       \/ /\ ~Held(h)
          /\ handlers' = handlers \ {h}
          /\ UNCHANGED jobs
    /\ UNCHANGED <<dispatches, results, execs, activeJobs, dead, procs>>

\* Mistake: the status to look for is FAILED.
CheckFailed(h) ==
    /\ h.stage = "updated"
    /\ handlers' = handlers \ {h}
    /\ autopsies' = autopsies \cup
         {x \in {[job |-> h.job, version |-> h.version]} : jobs[h.job].status = "FAILED"}
    /\ UNCHANGED <<jobs, dispatches, results, execs, activeJobs, reports, procs>>

\* ... and reads the job again to see whether it died, in which case a
\* goroutine writes the autopsy.
CheckDead(h) ==
    /\ h.stage = "updated"
    /\ handlers' = handlers \ {h}
    /\ autopsies' = autopsies \cup
         {x \in {[job |-> h.job, version |-> h.version]} :
             jobs[h.job].status = "DEAD_LETTER"}
    /\ UNCHANGED <<jobs, dispatches, results, execs, activeJobs, reports, procs>>

\* The handler's context is cancelled between two of its statements, or its
\* recordTransition fails.
AbortHandler(h) ==
    /\ "message" \in Faults
    /\ handlers' = handlers \ {h}
    /\ UNCHANGED <<jobs, dispatches, results, execs, activeJobs, dead, procs>>

\* generateAutopsy: the report is inserted, or an error is logged.
GenerateAutopsy(a) ==
    /\ autopsies' = autopsies \ {a}
    /\ \/ reports' = reports \cup {a}
       \/ "autopsy" \in Faults /\ UNCHANGED reports
    /\ UNCHANGED <<jobs, rpcs, execs, activeJobs, procs>>
-------------------------------------------------------------------------------
\* The process ends: by a crash, or after SIGTERM, when it has drained or its
\* drain deadline has passed.  Its goroutines and its map end with it; calls it
\* has sent may still arrive.  That it drains changes nothing before (what it
\* tells the registry is in WorkerLifecycle): it goes on taking calls.
StopWorker(w) ==
    /\ "crash" \in Faults
    /\ procs[w] = "up"
    /\ procs' = [procs EXCEPT ![w] = "down"]
    /\ execs' = {e \in execs : e.worker # w}
    /\ activeJobs' = [activeJobs EXCEPT ![w] = {}]
    /\ UNCHANGED <<jobs, rpcs, dead>>

\* The process is started again under the same WORKER_ID.
RestartWorker(w) ==
    /\ procs[w] = "down"
    /\ procs' = [procs EXCEPT ![w] = "up"]
    /\ UNCHANGED <<jobs, rpcs, execs, activeJobs, dead>>

\* Every call and every run has time left before its deadline, no renewal is due,
\* and no goroutine has only to return.
Punctual ==
    /\ \A x \in dispatches \cup results \cup handlers : x.left > 0
    /\ \A e \in execs : /\ IF e.phase = "running" THEN e.left > 0 ELSE ~Answered(e)
                        /\ e.renew # 0

Nearer(x) == [x EXCEPT !.left = IF @ = 0 THEN 0 ELSE @ - 1]

\* Time passes, also while calls and runs are under way.  When Timely, each is
\* over by its own deadline: a call has arrived and its handler is done, or it
\* was lost, and a run has ended with its context; and what lies between two of
\* them (recordTransition, the start of a goroutine) is quick.  Otherwise any
\* process may be arbitrarily slow.  Time is counted in whole ticks for all
\* alike: a call with timeout n may see n ticks, a lease of n ticks is past
\* lease_expires_at at the tick after the n-th.
Tick ==
    /\ Timely => Punctual
    /\ Age
    /\ dispatches' = {Nearer(d) : d \in dispatches}
    /\ results' = {Nearer(r) : r \in results}
    /\ handlers' = {Nearer(h) : h \in handlers}
    /\ execs' = {[Nearer(e) EXCEPT !.renew = IF @ = NULL \/ @ = 0 THEN @ ELSE @ - 1] :
                    e \in execs}
    /\ UNCHANGED <<activeJobs, dead, procs>>
-------------------------------------------------------------------------------
Dispatcher == \E j \in Jobs, w \in Workers : DispatchPending(j, w)
Delivery   == \E d \in dispatches : DispatchJob(d)
Running    == \E e \in execs, ok \in BOOLEAN : FinishRun(e, ok)
Returning  == \E e \in execs : ReturnExec(e)
Renewing   == \E e \in execs : RenewTick(e)
Reporting  == \/ \E r \in results : ReportSuccess(r) \/ ReportFailure(r)
              \/ \E h \in handlers : FailUpdate(h) \/ CheckDead(h)
Autopsy    == \E a \in autopsies : GenerateAutopsy(a)

Next ==
    \/ \E j \in Jobs, t \in Tenants :
          \/ \E p \in Priorities, m \in RetryLimits : SubmitJob(j, t, p, m)
          \/ ClientCancel(j, t)
    \/ Dispatcher \/ Delivery \/ Running \/ Returning \/ Renewing
    \/ Reporting \/ Autopsy \/ Reconcile
    \/ \E d \in dispatches : LoseDispatch(d)
    \/ \E r \in results : LoseResult(r)
    \/ \E h \in handlers : AbortHandler(h)
    \/ \E w \in Workers : StopWorker(w) \/ RestartWorker(w)
    \/ Tick

Spec == Init /\ [][Next]_vars

\* Time passes; the loops run on tickers for as long as there is a leader; and
\* the Go scheduler and the network run every goroutine and call to its end.
\* Nobody is obliged to submit, to cancel or to restart.
Fairness ==
    /\ WF_vars(Tick)      /\ WF_vars(Reconcile)  /\ WF_vars(Dispatcher)
    /\ WF_vars(Delivery)  /\ WF_vars(Running)    /\ WF_vars(Returning)
    /\ WF_vars(Renewing)  /\ WF_vars(Reporting)  /\ WF_vars(Autopsy)

FairSpec == Spec /\ Fairness

\* All that the requeuing of a lapsed lease rests on.
ReconcilerSpec == Spec /\ WF_vars(Tick) /\ WF_vars(Reconcile)
-------------------------------------------------------------------------------
TypeOK ==
    /\ JobTypeOK
    /\ dispatches \subseteq Token
    /\ execs \subseteq Exec
    /\ activeJobs \in [Workers -> SUBSET Jobs]
    /\ results \subseteq Result
    /\ handlers \subseteq Handler
    /\ autopsies \subseteq Death
    /\ reports \subseteq Death
    /\ procs \in [Workers -> {"up", "down"}]

\* Whatever carries a token: calls in flight, executions and handlers.
Tokens == dispatches \cup execs \cup results \cup handlers

(***************************************************************************)
(* The fence means what it says: no token anywhere in the system, however  *)
(* late, is ahead of the job's lease_version, and one that equals it while *)
(* the job is active belongs to the worker the table names.  A worker      *)
(* whose lease lapsed can therefore never pass for its successor.          *)
(***************************************************************************)
FencingToken ==
    \A x \in Tokens :
       /\ x.version <= jobs[x.job].lease_version
       /\ x.version = jobs[x.job].lease_version /\ IsActive(x.job)
            => x.worker = jobs[x.job].assigned_worker

(***************************************************************************)
(* A lease is spent once: the call, the execution and the verdict of one   *)
(* lease version follow each other.  Two executions of a job, or a verdict *)
(* while the run still goes on, belong to different versions, so at most   *)
(* one of them can be accepted.                                            *)
(***************************************************************************)
LeaseSpentOnce ==
    \A e \in execs :
       /\ \A d \in dispatches : ~SameToken(d, e)
       /\ \A f \in execs : SameToken(f, e) => f = e
       /\ e.phase = "running" => Answered(e)

(***************************************************************************)
(* FailJob computes the backoff from a retry_count it read before, in      *)
(* another transaction.  The read is still right whenever the UPDATE       *)
(* succeeds, although other failures, sweeps and claims may come between.  *)
(***************************************************************************)
BackoffFresh ==
    \A h \in handlers :
       h.stage = "read" /\ Held(h) => h.count = jobs[h.job].retry_count

(***************************************************************************)
(* README.md, "lease-based job ownership and version checking to prevent   *)
(* double execution": no two executeJob goroutines run one job at the same *)
(* time.  It holds of timely processes if the dispatch, the run and the    *)
(* report together fit into the lease, which starts before all three; with *)
(* the defaults, where a run may take ten leases, it does not hold.        *)
(***************************************************************************)
NoDoubleExecution ==
    \A e, f \in execs :
       e.job = f.job /\ e.phase = "running" /\ f.phase = "running" => e = f

(***************************************************************************)
(* A verdict is never thrown away by the fence of CompleteJob or FailJob   *)
(* unless a client cancelled the job: the work done under a lease counts,  *)
(* if dispatch, run and report keep deadlines that fit into the lease.     *)
(***************************************************************************)
VerdictCounts ==
    \A x \in results \cup {h \in handlers : h.stage = "read"} :
       Held(x) \/ jobs[x.job].status = "CANCELLED"

(***************************************************************************)
(* A lease that is not renewed ends.  Whatever is lost, and whoever        *)
(* crashes, no job stays with one holder for ever: it is settled, or the   *)
(* sweep requeues it.                                                      *)
(***************************************************************************)
LeaseEnds ==
    \A j \in Jobs, v \in 1 .. MaxLeaseVersion :
       (IsActive(j) /\ jobs[j].lease_version = v)
          ~> ~(IsActive(j) /\ jobs[j].lease_version = v)

(***************************************************************************)
(* With timely processes, no lost calls or crashes, and a dispatch, a run  *)
(* and a report that fit into the lease, every submitted job comes to an   *)
(* end, through however many failures, backoffs and claims.  That they fit *)
(* is needed: a job that always runs longer than its lease is swept and    *)
(* claimed again each time, and each of its verdicts is refused.           *)
(***************************************************************************)
EventuallyTerminal ==
    \A j \in Jobs : Exists(j) ~> jobs[j].status \in Terminal

(***************************************************************************)
(* A dead-lettered job gets its autopsy, although ReportResult learns of   *)
(* the death only by reading the job again after the UPDATE.               *)
(***************************************************************************)
DeadGetsReport ==
    \A j \in Jobs :
       jobs[j].status = "DEAD_LETTER" ~> \E a \in reports : a.job = j
===============================================================================
