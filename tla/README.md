# A TLA+ model of the distributed job scheduler

The repository is a job scheduler in Go: scheduler processes that share a
PostgreSQL database, and workers that run jobs. This directory models the parts
that decide what happens to a call, a job, a worker, the leadership, a schedule
and the record of it all; model-checks them with TLC on small instances; and proves the most
important properties with TLAPS for instances of any size. Paths below are
relative to the repository.

## 1. The system

| part | state | operations | hard behaviour |
|---|---|---|---|
| **Job store** (`internal/db/jobstore.go`, `schema.sql`) | the `jobs` rows: status, worker, lease (expiry, version), retry count, `retry_after` | create, claim, mark running, complete, fail, reclaim, cancel, renew: one SQL statement each | late results after a lapse; claims racing with sweeps; the budget at its edge |
| **Dispatch, lease and result protocol** (`scheduler/scheduler.go`, `worker/worker.go`) | calls in flight, executions and `activeJobs` in each worker, handlers between two statements, autopsy reports | dispatcher and reconciler loops, `DispatchJob`, `executeJob`, `renewLease`, `ReportResult`, shutdown | lost calls, crashes between two steps, values read before and used after, a lease that ends under a run |
| **Worker registry** (`internal/db/workerstore.go`, `Heartbeat`, `reapDeadWorkers`) | the `workers` rows; each worker's heartbeat loop and drain | register, heartbeat, reap, drain, choose the least loaded | stale reads, a drain that races with a heartbeat, restarts over an old row |
| **Leader election** (`scheduler/leader.go`, `onPromote`, `onDemote` and shutdown in `scheduler.go`) | the advisory lock and its session; `isLeader`, `lockConn`, the loops and their cancel function | poll, promote, demote, shut down | a lock that moves before the old leader knows; sessions without a client |
| **Cron schedules** (`scheduler/cron.go`, `internal/db/schedulestore.go`) | the `schedules` rows; an evaluator's list and the schedule it is firing | create, toggle, delete, get due, fire, advance | a stop between firing and advancing, two evaluators, catch-up |
| **Audit trail and autopsy** (`recordTransition`, `internal/autopsy/report.go`) | the `job_transitions` and `autopsy_reports` rows; an autopsy's goroutine | an entry after every change; a report after a death, with its attempts and a probable cause | entries late, misordered or lost; a report that reads the trail too early or cut at 100 |
| **Admission** (`scheduler/auth.go`, `scheduler/ratelimit.go`, quotas in `SubmitJob` and `CreateSchedule`) | token buckets; counts of a tenant's rows | authenticate, take a token, count, then insert; clean up | lazy refills, forgotten buckets, order of the interceptors; count and insert are two statements |
| **Retry backoff** (`internal/retry/backoff.go`) | none | a delay from a count | overflow, jitter, whole seconds |
| **Payload executor** (`worker/executor.go`) | none | run a command, a request, a sleep | errors whose text is not the worker's own; a panic |
| Scrubber, metrics, client, configuration, generated code | none that another part depends on | | |

How they interact: the leader's dispatcher chooses a worker from the registry,
claims a job in the job store and calls the worker. The worker runs the job and
reports to any scheduler instance, whose handler writes to the job store behind a
fence on worker and lease version. The leader's reconciler requeues jobs whose
lease ran out, its monitor marks silent workers dead, its evaluator creates the
jobs of due schedules. Which instance is the leader is up to the election. All
shared state is in the database; no statement of one operation shares a
transaction with another.

What makes each part correct is in section 4; what can go wrong, line by line, is
the list `hazards` of `PROJECT.json`.

## 2. The modules

| module | contents |
|---|---|
| `JobLifecycle` | abstract: what a client and a worker may rely on. A job is absent, queued, owned, or at one of three ends; a claim starts a new epoch; a failure is charged, a lapse is not; nothing follows an end. |
| `Backoff` | the delay of a retry as a set of outcomes, and the formula of its comment |
| `JobStore` | extends `Backoff`: the `jobs` table, one action per statement, called by anybody with anything; `Lifecycle` says that it implements `JobLifecycle` |
| `LeaseProtocol` | extends `JobStore` with its real callers |
| `WorkerStore`, `WorkerLifecycle` | the `workers` table; its callers |
| `LeaderElection` | instances, connections, sessions and the lock |
| `CronSchedules` | the `schedules` table and its evaluators |
| `TokenBucket` | abstract: what a rate limiter promises |
| `Admission` | interceptors and quotas; `ActsAsTokenBucket` says that it implements `TokenBucket` |
| `Executor` | what running each kind of payload can end in |
| `AuditTrail` | extends `JobLifecycle`, which `JobStore` implements, and `Executor` with the entries that follow each change, and with the autopsy |
| `MC...` | the same for TLC, with symmetry sets |
| `JobStore_proofs`, `LeaseProtocol_proofs`, `LeaseTimely_proofs`, `WorkerLifecycle_proofs`, `LeaderElection_proofs`, `CronSchedules_proofs`, `Admission_proofs`, `AuditTrail_proofs` | theorems; `LeaseTimely_proofs` extends `LeaseProtocol_proofs` |

Conventions. An operator has the name of the function it models. A statement is
atomic; whatever a handler does between two statements is a step of its own if
another process can tell. Timestamps are kept as the time left until them, or
since them, and count down or up with a tick, so that no clock grows without
bound; `CronSchedules`, which is about points in time, has a clock with a bound.
Faults are an explicit constant (`Faults`, `Lossy`), so that each run says which
disturbances it allows. Operators commented as *Mistake* are faulty variants of the
operator after them; no specification uses them, and `PROJECT.json` (`mutants`)
says which property catches each.

### Correspondence to the code

*JobStore.* `Row` has the columns some statement reads. A job is named by its
`request_id`, since `ON CONFLICT (request_id)` makes the key decide. `Fenced` is the
`WHERE` clause of the worker-facing statements. `ClaimNextJob` takes the set of
rows that concurrent statements have locked, because `SKIP LOCKED` passes over them.
`created` is the rank of `created_at`. The delay that FailJob writes is any of
`RetryDelays`: jitter is a choice, and so is what a float that does not fit becomes as
an integer (amd64 and arm64 differ). `Formula` is the comment's formula in exact
arithmetic; `Fits` says that its product has a value as an integer. The runs take small
integers for nanoseconds, so that the cap, the overflow and delays cut to zero seconds
are all reached.

*LeaseProtocol.* `dispatches`, `results`: calls in flight. `execs`: `executeJob`
goroutines, with the time until the renewal ticker. Each has the time left until its
deadline (`left`): of the dispatch (10s), of the run's context, which starts only when
the call arrives (`worker.go:125`), of the report (3s), which passes on to its handler.
The lease starts with the claim, before all of them. `Tick` lets time pass while calls
and runs are under way; with `Timely` (`Punctual`) each is over by its deadline, without
it nothing is assumed.
`activeJobs`: the worker's map, by job id. `handlers`: `ReportResult` calls inside
`FailJob` (stage `read`: `retry_count` was read) or after it (`updated`: the job is
about to be read again). A worker that drains goes on taking calls, so a drain is not a
step here until its process ends. `MarkJobRunning` and the worker's `CancelJob` have no caller
in the repository, so they are not steps here; `MarkJobRunning` is one in
`JobStore`. The dispatcher may choose any worker. `SubmitJob`'s quota restricts
nothing in this model (see the comment there).

*WorkerLifecycle.* `loop` is what the heartbeat goroutine does, `due` its ticker,
`drain` the call the shutdown makes, `stale` the reaper's list, `picked` the
dispatcher's choice before its claim.

*LeaderElection.* A session is an instance and a connection. `cut` has the broken
connections; the server may end a session before the client sees it (`EndSession`)
or after the client has left (`ORPHAN`). The pool and the server are external and
modelled by what the code relies on: a connection that is handed out is not
recycled; a released one that works goes back with its session, or is closed if the
pool is; `Close` waits for the ones that are handed out. That `releaseLock` is not a step follows from main, which
gives `Run` a context that nobody cancels.

*CronSchedules.* A cron expression is a period. A job is the pair that makes up its
`request_id`. `firing` is a `fireSchedule` call with the time it began and the runs
it has yet to create.

*Admission.* A bucket is its tokens and the age of `lastRefill`; tokens are counted in
units so that fractions of a token are exact (`Cost` units each). A request is a method, a
bearer, a tenant id in the body and a header. `calls` has the handlers between their
count and their insert, in any instance; `rows` counts a tenant's unfinished jobs, by
origin, and its schedules; `Count` adds the origins up, as `getTenantJobCount` does. A call that gets no further than a read or an error is
`Serve`. That a handler may die or its insert fail is a choice in `Insert`.

*Executor.* A payload is its kind. An outcome is the place an error comes from and
the set of phrases in its text that `classifyCause` looks for; a text that comes from
outside (standard error, an answer), or that quotes the payload, may hold any of them. An
answer counts by its status even if its body stalls, since `executeHTTP` ignores the error
of reading it.

*AuditTrail.* A change to a job and the INSERT after it are two steps; `inserts` has
what is under way, with what its caller does next: the dispatcher sends the job only
after the claim is recorded, `ReportResult` looks for a death only after the failure is.
A failed INSERT (`RecordFails`) also stands for a process that ends there. `lost` and an
entry's `epoch` are history for the properties. The attempts of a report are the rows of
the trail that count as one, each at its place in the trail, so the order of the
code's slice is the order of the places.

## 3. Plan

1. Done: `JobLifecycle`, `JobStore`, `LeaseProtocol`, `LeaderElection`; `WorkerStore`,
   `WorkerLifecycle`; `CronSchedules`; `Backoff`; `TokenBucket`, `Admission`; `Executor`,
   `AuditTrail`; and the proofs of every invariant, action property and refinement
   that a run checks.
2. What is left to prove is liveness, which stays with TLC (section 5).
3. Perhaps: election, dispatcher and cron in one module. What the parts need of it is
   there already, as each is modelled with its neighbours' worst case: two evaluators in
   `CronSchedules`, concurrent dispatchers and sweeps in `LeaseProtocol`.

## 4. The runs

Runs that pass:

| run | shows |
|---|---|
| `JobStore` | `LeaseShape`: status and lease columns agree, so no job is stuck without a lease to expire. `RetryBudget`: death exactly at the budget. `Lifecycle`: refinement of `JobLifecycle`. `RetryWaits`: every delay follows the formula of its comment, as long as the product fits the integer. Two jobs and two workers, limits 0, 2 and 4, three claims per job, arbitrary callers. |
| `LeaseSafety` | `FencingToken`, `LeaseSpentOnce`, `BackoffFresh` with claims, calls and workers lost and no deadlines; `LeaseEnds`: with only the clock and the reconciler fair, no lease lasts for ever. One job: the properties speak of one job and its tokens. Two workers, three claims: enough for a token to be overtaken twice and for a worker to hold the job again after another failure was counted. |
| `LeaseTimely` | `NoDoubleExecution`, `VerdictCounts`, `EventuallyTerminal`, `DeadGetsReport` when calls and runs keep their deadlines and dispatch, run and report together fit into the lease: 2 + 3 + 1 ticks and a lease of 6. The bound is exact: with a lease of 5 a verdict is refused. One job, two workers that run one job at a time, up to three attempts and five claims, which no behaviour exceeds; no call is lost, renewals may fail. |
| `WorkerProgress` | `IdleBecomesEligible`, `FullGetsSkipped`, `GoneIsReaped`, calls and statements failing. One worker, since they speak of each by itself. |
| `LeaderSafety` | `SplitBrainNeedsCut`, `LoopsFollowLeadership`, `DeposedLeaderStops`, `LeadershipRecovers`, `StandbyShutsDown`: two instances, two connections each, every fault. |
| `CronSafety` | `NoLostRun`, `OnlyDueRuns`: two evaluators, clocks one tick apart, every fault, periods 1 and 2, catch-ups of at most two runs. Four ticks of time are enough for a catch-up that is cut off and for one evaluator to overwrite the other's advance. |
| `CronProgress` | `DueGetsFired`: two schedules, one evaluator, every fault. |
| `Admission` | `QuotaExcess`: what the quotas count exceeds them by less than the number of handlers, apart from scheduled jobs, which are counted and not checked. `ActsAsTokenBucket`: refinement of `TokenBucket`. `ServedAgain`: a refused tenant that keeps asking is served. One tenant, whose bucket and that of "unknown" are used; a bucket of one and a half tokens, half a token per tick. |
| `AuditTrail` | `TrailAccounts`, `ClaimBeforeVerdict`, `ReportTrue`, `CauseTrue` with two entries late at one time and one lost, three claims of one job, and autopsies that read four entries: enough for a lapse and two failures in any order, and for a trail that is cut. `CauseTrue` speaks of the errors that the worker words itself (a command it rejects, a sleep that is cut off, a payload that is not JSON), of payloads that cannot fail, and of one that kills the worker; other texts may look like anything. |

Runs in which TLC finds what the code does to differ from what a comment or a log
message says (`findings` of `PROJECT.json` quotes each):

| run | what happens |
|---|---|
| `LeaseDefaults` | The values of `config.Default()`, in seconds, every deadline kept and nothing lost. A run goes on; its renewal at 10s is refused, because it demands `RUNNING` and no job is ever marked so; the lease lapses, the sweep requeues the job, and a second worker runs it next to the first (README.md:8: "to prevent double execution"). |
| `BackoffOverflow` | Past the count where the product overflows (33 at the defaults), amd64 retries after the base delay instead of the maximum (`backoff.go:10`). |
| `LeaderShutdown` | After SIGTERM the leader hangs and keeps the lock. |

The models show more of this kind, which no property denies.

- With the defaults (runs of up to 5m, leases of 30s, renewals always refused) a job that
  takes longer than its lease never ends: it is swept, claimed and run again for ever,
  and each verdict is refused. Hence the premise of `EventuallyTerminal`.
- Even with `run_timeout` equal to the lease, a call that arrives late leaves a run that
  outlasts the lease, which is why the premise of `LeaseTimely` adds up all three.
- A job that comes back to the same worker shares its entry in `activeJobs` with its
  older execution, whose deferred delete removes it (`worker.go:175`): a drain then ends
  under the newer run. It takes a lapsed lease, or a base delay
  so short that it is cut to zero (1s, less its jitter).
- The heartbeat loop goes on while a worker drains. Its next heartbeat finds no ACTIVE
  row, is answered RE_REGISTER, and the registration makes the worker ACTIVE again
  (`worker.go:529` expects no new jobs). Once the process is gone, `GoneIsReaped`.
- Between two heartbeats a worker is sent more than `max_jobs` jobs.
- After a connection drops, the loops of two instances run at once, for as long as
  `DeposedLeaderStops` takes. Two evaluators may fire the same row, since the row locks
  of `GetDueSchedules` end with the statement; the job's key makes it one job.
- The policy SKIP fires the oldest missed run, like RUN_ONCE.
- Overlapping calls exceed the quotas ("max jobs per tenant in queue", `config.go:54`),
  and the evaluator's jobs are not checked at all, so there is no bound on a tenant's
  jobs. `tenant_quotas.max_jobs` is read by nobody.
- An entry whose INSERT fails is missing from the trail, although `schema.sql:54` has
  "every job state transition recorded here", and the caller gets an error for a change
  that stands: a claimed job is not sent and waits for its lease to lapse.
- A slow handler of an earlier failure may find the death of a later one: the job gets
  two reports, and the early one may lack the death. So does one of a trail with more
  than 100 entries.
- A command of blanks makes the worker panic (`executor.go:118`); nobody recovers, so
  the process ends, the lease lapses without a charge, and the next worker is next.
- A command that its deadline kills is reported as failed, not as timed out, and a
  rejected command with `timeout` in its words is classified as a timeout.

Bounds are constants with a name: `MaxLeaseVersion` (claims of a job), `MaxQueue`
(jobs waiting for or sent to a worker), `MaxTime` and `MaxSkew` (cron), `Callers` and
`MaxCron` (handlers at one time, live jobs of schedules), `MaxEpoch`, `MaxLate` and
`MaxLost` (claims, entries under way, entries lost). `Limit` stands for the 100 entries
of an autopsy. A tick of `WorkerLifecycle` is the heartbeat interval. A tick of
`LeaseProtocol` has no fixed length: its timeouts are numbers of ticks, and are seconds in
`LeaseDefaults`. Time is counted in whole ticks for calls and leases alike: a call with
timeout n may see n ticks, and a lease of n ticks is past its end at the tick after the
n-th. In `LeaseSafety`, where `Timely` is false, the timeouts have no effect. At
`MaxLeaseVersion` a job is no longer claimed; `LeaseTimely` has `RetryLimits` that end a
job before that, and `LeaseEnds` asks only for the end of a lease.
`MaxCatchup` is the code's 10 in `CronProgress`, and 2 in `CronSafety`, so that it is
reached. `Admission` assumes that a bucket fills up within the cleanup interval
(`CleanupTick * Rate >= Burst`; the defaults satisfy it): with less, cleanup would give
tokens away.

Fairness. The loops run on tickers in the leader, and calls end by their timeouts:
weak fairness for the clock, the loops, the goroutines and the handlers. Calls and
statements that fail again and again are assumed to get through some time (strong
fairness), where the code tries again on every tick: heartbeats, registrations,
marking the dead, the evaluator's statements. Clients and operators are obliged to
nothing, faults are never forced, and restarts are not fair. The one client that is fair is in `ServedAgain`, which is about
clients that keep polling. `LeadershipRecovers`
takes the end of disturbances as its premise (`Settled`).

## 5. The proofs

All hold for every value of the constants that satisfies the named assumptions of the
modules, which TLC also evaluates in every run.

`JobStore_proofs`. `JobInv` is `JobTypeOK`, `LeaseShape`, `RetryBudget` and
`AbsentEmpty`: a key without a row has no worker, no count and no lease version.
The last is needed because creation starts a life at epoch 0 with no failures. Every statement rewrites one row,
except for the sweep and the clock, which rewrite each row by itself; so the proof is a
lemma for each way a row changes, lifted to the table once. On this rests
`JobStoreImplementsLifecycle`: the first state maps to a first state of
`JobLifecycle` and each statement to one of its steps, or to none (renewing, marking
as running and the clock). `RetryWaitsHolds` goes through the branches of
CalculateBackoff for a product that fits: the cap gives the formula's minimum, the jitter
stays within a quarter of it, and nothing is negative. It has no counterpart for
products that do not fit (`BackoffOverflow`).

`LeaseProtocol_proofs`. `ProtocolUsesStore`: each step of the protocol is a step of
`JobSpec` or leaves the table alone; with it, what is proved of the table under
arbitrary callers holds for the real ones, `Lifecycle` included. `ProtocolInvariant`
strengthens the token properties until they are inductive: a token's version is
between 1 and the job's; a call, an execution and a verdict with the same token
exclude each other in the right order; and a handler that still passes the fence has
read the current `retry_count`, since every change of it takes away the worker the
fence asks for and only a claim, with a new version, gives one back.

`LeaderElection_proofs`. `SplitBrainNeedsCut` speaks of two leaders. What is
inductive speaks of one (`LeaderBacked`): who leads has a lock connection whose
session holds the lock unless it is cut. It also shows that verifyLock's query of
`pg_locks` can never find a working connection without the lock.
`LoopsFollowLeadership` is inductive with it.

`Admission_proofs`. The type invariant bounds every bucket by the burst.
`QuotaExcessHolds`: what is inductive is that the admitted rows and the inserting handlers
stay below the quota plus the handlers (`AdmittedExcess`): they only grow when a handler
passes its count, which includes the scheduled jobs, and then they are below the quota
and another handler is free. The scheduled jobs are added on both sides (`ExcessOfCount`).
`LimiterImplementsTokenBucket` maps a bucket to
what it would hold if it were refilled now, and a missing one to the burst; a tick adds
`Rate` to it, a call draws from it exactly if it is allowed, and cleanup changes nothing
because `CleanupTick * Rate >= Burst` makes every bucket it removes a full one.

`LeaseTimely_proofs`. Without timeliness the fence is all there is: two workers may run
one job. The theorems here are under `DeadlinesWithinLease`: calls, runs and timers keep
their deadlines (`Timely`) and `DispatchTimeout + RunTimeout + ReportTimeout <=
LeaseDuration`, as in the run `LeaseTimely`; all faults, and any number of jobs, workers and
claims, are allowed. The defaults do not satisfy it, and `LeaseDefaults` shows what
happens then; a configuration with runs of at most 17s under the default lease does. `NoDoubleExecution` is
not inductive: a second run follows from a second claim, that from a sweep, and
that from a lease that ends too early. `TimelyInv` therefore says of every token that
is open (sent, running, or with a verdict on its way) that it owns its job, unless a
client cancelled it, and that the lease has at least as long to go as what is left of the
three deadlines (`OpenOwns`, `LeaseLasts`); a lease has one verdict (`JudgedOnce`). A sweep
then never finds a job with an open token, and a claim needs a sweep or a verdict first.
`VerdictCounts` follows from the same invariant.

`CronSchedules_proofs`. Evaluators work on copies of rows and write `next_run_at` without
looking (`AdvanceSchedule`), so what is true of the table has to be true of every
copy as well: `CronInv` says of each row and each copy that its `next_run_at` is
an occurrence and that every run before it is in the jobs table or was dropped by the
catch-up limit, and of each fireSchedule call that its list, its cut-off and the jobs table cover the runs from the `next_run_at` it read to the
time it began. `NoRunIsLost` then holds for any disagreement of the clocks.
`OnlyDueRunsFire` needs a hypothesis, `SkewWithinPeriod`: no scheduler's clock is off
from the database's by more than the shortest period. Without it the property is false:
with a period of 1 and a skew of 2 an evaluator whose clock is behind writes a
`next_run_at` before the schedule's first run. Cron has periods of at least a minute. What
the proofs ask of the constants beyond their types is `MarkAssumption`: the marks for
no row and for a deleted one are told apart, and the first from rows.

`AuditTrail_proofs`. The trail by itself is not inductive, since what it lacks may be on
its way. `JobsOK` speaks of `Entries`, everything that was ever to be recorded of a
job. Only a statement on the job adds to it, always one entry that was not there:
the first of a job, the claim of a new epoch, the end of a lease that is still owned,
or a cancellation. Writing or losing an entry does not change it, so the counts
of `TrailAccounts` need one lemma for an added entry and one hypothesis check per
statement. The other half follows the entry: nobody else writes it (`InsertsOK`),
its caller goes on as its kind demands (`CallerOK`), a lease that was sent has its claim in
the trail (`SentOK`), and an autopsy has there the failure that started it
(`AutopsiesOK`). A report's failures are counted by an injection from its places
to the entries; its death is found because a lease has one end. For `CauseTrue`
every attempt is an error the payload can end in, or a lapse, and the phrases of the
errors that the worker words itself are looked up payload by payload in `Executor`. `AuditFollowsLifecycle` says that
the module takes only steps of `JobLifecycle`, so what is shown here composes with
`JobStoreImplementsLifecycle`.

`WorkerLifecycle_proofs`. `WorkerTypesOK`: with what a worker has been sent bounded by what was
queued (`QueueBound`), every column keeps its type; a worker refuses what exceeds its own
limit, so it never runs more than `MaxActive`, whatever the dispatcher sends on a stale count.

Only model-checked: everything about fairness (`LeaseEnds`, `EventuallyTerminal`,
`DeadGetsReport`, `ServedAgain`, the progress of workers, failover, shutdown and cron),
which is out of the prover's reach, and with it the refinements' fairness, which
`JobLifecycle` and `TokenBucket` do not ask for.

## 6. What is not modelled

- The client (`client/main.go`) is a command line that makes the calls the models take
  as inputs; the generated code in `proto/` encodes them. Neither keeps state.
- Metrics and health: counters and endpoints that nothing reads back.
- The scrubber: regular expressions over text. `AuditTrail` takes an error's text
  through it unchanged, as far as the phrases go.
- The configuration: its values are constants.
- Within the modelled parts: cron expressions beyond a period (a library parses them),
  the validation of requests, TLS, read-only queries, the bytes of commands and
  requests, and columns that nothing decides by (`lease_id`, `last_error`, timestamps for
  display). The `leases` table of the schema is used by no code.
