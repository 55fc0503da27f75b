------------------------------- MODULE Admission ------------------------------
(***************************************************************************)
(* What stands between a call and the tables: the interceptors of one      *)
(* scheduler instance (scheduler/auth.go, scheduler/ratelimit.go), and the *)
(* per-tenant quotas that SubmitJob and CreateSchedule check, each with a  *)
(* count and a later insert.                                               *)
(*                                                                         *)
(* Tokens are counted in units, so that a fraction of a token is a whole   *)
(* number: a request costs Cost.  A bucket keeps the time since lastRefill *)
(* and is refilled only when it is used, as in the code.  The buckets are  *)
(* those of one process and end with it.  The quotas count rows that every *)
(* instance shares; a caller is a handler in any of them.                  *)
(***************************************************************************)
EXTENDS Integers, FiniteSets

CONSTANTS
    Tenants,        \* tenant ids whose rows are counted; "" is one like the others
    Callers,        \* bound: handlers past the interceptors at one time
    Methods,        \* the RPCs that are called
    Headers,        \* the x-tenant-id headers that are sent; "" for none
    Cost,           \* units of one token
    Rate,           \* cfg.RateLimitPerSecond, in units per tick
    Burst,          \* cfg.RateLimitBurst, in units
    CleanupTick,    \* cfg.RateLimitWindow, in ticks
    JobQuota,       \* cfg.DefaultTenantQuota
    ScheduleQuota,  \* max_schedules of tenant_quotas
    MaxCron,        \* bound: jobs of the cron evaluator that are live at one time
    NULL

\* A bucket that cleanup may remove has had the time to fill up.
ASSUME AdmissionAssumption ==
    /\ IsFiniteSet(Callers)
    /\ Cost \in Nat \ {0} /\ Rate \in Nat /\ Burst \in Nat /\ CleanupTick \in Nat
    /\ CleanupTick * Rate >= Burst
    /\ JobQuota \in Nat /\ ScheduleQuota \in Nat /\ MaxCron \in Nat

VARIABLES
    buckets,  \* rateLimiter.buckets: NULL, or the tokens and the age of lastRefill
    refused,  \* whether the last authorized request under the key was refused
    calls,    \* the handlers of SubmitJob and CreateSchedule between count and insert
    rows      \* active jobs by origin, and schedules, of each tenant

vars == <<buckets, refused, calls, rows>>
limiter == <<buckets, refused>>

clientRPCs == {"SubmitJob", "GetJob", "CancelJob", "ListJobs", "CreateSchedule",
               "ListSchedules", "ToggleSchedule", "DeleteSchedule", "GetAutopsy",
               "ListAutopsies"}
workerRPCs == {"RegisterWorker", "Heartbeat", "ReportResult", "RenewLease"}

\* The bearer token of a call: the API token, the worker token, or another.
Bearers == {"api", "worker", "none"}

\* The body's tenant_id may be missing, too.
Request == [method : Methods, bearer : Bearers, tenant : Tenants \cup {""}, header : Headers]

Keys == Tenants \cup (Headers \ {""}) \cup {"unknown"}

Bucket == [tokens : 0 .. Burst, idle : 0 .. CleanupTick + 1]
Call   == [kind : {"job", "schedule"}, tenant : Tenants]

ASSUME NullAssumption == NULL \notin Bucket \cup Call

Init ==
    /\ buckets = [k \in Keys |-> NULL]
    /\ refused = [k \in Keys |-> FALSE]
    /\ calls = [c \in Callers |-> NULL]
    /\ rows = [t \in Tenants |-> [job |-> 0, cron |-> 0, schedule |-> 0]]
-------------------------------------------------------------------------------
(***************************************************************************)
(* The interceptors.                                                       *)
(***************************************************************************)
\* An RPC that neither map lists is denied.
Authorized(req) ==
    \/ req.method \in clientRPCs /\ req.bearer = "api"
    \/ req.method \in workerRPCs /\ req.bearer = "worker"

tenantFromContext(req) == IF req.header # "" THEN req.header ELSE "unknown"

tenantFromRequest(req) == IF req.tenant # "" THEN req.tenant ELSE tenantFromContext(req)

\* The bucket of a key, made on first use.
BucketOf(k) ==
    IF buckets[k] = NULL THEN [tokens |-> Burst, idle |-> 0] ELSE buckets[k]

\* Mistake: maxTokens is not applied.
RefilledUncapped(b) == b.tokens + b.idle * Rate

Refilled(b) ==
    IF b.tokens + b.idle * Rate > Burst THEN Burst ELSE b.tokens + b.idle * Rate

Allowed(k) == Refilled(BucketOf(k)) >= Cost

allow(k) ==
    buckets' = [buckets EXCEPT ![k] =
                  [tokens |-> Refilled(BucketOf(k)) - (IF Allowed(k) THEN Cost ELSE 0),
                   idle   |-> 0]]

\* Mistake: the rate limiter is first in the chain.
InterceptLimitFirst(req) ==
    LET k == tenantFromRequest(req) IN
    IF req.method \in clientRPCs
    THEN /\ allow(k)
         /\ refused' = IF Authorized(req) THEN [refused EXCEPT ![k] = ~Allowed(k)] ELSE refused
    ELSE UNCHANGED limiter

\* The chain: authentication, then the rate limit of the client-facing RPCs.
Intercept(req) ==
    LET k == tenantFromRequest(req) IN
    IF Authorized(req) /\ req.method \in clientRPCs
    THEN allow(k) /\ refused' = [refused EXCEPT ![k] = ~Allowed(k)]
    ELSE UNCHANGED limiter

Passes(req) ==
    Authorized(req) /\ (req.method \in clientRPCs => Allowed(tenantFromRequest(req)))

\* Mistake: every bucket the ticker finds is removed.
StaleAlways(k) == buckets[k] # NULL

\* now.Sub(tb.lastRefill) > rl.cleanupTick
Stale(k) == buckets[k] # NULL /\ buckets[k].idle > CleanupTick

cleanup ==
    /\ \E k \in Keys : Stale(k)
    /\ buckets' = [k \in Keys |-> IF Stale(k) THEN NULL ELSE buckets[k]]
    /\ UNCHANGED <<refused, calls, rows>>

\* A call that touches no table of this module: an interceptor refuses it, the
\* handler finds it invalid, or it only reads.
Serve(req) == Intercept(req) /\ UNCHANGED <<calls, rows>>
-------------------------------------------------------------------------------
(***************************************************************************)
(* SubmitJob and CreateSchedule.  A call that does not pass the count      *)
(* (invalid arguments, the query fails, the quota is reached) is a Serve.  *)
(* A job needs no tenant id, a schedule does.                              *)
(***************************************************************************)
\* getTenantJobCount counts the jobs of the cron evaluator as well.
Count(t, kind) == IF kind = "job" THEN rows[t].job + rows[t].cron ELSE rows[t].schedule
Quota(kind)    == IF kind = "job" THEN JobQuota ELSE ScheduleQuota

\* Mistake: > for >=.
QuotaReachedLate(t, kind) == Count(t, kind) > Quota(kind)

QuotaReached(t, kind) == Count(t, kind) >= Quota(kind)

\* The call has passed the interceptors and counts the tenant's rows.
PassesCount(c, req, kind) ==
    /\ Passes(req) /\ Intercept(req)
    /\ req.tenant \in Tenants
    /\ ~QuotaReached(req.tenant, kind)
    /\ calls[c] = NULL
    /\ calls' = [calls EXCEPT ![c] = [kind |-> kind, tenant |-> req.tenant]]
    /\ UNCHANGED rows

SubmitJob(c, req)      == req.method = "SubmitJob" /\ PassesCount(c, req, "job")
CreateSchedule(c, req) == /\ req.method = "CreateSchedule" /\ req.tenant # ""
                          /\ PassesCount(c, req, "schedule")

\* The insert.  The handler may die before it, and the statement may fail or
\* find the request_id taken: then no row is added.
Insert(c) ==
    /\ calls[c] # NULL
    /\ calls' = [calls EXCEPT ![c] = NULL]
    /\ \/ rows' = [rows EXCEPT ![calls[c].tenant][calls[c].kind] = @ + 1]
       \/ UNCHANGED rows
    /\ UNCHANGED limiter

\* CancelJob and DeleteSchedule, through the interceptors.
Remove(req) ==
    /\ Passes(req) /\ Intercept(req)
    /\ \E origin \in CASE req.method = "CancelJob"      -> {"job", "cron"}
                       [] req.method = "DeleteSchedule" -> {"schedule"}
                       [] OTHER                         -> {} :
          /\ req.tenant \in Tenants /\ rows[req.tenant][origin] > 0
          /\ rows' = [rows EXCEPT ![req.tenant][origin] = @ - 1]
    /\ UNCHANGED calls

\* A job is completed, or fails for the last time.
JobEnds(t, origin) ==
    /\ rows[t][origin] > 0
    /\ rows' = [rows EXCEPT ![t][origin] = @ - 1]
    /\ UNCHANGED <<limiter, calls>>

\* The cron evaluator calls jobStore.CreateJob itself: no interceptor, no quota.
CronFires(t) ==
    /\ rows[t].schedule > 0
    /\ rows[t].cron < MaxCron
    /\ rows' = [rows EXCEPT ![t].cron = @ + 1]
    /\ UNCHANGED <<limiter, calls>>

Tick ==
    /\ buckets' = [k \in Keys |->
                     IF buckets[k] = NULL \/ buckets[k].idle > CleanupTick THEN buckets[k]
                     ELSE [buckets[k] EXCEPT !.idle = @ + 1]]
    /\ UNCHANGED <<refused, calls, rows>>
-------------------------------------------------------------------------------
Next ==
    \/ \E req \in Request : \/ Serve(req)
                            \/ Remove(req)
                            \/ \E c \in Callers : SubmitJob(c, req) \/ CreateSchedule(c, req)
    \/ \E c \in Callers : Insert(c)
    \/ \E t \in Tenants : CronFires(t) \/ \E origin \in {"job", "cron"} : JobEnds(t, origin)
    \/ cleanup
    \/ Tick

Spec == Init /\ [][Next]_vars

\* A client that waits for a job polls GetJob, with its tenant id or without.
Polls(k) ==
    \E req \in Request : /\ req.method = "GetJob" /\ req.bearer = "api"
                         /\ tenantFromRequest(req) = k
                         /\ Serve(req)

FairSpec == Spec /\ WF_vars(Tick) /\ \A k \in Keys : WF_vars(Polls(k))
-------------------------------------------------------------------------------
TypeOK ==
    /\ buckets \in [Keys -> Bucket \cup {NULL}]
    /\ refused \in [Keys -> BOOLEAN]
    /\ calls \in [Callers -> Call \cup {NULL}]
    /\ rows \in [Tenants -> [job : Nat, cron : Nat, schedule : Nat]]

\* Handlers that have counted and are about to insert.
Inserting(t, kind) == {c \in Callers : calls[c] = [kind |-> kind, tenant |-> t]}

\* Rows among Count(t, kind) that no quota check has admitted.
Scheduled(t, kind) == IF kind = "job" THEN rows[t].cron ELSE 0

(***************************************************************************)
(* The quotas are checked and used in separate statements, so calls that   *)
(* overlap can pass together, and the jobs of schedules are inserted       *)
(* without a check.  What the quota still guarantees: the rows it counts,  *)
(* with those about to be inserted, exceed it by less than the number of   *)
(* handlers that run at one time, apart from the scheduled jobs among      *)
(* them.  Of those there is no bound, so DefaultTenantQuota is not the     *)
(* "max jobs per tenant in queue" that config.go says it is.               *)
(***************************************************************************)
QuotaExcess ==
    \A t \in Tenants, kind \in {"job", "schedule"} :
       Quota(kind) > 0 =>
          Count(t, kind) + Cardinality(Inserting(t, kind))
             <= Quota(kind) + (Cardinality(Callers) - 1) + Scheduled(t, kind)

(***************************************************************************)
(* Lazy refills, buckets that cleanup forgets and buckets made on first    *)
(* use are not visible from outside: the limiter is an ideal token bucket  *)
(* per key, and only authorized calls draw from it.                        *)
(***************************************************************************)
Ideal == INSTANCE TokenBucket WITH
    level <- [k \in Keys |-> Refilled(BucketOf(k))]

ActsAsTokenBucket == Ideal!Spec

(***************************************************************************)
(* A tenant that is refused and keeps asking is served again, although     *)
(* every refusal also moves lastRefill, and although callers without the   *)
(* token may name the same tenant as often as they like.                   *)
(***************************************************************************)
ServedAgain == \A k \in Keys : refused[k] ~> ~refused[k]
===============================================================================
