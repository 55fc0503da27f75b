------------------------------ MODULE AuditTrail ------------------------------
(***************************************************************************)
(* The audit log and the autopsy that is made from it: recordTransition    *)
(* and its callers in internal/db/jobstore.go, internal/autopsy/report.go  *)
(* and generateAutopsy.                                                    *)
(*                                                                         *)
(* The job itself follows JobLifecycle, which JobStore implements.  Every  *)
(* statement on a job is followed by an INSERT into job_transitions of its *)
(* own, with a from_state that is fixed in the code.  Between the two      *)
(* anything may happen, and the INSERT may fail; what the caller does next *)
(* depends on it.                                                          *)
(***************************************************************************)
EXTENDS JobLifecycle, Executor, Sequences, FiniteSets

CONSTANTS
    Kinds,     \* the payloads that are submitted
    MaxEpoch,  \* bound: claims of one job that the model explores
    MaxLate,   \* bound: INSERTs under way at one time
    MaxLost,   \* bound: INSERTs that fail
    Limit      \* how many transitions an autopsy reads

ASSUME AuditAssumption ==
    /\ Kinds \subseteq Payloads
    /\ NULL \notin Workers
    /\ MaxEpoch \in Nat /\ MaxLate \in Nat /\ MaxLost \in Nat /\ Limit \in Nat

VARIABLES
    payload,    \* of each job
    trail,      \* job_transitions of each job, by created_at
    inserts,    \* INSERTs into job_transitions that have not run
    lost,       \* history: the entries whose INSERT failed
    sent,       \* leases that were handed to their worker and not reported on
    autopsies,  \* generateAutopsy goroutines
    reports     \* autopsy_reports

audit == <<trail, inserts, lost>>
after == <<autopsies, reports>>
auditVars == <<vars, payload, audit, sent, after>>

\* The reason of an entry that is not a failure, and that of a lapsed lease.
Note  == <<"note", {}>>
Lapse == <<"lapse", {}>>

\* A row of job_transitions.  The epoch is not a column: it is the lease that
\* the row is about, for the properties.
Entry ==
    [from   : {"", "PENDING", "RUNNING"},
     to     : {"PENDING", "DISPATCHED", "SUCCEEDED", "DEAD_LETTER", "CANCELLED"},
     worker : Workers \cup {NULL},
     reason : Errors \cup {Note, Lapse},
     epoch  : 0 .. MaxEpoch]

\* An INSERT and what its caller does after it: hand the job to the worker, look
\* whether the job is dead, or nothing.
Write == [job : Jobs, entry : Entry, next : {"send", "check", "none"}]

\* An autopsy: the job and the lease whose failure started it.
Lease   == [job : Jobs, worker : Workers, epoch : 1 .. MaxEpoch]
Autopsy == [job : Jobs, epoch : 1 .. MaxEpoch]

\* A report.  Its attempts are in the order of their places in the trail.
Report(places) ==
    [job : Jobs, epoch : 1 .. MaxEpoch, total : Nat,
     attempts : [places -> Entry],
     cut : BOOLEAN,     \* history: the trail was longer than Limit
     cause : {"unknown", "timeout", "connection", "rejected", "persistent",
              "worker", "intermittent"}]

AuditInit ==
    /\ Init
    /\ payload = [j \in Jobs |-> NULL]
    /\ trail = [j \in Jobs |-> <<>>]
    /\ inserts = {} /\ lost = {} /\ sent = {} /\ autopsies = {} /\ reports = {}

\* The statement on job j is followed by the INSERT of this transition.
Records(j, from, to, w, why, next) ==
    /\ Cardinality(inserts) < MaxLate
    /\ inserts' = inserts \cup
         {[job |-> j, next |-> next,
           entry |-> [from |-> from, to |-> to, worker |-> w, reason |-> why,
                      epoch |-> epoch'[j]]]}
-------------------------------------------------------------------------------
CreateJob(j, m, p) ==
    /\ Submit(j, m)
    /\ payload' = [payload EXCEPT ![j] = p]
    /\ Records(j, "", "PENDING", NULL, Note, "none")
    /\ UNCHANGED <<trail, lost, sent, after>>

ClaimNextJob(j, w) ==
    /\ epoch[j] < MaxEpoch
    /\ Grant(j, w)
    /\ Records(j, "PENDING", "DISPATCHED", w, Note, "send")
    /\ UNCHANGED <<payload, trail, lost, sent, after>>

Held(l) == owner[l.job] = l.worker /\ epoch[l.job] = l.epoch

CompleteJob(l) ==
    /\ Succeed(l.job)
    /\ Records(l.job, "RUNNING", "SUCCEEDED", l.worker, Note, "none")

\* Mistake: the status written for a failure is FAILED.
FailJobFailed(l, error) ==
    /\ FailAttempt(l.job)
    /\ Records(l.job, "RUNNING", "FAILED", l.worker, error, "check")

\* newStatus is what the UPDATE returned.
FailJob(l, error) ==
    /\ FailAttempt(l.job)
    /\ Records(l.job, "RUNNING", IF phase'[l.job] = "dead" THEN "DEAD_LETTER" ELSE "PENDING",
               l.worker, error, "check")

\* Mistake: a stale result is recorded before it is refused.
ReportResultStale(l, outcome) ==
    /\ sent' = sent \ {l}
    /\ IF Held(l)
       THEN IF outcome = OK THEN CompleteJob(l) ELSE FailJob(l, outcome)
       ELSE UNCHANGED vars /\ Records(l.job, "RUNNING", "PENDING", l.worker, outcome, "none")
    /\ UNCHANGED <<payload, trail, lost, after>>

\* A result reaches the scheduler; a stale one changes nothing.
ReportResult(l, outcome) ==
    /\ sent' = sent \ {l}
    /\ IF Held(l)
       THEN IF outcome = OK THEN CompleteJob(l) ELSE FailJob(l, outcome)
       ELSE UNCHANGED <<vars, inserts>>
    /\ UNCHANGED <<payload, trail, lost, after>>

\* The worker runs the payload and reports, unless the outcome is a panic.
RunJob(l) ==
    \E outcome \in executePayload(payload[l.job]) \ {Panic} : ReportResult(l, outcome)

\* The dispatch or the result is lost, or the worker process ends: with a panic
\* that is all that can happen.
LoseAttempt(l) ==
    /\ sent' = sent \ {l}
    /\ UNCHANGED <<vars, payload, audit, after>>

\* The sweep, for the jobs in S.  It takes every lapsed job for a running one.
ReclaimExpiredJobs(S) ==
    /\ S # {} /\ Cardinality(inserts) + Cardinality(S) <= MaxLate
    /\ Release(S)
    /\ inserts' = inserts \cup
         {[job |-> j, next |-> "none",
           entry |-> [from |-> "RUNNING", to |-> "PENDING", worker |-> NULL,
                      reason |-> Lapse, epoch |-> epoch[j]]] : j \in S}
    /\ UNCHANGED <<payload, trail, lost, sent, after>>

CancelJob(j) ==
    /\ Cancel(j)
    /\ Records(j, "", "CANCELLED", NULL, Note, "none")
    /\ UNCHANGED <<payload, trail, lost, sent, after>>
-------------------------------------------------------------------------------
\* The caller goes on after its INSERT: dispatchPendingJobs sends what it has
\* claimed, ReportResult looks whether the job has died.
dispatchPendingJobs(i) ==
    sent' = IF i.next = "send"
            THEN sent \cup {[job |-> i.job, worker |-> i.entry.worker, epoch |-> i.entry.epoch]}
            ELSE sent

CheckDead(i) ==
    autopsies' = IF i.next = "check" /\ phase[i.job] = "dead"
                 THEN autopsies \cup {[job |-> i.job, epoch |-> i.entry.epoch]}
                 ELSE autopsies

recordTransition(i) ==
    /\ inserts' = inserts \ {i}
    /\ trail' = [trail EXCEPT ![i.job] = Append(@, i.entry)]
    /\ dispatchPendingJobs(i) /\ CheckDead(i)
    /\ UNCHANGED <<vars, payload, lost, reports>>

\* Mistake: the caller ignores the error.
RecordFailsIgnored(i) ==
    /\ Cardinality(lost) < MaxLost
    /\ inserts' = inserts \ {i}
    /\ lost' = lost \cup {i}
    /\ dispatchPendingJobs(i) /\ CheckDead(i)
    /\ UNCHANGED <<vars, payload, trail, reports>>

\* The INSERT fails, or the process ends before it.  The change to the job
\* stands; the caller returns an error, or, after a sweep, ignores it.
RecordFails(i) ==
    /\ Cardinality(lost) < MaxLost
    /\ inserts' = inserts \ {i}
    /\ lost' = lost \cup {i}
    /\ UNCHANGED <<vars, payload, trail, sent, after>>

\* The entries that count as an attempt.
IsAttempt(t) == (t.to = "PENDING" /\ t.from # "") \/ t.to = "DEAD_LETTER"

\* The error of every attempt has this phrase, or the text of every other; every
\* attempt ran on the same worker, and there was one.
AllSay(attempts, phrase) == \A i \in DOMAIN attempts : phrase \in attempts[i].reason[2]
AllSame(attempts)  == \A i, k \in DOMAIN attempts : attempts[i].reason = attempts[k].reason
OneWorker(attempts) ==
    \A i, k \in DOMAIN attempts :
       attempts[i].worker = attempts[k].worker /\ attempts[k].worker # NULL

\* Mistake: the general patterns are tried before the special ones.
ClassifyGeneralFirst(attempts) ==
    CASE DOMAIN attempts = {}             -> "unknown"
      [] AllSame(attempts)                -> "persistent"
      [] ~AllSame(attempts)               -> "intermittent"

classifyCause(attempts) ==
    IF DOMAIN attempts = {} THEN "unknown"
    ELSE IF AllSay(attempts, "timeout") THEN "timeout"
    ELSE IF AllSay(attempts, "connection") THEN "connection"
    ELSE IF AllSay(attempts, "rejected") THEN "rejected"
    ELSE IF AllSame(attempts) THEN "persistent"
    ELSE IF OneWorker(attempts) THEN "worker"
    ELSE "intermittent"

\* ORDER BY created_at ASC LIMIT 100: the places that the query returns, and the
\* attempts among them.
Transitions(j) == {n \in DOMAIN trail[j] : n <= Limit}
Attempts(j) == [n \in {n \in Transitions(j) : IsAttempt(trail[j][n])} |-> trail[j][n]]

\* The goroutine reads the job and its transitions and stores the report.
GenerateAutopsy(a) ==
    /\ autopsies' = autopsies \ {a}
    /\ reports' = reports \cup
         {[job |-> a.job, epoch |-> a.epoch, total |-> failures[a.job],
           attempts |-> Attempts(a.job), cut |-> Len(trail[a.job]) > Limit,
           cause |-> classifyCause(Attempts(a.job))]}
    /\ UNCHANGED <<vars, payload, audit, sent>>

\* A query of the goroutine fails, or the process ends.
AutopsyFails(a) ==
    /\ autopsies' = autopsies \ {a}
    /\ UNCHANGED <<vars, payload, audit, sent, reports>>
-------------------------------------------------------------------------------
AuditNext ==
    \/ \E j \in Jobs : \/ \E m \in Budgets, p \in Kinds : CreateJob(j, m, p)
                       \/ \E w \in Workers : ClaimNextJob(j, w)
                       \/ CancelJob(j)
    \/ \E l \in sent : RunJob(l) \/ LoseAttempt(l)
    \/ \E S \in SUBSET Jobs : ReclaimExpiredJobs(S)
    \/ \E i \in inserts : recordTransition(i) \/ RecordFails(i)
    \/ \E a \in autopsies : GenerateAutopsy(a) \/ AutopsyFails(a)

AuditSpec == AuditInit /\ [][AuditNext]_auditVars
-------------------------------------------------------------------------------
AuditTypeOK ==
    /\ payload \in [Jobs -> Kinds \cup {NULL}]
    /\ trail \in [Jobs -> Seq(Entry)]
    /\ inserts \subseteq Write
    /\ lost \subseteq Write
    /\ sent \subseteq Lease
    /\ autopsies \subseteq Autopsy
    /\ \A r \in reports : /\ DOMAIN r.attempts \subseteq 1 .. Limit
                          /\ r \in Report(DOMAIN r.attempts)

\* What was ever to be recorded about a job: written, under way, or lost.
Written(j) == {trail[j][n] : n \in DOMAIN trail[j]}
Entries(j) == Written(j) \cup {i.entry : i \in {x \in inserts \cup lost : x.job = j}}

Charge(e) == e.from = "RUNNING" /\ e.to \in {"PENDING", "DEAD_LETTER"} /\ e.worker # NULL

\* Of a set of entries, the failures that a worker reported, and those that lead
\* to a state.
Charges(E) == {e \in E : Charge(e)}
To(E, state) == {e \in E : e.to = state}

(***************************************************************************)
(* The trail accounts for the job, although it is written by separate      *)
(* statements with fixed states: with what is still on its way and what    *)
(* was lost, it has one claim per lease version, one failure per           *)
(* retry_count, at most one end per lease, and the end the job has.  No    *)
(* entry is written twice.                                                 *)
(***************************************************************************)
TrailAccounts ==
    \A j \in Jobs :
       LET all == Entries(j) IN
       /\ Cardinality(To(all, "DISPATCHED")) = epoch[j]
       /\ Cardinality(Charges(all)) = failures[j]
       /\ Cardinality(To(all, "DEAD_LETTER")) = (IF phase[j] = "dead" THEN 1 ELSE 0)
       /\ Cardinality(To(all, "SUCCEEDED")) = (IF phase[j] = "succeeded" THEN 1 ELSE 0)
       /\ \A e, f \in all : e.from = "RUNNING" /\ f.from = "RUNNING" /\ e.epoch = f.epoch => e = f
       /\ Cardinality(Written(j)) = Len(trail[j])

(***************************************************************************)
(* A worker gets a job only after the claim is in the trail, so whatever a *)
(* worker did to a job follows its claim there: a timeline never shows a   *)
(* failure of a worker that was not given the job.                         *)
(***************************************************************************)
ClaimBeforeVerdict ==
    \A j \in Jobs : \A n \in DOMAIN trail[j] :
       trail[j][n].from = "RUNNING" /\ trail[j][n].worker # NULL =>
          \E k \in 1 .. n - 1 : /\ trail[j][k].to = "DISPATCHED"
                                /\ trail[j][k].epoch = trail[j][n].epoch
                                /\ trail[j][k].worker = trail[j][n].worker

(***************************************************************************)
(* A report is about a job that is dead for good, and gives the number of  *)
(* failures it died of; it never lists more failures than that.  The       *)
(* report that the fatal failure started shows the death, unless the trail *)
(* was longer than the limit.                                              *)
(***************************************************************************)
ReportTrue ==
    \A r \in reports :
       /\ phase[r.job] = "dead" /\ r.total = failures[r.job]
       /\ Cardinality({n \in DOMAIN r.attempts : Charge(r.attempts[n])}) <= r.total
       /\ r.epoch = epoch[r.job] /\ ~r.cut =>
             \E n \in DOMAIN r.attempts : r.attempts[n].to = "DEAD_LETTER"
       /\ ~r.cut => r.cause # "unknown"

\* What the cause and the attempts of report r say of payload p.
CauseFits(r, p) ==
    IF \A n \in DOMAIN r.attempts : r.attempts[n].worker # NULL
    THEN /\ p \notin {"sleep", "blank command"}
         /\ p = "rejected command" => r.cause = "rejected"
         /\ p \in {"misnamed command", "slow sleep"} => r.cause = "timeout"
         /\ p = "malformed" => r.cause = "persistent"
    ELSE r.cause \in {"persistent", "intermittent"}

(***************************************************************************)
(* The probable cause follows from what the payload does, whatever entries *)
(* are missing or late, where the worker words the error itself: if no     *)
(* lapsed lease is among the attempts, a command that is never accepted is *)
(* called a validation failure (or a timeout, if its own words say so), a  *)
(* sleep that never ends in time a timeout, a payload that is not JSON a   *)
(* persistent failure.  Texts from outside may look like anything.  A      *)
(* payload that cannot fail, or that kills its worker, has no such report. *)
(* A lapsed lease hides these patterns, it never fakes one.                *)
(***************************************************************************)
CauseTrue ==
    \A r \in reports : DOMAIN r.attempts # {} => CauseFits(r, payload[r.job])
===============================================================================
