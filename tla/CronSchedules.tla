---------------------------- MODULE CronSchedules -----------------------------
(***************************************************************************)
(* Recurring schedules: the evaluator of scheduler/cron.go, the schedules  *)
(* table of internal/db/schedulestore.go and the schedule RPCs of          *)
(* scheduler/scheduler.go, for one tenant.                                 *)
(*                                                                         *)
(* A cron expression is a period: its occurrences are the multiples.  A    *)
(* scheduled job is its request_id, schedule and run time, so creating it  *)
(* twice leaves one row.  The evaluator runs in the leader; in the time    *)
(* two instances lead (see LeaderElection) there are two of them.          *)
(* A row's lock lasts for one statement: nothing opens a transaction.      *)
(***************************************************************************)
EXTENDS Integers, Sequences, FiniteSets

CONSTANTS
    Schedules,     \* schedule ids, UUIDs: a deleted one does not come back
    Evaluators,    \* cronEvaluator goroutines
    Periods,       \* the cron expressions, as periods
    Policies,      \* a subset of PolicyNames
    MaxCatchup,    \* maxCatchup of computeMissedRuns, 10
    MaxSchedules,  \* the tenant's max_schedules
    Faults,        \* which disturbances happen, of FaultKinds
    MaxSkew,       \* bound: how far a scheduler's clock is from the database's
    MaxTime,       \* bound: the time the model explores
    GONE,
    NULL

PolicyNames == {"SKIP", "RUN_ONCE", "RUN_ALL"}

\* create:  CreateJob fails;  advance: AdvanceSchedule fails
\* stop:    the evaluator's process dies, or its context is cancelled
FaultKinds == {"create", "advance", "stop"}

ASSUME CronAssumption ==
    /\ Periods \subseteq Nat \ {0}
    /\ Policies \subseteq PolicyNames
    /\ MaxCatchup \in Nat \ {0}
    /\ MaxSchedules \in Nat
    /\ Faults \subseteq FaultKinds
    /\ MaxSkew \in Nat
    /\ MaxTime \in Nat

VARIABLES
    now,        \* the database's clock
    schedules,  \* the table; NULL: no such row yet, GONE: deleted
    creating,   \* rows CreateSchedule has validated and not yet inserted
    jobs,       \* the request_ids of the jobs fired
    due,        \* each evaluator's rows from GetDueSchedules, not yet fired
    firing,     \* the fireSchedule call each evaluator is in, or NULL
    dropped     \* history: the runs a catch-up has cut off, like jobs

vars == <<now, schedules, creating, jobs, due, firing, dropped>>

\* first is a ghost: the next_run_at the row was created with.
Row == [id : Schedules, period : Periods, policy : Policies, enabled : BOOLEAN,
        first : Int, next_run_at : Int]

\* The two marks of a missing row are no rows, and not each other.
ASSUME MarkAssumption == NULL \notin Row /\ GONE # NULL

Exists(s) == schedules[s] \notin {NULL, GONE}

\* sched.Next(t)
NextRunTime(p, t) == (t \div p + 1) * p

\* What time.Now() may return in a scheduler process.
Clock == {t \in now - MaxSkew .. now + MaxSkew : t >= 0}

Init ==
    /\ now = 0
    /\ schedules = [s \in Schedules |-> NULL]
    /\ creating = {}
    /\ jobs = {}
    /\ due = [e \in Evaluators |-> {}]
    /\ firing = [e \in Evaluators |-> NULL]
    /\ dropped = {}
-------------------------------------------------------------------------------
\* CreateSchedule computes the first run, counts the tenant's rows ...
ValidateSchedule(s, p, policy, t) ==
    /\ schedules[s] = NULL /\ \A r \in creating : r.id # s
    /\ Cardinality({k \in Schedules : Exists(k)}) < MaxSchedules
    /\ creating' = creating \cup
         {[id |-> s, period |-> p, policy |-> policy, enabled |-> TRUE,
           first |-> NextRunTime(p, t), next_run_at |-> NextRunTime(p, t)]}
    /\ UNCHANGED <<now, schedules, jobs, due, firing, dropped>>

\* ... and inserts, in another statement, which fails if the name is taken.
InsertSchedule(r) ==
    /\ creating' = creating \ {r}
    /\ \/ schedules' = [schedules EXCEPT ![r.id] = r]
       \/ UNCHANGED schedules
    /\ UNCHANGED <<now, jobs, due, firing, dropped>>

\* next_run_at stays where it was.
ToggleSchedule(s, enabled) ==
    /\ Exists(s)
    /\ schedules' = [schedules EXCEPT ![s].enabled = enabled]
    /\ UNCHANGED <<now, creating, jobs, due, firing, dropped>>

DeleteSchedule(s) ==
    /\ Exists(s)
    /\ schedules' = [schedules EXCEPT ![s] = GONE]
    /\ UNCHANGED <<now, creating, jobs, due, firing, dropped>>
-------------------------------------------------------------------------------
\* enabled = TRUE AND next_run_at <= NOW()
IsDue(s) == Exists(s) /\ schedules[s].enabled /\ schedules[s].next_run_at <= now

\* evaluate: SELECT ... FOR UPDATE SKIP LOCKED, past the rows that concurrent
\* statements have locked.
GetDueSchedules(e, locked) ==
    /\ due[e] = {} /\ firing[e] = NULL
    /\ due' = [due EXCEPT ![e] = {schedules[s] : s \in {k \in Schedules \ locked : IsDue(k)}}]
    /\ UNCHANGED <<now, schedules, creating, jobs, firing, dropped>>

\* Mistake: one run too many.
ComputeMissedRunsOneMore(r, t) ==
    IF r.policy = "RUN_ALL"
    THEN [k \in 1 .. (t - r.next_run_at) \div r.period + 2 |->
            r.next_run_at + (k - 1) * r.period]
    ELSE <<r.next_run_at>>

\* Mistake: the catch-up ends one run early.
ComputeMissedRunsOneLess(r, t) ==
    LET missed == (t - r.next_run_at) \div r.period + 1
        n == IF missed < MaxCatchup THEN missed ELSE MaxCatchup - 1
    IN  IF r.policy = "RUN_ALL"
        THEN [k \in 1 .. n |-> r.next_run_at + (k - 1) * r.period]
        ELSE <<r.next_run_at>>

\* SKIP and RUN_ONCE both fire the run the row is due for.  RUN_ALL fires every
\* run up to t, at most MaxCatchup of them, and none if t is before the first.
ComputeMissedRuns(r, t) ==
    LET missed == (t - r.next_run_at) \div r.period + 1
        n == IF missed < MaxCatchup THEN missed ELSE MaxCatchup
    IN  IF r.policy = "RUN_ALL"
        THEN [k \in 1 .. n |-> r.next_run_at + (k - 1) * r.period]
        ELSE <<r.next_run_at>>

\* The runs up to t that come after the first MaxCatchup of them.
CutOff(r, t) ==
    IF r.policy = "RUN_ALL"
    THEN {<<r.id, u>> : u \in {v \in r.next_run_at + MaxCatchup * r.period .. t :
                                 v % r.period = 0}}
    ELSE {}

\* fireSchedule begins, for the rows in the order of ORDER BY next_run_at.
FireSchedule(e, r, t) ==
    /\ firing[e] = NULL
    /\ r \in due[e] /\ \A q \in due[e] : r.next_run_at <= q.next_run_at
    /\ due' = [due EXCEPT ![e] = @ \ {r}]
    /\ firing' = [firing EXCEPT ![e] =
                    [row |-> r, at |-> t, runs |-> ComputeMissedRuns(r, t),
                     cut |-> CutOff(r, t)]]
    /\ UNCHANGED <<now, schedules, creating, jobs, dropped>>

\* CreateJob for the next of the runs: ON CONFLICT DO NOTHING.
CreateJob(e) ==
    /\ firing[e] # NULL /\ firing[e].runs # <<>>
    /\ jobs' = jobs \cup {<<firing[e].row.id, Head(firing[e].runs)>>}
    /\ firing' = [firing EXCEPT ![e].runs = Tail(@)]
    /\ UNCHANGED <<now, schedules, creating, due, dropped>>

\* Mistake: the error is logged and the loop goes on.
CreateJobFailsOn(e) ==
    /\ "create" \in Faults
    /\ firing[e] # NULL /\ firing[e].runs # <<>>
    /\ firing' = [firing EXCEPT ![e].runs = Tail(@)]
    /\ UNCHANGED <<now, schedules, creating, jobs, due, dropped>>

\* It fails, perhaps after the insert took effect: fireSchedule returns and the
\* schedule is not advanced.
CreateJobFails(e) ==
    /\ "create" \in Faults
    /\ firing[e] # NULL /\ firing[e].runs # <<>>
    /\ jobs' \in {jobs, jobs \cup {<<firing[e].row.id, Head(firing[e].runs)>>}}
    /\ firing' = [firing EXCEPT ![e] = NULL]
    /\ UNCHANGED <<now, schedules, creating, due, dropped>>

\* Mistake: the next run is not set.
AdvanceScheduleUnset(e) ==
    /\ firing[e] # NULL /\ firing[e].runs = <<>>
    /\ LET s == firing[e].row.id IN
       schedules' = IF Exists(s) THEN [schedules EXCEPT ![s].next_run_at = NULL]
                                 ELSE schedules
    /\ firing' = [firing EXCEPT ![e] = NULL]
    /\ UNCHANGED <<now, creating, jobs, due, dropped>>

\* AdvanceSchedule to the first run after the time fireSchedule began.  The
\* statement does not look at what the row holds by now.
AdvanceSchedule(e) ==
    /\ firing[e] # NULL /\ firing[e].runs = <<>>
    /\ LET s == firing[e].row.id IN
       schedules' = IF Exists(s)
                    THEN [schedules EXCEPT ![s].next_run_at =
                            NextRunTime(firing[e].row.period, firing[e].at)]
                    ELSE schedules
    /\ dropped' = dropped \cup firing[e].cut
    /\ firing' = [firing EXCEPT ![e] = NULL]
    /\ UNCHANGED <<now, creating, jobs, due>>

AdvanceScheduleFails(e) ==
    /\ "advance" \in Faults
    /\ firing[e] # NULL /\ firing[e].runs = <<>>
    /\ firing' = [firing EXCEPT ![e] = NULL]
    /\ UNCHANGED <<now, schedules, creating, jobs, due, dropped>>

\* The leader dies or is demoted in the middle of evaluate.
StopEvaluator(e) ==
    /\ "stop" \in Faults
    /\ due' = [due EXCEPT ![e] = {}]
    /\ firing' = [firing EXCEPT ![e] = NULL]
    /\ UNCHANGED <<now, schedules, creating, jobs, dropped>>

Tick ==
    /\ now < MaxTime
    /\ now' = now + 1
    /\ UNCHANGED <<schedules, creating, jobs, due, firing, dropped>>
-------------------------------------------------------------------------------
Next ==
    \/ \E s \in Schedules, p \in Periods, policy \in Policies, t \in Clock :
          ValidateSchedule(s, p, policy, t)
    \/ \E r \in creating : InsertSchedule(r)
    \/ \E s \in Schedules : \/ \E b \in BOOLEAN : ToggleSchedule(s, b)
                            \/ DeleteSchedule(s)
    \/ \E e \in Evaluators :
          \/ \E locked \in SUBSET Schedules : GetDueSchedules(e, locked)
          \/ \E r \in due[e], t \in Clock : FireSchedule(e, r, t)
          \/ CreateJob(e) \/ CreateJobFails(e)
          \/ AdvanceSchedule(e) \/ AdvanceScheduleFails(e)
          \/ StopEvaluator(e)
    \/ Tick

Spec == Init /\ [][Next]_vars

\* Time passes up to its bound.  The evaluator runs on its ticker; a statement
\* that is tried on every turn gets through some time (SF), past locks, errors
\* and restarts.  Nobody is obliged to create, toggle or delete schedules.
Fairness ==
    /\ WF_vars(Tick)
    /\ \A e \in Evaluators :
          /\ SF_vars(GetDueSchedules(e, {}))
          /\ SF_vars(AdvanceSchedule(e))
          /\ \A s \in Schedules :
                /\ SF_vars(\E r \in due[e], t \in Clock : r.id = s /\ FireSchedule(e, r, t))
                /\ SF_vars(firing[e] # NULL /\ firing[e].row.id = s /\ CreateJob(e))

FairSpec == Spec /\ Fairness
-------------------------------------------------------------------------------
TypeOK ==
    /\ now \in 0 .. MaxTime
    /\ schedules \in [Schedules -> Row \cup {NULL, GONE}]
    /\ creating \subseteq Row
    /\ jobs \subseteq Schedules \X Int
    /\ dropped \subseteq Schedules \X Int
    /\ \A e \in Evaluators :
          /\ due[e] \subseteq Row
          /\ firing[e] # NULL => /\ firing[e].row \in Row
                                 /\ firing[e].at \in Int
                                 /\ firing[e].runs \in Seq(Int)

Occurrences(r) == {t \in r.first .. MaxTime + MaxSkew : t % r.period = 0}

(***************************************************************************)
(* No run of a RUN_ALL schedule is lost: every occurrence that             *)
(* next_run_at has moved past has its job, through failed inserts, failed  *)
(* advances, evaluators stopped halfway, two evaluators at once that       *)
(* overwrite each other's next_run_at, pauses, and clocks that disagree.   *)
(* The exception is a run behind maxCatchup others that an evaluator found *)
(* due at once: the catch-up is cut off there, and nowhere else.           *)
(***************************************************************************)
NoLostRun ==
    \A s \in Schedules :
       Exists(s) /\ schedules[s].policy = "RUN_ALL" =>
          \A t \in Occurrences(schedules[s]) :
             t < schedules[s].next_run_at => <<s, t>> \in jobs \cup dropped

(***************************************************************************)
(* Only real occurrences are fired, none from before the schedule existed  *)
(* and none before its time: a schedule never runs off its cron            *)
(* expression, however often next_run_at is rewritten.                     *)
(***************************************************************************)
OnlyDueRuns ==
    \A s \in Schedules :
       Exists(s) => \A x \in jobs :
          x[1] = s => x[2] \in Occurrences(schedules[s]) /\ x[2] <= now + MaxSkew

(***************************************************************************)
(* A schedule that is due fires, unless it is paused or deleted: no error, *)
(* no locked row and no other schedule holds it up for ever.               *)
(***************************************************************************)
DueGetsFired ==
    \A s \in Schedules, t \in 0 .. MaxTime :
       (IsDue(s) /\ schedules[s].next_run_at = t)
          ~> (<<s, t>> \in jobs \/ ~Exists(s) \/ ~schedules[s].enabled)
===============================================================================
