------------------------------ MODULE WorkerStore -----------------------------
(***************************************************************************)
(* The workers table and the statements of internal/db/workerstore.go.     *)
(* Each is one UPDATE, upsert or SELECT, so each is atomic.  A worker that *)
(* never registered has status "ABSENT".  last_heartbeat is kept as its    *)
(* age, which stops growing once it is beyond the timeout.                 *)
(***************************************************************************)
EXTENDS Integers

CONSTANTS
    Workers,
    HeartbeatTimeout,  \* cfg.HeartbeatTimeout, in ticks
    MaxJobs            \* the max_jobs every worker registers with

ASSUME WorkerStoreAssumption ==
    /\ HeartbeatTimeout \in Nat
    /\ MaxJobs \in Nat \ {0}

VARIABLE workers

MaxAge == HeartbeatTimeout + 1

WorkerRow == [status : {"ABSENT", "ACTIVE", "DEAD", "DRAINING"},
              age : 0 .. MaxAge, active_jobs : Nat]

WorkerInit ==
    workers = [w \in Workers |-> [status |-> "ABSENT", age |-> 0, active_jobs |-> 0]]

IsActiveWorker(w) == workers[w].status = "ACTIVE"

\* Faulty variants stand before the operation they break; no specification uses
\* them.  Mistake: ON CONFLICT (id) DO NOTHING.
RegisterWorkerOnce(w) ==
    workers' = IF workers[w].status = "ABSENT"
               THEN [workers EXCEPT ![w].status = "ACTIVE", ![w].age = 0]
               ELSE workers

\* INSERT ... ON CONFLICT (id) DO UPDATE: active_jobs of an old row stays.
RegisterWorker(w) ==
    workers' = [workers EXCEPT ![w].status = "ACTIVE", ![w].age = 0]

\* Mistake: the heartbeat is recorded without its count.
RecordHeartbeatNoCount(w, n) == workers' = [workers EXCEPT ![w].age = 0]

\* RecordHeartbeat, where it finds the row ACTIVE.
RecordHeartbeat(w, n) ==
    workers' = [workers EXCEPT ![w].age = 0, ![w].active_jobs = n]

\* UPDATE ... SET status = s WHERE status = 'ACTIVE': matching no row is no error.
SetStatus(w, s) ==
    workers' = IF IsActiveWorker(w) THEN [workers EXCEPT ![w].status = s] ELSE workers

MarkWorkerDead(w) == SetStatus(w, "DEAD")
DrainWorker(w)    == SetStatus(w, "DRAINING")

\* Mistake: one more interval is waited for than the age can show.
GetStalerWorkers == {w \in Workers : IsActiveWorker(w) /\ workers[w].age > MaxAge}

\* last_heartbeat < NOW() - timeout
GetStaleWorkers == {w \in Workers : IsActiveWorker(w) /\ workers[w].age > HeartbeatTimeout}

HasRoom(w) == IsActiveWorker(w) /\ workers[w].active_jobs < MaxJobs

\* Every worker has the same max_jobs, so the least active_jobs / max_jobs is
\* the least active_jobs; ties are broken either way.
GetLeastLoadedWorker ==
    {w \in Workers : /\ HasRoom(w)
                     /\ \A v \in Workers :
                           HasRoom(v) => workers[w].active_jobs <= workers[v].active_jobs}

AgeWorkers ==
    workers' = [w \in Workers |->
                  [workers[w] EXCEPT !.age = IF @ < MaxAge THEN @ + 1 ELSE @]]
===============================================================================
