---------------------------- MODULE WorkerLifecycle ---------------------------
(***************************************************************************)
(* Workers come and go: registration, heartbeats, the reaper, draining and *)
(* the dispatcher's choice of a worker, around the table of WorkerStore.   *)
(* worker/worker.go (register, startHeartbeat, sendHeartbeat, drain, main) *)
(* and scheduler/scheduler.go (RegisterWorker, Heartbeat, reapDeadWorkers, *)
(* dispatchPendingJobs).                                                   *)
(*                                                                         *)
(* Every read of the table that is acted on later is a step of its own:    *)
(* the reaper's list, the dispatcher's choice, the count a heartbeat       *)
(* carries.  What happens to the jobs themselves is LeaseProtocol's.       *)
(***************************************************************************)
EXTENDS WorkerStore

CONSTANTS
    MaxActive,  \* cfg.MaxWorkerCount, the worker's own limit in DispatchJob
    MaxQueue,   \* bound: jobs waiting or on their way to one worker
    Lossy,      \* whether RPCs and SQL statements may fail
    NULL

ASSUME WorkerLifecycleAssumption ==
    /\ MaxActive \in Nat
    /\ MaxQueue \in Nat
    /\ Lossy \in BOOLEAN
    /\ NULL \notin Workers

VARIABLES
    procs,    \* the worker processes
    loop,     \* the heartbeat goroutine, or main registering
    due,      \* the workers whose heartbeat ticker has fired
    beat,     \* the active_jobs count of the Heartbeat call in flight
    drain,    \* the drain goroutine's Heartbeat call with status DRAINING
    running,  \* len(Worker.activeJobs)
    stale,    \* reapDeadWorkers' list, not yet marked
    picked,   \* the worker dispatchPendingJobs has chosen, or NULL
    sent,     \* DispatchJob calls on their way to a worker
    queue     \* claimable jobs

mine  == <<procs, loop, due, beat, drain, running>>
sched == <<stale, picked, sent, queue>>
vars  == <<workers, mine, sched>>

Init ==
    /\ WorkerInit
    /\ procs   = [w \in Workers |-> "off"]
    /\ loop    = [w \in Workers |-> "idle"]
    /\ due     = {}
    /\ beat    = [w \in Workers |-> 0]
    /\ drain   = [w \in Workers |-> "none"]
    /\ running = [w \in Workers |-> 0]
    /\ stale   = {}
    /\ picked  = NULL
    /\ sent    = [w \in Workers |-> 0]
    /\ queue   = 0
-------------------------------------------------------------------------------
\* main registers before anything else.
StartWorker(w) ==
    /\ procs[w] = "off"
    /\ procs' = [procs EXCEPT ![w] = "starting"]
    /\ loop'  = [loop EXCEPT ![w] = "register"]
    /\ UNCHANGED <<workers, due, beat, drain, running, sched>>

\* The RegisterWorker call succeeds, at start or after RE_REGISTER.
Register(w) ==
    /\ loop[w] = "register"
    /\ RegisterWorker(w)
    /\ loop'  = [loop EXCEPT ![w] = "idle"]
    /\ procs' = [procs EXCEPT ![w] = IF @ = "starting" THEN "up" ELSE @]
    /\ UNCHANGED <<due, beat, drain, running, sched>>

\* It fails: fatal at start, only logged later.
RegisterFails(w) ==
    /\ Lossy
    /\ loop[w] = "register"
    /\ loop'  = [loop EXCEPT ![w] = "idle"]
    /\ procs' = [procs EXCEPT ![w] = IF @ = "starting" THEN "off" ELSE @]
    /\ UNCHANGED <<workers, due, beat, drain, running, sched>>

\* A tick of startHeartbeat: the loop goes on while the worker drains.
SendHeartbeat(w) ==
    /\ w \in due
    /\ loop[w] = "idle"
    /\ due'  = due \ {w}
    /\ loop' = [loop EXCEPT ![w] = "waiting"]
    /\ beat' = [beat EXCEPT ![w] = running[w]]
    /\ UNCHANGED <<workers, procs, drain, running, sched>>

\* The Heartbeat handler.  A row that is not ACTIVE is answered RE_REGISTER,
\* DRAINING included, and so is a failed statement.
Heartbeat(w) ==
    /\ loop[w] = "waiting"
    /\ IF IsActiveWorker(w)
       THEN /\ RecordHeartbeat(w, beat[w])
            /\ loop' = [loop EXCEPT ![w] = "idle"]
       ELSE /\ loop' = [loop EXCEPT ![w] = "register"]
            /\ UNCHANGED workers
    /\ beat' = [beat EXCEPT ![w] = 0]
    /\ UNCHANGED <<procs, due, drain, running, sched>>

HeartbeatFails(w) ==
    /\ Lossy
    /\ loop[w] = "waiting"
    /\ \E next \in {"idle", "register"} : loop' = [loop EXCEPT ![w] = next]
    /\ beat' = [beat EXCEPT ![w] = 0]
    /\ UNCHANGED <<workers, procs, due, drain, running, sched>>

\* SIGTERM: the signal goroutine calls drain.
Drain(w) ==
    /\ procs[w] = "up"
    /\ procs' = [procs EXCEPT ![w] = "draining"]
    /\ drain' = [drain EXCEPT ![w] = "sent"]
    /\ UNCHANGED <<workers, loop, due, beat, running, sched>>

\* The Heartbeat handler with status DRAINING; acknowledged even if the
\* statement failed.
HeartbeatDraining(w) ==
    /\ drain[w] = "sent"
    /\ DrainWorker(w) \/ (Lossy /\ UNCHANGED workers)
    /\ drain' = [drain EXCEPT ![w] = "acked"]
    /\ UNCHANGED <<procs, loop, due, beat, running, sched>>

DrainFails(w) ==
    /\ Lossy
    /\ drain[w] = "sent"
    /\ drain' = [drain EXCEPT ![w] = "failed"]
    /\ UNCHANGED <<workers, procs, loop, due, beat, running, sched>>

\* The process ends: drained or past the drain deadline, or by a crash.
StopWorker(w) ==
    /\ procs[w] # "off"
    /\ procs'   = [procs EXCEPT ![w] = "off"]
    /\ loop'    = [loop EXCEPT ![w] = "idle"]
    /\ due'     = due \ {w}
    /\ beat'    = [beat EXCEPT ![w] = 0]
    /\ drain'   = [drain EXCEPT ![w] = "none"]
    /\ running' = [running EXCEPT ![w] = 0]
    /\ UNCHANGED <<workers, sched>>
-------------------------------------------------------------------------------
\* reapDeadWorkers: one SELECT, then one UPDATE for every worker of the list.
ReadStale ==
    /\ stale = {}
    /\ GetStaleWorkers # {}
    /\ stale' = GetStaleWorkers
    /\ UNCHANGED <<workers, mine, picked, sent, queue>>

ReapWorker(w) ==
    /\ w \in stale
    /\ MarkWorkerDead(w)
    /\ stale' = stale \ {w}
    /\ UNCHANGED <<mine, picked, sent, queue>>

ReapFails(w) ==
    /\ Lossy
    /\ w \in stale
    /\ stale' = stale \ {w}
    /\ UNCHANGED <<workers, mine, picked, sent, queue>>

\* One turn of dispatchPendingJobs: choose, then claim, then send.  The row's
\* active_jobs is not raised.  A claim that reports an error is not sent.
PickWorker(w) ==
    /\ picked = NULL
    /\ w \in GetLeastLoadedWorker
    /\ picked' = w
    /\ UNCHANGED <<workers, mine, stale, sent, queue>>

ClaimAndSend(w) ==
    /\ picked = w
    /\ picked' = NULL
    /\ IF queue > 0
       THEN /\ queue' = queue - 1
            /\ \/ sent' = [sent EXCEPT ![w] = @ + 1]
               \/ Lossy /\ UNCHANGED sent
       ELSE UNCHANGED <<queue, sent>>
    /\ UNCHANGED <<workers, mine, stale>>

\* Mistake: > for >= in the capacity check.
DispatchJobOneMore(w) ==
    /\ sent[w] > 0
    /\ procs[w] \in {"up", "draining"}
    /\ sent' = [sent EXCEPT ![w] = @ - 1]
    /\ running' = [running EXCEPT ![w] = IF @ > MaxActive THEN @ ELSE @ + 1]
    /\ UNCHANGED <<workers, procs, loop, due, beat, drain, stale, picked, queue>>

\* Worker.DispatchJob: no look at draining; the limit is not max_jobs.
DispatchJob(w) ==
    /\ sent[w] > 0
    /\ procs[w] \in {"up", "draining"}
    /\ sent' = [sent EXCEPT ![w] = @ - 1]
    /\ running' = [running EXCEPT ![w] = IF @ >= MaxActive THEN @ ELSE @ + 1]
    /\ UNCHANGED <<workers, procs, loop, due, beat, drain, stale, picked, queue>>

\* Nobody listens at the address, or the call fails: logged.
DispatchFails(w) ==
    /\ sent[w] > 0
    /\ Lossy \/ procs[w] \in {"off", "starting"}
    /\ sent' = [sent EXCEPT ![w] = @ - 1]
    /\ UNCHANGED <<workers, mine, stale, picked, queue>>

FinishJob(w) ==
    /\ running[w] > 0
    /\ running' = [running EXCEPT ![w] = @ - 1]
    /\ UNCHANGED <<workers, procs, loop, due, beat, drain, sched>>

SubmitJob ==
    /\ queue < MaxQueue /\ \A w \in Workers : queue + sent[w] < MaxQueue
    /\ queue' = queue + 1
    /\ UNCHANGED <<workers, mine, stale, picked, sent>>

\* HeartbeatInterval passes and the tickers fire.  A heartbeat call ends within
\* its 3s timeout, so none is still under way; a goroutine busy registering
\* misses its tick.
Tick ==
    /\ \A w \in Workers : loop[w] # "waiting" /\ (w \in due => loop[w] # "idle")
    /\ AgeWorkers
    /\ due' = {w \in Workers : procs[w] \in {"up", "draining"}}
    /\ UNCHANGED <<procs, loop, beat, drain, running, sched>>
-------------------------------------------------------------------------------
Reap == ReadStale \/ \E w \in Workers : ReapWorker(w) \/ ReapFails(w)

Next ==
    \/ \E w \in Workers :
          \/ StartWorker(w) \/ Register(w) \/ RegisterFails(w)
          \/ SendHeartbeat(w) \/ Heartbeat(w) \/ HeartbeatFails(w)
          \/ Drain(w) \/ HeartbeatDraining(w) \/ DrainFails(w) \/ StopWorker(w)
          \/ PickWorker(w) \/ ClaimAndSend(w) \/ DispatchJob(w) \/ DispatchFails(w)
          \/ FinishJob(w)
    \/ Reap \/ SubmitJob \/ Tick

Spec == Init /\ [][Next]_vars

\* Time passes, and the monitor and heartbeat loops run on their tickers.  A call
\* that is made again and again gets through some time (SF), to a row that is
\* ACTIVE too: HeartbeatTimeout spans several heartbeat intervals, so a worker
\* that has just registered is not reaped before each of its heartbeats for
\* ever.  Nobody is obliged to start, drain, stop or submit.
Fairness ==
    /\ WF_vars(Tick)
    /\ WF_vars(Reap)
    /\ \A w \in Workers : /\ WF_vars(SendHeartbeat(w))
                          /\ WF_vars(Heartbeat(w) \/ HeartbeatFails(w))
                          /\ SF_vars(Heartbeat(w))
                          /\ SF_vars(Heartbeat(w) /\ IsActiveWorker(w))
                          /\ WF_vars(Register(w) \/ RegisterFails(w))
                          /\ SF_vars(Register(w))
                          /\ SF_vars(ReapWorker(w))

FairSpec == Spec /\ Fairness
-------------------------------------------------------------------------------
TypeOK ==
    /\ workers \in [Workers -> WorkerRow]
    /\ procs \in [Workers -> {"off", "starting", "up", "draining"}]
    /\ loop \in [Workers -> {"idle", "waiting", "register"}]
    /\ due \subseteq Workers
    /\ beat \in [Workers -> 0 .. MaxActive]
    /\ drain \in [Workers -> {"none", "sent", "acked", "failed"}]
    /\ running \in [Workers -> 0 .. MaxActive]
    /\ stale \subseteq Workers
    /\ picked \in Workers \cup {NULL}
    /\ sent \in [Workers -> 0 .. MaxQueue]
    /\ queue \in 0 .. MaxQueue

(***************************************************************************)
(* An idle worker is always offered work again.  Being reaped while alive  *)
(* (the reaper's list may be stale when MarkWorkerDead runs), restarting   *)
(* with the old row's active_jobs still at the limit, or reporting a count *)
(* that is out of date, never locks it out: it becomes ACTIVE with room.   *)
(***************************************************************************)
IdleBecomesEligible ==
    \A w \in Workers :
       (procs[w] = "up" /\ running[w] = 0)
          ~> (HasRoom(w) \/ procs[w] # "up" \/ running[w] > 0)

(***************************************************************************)
(* A worker that is full stops being chosen.  A dispatch does not raise    *)
(* the row's active_jobs, so between two heartbeats a worker is sent more  *)
(* than max_jobs jobs; but while it has that many, a heartbeat brings the  *)
(* row up to date in the end, past failed calls and re-registrations.      *)
(***************************************************************************)
FullGetsSkipped ==
    \A w \in Workers :
       (procs[w] = "up" /\ running[w] >= MaxJobs)
          ~> (~HasRoom(w) \/ procs[w] # "up" \/ running[w] < MaxJobs)

(***************************************************************************)
(* A worker that is gone does not stay dispatchable: reapDeadWorkers takes *)
(* it off the ACTIVE workers, even when it went down while draining, or    *)
(* right after it re-registered.                                           *)
(***************************************************************************)
GoneIsReaped ==
    \A w \in Workers :
       (procs[w] = "off" /\ IsActiveWorker(w)) ~> (procs[w] # "off" \/ ~IsActiveWorker(w))
===============================================================================
