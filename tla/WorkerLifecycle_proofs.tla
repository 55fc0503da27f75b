------------------------ MODULE WorkerLifecycle_proofs ------------------------
(***************************************************************************)
(* Proofs about WorkerLifecycle: the type invariant, in which the bound on *)
(* running is the capacity limit of DispatchJob.  Its other properties are *)
(* liveness.                                                               *)
(***************************************************************************)
EXTENDS WorkerLifecycle, TLAPS

\* What is claimable and what is on its way to one worker fit in one bound:
\* what TypeOK needs when a claim moves a job from one to the other.
QueueBound == \A w \in Workers : queue + sent[w] <= MaxQueue

WorkerInv == TypeOK /\ QueueBound
-------------------------------------------------------------------------------
(***************************************************************************)
(* The statements of workerstore.go keep rows well formed.                 *)
(***************************************************************************)
RowsOK == workers \in [Workers -> WorkerRow]

LEMMA AgeBound == HeartbeatTimeout \in Nat /\ MaxAge \in Nat /\ MaxAge = HeartbeatTimeout + 1
  BY WorkerStoreAssumption DEF MaxAge

LEMMA RowWrites ==
    ASSUME NEW row \in WorkerRow
    PROVE  /\ \A s \in {"ABSENT", "ACTIVE", "DEAD", "DRAINING"} :
                 [row EXCEPT !.status = s] \in WorkerRow
           /\ [row EXCEPT !.age = 0] \in WorkerRow
           /\ [[row EXCEPT !.status = "ACTIVE"] EXCEPT !.age = 0] \in WorkerRow
           /\ \A n \in Nat : [[row EXCEPT !.age = 0] EXCEPT !.active_jobs = n] \in WorkerRow
           /\ [row EXCEPT !.age = IF @ < MaxAge THEN @ + 1 ELSE @] \in WorkerRow
<1>1. (IF row.age < MaxAge THEN row.age + 1 ELSE row.age) \in 0 .. MaxAge
  BY AgeBound DEF WorkerRow
<1>2. 0 \in 0 .. MaxAge BY AgeBound
<1> QED BY <1>1, <1>2 DEF WorkerRow

LEMMA StoreTypes ==
    ASSUME RowsOK, NEW w \in Workers, NEW n \in Nat,
           \/ RegisterWorker(w) \/ RecordHeartbeat(w, n)
           \/ MarkWorkerDead(w) \/ DrainWorker(w) \/ AgeWorkers
    PROVE  RowsOK'
<1>0. workers[w] \in WorkerRow BY DEF RowsOK
<1>1. CASE RegisterWorker(w)
  <2>1. [[workers[w] EXCEPT !.status = "ACTIVE"] EXCEPT !.age = 0] \in WorkerRow
    BY <1>0, RowWrites
  <2> QED BY <1>1, <2>1 DEF RegisterWorker, RowsOK
<1>2. CASE RecordHeartbeat(w, n)
  <2>1. [[workers[w] EXCEPT !.age = 0] EXCEPT !.active_jobs = n] \in WorkerRow
    BY <1>0, RowWrites
  <2> QED BY <1>2, <2>1 DEF RecordHeartbeat, RowsOK
<1>3. CASE MarkWorkerDead(w) \/ DrainWorker(w)
  <2>1. PICK s \in {"DEAD", "DRAINING"} : SetStatus(w, s)
    BY <1>3 DEF MarkWorkerDead, DrainWorker
  <2>2. [workers[w] EXCEPT !.status = s] \in WorkerRow BY <1>0, RowWrites
  <2> QED BY <2>1, <2>2 DEF SetStatus, RowsOK
<1>4. CASE AgeWorkers
  BY <1>4, RowWrites DEF AgeWorkers, RowsOK
<1> QED BY <1>1, <1>2, <1>3, <1>4
-------------------------------------------------------------------------------
(***************************************************************************)
(* Registration, heartbeats, draining, dispatch and time keep the types:   *)
(* a worker never runs more jobs than MaxWorkerCount, whatever is sent.    *)
(***************************************************************************)
THEOREM WorkerTypesOK == Spec => []TypeOK
<1> USE WorkerStoreAssumption, WorkerLifecycleAssumption DEF mine, sched
<1>1. Init => WorkerInv
  <2>1. [status |-> "ABSENT", age |-> 0, active_jobs |-> 0] \in WorkerRow
    BY AgeBound DEF WorkerRow
  <2> QED BY <2>1 DEF Init, WorkerInit, WorkerInv, TypeOK, QueueBound
<1>2. WorkerInv /\ [Next]_vars => WorkerInv'
  <2> SUFFICES ASSUME WorkerInv, [Next]_vars PROVE WorkerInv' OBVIOUS
  <2> USE DEF WorkerInv, TypeOK, QueueBound
  <2>0. RowsOK BY DEF RowsOK
  <2>1. ASSUME NEW w \in Workers, StartWorker(w) PROVE WorkerInv'
    BY <2>1 DEF StartWorker
  <2>2. ASSUME NEW w \in Workers, RegisterFails(w) PROVE WorkerInv'
    BY <2>2 DEF RegisterFails
  <2>3. ASSUME NEW w \in Workers, SendHeartbeat(w) PROVE WorkerInv'
    BY <2>3 DEF SendHeartbeat
  <2>4. ASSUME NEW w \in Workers, HeartbeatFails(w) PROVE WorkerInv'
    BY <2>4 DEF HeartbeatFails
  <2>5. ASSUME NEW w \in Workers, Register(w) PROVE WorkerInv'
    <3>1. RowsOK' BY <2>0, <2>5, StoreTypes DEF Register
    <3> QED BY <2>5, <3>1 DEF Register, RowsOK
  <2>6. ASSUME NEW w \in Workers, Heartbeat(w) PROVE WorkerInv'
    <3>1. beat[w] \in Nat OBVIOUS
    <3>2. RowsOK' BY <2>0, <2>6, <3>1, StoreTypes DEF Heartbeat, RowsOK
    <3>3. loop' \in [Workers -> {"idle", "waiting", "register"}]
      <4>1. PICK d \in {"idle", "register"} : loop' = [loop EXCEPT ![w] = d]
        BY <2>6 DEF Heartbeat
      <4> QED BY <4>1
    <3>4. beat' \in [Workers -> 0 .. MaxActive]
      <4>1. beat' = [beat EXCEPT ![w] = 0] BY <2>6 DEF Heartbeat
      <4> QED BY <4>1
    <3>5. UNCHANGED <<procs, due, drain, running, sched>> BY <2>6 DEF Heartbeat
    <3> QED BY <3>2, <3>3, <3>4, <3>5 DEF RowsOK
  <2>7. ASSUME NEW w \in Workers, HeartbeatDraining(w) PROVE WorkerInv'
    <3>1. RowsOK' BY <2>0, <2>7, StoreTypes DEF HeartbeatDraining, RowsOK
    <3> QED BY <2>7, <3>1 DEF HeartbeatDraining, RowsOK
  <2>8. ASSUME NEW w \in Workers, Drain(w) \/ DrainFails(w) \/ StopWorker(w)
        PROVE  WorkerInv'
    BY <2>8 DEF Drain, DrainFails, StopWorker
  <2>9. ASSUME NEW w \in Workers, PickWorker(w) PROVE WorkerInv'
    BY <2>9 DEF PickWorker
  <2>10. ASSUME NEW w \in Workers, ClaimAndSend(w) PROVE WorkerInv'
    BY <2>10 DEF ClaimAndSend
  <2>11. ASSUME NEW w \in Workers, DispatchJob(w) PROVE WorkerInv'
    BY <2>11 DEF DispatchJob
  <2>12. ASSUME NEW w \in Workers, DispatchFails(w) \/ FinishJob(w) PROVE WorkerInv'
    BY <2>12 DEF DispatchFails, FinishJob
  <2>13. ASSUME Reap PROVE WorkerInv'
    <3>1. CASE ReadStale BY <3>1 DEF ReadStale, GetStaleWorkers
    <3>2. ASSUME NEW w \in Workers, ReapWorker(w) PROVE WorkerInv'
      <4>1. RowsOK' BY <2>0, <3>2, StoreTypes DEF ReapWorker
      <4> QED BY <3>2, <4>1 DEF ReapWorker, RowsOK
    <3>3. ASSUME NEW w \in Workers, ReapFails(w) PROVE WorkerInv'
      BY <3>3 DEF ReapFails
    <3> QED BY <2>13, <3>1, <3>2, <3>3 DEF Reap
  <2>14. ASSUME SubmitJob PROVE WorkerInv'
    BY <2>14 DEF SubmitJob
  <2>15. ASSUME Tick PROVE WorkerInv'
    <3>1. RowsOK' BY <2>0, <2>15, RowWrites DEF Tick, AgeWorkers, RowsOK
    <3> QED BY <2>15, <3>1 DEF Tick, RowsOK
  <2>16. ASSUME UNCHANGED vars PROVE WorkerInv'
    BY <2>16 DEF vars
  <2> QED BY <2>1, <2>2, <2>3, <2>4, <2>5, <2>6, <2>7, <2>8, <2>9, <2>10, <2>11,
             <2>12, <2>13, <2>14, <2>15, <2>16 DEF Next
<1> QED BY <1>1, <1>2, PTL DEF Spec, WorkerInv
===============================================================================
