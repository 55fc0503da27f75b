-------------------------- MODULE CronSchedules_proofs ------------------------
(***************************************************************************)
(* Proofs about CronSchedules: the type invariant, NoLostRun and           *)
(* OnlyDueRuns.                                                            *)
(*                                                                         *)
(* An evaluator works on copies of rows that other evaluators and the RPCs *)
(* rewrite meanwhile, so what the table promises has to be promised of     *)
(* every copy as well: it is of a schedule that has existed, it agrees     *)
(* with the row on all but next_run_at and enabled, its next_run_at is an  *)
(* occurrence, and the occurrences before that are settled.  A             *)
(* fireSchedule call has in its list, its cut-off or the jobs table each   *)
(* occurrence between the next_run_at it read and the time it began; that  *)
(* is what makes the blind write of AdvanceSchedule safe.                  *)
(***************************************************************************)
EXTENDS CronSchedules, TLAPS

Firing == [row : Row, at : Nat, runs : Seq(Int), cut : SUBSET (Schedules \X Int)]

\* TypeOK with the shapes of due and firing.
CronTypes ==
    /\ now \in 0 .. MaxTime
    /\ schedules \in [Schedules -> Row \cup {NULL, GONE}]
    /\ creating \subseteq Row
    /\ jobs \subseteq Schedules \X Int
    /\ dropped \subseteq Schedules \X Int
    /\ due \in [Evaluators -> SUBSET Row]
    /\ firing \in [Evaluators -> Firing \cup {NULL}]

\* The copy and the row are of one schedule, at two times.
SameSchedule(r, q) == r.period = q.period /\ r.policy = q.policy /\ r.first = q.first

\* Every run before the row's next_run_at is settled.
Settled(r) ==
    r.policy = "RUN_ALL" =>
       \A t \in r.first .. r.next_run_at - 1 :
          t % r.period = 0 => <<r.id, t>> \in jobs \cup dropped

\* A row that is being created has no table row, job or copy before it.
BirthInv ==
    /\ \A r \in creating : /\ schedules[r.id] = NULL
                           /\ r.next_run_at = r.first
                           /\ r.next_run_at % r.period = 0
    /\ \A r, q \in creating : r.id = q.id => r = q
    /\ \A x \in jobs : schedules[x[1]] # NULL

RowOK(s) ==
    Exists(s) => /\ schedules[s].id = s
                 /\ schedules[s].next_run_at % schedules[s].period = 0
                 /\ Settled(schedules[s])

CopyOK(r) ==
    /\ schedules[r.id] # NULL
    /\ Exists(r.id) => SameSchedule(r, schedules[r.id])
    /\ r.next_run_at % r.period = 0
    /\ r.next_run_at <= now
    /\ Settled(r)

\* What is left of a fireSchedule call covers the runs from the next_run_at it
\* read to the time it began.
Covered(f) ==
    f.row.policy = "RUN_ALL" =>
       \A t \in f.row.next_run_at .. f.at :
          t % f.row.period = 0 =>
             \/ <<f.row.id, t>> \in jobs \cup f.cut
             \/ \E i \in DOMAIN f.runs : f.runs[i] = t

FiringOK(f) ==
    /\ CopyOK(f.row)
    /\ Covered(f)
    /\ \A i \in DOMAIN f.runs : /\ f.runs[i] % f.row.period = 0
                                /\ f.runs[i] <= now + MaxSkew

CronInv ==
    /\ CronTypes
    /\ BirthInv
    /\ \A s \in Schedules : RowOK(s)
    /\ \A e \in Evaluators : \A r \in due[e] : CopyOK(r)
    /\ \A e \in Evaluators : firing[e] # NULL => FiringOK(firing[e])
-------------------------------------------------------------------------------
(***************************************************************************)
(* Occurrences: multiples of a period.                                     *)
(***************************************************************************)
LEMMA DivMod ==
    ASSUME NEW p \in Nat \ {0}, NEW t \in Int
    PROVE  /\ t \div p \in Int /\ t % p \in Int
           /\ t = (t \div p) * p + (t % p)
           /\ 0 <= t % p /\ t % p < p
  OBVIOUS

LEMMA Multiple ==
    ASSUME NEW p \in Nat \ {0}, NEW t \in Int, t % p = 0
    PROVE  t \div p \in Int /\ t = (t \div p) * p
  BY DivMod

LEMMA ModMul ==
    ASSUME NEW p \in Nat \ {0}, NEW k \in Int
    PROVE  (k * p) % p = 0 /\ (k * p) \div p = k /\ k * p \in Int
  OBVIOUS

LEMMA MulMono ==
    ASSUME NEW p \in Nat \ {0}, NEW a \in Int, NEW b \in Int, a * p < b * p + p
    PROVE  a <= b
  OBVIOUS

LEMMA Gap ==
    ASSUME NEW p \in Nat \ {0}, NEW a \in Int, NEW b \in Int, a % p = 0, b % p = 0, b - p < a
    PROVE  b <= a
<1> DEFINE x == a \div p
           y == b \div p
<1>1. x \in Int /\ a = x * p /\ y \in Int /\ b = y * p  BY DivMod
<1> HIDE DEF x, y
<1>2. y * p < x * p + p BY <1>1
<1>3. y <= x BY <1>1, <1>2, MulMono
<1>4. y * p <= x * p BY <1>1, <1>3
<1> QED BY <1>1, <1>4

LEMMA NextRun ==
    ASSUME NEW p \in Nat \ {0}, NEW t \in Int
    PROVE  /\ NextRunTime(p, t) \in Int
           /\ NextRunTime(p, t) % p = 0
           /\ t < NextRunTime(p, t)
           /\ \A u \in Int : u % p = 0 /\ u < NextRunTime(p, t) => u <= t
<1> DEFINE q == t \div p
           n == (q + 1) * p
<1>1. q \in Int /\ q * p <= t /\ t < q * p + p  BY DivMod
<1>2. NextRunTime(p, t) = n BY DEF NextRunTime
<1>3. n \in Int /\ n % p = 0 /\ n = q * p + p
  <2>1. q + 1 \in Int BY <1>1
  <2>2. n \in Int /\ n % p = 0 BY <2>1, ModMul
  <2> QED BY <1>1, <2>2
<1>4. ASSUME NEW u \in Int, u % p = 0, u < n
      PROVE  u <= t
  <2>1. CASE n <= u + p - 1
    <3>1. n <= u BY <1>3, <1>4, <2>1, Gap
    <3> QED BY <1>3, <1>4, <3>1
  <2>2. CASE u + p <= n
    BY <1>1, <1>3, <1>4, <2>2
  <2> QED BY <1>3, <1>4, <2>1, <2>2
<1> HIDE DEF q, n
<1> QED BY <1>1, <1>2, <1>3, <1>4
-------------------------------------------------------------------------------
(***************************************************************************)
(* ComputeMissedRuns returns occurrences, and with CutOff it accounts for  *)
(* each run from next_run_at to t.                                         *)
(***************************************************************************)
LEMMA MissedRuns ==
    ASSUME NEW r \in Row, NEW t \in Int, r.next_run_at % r.period = 0
    PROVE  /\ ComputeMissedRuns(r, t) \in Seq(Int)
           /\ \A i \in DOMAIN ComputeMissedRuns(r, t) :
                 LET u == ComputeMissedRuns(r, t)[i] IN
                 /\ u % r.period = 0
                 /\ u >= r.next_run_at
                 /\ u <= t \/ u = r.next_run_at
           /\ r.policy = "RUN_ALL" =>
                 \A u \in r.next_run_at .. t : u % r.period = 0 =>
                    \/ <<r.id, u>> \in CutOff(r, t)
                    \/ \E i \in DOMAIN ComputeMissedRuns(r, t) :
                          ComputeMissedRuns(r, t)[i] = u
           /\ CutOff(r, t) \in SUBSET (Schedules \X Int)
<1> DEFINE p == r.period
           a == r.next_run_at
           missed == (t - a) \div p + 1
           n == IF missed < MaxCatchup THEN missed ELSE MaxCatchup
           runs == ComputeMissedRuns(r, t)
<1>1. p \in Nat \ {0} /\ a \in Int /\ a % p = 0 /\ r.id \in Schedules
  BY CronAssumption DEF Row
<1>2. missed \in Int /\ n \in Int /\ n <= missed /\ (missed - 1) * p <= t - a
  <2>1. t - a \in Int BY <1>1
  <2>2. (t - a) \div p \in Int /\ ((t - a) \div p) * p <= t - a
    <3> HIDE DEF p, a
    <3>1. PICK x \in Int : x = t - a BY <2>1
    <3>2. PICK d \in Int, m \in Int : d = x \div p /\ m = x % p
      BY <1>1, <3>1, DivMod
    <3>3. x = d * p + m /\ 0 <= m BY <1>1, <3>1, <3>2, DivMod
    <3>4. d * p \in Int BY <1>1, <3>2
    <3>5. d * p <= x BY <3>1, <3>2, <3>3, <3>4
    <3> QED BY <3>1, <3>2, <3>5
  <2> HIDE DEF p, a
  <2> QED BY <2>2, CronAssumption
<1>3. CutOff(r, t) \in SUBSET (Schedules \X Int)
  <2>1. MaxCatchup * p \in Int BY <1>1, CronAssumption
  <2>2. \A v \in a + MaxCatchup * p .. t : v \in Int BY <1>1, <2>1
  <2> QED BY <1>1, <2>2 DEF CutOff
<1>4. CASE r.policy # "RUN_ALL"
  <2>1. runs = <<a>> BY <1>4 DEF ComputeMissedRuns
  <2>2. runs \in Seq(Int) /\ DOMAIN runs = {1} /\ runs[1] = a BY <1>1, <2>1
  <2> HIDE DEF runs
  <2> QED BY <1>1, <1>3, <1>4, <2>2 DEF runs
<1>5. CASE r.policy = "RUN_ALL"
  <2>1. runs = [k \in 1 .. n |-> a + (k - 1) * p] BY <1>5 DEF ComputeMissedRuns
  <2>2. \A k \in Int : a + (k - 1) * p \in Int BY <1>1
  <2>3. runs \in Seq(Int)
    <3>1. CASE n \in Nat BY <1>2, <2>1, <2>2, <3>1
    <3>2. CASE n \notin Nat
      <4> DEFINE z == 0
      <4>1. 1 .. n = 1 .. z BY <1>2, <3>2
      <4>2. runs = [k \in 1 .. z |-> a + (k - 1) * p] BY <2>1, <4>1
      <4>3. z \in Nat OBVIOUS
      <4> HIDE DEF z
      <4> QED BY <2>2, <4>2, <4>3
    <3> QED BY <3>1, <3>2
  <2>4. ASSUME NEW i \in 1 .. n
        PROVE  runs[i] % p = 0 /\ runs[i] >= a /\ runs[i] <= t
    <3> DEFINE k == i - 1
    <3>1. k \in Int /\ 0 <= k /\ k <= missed - 1 BY <1>2, <2>4
    <3>2. runs[i] = a + k * p BY <2>1, <2>4
    <3> DEFINE d == a \div p
    <3> HIDE DEF k, p, a, missed, runs
    <3>4. d \in Int /\ a = d * p BY <1>1, Multiple
    <3> HIDE DEF d
    <3>5. runs[i] = (d + k) * p BY <1>1, <3>1, <3>2, <3>4
    <3>6. runs[i] % p = 0 BY <1>1, <3>1, <3>4, <3>5, ModMul
    <3>7. 0 <= k * p /\ k * p <= (missed - 1) * p BY <1>1, <1>2, <3>1
    <3> QED BY <1>1, <1>2, <3>1, <3>2, <3>6, <3>7
  <2>5. ASSUME NEW u \in a .. t, u % p = 0
        PROVE  \/ <<r.id, u>> \in CutOff(r, t)
               \/ \E i \in DOMAIN runs : runs[i] = u
    <3> DEFINE k == (u - a) \div p
    <3>1. u \in Int /\ u - a \in Int /\ 0 <= u - a /\ u <= t BY <1>1, <2>5
    <3>2. k \in Int /\ u - a = k * p + ((u - a) % p) BY <1>1, <3>1, DivMod
    <3>3. u = a + k * p
      <4> DEFINE x == u \div p
                 y == a \div p
      <4> HIDE DEF p, a
      <4>1. x \in Int /\ y \in Int /\ u = x * p /\ a = y * p
        BY <1>1, <2>5, <3>1, Multiple
      <4> HIDE DEF x, y
      <4>2. u - a = (x - y) * p BY <1>1, <3>1, <4>1
      <4>3. (u - a) % p = 0 BY <1>1, <4>1, <4>2, ModMul
      <4> HIDE DEF k
      <4> QED BY <1>1, <3>1, <3>2, <4>3
    <3>4. 0 <= k
      <4> HIDE DEF k, p, a
      <4> QED BY <1>1, <3>1, <3>2, <3>3, MulMono
    <3>5. k < missed
      <4> DEFINE m == missed - 1
      <4>1. t - a \in Int BY <1>1
      <4> HIDE DEF p, a
      <4>2. m = (t - a) \div p /\ m \in Int BY <1>1, <4>1, DivMod
      <4>3. t - a < m * p + p BY <1>1, <4>1, <4>2, DivMod
      <4> HIDE DEF k, m
      <4>4. k * p < m * p + p BY <1>1, <3>1, <3>2, <3>3, <4>2, <4>3
      <4>5. k <= m BY <1>1, <3>2, <4>2, <4>4, MulMono
      <4> HIDE DEF missed
      <4> QED BY <1>2, <3>2, <4>5 DEF m
    <3>6. CASE k < MaxCatchup
      <4>1. k + 1 \in 1 .. n BY <1>2, <3>2, <3>4, <3>5, <3>6
      <4> HIDE DEF k, p, a, n
      <4>2. runs[k + 1] = a + ((k + 1) - 1) * p BY <2>1, <4>1
      <4>3. runs[k + 1] = u BY <3>2, <3>3, <4>2
      <4> QED BY <2>1, <4>1, <4>3
    <3>7. CASE MaxCatchup <= k
      <4> HIDE DEF k, p, a, n
      <4>1. MaxCatchup * p <= k * p /\ MaxCatchup * p \in Int
        BY <1>1, <3>2, <3>7, CronAssumption
      <4>2. u \in a + MaxCatchup * p .. t BY <1>1, <3>1, <3>2, <3>3, <4>1
      <4> USE DEF p, a
      <4> QED BY <1>5, <2>5, <4>2 DEF CutOff
    <3> QED BY <3>2, <3>6, <3>7, CronAssumption
  <2> QED BY <1>3, <2>1, <2>3, <2>4, <2>5
<1> QED BY <1>4, <1>5
-------------------------------------------------------------------------------
(***************************************************************************)
(* The values the actions write.                                           *)
(***************************************************************************)
LEMMA RowWrites ==
    ASSUME NEW r \in Row
    PROVE  /\ \A b \in BOOLEAN :
                 LET q == [r EXCEPT !.enabled = b] IN
                 /\ q \in Row /\ q.id = r.id /\ SameSchedule(r, q)
                 /\ q.next_run_at = r.next_run_at
           /\ \A n \in Int :
                 LET q == [r EXCEPT !.next_run_at = n] IN
                 /\ q \in Row /\ q.id = r.id /\ SameSchedule(r, q)
                 /\ q.next_run_at = n
  BY DEF Row, SameSchedule

LEMMA NewRow ==
    ASSUME NEW s \in Schedules, NEW p \in Periods, NEW policy \in Policies, NEW n \in Int
    PROVE  LET q == [id |-> s, period |-> p, policy |-> policy, enabled |-> TRUE,
                     first |-> n, next_run_at |-> n]
           IN  /\ q \in Row /\ q.id = s /\ q.period = p /\ q.first = n
               /\ q.next_run_at = n
  BY DEF Row

LEMMA RowFields ==
    ASSUME NEW r \in Row
    PROVE  /\ r.id \in Schedules /\ r.period \in Nat \ {0} /\ r.period \in Periods
           /\ r.first \in Int /\ r.next_run_at \in Int
  BY CronAssumption DEF Row

LEMMA FiringFields ==
    ASSUME NEW f \in Firing
    PROVE  /\ f.row \in Row /\ f.at \in Int /\ 0 <= f.at /\ f.runs \in Seq(Int)
           /\ f.cut \in SUBSET (Schedules \X Int)
           /\ f.runs # <<>> =>
                 LET g == [f EXCEPT !.runs = Tail(@)] IN
                 /\ Head(f.runs) \in Int /\ Head(f.runs) = f.runs[1]
                 /\ 1 \in DOMAIN f.runs
                 /\ g \in Firing /\ g.row = f.row /\ g.at = f.at /\ g.cut = f.cut
                 /\ g.runs = Tail(f.runs)
                 /\ \A i \in DOMAIN g.runs : i + 1 \in DOMAIN f.runs
                                             /\ g.runs[i] = f.runs[i + 1]
                 /\ \A i \in DOMAIN f.runs : i # 1 => i - 1 \in DOMAIN g.runs
                                                      /\ g.runs[i - 1] = f.runs[i]
<1>1. /\ f.row \in Row /\ f.at \in Int /\ 0 <= f.at /\ f.runs \in Seq(Int)
      /\ f.cut \in SUBSET (Schedules \X Int)
  BY DEF Firing
<1>2. ASSUME f.runs # <<>>
      PROVE  LET g == [f EXCEPT !.runs = Tail(@)] IN
                 /\ g \in Firing /\ g.row = f.row /\ g.at = f.at /\ g.cut = f.cut
                 /\ g.runs = Tail(f.runs)
  <2>1. Tail(f.runs) \in Seq(Int) BY <1>1, <1>2
  <2> QED BY <2>1 DEF Firing
<1>3. ASSUME NEW runs \in Seq(Int), runs # <<>>
      PROVE  /\ Head(runs) \in Int /\ Head(runs) = runs[1]
             /\ 1 \in DOMAIN runs
             /\ \A i \in DOMAIN Tail(runs) : i + 1 \in DOMAIN runs
                                             /\ Tail(runs)[i] = runs[i + 1]
             /\ \A i \in DOMAIN runs : i # 1 => i - 1 \in DOMAIN Tail(runs)
                                                /\ Tail(runs)[i - 1] = runs[i]
  BY <1>3
<1> QED BY <1>1, <1>2, <1>3

LEMMA NextRunOfClock ==
    ASSUME CronTypes, NEW t \in Clock
    PROVE  t \in Nat /\ t <= now + MaxSkew /\ t >= now - MaxSkew
  BY CronAssumption DEF CronTypes, Clock
-------------------------------------------------------------------------------
(***************************************************************************)
(* The types, action by action.                                            *)
(***************************************************************************)
LEMMA TypeStep ==
    ASSUME CronInv, [Next]_vars
    PROVE  CronTypes'
<1>0. CronTypes BY DEF CronInv
<1>1. ASSUME NEW s \in Schedules, NEW p \in Periods, NEW policy \in Policies,
             NEW t \in Clock, ValidateSchedule(s, p, policy, t)
      PROVE  CronTypes'
  <2>1. NextRunTime(p, t) \in Int
    BY <1>0, <1>1, NextRunOfClock, NextRun, CronAssumption
  <2>2. creating' \subseteq Row
    BY <1>0, <1>1, <2>1, NewRow DEF CronTypes, ValidateSchedule
  <2> QED BY <1>0, <1>1, <2>2 DEF CronTypes, ValidateSchedule
<1>2. ASSUME NEW r \in creating, InsertSchedule(r)
      PROVE  CronTypes'
  BY <1>0, <1>2, RowFields DEF CronTypes, InsertSchedule
<1>3. ASSUME NEW s \in Schedules, NEW b \in BOOLEAN, ToggleSchedule(s, b)
      PROVE  CronTypes'
  <2>1. schedules[s] \in Row BY <1>0, <1>3 DEF CronTypes, ToggleSchedule, Exists
  <2>2. [schedules[s] EXCEPT !.enabled = b] \in Row BY <2>1, RowWrites
  <2> QED BY <1>0, <1>3, <2>2 DEF CronTypes, ToggleSchedule
<1>4. ASSUME NEW s \in Schedules, DeleteSchedule(s)
      PROVE  CronTypes'
  BY <1>0, <1>4 DEF CronTypes, DeleteSchedule
<1>5. ASSUME NEW e \in Evaluators, NEW locked \in SUBSET Schedules,
             GetDueSchedules(e, locked)
      PROVE  CronTypes'
  <2>1. \A s \in Schedules : IsDue(s) => schedules[s] \in Row
    BY <1>0 DEF CronTypes, IsDue, Exists
  <2>2. {schedules[s] : s \in {k \in Schedules \ locked : IsDue(k)}} \in SUBSET Row
    BY <2>1
  <2> QED BY <1>0, <1>5, <2>2 DEF CronTypes, GetDueSchedules
<1>6. ASSUME NEW e \in Evaluators, NEW r \in due[e], NEW t \in Clock,
             FireSchedule(e, r, t)
      PROVE  CronTypes'
  <2>1. r \in Row /\ t \in Nat /\ r.next_run_at % r.period = 0
    BY <1>0, <1>6, NextRunOfClock DEF CronInv, CronTypes, CopyOK
  <2>2. ComputeMissedRuns(r, t) \in Seq(Int) /\ CutOff(r, t) \in SUBSET (Schedules \X Int)
    BY <2>1, MissedRuns
  <2>3. [row |-> r, at |-> t, runs |-> ComputeMissedRuns(r, t), cut |-> CutOff(r, t)]
           \in Firing
    BY <2>1, <2>2 DEF Firing
  <2> QED BY <1>0, <1>6, <2>3 DEF CronTypes, FireSchedule
<1>7. ASSUME NEW e \in Evaluators, CreateJob(e)
      PROVE  CronTypes'
  <2>1. firing[e] \in Firing /\ firing[e].runs # <<>>
    BY <1>0, <1>7 DEF CronTypes, CreateJob
  <2>2. [firing[e] EXCEPT !.runs = Tail(@)] \in Firing
    BY <2>1, FiringFields
  <2>3. <<firing[e].row.id, Head(firing[e].runs)>> \in Schedules \X Int
    BY <2>1, FiringFields, RowFields
  <2> QED BY <1>0, <1>7, <2>2, <2>3 DEF CronTypes, CreateJob
<1>8. ASSUME NEW e \in Evaluators, CreateJobFails(e)
      PROVE  CronTypes'
  <2>1. firing[e] \in Firing /\ firing[e].runs # <<>>
    BY <1>0, <1>8 DEF CronTypes, CreateJobFails
  <2>2. <<firing[e].row.id, Head(firing[e].runs)>> \in Schedules \X Int
    BY <2>1, FiringFields, RowFields
  <2> QED BY <1>0, <1>8, <2>2 DEF CronTypes, CreateJobFails
<1>9. ASSUME NEW e \in Evaluators, AdvanceSchedule(e)
      PROVE  CronTypes'
  <2> DEFINE s == firing[e].row.id
             n == NextRunTime(firing[e].row.period, firing[e].at)
  <2>1. firing[e] \in Firing BY <1>0, <1>9 DEF CronTypes, AdvanceSchedule
  <2>2. s \in Schedules /\ n \in Int /\ firing[e].cut \in SUBSET (Schedules \X Int)
    BY <2>1, FiringFields, RowFields, NextRun
  <2>3. ASSUME Exists(s) PROVE [schedules[s] EXCEPT !.next_run_at = n] \in Row
    <3>1. schedules[s] \in Row BY <1>0, <2>2, <2>3 DEF CronTypes, Exists
    <3> QED BY <2>2, <3>1, RowWrites
  <2>4. schedules' = IF Exists(s) THEN [schedules EXCEPT ![s].next_run_at = n]
                                  ELSE schedules
    BY <1>9 DEF AdvanceSchedule
  <2> HIDE DEF n, s
  <2>5. schedules' \in [Schedules -> Row \cup {NULL, GONE}]
    BY <1>0, <2>2, <2>3, <2>4 DEF CronTypes
  <2> QED BY <1>0, <1>9, <2>2, <2>5 DEF CronTypes, AdvanceSchedule
<1>10. ASSUME NEW e \in Evaluators, AdvanceScheduleFails(e) \/ StopEvaluator(e)
       PROVE  CronTypes'
  BY <1>0, <1>10 DEF CronTypes, AdvanceScheduleFails, StopEvaluator
<1>11. CASE Tick
  BY <1>0, <1>11, CronAssumption DEF CronTypes, Tick
<1>12. CASE UNCHANGED vars
  BY <1>0, <1>12 DEF CronTypes, vars
<1> QED BY <1>1, <1>2, <1>3, <1>4, <1>5, <1>6, <1>7, <1>8, <1>9, <1>10, <1>11, <1>12
        DEF Next
-------------------------------------------------------------------------------
(***************************************************************************)
(* What every step leaves in place: jobs and cut-off runs stay, time does  *)
(* not run back, and a schedule that has existed keeps its identity.       *)
(***************************************************************************)
Grown ==
    /\ jobs \subseteq jobs' /\ dropped \subseteq dropped'
    /\ now \in Int /\ now' \in Int /\ now <= now'
    /\ \A s \in Schedules :
          schedules[s] # NULL =>
             /\ schedules'[s] # NULL
             /\ schedules'[s] # GONE => /\ Exists(s)
                                        /\ schedules[s] \in Row
                                        /\ SameSchedule(schedules[s], schedules'[s])

LEMMA Frame ==
    ASSUME CronInv, [Next]_vars
    PROVE  Grown
<1>0. CronTypes /\ CronTypes' BY TypeStep DEF CronInv
<1> DEFINE Kept == \A s \in Schedules :
               schedules[s] # NULL =>
                  /\ schedules'[s] # NULL
                  /\ schedules'[s] # GONE => /\ Exists(s)
                                             /\ schedules[s] \in Row
                                             /\ SameSchedule(schedules[s], schedules'[s])
<1>1. schedules' = schedules => Kept
  BY <1>0 DEF CronTypes, Exists, SameSchedule
<1>2. ASSUME NEW r \in creating, InsertSchedule(r) PROVE Kept
  <2>1. r \in Row /\ r.id \in Schedules /\ schedules[r.id] = NULL
    BY <1>0, RowFields DEF CronTypes, CronInv, BirthInv
  <2>2. \A s \in Schedules : s # r.id => schedules'[s] = schedules[s]
    BY <1>0, <1>2 DEF CronTypes, InsertSchedule
  <2> QED BY <1>0, <2>1, <2>2 DEF CronTypes, Exists, SameSchedule
<1>3. ASSUME NEW s \in Schedules, NEW b \in BOOLEAN, ToggleSchedule(s, b) PROVE Kept
  <2>1. schedules[s] \in Row /\ Exists(s)
    BY <1>0, <1>3 DEF CronTypes, ToggleSchedule, Exists
  <2>2. schedules' = [schedules EXCEPT ![s] = [schedules[s] EXCEPT !.enabled = b]]
    BY <1>3 DEF ToggleSchedule
  <2>3. schedules'[s] \in Row /\ SameSchedule(schedules[s], schedules'[s])
    BY <1>0, <2>1, <2>2, RowWrites DEF CronTypes
  <2>4. \A k \in Schedules : k # s => schedules'[k] = schedules[k]
    BY <1>0, <2>2 DEF CronTypes
  <2> QED BY <1>0, <2>1, <2>3, <2>4, MarkAssumption DEF CronTypes, Exists, SameSchedule
<1>4. ASSUME NEW s \in Schedules, DeleteSchedule(s) PROVE Kept
  BY <1>0, <1>4, MarkAssumption DEF CronTypes, DeleteSchedule, Exists, SameSchedule
<1>5. ASSUME NEW e \in Evaluators, AdvanceSchedule(e) PROVE Kept
  <2> DEFINE s == firing[e].row.id
             n == NextRunTime(firing[e].row.period, firing[e].at)
  <2>1. firing[e] \in Firing BY <1>0, <1>5 DEF CronTypes, AdvanceSchedule
  <2>2. s \in Schedules /\ n \in Int BY <2>1, FiringFields, RowFields, NextRun
  <2>3. schedules' = IF Exists(s) THEN [schedules EXCEPT ![s].next_run_at = n]
                                  ELSE schedules
    BY <1>5 DEF AdvanceSchedule
  <2> HIDE DEF s, n
  <2>4. CASE ~Exists(s) BY <1>1, <2>3, <2>4
  <2>5. CASE Exists(s)
    <3>1. schedules[s] \in Row BY <1>0, <2>2, <2>5 DEF CronTypes, Exists
    <3>2. schedules' = [schedules EXCEPT ![s] = [schedules[s] EXCEPT !.next_run_at = n]]
      BY <2>3, <2>5
    <3>3. schedules'[s] \in Row /\ SameSchedule(schedules[s], schedules'[s])
      BY <1>0, <2>2, <3>1, <3>2, RowWrites DEF CronTypes
    <3>4. \A k \in Schedules : k # s => schedules'[k] = schedules[k]
      BY <1>0, <3>2 DEF CronTypes
    <3> QED
      BY <1>0, <2>5, <3>1, <3>3, <3>4, MarkAssumption DEF CronTypes, Exists, SameSchedule
  <2> QED BY <2>4, <2>5
<1> HIDE DEF Kept
<1>6. Kept
  BY <1>1, <1>2, <1>3, <1>4, <1>5
     DEF Next, ValidateSchedule, GetDueSchedules, FireSchedule, CreateJob,
         CreateJobFails, AdvanceScheduleFails, StopEvaluator, Tick, vars
<1>7. jobs \subseteq jobs' /\ dropped \subseteq dropped'
  BY DEF Next, ValidateSchedule, InsertSchedule, ToggleSchedule, DeleteSchedule,
         GetDueSchedules, FireSchedule, CreateJob, CreateJobFails, AdvanceSchedule,
         AdvanceScheduleFails, StopEvaluator, Tick, vars
<1>8. now' = now \/ now' = now + 1
  BY DEF Next, ValidateSchedule, InsertSchedule, ToggleSchedule, DeleteSchedule,
         GetDueSchedules, FireSchedule, CreateJob, CreateJobFails, AdvanceSchedule,
         AdvanceScheduleFails, StopEvaluator, Tick, vars
<1> QED BY <1>0, <1>6, <1>7, <1>8, CronAssumption DEF Kept, Grown, CronTypes

\* What held of a copy, of a row that a step leaves alone, or of a call under
\* way, still holds.
LEMMA CopyKept ==
    ASSUME NEW r \in Row, Grown
    PROVE  /\ Settled(r) => Settled(r)'
           /\ CopyOK(r) => CopyOK(r)'
<1>1. Settled(r) => Settled(r)' BY DEF Settled, Grown
<1>2. r.id \in Schedules /\ r.next_run_at \in Int BY RowFields
<1>3. ASSUME CopyOK(r)
      PROVE  /\ (schedules[r.id] # NULL)'
             /\ Exists(r.id)' => SameSchedule(r, schedules'[r.id])
  BY <1>2, <1>3 DEF CopyOK, Grown, Exists, SameSchedule
<1>4. ASSUME CopyOK(r) PROVE r.next_run_at <= now'
  BY <1>2, <1>4 DEF CopyOK, Grown
<1> QED BY <1>1, <1>3, <1>4 DEF CopyOK

LEMMA RowKept ==
    ASSUME CronTypes, NEW s \in Schedules, Grown, schedules'[s] = schedules[s], RowOK(s)
    PROVE  RowOK(s)'
<1>1. CASE Exists(s)
  <2>1. PICK r \in Row : r = schedules[s] BY <1>1 DEF CronTypes, Exists
  <2>2. Settled(r) BY <1>1, <2>1 DEF RowOK
  <2>3. schedules'[s] = r BY <2>1
  <2>4. Settled(r)' BY <2>2, CopyKept
  <2>5. Settled(schedules[s])' BY <2>3, <2>4 DEF Settled
  <2> QED BY <1>1, <2>5 DEF RowOK
<1>2. CASE ~Exists(s) BY <1>2 DEF Exists, RowOK
<1> QED BY <1>1, <1>2

LEMMA FiringKept ==
    ASSUME NEW f \in Firing, Grown, FiringOK(f)
    PROVE  FiringOK(f)'
<1>1. f.row \in Row /\ f.runs \in Seq(Int) /\ \A i \in DOMAIN f.runs : f.runs[i] \in Int
  <2>1. f.row \in Row /\ f.runs \in Seq(Int) BY FiringFields
  <2> QED BY <2>1
<1>2. CopyOK(f.row)' BY <1>1, CopyKept DEF FiringOK
<1>3. Covered(f)' BY DEF FiringOK, Covered, Grown
<1>4. \A i \in DOMAIN f.runs : f.runs[i] <= now' + MaxSkew
  BY <1>1, CronAssumption DEF FiringOK, Grown
<1> QED BY <1>2, <1>3, <1>4 DEF FiringOK
-------------------------------------------------------------------------------
(***************************************************************************)
(* The inductive step, part by part.                                       *)
(***************************************************************************)
LEMMA BirthStep ==
    ASSUME CronInv, [Next]_vars
    PROVE  BirthInv'
<1>0. CronTypes /\ CronTypes' /\ Grown /\ BirthInv BY TypeStep, Frame DEF CronInv
<1> DEFINE RowsBorn == \A r \in creating' : /\ schedules'[r.id] = NULL
                                            /\ r.next_run_at = r.first
                                            /\ r.next_run_at % r.period = 0
           Distinct == \A r, q \in creating' : r.id = q.id => r = q
           JobsBorn == \A x \in jobs' : schedules'[x[1]] # NULL
<1>1. ASSUME creating' = creating, \A s \in Schedules : schedules[s] = NULL => schedules'[s] = NULL
      PROVE  RowsBorn /\ Distinct
  <2>1. \A r \in creating : r.id \in Schedules BY <1>0, RowFields DEF CronTypes
  <2> QED BY <1>0, <1>1, <2>1 DEF BirthInv
<1>2. ASSUME jobs' = jobs PROVE JobsBorn
  BY <1>0, <1>2 DEF BirthInv, Grown, CronTypes
<1>3. ASSUME NEW s \in Schedules, NEW p \in Periods, NEW policy \in Policies,
             NEW t \in Clock, ValidateSchedule(s, p, policy, t)
      PROVE  RowsBorn /\ Distinct /\ JobsBorn
  <2> DEFINE n == NextRunTime(p, t)
             q == [id |-> s, period |-> p, policy |-> policy, enabled |-> TRUE,
                   first |-> n, next_run_at |-> n]
  <2>1. n \in Int /\ n % p = 0
    BY <1>0, <1>3, NextRunOfClock, NextRun, CronAssumption
  <2>2. creating' = creating \cup {q} /\ schedules' = schedules /\ jobs' = jobs
        /\ schedules[s] = NULL /\ \A r \in creating : r.id # s
    BY <1>3 DEF ValidateSchedule
  <2> HIDE DEF n
  <2>3. q.id = s /\ q.period = p /\ q.first = n /\ q.next_run_at = n
    OBVIOUS
  <2> HIDE DEF q
  <2>4. RowsBorn BY <1>0, <2>1, <2>2, <2>3 DEF BirthInv
  <2>5. Distinct BY <1>0, <2>2, <2>3 DEF BirthInv
  <2> QED BY <1>2, <2>2, <2>4, <2>5
<1>4. ASSUME NEW r \in creating, InsertSchedule(r)
      PROVE  RowsBorn /\ Distinct /\ JobsBorn
  <2>1. creating' = creating \ {r} /\ jobs' = jobs BY <1>4 DEF InsertSchedule
  <2>2. \A q \in creating' : q.id # r.id /\ q.id \in Schedules
    BY <1>0, <2>1, RowFields DEF BirthInv, CronTypes
  <2>3. \A q \in creating' : schedules'[q.id] = schedules[q.id]
    BY <1>0, <1>4, <2>2 DEF CronTypes, InsertSchedule
  <2> QED BY <1>0, <1>2, <2>1, <2>3 DEF BirthInv
<1>5. ASSUME NEW s \in Schedules, (\E b \in BOOLEAN : ToggleSchedule(s, b)) \/ DeleteSchedule(s)
      PROVE  RowsBorn /\ Distinct /\ JobsBorn
  <2>1. \A k \in Schedules : schedules[k] = NULL => schedules'[k] = NULL
    BY <1>0, <1>5 DEF CronTypes, ToggleSchedule, DeleteSchedule, Exists
  <2> QED BY <1>1, <1>2, <1>5, <2>1 DEF ToggleSchedule, DeleteSchedule
<1>6. ASSUME NEW e \in Evaluators, CreateJob(e) \/ CreateJobFails(e)
      PROVE  RowsBorn /\ Distinct /\ JobsBorn
  <2> DEFINE f == firing[e]
             x == <<f.row.id, Head(f.runs)>>
  <2>1. f \in Firing /\ FiringOK(f)
    BY <1>0, <1>6 DEF CronTypes, CronInv, CreateJob, CreateJobFails
  <2>2. f.row.id \in Schedules /\ schedules[f.row.id] # NULL
    BY <2>1, FiringFields, RowFields DEF FiringOK, CopyOK
  <2>3. jobs' \subseteq jobs \cup {x} /\ schedules' = schedules /\ creating' = creating
    BY <1>6 DEF CreateJob, CreateJobFails
  <2>4. x[1] = f.row.id OBVIOUS
  <2> HIDE DEF x, f
  <2>5. JobsBorn BY <1>0, <2>2, <2>3, <2>4 DEF BirthInv
  <2> QED BY <1>1, <2>3, <2>5
<1>7. ASSUME NEW e \in Evaluators, AdvanceSchedule(e)
      PROVE  RowsBorn /\ Distinct /\ JobsBorn
  <2>1. \A k \in Schedules : schedules[k] = NULL => schedules'[k] = NULL
    BY <1>0, <1>7 DEF CronTypes, AdvanceSchedule, Exists
  <2> QED BY <1>1, <1>2, <1>7, <2>1 DEF AdvanceSchedule
<1>8. ASSUME UNCHANGED <<schedules, creating, jobs>>
      PROVE  RowsBorn /\ Distinct /\ JobsBorn
  BY <1>1, <1>2, <1>8
<1> HIDE DEF RowsBorn, Distinct, JobsBorn
<1>9. RowsBorn /\ Distinct /\ JobsBorn
  BY <1>3, <1>4, <1>5, <1>6, <1>7, <1>8
     DEF Next, GetDueSchedules, FireSchedule, AdvanceScheduleFails, StopEvaluator,
         Tick, vars
<1> QED BY <1>9 DEF RowsBorn, Distinct, JobsBorn, BirthInv

LEMMA RowsStep ==
    ASSUME CronInv, [Next]_vars, NEW s \in Schedules
    PROVE  RowOK(s)'
<1>0. CronTypes /\ CronTypes' /\ Grown /\ RowOK(s) BY TypeStep, Frame DEF CronInv
<1>1. schedules'[s] = schedules[s] => RowOK(s)' BY <1>0, RowKept
<1>2. ASSUME NEW r \in creating, InsertSchedule(r) PROVE RowOK(s)'
  <2>1. r \in Row /\ r.next_run_at = r.first /\ r.next_run_at % r.period = 0
    BY <1>0 DEF CronTypes, CronInv, BirthInv
  <2>2. schedules'[s] = schedules[s] \/ (s = r.id /\ schedules'[s] = r)
    BY <1>0, <1>2 DEF InsertSchedule, CronTypes
  <2>3. ASSUME s = r.id, schedules'[s] = r PROVE RowOK(s)'
    <3>1. Settled(r)' BY <2>1, RowFields DEF Settled
    <3>2. Settled(schedules[s])' BY <2>3, <3>1 DEF Settled
    <3> QED BY <2>1, <2>3, <3>2 DEF RowOK
  <2> QED BY <1>1, <2>2, <2>3
<1>3. ASSUME NEW k \in Schedules, NEW b \in BOOLEAN, ToggleSchedule(k, b)
      PROVE  RowOK(s)'
  <2>1. PICK r \in Row : r = schedules[k]
    BY <1>0, <1>3 DEF CronTypes, ToggleSchedule, Exists
  <2>2. PICK q : q = [r EXCEPT !.enabled = b] OBVIOUS
  <2>3. q \in Row /\ q.id = r.id /\ SameSchedule(r, q) /\ q.next_run_at = r.next_run_at
    BY <2>2, RowWrites
  <2>4. schedules' = [schedules EXCEPT ![k] = q] BY <1>3, <2>1, <2>2 DEF ToggleSchedule
  <2>5. CASE s # k BY <1>0, <1>1, <2>4, <2>5 DEF CronTypes
  <2>6. CASE s = k
    <3>1. schedules'[s] = q BY <1>0, <2>4, <2>6 DEF CronTypes
    <3>2. Exists(s) BY <1>3, <2>6 DEF ToggleSchedule
    <3>3. r.id = s /\ r.next_run_at % r.period = 0 /\ Settled(r)
      BY <1>0, <2>1, <2>6, <3>2 DEF RowOK
    <3>4. Settled(r)' BY <1>0, <3>3, CopyKept
    <3>5. Settled(schedules[s])' BY <2>3, <3>1, <3>4 DEF Settled, SameSchedule
    <3> QED BY <2>3, <3>1, <3>3, <3>5 DEF RowOK, SameSchedule
  <2> QED BY <2>5, <2>6
<1>4. ASSUME NEW k \in Schedules, DeleteSchedule(k) PROVE RowOK(s)'
  <2>1. schedules'[s] = schedules[s] \/ schedules'[s] = GONE
    BY <1>0, <1>4 DEF CronTypes, DeleteSchedule
  <2> QED BY <1>1, <2>1 DEF RowOK, Exists
<1>5. ASSUME NEW e \in Evaluators, AdvanceSchedule(e) PROVE RowOK(s)'
  <2>1. PICK f \in Firing : f = firing[e]
    BY <1>0, <1>5 DEF CronTypes, AdvanceSchedule
  <2>2. FiringOK(f) /\ f.runs = <<>>
    BY <1>5, <2>1 DEF CronInv, AdvanceSchedule
  <2>3. PICK r \in Row : r = f.row BY FiringFields
  <2>4. PICK n \in Int : n = NextRunTime(r.period, f.at)
    BY <2>3, FiringFields, RowFields, NextRun
  <2>5. schedules' = IF Exists(r.id) THEN [schedules EXCEPT ![r.id].next_run_at = n]
                                     ELSE schedules
    BY <1>5, <2>1, <2>3, <2>4 DEF AdvanceSchedule
  <2>6. CASE s # r.id \/ ~Exists(r.id) BY <1>0, <1>1, <2>5, <2>6 DEF CronTypes
  <2>7. ASSUME s = r.id, Exists(s) PROVE RowOK(s)'
    <3>1. PICK o \in Row : o = schedules[s] BY <1>0, <2>7 DEF CronTypes, Exists
    <3>2. PICK q : q = [o EXCEPT !.next_run_at = n] OBVIOUS
    <3>3. q \in Row /\ q.id = o.id /\ SameSchedule(o, q) /\ q.next_run_at = n
      BY <2>4, <3>2, RowWrites
    <3>4. schedules'[s] = q BY <1>0, <2>5, <2>7, <3>1, <3>2 DEF CronTypes
    <3>5. o.id = s BY <1>0, <2>7, <3>1 DEF RowOK
    <3>6. SameSchedule(r, o) BY <2>2, <2>3, <2>7, <3>1 DEF FiringOK, CopyOK
    <3>7. SameSchedule(r, q) BY <3>3, <3>6 DEF SameSchedule
    <3>8. /\ r.period \in Nat \ {0} /\ f.at \in Int /\ r.first \in Int
          /\ r.next_run_at \in Int
      BY FiringFields, RowFields
    <3>9. n % r.period = 0 /\ \A u \in Int : u % r.period = 0 /\ u < n => u <= f.at
      BY <2>4, <3>8, NextRun
    <3>10. ASSUME r.policy = "RUN_ALL", NEW t \in r.first .. n - 1, t % r.period = 0
           PROVE  <<s, t>> \in jobs' \cup dropped'
      <4>1. t \in Int /\ r.first <= t /\ t <= f.at BY <2>4, <3>8, <3>9, <3>10
      <4>2. CASE t < r.next_run_at
        <5>1. t \in r.first .. r.next_run_at - 1 BY <3>8, <4>1, <4>2
        <5>2. <<s, t>> \in jobs \cup dropped
          BY <2>2, <2>3, <2>7, <3>10, <5>1 DEF FiringOK, CopyOK, Settled
        <5> QED BY <1>0, <5>2 DEF Grown
      <4>3. CASE t >= r.next_run_at
        <5>1. t \in r.next_run_at .. f.at BY <3>8, <4>1, <4>3
        <5>2. DOMAIN f.runs = {} BY <2>2
        <5>3. <<s, t>> \in jobs \cup f.cut
          BY <2>2, <2>3, <2>7, <3>10, <5>1, <5>2 DEF FiringOK, Covered
        <5>4. dropped' = dropped \cup f.cut BY <1>5, <2>1 DEF AdvanceSchedule
        <5> QED BY <1>0, <5>3, <5>4 DEF Grown
      <4> QED BY <3>8, <4>1, <4>2, <4>3
    <3>11. Settled(schedules[s])'
      BY <3>3, <3>4, <3>5, <3>7, <3>10 DEF Settled, SameSchedule
    <3> QED BY <3>3, <3>4, <3>5, <3>7, <3>9, <3>11 DEF RowOK, SameSchedule
  <2> QED BY <2>6, <2>7
<1>6. ASSUME schedules' = schedules PROVE RowOK(s)'
  BY <1>1, <1>6
<1> QED BY <1>2, <1>3, <1>4, <1>5, <1>6
     DEF Next, ValidateSchedule, GetDueSchedules, FireSchedule, CreateJob,
         CreateJobFails, AdvanceScheduleFails, StopEvaluator, Tick, vars

LEMMA DueStep ==
    ASSUME CronInv, [Next]_vars, NEW e \in Evaluators, NEW r \in due'[e]
    PROVE  CopyOK(r)'
<1>0. CronTypes /\ CronTypes' /\ Grown BY TypeStep, Frame DEF CronInv
<1>1. r \in Row BY <1>0 DEF CronTypes
<1>2. r \in due[e] => CopyOK(r)' BY <1>0, <1>1, CopyKept DEF CronInv
<1>3. ASSUME NEW d \in Evaluators, NEW locked \in SUBSET Schedules,
             GetDueSchedules(d, locked)
      PROVE  CopyOK(r)'
  <2>1. CASE d # e BY <1>0, <1>2, <1>3, <2>1 DEF GetDueSchedules, CronTypes
  <2>2. CASE d = e
    <3>1. PICK s \in Schedules : IsDue(s) /\ r = schedules[s]
      BY <1>0, <1>3, <2>2 DEF GetDueSchedules, CronTypes
    <3>2. Exists(s) /\ r.next_run_at <= now BY <3>1 DEF IsDue
    <3>3. r.id = s /\ r.next_run_at % r.period = 0 /\ Settled(r)
      BY <3>1, <3>2 DEF CronInv, RowOK
    <3>4. CopyOK(r) BY <3>1, <3>2, <3>3 DEF CopyOK, Exists, SameSchedule
    <3> QED BY <1>0, <1>1, <3>4, CopyKept
  <2> QED BY <2>1, <2>2
<1>4. ASSUME NEW d \in Evaluators, NEW q \in due[d], NEW t \in Clock,
             FireSchedule(d, q, t)
      PROVE  CopyOK(r)'
  BY <1>0, <1>2, <1>4 DEF FireSchedule, CronTypes
<1>5. ASSUME NEW d \in Evaluators, StopEvaluator(d)
      PROVE  CopyOK(r)'
  BY <1>0, <1>2, <1>5 DEF StopEvaluator, CronTypes
<1>6. ASSUME due' = due PROVE CopyOK(r)' BY <1>2, <1>6
<1> QED BY <1>3, <1>4, <1>5, <1>6
     DEF Next, ValidateSchedule, InsertSchedule, ToggleSchedule, DeleteSchedule,
         CreateJob, CreateJobFails, AdvanceSchedule, AdvanceScheduleFails, Tick, vars

LEMMA FiringStep ==
    ASSUME CronInv, [Next]_vars, NEW e \in Evaluators, firing'[e] # NULL
    PROVE  FiringOK(firing[e])'
<1>0. CronTypes /\ CronTypes' /\ Grown BY TypeStep, Frame DEF CronInv
<1>1. PICK g \in Firing : g = firing'[e] BY <1>0 DEF CronTypes
<1>2. ASSUME FiringOK(g)' PROVE FiringOK(firing[e])'
  BY <1>1, <1>2 DEF FiringOK, Covered, CopyOK, Settled, Exists
<1>3. ASSUME firing'[e] = firing[e] PROVE FiringOK(g)'
  <2>1. FiringOK(g) BY <1>1, <1>3 DEF CronInv
  <2> QED BY <1>0, <2>1, FiringKept
<1>4. ASSUME NEW d \in Evaluators, NEW r \in due[d], NEW t \in Clock,
             FireSchedule(d, r, t)
      PROVE  FiringOK(g)'
  <2>1. CASE d # e BY <1>0, <1>3, <1>4, <2>1 DEF FireSchedule, CronTypes
  <2>2. CASE d = e
    <3>1. g = [row |-> r, at |-> t, runs |-> ComputeMissedRuns(r, t), cut |-> CutOff(r, t)]
      BY <1>0, <1>1, <1>4, <2>2 DEF FireSchedule, CronTypes
    <3>2. g.row = r /\ g.at = t /\ g.runs = ComputeMissedRuns(r, t) /\ g.cut = CutOff(r, t)
      BY <3>1
    <3>3. r \in Row /\ CopyOK(r) BY <1>0, <1>4 DEF CronTypes, CronInv
    <3>4. /\ t \in Int /\ t <= now + MaxSkew /\ r.next_run_at \in Int
          /\ r.next_run_at <= now /\ r.next_run_at % r.period = 0
      BY <1>0, <1>4, <3>3, NextRunOfClock, RowFields DEF CopyOK
    <3>5. Covered(g)
      <4>1. r.policy = "RUN_ALL" =>
               \A u \in r.next_run_at .. t : u % r.period = 0 =>
                  \/ <<r.id, u>> \in CutOff(r, t)
                  \/ \E i \in DOMAIN ComputeMissedRuns(r, t) :
                        ComputeMissedRuns(r, t)[i] = u
        BY <3>3, <3>4, MissedRuns
      <4> QED BY <3>2, <4>1 DEF Covered
    <3>6. \A i \in DOMAIN g.runs : /\ g.runs[i] \in Int /\ g.runs[i] % r.period = 0
                                   /\ g.runs[i] <= t \/ g.runs[i] = r.next_run_at
      <4>1. g.runs \in Seq(Int) BY FiringFields
      <4>2. \A i \in DOMAIN ComputeMissedRuns(r, t) :
               LET u == ComputeMissedRuns(r, t)[i] IN
               u % r.period = 0 /\ (u <= t \/ u = r.next_run_at)
        BY <3>3, <3>4, MissedRuns
      <4> QED BY <3>2, <4>1, <4>2
    <3>7. \A i \in DOMAIN g.runs : g.runs[i] <= now + MaxSkew
      BY <1>0, <3>4, <3>6, CronAssumption DEF CronTypes
    <3>8. FiringOK(g) BY <3>2, <3>3, <3>5, <3>6, <3>7 DEF FiringOK
    <3> QED BY <1>0, <3>8, FiringKept
  <2> QED BY <2>1, <2>2
<1>5. ASSUME NEW d \in Evaluators, CreateJob(d) PROVE FiringOK(g)'
  <2>1. CASE d # e BY <1>0, <1>3, <1>5, <2>1 DEF CreateJob, CronTypes
  <2>2. CASE d = e
    <3>1. PICK f \in Firing : f = firing[e] /\ f.runs # <<>>
      BY <1>0, <1>5, <2>2 DEF CreateJob, CronTypes
    <3>2. FiringOK(f) BY <1>5, <2>2, <3>1 DEF CronInv, CreateJob
    <3>3. FiringOK(f)' BY <1>0, <3>2, FiringKept
    <3>4. g = [f EXCEPT !.runs = Tail(@)]
      BY <1>0, <1>1, <1>5, <2>2, <3>1 DEF CreateJob, CronTypes
    <3>5. /\ g.row = f.row /\ g.at = f.at /\ g.cut = f.cut
          /\ 1 \in DOMAIN f.runs /\ Head(f.runs) = f.runs[1]
          /\ \A i \in DOMAIN g.runs : i + 1 \in DOMAIN f.runs
                                      /\ g.runs[i] = f.runs[i + 1]
          /\ \A i \in DOMAIN f.runs : i # 1 => i - 1 \in DOMAIN g.runs
                                               /\ g.runs[i - 1] = f.runs[i]
      BY <3>1, <3>4, FiringFields
    <3>6. <<f.row.id, f.runs[1]>> \in jobs'
      BY <1>5, <2>2, <3>1, <3>5 DEF CreateJob
    <3>7. Covered(g)'
      <4>1. SUFFICES ASSUME f.row.policy = "RUN_ALL",
                            NEW t \in f.row.next_run_at .. f.at,
                            t % f.row.period = 0
                     PROVE  \/ <<f.row.id, t>> \in jobs' \cup f.cut
                            \/ \E i \in DOMAIN g.runs : g.runs[i] = t
        BY <3>5 DEF Covered
      <4>2. CASE \E i \in DOMAIN f.runs : f.runs[i] = t
        <5>1. PICK i \in DOMAIN f.runs : f.runs[i] = t BY <4>2
        <5>2. CASE i = 1 BY <3>6, <5>1, <5>2
        <5>3. CASE i # 1 BY <3>5, <5>1, <5>3
        <5> QED BY <5>2, <5>3
      <4>3. CASE <<f.row.id, t>> \in jobs' \cup f.cut BY <4>3
      <4> QED BY <3>3, <4>1, <4>2, <4>3 DEF FiringOK, Covered
    <3> QED BY <3>3, <3>5, <3>7 DEF FiringOK
  <2> QED BY <2>1, <2>2
<1>6. ASSUME NEW d \in Evaluators,
             CreateJobFails(d) \/ AdvanceSchedule(d) \/ AdvanceScheduleFails(d)
                \/ StopEvaluator(d)
      PROVE  FiringOK(g)'
  <2>1. firing' = [firing EXCEPT ![d] = NULL]
    BY <1>6 DEF CreateJobFails, AdvanceSchedule, AdvanceScheduleFails, StopEvaluator
  <2>2. d # e BY <1>0, <2>1 DEF CronTypes
  <2> QED BY <1>0, <1>3, <2>1, <2>2 DEF CronTypes
<1>7. ASSUME firing' = firing PROVE FiringOK(g)' BY <1>3, <1>7
<1> QED BY <1>2, <1>4, <1>5, <1>6, <1>7
     DEF Next, ValidateSchedule, InsertSchedule, ToggleSchedule, DeleteSchedule,
         GetDueSchedules, Tick, vars
-------------------------------------------------------------------------------
(***************************************************************************)
(* In every behaviour, every copy an evaluator holds is settled and every  *)
(* call under way covers its runs.                                         *)
(***************************************************************************)
THEOREM CronInvariant == Spec => []CronInv
<1>1. Init => CronInv
  <2> SUFFICES ASSUME Init PROVE CronInv OBVIOUS
  <2>1. CronTypes BY CronAssumption DEF Init, CronTypes
  <2>2. BirthInv BY DEF Init, BirthInv
  <2>3. \A s \in Schedules : RowOK(s) BY DEF Init, RowOK, Exists
  <2> QED BY <2>1, <2>2, <2>3 DEF Init, CronInv
<1>2. CronInv /\ [Next]_vars => CronInv'
  BY TypeStep, BirthStep, RowsStep, DueStep, FiringStep DEF CronInv
<1> QED BY <1>1, <1>2, PTL DEF Spec

(***************************************************************************)
(* Types of the table, the evaluators' copies and the fireSchedule calls.  *)
(***************************************************************************)
THEOREM CronTypesOK == Spec => []TypeOK
<1>1. CronInv => TypeOK
  <2> SUFFICES ASSUME CronInv PROVE TypeOK OBVIOUS
  <2>1. CronTypes BY DEF CronInv
  <2>2. ASSUME NEW e \in Evaluators, firing[e] # NULL
        PROVE  firing[e].row \in Row /\ firing[e].at \in Int /\ firing[e].runs \in Seq(Int)
    <3>1. firing[e] \in Firing BY <2>1, <2>2 DEF CronTypes
    <3> QED BY <3>1, FiringFields
  <2> QED BY <2>1, <2>2 DEF CronTypes, TypeOK
<1> QED BY <1>1, CronInvariant, PTL

(***************************************************************************)
(* No run of a RUN_ALL schedule is lost, for any number of evaluators and  *)
(* schedules, any catch-up limit and any disagreement of the clocks.       *)
(***************************************************************************)
THEOREM NoRunIsLost == Spec => []NoLostRun
<1>1. CronInv => NoLostRun
  <2> SUFFICES ASSUME CronInv, NEW s \in Schedules, Exists(s),
                      schedules[s].policy = "RUN_ALL",
                      NEW t \in Occurrences(schedules[s]), t < schedules[s].next_run_at
               PROVE  <<s, t>> \in jobs \cup dropped
    BY DEF NoLostRun
  <2>1. PICK r \in Row : r = schedules[s] BY DEF CronInv, CronTypes, Exists
  <2>2. r.id = s /\ Settled(r) BY <2>1 DEF CronInv, RowOK
  <2>3. r.first \in Int /\ r.next_run_at \in Int BY RowFields
  <2>4. t \in r.first .. MaxTime + MaxSkew /\ t % r.period = 0 BY <2>1 DEF Occurrences
  <2>5. t \in r.first .. r.next_run_at - 1
    BY <2>1, <2>3, <2>4, CronAssumption
  <2> QED BY <2>1, <2>2, <2>4, <2>5 DEF Settled
<1> QED BY <1>1, CronInvariant, PTL
-------------------------------------------------------------------------------
(***************************************************************************)
(* OnlyDueRuns.  AdvanceSchedule writes the first run after the time of    *)
(* the scheduler's own clock, which may lie before the run it has just     *)
(* fired: with a clock further behind the database's than a period, next_  *)
(* run_at falls back, in the end to before the schedule's first run.       *)
(* Clocks that agree to within the shortest period are what it takes.      *)
(***************************************************************************)
SkewWithinPeriod == \A p \in Periods : MaxSkew <= p

RowLate(r) == r.next_run_at >= r.first

FiringLate(f) ==
    /\ RowLate(f.row)
    /\ f.at >= f.row.next_run_at - MaxSkew
    /\ \A i \in DOMAIN f.runs : f.runs[i] >= f.row.first

JobDue(x) ==
    Exists(x[1]) => /\ x[2] % schedules[x[1]].period = 0
                    /\ x[2] >= schedules[x[1]].first
                    /\ x[2] <= now + MaxSkew

LateInv ==
    /\ \A s \in Schedules : Exists(s) => RowLate(schedules[s])
    /\ \A e \in Evaluators : \A r \in due[e] : RowLate(r)
    /\ \A e \in Evaluators : firing[e] # NULL => FiringLate(firing[e])
    /\ \A x \in jobs : JobDue(x)

LEMMA LateRowStep ==
    ASSUME SkewWithinPeriod, CronInv, LateInv, [Next]_vars,
           NEW s \in Schedules, Exists(s)'
    PROVE  RowLate(schedules[s])'
<1>0. CronTypes /\ CronTypes' BY TypeStep DEF CronInv
<1>1. ASSUME schedules'[s] = schedules[s] PROVE RowLate(schedules[s])'
  BY <1>1 DEF LateInv, RowLate, Exists
<1>2. ASSUME NEW r \in creating, InsertSchedule(r) PROVE RowLate(schedules[s])'
  <2>1. r \in Row /\ r.next_run_at = r.first BY <1>0 DEF CronTypes, CronInv, BirthInv
  <2>2. schedules'[s] = schedules[s] \/ schedules'[s] = r
    BY <1>0, <1>2 DEF InsertSchedule, CronTypes
  <2> QED BY <1>1, <2>1, <2>2, RowFields DEF RowLate
<1>3. ASSUME NEW k \in Schedules, NEW b \in BOOLEAN, ToggleSchedule(k, b)
      PROVE  RowLate(schedules[s])'
  <2>1. PICK r \in Row : r = schedules[k] /\ RowLate(r)
    BY <1>0, <1>3 DEF CronTypes, ToggleSchedule, Exists, LateInv
  <2>2. PICK q : q = [r EXCEPT !.enabled = b] OBVIOUS
  <2>3. SameSchedule(r, q) /\ q.next_run_at = r.next_run_at BY <2>2, RowWrites
  <2>4. schedules'[s] = schedules[s] \/ schedules'[s] = q
    BY <1>0, <1>3, <2>1, <2>2 DEF ToggleSchedule, CronTypes
  <2> QED BY <1>1, <2>1, <2>3, <2>4 DEF RowLate, SameSchedule
<1>4. ASSUME NEW k \in Schedules, DeleteSchedule(k) PROVE RowLate(schedules[s])'
  BY <1>0, <1>1, <1>4 DEF CronTypes, DeleteSchedule, Exists
<1>5. ASSUME NEW e \in Evaluators, AdvanceSchedule(e) PROVE RowLate(schedules[s])'
  <2>1. PICK f \in Firing : f = firing[e] /\ FiringOK(f) /\ FiringLate(f)
    BY <1>0, <1>5 DEF CronTypes, AdvanceSchedule, CronInv, LateInv
  <2>2. PICK r \in Row : r = f.row BY FiringFields
  <2>3. PICK n \in Int : n = NextRunTime(r.period, f.at)
    BY <2>2, FiringFields, RowFields, NextRun
  <2>4. schedules' = IF Exists(r.id) THEN [schedules EXCEPT ![r.id].next_run_at = n]
                                     ELSE schedules
    BY <1>5, <2>1, <2>2, <2>3 DEF AdvanceSchedule
  <2>5. CASE s # r.id \/ ~Exists(r.id) BY <1>0, <1>1, <2>4, <2>5 DEF CronTypes
  <2>6. ASSUME s = r.id, Exists(s) PROVE RowLate(schedules[s])'
    <3>1. PICK o \in Row : o = schedules[s] BY <1>0, <2>6 DEF CronTypes, Exists
    <3>2. PICK q : q = [o EXCEPT !.next_run_at = n] OBVIOUS
    <3>3. SameSchedule(o, q) /\ q.next_run_at = n BY <2>3, <3>2, RowWrites
    <3>4. schedules'[s] = q BY <1>0, <2>4, <2>6, <3>1, <3>2 DEF CronTypes
    <3>5. SameSchedule(r, o) BY <2>1, <2>2, <2>6, <3>1 DEF FiringOK, CopyOK
    <3>6. /\ r.period \in Nat \ {0} /\ f.at \in Int /\ r.first \in Int
          /\ r.next_run_at \in Int /\ MaxSkew <= r.period
      BY FiringFields, RowFields DEF SkewWithinPeriod
    <3>7. n % r.period = 0 /\ f.at < n BY <2>3, <3>6, NextRun
    <3>8. r.next_run_at % r.period = 0 BY <2>1, <2>2 DEF FiringOK, CopyOK
    <3>9. f.at >= r.next_run_at - MaxSkew /\ r.next_run_at >= r.first
      BY <2>1, <2>2 DEF FiringLate, RowLate
    <3>10. r.next_run_at - r.period < n BY <2>3, <3>6, <3>7, <3>9, CronAssumption
    <3>11. r.next_run_at <= n BY <2>3, <3>6, <3>7, <3>8, <3>10, Gap
    <3>12. n >= r.first BY <2>3, <3>6, <3>9, <3>11
    <3> QED BY <3>3, <3>4, <3>5, <3>12 DEF RowLate, SameSchedule
  <2> QED BY <2>5, <2>6
<1>6. ASSUME schedules' = schedules PROVE RowLate(schedules[s])' BY <1>1, <1>6
<1> QED BY <1>2, <1>3, <1>4, <1>5, <1>6
     DEF Next, ValidateSchedule, GetDueSchedules, FireSchedule, CreateJob,
         CreateJobFails, AdvanceScheduleFails, StopEvaluator, Tick, vars

LEMMA LateDueStep ==
    ASSUME CronInv, LateInv, [Next]_vars, NEW e \in Evaluators, NEW r \in due'[e]
    PROVE  RowLate(r)
<1>0. CronTypes BY DEF CronInv
<1>1. r \in due[e] => RowLate(r) BY DEF LateInv
<1>2. ASSUME NEW d \in Evaluators, NEW locked \in SUBSET Schedules,
             GetDueSchedules(d, locked)
      PROVE  RowLate(r)
  <2>1. CASE d # e BY <1>0, <1>1, <1>2, <2>1 DEF GetDueSchedules, CronTypes
  <2>2. CASE d = e
    <3>1. PICK s \in Schedules : IsDue(s) /\ r = schedules[s]
      BY <1>0, <1>2, <2>2 DEF GetDueSchedules, CronTypes
    <3> QED BY <3>1 DEF LateInv, IsDue
  <2> QED BY <2>1, <2>2
<1>3. ASSUME NEW d \in Evaluators, NEW q \in due[d], NEW t \in Clock,
             FireSchedule(d, q, t)
      PROVE  RowLate(r)
  BY <1>0, <1>1, <1>3 DEF FireSchedule, CronTypes
<1>4. ASSUME NEW d \in Evaluators, StopEvaluator(d) PROVE RowLate(r)
  BY <1>0, <1>1, <1>4 DEF StopEvaluator, CronTypes
<1>5. ASSUME due' = due PROVE RowLate(r) BY <1>1, <1>5
<1> QED BY <1>2, <1>3, <1>4, <1>5
     DEF Next, ValidateSchedule, InsertSchedule, ToggleSchedule, DeleteSchedule,
         CreateJob, CreateJobFails, AdvanceSchedule, AdvanceScheduleFails, Tick, vars

LEMMA LateFiringStep ==
    ASSUME CronInv, LateInv, [Next]_vars, NEW e \in Evaluators, firing'[e] # NULL
    PROVE  FiringLate(firing'[e])
<1>0. CronTypes /\ CronTypes' BY TypeStep DEF CronInv
<1>1. PICK g \in Firing : g = firing'[e] BY <1>0 DEF CronTypes
<1>2. ASSUME firing'[e] = firing[e] PROVE FiringLate(g) BY <1>1, <1>2 DEF LateInv
<1>3. ASSUME NEW d \in Evaluators, NEW r \in due[d], NEW t \in Clock,
             FireSchedule(d, r, t)
      PROVE  FiringLate(g)
  <2>1. CASE d # e BY <1>0, <1>2, <1>3, <2>1 DEF FireSchedule, CronTypes
  <2>2. CASE d = e
    <3>1. g = [row |-> r, at |-> t, runs |-> ComputeMissedRuns(r, t), cut |-> CutOff(r, t)]
      BY <1>0, <1>1, <1>3, <2>2 DEF FireSchedule, CronTypes
    <3>2. g.row = r /\ g.at = t /\ g.runs = ComputeMissedRuns(r, t) BY <3>1
    <3>3. r \in Row /\ CopyOK(r) /\ RowLate(r) BY <1>0, <1>3 DEF CronTypes, CronInv, LateInv
    <3>4. /\ t \in Int /\ t >= now - MaxSkew /\ r.next_run_at \in Int /\ r.first \in Int
          /\ r.next_run_at <= now /\ r.next_run_at % r.period = 0
      BY <1>0, <1>3, <3>3, NextRunOfClock, RowFields DEF CopyOK
    <3>5. t >= r.next_run_at - MaxSkew BY <1>0, <3>4, CronAssumption DEF CronTypes
    <3>6. \A i \in DOMAIN g.runs : g.runs[i] \in Int /\ g.runs[i] >= r.next_run_at
      <4>1. g.runs \in Seq(Int) BY FiringFields
      <4>2. \A i \in DOMAIN ComputeMissedRuns(r, t) :
               ComputeMissedRuns(r, t)[i] >= r.next_run_at
        BY <3>3, <3>4, MissedRuns
      <4> QED BY <3>2, <4>1, <4>2
    <3>7. \A i \in DOMAIN g.runs : g.runs[i] >= r.first
      BY <3>3, <3>4, <3>6 DEF RowLate
    <3> QED BY <3>2, <3>3, <3>5, <3>7 DEF FiringLate
  <2> QED BY <2>1, <2>2
<1>4. ASSUME NEW d \in Evaluators, CreateJob(d) PROVE FiringLate(g)
  <2>1. CASE d # e BY <1>0, <1>2, <1>4, <2>1 DEF CreateJob, CronTypes
  <2>2. CASE d = e
    <3>1. PICK f \in Firing : f = firing[e] /\ f.runs # <<>> /\ FiringLate(f)
      BY <1>0, <1>4, <2>2 DEF CreateJob, CronTypes, LateInv
    <3>2. g = [f EXCEPT !.runs = Tail(@)]
      BY <1>0, <1>1, <1>4, <2>2, <3>1 DEF CreateJob, CronTypes
    <3>3. /\ g.row = f.row /\ g.at = f.at
          /\ \A i \in DOMAIN g.runs : i + 1 \in DOMAIN f.runs
                                      /\ g.runs[i] = f.runs[i + 1]
      BY <3>1, <3>2, FiringFields
    <3> QED BY <3>1, <3>3 DEF FiringLate
  <2> QED BY <2>1, <2>2
<1>5. ASSUME NEW d \in Evaluators,
             CreateJobFails(d) \/ AdvanceSchedule(d) \/ AdvanceScheduleFails(d)
                \/ StopEvaluator(d)
      PROVE  FiringLate(g)
  <2>1. firing' = [firing EXCEPT ![d] = NULL]
    BY <1>5 DEF CreateJobFails, AdvanceSchedule, AdvanceScheduleFails, StopEvaluator
  <2>2. d # e BY <1>0, <2>1 DEF CronTypes
  <2> QED BY <1>0, <1>2, <2>1, <2>2 DEF CronTypes
<1>6. ASSUME firing' = firing PROVE FiringLate(g) BY <1>2, <1>6
<1> QED BY <1>1, <1>3, <1>4, <1>5, <1>6
     DEF Next, ValidateSchedule, InsertSchedule, ToggleSchedule, DeleteSchedule,
         GetDueSchedules, Tick, vars

LEMMA DueJobStep ==
    ASSUME CronInv, LateInv, [Next]_vars, NEW x \in jobs'
    PROVE  JobDue(x)'
<1>0. CronTypes /\ CronTypes' /\ Grown BY TypeStep, Frame DEF CronInv
<1>1. x[1] \in Schedules /\ x[2] \in Int BY <1>0 DEF CronTypes
<1>2. CASE x \in jobs
  <2>1. schedules[x[1]] # NULL /\ JobDue(x) BY <1>2 DEF CronInv, BirthInv, LateInv
  <2>2. ASSUME Exists(x[1])'
        PROVE  /\ Exists(x[1])
               /\ SameSchedule(schedules[x[1]], schedules'[x[1]])
    BY <1>0, <1>1, <2>1, <2>2 DEF Grown, Exists
  <2>3. x[2] <= now + MaxSkew => x[2] <= now' + MaxSkew
    BY <1>0, <1>1, CronAssumption DEF Grown
  <2> QED BY <2>1, <2>2, <2>3 DEF JobDue, SameSchedule
<1>3. ASSUME NEW e \in Evaluators, CreateJob(e) \/ CreateJobFails(e), x \notin jobs
      PROVE  JobDue(x)'
  <2>1. PICK f \in Firing : f = firing[e] /\ f.runs # <<>> /\ FiringOK(f) /\ FiringLate(f)
    BY <1>0, <1>3 DEF CreateJob, CreateJobFails, CronTypes, CronInv, LateInv
  <2>2. Head(f.runs) = f.runs[1] /\ 1 \in DOMAIN f.runs /\ f.row \in Row
    BY <2>1, FiringFields
  <2>3. /\ f.runs[1] % f.row.period = 0 /\ f.runs[1] <= now + MaxSkew
        /\ f.runs[1] >= f.row.first
    BY <2>1, <2>2 DEF FiringOK, FiringLate
  <2>4. x = <<f.row.id, f.runs[1]>> /\ schedules' = schedules /\ now' = now
    BY <1>3, <2>1, <2>2 DEF CreateJob, CreateJobFails
  <2>5. x[1] = f.row.id /\ x[2] = f.runs[1] BY <2>4
  <2>6. Exists(x[1]) => SameSchedule(f.row, schedules[x[1]])
    BY <2>1, <2>5 DEF FiringOK, CopyOK
  <2> QED BY <2>3, <2>4, <2>5, <2>6 DEF JobDue, SameSchedule, Exists
<1>4. ASSUME jobs' = jobs PROVE JobDue(x)' BY <1>2, <1>4
<1> QED BY <1>2, <1>3, <1>4
     DEF Next, ValidateSchedule, InsertSchedule, ToggleSchedule, DeleteSchedule,
         GetDueSchedules, FireSchedule, AdvanceSchedule, AdvanceScheduleFails,
         StopEvaluator, Tick, vars

(***************************************************************************)
(* Only real occurrences are fired, none before the schedule's first run   *)
(* and none before its time, as long as the schedulers' clocks are within  *)
(* the shortest period of the database's.                                  *)
(***************************************************************************)
THEOREM OnlyDueRunsFire == SkewWithinPeriod => (Spec => []OnlyDueRuns)
<1> SUFFICES ASSUME SkewWithinPeriod PROVE Spec => []OnlyDueRuns OBVIOUS
<1>1. Init => LateInv BY DEF Init, LateInv, Exists
<1>2. CronInv /\ LateInv /\ [Next]_vars => LateInv'
  BY LateRowStep, LateDueStep, LateFiringStep, DueJobStep DEF LateInv, RowLate, FiringLate
<1>3. CronInv /\ LateInv => OnlyDueRuns
  <2> SUFFICES ASSUME CronInv, LateInv, NEW s \in Schedules, Exists(s),
                      NEW x \in jobs, x[1] = s
               PROVE  x[2] \in Occurrences(schedules[s]) /\ x[2] <= now + MaxSkew
    BY DEF OnlyDueRuns
  <2>1. PICK r \in Row : r = schedules[s] BY DEF CronInv, CronTypes, Exists
  <2>2. x[2] \in Int /\ now \in 0 .. MaxTime BY DEF CronInv, CronTypes
  <2>3. x[2] % r.period = 0 /\ x[2] >= r.first /\ x[2] <= now + MaxSkew
    BY <2>1 DEF LateInv, JobDue
  <2>4. x[2] \in r.first .. MaxTime + MaxSkew
    BY <2>2, <2>3, RowFields, CronAssumption
  <2> QED BY <2>1, <2>3, <2>4 DEF Occurrences
<1> QED BY <1>1, <1>2, <1>3, CronInvariant, PTL DEF Spec
===============================================================================
