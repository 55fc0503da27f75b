--------------------------- MODULE Admission_proofs ---------------------------
(***************************************************************************)
(* What is proved of Admission, for any number of tenants, callers and     *)
(* headers, any rate, burst and clean-up interval that satisfy the         *)
(* module's assumptions, and any quotas.                                   *)
(***************************************************************************)
EXTENDS Admission, FiniteSetTheorems, TLAPS

(***************************************************************************)
(* Buckets.                                                                *)
(***************************************************************************)
\* The units a bucket gains while nobody uses it.
LEMMA Gain ==
    ASSUME NEW n \in Nat
    PROVE  /\ n * Rate \in Nat
           /\ (n + 1) * Rate = n * Rate + Rate
           /\ n > CleanupTick => n * Rate >= Burst
<1>1. n * Rate \in Nat /\ (n + 1) * Rate = n * Rate + Rate
  BY SMTT(30), AdmissionAssumption
<1>2. ASSUME n > CleanupTick PROVE n * Rate >= Burst
  <2>1. n * Rate >= CleanupTick * Rate
    BY <1>2, SMTT(30), AdmissionAssumption
  <2>2. CleanupTick * Rate \in Nat
    BY SMTT(30), AdmissionAssumption
  <2> QED  BY <1>1, <2>1, <2>2, AdmissionAssumption
<1> QED  BY <1>1, <1>2

\* What a bucket holds when it is used is within its size.
LEMMA RefilledType ==
    ASSUME NEW b \in Bucket
    PROVE  /\ Refilled(b) \in 0 .. Burst
           /\ b.idle > CleanupTick => Refilled(b) = Burst
           /\ b.idle = 0 => Refilled(b) = b.tokens
<1> DEFINE g == b.idle * Rate
<1>1. b.tokens \in 0 .. Burst /\ b.idle \in Nat
  BY AdmissionAssumption DEF Bucket
<1>2. g \in Nat /\ (b.idle > CleanupTick => g >= Burst)
  BY <1>1, Gain
<1>3. b.idle = 0 => g = 0
  BY AdmissionAssumption, SMT
<1>4. Refilled(b) = IF b.tokens + g > Burst THEN Burst ELSE b.tokens + g
  BY DEF Refilled
<1> HIDE DEF g
<1> QED  BY <1>1, <1>2, <1>3, <1>4, AdmissionAssumption

LEMMA NewBucket == [tokens |-> Burst, idle |-> 0] \in Bucket
  BY AdmissionAssumption DEF Bucket

LEMMA BucketOfType ==
    ASSUME TypeOK, NEW k \in Keys
    PROVE  BucketOf(k) \in Bucket
<1>1. buckets[k] \in Bucket \cup {NULL}
  BY DEF TypeOK
<1> QED  BY <1>1, NewBucket DEF BucketOf

\* A call draws from the bucket of one of the keys.
LEMMA KeyOfRequest ==
    ASSUME NEW req \in Request
    PROVE  tenantFromRequest(req) \in Keys
  BY DEF Request, tenantFromRequest, tenantFromContext, Keys

\* What allow makes of the bucket it uses.
LEMMA UsedBucket ==
    ASSUME TypeOK, NEW k \in Keys, allow(k)
    PROVE  \E b \in Bucket :
              /\ buckets' = [buckets EXCEPT ![k] = b]
              /\ b.idle = 0
              /\ b.tokens = Refilled(BucketOf(k)) - (IF Allowed(k) THEN Cost ELSE 0)
<1> DEFINE t == Refilled(BucketOf(k)) - (IF Allowed(k) THEN Cost ELSE 0)
           b == [tokens |-> t, idle |-> 0]
<1>1. Refilled(BucketOf(k)) \in 0 .. Burst
  BY BucketOfType, RefilledType
<1>2. t \in 0 .. Burst
  BY <1>1, AdmissionAssumption DEF Allowed
<1>3. buckets' = [buckets EXCEPT ![k] = b]
  BY DEF allow
<1>4. b \in Bucket /\ b.idle = 0 /\ b.tokens = t
  BY <1>2, AdmissionAssumption DEF Bucket
<1> HIDE DEF b
<1> QED  BY <1>3, <1>4
-------------------------------------------------------------------------------
(***************************************************************************)
(* Type correctness.                                                       *)
(***************************************************************************)
LEMMA InterceptType ==
    ASSUME TypeOK, NEW req \in Request, Intercept(req)
    PROVE  buckets' \in [Keys -> Bucket \cup {NULL}] /\ refused' \in [Keys -> BOOLEAN]
<1> DEFINE k == tenantFromRequest(req)
<1>1. k \in Keys
  BY KeyOfRequest
<1>2. CASE Authorized(req) /\ req.method \in clientRPCs
  <2>1. allow(k) /\ refused' = [refused EXCEPT ![k] = ~Allowed(k)]
    BY <1>2 DEF Intercept
  <2>2. \E b \in Bucket : buckets' = [buckets EXCEPT ![k] = b]
    BY <1>1, <2>1, UsedBucket
  <2>3. Allowed(k) \in BOOLEAN
    BY DEF Allowed
  <2> HIDE DEF k
  <2> QED  BY <1>1, <2>1, <2>2, <2>3 DEF TypeOK
<1>3. CASE ~(Authorized(req) /\ req.method \in clientRPCs)
  BY <1>3 DEF Intercept, limiter, TypeOK
<1> QED  BY <1>2, <1>3

LEMMA TypeStep == TypeOK /\ [Next]_vars => TypeOK'
<1> SUFFICES ASSUME TypeOK, [Next]_vars PROVE TypeOK'
  OBVIOUS
<1>1. ASSUME NEW req \in Request, Serve(req) PROVE TypeOK'
  BY <1>1, InterceptType DEF Serve, TypeOK
<1>2. ASSUME NEW req \in Request, Remove(req) PROVE TypeOK'
  <2>1. buckets' \in [Keys -> Bucket \cup {NULL}] /\ refused' \in [Keys -> BOOLEAN]
    BY <1>2, InterceptType DEF Remove
  <2>2. PICK origin \in {"job", "cron", "schedule"} :
          /\ req.tenant \in Tenants /\ rows[req.tenant][origin] > 0
          /\ rows' = [rows EXCEPT ![req.tenant][origin] = @ - 1]
    BY <1>2 DEF Remove
  <2> QED  BY <1>2, <2>1, <2>2 DEF Remove, TypeOK
<1>3. ASSUME NEW req \in Request, NEW c \in Callers, NEW kind \in {"job", "schedule"},
             PassesCount(c, req, kind)
      PROVE  TypeOK'
  <2>1. buckets' \in [Keys -> Bucket \cup {NULL}] /\ refused' \in [Keys -> BOOLEAN]
    BY <1>3, InterceptType DEF PassesCount
  <2> QED  BY <1>3, <2>1 DEF PassesCount, TypeOK, Call
<1>4. ASSUME NEW c \in Callers, Insert(c) PROVE TypeOK'
  <2>1. calls[c] \in Call
    BY <1>4 DEF Insert, TypeOK
  <2> QED  BY <1>4, <2>1 DEF Insert, TypeOK, limiter, Call
<1>5. ASSUME NEW t \in Tenants, CronFires(t) PROVE TypeOK'
  BY <1>5 DEF CronFires, TypeOK, limiter
<1>6. ASSUME NEW t \in Tenants, NEW origin \in {"job", "cron"}, JobEnds(t, origin)
      PROVE  TypeOK'
  BY <1>6 DEF JobEnds, TypeOK, limiter
<1>7. CASE cleanup
  BY <1>7 DEF cleanup, TypeOK
<1>8. CASE Tick
  <2>1. ASSUME NEW k \in Keys, buckets[k] # NULL, ~(buckets[k].idle > CleanupTick)
        PROVE  [buckets[k] EXCEPT !.idle = @ + 1] \in Bucket
    BY <2>1, AdmissionAssumption DEF TypeOK, Bucket
  <2> QED  BY <1>8, <2>1 DEF Tick, TypeOK
<1>9. CASE UNCHANGED vars
  BY <1>9 DEF vars, TypeOK
<1> QED  BY <1>1, <1>2, <1>3, <1>4, <1>5, <1>6, <1>7, <1>8, <1>9
         DEF Next, SubmitJob, CreateSchedule

(***************************************************************************)
(* No bucket ever holds more than the burst or less than nothing, and no   *)
(* count of rows becomes negative, whatever calls arrive.                  *)
(***************************************************************************)
THEOREM TypeCorrect == Spec => []TypeOK
<1>1. Init => TypeOK
  BY DEF Init, TypeOK
<1> QED  BY <1>1, TypeStep, PTL DEF Spec
-------------------------------------------------------------------------------
(***************************************************************************)
(* Quotas.                                                                 *)
(***************************************************************************)
\* The rows that a quota check admitted, with those about to be inserted.
AdmittedExcess ==
    \A t \in Tenants, kind \in {"job", "schedule"} :
       Quota(kind) > 0 =>
          rows[t][kind] + Cardinality(Inserting(t, kind))
             <= Quota(kind) + Cardinality(Callers) - 1

\* Count is what was admitted and what was scheduled, so QuotaExcess says the same.
LEMMA ExcessOfCount == TypeOK /\ AdmittedExcess => QuotaExcess
<1> SUFFICES ASSUME TypeOK, AdmittedExcess,
                    NEW t \in Tenants, NEW kind \in {"job", "schedule"}, Quota(kind) > 0
             PROVE  Count(t, kind) + Cardinality(Inserting(t, kind))
                       <= Quota(kind) + (Cardinality(Callers) - 1) + Scheduled(t, kind)
  BY DEF QuotaExcess
<1>1. /\ rows[t][kind] \in Nat
      /\ Scheduled(t, kind) \in Nat
      /\ Count(t, kind) = rows[t][kind] + Scheduled(t, kind)
  BY DEF TypeOK, Count, Scheduled
<1>2. Cardinality(Inserting(t, kind)) \in Nat /\ Cardinality(Callers) \in Nat
  <2>1. Inserting(t, kind) \subseteq Callers
    BY DEF Inserting
  <2> QED  BY <2>1, AdmissionAssumption, FS_Subset, FS_CardinalityType
<1>3. Quota(kind) \in Nat
  BY AdmissionAssumption DEF Quota
<1>4. rows[t][kind] + Cardinality(Inserting(t, kind)) <= Quota(kind) + Cardinality(Callers) - 1
  BY DEF AdmittedExcess
<1> QED  BY <1>1, <1>2, <1>3, <1>4

LEMMA InsertingFinite ==
    ASSUME NEW t, NEW kind
    PROVE  /\ IsFiniteSet(Inserting(t, kind))
           /\ Cardinality(Inserting(t, kind)) \in Nat
           /\ Cardinality(Inserting(t, kind)) <= Cardinality(Callers)
           /\ Cardinality(Callers) \in Nat
<1>1. Inserting(t, kind) \subseteq Callers
  BY DEF Inserting
<1> QED  BY <1>1, AdmissionAssumption, FS_Subset, FS_CardinalityType

LEMMA QuotaStep == TypeOK /\ AdmittedExcess /\ [Next]_vars => AdmittedExcess'
<1> SUFFICES ASSUME TypeOK, AdmittedExcess, [Next]_vars,
                    NEW t \in Tenants, NEW kind \in {"job", "schedule"}, Quota(kind) > 0
             PROVE  rows'[t][kind] + Cardinality(Inserting(t, kind)')
                       <= Quota(kind) + Cardinality(Callers) - 1
  BY DEF AdmittedExcess, Quota
<1> DEFINE N == Cardinality(Inserting(t, kind))
           M == Cardinality(Inserting(t, kind)')
           C == Cardinality(Callers)
<1>0. rows[t][kind] + N <= Quota(kind) + C - 1
  BY DEF AdmittedExcess
<1>1. /\ N \in Nat /\ N <= C /\ C \in Nat /\ IsFiniteSet(Inserting(t, kind))
      /\ M \in Nat /\ M <= C
  <2>1. IsFiniteSet(Inserting(t, kind)') /\ M \in Nat /\ M <= C
    <3>1. Inserting(t, kind)' \subseteq Callers
      BY DEF Inserting
    <3> QED  BY <3>1, AdmissionAssumption, FS_Subset, FS_CardinalityType
  <2> QED  BY <2>1, InsertingFinite
<1>2. rows[t][kind] \in Nat /\ rows'[t][kind] \in Nat /\ Quota(kind) \in Nat
  BY TypeStep, AdmissionAssumption DEF TypeOK, Quota
<1> HIDE DEF C
\* A step that starts no call and adds no row.
<1>3. ASSUME UNCHANGED calls, rows'[t][kind] <= rows[t][kind]
      PROVE  rows'[t][kind] + M <= Quota(kind) + C - 1
  <2>1. M = N
    BY <1>3 DEF Inserting
  <2> HIDE DEF M, N
  <2> QED  BY <1>0, <1>1, <1>2, <1>3, <2>1
<1>4. ASSUME NEW req \in Request, Serve(req) PROVE rows'[t][kind] + M <= Quota(kind) + C - 1
  BY <1>2, <1>3, <1>4 DEF Serve
<1>5. ASSUME NEW req \in Request, Remove(req)
      PROVE  rows'[t][kind] + M <= Quota(kind) + C - 1
  <2>1. PICK origin \in {"job", "cron", "schedule"} :
          /\ req.tenant \in Tenants /\ rows[req.tenant][origin] > 0
          /\ rows' = [rows EXCEPT ![req.tenant][origin] = @ - 1]
    BY <1>5 DEF Remove
  <2>2. rows'[t][kind] <= rows[t][kind]
    BY <1>2, <2>1 DEF TypeOK
  <2> QED  BY <1>3, <1>5, <2>2 DEF Remove
<1>6. ASSUME NEW req \in Request, NEW c \in Callers, NEW k \in {"job", "schedule"},
             PassesCount(c, req, k)
      PROVE  rows'[t][kind] + M <= Quota(kind) + C - 1
  <2>1. CASE req.tenant = t /\ k = kind
    <3>1. rows[t][kind] < Quota(kind)
      BY <1>2, <1>6, <2>1 DEF PassesCount, QuotaReached, Count, TypeOK
    <3> HIDE DEF M
    <3> QED  BY <1>1, <1>2, <1>6, <3>1 DEF PassesCount
  <2>2. CASE ~(req.tenant = t /\ k = kind)
    <3>1. [kind |-> k, tenant |-> req.tenant] # [kind |-> kind, tenant |-> t]
      BY <2>2
    <3>2. Inserting(t, kind)' = Inserting(t, kind)
      BY <1>6, <3>1, NullAssumption DEF PassesCount, Inserting, TypeOK, Call
    <3>3. M = N /\ rows' = rows
      BY <1>6, <3>2 DEF PassesCount
    <3> HIDE DEF M, N
    <3> QED  BY <1>0, <3>3
  <2> QED  BY <2>1, <2>2
<1>7. ASSUME NEW c \in Callers, Insert(c) PROVE rows'[t][kind] + M <= Quota(kind) + C - 1
  <2>1. CASE calls[c] = [kind |-> kind, tenant |-> t]
    <3>1. Inserting(t, kind)' = Inserting(t, kind) \ {c} /\ c \in Inserting(t, kind)
      BY <1>7, <2>1, NullAssumption DEF Insert, Inserting, TypeOK, Call
    <3>2. M = N - 1
      BY <1>1, <3>1, FS_RemoveElement
    <3>3. rows'[t][kind] <= rows[t][kind] + 1
      BY <1>2, <1>7, <2>1 DEF Insert, TypeOK
    <3> HIDE DEF M, N
    <3> QED  BY <1>0, <1>1, <1>2, <3>2, <3>3
  <2>2. CASE calls[c] # [kind |-> kind, tenant |-> t]
    <3>1. Inserting(t, kind)' = Inserting(t, kind)
      BY <1>7, <2>2, NullAssumption DEF Insert, Inserting, TypeOK, Call
    <3>2. calls[c] \in Call
      BY <1>7 DEF Insert, TypeOK
    <3>3. calls[c].tenant # t \/ calls[c].kind # kind
      BY <2>2, <3>2 DEF Call
    <3>4. rows'[t][kind] = rows[t][kind]
      BY <1>7, <3>2, <3>3 DEF Insert, TypeOK, Call
    <3>5. M = N
      BY <3>1
    <3> HIDE DEF M, N
    <3> QED  BY <1>0, <3>4, <3>5
  <2> QED  BY <2>1, <2>2
<1>8. ASSUME NEW u \in Tenants, CronFires(u)
      PROVE  rows'[t][kind] + M <= Quota(kind) + C - 1
  <2>1. rows'[t][kind] <= rows[t][kind]
    BY <1>2, <1>8 DEF CronFires, TypeOK
  <2> QED  BY <1>3, <1>8, <2>1 DEF CronFires
<1>9. ASSUME NEW u \in Tenants, NEW origin \in {"job", "cron"}, JobEnds(u, origin)
      PROVE  rows'[t][kind] + M <= Quota(kind) + C - 1
  <2>1. rows'[t][kind] <= rows[t][kind]
    BY <1>2, <1>9 DEF JobEnds, TypeOK
  <2> QED  BY <1>3, <1>9, <2>1 DEF JobEnds
<1>10. ASSUME cleanup \/ Tick \/ UNCHANGED vars
       PROVE  rows'[t][kind] + M <= Quota(kind) + C - 1
  <2>1. UNCHANGED <<calls, rows>>
    BY <1>10 DEF cleanup, Tick, vars
  <2> QED  BY <1>2, <1>3, <2>1
<1> HIDE DEF M, N
<1>11. rows'[t][kind] + M <= Quota(kind) + C - 1
  BY <1>4, <1>5, <1>6, <1>7, <1>8, <1>9, <1>10 DEF Next, SubmitJob, CreateSchedule
<1> QED  BY <1>11 DEF M, C

(***************************************************************************)
(* Count and insert are two statements, and yet the rows a quota counts,   *)
(* apart from the jobs that the evaluator inserted unchecked, exceed it by *)
(* less than the number of handlers that run at one time: SubmitJob and    *)
(* CreateSchedule, for any number of tenants, handlers and scheduled jobs. *)
(***************************************************************************)
THEOREM QuotaExcessHolds == Spec => []QuotaExcess
<1>1. Init => AdmittedExcess
  <2> SUFFICES ASSUME Init, NEW t \in Tenants, NEW kind \in {"job", "schedule"}, Quota(kind) > 0
               PROVE  rows[t][kind] + Cardinality(Inserting(t, kind))
                         <= Quota(kind) + Cardinality(Callers) - 1
    BY DEF AdmittedExcess
  <2>1. rows[t][kind] = 0
    BY DEF Init
  <2>2. Quota(kind) \in Nat
    BY AdmissionAssumption DEF Quota
  <2> QED  BY <2>1, <2>2, InsertingFinite
<1> QED  BY <1>1, TypeCorrect, QuotaStep, ExcessOfCount, PTL DEF Spec
-------------------------------------------------------------------------------
(***************************************************************************)
(* The rate limiter implements a token bucket.                             *)
(***************************************************************************)
\* What the abstract bucket of a key holds.
Level == [k \in Keys |-> Refilled(BucketOf(k))]

\* The abstract module's steps in terms of Level.
LEMMA IdealStep ==
    ASSUME \/ \E k \in Keys :
                 \/ /\ Level[k] >= Cost
                    /\ Level' = [Level EXCEPT ![k] = @ - Cost]
                    /\ refused' = [refused EXCEPT ![k] = FALSE]
                 \/ /\ Level[k] < Cost
                    /\ refused' = [refused EXCEPT ![k] = TRUE]
                    /\ UNCHANGED Level
           \/ /\ Level' = [k \in Keys |-> IF Level[k] + Rate > Burst THEN Burst
                                          ELSE Level[k] + Rate]
              /\ UNCHANGED refused
           \/ UNCHANGED <<Level, refused>>
    PROVE  [Ideal!Next]_(Ideal!vars)
  BY DEF Ideal!Next, Ideal!Grant, Ideal!Refuse, Ideal!Refill, Ideal!vars, Level

LEMMA LevelType ==
    ASSUME TypeOK, NEW k \in Keys
    PROVE  /\ Level[k] \in 0 .. Burst
           /\ buckets[k] = NULL => Level[k] = Burst
           /\ buckets[k] # NULL =>
                 /\ buckets[k] \in Bucket
                 /\ Level[k] = Refilled(buckets[k])
                 /\ (buckets[k].idle > CleanupTick) => Level[k] = Burst
<1>1. Level[k] = Refilled(BucketOf(k)) /\ Level[k] \in 0 .. Burst
  BY BucketOfType, RefilledType DEF Level
<1>2. ASSUME buckets[k] = NULL PROVE Level[k] = Burst
  <2>1. BucketOf(k) = [tokens |-> Burst, idle |-> 0]
    BY <1>2 DEF BucketOf
  <2> QED  BY <1>1, <2>1, NewBucket, RefilledType
<1>3. ASSUME buckets[k] # NULL
      PROVE  /\ buckets[k] \in Bucket
             /\ Level[k] = Refilled(buckets[k])
             /\ (buckets[k].idle > CleanupTick) => Level[k] = Burst
  <2>1. buckets[k] \in Bucket /\ BucketOf(k) = buckets[k]
    BY <1>3 DEF TypeOK, BucketOf
  <2> QED  BY <1>1, <2>1, RefilledType
<1> QED  BY <1>1, <1>2, <1>3

\* A call draws from the abstract bucket exactly if it is allowed.
LEMMA InterceptIdeal ==
    ASSUME TypeOK, TypeOK', NEW req \in Request, Intercept(req)
    PROVE  [Ideal!Next]_(Ideal!vars)
<1> DEFINE k == tenantFromRequest(req)
<1>0. k \in Keys
  BY KeyOfRequest
<1>1. CASE Authorized(req) /\ req.method \in clientRPCs
  <2>1. allow(k) /\ refused' = [refused EXCEPT ![k] = ~Allowed(k)]
    BY <1>1 DEF Intercept
  <2> HIDE DEF k
  <2>2. PICK b \in Bucket :
          /\ buckets' = [buckets EXCEPT ![k] = b]
          /\ b.idle = 0
          /\ b.tokens = Refilled(BucketOf(k)) - (IF Allowed(k) THEN Cost ELSE 0)
    BY <1>0, <2>1, UsedBucket
  <2>3. Level[k] = Refilled(BucketOf(k)) /\ Level[k] \in 0 .. Burst
    BY <1>0, LevelType DEF Level
  <2>4. BucketOf(k)' = b
    BY <1>0, <2>2, NullAssumption DEF BucketOf, TypeOK
  <2>5. Level'[k] = b.tokens
    <3>1. Refilled(BucketOf(k))' = Refilled(BucketOf(k)')
      BY DEF Refilled
    <3> QED  BY <1>0, <2>2, <2>4, <3>1, RefilledType DEF Level
  <2>6. ASSUME NEW j \in Keys, j # k PROVE Level'[j] = Level[j]
    <3>1. BucketOf(j)' = BucketOf(j)
      BY <1>0, <2>2, <2>6 DEF BucketOf, TypeOK
    <3> QED  BY <2>6, <3>1 DEF Level, Refilled
  <2>7. Level = [j \in Keys |-> Level[j]] /\ Level' = [j \in Keys |-> Level'[j]]
    BY DEF Level
  <2>8. Allowed(k) <=> Level[k] >= Cost
    BY <2>3 DEF Allowed
  <2>9. CASE Allowed(k)
    <3>1. Level'[k] = Level[k] - Cost
      BY <2>2, <2>3, <2>5, <2>9
    <3>2. Level' = [Level EXCEPT ![k] = @ - Cost]
      BY <1>0, <2>6, <2>7, <3>1
    <3> QED  BY <1>0, <2>1, <2>8, <2>9, <3>2, IdealStep
  <2>10. CASE ~Allowed(k)
    <3>1. Level'[k] = Level[k]
      BY <2>2, <2>3, <2>5, <2>10
    <3>2. Level' = Level
      BY <1>0, <2>6, <2>7, <3>1
    <3>3. Level[k] < Cost
      BY <2>3, <2>8, <2>10, AdmissionAssumption
    <3> QED  BY <1>0, <2>1, <2>10, <3>2, <3>3, IdealStep
  <2> QED  BY <2>9, <2>10
<1>2. CASE ~(Authorized(req) /\ req.method \in clientRPCs)
  <2>1. UNCHANGED <<buckets, refused>>
    BY <1>2 DEF Intercept, limiter
  <2>2. UNCHANGED Level
    BY <2>1 DEF Level, Refilled, BucketOf
  <2> QED  BY <2>1, <2>2, IdealStep
<1> QED  BY <1>1, <1>2

\* A tick refills every bucket, the ones that nobody has made or that cleanup
\* may forget too: they are full.
LEMMA TickIdeal ==
    ASSUME TypeOK, TypeOK', Tick
    PROVE  [Ideal!Next]_(Ideal!vars)
<1>1. ASSUME NEW k \in Keys
      PROVE  Level'[k] = IF Level[k] + Rate > Burst THEN Burst ELSE Level[k] + Rate
  <2>0. /\ Level[k] \in 0 .. Burst
        /\ buckets[k] = NULL => Level[k] = Burst
        /\ buckets[k] # NULL =>
              /\ buckets[k] \in Bucket
              /\ Level[k] = Refilled(buckets[k])
              /\ (buckets[k].idle > CleanupTick) => Level[k] = Burst
    BY <1>1, LevelType
  <2>1. CASE buckets[k] = NULL \/ buckets[k].idle > CleanupTick
    <3>1. Level[k] = Burst
      BY <2>0, <2>1
    <3>2. buckets'[k] = buckets[k]
      BY <2>1 DEF Tick
    <3>3. Level'[k] = Level[k]
      <4>1. BucketOf(k)' = BucketOf(k)
        BY <3>2 DEF BucketOf
      <4> QED  BY <1>1, <4>1 DEF Level, Refilled
    <3> QED  BY <3>1, <3>3, AdmissionAssumption
  <2>2. CASE buckets[k] # NULL /\ ~(buckets[k].idle > CleanupTick)
    <3> DEFINE b == buckets[k]
               g == b.idle * Rate
               c == [b EXCEPT !.idle = @ + 1]
    <3>1. b \in Bucket /\ Level[k] = Refilled(b)
      BY <2>0, <2>2
    <3>2. buckets'[k] = c
      BY <2>2 DEF Tick
    <3>3. c \in Bucket /\ c.tokens = b.tokens /\ c.idle = b.idle + 1
      <4>1. c = [tokens |-> b.tokens, idle |-> b.idle + 1]
        BY <3>1 DEF Bucket
      <4> QED  BY <2>2, <3>1, <4>1, AdmissionAssumption DEF Bucket
    <3>4. Level'[k] = Refilled(c)
      <4>1. BucketOf(k)' = c
        BY <3>2, <3>3, NullAssumption DEF BucketOf
      <4> HIDE DEF c
      <4> QED  BY <1>1, <4>1 DEF Level, Refilled
    <3>5. b.tokens \in 0 .. Burst /\ b.idle \in Nat
      BY <3>1, AdmissionAssumption DEF Bucket
    <3>6. g \in Nat /\ (b.idle + 1) * Rate = g + Rate
      BY <3>5, Gain
    <3>7. Refilled(b) = IF b.tokens + g > Burst THEN Burst ELSE b.tokens + g
      BY DEF Refilled
    <3>8. Refilled(c) = IF b.tokens + (g + Rate) > Burst THEN Burst ELSE b.tokens + (g + Rate)
      <4> HIDE DEF c, g
      <4> QED  BY <3>3, <3>6 DEF Refilled
    <3> HIDE DEF b, c, g
    <3> QED  BY <3>1, <3>4, <3>5, <3>6, <3>7, <3>8, AdmissionAssumption
  <2> QED  BY <2>1, <2>2
<1>2. Level' = [k \in Keys |-> Level'[k]]
  BY DEF Level
<1>3. Level' = [k \in Keys |-> IF Level[k] + Rate > Burst THEN Burst ELSE Level[k] + Rate]
  BY <1>1, <1>2
<1> QED  BY <1>3, IdealStep DEF Tick

\* cleanup only forgets buckets that are full.
LEMMA CleanupIdeal ==
    ASSUME TypeOK, TypeOK', cleanup
    PROVE  UNCHANGED <<Level, refused>>
<1>1. ASSUME NEW k \in Keys PROVE Level'[k] = Level[k]
  <2>0. buckets[k] # NULL /\ (buckets[k].idle > CleanupTick) => Level[k] = Burst
    BY <1>1, LevelType
  <2>1. CASE Stale(k)
    <3>1. Level[k] = Burst
      BY <2>0, <2>1 DEF Stale
    <3>2. buckets'[k] = NULL
      BY <2>1 DEF cleanup
    <3>3. BucketOf(k)' = [tokens |-> Burst, idle |-> 0]
      BY <3>2 DEF BucketOf
    <3>4. Level'[k] = Refilled([tokens |-> Burst, idle |-> 0])
      BY <3>3 DEF Level, Refilled
    <3> QED  BY <3>1, <3>4, NewBucket, RefilledType
  <2>2. CASE ~Stale(k)
    <3>1. buckets'[k] = buckets[k]
      BY <2>2 DEF cleanup
    <3>2. BucketOf(k)' = BucketOf(k)
      BY <3>1 DEF BucketOf
    <3> QED  BY <1>1, <3>2 DEF Level, Refilled
  <2> QED  BY <2>1, <2>2
<1>2. Level = [k \in Keys |-> Level[k]] /\ Level' = [k \in Keys |-> Level'[k]]
  BY DEF Level
<1> QED  BY <1>1, <1>2 DEF cleanup

(***************************************************************************)
(* The rate limiter, with its lazy refills, its buckets made on first use  *)
(* and forgotten by cleanup, and the interceptors before it, implements a  *)
(* token bucket per key, for any number of tenants and any rates.          *)
(***************************************************************************)
THEOREM LimiterImplementsTokenBucket == Spec => ActsAsTokenBucket
<1>1. Init => Ideal!Init
  <2> SUFFICES ASSUME Init PROVE Ideal!Init
    OBVIOUS
  <2>1. ASSUME NEW k \in Keys PROVE Refilled(BucketOf(k)) = Burst
    <3>1. BucketOf(k) = [tokens |-> Burst, idle |-> 0]
      BY DEF Init, BucketOf
    <3> QED  BY <3>1, NewBucket, RefilledType
  <2> QED  BY <2>1 DEF Init, Ideal!Init
<1>2. TypeOK /\ TypeOK' /\ [Next]_vars => [Ideal!Next]_(Ideal!vars)
  <2> SUFFICES ASSUME TypeOK, TypeOK', [Next]_vars PROVE [Ideal!Next]_(Ideal!vars)
    OBVIOUS
  <2>1. ASSUME NEW req \in Request, Intercept(req) PROVE [Ideal!Next]_(Ideal!vars)
    BY <2>1, InterceptIdeal
  <2>2. ASSUME UNCHANGED limiter PROVE [Ideal!Next]_(Ideal!vars)
    <3>1. UNCHANGED Level
      BY <2>2 DEF limiter, Level, BucketOf, Refilled
    <3> QED  BY <2>2, <3>1, IdealStep DEF limiter
  <2>3. CASE cleanup
    BY <2>3, CleanupIdeal, IdealStep
  <2>4. CASE Tick
    BY <2>4, TickIdeal
  <2>5. CASE UNCHANGED vars
    BY <2>2, <2>5 DEF vars, limiter
  <2>6. ASSUME NEW req \in Request, Serve(req) \/ Remove(req) PROVE Intercept(req)
    BY <2>6 DEF Serve, Remove
  <2>7. ASSUME NEW req \in Request, NEW c \in Callers, SubmitJob(c, req) \/ CreateSchedule(c, req)
        PROVE  Intercept(req)
    BY <2>7 DEF SubmitJob, CreateSchedule, PassesCount
  <2>8. ASSUME NEW c \in Callers, Insert(c) PROVE UNCHANGED limiter
    BY <2>8 DEF Insert
  <2>9. ASSUME NEW t \in Tenants, CronFires(t) \/ \E o \in {"job", "cron"} : JobEnds(t, o)
        PROVE  UNCHANGED limiter
    BY <2>9 DEF CronFires, JobEnds, limiter
  <2> QED  BY <2>1, <2>2, <2>3, <2>4, <2>5, <2>6, <2>7, <2>8, <2>9 DEF Next
<1> QED  BY <1>1, <1>2, TypeCorrect, PTL DEF Spec, ActsAsTokenBucket, Ideal!Spec
===============================================================================
