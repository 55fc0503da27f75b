-------------------------- MODULE AuditTrail_proofs --------------------------
(***************************************************************************)
(* What is proved of AuditTrail, for any number of jobs, workers, claims,  *)
(* late and lost INSERTs, any mix of payloads and any limit on what an     *)
(* autopsy reads.                                                          *)
(*                                                                         *)
(* The argument has two halves.  JobsOK speaks of a job and of everything  *)
(* that was ever to be recorded about it (Entries): it changes only when a *)
(* statement on the job adds its entry, and not when that entry is written *)
(* or lost.  The rest follows one entry from its statement into the trail: *)
(* what its caller may do next, and what an autopsy then finds.            *)
(***************************************************************************)
EXTENDS AuditTrail, FunctionTheorems, FiniteSetTheorems, TLAPS

\* S is finite and has n elements.
Counted(S, n) == IsFiniteSet(S) /\ Cardinality(S) = n

\* The errors of a payload that can reach the store.
Reported(p) == executePayload(p) \ {OK, Panic}

(***************************************************************************)
(* A job in phase ph, with ep claims and fl failures, its payload p, and   *)
(* the set E of its entries.                                               *)
(***************************************************************************)
\* An entry that an autopsy counts is a failure that this payload can have, or
\* a lapse, which has no worker.
AttemptOK(e, p) ==
    IsAttempt(e) => /\ e.from = "RUNNING"
                    /\ \/ e.worker # NULL /\ e.reason \in Reported(p)
                       \/ e.worker = NULL /\ e.reason = Lapse

\* No entry is about a lease that was not given yet; a lease ends once, and the
\* present lease of an owned job has not ended; an end stands only where the job
\* has ended so, and death is the end of the last lease.
EntriesOK(ph, ep, p, E) ==
    /\ E \subseteq Entry
    /\ ph = "absent" => E = {}
    /\ ph # "absent" => p \in Kinds
    /\ \A e \in E : e.epoch <= ep /\ AttemptOK(e, p)
    /\ ph = "owned" => \A e \in E : e.from = "RUNNING" => e.epoch # ep
    /\ \A e, f \in E : e.from = "RUNNING" /\ f.from = "RUNNING" /\ e.epoch = f.epoch => e = f
    /\ \A e \in E : e.to = "DEAD_LETTER" => ph = "dead" /\ Charge(e) /\ e.epoch = ep
    /\ \A e \in E : /\ e.to = "SUCCEEDED" => ph = "succeeded"
                    /\ e.to = "CANCELLED" => ph = "cancelled"

Counts(ph, ep, fl, E) ==
    /\ Counted(To(E, "DISPATCHED"), ep)
    /\ Counted(Charges(E), fl)
    /\ Counted(To(E, "DEAD_LETTER"), IF ph = "dead" THEN 1 ELSE 0)
    /\ Counted(To(E, "SUCCEEDED"), IF ph = "succeeded" THEN 1 ELSE 0)

LifeOK ==
    /\ phase \in [Jobs -> Phases]
    /\ owner \in [Jobs -> Workers \cup {NULL}]
    /\ epoch \in [Jobs -> 0 .. MaxEpoch]
    /\ failures \in [Jobs -> Nat]

JobsOK ==
    \A j \in Jobs : /\ EntriesOK(phase[j], epoch[j], payload[j], Entries(j))
                    /\ Counts(phase[j], epoch[j], failures[j], Entries(j))

(***************************************************************************)
(* From the statement to the trail and to the report.                      *)
(***************************************************************************)
\* The trail of j has the claim of epoch ep by w.
ClaimWritten(j, w, ep) ==
    \E e \in Written(j) : e.to = "DISPATCHED" /\ e.epoch = ep /\ e.worker = w

\* What a caller does after its INSERT is right for its entry.
CallerOK(i) ==
    /\ i.entry.from = "RUNNING" /\ i.entry.worker # NULL =>
          ClaimWritten(i.job, i.entry.worker, i.entry.epoch)
    /\ i.next = "send" => i.entry.to = "DISPATCHED" /\ i.entry.worker # NULL /\ i.entry.epoch # 0
    /\ i.next = "check" => Charge(i.entry) /\ i.entry.epoch # 0

\* No one has written the entry of an INSERT, and no one else will.
InsertsOK ==
    \A i \in inserts :
       /\ CallerOK(i)
       /\ i.entry \notin Written(i.job)
       /\ \A k \in inserts : i.job = k.job /\ i.entry = k.entry => i = k

TrailOK ==
    \A j \in Jobs :
       /\ Counted(Written(j), Len(trail[j]))
       /\ \A m, n \in DOMAIN trail[j] : trail[j][m] = trail[j][n] => m = n

SentOK == \A l \in sent : ClaimWritten(l.job, l.worker, l.epoch)

\* An autopsy runs only for a dead job, and the failure that started it is in
\* the trail.
AutopsiesOK ==
    \A a \in autopsies :
       /\ phase[a.job] = "dead"
       /\ \E e \in Written(a.job) : Charge(e) /\ e.epoch = a.epoch

AuditInv ==
    /\ AuditTypeOK /\ LifeOK /\ JobsOK
    /\ InsertsOK /\ TrailOK /\ SentOK /\ AutopsiesOK
    /\ ClaimBeforeVerdict /\ ReportTrue /\ CauseTrue
-------------------------------------------------------------------------------
(***************************************************************************)
(* Adding an entry to those of a job.                                      *)
(***************************************************************************)
LEMMA EntryEpoch == \A e \in Entry : e.epoch \in Nat
<1>1. \A e \in Entry : e.epoch \in 0 .. MaxEpoch
  BY Zenon DEF Entry
<1> QED BY <1>1, AuditAssumption

LEMMA CountedMore ==
    ASSUME NEW S, NEW x, NEW n \in Nat, Counted(S, n), x \notin S
    PROVE  Counted(S \cup {x}, n + 1)
BY FS_AddElement DEF Counted

LEMMA CountedNone == Counted({}, 0)
BY FS_EmptySet DEF Counted

\* The sets that are counted grow with the entry, or stay.
LEMMA Split ==
    ASSUME NEW E, NEW e, e \notin E
    PROVE  /\ Charge(e) => Charges(E \cup {e}) = Charges(E) \cup {e}
           /\ ~Charge(e) => Charges(E \cup {e}) = Charges(E)
           /\ e \notin Charges(E)
           /\ \A s : /\ e.to = s => To(E \cup {e}, s) = To(E, s) \cup {e}
                     /\ e.to # s => To(E \cup {e}, s) = To(E, s)
                     /\ e \notin To(E, s)
<1>1. e \notin Charges(E) /\ \A s : e \notin To(E, s)
  BY DEF Charges, To
<1>2. Charge(e) => Charges(E \cup {e}) = Charges(E) \cup {e}
  BY DEF Charges
<1>3. ~Charge(e) => Charges(E \cup {e}) = Charges(E)
  BY DEF Charges
<1>4. \A s : e.to = s => To(E \cup {e}, s) = To(E, s) \cup {e}
  BY DEF To
<1>5. \A s : e.to # s => To(E \cup {e}, s) = To(E, s)
  BY DEF To
<1> QED BY <1>1, <1>2, <1>3, <1>4, <1>5

\* The counts after a statement on a job that had not ended.
LEMMA CountsAdd ==
    ASSUME NEW ph, NEW ph2, NEW ep \in Nat, NEW ep2, NEW fl \in Nat, NEW fl2,
           NEW E, NEW e, e \notin E, Counts(ph, ep, fl, E),
           ph \notin {"dead", "succeeded"},
           ph2 = "dead" <=> e.to = "DEAD_LETTER",
           ph2 = "succeeded" <=> e.to = "SUCCEEDED",
           ep2 = IF e.to = "DISPATCHED" THEN ep + 1 ELSE ep,
           fl2 = IF Charge(e) THEN fl + 1 ELSE fl
    PROVE  Counts(ph2, ep2, fl2, E \cup {e})
<1>0. 0 \in Nat /\ 0 + 1 = 1 OBVIOUS
<1>s. /\ Charge(e) => Charges(E \cup {e}) = Charges(E) \cup {e}
      /\ ~Charge(e) => Charges(E \cup {e}) = Charges(E)
      /\ e \notin Charges(E)
  BY Split
<1>t. \A s : /\ e.to = s => To(E \cup {e}, s) = To(E, s) \cup {e}
             /\ e.to # s => To(E \cup {e}, s) = To(E, s)
             /\ e \notin To(E, s)
  BY Split
<1>1. Counted(To(E \cup {e}, "DISPATCHED"), ep2)
  <2>1. CASE e.to = "DISPATCHED" BY <2>1, <1>t, CountedMore DEF Counts
  <2>2. CASE e.to # "DISPATCHED" BY <2>2, <1>t DEF Counts
  <2> QED BY <2>1, <2>2
<1>2. Counted(Charges(E \cup {e}), fl2)
  <2>1. CASE Charge(e) BY <2>1, <1>s, CountedMore DEF Counts
  <2>2. CASE ~Charge(e) BY <2>2, <1>s DEF Counts
  <2> QED BY <2>1, <2>2
<1>3. Counted(To(E \cup {e}, "DEAD_LETTER"), IF ph2 = "dead" THEN 1 ELSE 0)
  <2>0. Counted(To(E, "DEAD_LETTER"), 0) BY DEF Counts
  <2>1. CASE e.to = "DEAD_LETTER"
    <3>1. Counted(To(E, "DEAD_LETTER") \cup {e}, 0 + 1)
      BY <2>0, <1>0, <1>t, CountedMore
    <3> QED BY <2>1, <3>1, <1>0, <1>t
  <2>2. CASE e.to # "DEAD_LETTER" BY <2>0, <2>2, <1>t
  <2> QED BY <2>1, <2>2
<1>4. Counted(To(E \cup {e}, "SUCCEEDED"), IF ph2 = "succeeded" THEN 1 ELSE 0)
  <2>0. Counted(To(E, "SUCCEEDED"), 0) BY DEF Counts
  <2>1. CASE e.to = "SUCCEEDED"
    <3>1. Counted(To(E, "SUCCEEDED") \cup {e}, 0 + 1)
      BY <2>0, <1>0, <1>t, CountedMore
    <3> QED BY <2>1, <3>1, <1>0, <1>t
  <2>2. CASE e.to # "SUCCEEDED" BY <2>0, <2>2, <1>t
  <2> QED BY <2>1, <2>2
<1> QED BY <1>1, <1>2, <1>3, <1>4 DEF Counts

\* What the entry of a statement has to be for the job to stay accounted for.
LEMMA EntriesAdd ==
    ASSUME NEW ph, NEW ph2, NEW ep \in Nat, NEW ep2 \in Nat, NEW p, NEW E, NEW e \in Entry,
           EntriesOK(ph, ep, p, E),
           ph \notin {"dead", "succeeded", "cancelled"}, ph2 # "absent", p \in Kinds,
           e.epoch = ep2, ep <= ep2, AttemptOK(e, p),
           e.from = "RUNNING" => ph = "owned" /\ ep2 = ep,
           ph2 = "owned" => e.from # "RUNNING" /\ ep2 = ep + 1,
           e.to = "DEAD_LETTER" => ph2 = "dead" /\ Charge(e),
           e.to = "SUCCEEDED" => ph2 = "succeeded",
           e.to = "CANCELLED" => ph2 = "cancelled"
    PROVE  EntriesOK(ph2, ep2, p, E \cup {e})
<1> DEFINE F == E \cup {e}
<1>0. \A f \in E : f \in Entry /\ f.epoch \in Nat
  BY EntryEpoch DEF EntriesOK
<1>1. F \subseteq Entry BY <1>0
<1>2. \A f \in F : f.epoch <= ep2 /\ AttemptOK(f, p)
  <2>1. \A f \in E : f.epoch <= ep /\ AttemptOK(f, p) BY DEF EntriesOK
  <2>2. \A f \in E : f.epoch <= ep2 BY <1>0, <2>1
  <2>3. e.epoch <= ep2 OBVIOUS
  <2> QED BY <2>1, <2>2, <2>3
<1>3. ph2 = "owned" => \A f \in F : f.from = "RUNNING" => f.epoch # ep2
  BY <1>0 DEF EntriesOK
<1>4. \A f, g \in F : f.from = "RUNNING" /\ g.from = "RUNNING" /\ f.epoch = g.epoch => f = g
  BY DEF EntriesOK
<1>5. \A f \in F : f.to = "DEAD_LETTER" => ph2 = "dead" /\ Charge(f) /\ f.epoch = ep2
  BY DEF EntriesOK
<1>6. \A f \in F : /\ f.to = "SUCCEEDED" => ph2 = "succeeded"
                   /\ f.to = "CANCELLED" => ph2 = "cancelled"
  BY DEF EntriesOK
<1> HIDE DEF F
<1>7. EntriesOK(ph2, ep2, p, F) BY <1>1, <1>2, <1>3, <1>4, <1>5, <1>6 DEF EntriesOK
<1> QED BY <1>7 DEF F

\* Where an entry cannot have been there before.
LEMMA Fresh ==
    ASSUME NEW ph, NEW ep \in Nat, NEW p, NEW E, NEW e, EntriesOK(ph, ep, p, E),
           \/ ph = "absent"
           \/ e.epoch = ep + 1
           \/ ph = "owned" /\ e.from = "RUNNING" /\ e.epoch = ep
           \/ ph # "cancelled" /\ e.to = "CANCELLED"
    PROVE  e \notin E
<1>1. \A f \in E : f.epoch \in Nat
  BY EntryEpoch DEF EntriesOK
<1> QED BY <1>1 DEF EntriesOK
-------------------------------------------------------------------------------
(***************************************************************************)
(* How the steps change what is to be recorded.                            *)
(***************************************************************************)
LEMMA EntryFields ==
    ASSUME NEW e \in Entry
    PROVE  /\ e.from \in {"", "PENDING", "RUNNING"}
           /\ e.to \in {"PENDING", "DISPATCHED", "SUCCEEDED", "DEAD_LETTER", "CANCELLED"}
           /\ e.worker \in Workers \cup {NULL}
           /\ e.reason \in Errors \cup {Note, Lapse}
           /\ e.epoch \in 0 .. MaxEpoch
BY Zenon DEF Entry

LEMMA NewEntry ==
    ASSUME NEW from \in {"", "PENDING", "RUNNING"},
           NEW to \in {"PENDING", "DISPATCHED", "SUCCEEDED", "DEAD_LETTER", "CANCELLED"},
           NEW w \in Workers \cup {NULL},
           NEW why \in Errors \cup {Note, Lapse},
           NEW ep \in 0 .. MaxEpoch
    PROVE  [from |-> from, to |-> to, worker |-> w, reason |-> why, epoch |-> ep] \in Entry
BY Zenon DEF Entry

LEMMA InsertFields ==
    ASSUME NEW i \in Write
    PROVE  i.job \in Jobs /\ i.entry \in Entry /\ i.next \in {"send", "check", "none"}
BY DEF Write

LEMMA Gains ==
    ASSUME NEW X, inserts' = inserts \cup X, UNCHANGED <<trail, lost>>
    PROVE  \A j \in Jobs : /\ Written(j)' = Written(j)
                           /\ Entries(j)' = Entries(j) \cup {x.entry : x \in {y \in X : y.job = j}}
<1>1. \A j \in Jobs : Written(j)' = Written(j) BY DEF Written
<1> QED BY <1>1 DEF Entries

LEMMA Keeps ==
    ASSUME UNCHANGED audit
    PROVE  \A j : Written(j)' = Written(j) /\ Entries(j)' = Entries(j)
BY DEF audit, Written, Entries

\* A written INSERT is one more row of its job, at the end.
LEMMA Append1 ==
    ASSUME AuditTypeOK, NEW i \in inserts,
           trail' = [trail EXCEPT ![i.job] = Append(@, i.entry)]
    PROVE  /\ \A j \in Jobs : j # i.job => trail'[j] = trail[j] /\ Written(j)' = Written(j)
           /\ LET t == trail[i.job]
                  u == trail'[i.job]
              IN  /\ t \in Seq(Entry) /\ u \in Seq(Entry) /\ Len(u) = Len(t) + 1
                  /\ DOMAIN t = 1 .. Len(t) /\ DOMAIN u = 1 .. Len(t) + 1
                  /\ u[Len(t) + 1] = i.entry
                  /\ \A n \in DOMAIN t : u[n] = t[n]
           /\ Written(i.job)' = Written(i.job) \cup {i.entry}
<1> DEFINE t == trail[i.job]
           u == trail'[i.job]
<1>0. i.job \in Jobs /\ i.entry \in Entry
  BY InsertFields DEF AuditTypeOK
<1>1. t \in Seq(Entry) /\ trail \in [Jobs -> Seq(Entry)] BY <1>0 DEF AuditTypeOK
<1>2. u = Append(t, i.entry) BY <1>0, <1>1
<1>3. /\ u \in Seq(Entry) /\ Len(u) = Len(t) + 1
      /\ DOMAIN t = 1 .. Len(t) /\ DOMAIN u = 1 .. Len(t) + 1
      /\ u[Len(t) + 1] = i.entry
      /\ \A n \in DOMAIN t : u[n] = t[n]
  BY <1>0, <1>1, <1>2
<1>4. \A j \in Jobs : j # i.job => trail'[j] = trail[j] BY <1>1
<1>5. \A j \in Jobs : j # i.job => Written(j)' = Written(j) BY <1>4 DEF Written
<1>6. Written(i.job)' = {u[n] : n \in DOMAIN u} /\ Written(i.job) = {t[n] : n \in DOMAIN t}
  BY DEF Written
<1>7. Len(t) \in Nat BY <1>1
<1>8. {u[n] : n \in DOMAIN u} = {t[n] : n \in DOMAIN t} \cup {i.entry}
  <2> HIDE DEF t, u
  <2> DEFINE T == DOMAIN t
             m == Len(t) + 1
  <2>1. DOMAIN u = T \cup {m} /\ u[m] = i.entry /\ \A n \in T : u[n] = t[n]
    BY <1>3, <1>7
  <2> HIDE DEF T, m
  <2> QED BY <2>1, Zenon DEF T
<1> QED BY <1>1, <1>3, <1>4, <1>5, <1>6, <1>8

\* Writing an entry, or losing it, adds none.
LEMMA Moves ==
    ASSUME AuditTypeOK, NEW i \in inserts, inserts' = inserts \ {i},
           \/ trail' = [trail EXCEPT ![i.job] = Append(@, i.entry)] /\ lost' = lost
           \/ trail' = trail /\ lost' = lost \cup {i}
    PROVE  \A j \in Jobs : Entries(j)' = Entries(j)
<1> SUFFICES ASSUME NEW j \in Jobs PROVE Entries(j)' = Entries(j) OBVIOUS
<1> DEFINE Of(I) == {x.entry : x \in {y \in I : y.job = j}}
<1>1. Entries(j) = Written(j) \cup Of(inserts \cup lost) BY DEF Entries
<1>2. Entries(j)' = Written(j)' \cup Of(inserts' \cup lost') BY DEF Entries
<1>3. CASE trail' = trail /\ lost' = lost \cup {i}
  <2>1. Written(j)' = Written(j) BY <1>3 DEF Written
  <2>2. inserts' \cup lost' = inserts \cup lost BY <1>3
  <2> QED BY <1>1, <1>2, <2>1, <2>2
<1>4. CASE trail' = [trail EXCEPT ![i.job] = Append(@, i.entry)] /\ lost' = lost
  <2>1. CASE j = i.job
    <3>1. Written(j)' = Written(j) \cup {i.entry} BY <1>4, <2>1, Append1
    <3>2. Of(inserts \cup lost) \subseteq Of(inserts' \cup lost') \cup {i.entry}
      BY <1>4
    <3>3. Of(inserts' \cup lost') \subseteq Of(inserts \cup lost) BY <1>4
    <3>4. i.entry \in Of(inserts \cup lost) BY <2>1
    <3> HIDE DEF Of
    <3> QED BY <1>1, <1>2, <3>1, <3>2, <3>3, <3>4
  <2>2. CASE j # i.job
    <3>1. Written(j)' = Written(j) BY <1>4, <2>2, Append1
    <3>2. Of(inserts \cup lost) = Of(inserts' \cup lost') BY <1>4, <2>2
    <3> HIDE DEF Of
    <3> QED BY <1>1, <1>2, <3>1, <3>2
  <2> QED BY <2>1, <2>2
<1> QED BY <1>3, <1>4
-------------------------------------------------------------------------------
(***************************************************************************)
(* Statements on jobs.                                                     *)
(***************************************************************************)
\* As long as the trail stays, and the dead stay as they are, what was read from
\* the trail stays true.
LEMMA TrailStays ==
    ASSUME AuditInv, UNCHANGED <<trail, after>>, sent' \subseteq sent,
           \A j \in Jobs : phase[j] = "dead" =>
              /\ phase'[j] = "dead" /\ epoch'[j] = epoch[j]
              /\ failures'[j] = failures[j] /\ payload'[j] = payload[j]
    PROVE  /\ TrailOK' /\ SentOK' /\ AutopsiesOK'
           /\ ClaimBeforeVerdict' /\ ReportTrue' /\ CauseTrue'
<1>0. \A j : Written(j)' = Written(j) BY DEF Written
<1>1. TrailOK' BY <1>0 DEF TrailOK, AuditInv
<1>2. \A j, w, ep : ClaimWritten(j, w, ep)' = ClaimWritten(j, w, ep)
  BY <1>0 DEF ClaimWritten
<1>3. SentOK' BY <1>2 DEF SentOK, AuditInv
<1>4. AutopsiesOK'
  <2>1. \A a \in autopsies : a.job \in Jobs BY DEF AuditInv, AuditTypeOK, Autopsy
  <2> QED BY <1>0, <2>1 DEF AutopsiesOK, AuditInv, after
<1>5. ClaimBeforeVerdict' BY DEF ClaimBeforeVerdict, AuditInv
<1>6. /\ reports' = reports
      /\ \A r \in reports : /\ r.job \in Jobs /\ phase[r.job] = "dead"
                            /\ phase'[r.job] = phase[r.job]
                            /\ failures'[r.job] = failures[r.job]
                            /\ epoch'[r.job] = epoch[r.job]
                            /\ payload'[r.job] = payload[r.job]
  <2>1. \A r \in reports : r.job \in Jobs /\ phase[r.job] = "dead"
    BY Zenon DEF AuditInv, AuditTypeOK, Report, ReportTrue
  <2> QED BY <2>1 DEF after
<1>7. ReportTrue' BY <1>6 DEF ReportTrue, AuditInv
<1>8. CauseTrue' BY <1>6 DEF CauseTrue, AuditInv
<1> QED BY <1>1, <1>3, <1>4, <1>5, <1>7, <1>8

\* One statement, on the jobs of X: none of them is dead, and each is accounted
\* for with its new entry.
LEMMA Statement ==
    ASSUME AuditInv, NEW X \in SUBSET Write,
           inserts' = inserts \cup X, UNCHANGED <<trail, lost, after>>, sent' \subseteq sent,
           payload' \in [Jobs -> Kinds \cup {NULL}], LifeOK',
           \A x, y \in X : x.job = y.job => x = y,
           \A j \in Jobs : (\A x \in X : x.job # j) =>
              /\ phase'[j] = phase[j] /\ epoch'[j] = epoch[j]
              /\ failures'[j] = failures[j] /\ payload'[j] = payload[j],
           \A x \in X :
              /\ phase[x.job] # "dead"
              /\ x.entry \notin Entries(x.job)
              /\ CallerOK(x)
              /\ EntriesOK(phase'[x.job], epoch'[x.job], payload'[x.job],
                           Entries(x.job) \cup {x.entry})
              /\ Counts(phase'[x.job], epoch'[x.job], failures'[x.job],
                        Entries(x.job) \cup {x.entry})
    PROVE  AuditInv'
<1>1. \A x \in X : x.job \in Jobs /\ x.entry \in Entry
  BY InsertFields
<1>2. AuditTypeOK'
  <2>1. UNCHANGED <<trail, lost, autopsies, reports>> BY DEF after
  <2>2. inserts' \subseteq Write BY DEF AuditInv, AuditTypeOK
  <2>3. sent' \subseteq Lease BY DEF AuditInv, AuditTypeOK
  <2> QED BY <2>1, <2>2, <2>3 DEF AuditInv, AuditTypeOK
<1>3. JobsOK'
  <2> SUFFICES ASSUME NEW j \in Jobs
               PROVE  /\ EntriesOK(phase'[j], epoch'[j], payload'[j], Entries(j)')
                      /\ Counts(phase'[j], epoch'[j], failures'[j], Entries(j)')
    BY DEF JobsOK
  <2>0. Entries(j)' = Entries(j) \cup {x.entry : x \in {y \in X : y.job = j}}
    BY Gains
  <2>1. CASE \A x \in X : x.job # j
    <3>1. {y \in X : y.job = j} = {} BY <2>1
    <3>2. Entries(j)' = Entries(j) BY <2>0, <3>1
    <3> QED BY <2>1, <3>2 DEF AuditInv, JobsOK
  <2>2. ASSUME NEW x \in X, x.job = j
        PROVE  /\ EntriesOK(phase'[j], epoch'[j], payload'[j], Entries(j)')
               /\ Counts(phase'[j], epoch'[j], failures'[j], Entries(j)')
    <3>1. {y \in X : y.job = j} = {x} BY <2>2
    <3>2. Entries(j)' = Entries(j) \cup {x.entry} BY <2>0, <3>1
    <3> QED BY <2>2, <3>2
  <2> QED BY <2>1, <2>2
<1>4. InsertsOK'
  <2>1. \A j \in Jobs : Written(j)' = Written(j) BY Gains
  <2>2. \A i \in inserts' : i.job \in Jobs
    BY <1>1, InsertFields DEF AuditInv, AuditTypeOK
  <2>3. \A i \in inserts' : CallerOK(i)' = CallerOK(i)
    BY <2>1, <2>2 DEF CallerOK, ClaimWritten
  <2>4. \A i \in inserts : i.entry \in Entries(i.job)
    BY DEF Entries
  <2>5. \A j : Written(j) \subseteq Entries(j) BY DEF Entries
  <2>6. \A i \in inserts' : CallerOK(i) BY DEF AuditInv, InsertsOK
  <2>7. \A i \in inserts' : i.entry \notin Written(i.job)
    BY <2>5 DEF AuditInv, InsertsOK
  <2>8. \A i, k \in inserts' : i.job = k.job /\ i.entry = k.entry => i = k
    BY <2>4 DEF AuditInv, InsertsOK
  <2> QED BY <2>1, <2>2, <2>3, <2>6, <2>7, <2>8 DEF InsertsOK
<1>5. \A j \in Jobs : phase[j] = "dead" =>
         /\ phase'[j] = "dead" /\ epoch'[j] = epoch[j]
         /\ failures'[j] = failures[j] /\ payload'[j] = payload[j]
  <2>1. \A j \in Jobs : phase[j] = "dead" => \A x \in X : x.job # j OBVIOUS
  <2> QED BY <2>1
<1>6. /\ TrailOK' /\ SentOK' /\ AutopsiesOK'
      /\ ClaimBeforeVerdict' /\ ReportTrue' /\ CauseTrue'
  BY <1>5, TrailStays
<1> QED BY <1>2, <1>3, <1>4, <1>6 DEF AuditInv

\* A statement on one job, by its entry e: which counter it moves, which state it
\* leads to, and why it is new.
LEMMA OneStatement ==
    ASSUME AuditInv, NEW j \in Jobs, NEW x \in Write, x.job = j,
           inserts' = inserts \cup {x}, UNCHANGED <<trail, lost, after>>, sent' \subseteq sent,
           payload' \in [Jobs -> Kinds \cup {NULL}], LifeOK',
           \A k \in Jobs : k # j =>
              /\ phase'[k] = phase[k] /\ epoch'[k] = epoch[k]
              /\ failures'[k] = failures[k] /\ payload'[k] = payload[k],
           CallerOK(x),
           phase[j] \notin {"dead", "succeeded", "cancelled"}, phase'[j] # "absent",
           payload'[j] \in Kinds,
           phase[j] = "absent" \/ payload'[j] = payload[j],
           NEW e, e = x.entry, AttemptOK(e, payload'[j]),
           e.epoch = epoch'[j],
           epoch'[j] = IF e.to = "DISPATCHED" THEN epoch[j] + 1 ELSE epoch[j],
           failures'[j] = IF Charge(e) THEN failures[j] + 1 ELSE failures[j],
           e.from = "RUNNING" => phase[j] = "owned" /\ e.to # "DISPATCHED",
           phase'[j] = "owned" => e.to = "DISPATCHED" /\ e.from # "RUNNING",
           phase'[j] = "dead" <=> e.to = "DEAD_LETTER",
           e.to = "DEAD_LETTER" => Charge(e),
           phase'[j] = "succeeded" <=> e.to = "SUCCEEDED",
           e.to = "CANCELLED" => phase'[j] = "cancelled",
           \/ phase[j] = "absent" \/ e.to = "DISPATCHED"
           \/ e.from = "RUNNING" \/ e.to = "CANCELLED"
    PROVE  AuditInv'
<1> DEFINE E == Entries(j)
<1>1. e \in Entry BY InsertFields
<1>2. /\ epoch[j] \in Nat /\ epoch'[j] \in Nat
      /\ failures[j] \in Nat
  BY AuditAssumption DEF AuditInv, LifeOK
<1>3. /\ EntriesOK(phase[j], epoch[j], payload[j], E)
      /\ Counts(phase[j], epoch[j], failures[j], E)
  BY DEF AuditInv, JobsOK
<1>4. EntriesOK(phase[j], epoch[j], payload'[j], E)
  <2>1. CASE phase[j] = "absent" BY <1>3, <2>1 DEF EntriesOK
  <2>2. CASE payload'[j] = payload[j] BY <1>3, <2>2
  <2> QED BY <2>1, <2>2
<1> HIDE DEF E
<1>5. e \notin E
  BY <1>2, <1>4, Fresh
<1>6. EntriesOK(phase'[j], epoch'[j], payload'[j], E \cup {e})
  <2>1. epoch[j] <= epoch'[j] BY <1>2
  <2> QED BY <1>1, <1>2, <1>4, <2>1, EntriesAdd
<1>7. Counts(phase'[j], epoch'[j], failures'[j], E \cup {e})
  BY <1>2, <1>3, <1>5, CountsAdd
<1> DEFINE X == {x}
<1>8. /\ X \in SUBSET Write /\ inserts' = inserts \cup X
      /\ \A y, z \in X : y.job = z.job => y = z
      /\ \A k \in Jobs : (\A y \in X : y.job # k) =>
            /\ phase'[k] = phase[k] /\ epoch'[k] = epoch[k]
            /\ failures'[k] = failures[k] /\ payload'[k] = payload[k]
  OBVIOUS
<1>9. \A y \in X :
         /\ phase[y.job] # "dead"
         /\ y.entry \notin Entries(y.job)
         /\ CallerOK(y)
         /\ EntriesOK(phase'[y.job], epoch'[y.job], payload'[y.job],
                      Entries(y.job) \cup {y.entry})
         /\ Counts(phase'[y.job], epoch'[y.job], failures'[y.job],
                   Entries(y.job) \cup {y.entry})
  BY <1>5, <1>6, <1>7 DEF E
<1> HIDE DEF X
<1> QED BY <1>8, <1>9, Statement
-------------------------------------------------------------------------------
(***************************************************************************)
(* The operations, one by one.                                             *)
(***************************************************************************)
\* The INSERT that Records adds.
Insert(j, fr, st, w, why, go, ep) ==
    [job |-> j, next |-> go,
     entry |-> [from |-> fr, to |-> st, worker |-> w, reason |-> why, epoch |-> ep]]

IsInsert(x, j, fr, st, w, why, go, ep) ==
    /\ x \in Write /\ x.job = j /\ x.next = go /\ x.entry \in Entry
    /\ x.entry.from = fr /\ x.entry.to = st /\ x.entry.worker = w
    /\ x.entry.reason = why /\ x.entry.epoch = ep

LEMMA NewInsert ==
    ASSUME NEW j \in Jobs, NEW fr \in {"", "PENDING", "RUNNING"},
           NEW st \in {"PENDING", "DISPATCHED", "SUCCEEDED", "DEAD_LETTER", "CANCELLED"},
           NEW w \in Workers \cup {NULL}, NEW why \in Errors \cup {Note, Lapse},
           NEW go \in {"send", "check", "none"}, NEW ep \in 0 .. MaxEpoch
    PROVE  IsInsert(Insert(j, fr, st, w, why, go, ep), j, fr, st, w, why, go, ep)
<1>1. PICK e : e = [from |-> fr, to |-> st, worker |-> w, reason |-> why, epoch |-> ep]
  OBVIOUS
<1>2. e \in Entry BY <1>1, NewEntry
<1>3. e.from = fr /\ e.to = st /\ e.worker = w /\ e.reason = why /\ e.epoch = ep
  BY <1>1
<1>4. PICK x : x = [job |-> j, next |-> go, entry |-> e] OBVIOUS
<1>5. x = Insert(j, fr, st, w, why, go, ep) BY <1>1, <1>4 DEF Insert
<1>6. x \in Write /\ x.job = j /\ x.next = go /\ x.entry = e
  BY <1>2, <1>4 DEF Write
<1> QED BY <1>2, <1>3, <1>5, <1>6 DEF IsInsert

LEMMA CreateStep ==
    ASSUME AuditInv, NEW j \in Jobs, NEW m \in Budgets, NEW p \in Kinds, CreateJob(j, m, p)
    PROVE  AuditInv'
<1>0. LifeOK BY DEF AuditInv
<1>1. PICK x : x = Insert(j, "", "PENDING", NULL, Note, "none", epoch[j]) OBVIOUS
<1>2. epoch[j] \in 0 .. MaxEpoch /\ failures[j] \in Nat BY <1>0 DEF LifeOK
<1>3. /\ x \in Write /\ x.job = j /\ x.next = "none" /\ x.entry \in Entry
      /\ x.entry.from = "" /\ x.entry.to = "PENDING" /\ x.entry.worker = NULL
      /\ x.entry.reason = Note /\ x.entry.epoch = epoch[j]
  <2>1. IsInsert(x, j, "", "PENDING", NULL, Note, "none", epoch[j])
    BY <1>1, <1>2, NewInsert
  <2> QED BY <2>1 DEF IsInsert
<1>4. /\ phase[j] = "absent" /\ phase' = [phase EXCEPT ![j] = "queued"]
      /\ UNCHANGED <<owner, epoch, failures>>
      /\ payload' = [payload EXCEPT ![j] = p]
      /\ UNCHANGED <<trail, lost, sent, after>>
  BY DEF CreateJob, Submit
<1>5. inserts' = inserts \cup {x}
  BY <1>1, <1>4 DEF CreateJob, Records, Insert
<1>6. LifeOK' BY <1>0, <1>4 DEF LifeOK, Phases
<1>7. /\ payload' \in [Jobs -> Kinds \cup {NULL}] /\ payload'[j] = p
      /\ phase'[j] = "queued"
      /\ \A k \in Jobs : k # j => phase'[k] = phase[k] /\ payload'[k] = payload[k]
  BY <1>0, <1>4 DEF AuditInv, AuditTypeOK, LifeOK
<1>8. CallerOK(x) /\ AttemptOK(x.entry, p) /\ ~Charge(x.entry)
  BY <1>3 DEF CallerOK, AttemptOK, IsAttempt, Charge
<1> QED BY <1>3, <1>4, <1>5, <1>6, <1>7, <1>8, OneStatement

LEMMA ClaimStep ==
    ASSUME AuditInv, NEW j \in Jobs, NEW w \in Workers, ClaimNextJob(j, w)
    PROVE  AuditInv'
<1>0. LifeOK BY DEF AuditInv
<1>1. PICK x : x = Insert(j, "PENDING", "DISPATCHED", w, Note, "send", epoch[j] + 1) OBVIOUS
<1>2. /\ epoch[j] \in 0 .. MaxEpoch /\ epoch[j] + 1 \in 0 .. MaxEpoch /\ epoch[j] + 1 # 0
      /\ failures[j] \in Nat
  BY <1>0, AuditAssumption DEF LifeOK, ClaimNextJob
<1>3. /\ x \in Write /\ x.job = j /\ x.next = "send" /\ x.entry \in Entry
      /\ x.entry.from = "PENDING" /\ x.entry.to = "DISPATCHED" /\ x.entry.worker = w
      /\ x.entry.reason = Note /\ x.entry.epoch = epoch[j] + 1
  <2>1. IsInsert(x, j, "PENDING", "DISPATCHED", w, Note, "send", epoch[j] + 1)
    BY <1>1, <1>2, NewInsert
  <2> QED BY <2>1 DEF IsInsert
<1>4. /\ phase[j] = "queued" /\ phase' = [phase EXCEPT ![j] = "owned"]
      /\ owner' = [owner EXCEPT ![j] = w]
      /\ epoch' = [epoch EXCEPT ![j] = @ + 1]
      /\ UNCHANGED <<failures, payload, trail, lost, sent, after>>
  BY DEF ClaimNextJob, Grant
<1>5. /\ epoch'[j] = epoch[j] + 1 /\ phase'[j] = "owned"
      /\ \A k \in Jobs : k # j => phase'[k] = phase[k] /\ epoch'[k] = epoch[k]
  BY <1>0, <1>4 DEF LifeOK
<1>6. inserts' = inserts \cup {x}
  BY <1>1, <1>5 DEF ClaimNextJob, Records, Insert
<1>7. LifeOK' BY <1>0, <1>2, <1>4 DEF LifeOK, Phases
<1>8. payload' \in [Jobs -> Kinds \cup {NULL}] /\ payload'[j] \in Kinds
  BY <1>4 DEF AuditInv, AuditTypeOK, JobsOK, EntriesOK
<1>9. CallerOK(x) /\ AttemptOK(x.entry, payload[j]) /\ ~Charge(x.entry)
  BY <1>2, <1>3, AuditAssumption DEF CallerOK, AttemptOK, IsAttempt, Charge
<1> QED BY <1>3, <1>4, <1>5, <1>6, <1>7, <1>8, <1>9, OneStatement

LEMMA CancelStep ==
    ASSUME AuditInv, NEW j \in Jobs, CancelJob(j)
    PROVE  AuditInv'
<1>0. LifeOK BY DEF AuditInv
<1>1. PICK x : x = Insert(j, "", "CANCELLED", NULL, Note, "none", epoch[j]) OBVIOUS
<1>2. epoch[j] \in 0 .. MaxEpoch /\ failures[j] \in Nat BY <1>0 DEF LifeOK
<1>3. /\ x \in Write /\ x.job = j /\ x.next = "none" /\ x.entry \in Entry
      /\ x.entry.from = "" /\ x.entry.to = "CANCELLED" /\ x.entry.worker = NULL
      /\ x.entry.reason = Note /\ x.entry.epoch = epoch[j]
  <2>1. IsInsert(x, j, "", "CANCELLED", NULL, Note, "none", epoch[j])
    BY <1>1, <1>2, NewInsert
  <2> QED BY <2>1 DEF IsInsert
<1>4. /\ phase[j] \in {"queued", "owned"} /\ phase' = [phase EXCEPT ![j] = "cancelled"]
      /\ owner' = [owner EXCEPT ![j] = NULL]
      /\ UNCHANGED <<epoch, failures, payload, trail, lost, sent, after>>
  BY DEF CancelJob, Cancel
<1>5. inserts' = inserts \cup {x}
  BY <1>1, <1>4 DEF CancelJob, Records, Insert
<1>6. LifeOK' BY <1>0, <1>4 DEF LifeOK, Phases
<1>7. /\ payload' \in [Jobs -> Kinds \cup {NULL}] /\ payload'[j] \in Kinds
      /\ phase'[j] = "cancelled"
      /\ \A k \in Jobs : k # j => phase'[k] = phase[k]
  BY <1>0, <1>4 DEF AuditInv, AuditTypeOK, LifeOK, JobsOK, EntriesOK
<1>8. CallerOK(x) /\ AttemptOK(x.entry, payload[j]) /\ ~Charge(x.entry)
  BY <1>3 DEF CallerOK, AttemptOK, IsAttempt, Charge
<1> QED BY <1>3, <1>4, <1>5, <1>6, <1>7, <1>8, OneStatement

\* A lease that its worker was given: the claim is in the trail.
LEMMA SentLease ==
    ASSUME AuditInv, NEW l \in sent
    PROVE  /\ l.job \in Jobs /\ l.worker \in Workers /\ l.epoch \in 1 .. MaxEpoch
           /\ ClaimWritten(l.job, l.worker, l.epoch)
BY DEF AuditInv, AuditTypeOK, SentOK, Lease

LEMMA CompleteStep ==
    ASSUME AuditInv, NEW l \in sent, Held(l), CompleteJob(l), sent' = sent \ {l},
           UNCHANGED <<payload, trail, lost, after>>
    PROVE  AuditInv'
<1> DEFINE j == l.job
           w == l.worker
<1>0. LifeOK BY DEF AuditInv
<1>a. j \in Jobs /\ w \in Workers /\ l.epoch \in 1 .. MaxEpoch /\ ClaimWritten(j, w, epoch[j])
  BY SentLease DEF Held
<1> HIDE DEF j, w
<1>1. PICK x : x = Insert(j, "RUNNING", "SUCCEEDED", w, Note, "none", epoch[j]) OBVIOUS
<1>2. epoch[j] \in 0 .. MaxEpoch /\ failures[j] \in Nat BY <1>0, <1>a DEF LifeOK
<1>3. /\ x \in Write /\ x.job = j /\ x.next = "none" /\ x.entry \in Entry
      /\ x.entry.from = "RUNNING" /\ x.entry.to = "SUCCEEDED" /\ x.entry.worker = w
      /\ x.entry.reason = Note /\ x.entry.epoch = epoch[j]
  <2>1. IsInsert(x, j, "RUNNING", "SUCCEEDED", w, Note, "none", epoch[j])
    BY <1>1, <1>2, <1>a, NewInsert
  <2> QED BY <2>1 DEF IsInsert
<1>4. /\ phase[j] = "owned" /\ phase' = [phase EXCEPT ![j] = "succeeded"]
      /\ owner' = [owner EXCEPT ![j] = NULL]
      /\ UNCHANGED <<epoch, failures>>
  BY DEF CompleteJob, Succeed, j
<1>5. inserts' = inserts \cup {x}
  BY <1>1, <1>4 DEF CompleteJob, Records, Insert, j, w
<1>6. LifeOK' BY <1>0, <1>4 DEF LifeOK, Phases
<1>7. /\ payload' \in [Jobs -> Kinds \cup {NULL}] /\ payload'[j] \in Kinds
      /\ phase'[j] = "succeeded"
      /\ \A k \in Jobs : k # j => phase'[k] = phase[k]
  BY <1>0, <1>4, <1>a DEF AuditInv, AuditTypeOK, LifeOK, JobsOK, EntriesOK
<1>8. CallerOK(x) /\ AttemptOK(x.entry, payload[j]) /\ ~Charge(x.entry)
  BY <1>3, <1>a DEF CallerOK, AttemptOK, IsAttempt, Charge
<1>9. sent' \subseteq sent OBVIOUS
<1> QED BY <1>3, <1>4, <1>5, <1>6, <1>7, <1>8, <1>9, <1>a, OneStatement

LEMMA FailStep ==
    ASSUME AuditInv, NEW l \in sent, Held(l), sent' = sent \ {l},
           NEW outcome \in executePayload(payload[l.job]) \ {Panic}, outcome # OK,
           FailJob(l, outcome), UNCHANGED <<payload, trail, lost, after>>
    PROVE  AuditInv'
<1> DEFINE j == l.job
           w == l.worker
<1>0. LifeOK BY DEF AuditInv
<1>a. j \in Jobs /\ w \in Workers /\ l.epoch \in 1 .. MaxEpoch /\ l.epoch = epoch[j]
      /\ ClaimWritten(j, w, epoch[j])
  BY SentLease DEF Held
<1>b. outcome \in Reported(payload[j]) BY DEF Reported
<1> HIDE DEF j, w
<1>c. PICK st : st = IF phase'[j] = "dead" THEN "DEAD_LETTER" ELSE "PENDING" OBVIOUS
<1>1. PICK x : x = Insert(j, "RUNNING", st, w, outcome, "check", epoch[j]) OBVIOUS
<1>2. epoch[j] \in 0 .. MaxEpoch /\ failures[j] \in Nat BY <1>0, <1>a DEF LifeOK
<1>4. /\ phase[j] = "owned"
      /\ failures' = [failures EXCEPT ![j] = @ + 1]
      /\ phase' = [phase EXCEPT ![j] = IF failures[j] + 1 >= budget[j] THEN "dead" ELSE "queued"]
      /\ owner' = [owner EXCEPT ![j] = NULL]
      /\ UNCHANGED epoch
  BY DEF FailJob, FailAttempt, j
<1>7. /\ payload' \in [Jobs -> Kinds \cup {NULL}] /\ payload'[j] \in Kinds
      /\ phase'[j] \in {"dead", "queued"}
      /\ failures'[j] = failures[j] + 1
      /\ \A k \in Jobs : k # j => phase'[k] = phase[k] /\ failures'[k] = failures[k]
  <2>1. payload' \in [Jobs -> Kinds \cup {NULL}] /\ payload'[j] \in Kinds
    BY <1>4, <1>a DEF AuditInv, AuditTypeOK, JobsOK, EntriesOK
  <2>2. PICK d \in {"dead", "queued"} : phase' = [phase EXCEPT ![j] = d]
    BY <1>4
  <2> QED BY <2>1, <2>2, <1>0, <1>4, <1>a DEF LifeOK
<1>d. outcome \in Errors
  <2>1. payload[j] \in Payloads BY <1>7, AuditAssumption
  <2> QED BY <1>b, <2>1 DEF Errors, Reported
<1>3. /\ x \in Write /\ x.job = j /\ x.next = "check" /\ x.entry \in Entry
      /\ x.entry.from = "RUNNING" /\ x.entry.to = st /\ x.entry.worker = w
      /\ x.entry.reason = outcome /\ x.entry.epoch = epoch[j]
  <2>1. st \in {"PENDING", "DISPATCHED", "SUCCEEDED", "DEAD_LETTER", "CANCELLED"}
    BY <1>c
  <2>2. IsInsert(x, j, "RUNNING", st, w, outcome, "check", epoch[j])
    BY <1>1, <1>2, <1>a, <1>d, <2>1, NewInsert
  <2> QED BY <2>2 DEF IsInsert
<1>5. inserts' = inserts \cup {x}
  BY <1>1, <1>4, <1>c DEF FailJob, Records, Insert, j, w
<1>6. LifeOK'
  <2>1. PICK d \in {"dead", "queued"} : phase' = [phase EXCEPT ![j] = d] BY <1>4
  <2>2. phase' \in [Jobs -> Phases] BY <1>0, <2>1 DEF LifeOK, Phases
  <2>3. failures' \in [Jobs -> Nat]
    <3>1. failures[j] + 1 \in Nat BY <1>2
    <3>2. PICK n \in Nat : failures' = [failures EXCEPT ![j] = n] BY <1>4, <3>1
    <3>3. failures \in [Jobs -> Nat] BY <1>0 DEF LifeOK
    <3> QED BY <3>2, <3>3
  <2>4. owner' = [owner EXCEPT ![j] = NULL] /\ epoch' = epoch BY <1>4
  <2> QED BY <1>0, <2>2, <2>3, <2>4 DEF LifeOK
<1>8. CallerOK(x) /\ AttemptOK(x.entry, payload[j]) /\ Charge(x.entry)
  <2>1. w # NULL /\ epoch[j] # 0 BY <1>a, AuditAssumption
  <2>2. Charge(x.entry) BY <1>3, <1>c, <2>1 DEF Charge
  <2>3. AttemptOK(x.entry, payload[j]) BY <1>3, <1>b, <2>1 DEF AttemptOK
  <2> QED BY <1>3, <1>a, <2>1, <2>2, <2>3 DEF CallerOK
<1>9. sent' \subseteq sent OBVIOUS
<1>e. /\ phase'[j] = "dead" <=> x.entry.to = "DEAD_LETTER"
      /\ x.entry.to \in {"DEAD_LETTER", "PENDING"}
  BY <1>3, <1>c
<1> QED BY <1>2, <1>3, <1>4, <1>5, <1>6, <1>7, <1>8, <1>9, <1>a, <1>e, OneStatement

\* A sweep ends every lease in S, free of charge.
LEMMA ReclaimStep ==
    ASSUME AuditInv, NEW S \in SUBSET Jobs, ReclaimExpiredJobs(S)
    PROVE  AuditInv'
<1>0. LifeOK BY DEF AuditInv
<1> DEFINE In(j) == Insert(j, "RUNNING", "PENDING", NULL, Lapse, "none", epoch[j])
           X == {In(j) : j \in S}
<1>1. /\ \A j \in S : phase[j] = "owned"
      /\ phase' = [j \in Jobs |-> IF j \in S THEN "queued" ELSE phase[j]]
      /\ owner' = [j \in Jobs |-> IF j \in S THEN NULL ELSE owner[j]]
      /\ UNCHANGED <<epoch, failures, payload, trail, lost, sent, after>>
      /\ inserts' = inserts \cup X
  BY DEF ReclaimExpiredJobs, Release, Insert
<1>2. ASSUME NEW j \in S
      PROVE  /\ In(j) \in Write /\ In(j).job = j /\ In(j).next = "none" /\ In(j).entry \in Entry
             /\ In(j).entry.from = "RUNNING" /\ In(j).entry.to = "PENDING"
             /\ In(j).entry.worker = NULL
             /\ In(j).entry.reason = Lapse /\ In(j).entry.epoch = epoch[j]
  <2>1. j \in Jobs /\ epoch[j] \in 0 .. MaxEpoch BY <1>0, <1>2 DEF LifeOK
  <2>2. IsInsert(In(j), j, "RUNNING", "PENDING", NULL, Lapse, "none", epoch[j])
    BY <2>1, NewInsert
  <2> QED BY <2>2 DEF IsInsert
<1> HIDE DEF In
<1>3. LifeOK'
  <2>1. phase' \in [Jobs -> Phases] BY <1>0, <1>1 DEF LifeOK, Phases
  <2>2. owner' \in [Jobs -> Workers \cup {NULL}] BY <1>0, <1>1 DEF LifeOK
  <2> QED BY <1>0, <1>1, <2>1, <2>2 DEF LifeOK
<1>4. ASSUME NEW j \in S
      PROVE  /\ phase[j] # "dead" /\ In(j).entry \notin Entries(j) /\ CallerOK(In(j))
             /\ EntriesOK(phase'[j], epoch'[j], payload'[j], Entries(j) \cup {In(j).entry})
             /\ Counts(phase'[j], epoch'[j], failures'[j], Entries(j) \cup {In(j).entry})
  <2> DEFINE E == Entries(j)
             e == In(j).entry
  <2>1. /\ EntriesOK(phase[j], epoch[j], payload[j], E)
        /\ Counts(phase[j], epoch[j], failures[j], E)
    BY <1>4 DEF AuditInv, JobsOK
  <2>2. epoch[j] \in Nat /\ failures[j] \in Nat /\ j \in Jobs BY <1>0, <1>4 DEF LifeOK
  <2>3. /\ e \in Entry /\ e.from = "RUNNING" /\ e.to = "PENDING" /\ e.worker = NULL
        /\ e.reason = Lapse /\ e.epoch = epoch[j]
    BY <1>2, <1>4
  <2>4. phase[j] = "owned" /\ phase'[j] = "queued" BY <1>1, <1>4, <2>2
  <2>5. CallerOK(In(j)) BY <1>2, <1>4 DEF CallerOK
  <2> HIDE DEF E, e
  <2>6. e \notin E BY <2>1, <2>2, <2>3, <2>4, Fresh
  <2>7. payload[j] \in Kinds BY <2>1, <2>4 DEF EntriesOK
  <2>8. AttemptOK(e, payload[j]) /\ ~Charge(e) BY <2>3 DEF AttemptOK, Charge
  <2>9. epoch[j] <= epoch[j] BY <2>2
  <2>10. EntriesOK("queued", epoch[j], payload[j], E \cup {e})
    BY <2>1, <2>2, <2>3, <2>4, <2>7, <2>8, <2>9, EntriesAdd
  <2>11. Counts("queued", epoch[j], failures[j], E \cup {e})
    BY <2>1, <2>2, <2>3, <2>4, <2>6, <2>8, CountsAdd
  <2> QED BY <1>1, <2>4, <2>5, <2>6, <2>10, <2>11 DEF E, e
<1>5. X \in SUBSET Write /\ \A x, y \in X : x.job = y.job => x = y
  BY <1>2
<1>6. \A j \in Jobs : (\A x \in X : x.job # j) =>
         /\ phase'[j] = phase[j] /\ epoch'[j] = epoch[j]
         /\ failures'[j] = failures[j] /\ payload'[j] = payload[j]
  BY <1>1, <1>2
<1>7. \A x \in X :
         /\ phase[x.job] # "dead"
         /\ x.entry \notin Entries(x.job)
         /\ CallerOK(x)
         /\ EntriesOK(phase'[x.job], epoch'[x.job], payload'[x.job],
                      Entries(x.job) \cup {x.entry})
         /\ Counts(phase'[x.job], epoch'[x.job], failures'[x.job],
                   Entries(x.job) \cup {x.entry})
  <2> SUFFICES ASSUME NEW j \in S
               PROVE  LET x == In(j) IN
                      /\ phase[x.job] # "dead"
                      /\ x.entry \notin Entries(x.job)
                      /\ CallerOK(x)
                      /\ EntriesOK(phase'[x.job], epoch'[x.job], payload'[x.job],
                                   Entries(x.job) \cup {x.entry})
                      /\ Counts(phase'[x.job], epoch'[x.job], failures'[x.job],
                                Entries(x.job) \cup {x.entry})
    OBVIOUS
  <2>1. In(j).job = j BY <1>2
  <2> QED BY <1>4, <2>1
<1>8. payload' \in [Jobs -> Kinds \cup {NULL}] BY <1>1 DEF AuditInv, AuditTypeOK
<1> HIDE DEF X
<1> QED BY <1>1, <1>3, <1>5, <1>6, <1>7, <1>8, Statement

(***************************************************************************)
(* What happens to an INSERT.                                              *)
(***************************************************************************)
\* Neither of its ends changes the job or what there is to record.
LEMMA JobsKept ==
    ASSUME AuditInv, UNCHANGED <<vars, payload>>, \A j \in Jobs : Entries(j)' = Entries(j)
    PROVE  LifeOK' /\ JobsOK'
<1>1. LifeOK' BY DEF AuditInv, LifeOK, vars
<1>2. JobsOK' BY DEF AuditInv, JobsOK, vars
<1> QED BY <1>1, <1>2

LEMMA RecordFailsStep ==
    ASSUME AuditInv, NEW i \in inserts, RecordFails(i)
    PROVE  AuditInv'
<1>1. /\ inserts' = inserts \ {i} /\ lost' = lost \cup {i}
      /\ UNCHANGED <<vars, payload, trail, sent, after>>
  BY DEF RecordFails
<1>2. LifeOK' /\ JobsOK'
  <2>1. \A j \in Jobs : Entries(j)' = Entries(j) BY <1>1, Moves DEF AuditInv
  <2> QED BY <1>1, <2>1, JobsKept
<1>3. AuditTypeOK' BY <1>1 DEF AuditInv, AuditTypeOK, after
<1>4. InsertsOK'
  <2>1. \A j : Written(j)' = Written(j) BY <1>1 DEF Written
  <2>2. \A k \in inserts' : CallerOK(k)' = CallerOK(k)
    BY <2>1 DEF CallerOK, ClaimWritten
  <2> QED BY <1>1, <2>1, <2>2 DEF AuditInv, InsertsOK
<1>5. /\ TrailOK' /\ SentOK' /\ AutopsiesOK'
      /\ ClaimBeforeVerdict' /\ ReportTrue' /\ CauseTrue'
  BY <1>1, TrailStays DEF vars
<1> QED BY <1>2, <1>3, <1>4, <1>5 DEF AuditInv

\* The trail only grows.
LEMMA WrittenGrows ==
    ASSUME AuditInv, NEW i \in inserts,
           trail' = [trail EXCEPT ![i.job] = Append(@, i.entry)]
    PROVE  /\ i.entry \in Written(i.job)'
           /\ \A j \in Jobs : Written(j) \subseteq Written(j)'
           /\ \A j \in Jobs : \A w, ep : ClaimWritten(j, w, ep) => ClaimWritten(j, w, ep)'
<1>1. /\ \A j \in Jobs : j # i.job => Written(j)' = Written(j)
      /\ Written(i.job)' = Written(i.job) \cup {i.entry}
  BY Append1 DEF AuditInv
<1>2. \A j \in Jobs : Written(j) \subseteq Written(j)' BY <1>1
<1> QED BY <1>1, <1>2 DEF ClaimWritten

LEMMA RecordTrail ==
    ASSUME AuditInv, NEW i \in inserts, recordTransition(i)
    PROVE  TrailOK' /\ ClaimBeforeVerdict'
<1>1. trail' = [trail EXCEPT ![i.job] = Append(@, i.entry)] BY DEF recordTransition
<1>2. i.job \in Jobs /\ i.entry \in Entry
  BY InsertFields DEF AuditInv, AuditTypeOK
<1> DEFINE j == i.job
           t == trail[j]
           u == trail'[j]
           m == Len(t) + 1
<1>3. /\ \A k \in Jobs : k # j => trail'[k] = trail[k] /\ Written(k)' = Written(k)
      /\ t \in Seq(Entry) /\ u \in Seq(Entry) /\ Len(u) = m
      /\ DOMAIN t = 1 .. Len(t) /\ DOMAIN u = 1 .. m
      /\ u[m] = i.entry
      /\ \A n \in DOMAIN t : u[n] = t[n]
      /\ Written(j)' = Written(j) \cup {i.entry}
  BY <1>1, Append1 DEF AuditInv
<1>4. Len(t) \in Nat /\ DOMAIN u = DOMAIN t \cup {m} /\ m \notin DOMAIN t
  BY <1>3
<1>5. i.entry \notin Written(j) BY DEF AuditInv, InsertsOK
<1>6. /\ Counted(Written(j), Len(t))
      /\ \A n, k \in DOMAIN t : t[n] = t[k] => n = k
  BY <1>2 DEF AuditInv, TrailOK
<1>7. \A n \in DOMAIN t : t[n] # i.entry BY <1>5 DEF Written
<1>8. TrailOK'
  <2>1. Counted(Written(j)', Len(u)) BY <1>3, <1>4, <1>5, <1>6, CountedMore
  <2>2. \A n, k \in DOMAIN u : u[n] = u[k] => n = k
    <3> HIDE DEF t, u, m
    <3> QED BY <1>3, <1>4, <1>6, <1>7
  <2>3. \A k \in Jobs : k # j =>
           /\ Counted(Written(k)', Len(trail'[k]))
           /\ \A a, b \in DOMAIN trail'[k] : trail'[k][a] = trail'[k][b] => a = b
    BY <1>3 DEF AuditInv, TrailOK
  <2> QED BY <2>1, <2>2, <2>3 DEF TrailOK
<1>9. ClaimBeforeVerdict'
  <2>1. \A k \in Jobs : k # j => \A n \in DOMAIN trail'[k] :
           trail'[k][n].from = "RUNNING" /\ trail'[k][n].worker # NULL =>
              \E c \in 1 .. n - 1 : /\ trail'[k][c].to = "DISPATCHED"
                                    /\ trail'[k][c].epoch = trail'[k][n].epoch
                                    /\ trail'[k][c].worker = trail'[k][n].worker
    BY <1>3 DEF AuditInv, ClaimBeforeVerdict
  <2>2. ASSUME NEW n \in DOMAIN u, u[n].from = "RUNNING", u[n].worker # NULL
        PROVE  \E c \in 1 .. n - 1 : /\ u[c].to = "DISPATCHED" /\ u[c].epoch = u[n].epoch
                                     /\ u[c].worker = u[n].worker
    <3>1. CASE n \in DOMAIN t
      <4>1. u[n] = t[n] BY <1>3, <3>1
      <4>2. PICK c \in 1 .. n - 1 : /\ t[c].to = "DISPATCHED" /\ t[c].epoch = t[n].epoch
                                    /\ t[c].worker = t[n].worker
        BY <1>2, <2>2, <3>1, <4>1 DEF AuditInv, ClaimBeforeVerdict
      <4>3. c \in DOMAIN t BY <1>3, <1>4, <3>1
      <4>4. u[c] = t[c] BY <1>3, <4>3
      <4> QED BY <4>1, <4>2, <4>4
    <3>2. CASE n = m
      <4>1. u[n] = i.entry BY <1>3, <3>2
      <4>2. ClaimWritten(j, u[n].worker, u[n].epoch)
        BY <2>2, <4>1 DEF AuditInv, InsertsOK, CallerOK
      <4>3. PICK c \in DOMAIN t : /\ t[c].to = "DISPATCHED" /\ t[c].epoch = u[n].epoch
                                  /\ t[c].worker = u[n].worker
        BY <4>2 DEF ClaimWritten, Written
      <4>4. c \in 1 .. n - 1 /\ u[c] = t[c] BY <1>3, <1>4, <3>2
      <4> QED BY <4>3, <4>4
    <3> QED BY <1>4, <2>2, <3>1, <3>2
  <2> QED BY <2>1, <2>2 DEF ClaimBeforeVerdict
<1> QED BY <1>8, <1>9

LEMMA RecordStep ==
    ASSUME AuditInv, NEW i \in inserts, recordTransition(i)
    PROVE  AuditInv'
<1>1. /\ inserts' = inserts \ {i}
      /\ trail' = [trail EXCEPT ![i.job] = Append(@, i.entry)]
      /\ dispatchPendingJobs(i) /\ CheckDead(i)
      /\ UNCHANGED <<vars, payload, lost, reports>>
  BY DEF recordTransition
<1>2. i.job \in Jobs /\ i.entry \in Entry
  BY InsertFields DEF AuditInv, AuditTypeOK
<1>3. CallerOK(i) BY DEF AuditInv, InsertsOK
<1>4. /\ i.entry \in Written(i.job)'
      /\ \A j \in Jobs : Written(j) \subseteq Written(j)'
      /\ \A j \in Jobs : \A w, ep : ClaimWritten(j, w, ep) => ClaimWritten(j, w, ep)'
  BY <1>1, WrittenGrows
<1>5. LifeOK' /\ JobsOK'
  <2>1. \A j \in Jobs : Entries(j)' = Entries(j) BY <1>1, Moves DEF AuditInv
  <2> QED BY <1>1, <2>1, JobsKept
<1>6. sent' \subseteq Lease /\ SentOK'
  <2>0. sent \subseteq Lease /\ \A l \in sent : ClaimWritten(l.job, l.worker, l.epoch)'
    <3>1. \A l \in sent : l.job \in Jobs BY SentLease
    <3> QED BY <1>4, <3>1 DEF AuditInv, AuditTypeOK, SentOK
  <2>1. CASE i.next # "send"
    BY <1>1, <2>0, <2>1 DEF dispatchPendingJobs, SentOK
  <2>2. CASE i.next = "send"
    <3>1. PICK l : l = [job |-> i.job, worker |-> i.entry.worker, epoch |-> i.entry.epoch]
      OBVIOUS
    <3>2. sent' = sent \cup {l} BY <1>1, <2>2, <3>1 DEF dispatchPendingJobs
    <3>3. i.entry.worker \in Workers /\ i.entry.epoch \in 1 .. MaxEpoch
      <4>1. /\ i.entry.worker \in Workers \cup {NULL} /\ i.entry.epoch \in 0 .. MaxEpoch
            /\ i.entry.worker # NULL /\ i.entry.epoch # 0
        BY <1>2, <1>3, <2>2, EntryFields DEF CallerOK
      <4> QED BY <4>1, AuditAssumption
    <3>4. l \in Lease BY <1>2, <3>1, <3>3 DEF Lease
    <3>5. ClaimWritten(l.job, l.worker, l.epoch)'
      BY <1>3, <1>4, <2>2, <3>1 DEF ClaimWritten, CallerOK
    <3> QED BY <2>0, <3>2, <3>4, <3>5 DEF SentOK
  <2> QED BY <2>1, <2>2
<1>7. autopsies' \subseteq Autopsy /\ AutopsiesOK'
  <2> DEFINE Good(a) == /\ phase[a.job] = "dead"
                        /\ \E e \in Written(a.job)' : Charge(e) /\ e.epoch = a.epoch
  <2>0. autopsies \subseteq Autopsy /\ \A a \in autopsies : Good(a)
    <3>1. \A a \in autopsies : a.job \in Jobs BY DEF AuditInv, AuditTypeOK, Autopsy
    <3> QED BY <1>4, <3>1 DEF AuditInv, AuditTypeOK, AutopsiesOK
  <2>1. CASE ~(i.next = "check" /\ phase[i.job] = "dead")
    BY <1>1, <2>0, <2>1 DEF CheckDead, AutopsiesOK, vars
  <2>2. CASE i.next = "check" /\ phase[i.job] = "dead"
    <3>1. PICK a : a = [job |-> i.job, epoch |-> i.entry.epoch] OBVIOUS
    <3>2. autopsies' = autopsies \cup {a} BY <1>1, <2>2, <3>1 DEF CheckDead
    <3>3. i.entry.epoch \in 1 .. MaxEpoch
      <4>1. i.entry.epoch \in 0 .. MaxEpoch /\ i.entry.epoch # 0
        BY <1>2, <1>3, <2>2, EntryFields DEF CallerOK
      <4> QED BY <4>1, AuditAssumption
    <3>4. a \in Autopsy BY <1>2, <3>1, <3>3 DEF Autopsy
    <3>5. Good(a) BY <1>3, <1>4, <2>2, <3>1 DEF CallerOK
    <3> QED BY <1>1, <2>0, <3>2, <3>4, <3>5 DEF AutopsiesOK, vars
  <2> QED BY <2>1, <2>2
<1>8. AuditTypeOK'
  <2>1. trail' \in [Jobs -> Seq(Entry)]
    <3>1. trail \in [Jobs -> Seq(Entry)] BY DEF AuditInv, AuditTypeOK
    <3>2. Append(trail[i.job], i.entry) \in Seq(Entry) BY <1>2, <3>1
    <3> QED BY <1>1, <3>1, <3>2
  <2>2. inserts' \subseteq Write BY <1>1 DEF AuditInv, AuditTypeOK
  <2> QED BY <1>1, <1>6, <1>7, <2>1, <2>2 DEF AuditInv, AuditTypeOK
<1>9. InsertsOK'
  <2> SUFFICES ASSUME NEW k \in inserts'
               PROVE  /\ CallerOK(k)' /\ k.entry \notin Written(k.job)'
                      /\ \A n \in inserts' : k.job = n.job /\ k.entry = n.entry => k = n
    BY DEF InsertsOK
  <2>1. k \in inserts /\ k # i /\ k.job \in Jobs
    BY <1>1, InsertFields DEF AuditInv, AuditTypeOK
  <2>2. CallerOK(k)' BY <1>4, <2>1 DEF AuditInv, InsertsOK, CallerOK
  <2>3. k.entry \notin Written(k.job)'
    <3>1. /\ \A j \in Jobs : j # i.job => Written(j)' = Written(j)
          /\ Written(i.job)' = Written(i.job) \cup {i.entry}
      BY <1>1, Append1 DEF AuditInv
    <3>2. k.entry \notin Written(k.job) /\ (k.job = i.job => k.entry # i.entry)
      BY <2>1 DEF AuditInv, InsertsOK
    <3> QED BY <2>1, <3>1, <3>2
  <2> QED BY <1>1, <2>1, <2>2, <2>3 DEF AuditInv, InsertsOK
<1>10. TrailOK' /\ ClaimBeforeVerdict' BY RecordTrail
<1>11. ReportTrue' /\ CauseTrue' BY <1>1 DEF AuditInv, ReportTrue, CauseTrue, vars
<1> QED BY <1>5, <1>6, <1>7, <1>8, <1>9, <1>10, <1>11 DEF AuditInv
-------------------------------------------------------------------------------
(***************************************************************************)
(* What an autopsy reads.                                                  *)
(***************************************************************************)
\* The errors that the worker words itself, by payload.
LEMMA ErrorPhrases ==
    ASSUME NEW p \in Payloads, NEW r \in Reported(p)
    PROVE  /\ p \notin {"sleep", "blank command"}
           /\ p = "rejected command" => r[2] = {"rejected"}
           /\ p \in {"misnamed command", "slow sleep"} => "timeout" \in r[2]
           /\ p = "malformed" => r = <<"json", {}>>
<1>0. r \in executePayload(p) /\ r # OK BY DEF Reported
<1>1. CASE p \in Commands
  <2>1. r \in executeShell(p)
    BY <1>0, <1>1 DEF executePayload, Commands, Requests, Sleeps
  <2>2. CASE p = "rejected command"
    <3>1. validateCommand(p) = <<"validate", {"rejected"}>> BY <2>2 DEF validateCommand
    <3>2. r = <<"validate", {"rejected"}>> BY <2>1, <3>1 DEF executeShell, OK
    <3> QED BY <2>2, <3>2
  <2>3. CASE p = "misnamed command"
    <3>1. validateCommand(p) = <<"validate", {"rejected", "timeout"}>>
      BY <2>3 DEF validateCommand
    <3>2. r = <<"validate", {"rejected", "timeout"}>> BY <2>1, <3>1 DEF executeShell, OK
    <3> QED BY <2>3, <3>2
  <2>4. CASE p = "blank command"
    <3>1. validateCommand(p) = Panic BY <2>4 DEF validateCommand
    <3>2. Panic # OK BY DEF Panic, OK
    <3>3. r = Panic BY <2>1, <3>1, <3>2 DEF executeShell
    <3> QED BY <3>3 DEF Reported
  <2>5. CASE p \in {"command", "slow command"}
    BY <2>5
  <2> QED BY <1>1, <2>2, <2>3, <2>4, <2>5 DEF Commands
<1>2. CASE p \in Requests
  BY <1>2 DEF Requests
<1>3. CASE p \in Sleeps
  <2>1. r \in executeSleep(p)
    BY <1>0, <1>3 DEF executePayload, Commands, Requests, Sleeps
  <2>2. p = "slow sleep"
    <3>1. p # "slow sleep" => r = OK BY <2>1 DEF executeSleep
    <3> QED BY <1>0, <3>1
  <2>3. r = <<"sleep", {"timeout"}>> BY <2>1, <2>2 DEF executeSleep
  <2> QED BY <2>2, <2>3
<1>4. CASE p = "malformed"
  <2>1. r \in {<<"json", {}>>}
    BY <1>0, <1>4 DEF executePayload, Commands, Requests, Sleeps
  <2> QED BY <1>4, <2>1
<1>5. CASE p \in {"fail", "unlisted"}
  BY <1>5
<1> QED BY <1>1, <1>2, <1>3, <1>4, <1>5 DEF Payloads

LEMMA LapsePhrases == Lapse[2] = {}
BY DEF Lapse

\* The cause, if every attempt is one that the payload p can have.
LEMMA CauseOf ==
    ASSUME NEW A, NEW p \in Kinds, DOMAIN A # {},
           \A n \in DOMAIN A : IsAttempt(A[n]) /\ AttemptOK(A[n], p),
           NEW r, r.attempts = A, r.cause = classifyCause(A)
    PROVE  CauseFits(r, p)
<1>0. p \in Payloads BY AuditAssumption
<1>1. ASSUME \A n \in DOMAIN A : A[n].worker # NULL
      PROVE  /\ p \notin {"sleep", "blank command"}
             /\ p = "rejected command" => r.cause = "rejected"
             /\ p \in {"misnamed command", "slow sleep"} => r.cause = "timeout"
             /\ p = "malformed" => r.cause = "persistent"
  <2>1. \A n \in DOMAIN A : A[n].reason \in Reported(p) BY <1>1 DEF AttemptOK
  <2>2. p \notin {"sleep", "blank command"} BY <1>0, <2>1, ErrorPhrases
  <2>3. p = "rejected command" => /\ ~AllSay(A, "timeout") /\ ~AllSay(A, "connection")
                                  /\ AllSay(A, "rejected")
    <3>1. p = "rejected command" => \A n \in DOMAIN A : A[n].reason[2] = {"rejected"}
      BY <1>0, <2>1, ErrorPhrases
    <3> QED BY <3>1 DEF AllSay
  <2>4. p \in {"misnamed command", "slow sleep"} => AllSay(A, "timeout")
    BY <1>0, <2>1, ErrorPhrases DEF AllSay
  <2>5. p = "malformed" => /\ ~AllSay(A, "timeout") /\ ~AllSay(A, "connection")
                           /\ ~AllSay(A, "rejected") /\ AllSame(A)
    <3>1. ASSUME p = "malformed", NEW n \in DOMAIN A
          PROVE  A[n].reason = <<"json", {}>> /\ A[n].reason[2] = {}
      <4>1. A[n].reason = <<"json", {}>> BY <1>0, <2>1, <3>1, ErrorPhrases
      <4> QED BY <4>1
    <3> QED BY <3>1 DEF AllSay, AllSame
  <2> QED BY <2>2, <2>3, <2>4, <2>5 DEF classifyCause
<1>2. ASSUME NEW n \in DOMAIN A, A[n].worker = NULL
      PROVE  r.cause \in {"persistent", "intermittent"}
  <2>1. A[n].reason[2] = {} BY <1>2, LapsePhrases DEF AttemptOK
  <2>2. ~AllSay(A, "timeout") /\ ~AllSay(A, "connection") /\ ~AllSay(A, "rejected")
    BY <1>2, <2>1 DEF AllSay
  <2>3. ~OneWorker(A) BY <1>2 DEF OneWorker
  <2> QED BY <2>2, <2>3 DEF classifyCause
<1> QED BY <1>1, <1>2 DEF CauseFits

\* The attempts are rows of the trail, within the limit, and failures of the job.
LEMMA AttemptsOf ==
    ASSUME AuditInv, NEW j \in Jobs
    PROVE  LET A == Attempts(j)
               t == trail[j]
           IN  /\ t \in Seq(Entry) /\ DOMAIN t = 1 .. Len(t) /\ Len(t) \in Nat
               /\ DOMAIN A = {n \in DOMAIN t : n <= Limit /\ IsAttempt(t[n])}
               /\ \A n \in DOMAIN A : /\ A[n] = t[n] /\ A[n] \in Written(j)
                                      /\ A[n] \in Entries(j) /\ A[n] \in Entry
                                      /\ IsAttempt(A[n]) /\ AttemptOK(A[n], payload[j])
               /\ DOMAIN A \subseteq 1 .. Limit
               /\ A \in [DOMAIN A -> Entry]
<1> DEFINE A == Attempts(j)
           t == trail[j]
           D == {n \in DOMAIN t : n <= Limit /\ IsAttempt(t[n])}
<1>1. t \in Seq(Entry) /\ DOMAIN t = 1 .. Len(t) /\ Len(t) \in Nat
  BY DEF AuditInv, AuditTypeOK
<1>2. A = [n \in D |-> t[n]]
  <2>1. {n \in Transitions(j) : IsAttempt(trail[j][n])} = D BY DEF Transitions
  <2> QED BY <2>1 DEF Attempts
<1>3. DOMAIN A = D BY <1>2
<1>4. ASSUME NEW n \in D
      PROVE  /\ A[n] = t[n] /\ A[n] \in Written(j) /\ A[n] \in Entries(j)
             /\ A[n] \in Entry /\ IsAttempt(A[n]) /\ AttemptOK(A[n], payload[j])
  <2>1. A[n] = t[n] /\ n \in DOMAIN t /\ IsAttempt(t[n]) BY <1>2, <1>4
  <2>2. t[n] \in Written(j) BY <2>1 DEF Written
  <2>3. t[n] \in Entries(j) BY <2>2 DEF Entries
  <2>4. AttemptOK(t[n], payload[j]) /\ t[n] \in Entry
    BY <2>3 DEF AuditInv, JobsOK, EntriesOK
  <2> QED BY <2>1, <2>2, <2>3, <2>4
<1>5. D \subseteq 1 .. Limit BY <1>1, AuditAssumption
<1> HIDE DEF D
<1>6. A \in [D -> Entry] BY <1>2, <1>4
<1> QED BY <1>1, <1>3, <1>4, <1>5, <1>6 DEF D

\* A report does not list more failures than the job had: no row is there twice.
LEMMA ChargesBound ==
    ASSUME AuditInv, NEW j \in Jobs
    PROVE  LET A == Attempts(j)
           IN  Cardinality({n \in DOMAIN A : Charge(A[n])}) <= failures[j]
<1>1. PICK A : A = Attempts(j) OBVIOUS
<1>2. /\ DOMAIN A \subseteq DOMAIN trail[j]
      /\ \A n \in DOMAIN A : A[n] = trail[j][n] /\ A[n] \in Entries(j)
  BY <1>1, AttemptsOf
<1> DEFINE C == {n \in DOMAIN A : Charge(A[n])}
           T == Charges(Entries(j))
           f == [n \in C |-> A[n]]
<1>3. IsFiniteSet(T) /\ Cardinality(T) = failures[j]
  BY DEF AuditInv, JobsOK, Counts, Counted
<1>4. f \in [C -> T] BY <1>2 DEF Charges
<1>5. \A m, n \in C : f[m] = f[n] => m = n
  <2>1. \A m, n \in DOMAIN trail[j] : trail[j][m] = trail[j][n] => m = n
    BY DEF AuditInv, TrailOK
  <2> QED BY <1>2, <2>1
<1> HIDE DEF C, T, f
<1>6. f \in Injection(C, T) BY <1>4, <1>5 DEF Injection, IsInjective
<1>7. Cardinality(C) <= Cardinality(T) BY <1>3, <1>6, FS_Injection
<1> QED BY <1>1, <1>3, <1>7 DEF C

\* The failure that started an autopsy is among the attempts, unless it is cut
\* off; if it was the last lease's, it is the death.
LEMMA Started ==
    ASSUME AuditInv, NEW a \in autopsies, ~(Len(trail[a.job]) > Limit)
    PROVE  LET A == Attempts(a.job)
           IN  \E n \in DOMAIN A : a.epoch = epoch[a.job] => A[n].to = "DEAD_LETTER"
<1> DEFINE j == a.job
           t == trail[j]
<1>1. j \in Jobs BY DEF AuditInv, AuditTypeOK, Autopsy
<1>2. PICK e \in Written(j) : Charge(e) /\ e.epoch = a.epoch
  BY DEF AuditInv, AutopsiesOK
<1>3. PICK n \in DOMAIN t : e = t[n] BY DEF Written
<1>4. IsAttempt(e) BY <1>2 DEF Charge, IsAttempt
<1>5. /\ DOMAIN t = 1 .. Len(t) /\ Len(t) \in Nat
      /\ DOMAIN Attempts(j) = {k \in DOMAIN t : k <= Limit /\ IsAttempt(t[k])}
      /\ \A k \in DOMAIN Attempts(j) : Attempts(j)[k] = t[k]
  BY <1>1, AttemptsOf
<1>6. n <= Limit BY <1>5, AuditAssumption
<1>7. n \in DOMAIN Attempts(j) /\ Attempts(j)[n] = e BY <1>3, <1>4, <1>5, <1>6
<1>8. a.epoch = epoch[j] => e.to = "DEAD_LETTER"
  <2>1. phase[j] = "dead" BY DEF AuditInv, AutopsiesOK
  <2>2. /\ EntriesOK(phase[j], epoch[j], payload[j], Entries(j))
        /\ Counts(phase[j], epoch[j], failures[j], Entries(j))
    BY <1>1 DEF AuditInv, JobsOK
  <2>3. Cardinality(To(Entries(j), "DEAD_LETTER")) = 1 BY <2>1, <2>2 DEF Counts, Counted
  <2>4. To(Entries(j), "DEAD_LETTER") # {}
    <3>1. Cardinality({}) = 0 BY CountedNone DEF Counted
    <3>2. 1 # 0 OBVIOUS
    <3> QED BY <2>3, <3>1, <3>2, Zenon
  <2>5. PICK d \in Entries(j) : d.to = "DEAD_LETTER" BY <2>4 DEF To
  <2>6. Charge(d) /\ d.epoch = epoch[j] BY <2>2, <2>5 DEF EntriesOK
  <2>7. e \in Entries(j) BY <1>2 DEF Entries
  <2>8. a.epoch = epoch[j] => e = d
    BY <1>2, <2>2, <2>6, <2>7 DEF EntriesOK, Charge
  <2> QED BY <2>5, <2>8
<1> HIDE DEF j, t
<1> QED BY <1>7, <1>8 DEF j

LEMMA AutopsyStep ==
    ASSUME AuditInv, NEW a \in autopsies, GenerateAutopsy(a)
    PROVE  AuditInv'
<1> DEFINE j == a.job
           A == Attempts(j)
<1>1. PICK r : r = [job |-> j, epoch |-> a.epoch, total |-> failures[j],
                    attempts |-> A, cut |-> Len(trail[j]) > Limit, cause |-> classifyCause(A)]
  OBVIOUS
<1>2. /\ autopsies' = autopsies \ {a} /\ reports' = reports \cup {r}
      /\ UNCHANGED <<vars, payload, audit, sent>>
  BY <1>1 DEF GenerateAutopsy
<1>3. j \in Jobs /\ a.epoch \in 1 .. MaxEpoch /\ phase[j] = "dead"
  BY DEF AuditInv, AuditTypeOK, Autopsy, AutopsiesOK
<1>4. /\ DOMAIN A \subseteq 1 .. Limit /\ A \in [DOMAIN A -> Entry]
      /\ \A n \in DOMAIN A : IsAttempt(A[n]) /\ AttemptOK(A[n], payload[j])
  BY <1>3, AttemptsOf
<1>5. Cardinality({n \in DOMAIN A : Charge(A[n])}) <= failures[j] BY <1>3, ChargesBound
<1>6. ~(Len(trail[j]) > Limit) =>
         \E n \in DOMAIN A : a.epoch = epoch[j] => A[n].to = "DEAD_LETTER"
  BY Started
<1>7. payload[j] \in Kinds BY <1>3 DEF AuditInv, JobsOK, EntriesOK
<1>8. classifyCause(A) \in {"unknown", "timeout", "connection", "rejected", "persistent",
                            "worker", "intermittent"}
  BY DEF classifyCause
<1>9. DOMAIN A # {} => classifyCause(A) # "unknown" BY DEF classifyCause
<1>10. failures[j] \in Nat BY <1>3 DEF AuditInv, LifeOK
<1>11. PICK cut \in BOOLEAN : cut = (Len(trail[j]) > Limit)
  <2>1. Len(trail[j]) \in Nat /\ Limit \in Nat BY <1>3, AttemptsOf, AuditAssumption
  <2>2. (Len(trail[j]) > Limit) \in BOOLEAN BY <2>1
  <2> QED BY <2>2
<1> HIDE DEF j, A
<1>12. /\ r.job = j /\ r.epoch = a.epoch /\ r.total = failures[j] /\ r.attempts = A
       /\ r.cut = cut /\ r.cause = classifyCause(A)
  BY <1>1, <1>11
<1>13. r \in Report(DOMAIN A)
  <2>1. r = [job |-> j, epoch |-> a.epoch, total |-> failures[j],
             attempts |-> A, cut |-> cut, cause |-> classifyCause(A)]
    BY <1>1, <1>11
  <2> QED BY <1>3, <1>4, <1>8, <1>10, <2>1, Zenon DEF Report
<1>14. AuditTypeOK'
  <2>1. \A q \in reports' : DOMAIN q.attempts \subseteq 1 .. Limit /\ q \in Report(DOMAIN q.attempts)
    BY <1>2, <1>4, <1>12, <1>13 DEF AuditInv, AuditTypeOK
  <2>2. autopsies' \subseteq Autopsy BY <1>2 DEF AuditInv, AuditTypeOK
  <2> QED BY <1>2, <2>1, <2>2 DEF AuditInv, AuditTypeOK, audit
<1>15. LifeOK' /\ JobsOK'
  <2>1. \A k \in Jobs : Entries(k)' = Entries(k) BY <1>2, Keeps
  <2> QED BY <1>2, <2>1, JobsKept
<1>16. InsertsOK' /\ TrailOK' /\ SentOK' /\ ClaimBeforeVerdict'
  <2>1. \A k : Written(k)' = Written(k) BY <1>2, Keeps
  <2>2. \A i : CallerOK(i)' = CallerOK(i) BY <2>1 DEF CallerOK, ClaimWritten
  <2>3. InsertsOK' BY <1>2, <2>1, <2>2 DEF AuditInv, InsertsOK, audit
  <2>4. TrailOK' BY <1>2, <2>1 DEF AuditInv, TrailOK, audit
  <2>5. SentOK' BY <1>2, <2>1 DEF AuditInv, SentOK, ClaimWritten
  <2>6. ClaimBeforeVerdict' BY <1>2 DEF AuditInv, ClaimBeforeVerdict, audit
  <2> QED BY <2>3, <2>4, <2>5, <2>6
<1>17. AutopsiesOK'
  <2>1. \A k : Written(k)' = Written(k) BY <1>2, Keeps
  <2> QED BY <1>2, <2>1 DEF AuditInv, AutopsiesOK, vars
<1>18. ReportTrue'
  <2>1. /\ phase[r.job] = "dead" /\ r.total = failures[r.job]
        /\ Cardinality({n \in DOMAIN r.attempts : Charge(r.attempts[n])}) <= r.total
        /\ r.epoch = epoch[r.job] /\ ~r.cut =>
              \E n \in DOMAIN r.attempts : r.attempts[n].to = "DEAD_LETTER"
        /\ ~r.cut => r.cause # "unknown"
    BY <1>3, <1>5, <1>6, <1>9, <1>11, <1>12
  <2> QED BY <1>2, <2>1 DEF AuditInv, ReportTrue, vars
<1>19. CauseTrue'
  <2>1. DOMAIN A # {} => CauseFits(r, payload[j]) BY <1>4, <1>7, <1>12, CauseOf
  <2> QED BY <1>2, <1>12, <2>1 DEF AuditInv, CauseTrue
<1> QED BY <1>14, <1>15, <1>16, <1>17, <1>18, <1>19 DEF AuditInv

\* A message that is lost, an autopsy that fails, or nothing at all.
LEMMA QuietStep ==
    ASSUME AuditInv, sent' \subseteq sent, autopsies' \subseteq autopsies,
           UNCHANGED <<vars, payload, audit, reports>>
    PROVE  AuditInv'
<1>1. LifeOK' /\ JobsOK'
  <2>1. \A k \in Jobs : Entries(k)' = Entries(k) BY Keeps
  <2> QED BY <2>1, JobsKept
<1>2. AuditTypeOK'
  <2>1. sent' \subseteq Lease /\ autopsies' \subseteq Autopsy BY DEF AuditInv, AuditTypeOK
  <2> QED BY <2>1 DEF AuditInv, AuditTypeOK, audit
<1>3. \A k : Written(k)' = Written(k) BY Keeps
<1>4. \A i : CallerOK(i)' = CallerOK(i) BY <1>3 DEF CallerOK, ClaimWritten
<1>5. InsertsOK' BY <1>3, <1>4 DEF AuditInv, InsertsOK, audit
<1>6. TrailOK' BY <1>3 DEF AuditInv, TrailOK, audit
<1>7. SentOK' BY <1>3 DEF AuditInv, SentOK, ClaimWritten
<1>8. AutopsiesOK' BY <1>3 DEF AuditInv, AutopsiesOK, vars
<1>9. ClaimBeforeVerdict' BY DEF AuditInv, ClaimBeforeVerdict, audit
<1>10. ReportTrue' /\ CauseTrue' BY DEF AuditInv, ReportTrue, CauseTrue, vars
<1> QED BY <1>1, <1>2, <1>5, <1>6, <1>7, <1>8, <1>9, <1>10 DEF AuditInv

\* The worker runs the payload and its result is applied, or refused as stale.
LEMMA RunStep ==
    ASSUME AuditInv, NEW l \in sent, RunJob(l)
    PROVE  AuditInv'
<1>1. PICK outcome \in executePayload(payload[l.job]) \ {Panic} : ReportResult(l, outcome)
  BY DEF RunJob
<1>2. sent' = sent \ {l} /\ UNCHANGED <<payload, trail, lost, after>>
  BY <1>1 DEF ReportResult
<1>3. CASE ~Held(l)
  <2>1. UNCHANGED <<vars, payload, audit, after>> BY <1>1, <1>2, <1>3 DEF ReportResult, audit
  <2>2. sent' \subseteq sent BY <1>2
  <2>3. autopsies' \subseteq autopsies /\ UNCHANGED reports BY <2>1 DEF after
  <2> QED BY <2>1, <2>2, <2>3, QuietStep
<1>4. CASE Held(l) /\ outcome = OK
  <2>1. CompleteJob(l) BY <1>1, <1>4 DEF ReportResult
  <2> QED BY <1>2, <1>4, <2>1, CompleteStep
<1>5. CASE Held(l) /\ outcome # OK
  <2>1. FailJob(l, outcome) BY <1>1, <1>5 DEF ReportResult
  <2> QED BY <1>1, <1>2, <1>5, <2>1, FailStep
<1> QED BY <1>3, <1>4, <1>5

LEMMA AuditStart == AuditInit => AuditInv
<1> SUFFICES ASSUME AuditInit PROVE AuditInv OBVIOUS
<1> USE DEF AuditInit, Init
<1>1. AuditTypeOK
  <2>1. trail \in [Jobs -> Seq(Entry)] OBVIOUS
  <2>2. payload \in [Jobs -> Kinds \cup {NULL}] OBVIOUS
  <2> QED BY <2>1, <2>2 DEF AuditTypeOK
<1>2. LifeOK BY AuditAssumption DEF LifeOK, Phases
<1>a. \A j \in Jobs : trail[j] = <<>> /\ Len(trail[j]) = 0 /\ DOMAIN trail[j] = {}
  <2>1. <<>> \in Seq(Entry) /\ Len(<<>>) = 0 OBVIOUS
  <2>2. \A s \in Seq(Entry) : DOMAIN s = 1 .. Len(s) OBVIOUS
  <2>3. DOMAIN <<>> = 1 .. 0 BY <2>1, <2>2
  <2>4. 1 .. 0 = {} OBVIOUS
  <2>5. DOMAIN <<>> = {} BY <2>3, <2>4, Zenon
  <2> QED BY <2>1, <2>5, Zenon
<1>3. \A j \in Jobs : Written(j) = {} /\ Entries(j) = {}
  <2>1. \A j \in Jobs : DOMAIN trail[j] = {} BY <1>a
  <2>2. \A j \in Jobs : Written(j) = {} BY <2>1 DEF Written
  <2> QED BY <2>2 DEF Entries
<1>4. JobsOK
  <2> SUFFICES ASSUME NEW j \in Jobs
               PROVE  /\ EntriesOK(phase[j], epoch[j], payload[j], Entries(j))
                      /\ Counts(phase[j], epoch[j], failures[j], Entries(j))
    BY DEF JobsOK
  <2>1. phase[j] = "absent" /\ epoch[j] = 0 /\ failures[j] = 0 /\ Entries(j) = {} BY <1>3
  <2>2. EntriesOK("absent", 0, payload[j], {}) BY DEF EntriesOK
  <2>3. Charges({}) = {} /\ \A s : To({}, s) = {} BY DEF Charges, To
  <2>4. Counts("absent", 0, 0, {}) BY <2>3, CountedNone DEF Counts
  <2> QED BY <2>1, <2>2, <2>4
<1>5. TrailOK
  BY <1>a, <1>3, CountedNone DEF TrailOK
<1>6. ClaimBeforeVerdict
  BY <1>a DEF ClaimBeforeVerdict
<1>7. InsertsOK /\ SentOK /\ AutopsiesOK /\ ReportTrue /\ CauseTrue
  BY DEF InsertsOK, SentOK, AutopsiesOK, ReportTrue, CauseTrue
<1> QED BY <1>1, <1>2, <1>4, <1>5, <1>6, <1>7 DEF AuditInv
-------------------------------------------------------------------------------
(***************************************************************************)
(* The theorems.                                                           *)
(***************************************************************************)
\* What is recorded, still to be recorded and lost accounts for every job, and the
\* callers of recordTransition go on only after their row is written.
THEOREM AuditInvariant == AuditSpec => []AuditInv
<1>1. AuditInv /\ [AuditNext]_auditVars => AuditInv'
  <2> SUFFICES ASSUME AuditInv, [AuditNext]_auditVars PROVE AuditInv' OBVIOUS
  <2>1. ASSUME NEW j \in Jobs, NEW m \in Budgets, NEW p \in Kinds, CreateJob(j, m, p)
        PROVE  AuditInv'
    BY <2>1, CreateStep
  <2>2. ASSUME NEW j \in Jobs, NEW w \in Workers, ClaimNextJob(j, w) PROVE AuditInv'
    BY <2>2, ClaimStep
  <2>3. ASSUME NEW j \in Jobs, CancelJob(j) PROVE AuditInv'
    BY <2>3, CancelStep
  <2>4. ASSUME NEW l \in sent, RunJob(l) PROVE AuditInv'
    BY <2>4, RunStep
  <2>5. ASSUME NEW l \in sent, LoseAttempt(l) PROVE AuditInv'
    <3>1. sent' \subseteq sent /\ autopsies' \subseteq autopsies
          /\ UNCHANGED <<vars, payload, audit, reports>>
      BY <2>5 DEF LoseAttempt, after
    <3> QED BY <3>1, QuietStep
  <2>6. ASSUME NEW S \in SUBSET Jobs, ReclaimExpiredJobs(S) PROVE AuditInv'
    BY <2>6, ReclaimStep
  <2>7. ASSUME NEW i \in inserts, recordTransition(i) PROVE AuditInv'
    BY <2>7, RecordStep
  <2>8. ASSUME NEW i \in inserts, RecordFails(i) PROVE AuditInv'
    BY <2>8, RecordFailsStep
  <2>9. ASSUME NEW a \in autopsies, GenerateAutopsy(a) PROVE AuditInv'
    BY <2>9, AutopsyStep
  <2>10. ASSUME NEW a \in autopsies, AutopsyFails(a) PROVE AuditInv'
    <3>1. sent' \subseteq sent /\ autopsies' \subseteq autopsies
          /\ UNCHANGED <<vars, payload, audit, reports>>
      BY <2>10 DEF AutopsyFails
    <3> QED BY <3>1, QuietStep
  <2>11. ASSUME UNCHANGED auditVars PROVE AuditInv'
    <3>1. sent' \subseteq sent /\ autopsies' \subseteq autopsies
          /\ UNCHANGED <<vars, payload, audit, reports>>
      BY <2>11 DEF auditVars, after
    <3> QED BY <3>1, QuietStep
  <2> QED BY <2>1, <2>2, <2>3, <2>4, <2>5, <2>6, <2>7, <2>8, <2>9, <2>10, <2>11 DEF AuditNext
<1> QED BY AuditStart, <1>1, PTL DEF AuditSpec

\* Rows, INSERTs, leases, autopsies and reports have the columns and states the
\* code gives them.
THEOREM AuditTypesOK == AuditSpec => []AuditTypeOK
<1>1. AuditInv => AuditTypeOK BY DEF AuditInv
<1> QED BY <1>1, AuditInvariant, PTL

\* The trail, with what is late and what was lost, accounts for the claims, the
\* failures and the end of every job, and has no row twice.
THEOREM TrailAccountsHolds == AuditSpec => []TrailAccounts
<1>1. AuditInv => TrailAccounts
  <2> SUFFICES ASSUME AuditInv, NEW j \in Jobs
               PROVE  LET all == Entries(j) IN
                 /\ Cardinality(To(all, "DISPATCHED")) = epoch[j]
                 /\ Cardinality(Charges(all)) = failures[j]
                 /\ Cardinality(To(all, "DEAD_LETTER")) = (IF phase[j] = "dead" THEN 1 ELSE 0)
                 /\ Cardinality(To(all, "SUCCEEDED")) = (IF phase[j] = "succeeded" THEN 1 ELSE 0)
                 /\ \A e, f \in all :
                       e.from = "RUNNING" /\ f.from = "RUNNING" /\ e.epoch = f.epoch => e = f
                 /\ Cardinality(Written(j)) = Len(trail[j])
    BY DEF TrailAccounts
  <2>1. Counts(phase[j], epoch[j], failures[j], Entries(j)) BY DEF AuditInv, JobsOK
  <2>2. EntriesOK(phase[j], epoch[j], payload[j], Entries(j)) BY DEF AuditInv, JobsOK
  <2>3. Counted(Written(j), Len(trail[j])) BY DEF AuditInv, TrailOK
  <2>4. \A e, f \in Entries(j) :
           e.from = "RUNNING" /\ f.from = "RUNNING" /\ e.epoch = f.epoch => e = f
    BY <2>2 DEF EntriesOK
  <2> QED BY <2>1, <2>3, <2>4 DEF Counts, Counted
<1> QED BY <1>1, AuditInvariant, PTL

\* In the trail of a job, what a worker did follows its claim.
THEOREM ClaimBeforeVerdictHolds == AuditSpec => []ClaimBeforeVerdict
<1>1. AuditInv => ClaimBeforeVerdict BY DEF AuditInv
<1> QED BY <1>1, AuditInvariant, PTL

\* An autopsy report is about a job that is dead for good, counts its failures
\* right, and shows its death unless the trail was cut.
THEOREM ReportTrueHolds == AuditSpec => []ReportTrue
<1>1. AuditInv => ReportTrue BY DEF AuditInv
<1> QED BY <1>1, AuditInvariant, PTL

\* The probable cause of a report follows from what the payload does, where the
\* worker words the error itself, whatever rows are late or lost and however short
\* the limit.
THEOREM CauseTrueHolds == AuditSpec => []CauseTrue
<1>1. AuditInv => CauseTrue BY DEF AuditInv
<1> QED BY <1>1, AuditInvariant, PTL

\* Every step here is a step of the job's life cycle, the specification that the
\* jobs table implements (JobStore!Lifecycle), or leaves the job alone.
THEOREM AuditFollowsLifecycle == AuditSpec => Spec
<1>1. AuditInit => Init BY DEF AuditInit
<1>2. AuditInv /\ [AuditNext]_auditVars => [Next]_vars
  <2> SUFFICES ASSUME AuditInv, [AuditNext]_auditVars PROVE [Next]_vars OBVIOUS
  <2>1. ASSUME NEW j \in Jobs, NEW m \in Budgets, NEW p \in Kinds, CreateJob(j, m, p)
        PROVE  Next
    BY <2>1 DEF CreateJob, Next
  <2>2. ASSUME NEW j \in Jobs, NEW w \in Workers, ClaimNextJob(j, w) PROVE Next
    BY <2>2 DEF ClaimNextJob, Next
  <2>3. ASSUME NEW j \in Jobs, CancelJob(j) PROVE Next
    BY <2>3 DEF CancelJob, Next
  <2>4. ASSUME NEW l \in sent, RunJob(l) PROVE [Next]_vars
    <3>1. l.job \in Jobs BY <2>4, SentLease
    <3>2. PICK outcome : ReportResult(l, outcome) BY <2>4 DEF RunJob
    <3>3. Succeed(l.job) \/ FailAttempt(l.job) \/ UNCHANGED vars
      BY <3>2 DEF ReportResult, CompleteJob, FailJob
    <3> QED BY <3>1, <3>3 DEF Next
  <2>5. ASSUME NEW l \in sent, LoseAttempt(l) PROVE UNCHANGED vars
    BY <2>5 DEF LoseAttempt
  <2>6. ASSUME NEW S \in SUBSET Jobs, ReclaimExpiredJobs(S) PROVE Next
    BY <2>6 DEF ReclaimExpiredJobs, Next
  <2>7. ASSUME NEW i \in inserts, recordTransition(i) \/ RecordFails(i) PROVE UNCHANGED vars
    BY <2>7 DEF recordTransition, RecordFails
  <2>8. ASSUME NEW a \in autopsies, GenerateAutopsy(a) \/ AutopsyFails(a) PROVE UNCHANGED vars
    BY <2>8 DEF GenerateAutopsy, AutopsyFails
  <2>9. ASSUME UNCHANGED auditVars PROVE UNCHANGED vars
    BY <2>9 DEF auditVars
  <2> QED BY <2>1, <2>2, <2>3, <2>4, <2>5, <2>6, <2>7, <2>8, <2>9 DEF AuditNext
<1> QED BY <1>1, <1>2, AuditInvariant, PTL DEF AuditSpec, Spec
===============================================================================
