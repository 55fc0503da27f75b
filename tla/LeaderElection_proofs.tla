------------------------ MODULE LeaderElection_proofs -------------------------
(***************************************************************************)
(* The safety of the leader election, for any number of instances and      *)
(* connections and whatever faults happen.                                 *)
(*                                                                         *)
(* SplitBrainNeedsCut is not inductive: it says nothing of one leader      *)
(* alone.  LeaderBacked does: an instance that believes it leads has a     *)
(* lock connection, and that connection's session holds the lock unless    *)
(* the connection is cut.  Two sessions cannot both hold it.               *)
(***************************************************************************)
EXTENDS LeaderElection, TLAPS

LeaderBacked ==
    \A i \in Instances :
       /\ isLeader[i] <=> lockConn[i] # NULL
       /\ isLeader[i] => holder = LockSession(i) \/ LockSession(i) \in cut
       /\ proc[i] = "down" => ~isLeader[i]

LeaderInv == TypeOK /\ LeaderBacked /\ LoopsFollowLeadership

\* The first states satisfy the invariant: nobody leads.
LEMMA LeaderInitially == Init => LeaderInv
BY LeaderElectionAssumption
DEF Init, LeaderInv, TypeOK, LeaderBacked, LoopsFollowLeadership, Sessions

\* Every step keeps the type invariant.
LEMMA LeaderTypeStep == LeaderInv /\ [Next]_vars => TypeOK'
<1> SUFFICES ASSUME LeaderInv, [Next]_vars PROVE TypeOK'
  OBVIOUS
<1> USE DEF LeaderInv
<1>1. ASSUME NEW i \in Instances, NEW c \in Conns, TryAcquireLock(i, c) PROVE TypeOK'
  BY <1>1 DEF TryAcquireLock, TypeOK, Sessions
<1>2. ASSUME NEW i \in Instances, NEW c \in Conns, TryAcquireLockFails(i, c) PROVE TypeOK'
  BY <1>2 DEF TryAcquireLockFails, Discard, TypeOK, mine
<1>3. ASSUME NEW i \in Instances, NEW c \in Conns, LoseAnswer(i, c) PROVE TypeOK'
  BY <1>3 DEF LoseAnswer, TypeOK, mine
<1>4. ASSUME NEW i \in Instances, VerifyLock(i) PROVE TypeOK'
  BY <1>4 DEF VerifyLock, GiveBack, Discard, TypeOK
<1>5. ASSUME NEW i \in Instances, OnPromote(i) PROVE TypeOK'
  BY <1>5 DEF OnPromote, TypeOK
<1>6. ASSUME NEW i \in Instances, OnDemote(i) PROVE TypeOK'
  BY <1>6 DEF OnDemote, TypeOK
<1>7. ASSUME NEW i \in Instances, Signal(i) PROVE TypeOK'
  BY <1>7 DEF Signal, TypeOK
<1>8. ASSUME NEW i \in Instances, CloseDatabase(i) PROVE TypeOK'
  BY <1>8 DEF CloseDatabase, TypeOK, mine
<1>9. ASSUME NEW i \in Instances, Exit(i) PROVE TypeOK'
  BY <1>9 DEF Exit, Reset, TypeOK
<1>10. ASSUME NEW i \in Instances, Crash(i) PROVE TypeOK'
  BY <1>10 DEF Crash, Reset, TypeOK
<1>11. ASSUME NEW i \in Instances, Restart(i) PROVE TypeOK'
  BY <1>11 DEF Restart, TypeOK, mine
<1>12. ASSUME NEW i \in Instances, NEW c \in Conns, Recycle(i, c) PROVE TypeOK'
  BY <1>12 DEF Recycle, TypeOK, mine
<1>13. ASSUME NEW s \in Sessions, CutLink(s) \/ EndSession(s) PROVE TypeOK'
  BY <1>13 DEF CutLink, EndSession, TypeOK, mine
<1>14. ASSUME EndOrphan PROVE TypeOK'
  BY <1>14 DEF EndOrphan, TypeOK, mine
<1>15. CASE UNCHANGED vars
  BY <1>15 DEF vars, mine, TypeOK
<1> QED
  BY <1>1, <1>2, <1>3, <1>4, <1>5, <1>6, <1>7, <1>8, <1>9, <1>10, <1>11, <1>12,
     <1>13, <1>14, <1>15 DEF Next, Poll

\* Every step keeps the lock behind every leader.  The steps that free the lock
\* are those of a session that is cut, orphaned, pooled or of a dead process.
LEMMA LeaderBackedStep == LeaderInv /\ [Next]_vars => LeaderBacked'
<1> SUFFICES ASSUME LeaderInv, [Next]_vars PROVE LeaderBacked'
  OBVIOUS
<1> USE LeaderElectionAssumption
        DEF LeaderInv, LeaderBacked, TypeOK, LockSession, Sessions
<1>1. ASSUME NEW i \in Instances, NEW c \in Conns, TryAcquireLock(i, c) PROVE LeaderBacked'
  BY <1>1 DEF TryAcquireLock
<1>2. ASSUME NEW i \in Instances, NEW c \in Conns, TryAcquireLockFails(i, c)
      PROVE  LeaderBacked'
  BY <1>2 DEF TryAcquireLockFails, Discard, Pooled, mine
<1>3. ASSUME NEW i \in Instances, NEW c \in Conns, LoseAnswer(i, c) PROVE LeaderBacked'
  BY <1>3 DEF LoseAnswer, mine
<1>4. ASSUME NEW i \in Instances, VerifyLock(i) PROVE LeaderBacked'
  BY <1>4 DEF VerifyLock, GiveBack, Discard
<1>5. ASSUME NEW i \in Instances, OnPromote(i) \/ OnDemote(i) \/ Signal(i)
      PROVE  LeaderBacked'
  BY <1>5 DEF OnPromote, OnDemote, Signal
<1>6. ASSUME NEW i \in Instances, CloseDatabase(i) PROVE LeaderBacked'
  BY <1>6 DEF CloseDatabase, Pooled, mine
<1>7. ASSUME NEW i \in Instances, Exit(i) PROVE LeaderBacked'
  BY <1>7 DEF Exit, Reset
<1>8. ASSUME NEW i \in Instances, Crash(i) PROVE LeaderBacked'
  BY <1>8 DEF Crash, Reset
<1>9. ASSUME NEW i \in Instances, Restart(i) PROVE LeaderBacked'
  BY <1>9 DEF Restart, mine
<1>10. ASSUME NEW i \in Instances, NEW c \in Conns, Recycle(i, c) PROVE LeaderBacked'
  BY <1>10 DEF Recycle, Pooled, mine
<1>11. ASSUME NEW s \in Sessions, CutLink(s) \/ EndSession(s) PROVE LeaderBacked'
  BY <1>11 DEF CutLink, EndSession, mine
<1>12. ASSUME EndOrphan PROVE LeaderBacked'
  BY <1>12 DEF EndOrphan, mine
<1>13. CASE UNCHANGED vars
  BY <1>13 DEF vars, mine
<1> QED
  BY <1>1, <1>2, <1>3, <1>4, <1>5, <1>6, <1>7, <1>8, <1>9, <1>10, <1>11, <1>12,
     <1>13 DEF Next, Poll

\* Every step keeps the loops within leadership.
LEMMA LoopsStep == LeaderInv /\ [Next]_vars => LoopsFollowLeadership'
<1> SUFFICES ASSUME LeaderInv, [Next]_vars PROVE LoopsFollowLeadership'
  OBVIOUS
<1> USE DEF LeaderInv, LoopsFollowLeadership, TypeOK
<1>1. ASSUME NEW i \in Instances, NEW c \in Conns, TryAcquireLock(i, c)
      PROVE  LoopsFollowLeadership'
  BY <1>1 DEF TryAcquireLock
<1>2. ASSUME NEW i \in Instances, VerifyLock(i) PROVE LoopsFollowLeadership'
  BY <1>2 DEF VerifyLock
<1>3. ASSUME NEW i \in Instances, OnPromote(i) \/ OnDemote(i) \/ Signal(i)
      PROVE  LoopsFollowLeadership'
  BY <1>3 DEF OnPromote, OnDemote, Signal
<1>4. ASSUME NEW i \in Instances, Exit(i) \/ Crash(i) PROVE LoopsFollowLeadership'
  BY <1>4 DEF Exit, Crash, Reset
<1>5. ASSUME UNCHANGED mine PROVE LoopsFollowLeadership'
  BY <1>5 DEF mine
<1>6. CASE \E i \in Instances, c \in Conns :
              TryAcquireLockFails(i, c) \/ LoseAnswer(i, c) \/ Recycle(i, c)
  BY <1>5, <1>6 DEF TryAcquireLockFails, LoseAnswer, Recycle
<1>7. CASE \E i \in Instances : CloseDatabase(i) \/ Restart(i)
  BY <1>5, <1>7 DEF CloseDatabase, Restart
<1>8. CASE \E s \in Sessions : CutLink(s) \/ EndSession(s)
  BY <1>5, <1>8 DEF CutLink, EndSession
<1>9. CASE EndOrphan
  BY <1>5, <1>9 DEF EndOrphan
<1>10. CASE UNCHANGED vars
  BY <1>5, <1>10 DEF vars
<1> QED
  BY <1>1, <1>2, <1>3, <1>4, <1>6, <1>7, <1>8, <1>9, <1>10 DEF Next, Poll

\* The inductive invariant holds in every reachable state.
THEOREM LeaderInvariant == Spec => []LeaderInv
<1>1. LeaderInv /\ [Next]_vars => LeaderInv'
  BY LeaderTypeStep, LeaderBackedStep, LoopsStep DEF LeaderInv
<1> QED
  BY LeaderInitially, <1>1, PTL DEF Spec

\* Two instances that both believe they lead (leader.go, isLeader) never both
\* have a working lock connection, for any number of instances and connections.
THEOREM SplitBrainHolds == Spec => []SplitBrainNeedsCut
<1>1. LeaderInv => SplitBrainNeedsCut
  BY DEF LeaderInv, LeaderBacked, SplitBrainNeedsCut, LockSession
<1> QED
  BY <1>1, LeaderInvariant, PTL

\* The background loops (scheduler.go, onPromote) run only in an instance that
\* leads or is just being demoted, and can always be cancelled.
THEOREM LoopsHold == Spec => []LoopsFollowLeadership
<1>1. LeaderInv => LoopsFollowLeadership
  BY DEF LeaderInv
<1> QED
  BY <1>1, LeaderInvariant, PTL
===============================================================================
