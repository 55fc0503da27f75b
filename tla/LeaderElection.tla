---------------------------- MODULE LeaderElection ----------------------------
(***************************************************************************)
(* The leader election of scheduler/leader.go over a PostgreSQL session    *)
(* advisory lock, the onPromote and onDemote callbacks of                  *)
(* scheduler/scheduler.go that start and stop the background loops, and    *)
(* the shutdown of main.                                                   *)
(*                                                                         *)
(* Each scheduler instance has a pool of connections, each with a session  *)
(* at the server; the lock belongs to a session.  A connection can be cut  *)
(* and the server may notice before the client does, or after it: then the *)
(* session outlives the connection that opened it, an ORPHAN.              *)
(*                                                                         *)
(* The pool and the server are external; they are modelled by what         *)
(* leader.go and db.go rely on.  Taking the lock again in the session that *)
(* has it succeeds.  The lock count this builds up is left out, since      *)
(* nothing that runs ever unlocks: releaseLock needs the cancellation of   *)
(* main's context, which is context.Background().                          *)
(***************************************************************************)
EXTENDS Naturals

CONSTANTS
    Instances,  \* scheduler processes
    Conns,      \* connections of each pool
    Faults,     \* which disturbances happen, of FaultKinds
    ORPHAN,
    NULL

\* cut:    a connection breaks, or the server ends its session
\* query:  the pg_locks query fails although the connection works
\* crash:  an instance dies;  signal: it gets SIGTERM
FaultKinds == {"cut", "query", "crash", "signal"}

Sessions == Instances \X Conns

ASSUME LeaderElectionAssumption ==
    /\ Faults \subseteq FaultKinds
    /\ NULL \notin Conns \cup Sessions \cup {ORPHAN}
    /\ ORPHAN \notin Sessions

VARIABLES
    proc,      \* up; stopping: in GracefulStop; closing: in database.Close; down
    pc,        \* the elector: idle, or about to call onPromote or onDemote
    isLeader,  \* LeaderElector.isLeader
    lockConn,  \* LeaderElector.lockConn
    loops,     \* the loops run: leaderLoopCtx is made and not cancelled
    cancel,    \* leaderLoopCancel is not nil
    cut,       \* the connections that are broken
    holder     \* the session that holds the advisory lock

mine == <<pc, isLeader, lockConn, loops, cancel>>
vars == <<proc, mine, cut, holder>>

LockSession(i) == <<i, lockConn[i]>>
Owns(i) == lockConn[i] # NULL /\ holder = LockSession(i)
Live(i) == proc[i] # "down"

Init ==
    /\ proc     = [i \in Instances |-> "up"]
    /\ pc       = [i \in Instances |-> "idle"]
    /\ isLeader = [i \in Instances |-> FALSE]
    /\ lockConn = [i \in Instances |-> NULL]
    /\ loops    = [i \in Instances |-> FALSE]
    /\ cancel   = [i \in Instances |-> FALSE]
    /\ cut      = {}
    /\ holder   = NULL
-------------------------------------------------------------------------------
\* The connections an instance may take from its pool, and the ones the pool may
\* close: those it has not handed out.
Pooled(i) == {c \in Conns : c # lockConn[i]}

\* The client throws a broken connection away and the pool opens another in its
\* place.  A session the server still keeps is left behind.
Discard(s) ==
    /\ cut' = cut \ {s}
    /\ holder' = IF holder = s THEN ORPHAN ELSE holder

\* A tick of Run on a standby.  A closed pool hands out nothing.
TryAcquireLock(i, c) ==
    /\ proc[i] \in {"up", "stopping"}
    /\ pc[i] = "idle" /\ ~isLeader[i]
    /\ c \in Pooled(i) /\ <<i, c>> \notin cut
    /\ holder \in {NULL, <<i, c>>}
    /\ holder'   = <<i, c>>
    /\ lockConn' = [lockConn EXCEPT ![i] = c]
    /\ isLeader' = [isLeader EXCEPT ![i] = TRUE]
    /\ pc'       = [pc EXCEPT ![i] = "promote"]
    /\ UNCHANGED <<proc, loops, cancel, cut>>

\* ... whose query fails on a broken connection.
TryAcquireLockFails(i, c) ==
    /\ proc[i] \in {"up", "stopping"}
    /\ pc[i] = "idle" /\ ~isLeader[i]
    /\ c \in Pooled(i) /\ <<i, c>> \in cut
    /\ Discard(<<i, c>>)
    /\ UNCHANGED <<proc, mine>>

\* ... or whose connection breaks when the lock is taken and not yet answered.
LoseAnswer(i, c) ==
    /\ "cut" \in Faults
    /\ proc[i] \in {"up", "stopping"}
    /\ pc[i] = "idle" /\ ~isLeader[i]
    /\ c \in Pooled(i) /\ <<i, c>> \notin cut
    /\ holder = NULL
    /\ holder' = ORPHAN
    /\ UNCHANGED <<proc, mine, cut>>

\* onPromote, after its sweep of expired leases (LeaseProtocol!Reconcile).
OnPromote(i) ==
    /\ Live(i) /\ pc[i] = "promote"
    /\ loops'  = [loops EXCEPT ![i] = TRUE]
    /\ cancel' = [cancel EXCEPT ![i] = TRUE]
    /\ pc'     = [pc EXCEPT ![i] = "idle"]
    /\ UNCHANGED <<proc, isLeader, lockConn, cut, holder>>

\* Release returns a working connection to the pool, and with it the session,
\* which is not made to unlock.  A closed pool closes it.
GiveBack(i) ==
    /\ holder' = IF proc[i] = "closing" /\ Owns(i) THEN NULL ELSE holder
    /\ UNCHANGED cut

\* Mistake: the connection is not given back to the pool.
VerifyLockNoRelease(i) ==
    /\ Live(i) /\ pc[i] = "idle" /\ isLeader[i]
    /\ \/ LockSession(i) \in cut /\ Discard(LockSession(i))
       \/ /\ LockSession(i) \notin cut
          /\ "query" \in Faults \/ ~Owns(i)
          /\ UNCHANGED <<cut, holder>>
    /\ isLeader' = [isLeader EXCEPT ![i] = FALSE]
    /\ pc'       = [pc EXCEPT ![i] = "demote"]
    /\ UNCHANGED <<proc, lockConn, loops, cancel>>

\* A tick of Run on the leader that ends in demote: the ping or the query failed,
\* or the lock is gone.
VerifyLock(i) ==
    /\ Live(i) /\ pc[i] = "idle" /\ isLeader[i]
    /\ \/ LockSession(i) \in cut /\ Discard(LockSession(i))
       \/ /\ LockSession(i) \notin cut
          /\ "query" \in Faults \/ ~Owns(i)
          /\ GiveBack(i)
    /\ isLeader' = [isLeader EXCEPT ![i] = FALSE]
    /\ lockConn' = [lockConn EXCEPT ![i] = NULL]
    /\ pc'       = [pc EXCEPT ![i] = "demote"]
    /\ UNCHANGED <<proc, loops, cancel>>

\* Mistake: leaderLoopCancel is dropped without being called.
OnDemoteNoCancel(i) ==
    /\ Live(i) /\ pc[i] = "demote"
    /\ cancel' = [cancel EXCEPT ![i] = FALSE]
    /\ pc'     = [pc EXCEPT ![i] = "idle"]
    /\ UNCHANGED <<proc, isLeader, lockConn, loops, cut, holder>>

\* onDemote, the end of demote.
OnDemote(i) ==
    /\ Live(i) /\ pc[i] = "demote"
    /\ loops'  = IF cancel[i] THEN [loops EXCEPT ![i] = FALSE] ELSE loops
    /\ cancel' = [cancel EXCEPT ![i] = FALSE]
    /\ pc'     = [pc EXCEPT ![i] = "idle"]
    /\ UNCHANGED <<proc, isLeader, lockConn, cut, holder>>
-------------------------------------------------------------------------------
\* SIGTERM: the signal goroutine cancels the loops, if it sees a cancel function,
\* and calls GracefulStop.  The elector is not told.
Signal(i) ==
    /\ "signal" \in Faults
    /\ proc[i] = "up"
    /\ proc'  = [proc EXCEPT ![i] = "stopping"]
    /\ loops' = IF cancel[i] THEN [loops EXCEPT ![i] = FALSE] ELSE loops
    /\ UNCHANGED <<pc, isLeader, lockConn, cancel, cut, holder>>

\* Serve returns and main's deferred database.Close closes the pool: at once
\* the connections in it ...
CloseDatabase(i) ==
    /\ proc[i] = "stopping"
    /\ proc'   = [proc EXCEPT ![i] = "closing"]
    /\ cut'    = {s \in cut : s[1] # i \/ s[2] = lockConn[i]}
    /\ holder' = IF holder \in {<<i, c>> : c \in Pooled(i)} THEN NULL ELSE holder
    /\ UNCHANGED mine

Reset(i) ==
    /\ proc'     = [proc EXCEPT ![i] = "down"]
    /\ pc'       = [pc EXCEPT ![i] = "idle"]
    /\ isLeader' = [isLeader EXCEPT ![i] = FALSE]
    /\ lockConn' = [lockConn EXCEPT ![i] = NULL]
    /\ loops'    = [loops EXCEPT ![i] = FALSE]
    /\ cancel'   = [cancel EXCEPT ![i] = FALSE]
    /\ cut'      = {s \in cut : s[1] # i}

\* ... and it waits for every connection that is handed out before main ends.
Exit(i) ==
    /\ proc[i] = "closing"
    /\ lockConn[i] = NULL
    /\ Reset(i)
    /\ UNCHANGED holder

\* The process or its host dies.  The server learns it at once or later.
Crash(i) ==
    /\ "crash" \in Faults
    /\ Live(i)
    /\ Reset(i)
    /\ \/ holder \in {<<i, c>> : c \in Conns} /\ holder' \in {NULL, ORPHAN}
       \/ holder \notin {<<i, c>> : c \in Conns} /\ UNCHANGED holder

Restart(i) ==
    /\ proc[i] = "down"
    /\ proc' = [proc EXCEPT ![i] = "up"]
    /\ UNCHANGED <<mine, cut, holder>>
-------------------------------------------------------------------------------
\* A connection breaks unseen by the server.
CutLink(s) ==
    /\ "cut" \in Faults /\ Live(s[1]) /\ s \notin cut
    /\ cut' = cut \cup {s}
    /\ UNCHANGED <<proc, mine, holder>>

\* The server ends a session of its own accord (restart, pg_terminate_backend),
\* or notices that its connection is cut.
EndSession(s) ==
    /\ s \in cut \/ ("cut" \in Faults /\ Live(s[1]))
    /\ cut'    = cut \cup {s}
    /\ holder' = IF holder = s THEN NULL ELSE holder
    /\ UNCHANGED <<proc, mine>>

EndOrphan ==
    /\ holder = ORPHAN
    /\ holder' = NULL
    /\ UNCHANGED <<proc, mine, cut>>

\* Mistake: the lock's connection is left in the pool, where it ages with others.
RecycleAny(i, c) ==
    /\ Live(i)
    /\ holder = <<i, c>>
    /\ holder' = NULL
    /\ UNCHANGED <<proc, mine, cut>>

\* MaxConnLifetime and MaxConnIdleTime: the pool replaces a connection it has not
\* handed out, and the session and its lock end.
Recycle(i, c) ==
    /\ Live(i)
    /\ c \in Pooled(i)
    /\ holder = <<i, c>>
    /\ holder' = NULL
    /\ UNCHANGED <<proc, mine, cut>>
-------------------------------------------------------------------------------
Poll(i) ==
    \/ \E c \in Conns : \/ TryAcquireLock(i, c)
                        \/ TryAcquireLockFails(i, c)
                        \/ LoseAnswer(i, c)
    \/ VerifyLock(i)

Next ==
    \/ \E i \in Instances :
          \/ Poll(i) \/ OnPromote(i) \/ OnDemote(i)
          \/ Signal(i) \/ CloseDatabase(i) \/ Exit(i) \/ Crash(i) \/ Restart(i)
          \/ \E c \in Conns : Recycle(i, c)
    \/ \E s \in Sessions : CutLink(s) \/ EndSession(s)
    \/ EndOrphan

Spec == Init /\ [][Next]_vars

\* The elector polls every 5s and its callbacks return; GracefulStop ends, as RPC
\* handlers do; the server notices a lost client (keepalive) and the pool
\* recycles its connections.  A leader pings on every tick (VerifyLock), so a
\* broken lock connection is found.
Fairness ==
    /\ \A i \in Instances :
          /\ WF_vars(\E c \in Conns : TryAcquireLock(i, c))
          /\ WF_vars(VerifyLock(i) /\ LockSession(i) \in cut)
          /\ WF_vars(OnPromote(i))
          /\ WF_vars(OnDemote(i))
          /\ WF_vars(CloseDatabase(i))
          /\ WF_vars(Exit(i))
          /\ \A c \in Conns : WF_vars(Recycle(i, c))
          /\ \A c \in Conns : WF_vars(EndSession(<<i, c>>) /\ <<i, c>> \in cut)
    /\ WF_vars(EndOrphan)

FairSpec == Spec /\ Fairness
-------------------------------------------------------------------------------
TypeOK ==
    /\ proc \in [Instances -> {"up", "stopping", "closing", "down"}]
    /\ pc \in [Instances -> {"idle", "promote", "demote"}]
    /\ isLeader \in [Instances -> BOOLEAN]
    /\ lockConn \in [Instances -> Conns \cup {NULL}]
    /\ loops \in [Instances -> BOOLEAN]
    /\ cancel \in [Instances -> BOOLEAN]
    /\ cut \subseteq Sessions
    /\ holder \in Sessions \cup {ORPHAN, NULL}

(***************************************************************************)
(* Where split-brain can come from.  Two instances that both believe they  *)
(* lead never both have a working lock connection: the session lock does   *)
(* exclude, through leaks into the pool, orphaned sessions, lost answers,  *)
(* restarts and shutdowns, and only the time verifyLock takes to see a     *)
(* broken connection is unprotected.                                       *)
(***************************************************************************)
SplitBrainNeedsCut ==
    \A i, k \in Instances :
       (i # k /\ isLeader[i] /\ isLeader[k]) =>
          LockSession(i) \in cut \/ LockSession(k) \in cut

(***************************************************************************)
(* The loops run only in an instance that leads or is just being demoted,  *)
(* whatever SIGTERM does to them in between, and there is always a cancel  *)
(* function to stop them with: onPromote never starts a second set of      *)
(* loops over a first one whose cancel function would be lost.             *)
(***************************************************************************)
LoopsFollowLeadership ==
    \A i \in Instances :
       /\ loops[i] => (isLeader[i] \/ pc[i] = "demote") /\ cancel[i]
       /\ pc[i] = "promote" => isLeader[i] /\ ~loops[i]

(***************************************************************************)
(* A leader whose connection has dropped stops its loops: split-brain does *)
(* not last.                                                               *)
(***************************************************************************)
DeposedLeaderStops ==
    \A i \in Instances :
       (isLeader[i] /\ LockSession(i) \in cut) ~> ~loops[i]

(***************************************************************************)
(* Failover: once connections stay up and instances stop coming and going, *)
(* one that stays up means the loops run somewhere again and again, even   *)
(* if the lock was left with an orphaned session or leaked into a pool.    *)
(***************************************************************************)
Settled ==
    /\ <>[](cut = {})
    /\ <>[][~\E s \in Sessions : LoseAnswer(s[1], s[2])]_vars
    /\ \A i \in Instances : <>[](proc[i] = "up") \/ <>[](proc[i] = "down")
    /\ \E i \in Instances : <>[](proc[i] = "up")

LeadershipRecovers == Settled => []<>(\E i \in Instances : loops[i])

(***************************************************************************)
(* SIGTERM ends an instance that does not lead: GracefulStop and the       *)
(* deferred database.Close come to an end, also when it was demoted or     *)
(* polled for the lock meanwhile.  Only an instance that leads hangs (it   *)
(* may still become leader after the signal: the elector is not told).     *)
(***************************************************************************)
StandbyShutsDown ==
    \A i \in Instances :
       (proc[i] \in {"stopping", "closing"} /\ ~isLeader[i])
          ~> (proc[i] = "down" \/ isLeader[i])

(***************************************************************************)
(* leader.go: "releaseLock explicitly releases the advisory lock on        *)
(* shutdown": an instance that shuts down gives the lock back.             *)
(***************************************************************************)
ShutdownReleases ==
    \A i \in Instances : (proc[i] = "stopping") ~> ~Owns(i)
===============================================================================
