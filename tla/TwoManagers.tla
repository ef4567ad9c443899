----------------------------- MODULE TwoManagers -----------------------------
(***************************************************************************)
(* Two processes of cmd/main.go against one API server: leader election    *)
(* with a lease that is given back when the process is told to stop, a     *)
(* standby that takes over, and the time in between, in which the process  *)
(* that lost the lease is still reconciling while its successor starts.    *)
(*                                                                         *)
(* The variables of Manager are those of the first process; the second has *)
(* its own caches, queue and worker.  Both share the API server and the    *)
(* bound on failures.                                                      *)
(***************************************************************************)
EXTENDS ReconcilerProperties

CONSTANTS
    LeaderElection,     \* the flag --enable-leader-election
    NoHolder            \* the lease is free

ASSUME ElectionAssumption == LeaderElection \in BOOLEAN

\* The panic of resource.MustParse is left to Reconciler's own runs.
ASSUME SizesAssumption == \A spec \in AdmittedSpecs : SizeParses(spec)

VARIABLES crCache2, cache2, queue2, pc2, work2,
    holder,     \* who holds the lease
    active      \* the processes whose controller runs

firstVars == <<crCache, cache, queue, pc, work>>
secondVars == <<crCache2, cache2, queue2, pc2, work2>>
electionVars == <<holder, active>>
allVars == <<vars, secondVars, electionVars>>

Second ==
    INSTANCE OwnershipProofs WITH
        crCache <- crCache2, cache <- cache2, queue <- queue2,
        pc <- pc2, work <- work2

Managers == {"first", "second"}

ASSUME NoHolderAssumption == NoHolder \notin Managers

\* Types of both processes' variables.
BothTypeOK ==
    /\ TypeOK
    /\ Second!ManagerTypeOK
    /\ holder \in Managers \cup {NoHolder}
    /\ active \subseteq Managers

BothInit ==
    /\ Init
    /\ Second!ManagerInit
    /\ holder = NoHolder
    /\ active = {}

-----------------------------------------------------------------------------
(* Processes *)

\* The controller of a process starts: its informers list everything.
Starts(m) ==
    \/ m = "first" /\ Restart /\ UNCHANGED secondVars
    \/ m = "second" /\ Second!Restart /\ UNCHANGED firstVars

Stops(m) ==
    \/ m = "first" /\ Stop /\ UNCHANGED secondVars
    \/ m = "second" /\ Second!Stop /\ UNCHANGED firstVars

\* A standby becomes leader when the lease is free, or starts without one.
Acquire(m) ==
    /\ m \notin active
    /\ LeaderElection => holder = NoHolder
    /\ holder' = IF LeaderElection THEN m ELSE holder
    /\ active' = active \cup {m}
    /\ Starts(m)
    /\ UNCHANGED <<clusterVars, faults>>

\* A renewal fails or the process is told to stop.  renew() gives the lease
\* back (or it expires, when that fails too) before OnStoppedLeading is called.
LoseLease(m) ==
    /\ holder = m
    /\ m \in active
    /\ holder' = NoHolder
    /\ Fault
    /\ UNCHANGED <<active, firstVars, secondVars, clusterVars>>

\* OnStoppedLeading ends the process; the next one begins as a standby.
Exit(m) ==
    /\ LeaderElection
    /\ m \in active
    /\ holder # m
    /\ active' = active \ {m}
    /\ Stops(m)
    /\ UNCHANGED <<holder, clusterVars, faults>>

\* A process that dies keeps the lease until it expires.
Die(m) ==
    /\ m \in active
    /\ active' = active \ {m}
    /\ Stops(m)
    /\ Fault
    /\ UNCHANGED <<holder, clusterVars>>

\* Altered form of Expire: the test of the renewal time is inverted.
ExpireRenewed ==
    /\ holder \in Managers \cap active
    /\ holder' = NoHolder
    /\ UNCHANGED <<active, firstVars, secondVars, clusterVars, faults>>

Expire ==
    /\ holder \in Managers \ active
    /\ holder' = NoHolder
    /\ UNCHANGED <<active, firstVars, secondVars, clusterVars, faults>>

-----------------------------------------------------------------------------

FirstWorks ==
    /\ "first" \in active
    /\ \/ \E k \in Lagging : Sync(k)
       \/ \E cr \in Provisioners : SyncCR(cr) \/ StartReconcile(cr)
       \/ Reconcile
    /\ UNCHANGED <<secondVars, electionVars>>

SecondWorks ==
    /\ "second" \in active
    /\ \/ \E k \in Lagging : Second!Sync(k)
       \/ \E cr \in Provisioners : Second!SyncCR(cr) \/ Second!StartReconcile(cr)
       \/ Second!Reconcile
    /\ UNCHANGED <<firstVars, electionVars>>

BothNext ==
    \/ Environment /\ UNCHANGED <<managerVars, secondVars, electionVars>>
    \/ FirstWorks
    \/ SecondWorks
    \/ \E m \in Managers : Acquire(m) \/ LoseLease(m) \/ Exit(m) \/ Die(m)
    \/ Expire

Aside == UNCHANGED <<secondVars, electionVars>>
FirstAside == UNCHANGED <<firstVars, electionVars>>

\* What Fairness asks of one process, of both while they are active.  A free
\* or expired lease is taken by somebody.
BothFairness ==
    /\ WF_allVars("first" \in active /\ Reconcile /\ Aside)
    /\ WF_allVars("second" \in active /\ Second!Reconcile /\ FirstAside)
    /\ \A cr \in Provisioners :
          /\ SF_allVars("first" \in active /\ StartReconcile(cr) /\ Aside)
          /\ SF_allVars("second" \in active /\ Second!StartReconcile(cr) /\ FirstAside)
          /\ WF_allVars("first" \in active /\ SyncCR(cr) /\ Aside)
          /\ WF_allVars("second" \in active /\ Second!SyncCR(cr) /\ FirstAside)
          /\ WF_allVars(FinishForeground(cr)
                        /\ UNCHANGED <<managerVars, secondVars, electionVars>>)
    /\ \A k \in Lagging :
          /\ WF_allVars("first" \in active /\ Sync(k) /\ Aside)
          /\ WF_allVars("second" \in active /\ Second!Sync(k) /\ FirstAside)
    /\ \A k \in Keys :
          WF_allVars(GarbageCollect(k)
                     /\ UNCHANGED <<managerVars, secondVars, electionVars>>)
    /\ WF_allVars(\E m \in Managers : Acquire(m))
    /\ WF_allVars(\E m \in Managers : Exit(m))
    /\ WF_allVars(Expire)

BothSpec == BothInit /\ [][BothNext]_allVars

FairBothSpec == BothSpec /\ BothFairness

-----------------------------------------------------------------------------

\* Nor do two processes at once undo what a user did: each write is checked
\* against the copy its own process read.
BothKeepIntent == [][\A cr \in Provisioners : IntentKept(cr)]_allVars

=============================================================================
