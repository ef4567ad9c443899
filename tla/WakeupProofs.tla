---------------------------- MODULE WakeupProofs -----------------------------
(***************************************************************************)
(* The work queue loses nothing: whatever ends a reconcile, a resource     *)
(* that still needs one gets one.                                          *)
(*                                                                         *)
(* NoneForgotten compares the informer's copy with the stored resource,    *)
(* and the stored resource may come to equal an old copy again.  The       *)
(* induction is therefore about the copy alone: the worker leaves it       *)
(* behind only when the stored resource differs from it in something that  *)
(* no user can turn back, its uid, its error or the operator's finalizer.  *)
(***************************************************************************)
EXTENDS LifecycleProofs

\* The uid of a stored resource is the last one given out; copies are older.
Born ==
    /\ \A cr \in Provisioners :
          /\ crs[cr] # NoObj => crs[cr].birth = births[cr]
          /\ crCache[cr] # NoObj => crCache[cr].birth <= births[cr]
    /\ pc # "idle" => work.obj.birth <= births[work.cr]

\* The worker has the informer's copy, or the request is in the queue again.
CopyCurrent == pc # "idle" => work.obj = crCache[work.cr] \/ work.cr \in queue

Waiting(cr) == cr \in queue \/ (pc # "idle" /\ work.cr = cr)

Superseded(cr) ==
    \/ crs[cr] = NoObj
    \/ crs[cr].birth # crCache[cr].birth
    \/ crs[cr].error # crCache[cr].error
    \/ crCache[cr].finalized /\ ~ crs[cr].finalized

MovedOn ==
    \A cr \in Provisioners :
       crCache[cr] # NoObj /\ ~ Waiting(cr) /\ ~ Settled(crCache[cr]) =>
          Superseded(cr)

WakeupInv == Born /\ CopyCurrent /\ MovedOn

-----------------------------------------------------------------------------
(* What a step does to a resource *)

\* A write of the operator keeps the uid, and is to the resource it works on.
LEMMA OperatorWrites ==
    ASSUME TypeOK, Reconcile, NEW cr \in Provisioners
    PROVE  \/ crs'[cr] = crs[cr]
           \/ /\ cr = work.cr
              /\ crs[cr] = work.obj
              /\ crs[cr] # NoObj
              /\ crs'[cr] # NoObj => crs'[cr].birth = crs[cr].birth
<1>. crs \in [Provisioners -> CustomResources \cup {NoObj}]
    BY DEF TypeOK, ClusterTypeOK
<1>1. CASE UNCHANGED crs
    BY <1>1
<1>2. CASE UpdateStatus \/ AddFinalizer \/ RemoveFinalizer
    <2>1. work.cr \in Provisioners /\ work.obj \in CustomResources
        BY <1>2, TypeParts, RequestTyped DEF UpdateStatus, AddFinalizer, RemoveFinalizer
    <2>2. /\ [work.obj EXCEPT !.error = ErrorText(work.obj.spec)].birth = work.obj.birth
          /\ [work.obj EXCEPT !.finalized = TRUE].birth = work.obj.birth
          /\ [work.obj EXCEPT !.finalized = FALSE].birth = work.obj.birth
        BY <2>1 DEF CustomResources
    <2>3. \/ UNCHANGED crs
          \/ /\ crs[work.cr] = work.obj
             /\ \E new : /\ crs' = [crs EXCEPT ![work.cr] = new]
                         /\ new # NoObj => new.birth = work.obj.birth
        BY <1>2, <2>2
           DEF UpdateStatus, AddFinalizer, RemoveFinalizer, Fresh, Stored,
               Conflict, Released
    <2>. QED BY <2>1, <2>3, NoObjAssumption
<1>3. CASE EnsureAllResources
    BY <1>3
       DEF EnsureAllResources, EnsureSCC, EnsurePVC, PanicInBuildPVC,
           EnsureServiceAccount, EnsureClusterRole, EnsureClusterRoleBinding,
           EnsureRole, EnsureRoleBinding, EnsureDeployment, EnsureService,
           EnsureStorageClass, EnsureFails, ProbeFails, EnsureFrame, clusterVars
<1>4. \/ KeepFinalizer \/ IgnoreDeleted \/ BeginCleanup \/ UpdateFails
      \/ DeleteClusterRole \/ DeleteClusterRoleBinding
      => UNCHANGED crs
    BY DEF KeepFinalizer, IgnoreDeleted, BeginCleanup, UpdateFails,
           DeleteClusterRole, DeleteClusterRoleBinding, DeleteExternal,
           EnsureFrame
<1>. QED BY <1>1, <1>2, <1>3, <1>4 DEF Reconcile

\* Users and the garbage collector create, remove, edit and mark resources:
\* they touch neither the uid nor the error nor the operator's finalizer.
LEMMA OthersWrite ==
    ASSUME TypeOK, Environment, NEW cr \in Provisioners
    PROVE  \/ /\ crs[cr] = NoObj
              /\ births'[cr] = births[cr] + 1
              /\ crs'[cr] # NoObj
              /\ crs'[cr].birth = births'[cr]
           \/ /\ births'[cr] = births[cr]
              /\ crs[cr] = NoObj => crs'[cr] = NoObj
              /\ crs'[cr] # NoObj =>
                    /\ crs'[cr].birth = crs[cr].birth
                    /\ crs'[cr].error = crs[cr].error
                    /\ crs'[cr].finalized = crs[cr].finalized
<1>. DEFINE Goal ==
           \/ /\ crs[cr] = NoObj
              /\ births'[cr] = births[cr] + 1
              /\ crs'[cr] # NoObj
              /\ crs'[cr].birth = births'[cr]
           \/ /\ births'[cr] = births[cr]
              /\ crs[cr] = NoObj => crs'[cr] = NoObj
              /\ crs'[cr] # NoObj =>
                    /\ crs'[cr].birth = crs[cr].birth
                    /\ crs'[cr].error = crs[cr].error
                    /\ crs'[cr].finalized = crs[cr].finalized
<1>. /\ crs \in [Provisioners -> CustomResources \cup {NoObj}]
     /\ births \in [Provisioners -> 0 .. MaxBirths]
    BY DEF TypeOK, ClusterTypeOK
<1>1. CASE UNCHANGED <<crs, births>>
    BY <1>1
<1>2. ASSUME NEW x \in Provisioners, NEW spec \in Specs, UserCreate(x, spec)
      PROVE  Goal
    <2>1. [birth |-> births[x] + 1, spec |-> Admitted(spec), deleting |-> FALSE,
           finalized |-> FALSE, foreground |-> FALSE, error |-> NoError] # NoObj
        <3>1. births[x] + 1 \in 1 .. MaxBirths
            BY <1>2, BoundsAssumption DEF UserCreate
        <3>2. [birth |-> births[x] + 1, spec |-> Admitted(spec), deleting |-> FALSE,
               finalized |-> FALSE, foreground |-> FALSE, error |-> NoError]
                  \in CustomResources
            BY <3>1 DEF CustomResources, AdmittedSpecs, Errors
        <3>. QED BY <3>2, NoObjAssumption
    <2>2. CASE cr = x
        BY <1>2, <2>1, <2>2 DEF UserCreate
    <2>3. CASE cr # x
        BY <1>2, <2>3 DEF UserCreate
    <2>. QED BY <2>2, <2>3
<1>3. ASSUME NEW x \in Provisioners, NEW spec \in Specs, UserEdit(x, spec)
      PROVE  Goal
    <2>1. \A obj \in CustomResources : \A s :
             LET new == [obj EXCEPT !.spec = s] IN
                new.birth = obj.birth /\ new.error = obj.error /\ new.finalized = obj.finalized
        BY DEF CustomResources
    <2>. QED BY <1>3, <2>1 DEF UserEdit
<1>4. ASSUME NEW x \in Provisioners, NEW mode \in BOOLEAN, UserDelete(x, mode)
      PROVE  Goal
    <2>1. \A obj \in CustomResources :
             LET new == [obj EXCEPT !.deleting = TRUE, !.foreground = mode] IN
                new.birth = obj.birth /\ new.error = obj.error /\ new.finalized = obj.finalized
        BY DEF CustomResources
    <2>. QED BY <1>4, <2>1 DEF UserDelete
<1>5. ASSUME NEW x \in Provisioners, FinishForeground(x)
      PROVE  Goal
    <2>1. \A obj \in CustomResources :
             LET new == [obj EXCEPT !.foreground = FALSE] IN
                new.birth = obj.birth /\ new.error = obj.error /\ new.finalized = obj.finalized
        BY DEF CustomResources
    <2>. QED BY <1>5, <2>1 DEF FinishForeground
<1>6. \/ \E k \in Drifting : DriftDelete(k)
      \/ \E k \in Providable : Provide(k)
      \/ \E account \in Administered : AdminAddSCCUser(account)
      \/ \E k \in Keys : GarbageCollect(k)
      => UNCHANGED <<crs, births>>
    BY DEF DriftDelete, Provide, AdminAddSCCUser, GarbageCollect, Drift
<1>. HIDE DEF Goal
<1>7. Goal
    BY <1>1, <1>2, <1>3, <1>4, <1>5, <1>6, BoundsAssumption DEF Environment, Goal
<1>. QED BY <1>7 DEF Goal

-----------------------------------------------------------------------------
(* How a reconcile ends *)

\* What the worker leaves without a request is settled, or the write that
\* ended the reconcile made the stored resource differ for good.
LeavesBehind ==
    \/ Settled(work.obj)
    \/ crs'[work.cr] = NoObj
    \/ crs'[work.cr].error # work.obj.error
    \/ work.obj.finalized /\ ~ crs'[work.cr].finalized

GoesOn == pc' # "idle" /\ UNCHANGED <<work, queue>>

Retries == pc' = "idle" /\ queue' = queue \cup {work.cr}

Ends == pc' = "idle" /\ UNCHANGED queue /\ LeavesBehind

LEMMA EnsureContinues ==
    ASSUME EnsureAllResources
    PROVE  \/ Restart /\ UNCHANGED clusterVars
           \/ UNCHANGED crCache /\ (GoesOn \/ Retries)
<1>. USE DEF Advance, Requeue, Written, GoesOn, Retries
<1>1. ASSUME NEW k, NEW content, NEW next, next # "idle", Ensure(k, content, next)
      PROVE  GoesOn \/ Retries
    BY <1>1 DEF Ensure
<1>2. CASE EnsureSCC
    BY <1>1, <1>2 DEF EnsureSCC, EnsureFrame
<1>3. CASE EnsurePVC
    BY <1>1, <1>3 DEF EnsurePVC, EnsureFrame
<1>4. CASE PanicInBuildPVC
    BY <1>4 DEF PanicInBuildPVC
<1>5. CASE EnsureFails \/ ProbeFails
    BY <1>5 DEF EnsureFails, ProbeFails
<1>6. CASE EnsureServiceAccount \/ EnsureClusterRole \/ EnsureClusterRoleBinding
    BY <1>1, <1>6
       DEF EnsureServiceAccount, EnsureClusterRole, EnsureClusterRoleBinding,
           EnsureFrame
<1>7. CASE EnsureRole \/ EnsureRoleBinding \/ EnsureDeployment
    BY <1>1, <1>7 DEF EnsureRole, EnsureRoleBinding, EnsureDeployment, EnsureFrame
<1>8. CASE EnsureService \/ EnsureStorageClass
    BY <1>1, <1>8 DEF EnsureService, EnsureStorageClass, EnsureFrame
<1>. QED BY <1>2, <1>3, <1>4, <1>5, <1>6, <1>7, <1>8 DEF EnsureAllResources

LEMMA ReconcileEnds ==
    ASSUME TypeOK, BranchTaken, OnlyInvalid, Reconcile
    PROVE  \/ Restart /\ UNCHANGED clusterVars
           \/ UNCHANGED crCache /\ (GoesOn \/ Retries \/ Ends)
<1>. /\ crs \in [Provisioners -> CustomResources \cup {NoObj}]
     /\ work.cr \in Provisioners /\ work.obj \in CustomResources
    BY TypeParts, RequestTyped, WorkerMoves DEF TypeOK, ClusterTypeOK
<1>. USE DEF WorkFrame
<1>1. CASE EnsureAllResources
    BY <1>1, EnsureContinues
<1>2. CASE UpdateStatus
    <2>1. ~ Valid(work.obj.spec)
        BY <1>2 DEF UpdateStatus, OnlyInvalid
    <2>2. [work.obj EXCEPT !.error = ErrorText(work.obj.spec)].error
              = ErrorText(work.obj.spec)
        BY DEF CustomResources
    <2>3. CASE Stored([work.obj EXCEPT !.error = ErrorText(work.obj.spec)]) /\ Finish
        <3>1. crs'[work.cr].error = ErrorText(work.obj.spec)
            BY <2>2, <2>3 DEF Stored
        <3>2. LeavesBehind
            BY <2>1, <3>1 DEF LeavesBehind, Settled
        <3>. QED BY <1>2, <2>3, <3>2 DEF UpdateStatus, Finish, Ends
    <2>. QED BY <1>2, <2>3 DEF UpdateStatus, Conflict, Requeue, Retries
<1>3. CASE KeepFinalizer \/ AddFinalizer
    BY <1>3 DEF KeepFinalizer, AddFinalizer, Conflict, Requeue, Retries
<1>4. CASE IgnoreDeleted
    BY <1>4 DEF IgnoreDeleted, Finish, Deleting, Finalized, Settled, LeavesBehind,
                Ends
<1>5. CASE BeginCleanup
    BY <1>5 DEF BeginCleanup, Advance, GoesOn
<1>6. CASE DeleteClusterRole \/ DeleteClusterRoleBinding
    BY <1>6
       DEF DeleteClusterRole, DeleteClusterRoleBinding, DeleteExternal, Written,
           Advance, Requeue, EnsureFrame, GoesOn, Retries
<1>7. CASE RemoveFinalizer
    <2>1. work.obj.finalized
        BY <1>7 DEF RemoveFinalizer, BranchTaken, CleanupStages, Finalized
    <2>2. ~ [work.obj EXCEPT !.finalized = FALSE].finalized
        BY DEF CustomResources
    <2>3. CASE Stored(Released(work.obj)) /\ Finish
        <3>1. crs'[work.cr] = Released(work.obj)
            BY <2>3 DEF Stored
        <3>2. LeavesBehind
            BY <2>1, <2>2, <3>1 DEF LeavesBehind, Released
        <3>. QED BY <1>7, <2>3, <3>2 DEF RemoveFinalizer, Finish, Ends
    <2>. QED BY <1>7, <2>3 DEF RemoveFinalizer, Conflict, Requeue, Retries
<1>8. CASE UpdateFails
    BY <1>8 DEF UpdateFails, Requeue, Retries
<1>. QED BY <1>1, <1>2, <1>3, <1>4, <1>5, <1>6, <1>7, <1>8 DEF Reconcile

-----------------------------------------------------------------------------
(* The induction *)

\* Only a restart touches the informer's copies in a reconcile.
LEMMA CopiesMove ==
    ASSUME Reconcile
    PROVE  (Restart /\ UNCHANGED clusterVars) \/ UNCHANGED crCache
BY EnsureContinues
   DEF Reconcile, UpdateStatus, KeepFinalizer, AddFinalizer, IgnoreDeleted,
       BeginCleanup, DeleteClusterRole, DeleteClusterRoleBinding, DeleteExternal,
       RemoveFinalizer, UpdateFails, WorkFrame, EnsureFrame

LEMMA BornStep ==
    ASSUME TypeOK, Requested, Born, [Next]_vars
    PROVE  Born'
<1>. /\ crs \in [Provisioners -> CustomResources \cup {NoObj}]
     /\ births \in [Provisioners -> 0 .. MaxBirths]
     /\ crCache \in [Provisioners -> CustomResources \cup {NoObj}]
     /\ \A obj \in CustomResources : obj.birth \in Nat
     /\ \A cr \in Provisioners : births[cr] \in Nat
    BY BoundsAssumption DEF TypeOK, ClusterTypeOK, ManagerTypeOK, CustomResources
<1>. pc # "idle" => work.cr \in Provisioners /\ work.obj \in CustomResources
    BY TypeParts, RequestTyped
<1>. USE DEF Born
<1>1. CASE Environment /\ UNCHANGED managerVars
    <2>1. \A cr \in Provisioners : births[cr] <= births'[cr] /\ births'[cr] \in Nat
        BY <1>1, OthersWrite
    <2>2. \A cr \in Provisioners : crs'[cr] # NoObj => crs'[cr].birth = births'[cr]
        BY <1>1, OthersWrite
    <2>3. \A cr \in Provisioners : crCache[cr] # NoObj => crCache[cr].birth <= births'[cr]
        BY <2>1
    <2>4. pc # "idle" => work.obj.birth <= births'[work.cr]
        BY <2>1
    <2>. QED BY <1>1, <2>2, <2>3, <2>4 DEF managerVars
<1>2. CASE Reconcile
    <2>1. UNCHANGED births
        BY <1>2, ReconcileCreatesNoResource
    <2>2. \A cr \in Provisioners : crs'[cr] # NoObj => crs'[cr].birth = births[cr]
        BY <1>2, OperatorWrites
    <2>3. (Restart /\ UNCHANGED clusterVars) \/ UNCHANGED crCache
        BY <1>2, CopiesMove
    <2>4. pc' # "idle" => UNCHANGED work /\ pc # "idle"
        BY <1>2, WorkerMoves
    <2>5. \A cr \in Provisioners : crCache'[cr] # NoObj => crCache'[cr].birth <= births[cr]
        BY <2>3 DEF Restart
    <2>. QED BY <2>1, <2>2, <2>4, <2>5
<1>3. CASE \E k \in Lagging : Sync(k)
    BY <1>3 DEF Sync, clusterVars
<1>4. CASE \E cr \in Provisioners : SyncCR(cr)
    BY <1>4 DEF SyncCR, clusterVars
<1>5. CASE \E cr \in Provisioners : StartReconcile(cr)
    BY <1>5 DEF StartReconcile, clusterVars
<1>6. CASE Crash
    BY <1>6 DEF Crash, Restart, clusterVars
<1>7. CASE UNCHANGED vars
    BY <1>7 DEF vars
<1>. QED BY <1>1, <1>2, <1>3, <1>4, <1>5, <1>6, <1>7 DEF Next

LEMMA CopyCurrentStep ==
    ASSUME TypeOK, BranchTaken, OnlyInvalid, CopyCurrent, [Next]_vars
    PROVE  CopyCurrent'
<1>. crCache \in [Provisioners -> CustomResources \cup {NoObj}]
    BY DEF TypeOK, ManagerTypeOK
<1>. USE DEF CopyCurrent
<1>1. CASE Environment /\ UNCHANGED managerVars
    BY <1>1 DEF managerVars
<1>2. CASE Reconcile
    BY <1>2, ReconcileEnds, WorkerMoves DEF Restart, GoesOn, Retries, Ends
<1>3. CASE \E k \in Lagging : Sync(k)
    BY <1>3 DEF Sync
<1>4. CASE \E cr \in Provisioners : SyncCR(cr)
    BY <1>4 DEF SyncCR
<1>5. CASE \E cr \in Provisioners : StartReconcile(cr)
    BY <1>5 DEF StartReconcile
<1>6. CASE Crash
    BY <1>6 DEF Crash, Restart
<1>7. CASE UNCHANGED vars
    BY <1>7 DEF vars
<1>. QED BY <1>1, <1>2, <1>3, <1>4, <1>5, <1>6, <1>7 DEF Next

\* After a restart every resource is waiting that a copy is held of.
LEMMA RestartRemembers ==
    ASSUME Restart
    PROVE  MovedOn'
BY DEF Restart, MovedOn, Waiting

\* Nobody else brings back what the worker left behind.
LEMMA SupersededStays ==
    ASSUME TypeOK, Born, Environment, UNCHANGED managerVars,
           NEW cr \in Provisioners, crCache[cr] # NoObj, Superseded(cr)
    PROVE  Superseded(cr)'
<1>1. crCache[cr] \in CustomResources /\ births[cr] \in Nat
    BY BoundsAssumption DEF TypeOK, ClusterTypeOK, ManagerTypeOK
<1>2. crCache[cr].birth \in Nat /\ crCache[cr].birth <= births[cr]
    BY <1>1, BoundsAssumption DEF CustomResources, Born
<1>3. crCache' = crCache
    BY DEF managerVars
<1>. QED BY <1>1, <1>2, <1>3, OthersWrite DEF Superseded

LEMMA MovedOnStep ==
    ASSUME TypeOK, BranchTaken, OnlyInvalid, WakeupInv, [Next]_vars
    PROVE  MovedOn'
<1>. /\ crCache \in [Provisioners -> CustomResources \cup {NoObj}]
     /\ Born /\ CopyCurrent /\ MovedOn
    BY DEF TypeOK, ManagerTypeOK, WakeupInv
<1>1. CASE Environment /\ UNCHANGED managerVars
    BY <1>1, SupersededStays DEF MovedOn, Waiting, managerVars
<1>2. CASE Reconcile
    <2>1. CASE Restart
        BY <2>1, RestartRemembers
    <2>2. CASE UNCHANGED crCache /\ (GoesOn \/ Retries \/ Ends)
        <3>1. SUFFICES ASSUME NEW cr \in Provisioners, crCache[cr] # NoObj,
                              ~ Waiting(cr)', ~ Settled(crCache[cr])
                       PROVE  Superseded(cr)'
            BY <2>2 DEF MovedOn
        <3>2. pc # "idle"
            BY <1>2, WorkerMoves
        <3>3. CASE cr = work.cr
            <4>1. Ends /\ work.obj = crCache[cr]
                BY <2>2, <3>1, <3>2, <3>3
                   DEF GoesOn, Retries, Ends, Waiting, CopyCurrent
            <4>. QED BY <2>2, <3>1, <3>3, <4>1 DEF Ends, LeavesBehind, Superseded
        <3>4. CASE cr # work.cr
            <4>1. ~ Waiting(cr) /\ crs'[cr] = crs[cr]
                BY <1>2, <2>2, <3>1, <3>4, OperatorWrites
                   DEF GoesOn, Retries, Ends, Waiting
            <4>. QED BY <2>2, <3>1, <4>1 DEF MovedOn, Superseded
        <3>. QED BY <3>3, <3>4
    <2>. QED BY <1>2, <2>1, <2>2, ReconcileEnds
<1>3. CASE \E k \in Lagging : Sync(k)
    BY <1>3 DEF Sync, clusterVars, MovedOn, Waiting, Superseded
<1>4. CASE \E cr \in Provisioners : SyncCR(cr)
    BY <1>4 DEF SyncCR, clusterVars, MovedOn, Waiting, Superseded
<1>5. CASE \E cr \in Provisioners : StartReconcile(cr)
    BY <1>5 DEF StartReconcile, clusterVars, MovedOn, Waiting, Superseded
<1>6. CASE Crash
    BY <1>6, RestartRemembers DEF Crash
<1>7. CASE UNCHANGED vars
    BY <1>7 DEF vars, MovedOn, Waiting, Superseded
<1>. QED BY <1>1, <1>2, <1>3, <1>4, <1>5, <1>6, <1>7 DEF Next

-----------------------------------------------------------------------------

\* The uids, the copies and what the worker left behind, as the induction of
\* WakeupsKept needs them.
THEOREM WakeupInvariant == Spec => [](Requested /\ OnlyInvalid /\ WakeupInv)
<1>. DEFINE Inv == Requested /\ OnlyInvalid /\ WakeupInv
<1>1. Init => Inv
    BY InitMaps
       DEF Init, ClusterInit, ManagerInit, OnlyInvalid, WakeupInv, Born,
           CopyCurrent, MovedOn
<1>2. TypeOK /\ BranchTaken /\ Inv /\ [Next]_vars => Inv'
    BY RequestedStep, OnlyInvalidStep, BornStep, CopyCurrentStep, MovedOnStep
       DEF WakeupInv
<1>. QED BY <1>1, <1>2, TypeCorrect, BranchInvariant, PTL DEF Spec

\* No interleaving of events, lost replies, conflicts, crashes and reconciles
\* that end without a new request leaves a resource behind that the controller
\* still has something to do for: it is in the queue, in work, or has an event
\* to come.
THEOREM WakeupsKept == Spec => []NoneForgotten
<1>1. TypeOK /\ WakeupInv => NoneForgotten
    BY DEF TypeOK, ClusterTypeOK, WakeupInv, MovedOn, NoneForgotten, Remembered,
           Waiting, Superseded
<1>. QED BY <1>1, TypeCorrect, WakeupInvariant, PTL

=============================================================================
