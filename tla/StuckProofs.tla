----------------------------- MODULE StuckProofs -----------------------------
(***************************************************************************)
(* The two ways a deletion gets stuck, for every value of the constants:   *)
(* Reconcile validates the spec and ensures every object before it looks   *)
(* at the deletion mark, so it never reaches the deletion branch with a    *)
(* spec that is not valid, nor in a namespace it may not create in.        *)
(***************************************************************************)
EXTENDS TerminatingNamespace, PrerequisiteProofs

-----------------------------------------------------------------------------
(* An invalid resource *)

\* The branches after the validation work on a copy that passed it.
OnlyValid == pc \notin {"idle", "status"} => Valid(work.obj.spec)

LEMMA OnlyValidStep ==
    ASSUME OnlyValid, [Next]_vars
    PROVE  OnlyValid'
<1>1. CASE UNCHANGED <<pc, work>>
    BY <1>1 DEF OnlyValid
<1>2. CASE pc' = "idle"
    BY <1>2 DEF OnlyValid
<1>3. CASE \E cr \in Provisioners : StartReconcile(cr)
    BY <1>3 DEF StartReconcile, OnlyValid
<1>4. CASE Reconcile
    <2>1. pc # "idle" /\ (pc' = "idle" \/ UNCHANGED work)
        BY <1>4, WorkerMoves
    <2>2. pc = "status" => pc' = "idle"
        BY <1>4
           DEF Reconcile, EnsureAllResources, EnsureSCC, EnsurePVC,
               PanicInBuildPVC, EnsureServiceAccount, EnsureClusterRole,
               EnsureClusterRoleBinding, EnsureRole, EnsureRoleBinding,
               EnsureDeployment, EnsureService, EnsureStorageClass,
               EnsureFails, EnsureStages, ProbeFails, UpdateStatus,
               KeepFinalizer, AddFinalizer, IgnoreDeleted, BeginCleanup,
               DeleteClusterRole, DeleteClusterRoleBinding, RemoveFinalizer,
               UpdateFails, Conflict, Finish, Requeue
    <2>. QED BY <2>1, <2>2 DEF OnlyValid
<1>. QED BY <1>1, <1>2, <1>3, <1>4
        DEF Next, Sync, SyncCR, Crash, Restart, vars, managerVars

\* The resource waits for its finalizer and its spec is not valid.
Abandoned(cr) ==
    /\ crs[cr] # NoObj
    /\ crs[cr].deleting
    /\ crs[cr].finalized
    /\ ~ Valid(crs[cr].spec)

LEMMA AbandonedStep ==
    ASSUME TypeOK, BranchTaken, OnlyValid, [Next]_vars,
           NEW cr \in Provisioners, Abandoned(cr), used'.edits = used.edits
    PROVE  Abandoned(cr)'
<1>1. ~ Releases(cr)
    <2>1. SUFFICES ASSUME Releases(cr) PROVE FALSE
        OBVIOUS
    <2>2. pc = "removeFinalizer" /\ work.cr = cr /\ Fresh
        BY <2>1, ReleaseIsRemoval
    <2>. QED BY <2>2 DEF OnlyValid, Abandoned, Fresh
<1>2. crs'[cr] # NoObj /\ crs'[cr].finalized
    BY <1>1 DEF Releases, Abandoned
<1>3. births'[cr] = births[cr]
    <2>1. ASSUME NEW x \in Provisioners, NEW spec \in Specs, UserCreate(x, spec)
          PROVE  births'[cr] = births[cr]
        BY <2>1 DEF UserCreate, Abandoned, TypeOK, ClusterTypeOK
    <2>. QED BY <2>1, BornByCreation
<1>4. IntentKept(cr)
    BY StepKeepsIntent
<1>. QED BY <1>2, <1>3, <1>4 DEF IntentKept, Abandoned

\* An invalid resource that was marked for deletion with the finalizer on it
\* waits for as long as nobody edits a spec: no step of the operator, no event
\* and no restart ends the wait, which the run invalid_deletion shows to
\* happen.
THEOREM InvalidWaits ==
    ASSUME NEW cr \in Provisioners, NEW n
    PROVE  Spec => []([](used.edits = n) /\ Abandoned(cr) => []Abandoned(cr))
<1>1. Init => OnlyValid
    BY DEF Init, ManagerInit, OnlyValid
<1>2. OnlyValid /\ [Next]_vars => OnlyValid'
    BY OnlyValidStep
<1>3. /\ TypeOK /\ BranchTaken /\ OnlyValid /\ [Next]_vars
      /\ used.edits = n /\ (used.edits = n)' /\ Abandoned(cr)
      => Abandoned(cr)'
    BY AbandonedStep
<1>. QED BY <1>1, <1>2, <1>3, TypeCorrect, BranchInvariant, PTL DEF Spec

-----------------------------------------------------------------------------
(* A namespace that is deleted *)

LEMMA RemoveResourceTyped ==
    ASSUME TypeOK, NEW ns, NEW cr \in Provisioners, RemoveResource(ns, cr)
    PROVE  TypeOK'
BY DeletionTyped DEF RemoveResource

\* The namespace controller does what users and the garbage collector do too;
\* a forbidden Create only moves the worker.
LEMMA ClosingTyped ==
    ASSUME TypeOK, [ClosingNext]_closingVars
    PROVE  TypeOK'
<1>1. CASE [Next]_vars
    BY <1>1, StepTyped
<1>2. CASE CreateForbidden
    <2>1. WorkerOK
        BY TypeParts
    <2>2. pc # "idle" /\ Requeue /\ UNCHANGED faults
        BY <1>2 DEF CreateForbidden
    <2>3. WorkerOK'
        BY <2>1, <2>2, WorkSteps, NextStages
    <2>. QED BY <1>2, <2>3, WorkTyped DEF CreateForbidden, clusterVars
<1>3. ASSUME NEW ns \in Namespaces, NEW k \in Keys, RemoveContent(ns, k)
      PROVE  TypeOK'
    BY <1>3, RemovalTyped DEF RemoveContent
<1>4. ASSUME NEW ns \in Namespaces, NEW cr \in Provisioners, RemoveResource(ns, cr)
      PROVE  TypeOK'
    BY <1>4, RemoveResourceTyped
<1>. QED BY <1>1, <1>2, <1>3, <1>4 DEF ClosingNext, DeleteNamespace, closingVars

\* The types hold with the namespace controller at work.
THEOREM TypesInClosing == ClosingSpec => []TypeOK
<1>1. ClosingInit => TypeOK
    BY InitTyped DEF ClosingInit
<1>2. TypeOK /\ [ClosingNext]_closingVars => TypeOK'
    BY ClosingTyped
<1>. QED BY <1>1, <1>2, PTL DEF ClosingSpec

LEMMA ClosingBranchStep ==
    ASSUME TypeOK, BranchTaken, [ClosingNext]_closingVars
    PROVE  BranchTaken'
<1>1. CASE [Next]_vars
    BY <1>1, BranchStep
<1>2. CASE CreateForbidden
    BY <1>2 DEF CreateForbidden, Requeue, BranchTaken, CleanupStages, DeleteStages
<1>3. CASE UNCHANGED managerVars
    BY <1>3 DEF managerVars, BranchTaken, Deleting, Finalized
<1>. QED BY <1>1, <1>2, <1>3
        DEF ClosingNext, DeleteNamespace, RemoveContent, RemoveResource, closingVars

LEMMA ClosingKeepsIntent ==
    ASSUME TypeOK, BranchTaken, [ClosingNext]_closingVars, NEW cr \in Provisioners
    PROVE  IntentKept(cr)
<1>. crs \in [Provisioners -> CustomResources \cup {NoObj}]
    BY DEF TypeOK, ClusterTypeOK
<1>1. CASE [Next]_vars
    BY <1>1, StepKeepsIntent
<1>2. CASE UNCHANGED crs
    BY <1>2, UnchangedKept
<1>3. ASSUME NEW ns, NEW x \in Provisioners, RemoveResource(ns, x)
      PROVE  IntentKept(cr)
    BY <1>3, NoObjAssumption
       DEF RemoveResource, UserDelete, IntentKept, CustomResources
<1>. QED BY <1>1, <1>2, <1>3
        DEF ClosingNext, DeleteNamespace, RemoveContent, CreateForbidden,
            clusterVars, closingVars

\* No write of the operator undoes what users did while their namespace goes.
THEOREM IntentInClosing == ClosingSpec => UserIntentKept
<1>1. ClosingInit => BranchTaken
    BY DEF ClosingInit, Init, ManagerInit, BranchTaken, CleanupStages, DeleteStages
<1>2. TypeOK /\ BranchTaken /\ [ClosingNext]_closingVars => BranchTaken'
    BY ClosingBranchStep
<1>3. TypeOK /\ BranchTaken /\ [ClosingNext]_closingVars =>
          [\A cr \in Provisioners : IntentKept(cr)]_vars
    BY ClosingKeepsIntent
<1>. QED BY <1>1, <1>2, <1>3, TypesInClosing, PTL DEF ClosingSpec, UserIntentKept

-----------------------------------------------------------------------------
(* The namespace that never empties *)

\* The service account is gone from a namespace that is being deleted, and
\* from the operator's cache, before a finalized resource was cleaned up after.
Trapped(cr) ==
    LET account == ServiceAccountKey(NamespaceOf[cr]) IN
    /\ NamespaceOf[cr] \in closing
    /\ crs[cr] # NoObj
    /\ crs[cr].finalized
    /\ store[account] = NoObj
    /\ Cached(account) = NoObj
    /\ pc # "idle" /\ work.cr = cr =>
          pc \in {"status", "SCC", "PVC", "ServiceAccount"}

LEMMA TrappedResource ==
    ASSUME TypeOK, [ClosingNext]_closingVars, NEW cr \in Provisioners, Trapped(cr)
    PROVE  crs'[cr] # NoObj /\ crs'[cr].finalized
<1>. crs \in [Provisioners -> CustomResources \cup {NoObj}]
    BY DEF TypeOK, ClusterTypeOK
<1>1. CASE [Next]_vars
    <2>1. SUFFICES ASSUME Releases(cr) PROVE FALSE
        BY DEF Releases, Trapped
    <2>2. pc = "removeFinalizer" /\ work.cr = cr
        BY <1>1, <2>1, ReleaseIsRemoval
    <2>. QED BY <2>2 DEF Trapped
<1>2. CASE UNCHANGED crs
    BY <1>2 DEF Trapped
<1>3. ASSUME NEW ns, NEW x \in Provisioners, RemoveResource(ns, x)
      PROVE  crs'[cr] # NoObj /\ crs'[cr].finalized
    BY <1>3, NoObjAssumption
       DEF RemoveResource, UserDelete, Trapped, CustomResources
<1>. QED BY <1>1, <1>2, <1>3
        DEF ClosingNext, DeleteNamespace, RemoveContent, CreateForbidden,
            clusterVars, closingVars

\* Nothing creates the account, and no informer brings it back.
LEMMA TrappedAccount ==
    ASSUME TypeOK, [ClosingNext]_closingVars, NEW cr \in Provisioners, Trapped(cr)
    PROVE  LET account == ServiceAccountKey(NamespaceOf[cr])
           IN  store'[account] = NoObj /\ Cached(account)' = NoObj
<1>. DEFINE account == ServiceAccountKey(NamespaceOf[cr])
<1>. account \in Keys /\ account[2] \in closing
    BY KeysTyped, NamespaceAssumption DEF Trapped, ServiceAccountKey
<1>. /\ store \in [Keys -> Objects \cup {NoObj}]
     /\ store[account] = NoObj
     /\ account \in Lagging => cache[account] = NoObj
    BY DEF TypeOK, ClusterTypeOK, Trapped, Cached
<1>1. store'[account] = NoObj
    <2>1. CASE Next /\ Admissible
        BY <2>1 DEF Admissible
    <2>2. ASSUME NEW ns, NEW k \in Keys, RemoveContent(ns, k)
          PROVE  store'[account] = NoObj
        BY <2>2 DEF RemoveContent
    <2>. QED BY <2>1, <2>2
            DEF ClosingNext, DeleteNamespace, RemoveResource, UserDelete,
                CreateForbidden, clusterVars, closingVars, vars
<1>2. account \in Lagging => cache'[account] = NoObj
    <2>1. CASE [Next]_vars
        BY <2>1, CachesFollow
    <2>2. CASE UNCHANGED cache
        BY <2>2
    <2>. QED BY <2>1, <2>2
            DEF ClosingNext, DeleteNamespace, RemoveContent, RemoveResource,
                CreateForbidden, managerVars, closingVars
<1>. QED BY <1>1, <1>2 DEF Cached

\* The stages before the account lead up to it and no further.
LEMMA TrappedWorker ==
    ASSUME TypeOK, [ClosingNext]_closingVars, NEW cr \in Provisioners, Trapped(cr),
           pc' # "idle", work'.cr = cr
    PROVE  pc' \in {"status", "SCC", "PVC", "ServiceAccount"}
<1>. DEFINE account == ServiceAccountKey(NamespaceOf[cr])
            Early == {"status", "SCC", "PVC", "ServiceAccount"}
<1>1. CASE UNCHANGED <<pc, work>>
    BY <1>1 DEF Trapped
<1>2. CASE \E x \in Provisioners : StartReconcile(x)
    BY <1>2 DEF StartReconcile
<1>3. CASE Reconcile /\ Admissible
    <2>1. pc \in Early /\ work.cr = cr
        BY <1>3, WorkerMoves DEF Trapped
    <2>2. CASE EnsureAllResources
        <3>1. ~ EnsureServiceAccount
            <4>1. SUFFICES ASSUME EnsureServiceAccount PROVE FALSE
                OBVIOUS
            <4>2. Cached(account) = NoObj /\ store[account] = NoObj
                BY DEF Trapped
            <4>3. store' = [store EXCEPT ![account] = Build(account, Bare)]
                BY <2>1, <4>1, <4>2 DEF EnsureServiceAccount, Ensure, Requeue
            <4>4. account \in Keys /\ account[2] \in closing
                BY KeysTyped, NamespaceAssumption DEF Trapped, ServiceAccountKey
            <4>5. pc # "idle" /\ WorkerOK
                BY <2>1, TypeParts
            <4>6. Build(account, Bare) # NoObj
                BY <4>5, BuildTyped, ContentsTyped, NoObjAssumption
            <4>7. store'[account] # NoObj
                BY <4>3, <4>4, <4>6 DEF TypeOK, ClusterTypeOK
            <4>. QED BY <1>3, <4>2, <4>4, <4>7 DEF Admissible
        <3>2. EnsureSCC => pc' = "PVC"
            BY DEF EnsureSCC, Ensure, Advance, Written, Requeue
        <3>3. EnsurePVC => pc' = "ServiceAccount"
            BY DEF EnsurePVC, Ensure, Advance, Written, Requeue
        <3>4. ProbeFails => pc' = "PVC"
            BY DEF ProbeFails, Advance
        <3>5. ~ (PanicInBuildPVC \/ EnsureFails)
            BY DEF PanicInBuildPVC, Restart, EnsureFails, Requeue
        <3>. QED BY <2>1, <2>2, <3>1, <3>2, <3>3, <3>4, <3>5
                DEF EnsureAllResources, EnsureClusterRole,
                    EnsureClusterRoleBinding, EnsureRole, EnsureRoleBinding,
                    EnsureDeployment, EnsureService, EnsureStorageClass
    <2>3. CASE UpdateStatus \/ UpdateFails
        BY <2>3 DEF UpdateStatus, UpdateFails, Conflict, Finish, Requeue
    <2>. QED BY <1>3, <2>1, <2>2, <2>3
            DEF Reconcile, KeepFinalizer, AddFinalizer, IgnoreDeleted,
                BeginCleanup, DeleteClusterRole, DeleteClusterRoleBinding,
                RemoveFinalizer
<1>4. ~ (Crash \/ CreateForbidden)
    BY DEF Crash, Restart, CreateForbidden, Requeue
<1>. QED BY <1>1, <1>2, <1>3, <1>4
        DEF ClosingNext, Next, DeleteNamespace, RemoveContent, RemoveResource,
            Sync, SyncCR, managerVars, closingVars, vars

LEMMA TrappedStep ==
    ASSUME TypeOK, [ClosingNext]_closingVars, NEW cr \in Provisioners, Trapped(cr)
    PROVE  Trapped(cr)'
<1>1. NamespaceOf[cr] \in closing'
    BY DEF Trapped, ClosingNext, DeleteNamespace, RemoveContent, RemoveResource,
           CreateForbidden, closingVars
<1>. QED BY <1>1, TrappedResource, TrappedAccount, TrappedWorker DEF Trapped

\* Once the namespace controller took the account before the operator got to
\* the deletion branch, the namespace never empties, whatever fairness holds:
\* every reconcile stops at the Create that the API server forbids.  The run
\* namespace_stuck shows that this happens.
THEOREM NamespaceTrapped ==
    ASSUME NEW cr \in Provisioners
    PROVE  ClosingSpec => [](Trapped(cr) => []~ Emptied(NamespaceOf[cr]))
<1>1. TypeOK /\ Trapped(cr) /\ [ClosingNext]_closingVars => Trapped(cr)'
    BY TrappedStep
<1>2. Trapped(cr) => ~ Emptied(NamespaceOf[cr])
    BY DEF Trapped, Emptied
<1>. QED BY <1>1, <1>2, TypesInClosing, PTL DEF ClosingSpec

=============================================================================
