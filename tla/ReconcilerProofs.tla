-------------------------- MODULE ReconcilerProofs ---------------------------
(***************************************************************************)
(* Theorems of Reconciler, for every set of resources, namespaces, specs   *)
(* and lagging caches and every bound.                                     *)
(***************************************************************************)
EXTENDS ReconcilerProperties, TLAPS

-----------------------------------------------------------------------------
(* Typing of the values the operator builds *)

LEMMA KeysTyped ==
    /\ SCCKey \in Keys
    /\ ClusterRoleKey \in Keys
    /\ ClusterRoleBindingKey \in Keys
    /\ \A spec \in AdmittedSpecs : StorageClassKey(StorageClassName(spec)) \in Keys
    /\ \A ns \in Namespaces :
          /\ \A spec \in AdmittedSpecs : PVCKey(ns, ClaimName(spec)) \in Keys
          /\ ServiceAccountKey(ns) \in Keys
          /\ RoleKey(ns) \in Keys
          /\ RoleBindingKey(ns) \in Keys
          /\ DeploymentKey(ns) \in Keys
          /\ ServiceKey(ns) \in Keys
BY DEF Keys

\* No other object takes the place of the SCC.
LEMMA SCCKeyUnique ==
    /\ ClusterRoleKey # SCCKey
    /\ ClusterRoleBindingKey # SCCKey
    /\ \A name : StorageClassKey(name) # SCCKey
    /\ \A ns : /\ \A name : PVCKey(ns, name) # SCCKey
               /\ ServiceAccountKey(ns) # SCCKey
               /\ RoleKey(ns) # SCCKey
               /\ RoleBindingKey(ns) # SCCKey
               /\ DeploymentKey(ns) # SCCKey
               /\ ServiceKey(ns) # SCCKey
BY DEF SCCKey, ClusterRoleKey, ClusterRoleBindingKey, StorageClassKey, PVCKey,
       ServiceAccountKey, RoleKey, RoleBindingKey, DeploymentKey, ServiceKey

LEMMA ContentsTyped ==
    /\ Bare \in Contents
    /\ [users : SUBSET Accounts] \subseteq Contents
    /\ BuildClusterRole \in Contents
    /\ BuildRole \in Contents
    /\ \A ns \in Namespaces :
          /\ BuildClusterRoleBinding(ns) \in Contents
          /\ BuildRoleBinding(ns) \in Contents
    /\ \A spec \in AdmittedSpecs : BuildPVC(spec) \in Contents
    /\ \A cr \in Provisioners :
          /\ \A spec \in AdmittedSpecs : BuildDeployment(cr, spec) \in Contents
          /\ BuildService(cr) \in Contents
<1>1. \A ns \in Namespaces :
         /\ BuildClusterRoleBinding(ns) \in Contents
         /\ BuildRoleBinding(ns) \in Contents
    BY DEF Contents
<1>2. /\ Bare \in Contents /\ BuildClusterRole \in Contents /\ BuildRole \in Contents
      /\ [users : SUBSET Accounts] \subseteq Contents
    BY DEF Contents
<1>3. /\ \A spec \in AdmittedSpecs : BuildPVC(spec) \in Contents
      /\ \A cr \in Provisioners :
            /\ \A spec \in AdmittedSpecs : BuildDeployment(cr, spec) \in Contents
            /\ BuildService(cr) \in Contents
    BY DEF Contents
<1>. QED BY <1>1, <1>2, <1>3

LEMMA AccountsTyped ==
    /\ Administered \subseteq Accounts
    /\ \A ns \in Namespaces : UserToAdd(ns) \in Accounts
BY DEF Accounts, UserToAdd

-----------------------------------------------------------------------------
(* Parts of the type invariant *)

StoreOK == store \in [Keys -> Objects \cup {NoObj}] /\ SCCShape(store[SCCKey])

WorkerOK ==
    /\ queue \subseteq Provisioners
    /\ pc \in Stages
    /\ work \in Requests \cup {NoObj}
    /\ pc = "idle" <=> work = NoObj
    /\ faults \in 0 .. MaxFaults

CachesOK ==
    /\ crCache \in [Provisioners -> CustomResources \cup {NoObj}]
    /\ cache \in [Lagging -> Objects \cup {NoObj}]
    /\ SCCKey \in Lagging => SCCShape(cache[SCCKey])

ResourcesOK ==
    /\ crs \in [Provisioners -> CustomResources \cup {NoObj}]
    /\ births \in [Provisioners -> 0 .. MaxBirths]
    /\ used \in [edits : 0 .. MaxEdits, drifts : 0 .. MaxDrifts]

LEMMA TypeParts == TypeOK <=> StoreOK /\ WorkerOK /\ CachesOK /\ ResourcesOK
BY DEF TypeOK, ClusterTypeOK, ManagerTypeOK, StoreOK, WorkerOK, CachesOK,
       ResourcesOK

LEMMA NextTypeParts ==
    StoreOK' /\ WorkerOK' /\ CachesOK' /\ ResourcesOK' => TypeOK'
BY DEF TypeOK, ClusterTypeOK, ManagerTypeOK, StoreOK, WorkerOK, CachesOK,
       ResourcesOK

\* Putting one well-typed object into the store.
LEMMA StoreUpdate ==
    ASSUME StoreOK,
           NEW k \in Keys,
           NEW obj \in Objects \cup {NoObj},
           k = SCCKey => SCCShape(obj),
           store' = [store EXCEPT ![k] = obj]
    PROVE  StoreOK'
BY KeysTyped DEF StoreOK, SCCShape

LEMMA RequestTyped ==
    ASSUME WorkerOK, pc # "idle"
    PROVE  /\ work.cr \in Provisioners
           /\ work.obj \in CustomResources
           /\ work.obj.spec \in AdmittedSpecs
           /\ NamespaceOf[work.cr] \in Namespaces
BY NamespaceAssumption DEF WorkerOK, Requests, CustomResources

LEMMA WorkSteps ==
    ASSUME WorkerOK, pc # "idle", NEW next \in Stages \ {"idle"}
    PROVE  /\ Advance(next) /\ UNCHANGED faults => WorkerOK'
           /\ Advance(next) /\ Fault => WorkerOK'
           /\ Finish /\ UNCHANGED faults => WorkerOK'
           /\ Finish /\ Fault => WorkerOK'
           /\ Requeue /\ UNCHANGED faults => WorkerOK'
           /\ Requeue /\ Fault => WorkerOK'
           /\ Written(next) => WorkerOK'
<1>. DEFINE Counter == UNCHANGED faults \/ Fault
<1>0. Counter => faults' \in 0 .. MaxFaults
    BY FaultsAssumption DEF WorkerOK, Fault
<1>1. ASSUME Advance(next), Counter PROVE WorkerOK'
    BY <1>0, <1>1 DEF WorkerOK, Advance
<1>2. ASSUME Finish, Counter PROVE WorkerOK'
    <2>1. "idle" \in Stages
        BY DEF Stages
    <2>. QED BY <1>0, <1>2, <2>1 DEF WorkerOK, Finish
<1>3. ASSUME Requeue, Counter PROVE WorkerOK'
    <2>1. "idle" \in Stages
        BY DEF Stages
    <2>. QED BY <1>0, <1>3, <2>1, RequestTyped DEF WorkerOK, Requeue
<1>. QED BY <1>1, <1>2, <1>3 DEF Written

-----------------------------------------------------------------------------
(* Typing, action by action *)

LEMMA InitTyped == Init => TypeOK
<1>. SUFFICES ASSUME Init PROVE TypeOK
    OBVIOUS
<1>. USE DEF Init, ClusterInit, ManagerInit
<1>1. StoreOK
    BY KeysTyped DEF StoreOK, SCCShape
<1>2. WorkerOK
    BY FaultsAssumption DEF WorkerOK, Stages
<1>3. CachesOK
    BY DEF CachesOK, SCCShape
<1>4. ResourcesOK
    BY BoundsAssumption DEF ResourcesOK
<1>. QED BY <1>1, <1>2, <1>3, <1>4, TypeParts

\* An object a stage builds is one the store may hold.
LEMMA BuildTyped ==
    ASSUME WorkerOK, pc # "idle", NEW k, NEW content \in Contents
    PROVE  Build(k, content) \in Objects
<1>1. UidOf(work.cr, work.obj) \in Uids
    BY RequestTyped DEF UidOf, Uids, CustomResources
<1>. QED BY <1>1 DEF Build, Objects

LEMMA EnsureTyped ==
    ASSUME TypeOK, pc # "idle",
           NEW k \in Keys, NEW content \in Contents,
           NEW next \in Stages \ {"idle"},
           k = SCCKey => content \in [users : SUBSET Accounts],
           Ensure(k, content, next), EnsureFrame
    PROVE  TypeOK'
<1>. StoreOK /\ WorkerOK /\ CachesOK /\ ResourcesOK
    BY TypeParts
<1>1. StoreOK'
    <2>1. CASE UNCHANGED store
        BY <2>1 DEF StoreOK, SCCShape
    <2>2. CASE store' = [store EXCEPT ![k] = Build(k, content)]
        <3>1. Build(k, content) \in Objects
            BY BuildTyped
        <3>2. k = SCCKey => SCCShape(Build(k, content))
            BY DEF Build, SCCShape
        <3>. QED BY <2>2, <3>1, <3>2, StoreUpdate
    <2>. QED BY <2>1, <2>2 DEF Ensure
<1>2. WorkerOK'
    BY WorkSteps DEF Ensure
<1>3. CachesOK' /\ ResourcesOK'
    BY DEF EnsureFrame, CachesOK, ResourcesOK, SCCShape
<1>. QED BY <1>1, <1>2, <1>3, NextTypeParts

\* A stage that moves the worker and leaves the rest alone.
LEMMA WorkTyped ==
    ASSUME TypeOK, WorkerOK',
           UNCHANGED <<crs, store, births, used, crCache, cache>>
    PROVE  TypeOK'
<1>. StoreOK /\ CachesOK /\ ResourcesOK
    BY TypeParts
<1>1. StoreOK' /\ CachesOK' /\ ResourcesOK'
    BY DEF StoreOK, CachesOK, ResourcesOK, SCCShape
<1>. QED BY <1>1, NextTypeParts

LEMMA NextStages ==
    /\ EnsureStages \subseteq Stages \ {"idle"}
    /\ DeleteStages \subseteq Stages \ {"idle"}
    /\ {"status", "finalizer", "removeFinalizer"} \subseteq Stages \ {"idle"}
BY DEF Stages, EnsureStages, DeleteStages

LEMMA RestartTyped ==
    ASSUME TypeOK, Restart, UNCHANGED clusterVars, faults' \in 0 .. MaxFaults
    PROVE  TypeOK'
<1>. StoreOK /\ WorkerOK /\ CachesOK /\ ResourcesOK
    BY TypeParts
<1>1. StoreOK' /\ ResourcesOK'
    BY DEF StoreOK, ResourcesOK, SCCShape, clusterVars
<1>2. WorkerOK'
    BY DEF WorkerOK, Restart, Stages
<1>3. CachesOK'
    BY LaggingAssumption DEF CachesOK, Restart, StoreOK, ResourcesOK, SCCShape
<1>. QED BY <1>1, <1>2, <1>3, NextTypeParts

LEMMA EnsureSCCTyped ==
    ASSUME TypeOK, EnsureSCC
    PROVE  TypeOK'
<1>. DEFINE ns == NamespaceOf[work.cr]
            users == {UserToAdd(ns)}
<1>. StoreOK /\ WorkerOK /\ CachesOK /\ ResourcesOK
    BY TypeParts
<1>. pc = "SCC"
    BY DEF EnsureSCC
<1>1. users \in SUBSET Accounts
    BY RequestTyped, AccountsTyped
<1>2. "PVC" \in Stages \ {"idle"}
    BY DEF Stages, EnsureStages
<1>3. EnsureFrame
    BY DEF EnsureSCC
<1>4. CachesOK' /\ ResourcesOK'
    BY <1>3 DEF EnsureFrame, CachesOK, ResourcesOK, SCCShape
<1>5. CASE Advance("PVC") /\ UNCHANGED <<store, faults>>
    BY <1>2, <1>3, <1>5, WorkSteps, WorkTyped DEF EnsureFrame
<1>6. CASE Ensure(SCCKey, [users |-> users], "PVC")
    BY <1>1, <1>2, <1>3, <1>6, KeysTyped, ContentsTyped, EnsureTyped
<1>7. CASE Cached(SCCKey) # NoObj /\ FreshSCC(Cached(SCCKey))
           /\ AddUser(Cached(SCCKey), ns) /\ Written("PVC")
    <2>. DEFINE old == store[SCCKey]
                obj == [old EXCEPT !.content.users = @ \cup users]
    <2>1. old \in Objects /\ old.content \in [users : SUBSET Accounts]
        BY <1>7, KeysTyped DEF StoreOK, SCCShape, FreshSCC
    <2>2. obj.content \in [users : SUBSET Accounts]
        BY <1>1, <2>1 DEF Objects
    <2>3. obj \in Objects
        BY <2>1, <2>2, ContentsTyped DEF Objects
    <2>4. store' = [store EXCEPT ![SCCKey] = obj]
        BY <1>7 DEF AddUser, FreshSCC
    <2>5. StoreOK'
        BY <2>2, <2>3, <2>4, StoreUpdate, KeysTyped DEF SCCShape
    <2>6. WorkerOK'
        BY <1>2, <1>7, WorkSteps
    <2>. QED BY <1>4, <2>5, <2>6, NextTypeParts
<1>8. CASE Requeue /\ UNCHANGED <<store, faults>>
    BY <1>2, <1>3, <1>8, WorkSteps, WorkTyped DEF EnsureFrame
<1>. QED BY <1>5, <1>6, <1>7, <1>8 DEF EnsureSCC

LEMMA EnsurePVCTyped ==
    ASSUME TypeOK, EnsurePVC
    PROVE  TypeOK'
<1>. StoreOK /\ WorkerOK /\ CachesOK /\ ResourcesOK
    BY TypeParts
<1>. pc = "PVC" /\ EnsureFrame
    BY DEF EnsurePVC
<1>1. "ServiceAccount" \in Stages \ {"idle"}
    BY DEF Stages, EnsureStages
<1>2. CASE Advance("ServiceAccount") /\ UNCHANGED <<store, faults>>
    BY <1>1, <1>2, WorkSteps, WorkTyped DEF EnsureFrame
<1>3. CASE Requeue /\ UNCHANGED <<store, faults>>
    BY <1>1, <1>3, WorkSteps, WorkTyped DEF EnsureFrame
<1>4. CASE Ensure(ClaimKey, BuildPVC(work.obj.spec), "ServiceAccount")
    <2>1. ClaimKey \in Keys /\ ClaimKey # SCCKey
        BY RequestTyped, KeysTyped, SCCKeyUnique DEF ClaimKey
    <2>2. BuildPVC(work.obj.spec) \in Contents
        BY RequestTyped, ContentsTyped
    <2>. QED BY <1>1, <1>4, <2>1, <2>2, EnsureTyped
<1>. QED BY <1>2, <1>3, <1>4 DEF EnsurePVC

\* The eight stages that only ensure one object that is not the SCC.
LEMMA EnsureObjectsTyped ==
    ASSUME TypeOK,
           \/ EnsureServiceAccount
           \/ EnsureClusterRole
           \/ EnsureClusterRoleBinding
           \/ EnsureRole
           \/ EnsureRoleBinding
           \/ EnsureDeployment
           \/ EnsureService
           \/ EnsureStorageClass
    PROVE  TypeOK'
<1>. StoreOK /\ WorkerOK /\ CachesOK /\ ResourcesOK
    BY TypeParts
<1>. USE KeysTyped, SCCKeyUnique, ContentsTyped, NextStages, EnsureTyped,
         RequestTyped
<1>1. CASE EnsureServiceAccount
    BY <1>1 DEF EnsureServiceAccount, EnsureStages
<1>2. CASE EnsureClusterRole
    BY <1>2 DEF EnsureClusterRole, EnsureStages
<1>3. CASE EnsureClusterRoleBinding
    BY <1>3 DEF EnsureClusterRoleBinding, EnsureStages
<1>4. CASE EnsureRole
    BY <1>4 DEF EnsureRole, EnsureStages
<1>5. CASE EnsureRoleBinding
    BY <1>5 DEF EnsureRoleBinding, EnsureStages
<1>6. CASE EnsureDeployment
    BY <1>6 DEF EnsureDeployment, EnsureStages
<1>7. CASE EnsureService
    BY <1>7 DEF EnsureService, EnsureStages
<1>8. CASE EnsureStorageClass
    BY <1>8 DEF EnsureStorageClass
<1>. QED BY <1>1, <1>2, <1>3, <1>4, <1>5, <1>6, <1>7, <1>8

LEMMA EnsureAllResourcesTyped ==
    ASSUME TypeOK, EnsureAllResources
    PROVE  TypeOK'
<1>. StoreOK /\ WorkerOK /\ CachesOK /\ ResourcesOK
    BY TypeParts
<1>1. CASE PanicInBuildPVC
    BY <1>1, RestartTyped DEF PanicInBuildPVC, WorkerOK
<1>2. CASE EnsureFails
    <2>1. pc # "idle" /\ "SCC" \in Stages \ {"idle"}
        BY <1>2 DEF EnsureFails, EnsureStages, Stages
    <2>2. WorkerOK'
        BY <1>2, <2>1, WorkSteps DEF EnsureFails
    <2>. QED BY <1>2, <2>2, WorkTyped DEF EnsureFails, clusterVars
<1>3. CASE ProbeFails
    <2>1. pc # "idle" /\ "PVC" \in Stages \ {"idle"}
        BY <1>3 DEF ProbeFails, EnsureStages, Stages
    <2>2. WorkerOK'
        BY <1>3, <2>1, WorkSteps DEF ProbeFails
    <2>. QED BY <1>3, <2>2, WorkTyped DEF ProbeFails, clusterVars
<1>. QED BY <1>1, <1>2, <1>3, EnsureSCCTyped, EnsurePVCTyped,
            EnsureObjectsTyped DEF EnsureAllResources

-----------------------------------------------------------------------------

LEMMA StartTyped ==
    ASSUME TypeOK, NEW cr \in Provisioners, StartReconcile(cr)
    PROVE  TypeOK'
<1>. StoreOK /\ WorkerOK /\ CachesOK /\ ResourcesOK
    BY TypeParts
<1>1. WorkerOK'
    <2>1. CASE crCache[cr] = NoObj
        BY <2>1 DEF StartReconcile, WorkerOK
    <2>2. CASE crCache[cr] # NoObj
        <3>1. [cr |-> cr, obj |-> crCache[cr]] \in Requests
            BY <2>2 DEF CachesOK, Requests
        <3>2. work' # NoObj
            BY <2>2, <3>1, RequestsAssumption DEF StartReconcile
        <3>. QED BY <2>2, <3>1, <3>2, NextStages
                DEF StartReconcile, WorkerOK, EnsureStages
    <2>. QED BY <2>1, <2>2
<1>. QED BY <1>1, WorkTyped DEF StartReconcile, clusterVars

\* Writing one well-typed custom resource, or none.
LEMMA StoredTyped ==
    ASSUME TypeOK, pc # "idle", WorkerOK', WorkFrame,
           NEW changed \in CustomResources \cup {NoObj}, Stored(changed)
    PROVE  TypeOK'
<1>. StoreOK /\ WorkerOK /\ CachesOK /\ ResourcesOK
    BY TypeParts
<1>1. StoreOK' /\ CachesOK'
    BY DEF WorkFrame, StoreOK, CachesOK, SCCShape
<1>2. ResourcesOK'
    BY RequestTyped DEF WorkFrame, ResourcesOK, Stored
<1>. QED BY <1>1, <1>2, NextTypeParts

LEMMA UnstoredTyped ==
    ASSUME TypeOK, WorkerOK', WorkFrame, UNCHANGED crs
    PROVE  TypeOK'
BY WorkTyped DEF WorkFrame

LEMMA DeleteExternalTyped ==
    ASSUME TypeOK, pc # "idle",
           NEW k \in Keys, NEW next \in Stages \ {"idle"},
           DeleteExternal(k, next)
    PROVE  TypeOK'
<1>. StoreOK /\ WorkerOK /\ CachesOK /\ ResourcesOK
    BY TypeParts
<1>1. StoreOK'
    <2>1. CASE UNCHANGED store
        BY <2>1 DEF StoreOK, SCCShape
    <2>2. CASE store' = [store EXCEPT ![k] = NoObj]
        BY <2>2, StoreUpdate DEF SCCShape
    <2>. QED BY <2>1, <2>2 DEF DeleteExternal
<1>2. WorkerOK'
    BY WorkSteps DEF DeleteExternal
<1>3. CachesOK' /\ ResourcesOK'
    BY DEF DeleteExternal, EnsureFrame, CachesOK, ResourcesOK, SCCShape
<1>. QED BY <1>1, <1>2, <1>3, NextTypeParts

LEMMA ReconcileTyped ==
    ASSUME TypeOK, Reconcile
    PROVE  TypeOK'
<1>. StoreOK /\ WorkerOK /\ CachesOK /\ ResourcesOK
    BY TypeParts
<1>. USE NextStages DEF DeleteStages
<1>1. CASE UpdateStatus
    <2>. pc # "idle" /\ WorkFrame
        BY <1>1 DEF UpdateStatus
    <2>1. WorkerOK'
        BY <1>1, WorkSteps DEF UpdateStatus, Conflict
    <2>2. [work.obj EXCEPT !.error = ErrorText(work.obj.spec)] \in CustomResources
        BY RequestTyped DEF CustomResources, Errors
    <2>. QED BY <1>1, <2>1, <2>2, StoredTyped, UnstoredTyped
            DEF UpdateStatus, Conflict
<1>2. CASE KeepFinalizer
    <2>1. WorkerOK'
        BY <1>2, WorkSteps DEF KeepFinalizer
    <2>. QED BY <1>2, <2>1, UnstoredTyped DEF KeepFinalizer
<1>3. CASE AddFinalizer
    <2>. pc # "idle" /\ WorkFrame
        BY <1>3 DEF AddFinalizer
    <2>1. WorkerOK'
        BY <1>3, WorkSteps DEF AddFinalizer, Conflict
    <2>2. [work.obj EXCEPT !.finalized = TRUE] \in CustomResources
        BY RequestTyped DEF CustomResources
    <2>. QED BY <1>3, <2>1, <2>2, StoredTyped, UnstoredTyped
            DEF AddFinalizer, Conflict
<1>4. CASE IgnoreDeleted
    <2>1. WorkerOK'
        BY <1>4, WorkSteps DEF IgnoreDeleted
    <2>. QED BY <1>4, <2>1, UnstoredTyped DEF IgnoreDeleted
<1>5. CASE BeginCleanup
    <2>1. WorkerOK'
        BY <1>5, WorkSteps DEF BeginCleanup
    <2>. QED BY <1>5, <2>1, UnstoredTyped DEF BeginCleanup
<1>6. CASE DeleteClusterRole
    BY <1>6, KeysTyped, DeleteExternalTyped DEF DeleteClusterRole
<1>7. CASE DeleteClusterRoleBinding
    BY <1>7, KeysTyped, DeleteExternalTyped DEF DeleteClusterRoleBinding
<1>8. CASE RemoveFinalizer
    <2>. pc # "idle" /\ WorkFrame
        BY <1>8 DEF RemoveFinalizer
    <2>1. WorkerOK'
        BY <1>8, WorkSteps DEF RemoveFinalizer, Conflict
    <2>2. Released(work.obj) \in CustomResources \cup {NoObj}
        BY RequestTyped DEF CustomResources, Released
    <2>. QED BY <1>8, <2>1, <2>2, StoredTyped, UnstoredTyped
            DEF RemoveFinalizer, Conflict
<1>9. CASE UpdateFails
    <2>1. WorkerOK'
        BY <1>9, WorkSteps DEF UpdateFails
    <2>. QED BY <1>9, <2>1, UnstoredTyped DEF UpdateFails
<1>. QED BY <1>1, <1>2, <1>3, <1>4, <1>5, <1>6, <1>7, <1>8, <1>9,
            EnsureAllResourcesTyped DEF Reconcile

-----------------------------------------------------------------------------

\* Anybody may ask for a deletion, in either mode.
LEMMA DeletionTyped ==
    ASSUME TypeOK, NEW cr \in Provisioners, NEW mode \in BOOLEAN,
           UserDelete(cr, mode), UNCHANGED managerVars
    PROVE  TypeOK'
<1>. StoreOK /\ WorkerOK /\ CachesOK /\ ResourcesOK
    BY TypeParts
<1>1. WorkerOK' /\ CachesOK' /\ StoreOK'
    BY DEF WorkerOK, CachesOK, StoreOK, SCCShape, managerVars, UserDelete
<1>2. crs[cr] \in CustomResources
    BY DEF UserDelete, ResourcesOK
<1>3. [crs[cr] EXCEPT !.deleting = TRUE, !.foreground = mode] \in CustomResources
    BY <1>2 DEF CustomResources
<1>4. ResourcesOK'
    BY <1>3 DEF UserDelete, ResourcesOK
<1>. QED BY <1>1, <1>4, NextTypeParts

\* Whoever removes one object of the store.
LEMMA RemovalTyped ==
    ASSUME TypeOK, NEW k \in Keys, store' = [store EXCEPT ![k] = NoObj],
           UNCHANGED <<crs, births, used>> \/ Drift, UNCHANGED managerVars
    PROVE  TypeOK'
<1>. StoreOK /\ WorkerOK /\ CachesOK /\ ResourcesOK
    BY TypeParts
<1>1. WorkerOK' /\ CachesOK'
    BY DEF WorkerOK, CachesOK, SCCShape, managerVars
<1>2. StoreOK'
    BY StoreUpdate DEF SCCShape
<1>3. ResourcesOK'
    BY BoundsAssumption DEF Drift, ResourcesOK
<1>. QED BY <1>1, <1>2, <1>3, NextTypeParts

LEMMA EnvironmentTyped ==
    ASSUME TypeOK, Environment, UNCHANGED managerVars
    PROVE  TypeOK'
<1>. StoreOK /\ WorkerOK /\ CachesOK /\ ResourcesOK
    BY TypeParts
<1>1. WorkerOK' /\ CachesOK'
    BY DEF WorkerOK, CachesOK, SCCShape, managerVars
<1>2. UNCHANGED store => StoreOK'
    BY DEF StoreOK, SCCShape
<1>3. Drift => ResourcesOK'
    BY BoundsAssumption DEF Drift, ResourcesOK
<1>4. ASSUME NEW cr \in Provisioners, NEW spec \in Specs, UserCreate(cr, spec)
      PROVE  TypeOK'
    <2>1. births[cr] + 1 \in 1 .. MaxBirths
        BY <1>4, BoundsAssumption DEF UserCreate, ResourcesOK
    <2>2. [birth |-> births[cr] + 1, spec |-> Admitted(spec),
           deleting |-> FALSE, finalized |-> FALSE,
           foreground |-> FALSE, error |-> NoError] \in CustomResources
        BY <2>1 DEF CustomResources, AdmittedSpecs, Errors
    <2>3. ResourcesOK'
        BY <1>4, <2>1, <2>2, BoundsAssumption DEF UserCreate, ResourcesOK
    <2>. QED BY <1>1, <1>2, <1>4, <2>3, NextTypeParts DEF UserCreate
<1>5. ASSUME NEW cr \in Provisioners, NEW spec \in Specs, UserEdit(cr, spec)
      PROVE  TypeOK'
    <2>1. crs[cr] \in CustomResources
        BY <1>5 DEF UserEdit, ResourcesOK
    <2>2. [crs[cr] EXCEPT !.spec = Admitted(spec)] \in CustomResources
        BY <2>1 DEF CustomResources, AdmittedSpecs
    <2>3. crs' \in [Provisioners -> CustomResources \cup {NoObj}]
        BY <1>5, <2>2 DEF UserEdit, ResourcesOK
    <2>4. ResourcesOK'
        BY <1>5, <2>3, BoundsAssumption DEF UserEdit, ResourcesOK
    <2>. QED BY <1>1, <1>2, <1>5, <2>4, NextTypeParts DEF UserEdit
<1>6. ASSUME NEW k \in Keys, Provide(k)
      PROVE  TypeOK'
    <2>. DEFINE obj == [owner |-> NoObj, content |-> ForeignContent(k)]
    <2>1. ForeignContent(k) \in Contents
        BY ContentsTyped DEF ForeignContent
    <2>2. obj \in Objects /\ (k = SCCKey => SCCShape(obj))
        BY <2>1 DEF Objects, SCCShape, ForeignContent
    <2>3. StoreOK'
        BY <1>6, <2>2, StoreUpdate DEF Provide
    <2>. QED BY <1>1, <1>3, <1>6, <2>3, NextTypeParts DEF Provide
<1>7. ASSUME NEW account \in Administered, AdminAddSCCUser(account)
       PROVE  TypeOK'
    <2>. DEFINE old == store[SCCKey]
                obj == [old EXCEPT !.content.users = @ \cup {account}]
    <2>1. old \in Objects /\ old.content \in [users : SUBSET Accounts]
        BY <1>7, KeysTyped DEF AdminAddSCCUser, StoreOK, SCCShape
    <2>2. obj.content \in [users : SUBSET Accounts]
        BY <2>1, AccountsTyped DEF Objects
    <2>3. obj \in Objects
        BY <2>1, <2>2, ContentsTyped DEF Objects
    <2>4. store' = [store EXCEPT ![SCCKey] = obj]
        BY <1>7 DEF AdminAddSCCUser
    <2>5. StoreOK'
        BY <2>2, <2>3, <2>4, StoreUpdate, KeysTyped DEF SCCShape
    <2>. QED BY <1>1, <1>3, <1>7, <2>5, NextTypeParts DEF AdminAddSCCUser
<1>8. ASSUME NEW cr \in Provisioners, FinishForeground(cr)
       PROVE  TypeOK'
    <2>1. crs[cr] \in CustomResources
        BY <1>8 DEF FinishForeground, ResourcesOK
    <2>2. [crs[cr] EXCEPT !.foreground = FALSE] \in CustomResources
        BY <2>1 DEF CustomResources
    <2>3. ResourcesOK'
        BY <1>8, <2>2 DEF FinishForeground, ResourcesOK
    <2>. QED BY <1>1, <1>2, <1>8, <2>3, NextTypeParts DEF FinishForeground
<1>9. CASE \E cr \in Provisioners, spec \in Specs : UserCreate(cr, spec)
    BY <1>4, <1>9
<1>10. CASE \E cr \in Provisioners, spec \in Specs : UserEdit(cr, spec)
    BY <1>5, <1>10
<1>11. CASE \E cr \in Deletable, mode \in DeletionModes : UserDelete(cr, mode)
    BY <1>11, BoundsAssumption, DeletionTyped
<1>12. CASE \E k \in Drifting : DriftDelete(k)
    BY <1>12, ActorsAssumption, RemovalTyped DEF DriftDelete
<1>13. CASE \E k \in Providable : Provide(k)
    BY <1>6, <1>13, ActorsAssumption
<1>14. CASE \E account \in Administered : AdminAddSCCUser(account)
    BY <1>7, <1>14
<1>15. CASE \E k \in Keys : GarbageCollect(k)
    BY <1>15, RemovalTyped DEF GarbageCollect
<1>16. CASE \E cr \in Provisioners : FinishForeground(cr)
    BY <1>8, <1>16
<1>. QED BY <1>9, <1>10, <1>11, <1>12, <1>13, <1>14, <1>15, <1>16
        DEF Environment

LEMMA InformersTyped ==
    ASSUME TypeOK,
           \/ \E k \in Lagging : Sync(k)
           \/ \E cr \in Provisioners : SyncCR(cr)
    PROVE  TypeOK'
<1>. StoreOK /\ WorkerOK /\ CachesOK /\ ResourcesOK
    BY TypeParts
<1>1. StoreOK' /\ ResourcesOK'
    BY DEF Sync, SyncCR, clusterVars, StoreOK, ResourcesOK, SCCShape
<1>2. WorkerOK'
    BY DEF Sync, SyncCR, WorkerOK
<1>3. CachesOK'
    <2>1. CASE \E k \in Lagging : Sync(k)
        BY <2>1, LaggingAssumption DEF Sync, CachesOK, StoreOK, SCCShape
    <2>2. CASE \E cr \in Provisioners : SyncCR(cr)
        BY <2>2 DEF SyncCR, CachesOK, ResourcesOK, SCCShape
    <2>. QED BY <2>1, <2>2
<1>. QED BY <1>1, <1>2, <1>3, NextTypeParts

LEMMA StepTyped ==
    ASSUME TypeOK, [Next]_vars
    PROVE  TypeOK'
<1>. StoreOK /\ WorkerOK /\ CachesOK /\ ResourcesOK
    BY TypeParts
<1>1. CASE Crash
    BY <1>1, RestartTyped, FaultsAssumption DEF Crash, Fault, WorkerOK
<1>2. CASE UNCHANGED vars
    BY <1>2 DEF vars, TypeOK, ClusterTypeOK, ManagerTypeOK, SCCShape
<1>. QED BY <1>1, <1>2, EnvironmentTyped, InformersTyped, StartTyped,
            ReconcileTyped DEF Next

\* Every variable keeps its type, and the worker is idle exactly when it has
\* no request.
THEOREM TypeCorrect == Spec => []TypeOK
<1>1. Init => TypeOK
    BY InitTyped
<1>2. TypeOK /\ [Next]_vars => TypeOK'
    BY StepTyped
<1>. QED BY <1>1, <1>2, PTL DEF Spec

-----------------------------------------------------------------------------
(* What users did is kept *)

CleanupStages == DeleteStages \cup {"removeFinalizer"}

\* The stages behind the deletion branch work on a copy that was marked and
\* carried the finalizer when it was read.
BranchTaken == pc \in CleanupStages => Deleting /\ Finalized

LEMMA BranchStep ==
    ASSUME TypeOK, BranchTaken, [Next]_vars
    PROVE  BranchTaken'
<1>. USE DEF BranchTaken, CleanupStages, DeleteStages, Deleting, Finalized
<1>1. CASE Environment /\ UNCHANGED managerVars
    BY <1>1 DEF managerVars
<1>2. CASE \/ \E k \in Lagging : Sync(k)
           \/ \E cr \in Provisioners : SyncCR(cr)
    BY <1>2 DEF Sync, SyncCR
<1>3. CASE \E cr \in Provisioners : StartReconcile(cr)
    BY <1>3 DEF StartReconcile
<1>4. CASE EnsureAllResources
    <2>. USE <1>4 DEF Ensure, Written, Advance, Requeue
    <2>1. CASE EnsureSCC
        BY <2>1 DEF EnsureSCC
    <2>2. CASE EnsurePVC
        BY <2>2 DEF EnsurePVC
    <2>3. CASE PanicInBuildPVC
        BY <2>3 DEF PanicInBuildPVC, Restart
    <2>4. CASE EnsureFails \/ ProbeFails
        BY <2>4 DEF EnsureFails, ProbeFails
    <2>. QED BY <2>1, <2>2, <2>3, <2>4
            DEF EnsureAllResources, EnsureServiceAccount, EnsureClusterRole,
                EnsureClusterRoleBinding, EnsureRole, EnsureRoleBinding,
                EnsureDeployment, EnsureService, EnsureStorageClass
<1>5. CASE \/ UpdateStatus \/ KeepFinalizer \/ AddFinalizer \/ IgnoreDeleted
           \/ RemoveFinalizer \/ UpdateFails
    BY <1>5 DEF UpdateStatus, KeepFinalizer, AddFinalizer, IgnoreDeleted,
                RemoveFinalizer, UpdateFails, Conflict, Finish, Requeue
<1>6. CASE BeginCleanup
    BY <1>6 DEF BeginCleanup, Advance
<1>7. CASE DeleteClusterRole \/ DeleteClusterRoleBinding
    BY <1>7 DEF DeleteClusterRole, DeleteClusterRoleBinding, DeleteExternal,
                Written, Advance, Requeue
<1>8. CASE Crash
    BY <1>8 DEF Crash, Restart
<1>9. CASE UNCHANGED vars
    BY <1>9 DEF vars
<1>. QED BY <1>1, <1>2, <1>3, <1>4, <1>5, <1>6, <1>7, <1>8, <1>9
        DEF Next, Reconcile

\* deleteExternalResources and the removal of the finalizer are only reached
\* with a copy of the resource that asks for them.
THEOREM BranchInvariant == Spec => []BranchTaken
<1>1. Init => BranchTaken
    BY DEF Init, ManagerInit, BranchTaken, CleanupStages, DeleteStages
<1>2. TypeOK /\ BranchTaken /\ [Next]_vars => BranchTaken'
    BY BranchStep
<1>. QED BY <1>1, <1>2, TypeCorrect, PTL DEF Spec

\* A resource that does not change keeps all it should.
LEMMA UnchangedKept ==
    ASSUME NEW cr, crs'[cr] = crs[cr]
    PROVE  IntentKept(cr)
BY DEF IntentKept

\* An optimistic write that keeps birth, spec and deletion mark of the copy it
\* was made from, and the finalizer too unless deletion was requested.
LEMMA FreshWriteKept ==
    ASSUME TypeOK, NEW cr \in Provisioners, pc # "idle",
           NEW changed \in CustomResources \cup {NoObj},
           Fresh, Stored(changed), births' = births,
           changed # NoObj =>
              /\ changed.birth = work.obj.birth
              /\ changed.spec = work.obj.spec
              /\ changed.deleting = work.obj.deleting,
           changed = NoObj \/ ~ changed.finalized => (Finalized => Deleting)
    PROVE  IntentKept(cr)
<1>1. work.cr \in Provisioners /\ work.obj \in CustomResources
    BY TypeParts, RequestTyped
<1>2. CASE cr # work.cr
    BY <1>2, UnchangedKept DEF Stored, TypeOK, ClusterTypeOK
<1>3. CASE cr = work.cr
    <2>1. crs[cr] = work.obj /\ crs'[cr] = changed
        BY <1>1, <1>3 DEF Fresh, Stored, TypeOK, ClusterTypeOK
    <2>2. crs[cr] # NoObj
        BY <1>1, <2>1, NoObjAssumption
    <2>. QED BY <2>1, <2>2 DEF IntentKept, Finalized, Deleting
<1>. QED BY <1>2, <1>3

\* An edit changes nothing but the spec.
LEMMA EditedResource ==
    ASSUME TypeOK, NEW x \in Provisioners, NEW spec \in Specs, UserEdit(x, spec)
    PROVE  /\ crs[x] \in CustomResources
           /\ crs'[x] \in CustomResources
           /\ crs'[x].birth = crs[x].birth
           /\ crs'[x].deleting = crs[x].deleting
           /\ crs'[x].finalized = crs[x].finalized
           /\ used'.edits # used.edits
           /\ \A cr \in Provisioners \ {x} : crs'[cr] = crs[cr]
<1>. /\ crs \in [Provisioners -> CustomResources \cup {NoObj}]
     /\ used \in [edits : 0 .. MaxEdits, drifts : 0 .. MaxDrifts]
    BY DEF TypeOK, ClusterTypeOK
<1>1. crs[x] \in CustomResources /\ used'.edits # used.edits
    BY BoundsAssumption DEF UserEdit
<1>2. /\ crs'[x] = [crs[x] EXCEPT !.spec = Admitted(spec)]
      /\ \A cr \in Provisioners \ {x} : crs'[cr] = crs[cr]
    BY DEF UserEdit
<1>. QED BY <1>1, <1>2 DEF CustomResources, AdmittedSpecs

\* Everything that writes custom resources.
LEMMA WritersOfResources ==
    ASSUME [Next]_vars
    PROVE  UNCHANGED crs \/ Environment \/ UpdateStatus \/ AddFinalizer
           \/ RemoveFinalizer
<1>1. EnsureAllResources => UNCHANGED crs
    BY DEF EnsureAllResources, EnsureSCC, EnsurePVC, PanicInBuildPVC,
           EnsureServiceAccount, EnsureClusterRole, EnsureClusterRoleBinding,
           EnsureRole, EnsureRoleBinding, EnsureDeployment, EnsureService,
           EnsureStorageClass, EnsureFails, ProbeFails, EnsureFrame, clusterVars
<1>2. KeepFinalizer \/ IgnoreDeleted \/ BeginCleanup \/ UpdateFails
          \/ DeleteClusterRole \/ DeleteClusterRoleBinding => UNCHANGED crs
    BY DEF KeepFinalizer, IgnoreDeleted, BeginCleanup, UpdateFails,
           DeleteClusterRole, DeleteClusterRoleBinding, DeleteExternal,
           EnsureFrame
<1>. QED BY <1>1, <1>2
        DEF Next, Reconcile, Sync, SyncCR, StartReconcile, Crash, clusterVars, vars

LEMMA EnvironmentKeeps ==
    ASSUME TypeOK, Environment, NEW cr \in Provisioners
    PROVE  IntentKept(cr)
<1>. /\ crs \in [Provisioners -> CustomResources \cup {NoObj}]
     /\ births \in [Provisioners -> 0 .. MaxBirths]
     /\ used \in [edits : 0 .. MaxEdits, drifts : 0 .. MaxDrifts]
    BY DEF TypeOK, ClusterTypeOK
<1>1. ASSUME NEW x \in Provisioners, NEW spec \in Specs, UserCreate(x, spec)
      PROVE  IntentKept(cr)
    BY <1>1, BoundsAssumption DEF UserCreate, IntentKept
<1>2. ASSUME NEW x \in Provisioners, NEW spec \in Specs, UserEdit(x, spec)
      PROVE  IntentKept(cr)
    BY <1>2, EditedResource, NoObjAssumption, UnchangedKept DEF IntentKept
<1>3. ASSUME NEW x \in Deletable, NEW mode \in DeletionModes, UserDelete(x, mode)
      PROVE  IntentKept(cr)
    BY <1>3, NoObjAssumption, BoundsAssumption
       DEF UserDelete, IntentKept, CustomResources
<1>4. ASSUME NEW x \in Provisioners, FinishForeground(x)
      PROVE  IntentKept(cr)
    BY <1>4, NoObjAssumption DEF FinishForeground, IntentKept, CustomResources
<1>5. CASE UNCHANGED crs
    BY <1>5, UnchangedKept
<1>. QED BY <1>1, <1>2, <1>3, <1>4, <1>5
        DEF Environment, DriftDelete, Provide, AdminAddSCCUser, GarbageCollect,
            Drift

LEMMA StepKeepsIntent ==
    ASSUME TypeOK, BranchTaken, [Next]_vars, NEW cr \in Provisioners
    PROVE  IntentKept(cr)
<1>. USE DEF WorkFrame
<1>1. CASE Environment
    BY <1>1, EnvironmentKeeps
<1>2. CASE UNCHANGED crs
    BY <1>2, UnchangedKept
<1>3. CASE pc # "idle" /\ Fresh /\ (UpdateStatus \/ AddFinalizer \/ RemoveFinalizer)
    <2>1. work.cr \in Provisioners /\ work.obj \in CustomResources
        BY <1>3, TypeParts, RequestTyped
    <2>2. CASE UpdateStatus
        <3>. DEFINE changed == [work.obj EXCEPT !.error = ErrorText(work.obj.spec)]
        <3>1. /\ changed \in CustomResources
              /\ changed.birth = work.obj.birth /\ changed.spec = work.obj.spec
              /\ changed.deleting = work.obj.deleting
              /\ changed.finalized = work.obj.finalized
            BY <2>1 DEF CustomResources, Errors
        <3>2. Stored(changed) /\ births' = births
            BY <1>3, <2>2 DEF UpdateStatus, Conflict
        <3>. HIDE DEF changed
        <3>. QED BY <1>3, <3>1, <3>2, FreshWriteKept, NoObjAssumption
                DEF Finalized
    <2>3. CASE AddFinalizer
        <3>. DEFINE changed == [work.obj EXCEPT !.finalized = TRUE]
        <3>1. /\ changed \in CustomResources
              /\ changed.birth = work.obj.birth /\ changed.spec = work.obj.spec
              /\ changed.deleting = work.obj.deleting
            BY <2>1 DEF CustomResources
        <3>2. Stored(changed) /\ births' = births /\ ~ Finalized
            BY <1>3, <2>3 DEF AddFinalizer, Conflict
        <3>. HIDE DEF changed
        <3>. QED BY <1>3, <3>1, <3>2, FreshWriteKept
    <2>4. CASE RemoveFinalizer
        <3>. DEFINE changed == Released(work.obj)
        <3>1. /\ changed \in CustomResources \cup {NoObj}
              /\ changed # NoObj =>
                    /\ changed.birth = work.obj.birth
                    /\ changed.spec = work.obj.spec
                    /\ changed.deleting = work.obj.deleting
            BY <2>1 DEF Released, CustomResources
        <3>2. Stored(changed) /\ births' = births /\ pc = "removeFinalizer"
            BY <1>3, <2>4 DEF RemoveFinalizer, Conflict
        <3>3. Deleting
            BY <3>2 DEF BranchTaken, CleanupStages
        <3>. HIDE DEF changed
        <3>. QED BY <1>3, <3>1, <3>2, <3>3, FreshWriteKept
    <2>. QED BY <1>3, <2>2, <2>3, <2>4
<1>4. \/ Environment
      \/ UNCHANGED crs
      \/ pc # "idle" /\ Fresh /\ (UpdateStatus \/ AddFinalizer \/ RemoveFinalizer)
    <2>1. UpdateStatus => UNCHANGED crs \/ (pc # "idle" /\ Fresh)
        BY DEF UpdateStatus, Conflict
    <2>2. AddFinalizer => UNCHANGED crs \/ (pc # "idle" /\ Fresh)
        BY DEF AddFinalizer, Conflict
    <2>3. RemoveFinalizer => UNCHANGED crs \/ (pc # "idle" /\ Fresh)
        BY DEF RemoveFinalizer, Conflict
    <2>. QED BY <2>1, <2>2, <2>3, WritersOfResources
<1>. QED BY <1>1, <1>2, <1>3, <1>4

\* No write of the operator, made from however old a copy, undoes what a user
\* did to a resource: every write is optimistic, and only the deletion branch
\* takes the finalizer off.
THEOREM UserIntent == Spec => UserIntentKept
<1>1. TypeOK /\ BranchTaken /\ [Next]_vars =>
          [\A cr \in Provisioners : IntentKept(cr)]_vars
    BY StepKeepsIntent
<1>. QED BY <1>1, TypeCorrect, BranchInvariant, PTL DEF Spec, UserIntentKept

-----------------------------------------------------------------------------
(* Errors are those of the stored spec *)

\* The error of a resource is only written for a copy that is invalid.
OnlyInvalid == pc = "status" => ~ Valid(work.obj.spec)

LEMMA OnlyInvalidStep ==
    ASSUME TypeOK, OnlyInvalid, [Next]_vars
    PROVE  OnlyInvalid'
<1>1. CASE UNCHANGED <<pc, work>>
    BY <1>1 DEF OnlyInvalid
<1>2. CASE pc' # "status"
    BY <1>2 DEF OnlyInvalid
<1>3. CASE \E cr \in Provisioners : StartReconcile(cr)
    BY <1>3 DEF StartReconcile, OnlyInvalid
<1>4. EnsureAllResources => pc' # "status"
    <2>. USE DEF Ensure, Written, Advance, Requeue
    <2>1. EnsureSCC => pc' # "status"
        BY DEF EnsureSCC
    <2>2. EnsurePVC => pc' # "status"
        BY DEF EnsurePVC
    <2>3. PanicInBuildPVC \/ EnsureFails \/ ProbeFails => pc' # "status"
        BY DEF PanicInBuildPVC, Restart, EnsureFails, ProbeFails
    <2>. QED BY <2>1, <2>2, <2>3
        DEF EnsureAllResources, EnsureServiceAccount, EnsureClusterRole,
            EnsureClusterRoleBinding, EnsureRole, EnsureRoleBinding,
            EnsureDeployment, EnsureService, EnsureStorageClass
<1>5. Reconcile => pc' # "status"
    BY <1>4
       DEF Reconcile, UpdateStatus, KeepFinalizer, AddFinalizer, IgnoreDeleted,
           BeginCleanup, DeleteClusterRole, DeleteClusterRoleBinding,
           DeleteExternal, RemoveFinalizer, UpdateFails, Conflict, Finish,
           Requeue, Advance, Written
<1>. QED BY <1>1, <1>2, <1>3, <1>5
        DEF Next, Sync, SyncCR, Crash, Restart, vars, managerVars

LEMMA StepTellsTruth ==
    ASSUME TypeOK, OnlyInvalid, [Next]_vars, NEW cr \in Provisioners
    PROVE  ErrorTruthful(cr)
<1>. /\ crs \in [Provisioners -> CustomResources \cup {NoObj}]
     /\ births \in [Provisioners -> 0 .. MaxBirths]
    BY DEF TypeOK, ClusterTypeOK
<1>1. ASSUME crs[cr] # NoObj /\ crs'[cr] # NoObj => crs'[cr].error = crs[cr].error
      PROVE  ErrorTruthful(cr)
    BY <1>1 DEF ErrorTruthful
<1>2. CASE UNCHANGED crs
    BY <1>1, <1>2
<1>3. CASE Environment
    <2>1. CASE \E x \in Provisioners, spec \in Specs : UserCreate(x, spec)
        BY <1>1, <2>1 DEF UserCreate
    <2>2. CASE \E x \in Provisioners, spec \in Specs : UserEdit(x, spec)
        <3>1. \A obj \in CustomResources : \A spec :
                 [obj EXCEPT !.spec = spec].error = obj.error
            BY DEF CustomResources
        <3>. QED BY <1>1, <2>2, <3>1 DEF UserEdit
    <2>3. CASE \E x \in Deletable, mode \in DeletionModes : UserDelete(x, mode)
        BY <1>1, <2>3, BoundsAssumption DEF UserDelete, CustomResources
    <2>4. CASE \E x \in Provisioners : FinishForeground(x)
        BY <1>1, <2>4 DEF FinishForeground, CustomResources
    <2>. QED BY <1>2, <1>3, <2>1, <2>2, <2>3, <2>4
            DEF Environment, DriftDelete, Provide, AdminAddSCCUser,
                GarbageCollect, Drift
<1>4. CASE UpdateStatus \/ AddFinalizer \/ RemoveFinalizer
    <2>1. work.cr \in Provisioners /\ work.obj \in CustomResources
        BY <1>4, TypeParts, RequestTyped DEF UpdateStatus, AddFinalizer, RemoveFinalizer
    <2>2. \A obj \in CustomResources :
             /\ [obj EXCEPT !.finalized = TRUE].error = obj.error
             /\ [obj EXCEPT !.finalized = FALSE].error = obj.error
             /\ \A e : [obj EXCEPT !.error = e].error = e
        BY DEF CustomResources
    <2>3. ASSUME NEW new, Fresh, Stored(new), new # NoObj => new.error = work.obj.error
          PROVE  ErrorTruthful(cr)
        <3>1. CASE cr = work.cr
            BY <1>1, <2>1, <2>3, <3>1 DEF Fresh, Stored
        <3>2. CASE cr # work.cr
            BY <1>1, <2>3, <3>2 DEF Stored
        <3>. QED BY <3>1, <3>2
    <2>4. CASE UpdateStatus
        <3>. DEFINE new == [work.obj EXCEPT !.error = ErrorText(work.obj.spec)]
        <3>1. new.error = ErrorText(work.obj.spec) /\ ~ Valid(work.obj.spec)
            BY <2>1, <2>2, <2>4 DEF UpdateStatus, OnlyInvalid
        <3>2. UNCHANGED crs \/ (Fresh /\ Stored(new))
            BY <2>4 DEF UpdateStatus, Conflict
        <3>. HIDE DEF new
        <3>3. ASSUME Fresh, Stored(new), cr = work.cr PROVE ErrorTruthful(cr)
            BY <2>1, <3>1, <3>3 DEF Fresh, Stored, ErrorTruthful
        <3>4. ASSUME Stored(new), cr # work.cr PROVE ErrorTruthful(cr)
            BY <1>1, <3>4 DEF Stored
        <3>. QED BY <1>2, <3>2, <3>3, <3>4
    <2>5. CASE AddFinalizer
        BY <1>2, <2>1, <2>2, <2>3, <2>5 DEF AddFinalizer, Conflict
    <2>6. CASE RemoveFinalizer
        BY <1>2, <2>1, <2>2, <2>3, <2>6 DEF RemoveFinalizer, Conflict, Released
    <2>. QED BY <1>4, <2>4, <2>5, <2>6
<1>. QED BY <1>2, <1>3, <1>4, WritersOfResources

\* status.error only ever changes to what validate() says of the spec that is
\* stored next to it, however old the copy Reconcile validated.
THEOREM ErrorsTruthful == Spec => ErrorsMatch
<1>1. Init => OnlyInvalid
    BY DEF Init, ManagerInit, OnlyInvalid
<1>2. TypeOK /\ OnlyInvalid /\ [Next]_vars => OnlyInvalid'
    BY OnlyInvalidStep
<1>3. TypeOK /\ OnlyInvalid /\ [Next]_vars =>
          [\A cr \in Provisioners : ErrorTruthful(cr)]_vars
    BY StepTellsTruth
<1>. QED BY <1>1, <1>2, <1>3, TypeCorrect, PTL DEF Spec, ErrorsMatch

-----------------------------------------------------------------------------
(* The finalizer goes after the cleanup *)

Finds(k) == Exists(k) => Cached(k) # NoObj

\* What goes well in a step of a cleanup that is sound: a stage only goes on
\* after a Get that finds an object which is there and does not fail, and
\* nobody else makes the two objects.  The informers may trail.
SoundCleanup ==
    /\ pc = "deleteClusterRole" /\ pc' = "deleteClusterRoleBinding" =>
          Finds(ClusterRoleKey) /\ UNCHANGED faults
    /\ pc = "deleteClusterRoleBinding" /\ pc' = "removeFinalizer" =>
          Finds(ClusterRoleBindingKey) /\ UNCHANGED faults
    /\ \A k \in {ClusterRoleKey, ClusterRoleBindingKey} : ~ Provide(k)

\* How far the cleanup got at each of its stages.
CleanedSoFar ==
    /\ pc = "deleteClusterRoleBinding" => ~ Exists(ClusterRoleKey)
    /\ pc = "removeFinalizer" =>
          ~ Exists(ClusterRoleKey) /\ ~ Exists(ClusterRoleBindingKey)

LEMMA EnsureLeavesCleanup ==
    ASSUME EnsureAllResources
    PROVE  pc' \notin CleanupStages
<1>. USE DEF CleanupStages, DeleteStages, Ensure, Written, Advance, Requeue
<1>1. CASE EnsureSCC
    BY <1>1 DEF EnsureSCC
<1>2. CASE EnsurePVC
    BY <1>2 DEF EnsurePVC
<1>3. CASE PanicInBuildPVC
    BY <1>3 DEF PanicInBuildPVC, Restart
<1>4. CASE EnsureFails \/ ProbeFails
    BY <1>4 DEF EnsureFails, ProbeFails
<1>. QED BY <1>1, <1>2, <1>3, <1>4
        DEF EnsureAllResources, EnsureServiceAccount, EnsureClusterRole,
            EnsureClusterRoleBinding, EnsureRole, EnsureRoleBinding,
            EnsureDeployment, EnsureService, EnsureStorageClass

\* Only a stage of EnsureAllResources brings the two objects back.
LEMMA EnvironmentCreatesNone ==
    ASSUME TypeOK, Environment,
           NEW k \in {ClusterRoleKey, ClusterRoleBindingKey}, ~ Exists(k),
           ~ Provide(k)
    PROVE  ~ Exists(k)'
<1>1. store \in [Keys -> Objects \cup {NoObj}]
    BY DEF TypeOK, ClusterTypeOK
<1>2. k \in Keys /\ SCCKey \in Keys /\ k # SCCKey
    BY KeysTyped, SCCKeyUnique
<1>. QED BY <1>1, <1>2
        DEF Exists, Environment, UserCreate, UserEdit, UserDelete, DriftDelete,
            Provide, AdminAddSCCUser, GarbageCollect, FinishForeground

LEMMA CleanedStep ==
    ASSUME TypeOK, SoundCleanup, CleanedSoFar, [Next]_vars
    PROVE  CleanedSoFar'
<1>. USE DEF CleanedSoFar
<1>1. CASE Environment /\ UNCHANGED managerVars
    BY <1>1, EnvironmentCreatesNone DEF SoundCleanup, managerVars
<1>2. CASE UNCHANGED <<store, pc>>
    BY <1>2 DEF Exists
<1>3. CASE pc' \notin CleanupStages
    BY <1>3 DEF CleanupStages, DeleteStages
<1>4. CASE BeginCleanup
    BY <1>4 DEF BeginCleanup, Advance
<1>5. CASE DeleteClusterRole \/ DeleteClusterRoleBinding
    <2>1. /\ store \in [Keys -> Objects \cup {NoObj}]
          /\ ClusterRoleKey \in Keys /\ ClusterRoleBindingKey \in Keys
        BY KeysTyped DEF TypeOK, ClusterTypeOK
    <2>2. ~ (Fault /\ UNCHANGED faults)
        BY FaultsAssumption DEF Fault, TypeOK, ManagerTypeOK
    <2>3. CASE DeleteClusterRole
        BY <2>1, <2>2, <2>3
           DEF SoundCleanup, Finds, DeleteClusterRole, DeleteExternal, Exists,
               Written, Advance, Requeue
    <2>4. CASE DeleteClusterRoleBinding
        BY <2>1, <2>2, <2>4
           DEF SoundCleanup, Finds, DeleteClusterRoleBinding, DeleteExternal,
               Exists, Written, Advance, Requeue
    <2>. QED BY <1>5, <2>3, <2>4
<1>6. \/ UpdateStatus \/ KeepFinalizer \/ AddFinalizer \/ IgnoreDeleted
      \/ RemoveFinalizer \/ UpdateFails \/ Crash
      \/ \E cr \in Provisioners : StartReconcile(cr)
      => pc' \notin CleanupStages
    BY DEF UpdateStatus, KeepFinalizer, AddFinalizer, IgnoreDeleted,
           RemoveFinalizer, UpdateFails, Crash, StartReconcile, Conflict,
           Finish, Requeue, Restart, CleanupStages, DeleteStages
<1>7. \/ \E k \in Lagging : Sync(k)
      \/ \E cr \in Provisioners : SyncCR(cr)
      \/ UNCHANGED vars
      => UNCHANGED <<store, pc>>
    BY DEF Sync, SyncCR, clusterVars, vars
<1>. QED BY <1>1, <1>2, <1>3, <1>4, <1>5, <1>6, <1>7, EnsureLeavesCleanup
        DEF Next, Reconcile

LEMMA CleanedStutter == CleanedSoFar /\ UNCHANGED vars => CleanedSoFar'
BY DEF CleanedSoFar, Exists, vars

LEMMA ReleaseIsRemoval ==
    ASSUME TypeOK, [Next]_vars, NEW cr \in Provisioners, Releases(cr)
    PROVE  pc = "removeFinalizer" /\ work.cr = cr /\ Fresh
<1>. /\ crs \in [Provisioners -> CustomResources \cup {NoObj}]
     /\ births \in [Provisioners -> 0 .. MaxBirths]
    BY DEF TypeOK, ClusterTypeOK
<1>1. crs'[cr] # crs[cr]
    BY DEF Releases
<1>2. ~ Environment
    <2>1. ASSUME NEW x \in Provisioners, NEW spec \in Specs, UserCreate(x, spec)
          PROVE  FALSE
        BY <2>1 DEF UserCreate, Releases
    <2>2. ASSUME NEW x \in Provisioners, NEW spec \in Specs, UserEdit(x, spec)
          PROVE  FALSE
        BY <2>2, NoObjAssumption, EditedResource DEF Releases
    <2>3. ASSUME NEW x \in Deletable, NEW mode \in DeletionModes, UserDelete(x, mode)
          PROVE  FALSE
        BY <2>3, NoObjAssumption, BoundsAssumption
           DEF UserDelete, Releases, CustomResources
    <2>4. ASSUME NEW x \in Provisioners, FinishForeground(x)
          PROVE  FALSE
        BY <2>4, NoObjAssumption DEF FinishForeground, Releases, CustomResources
    <2>. QED BY <1>1, <2>1, <2>2, <2>3, <2>4
            DEF Environment, DriftDelete, Provide, AdminAddSCCUser,
                GarbageCollect, Drift
<1>3. ~ (UpdateStatus \/ AddFinalizer)
    <2>1. SUFFICES ASSUME UpdateStatus \/ AddFinalizer PROVE FALSE
        OBVIOUS
    <2>2. work.cr \in Provisioners /\ work.obj \in CustomResources
        BY <2>1, TypeParts, RequestTyped DEF UpdateStatus, AddFinalizer
    <2>3. crs[cr] = work.obj /\ cr = work.cr
        BY <1>1, <2>1, <2>2
           DEF UpdateStatus, AddFinalizer, Conflict, Fresh, Stored
    <2>4. work.obj.finalized
        BY <2>3 DEF Releases
    <2>5. /\ [work.obj EXCEPT !.error = ErrorText(work.obj.spec)]
               \in {obj \in CustomResources : obj.finalized}
          /\ [work.obj EXCEPT !.finalized = TRUE]
               \in {obj \in CustomResources : obj.finalized}
        BY <2>2, <2>4 DEF CustomResources, Errors
    <2>6. crs'[cr] \in {obj \in CustomResources : obj.finalized}
        BY <1>1, <2>1, <2>2, <2>3, <2>5
           DEF UpdateStatus, AddFinalizer, Conflict, Stored
    <2>. QED BY <2>6, NoObjAssumption DEF Releases
<1>4. UNCHANGED crs \/ Environment \/ UpdateStatus \/ AddFinalizer \/ RemoveFinalizer
    BY WritersOfResources
<1>5. RemoveFinalizer => work.cr = cr /\ Fresh
    BY <1>1 DEF RemoveFinalizer, Stored, Conflict
<1>. QED BY <1>1, <1>2, <1>3, <1>4, <1>5 DEF RemoveFinalizer

\* In a behaviour whose cleanups are sound the finalizer only goes when both
\* objects are deleted: what earlier reconciles, crashes and lost replies left
\* or recreated is deleted by the last cleanup, and no step between its Deletes
\* and the Update that takes the finalizer off brings it back.  The run
\* stale_cleanup has a behaviour whose cleanup is not sound.
THEOREM CleanRelease == Spec /\ [][SoundCleanup]_vars => CleanBeforeRelease
<1>1. Init => CleanedSoFar
    BY DEF Init, ManagerInit, CleanedSoFar
<1>2. TypeOK /\ CleanedSoFar /\ [Next]_vars /\ [SoundCleanup]_vars => CleanedSoFar'
    BY CleanedStep, CleanedStutter
<1>3. TypeOK /\ CleanedSoFar /\ [Next]_vars =>
          [\A cr \in Provisioners : Releases(cr) =>
              ~ Exists(ClusterRoleKey) /\ ~ Exists(ClusterRoleBindingKey)]_vars
    BY ReleaseIsRemoval DEF CleanedSoFar
<1>. QED BY <1>1, <1>2, <1>3, TypeCorrect, PTL DEF Spec, CleanBeforeRelease

-----------------------------------------------------------------------------
(* Users of the SCC *)

\* A write to one key that never overwrites an object.
LEMMA CreationKeepsUsers ==
    ASSUME NEW k, NEW obj, store' = [store EXCEPT ![k] = obj],
           store[k] = NoObj \/ obj = NoObj,
           store \in [Keys -> Objects \cup {NoObj}]
    PROVE  UsersKept
<1>. SCCKey \in Keys
    BY KeysTyped
<1>. QED BY DEF UsersKept, Exists

LEMMA AdditionKeepsUsers ==
    ASSUME StoreOK, Exists(SCCKey), NEW account \in Accounts,
           store' = [store EXCEPT ![SCCKey] =
                       [store[SCCKey] EXCEPT !.content.users = @ \cup {account}]]
    PROVE  UsersKept
<1>1. SCCKey \in Keys /\ store[SCCKey] \in Objects
    BY KeysTyped DEF StoreOK, Exists
<1>2. store[SCCKey].content \in [users : SUBSET Accounts]
    BY DEF StoreOK, SCCShape, Exists
<1>3. store'[SCCKey].content.users = store[SCCKey].content.users \cup {account}
    BY <1>1, <1>2 DEF StoreOK, Objects
<1>. QED BY <1>3 DEF UsersKept

\* What is written back is the list of a copy.  The optimistic check makes it
\* the stored list with one account more.
LEMMA FreshAdds ==
    ASSUME NEW found, NEW ns, FreshSCC(found), AddUser(found, ns)
    PROVE  store' = [store EXCEPT ![SCCKey] =
                       [store[SCCKey] EXCEPT !.content.users = @ \cup {UserToAdd(ns)}]]
BY DEF FreshSCC, AddUser

LEMMA StepKeepsUsers ==
    ASSUME TypeOK, [Next]_vars
    PROVE  UsersKept
<1>. StoreOK /\ WorkerOK
    BY TypeParts
<1>. store \in [Keys -> Objects \cup {NoObj}]
    BY DEF StoreOK
<1>1. CASE UNCHANGED store
    BY <1>1 DEF UsersKept
<1>2. ASSUME NEW k, NEW content, NEW next, Ensure(k, content, next)
      PROVE  UsersKept
    BY <1>1, <1>2, CreationKeepsUsers DEF Ensure
<1>3. CASE EnsureSCC
    <2>1. CASE /\ AddUser(Cached(SCCKey), NamespaceOf[work.cr])
               /\ FreshSCC(Cached(SCCKey))
               /\ Cached(SCCKey) # NoObj
        <3>1. UserToAdd(NamespaceOf[work.cr]) \in Accounts
            BY <1>3, RequestTyped, AccountsTyped DEF EnsureSCC
        <3>. QED BY <2>1, <3>1, FreshAdds, AdditionKeepsUsers DEF Exists, FreshSCC
    <2>. QED BY <1>1, <1>2, <1>3, <2>1 DEF EnsureSCC
<1>4. CASE Environment
    <2>1. ASSUME NEW account \in Administered, AdminAddSCCUser(account)
          PROVE  UsersKept
        BY <2>1, AdditionKeepsUsers, AccountsTyped DEF AdminAddSCCUser, Exists
    <2>. QED BY <1>1, <1>4, <2>1, CreationKeepsUsers
            DEF Environment, UserCreate, UserEdit, UserDelete, DriftDelete,
                Provide, GarbageCollect, FinishForeground
<1>5. EnsurePVC => UNCHANGED store \/ Ensure(ClaimKey, BuildPVC(work.obj.spec), "ServiceAccount")
    BY DEF EnsurePVC
<1>6. EnsureAllResources => UsersKept
    BY <1>1, <1>2, <1>3, <1>5
       DEF EnsureAllResources, PanicInBuildPVC, EnsureServiceAccount,
           EnsureClusterRole, EnsureClusterRoleBinding, EnsureRole,
           EnsureRoleBinding, EnsureDeployment, EnsureService,
           EnsureStorageClass, EnsureFails, ProbeFails, clusterVars
<1>7. DeleteClusterRole \/ DeleteClusterRoleBinding => UsersKept
    BY <1>1, CreationKeepsUsers
       DEF DeleteClusterRole, DeleteClusterRoleBinding, DeleteExternal
<1>8. Reconcile => UsersKept
    BY <1>1, <1>6, <1>7
       DEF Reconcile, UpdateStatus, KeepFinalizer, AddFinalizer, IgnoreDeleted,
           BeginCleanup, RemoveFinalizer, UpdateFails, WorkFrame, EnsureFrame
<1>. QED BY <1>1, <1>4, <1>8
        DEF Next, Sync, SyncCR, StartReconcile, Crash, clusterVars, vars

\* EnsureSCC writes back the list its informer showed, with one account more.
\* However old that list is, no account an administrator or the reconcile of
\* another namespace added meanwhile is lost: the Update of a copy that is not
\* the stored object is refused (FreshAdds).
THEOREM SCCUsers == Spec => SCCUsersKept
<1>1. TypeOK /\ [Next]_vars => [UsersKept]_vars
    BY StepKeepsUsers
<1>. QED BY <1>1, TypeCorrect, PTL DEF Spec, SCCUsersKept

=============================================================================
