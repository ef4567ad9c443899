--------------------------- MODULE LifecycleProofs ---------------------------
(***************************************************************************)
(* Reconciler implements ProvisionerLifecycle but for what a cleanup may   *)
(* leave behind, and all of it in behaviours whose cleanups are sound.     *)
(***************************************************************************)
EXTENDS ReconcilerProofs, Refinement

LifeStep == [Lifecycle!Next]_(Lifecycle!lifeVars)

\* What a step may be: one of the abstract life, a release that leaves an
\* object behind, or the making of an object by somebody else.
LeakyStep ==
    \/ LifeStep
    \/ \E cr \in Provisioners : Lifecycle!Abandon(cr)
    \/ \E k \in ExternalKeys : Provide(k) /\ Lifecycle!Supply(k)

\* Every copy of a resource is of one that was requested.
Requested ==
    /\ \A cr \in Provisioners :
          crs[cr] # NoObj \/ crCache[cr] # NoObj => births[cr] > 0
    /\ pc # "idle" => births[work.cr] > 0

-----------------------------------------------------------------------------
(* Steps that change the cluster-wide objects *)

\* The existence of one object changes, and it is not made before a resource
\* was requested.
LEMMA ExternalStep ==
    ASSUME UNCHANGED <<crs, births>>,
           NEW k,
           \A x \in ExternalKeys \ {k} : Exists(x)' <=> Exists(x),
           Exists(k)' /\ ~ Exists(k) => \E cr \in Provisioners : births[cr] > 0
    PROVE  LifeStep
<1>. DEFINE external == {x \in ExternalKeys : Exists(x)}
<1>1. UNCHANGED <<[cr \in Provisioners |-> Seen(crs[cr])], births>>
    BY DEF Seen, StageOf
<1>2. \/ external' = external
      \/ k \in ExternalKeys /\ external' = external \ {k}
      \/ /\ k \in ExternalKeys /\ external' = external \cup {k}
         /\ \E cr \in Provisioners : births[cr] > 0
    BY DEF ExternalKeys, ClusterRoleKey, ClusterRoleBindingKey
<1>. HIDE DEF external
<1>3. CASE external' = external
    BY <1>1, <1>3 DEF LifeStep, Lifecycle!lifeVars, external
<1>4. CASE k \in ExternalKeys /\ external' = external \ {k}
    BY <1>1, <1>4 DEF LifeStep, Lifecycle!Next, Lifecycle!Withdraw, external
<1>5. CASE /\ k \in ExternalKeys /\ external' = external \cup {k}
           /\ \E cr \in Provisioners : births[cr] > 0
    BY <1>1, <1>5 DEF LifeStep, Lifecycle!Next, Lifecycle!Provide, external
<1>. QED BY <1>2, <1>3, <1>4, <1>5

\* A step that touches neither resources nor objects.
LEMMA SilentStep ==
    ASSUME UNCHANGED <<crs, births, store>>
    PROVE  LifeStep
BY ExternalStep DEF Exists

-----------------------------------------------------------------------------
(* Steps that change a resource *)

\* From what the resource obj is seen as to what new is, by a step of
\* ProvisionerLifecycle or by none.
LifeMove(obj, new) ==
    LET old == Seen(obj)
        to(stage) == Seen(new) = [old EXCEPT !.stage = stage]
    IN  \/ Seen(new) = old
        \/ \E spec \in AdmittedSpecs : Seen(new) = [old EXCEPT !.spec = spec]
        \/ /\ ~ Valid(obj.spec)
           /\ Seen(new) = [old EXCEPT !.error = ErrorText(obj.spec)]
        \/ /\ StageOf(obj) = "requested"
           /\ (new = NoObj) \/ to("leaving") \/ to("guarded")
        \/ StageOf(obj) = "guarded" /\ to("doomed")
        \/ /\ StageOf(obj) = "doomed"
           /\ (new = NoObj) \/ to("leaving")
        \/ StageOf(obj) = "leaving" /\ new = NoObj

LEMMA SeenTyped ==
    ASSUME NEW obj \in CustomResources
    PROVE  /\ Seen(obj) \in Views
           /\ Seen(obj) # NoObj
           /\ Seen(obj).spec = obj.spec
           /\ Seen(obj).stage = StageOf(obj)
BY NoObjAssumption, ViewsAssumption DEF Seen, StageOf, Views, CustomResources

LEMMA ResourceStep ==
    ASSUME TypeOK,
           NEW cr \in Provisioners,
           NEW new \in CustomResources \cup {NoObj},
           UNCHANGED <<store, births>>,
           crs' = [crs EXCEPT ![cr] = new],
           crs[cr] # NoObj,
           LifeMove(crs[cr], new)
    PROVE  LifeStep \/ Lifecycle!Abandon(cr)
<1>. DEFINE resources == [x \in Provisioners |-> Seen(crs[x])]
            external == {k \in ExternalKeys : Exists(k)}
<1>1. crs[cr] \in CustomResources
    BY DEF TypeOK, ClusterTypeOK
<1>2. resources' = [resources EXCEPT ![cr] = Seen(new)]
    BY DEF TypeOK, ClusterTypeOK, Seen, StageOf
<1>3. /\ resources[cr] = Seen(crs[cr])
      /\ resources[cr] # NoObj
      /\ resources[cr].spec = crs[cr].spec
      /\ resources[cr].stage = StageOf(crs[cr])
    BY <1>1, SeenTyped
<1>4. UNCHANGED <<births, external>>
    BY DEF Exists
<1>5. (new = NoObj) => Seen(new) = NoObj
    BY DEF Seen
<1>6. ASSUME NEW resource, Seen(new) = resource
      PROVE  Lifecycle!Becomes(cr, resource)
    BY <1>2, <1>4, <1>6 DEF Lifecycle!Becomes
<1>7. ASSUME NEW stage, Seen(new) = [resources[cr] EXCEPT !.stage = stage]
      PROVE  Lifecycle!Moves(cr, stage)
    BY <1>6, <1>7 DEF Lifecycle!Moves
<1>8. ASSUME NEW stage, StageOf(crs[cr]) = stage
      PROVE  Lifecycle!InStage(cr, stage)
    BY <1>3, <1>8 DEF Lifecycle!InStage
<1>9. CASE Seen(new) = resources[cr]
    <2>1. resources' = resources
        BY <1>2, <1>9
    <2>. QED BY <1>4, <2>1 DEF LifeStep, Lifecycle!lifeVars
<1>10. CASE \E spec \in AdmittedSpecs : Seen(new) = [resources[cr] EXCEPT !.spec = spec]
    BY <1>3, <1>6, <1>10 DEF LifeStep, Lifecycle!Next, Lifecycle!Edit
<1>11. CASE /\ ~ Valid(crs[cr].spec)
            /\ Seen(new) = [resources[cr] EXCEPT !.error = ErrorText(crs[cr].spec)]
    BY <1>3, <1>6, <1>11 DEF LifeStep, Lifecycle!Next, Lifecycle!Report
<1>12. CASE StageOf(crs[cr]) = "requested" /\ (\/ new = NoObj
               \/ Seen(new) = [resources[cr] EXCEPT !.stage = "leaving"]
               \/ Seen(new) = [resources[cr] EXCEPT !.stage = "guarded"])
    BY <1>5, <1>6, <1>7, <1>8, <1>12
       DEF LifeStep, Lifecycle!Next, Lifecycle!Retract, Lifecycle!Guard
<1>13. CASE /\ StageOf(crs[cr]) = "guarded"
            /\ Seen(new) = [resources[cr] EXCEPT !.stage = "doomed"]
    BY <1>7, <1>8, <1>13 DEF LifeStep, Lifecycle!Next, Lifecycle!Retract
<1>14. CASE /\ StageOf(crs[cr]) = "doomed"
            /\ (\/ new = NoObj
                \/ Seen(new) = [resources[cr] EXCEPT !.stage = "leaving"])
    <2>1. /\ Lifecycle!InStage(cr, "doomed")
          /\ Lifecycle!Becomes(cr, NoObj) \/ Lifecycle!Moves(cr, "leaving")
        BY <1>5, <1>6, <1>7, <1>8, <1>14
    <2>2. CASE external = {}
        BY <2>1, <2>2 DEF LifeStep, Lifecycle!Next, Lifecycle!Release
    <2>3. CASE external # {}
        BY <2>1, <2>3 DEF Lifecycle!Abandon
    <2>. QED BY <2>2, <2>3
<1>15. CASE StageOf(crs[cr]) = "leaving" /\ new = NoObj
    BY <1>5, <1>6, <1>8, <1>15 DEF LifeStep, Lifecycle!Next, Lifecycle!Leave
<1>. HIDE DEF external
<1>. QED BY <1>3, <1>9, <1>10, <1>11, <1>12, <1>13, <1>14, <1>15 DEF LifeMove

-----------------------------------------------------------------------------
(* Every copy is of a requested resource *)

\* A stage ends the reconcile or goes on with the same request.
LEMMA WorkerMoves ==
    ASSUME Reconcile
    PROVE  pc # "idle" /\ (pc' = "idle" \/ UNCHANGED work)
<1>. USE DEF Advance, Finish, Requeue, Written
<1>1. CASE EnsureAllResources
    <2>1. ASSUME NEW k, NEW content, NEW next, Ensure(k, content, next)
          PROVE  pc' = "idle" \/ UNCHANGED work
        BY <2>1 DEF Ensure
    <2>. QED BY <1>1, <2>1
        DEF EnsureAllResources, EnsureSCC, EnsurePVC, PanicInBuildPVC, Restart,
            EnsureServiceAccount, EnsureClusterRole, EnsureClusterRoleBinding,
            EnsureRole, EnsureRoleBinding, EnsureDeployment, EnsureService,
            EnsureStorageClass, EnsureFails, ProbeFails, EnsureStages
<1>2. CASE \/ UpdateStatus \/ KeepFinalizer \/ AddFinalizer \/ IgnoreDeleted
           \/ BeginCleanup \/ RemoveFinalizer \/ UpdateFails
    BY <1>2
       DEF UpdateStatus, KeepFinalizer, AddFinalizer, IgnoreDeleted,
           BeginCleanup, RemoveFinalizer, UpdateFails, Conflict
<1>3. CASE DeleteClusterRole \/ DeleteClusterRoleBinding
    BY <1>3 DEF DeleteClusterRole, DeleteClusterRoleBinding, DeleteExternal
<1>. QED BY <1>1, <1>2, <1>3 DEF Reconcile

\* Nothing the operator writes brings a resource into being.
LEMMA ReconcileCreatesNoResource ==
    ASSUME TypeOK, Reconcile
    PROVE  /\ UNCHANGED births
           /\ \A cr \in Provisioners : crs'[cr] # NoObj => crs[cr] # NoObj
<1>. crs \in [Provisioners -> CustomResources \cup {NoObj}]
    BY DEF TypeOK, ClusterTypeOK
<1>1. CASE EnsureAllResources
    BY <1>1
       DEF EnsureAllResources, EnsureSCC, EnsurePVC, PanicInBuildPVC,
           EnsureServiceAccount, EnsureClusterRole, EnsureClusterRoleBinding,
           EnsureRole, EnsureRoleBinding, EnsureDeployment, EnsureService,
           EnsureStorageClass, EnsureFails, ProbeFails, EnsureFrame, clusterVars
<1>2. CASE \/ KeepFinalizer \/ IgnoreDeleted \/ BeginCleanup \/ UpdateFails
           \/ DeleteClusterRole \/ DeleteClusterRoleBinding
    BY <1>2
       DEF KeepFinalizer, IgnoreDeleted, BeginCleanup, UpdateFails, WorkFrame,
           DeleteClusterRole, DeleteClusterRoleBinding, DeleteExternal,
           EnsureFrame
<1>3. CASE UpdateStatus \/ AddFinalizer \/ RemoveFinalizer
    <2>1. work.cr \in Provisioners /\ work.obj \in CustomResources
        BY <1>3, TypeParts, RequestTyped DEF UpdateStatus, AddFinalizer, RemoveFinalizer
    <2>2. UNCHANGED births
        BY <1>3 DEF UpdateStatus, AddFinalizer, RemoveFinalizer, WorkFrame
    <2>3. UNCHANGED crs \/ (Fresh /\ \E new : crs' = [crs EXCEPT ![work.cr] = new])
        BY <1>3 DEF UpdateStatus, AddFinalizer, RemoveFinalizer, Conflict, Stored
    <2>. QED BY <2>1, <2>2, <2>3, NoObjAssumption DEF Fresh
<1>. QED BY <1>1, <1>2, <1>3 DEF Reconcile

LEMMA RequestedStep ==
    ASSUME TypeOK, Requested, [Next]_vars
    PROVE  Requested'
<1>. WorkerOK /\ ResourcesOK
    BY TypeParts
<1>. /\ crs \in [Provisioners -> CustomResources \cup {NoObj}]
     /\ births \in [Provisioners -> 0 .. MaxBirths]
    BY DEF ResourcesOK
<1>1. ASSUME UNCHANGED births,
             \A cr \in Provisioners : crs'[cr] # NoObj => crs[cr] # NoObj,
             \A cr \in Provisioners : crCache'[cr] \in {crs[cr], crCache[cr]},
             pc' = "idle" \/ (pc # "idle" /\ UNCHANGED work)
      PROVE  Requested'
    BY <1>1 DEF Requested
<1>2. ASSUME NEW cr \in Provisioners, NEW spec \in Specs, UserCreate(cr, spec),
             UNCHANGED managerVars
      PROVE  Requested'
    BY <1>2, RequestTyped DEF UserCreate, Requested, managerVars
<1>3. ASSUME Environment, UNCHANGED managerVars
      PROVE  Requested'
    <2>1. CASE \E cr \in Provisioners, spec \in Specs : UserEdit(cr, spec)
        BY <1>1, <1>3, <2>1 DEF UserEdit, managerVars
    <2>2. CASE \E cr \in Deletable, mode \in DeletionModes : UserDelete(cr, mode)
        BY <1>1, <1>3, <2>2, BoundsAssumption DEF UserDelete, managerVars
    <2>3. CASE \E cr \in Provisioners : FinishForeground(cr)
        BY <1>1, <1>3, <2>3 DEF FinishForeground, managerVars
    <2>4. CASE UNCHANGED <<crs, births>>
        BY <1>1, <1>3, <2>4 DEF managerVars
    <2>. QED BY <1>2, <1>3, <2>1, <2>2, <2>3, <2>4
            DEF Environment, DriftDelete, Provide, AdminAddSCCUser,
                GarbageCollect, Drift
<1>4. CASE \E k \in Lagging : Sync(k)
    BY <1>1, <1>4 DEF Sync, clusterVars
<1>5. CASE \E cr \in Provisioners : SyncCR(cr)
    BY <1>1, <1>5 DEF SyncCR, clusterVars, TypeOK, ManagerTypeOK
<1>6. CASE \E cr \in Provisioners : StartReconcile(cr)
    BY <1>6 DEF StartReconcile, clusterVars, Requested
<1>7. CASE Crash
    BY <1>1, <1>7 DEF Crash, Restart, clusterVars
<1>8. CASE UNCHANGED vars
    BY <1>1, <1>8 DEF vars
<1>9. CASE Reconcile
    <2>1. (Restart /\ UNCHANGED clusterVars) \/ UNCHANGED crCache
        BY <1>9
           DEF Reconcile, EnsureAllResources, EnsureSCC, EnsurePVC,
               PanicInBuildPVC, EnsureServiceAccount, EnsureClusterRole,
               EnsureClusterRoleBinding, EnsureRole, EnsureRoleBinding,
               EnsureDeployment, EnsureService, EnsureStorageClass, EnsureFails,
               ProbeFails, EnsureFrame, UpdateStatus, KeepFinalizer,
               AddFinalizer, IgnoreDeleted, BeginCleanup, DeleteClusterRole,
               DeleteClusterRoleBinding, DeleteExternal, RemoveFinalizer,
               UpdateFails, WorkFrame, clusterVars
    <2>2. pc' = "idle" \/ (pc # "idle" /\ UNCHANGED work)
        BY <1>9, WorkerMoves
    <2>3. UNCHANGED births /\ \A cr \in Provisioners : crs'[cr] # NoObj => crs[cr] # NoObj
        BY <1>9, ReconcileCreatesNoResource
    <2>. QED BY <1>1, <2>1, <2>2, <2>3 DEF Restart, clusterVars
<1>. QED BY <1>3, <1>4, <1>5, <1>6, <1>7, <1>8, <1>9 DEF Next

-----------------------------------------------------------------------------
(* Every step is one of ProvisionerLifecycle or none *)

\* Writing one object, or deleting it.
LEMMA ObjectStep ==
    ASSUME TypeOK, UNCHANGED <<crs, births>>,
           NEW k \in Keys, NEW obj, store' = [store EXCEPT ![k] = obj],
           k \in ExternalKeys /\ obj # NoObj => \E cr \in Provisioners : births[cr] > 0
    PROVE  LifeStep
<1>1. store \in [Keys -> Objects \cup {NoObj}]
    BY DEF TypeOK, ClusterTypeOK
<1>2. \A x \in ExternalKeys \ {k} : Exists(x)' <=> Exists(x)
    BY <1>1, KeysTyped DEF Exists, ExternalKeys
<1>3. CASE k \in ExternalKeys
    BY <1>1, <1>2, <1>3, ExternalStep DEF Exists
<1>4. CASE k \notin ExternalKeys
    <2>1. \A x \in ExternalKeys : Exists(x)' <=> Exists(x)
        BY <1>2, <1>4
    <2>2. PICK other : other \notin ExternalKeys /\ ~ (Exists(other)' /\ ~ Exists(other))
        BY KeysTyped, <1>1, SCCKeyUnique DEF Exists, ExternalKeys
    <2>. QED BY <2>1, <2>2, ExternalStep
<1>. QED BY <1>3, <1>4

LEMMA EnsureMaps ==
    ASSUME TypeOK, Requested, EnsureAllResources
    PROVE  LifeStep
<1>. WorkerOK
    BY TypeParts
<1>1. pc # "idle" /\ UNCHANGED <<crs, births>>
    BY DEF EnsureAllResources, EnsureSCC, EnsurePVC, PanicInBuildPVC,
           EnsureServiceAccount, EnsureClusterRole, EnsureClusterRoleBinding,
           EnsureRole, EnsureRoleBinding, EnsureDeployment, EnsureService,
           EnsureStorageClass, EnsureFails, ProbeFails, EnsureFrame,
           clusterVars, EnsureStages
<1>2. work.cr \in Provisioners /\ births[work.cr] > 0
    BY <1>1, RequestTyped DEF Requested
<1>3. CASE UNCHANGED store
    BY <1>1, <1>3, SilentStep
<1>4. ASSUME NEW k \in Keys, NEW content, NEW next, Ensure(k, content, next)
      PROVE  LifeStep
    BY <1>1, <1>2, <1>3, <1>4, ObjectStep DEF Ensure
<1>5. CASE EnsureSCC
    <2>1. AddUser(Cached(SCCKey), NamespaceOf[work.cr]) => LifeStep
        <3>1. SCCKey \notin ExternalKeys
            BY SCCKeyUnique DEF ExternalKeys
        <3>. QED BY <1>1, <3>1, KeysTyped, ObjectStep DEF AddUser
    <2>. QED BY <1>3, <1>4, <1>5, <2>1, KeysTyped DEF EnsureSCC
<1>6. CASE EnsurePVC
    <2>1. ClaimKey \in Keys
        BY <1>1, RequestTyped, KeysTyped DEF ClaimKey
    <2>. QED BY <1>3, <1>4, <1>6, <2>1 DEF EnsurePVC
<1>7. CASE \/ EnsureServiceAccount
           \/ EnsureClusterRole
           \/ EnsureClusterRoleBinding
           \/ EnsureRole
           \/ EnsureRoleBinding
           \/ EnsureDeployment
           \/ EnsureService
           \/ EnsureStorageClass
    BY <1>1, <1>4, <1>7, RequestTyped, KeysTyped
       DEF EnsureServiceAccount, EnsureClusterRole, EnsureClusterRoleBinding,
           EnsureRole, EnsureRoleBinding, EnsureDeployment, EnsureService,
           EnsureStorageClass
<1>8. CASE PanicInBuildPVC \/ EnsureFails \/ ProbeFails
    BY <1>3, <1>8 DEF PanicInBuildPVC, EnsureFails, ProbeFails, clusterVars
<1>. QED BY <1>5, <1>6, <1>7, <1>8 DEF EnsureAllResources

\* The three optimistic writes of a resource.
LEMMA WriteMaps ==
    ASSUME TypeOK, BranchTaken, OnlyInvalid,
           UpdateStatus \/ AddFinalizer \/ RemoveFinalizer
    PROVE  LeakyStep
<1>. WorkerOK
    BY TypeParts
<1>1. /\ pc # "idle" /\ UNCHANGED <<store, births>>
      /\ work.cr \in Provisioners /\ work.obj \in CustomResources
    BY RequestTyped DEF UpdateStatus, AddFinalizer, RemoveFinalizer, WorkFrame
<1>2. CASE UNCHANGED crs
    BY <1>1, <1>2, SilentStep DEF LeakyStep
<1>3. ASSUME NEW new \in CustomResources \cup {NoObj},
             Fresh, Stored(new), LifeMove(work.obj, new)
      PROVE  LeakyStep
    BY <1>1, <1>3, ResourceStep, NoObjAssumption DEF Fresh, Stored, LeakyStep
<1>. USE DEF Seen, StageOf, LifeMove
<1>4. CASE UpdateStatus
    <2>. DEFINE new == [work.obj EXCEPT !.error = ErrorText(work.obj.spec)]
    <2>1. new \in CustomResources
        BY <1>1 DEF CustomResources, Errors
    <2>2. ~ Valid(work.obj.spec)
        BY <1>4 DEF UpdateStatus, OnlyInvalid
    <2>3. LifeMove(work.obj, new)
        BY <1>1, <2>1, <2>2, NoObjAssumption DEF CustomResources
    <2>. QED BY <1>2, <1>3, <1>4, <2>1, <2>3 DEF UpdateStatus, Conflict
<1>5. CASE AddFinalizer
    <2>. DEFINE new == [work.obj EXCEPT !.finalized = TRUE]
    <2>1. new \in CustomResources
        BY <1>1 DEF CustomResources
    <2>2. ~ Deleting /\ ~ Finalized => LifeMove(work.obj, new)
        BY <1>1, <2>1, NoObjAssumption DEF CustomResources, Deleting, Finalized
    <2>. QED BY <1>2, <1>3, <1>5, <2>1, <2>2 DEF AddFinalizer, Conflict
<1>6. CASE RemoveFinalizer
    <2>1. Released(work.obj) \in CustomResources \cup {NoObj}
        BY <1>1 DEF Released, CustomResources
    <2>2. Deleting /\ Finalized
        BY <1>6 DEF RemoveFinalizer, BranchTaken, CleanupStages
    <2>3. LifeMove(work.obj, Released(work.obj))
        BY <1>1, <2>1, <2>2, NoObjAssumption
           DEF Released, CustomResources, Deleting, Finalized
    <2>. QED BY <1>2, <1>3, <1>6, <2>1, <2>3 DEF RemoveFinalizer, Conflict
<1>. QED BY <1>4, <1>5, <1>6

LEMMA CreationMaps ==
    ASSUME TypeOK, NEW cr \in Provisioners, NEW spec \in Specs, UserCreate(cr, spec)
    PROVE  LifeStep
<1>. DEFINE resources == [x \in Provisioners |-> Seen(crs[x])]
            external == {k \in ExternalKeys : Exists(k)}
            new == [birth |-> births[cr] + 1, spec |-> Admitted(spec),
                    deleting |-> FALSE, finalized |-> FALSE,
                    foreground |-> FALSE, error |-> NoError]
<1>1. /\ crs[cr] = NoObj /\ UNCHANGED external
      /\ crs' = [crs EXCEPT ![cr] = new]
      /\ births' = [births EXCEPT ![cr] = @ + 1]
    BY DEF UserCreate, Exists
<1>2. new # NoObj
    <2>1. births[cr] + 1 \in 1 .. MaxBirths
        BY BoundsAssumption DEF UserCreate, TypeOK, ClusterTypeOK
    <2>2. new \in CustomResources
        BY <2>1 DEF CustomResources, AdmittedSpecs, Errors
    <2>. QED BY <2>2, NoObjAssumption
<1>3. Seen(new) = [spec |-> Admitted(spec), error |-> NoError, stage |-> "requested"]
    BY <1>2 DEF Seen, StageOf
<1>4. resources[cr] = NoObj /\ Admitted(spec) \in AdmittedSpecs
    BY <1>1 DEF Seen, AdmittedSpecs
<1>. HIDE DEF new
<1>5. resources' = [resources EXCEPT ![cr] = Seen(new)]
    BY <1>1 DEF TypeOK, ClusterTypeOK, Seen, StageOf
<1>6. Lifecycle!Request(cr, Admitted(spec))
    BY <1>1, <1>3, <1>4, <1>5 DEF Lifecycle!Request
<1>. QED BY <1>4, <1>6 DEF LifeStep, Lifecycle!Next

\* An object made by somebody else.
LEMMA SupplyMaps ==
    ASSUME TypeOK, NEW k \in ExternalKeys, k \in Keys, Provide(k)
    PROVE  LifeStep \/ Lifecycle!Supply(k)
<1>1. UNCHANGED <<[cr \in Provisioners |-> Seen(crs[cr])], births>>
    BY DEF Provide, Drift, Seen, StageOf
<1>. DEFINE obj == [owner |-> NoObj, content |-> ForeignContent(k)]
<1>2. store' = [store EXCEPT ![k] = obj] /\ store \in [Keys -> Objects \cup {NoObj}]
    BY DEF Provide, TypeOK, ClusterTypeOK
<1>3. \A x \in ExternalKeys \ {k} : Exists(x)' <=> Exists(x)
    BY <1>2, KeysTyped DEF Exists, ExternalKeys
<1>4. CASE Exists(k)'
    <2>1. {x \in ExternalKeys : Exists(x)}' = {x \in ExternalKeys : Exists(x)} \cup {k}
        BY <1>3, <1>4
    <2>. QED BY <1>1, <2>1 DEF Lifecycle!Supply
<1>5. CASE ~ Exists(k)'
    BY <1>3, <1>5, ExternalStep DEF Provide, Drift
<1>. QED BY <1>4, <1>5

LEMMA EnvironmentMaps ==
    ASSUME TypeOK, Environment
    PROVE  LeakyStep
<1>. /\ crs \in [Provisioners -> CustomResources \cup {NoObj}]
     /\ store \in [Keys -> Objects \cup {NoObj}]
    BY DEF TypeOK, ClusterTypeOK
<1>. USE DEF Seen, StageOf, LifeMove, LeakyStep
<1>1. ASSUME NEW cr \in Provisioners, NEW spec \in Specs, UserEdit(cr, spec)
      PROVE  LeakyStep
    <2>. DEFINE new == [crs[cr] EXCEPT !.spec = Admitted(spec)]
    <2>1. crs[cr] \in CustomResources /\ Admitted(spec) \in AdmittedSpecs
        BY <1>1 DEF UserEdit, AdmittedSpecs
    <2>2. new \in CustomResources
        BY <2>1 DEF CustomResources
    <2>3. Seen(new) = [Seen(crs[cr]) EXCEPT !.spec = Admitted(spec)]
        BY <2>1, <2>2, NoObjAssumption DEF CustomResources
    <2>4. LifeMove(crs[cr], new)
        BY <2>1, <2>3
    <2>. QED BY <1>1, <2>2, <2>4, ResourceStep DEF UserEdit
<1>2. ASSUME NEW cr \in Provisioners, NEW mode \in BOOLEAN, UserDelete(cr, mode)
      PROVE  LeakyStep
    <2>. DEFINE marked == [crs[cr] EXCEPT !.deleting = TRUE, !.foreground = mode]
                new == IF crs[cr].finalized \/ mode THEN marked ELSE NoObj
    <2>1. crs[cr] \in CustomResources /\ ~ crs[cr].deleting
        BY <1>2 DEF UserDelete
    <2>2. marked \in CustomResources
        BY <2>1 DEF CustomResources
    <2>3. CASE ~ crs[cr].finalized /\ ~ mode
        <3>1. new = NoObj /\ StageOf(crs[cr]) = "requested"
            BY <2>1, <2>3
        <3>2. LifeMove(crs[cr], new)
            BY <3>1
        <3>3. crs' = [crs EXCEPT ![cr] = NoObj] /\ UNCHANGED <<store, births>>
            BY <1>2, <2>3 DEF UserDelete
        <3>4. LifeMove(crs[cr], NoObj)
            BY <3>1, <3>2
        <3>. QED BY <2>1, <3>3, <3>4, ResourceStep, NoObjAssumption
    <2>4. CASE crs[cr].finalized \/ mode
        <3>1. marked # NoObj
            BY <2>2, NoObjAssumption
        <3>2. Seen(marked) = [Seen(crs[cr]) EXCEPT !.stage = StageOf(marked)]
            <4>. HIDE DEF StageOf
            <4>1. marked.spec = crs[cr].spec /\ marked.error = crs[cr].error
                BY <2>1 DEF CustomResources
            <4>2. crs[cr] # NoObj
                BY <2>1, NoObjAssumption
            <4>. HIDE DEF marked
            <4>. QED BY <3>1, <4>1, <4>2
        <3>3. StageOf(marked) = IF crs[cr].finalized THEN "doomed" ELSE "leaving"
            BY <2>1 DEF CustomResources
        <3>4. StageOf(crs[cr]) = IF crs[cr].finalized THEN "guarded" ELSE "requested"
            BY <2>1
        <3>5. LifeMove(crs[cr], marked)
            BY <3>2, <3>3, <3>4
        <3>6. crs' = [crs EXCEPT ![cr] = marked] /\ UNCHANGED <<store, births>>
            <4>1. crs' = [crs EXCEPT ![cr] = new] /\ UNCHANGED <<store, births>>
                BY <1>2 DEF UserDelete
            <4>2. new = marked
                BY <2>4
            <4>. HIDE DEF new, marked
            <4>. QED BY <4>1, <4>2
        <3>7. crs[cr] # NoObj
            BY <2>1, NoObjAssumption
        <3>. HIDE DEF marked, LifeMove, Seen, StageOf
        <3>. QED BY <2>1, <2>2, <3>5, <3>6, <3>7, ResourceStep
    <2>. QED BY <2>3, <2>4
<1>3. ASSUME NEW cr \in Provisioners, FinishForeground(cr)
      PROVE  LeakyStep
    <2>. DEFINE kept == [crs[cr] EXCEPT !.foreground = FALSE]
                new == IF crs[cr].finalized THEN kept ELSE NoObj
    <2>1. crs[cr] \in CustomResources
        BY <1>3 DEF FinishForeground
    <2>2. kept \in CustomResources
        BY <2>1 DEF CustomResources
    <2>3. LifeMove(crs[cr], new)
        BY <2>1, <2>2, NoObjAssumption DEF CustomResources
    <2>4. crs' = [crs EXCEPT ![cr] = new] /\ UNCHANGED <<store, births>>
        BY <1>3 DEF FinishForeground
    <2>. QED BY <2>1, <2>2, <2>3, <2>4, ResourceStep, NoObjAssumption
<1>4. ASSUME NEW k \in Keys, store' = [store EXCEPT ![k] = NoObj],
             UNCHANGED <<crs, births>>
      PROVE  LeakyStep
    BY <1>4, ObjectStep
<1>5. ASSUME NEW k \in Providable, Provide(k) PROVE LeakyStep
    <2>1. k \in Keys
        BY ActorsAssumption
    <2>2. CASE k \in ExternalKeys
        BY <1>5, <2>1, <2>2, SupplyMaps
    <2>3. CASE k \notin ExternalKeys
        BY <1>5, <2>1, <2>3, ObjectStep DEF Provide, Drift
    <2>. QED BY <2>2, <2>3
<1>6. ASSUME NEW account \in Administered, AdminAddSCCUser(account)
      PROVE  LeakyStep
    <2>1. SCCKey \in Keys /\ SCCKey \notin ExternalKeys
        BY KeysTyped, SCCKeyUnique DEF ExternalKeys
    <2>. QED BY <1>6, <2>1, ObjectStep DEF AdminAddSCCUser, Drift
<1>7. CASE \E cr \in Provisioners, spec \in Specs : UserCreate(cr, spec)
    BY <1>7, CreationMaps
<1>8. CASE \E cr \in Deletable, mode \in DeletionModes : UserDelete(cr, mode)
    BY <1>2, <1>8, BoundsAssumption
<1>9. CASE \E k \in Drifting : DriftDelete(k)
    BY <1>4, <1>9, ActorsAssumption DEF DriftDelete, Drift
<1>10. CASE \E k \in Keys : GarbageCollect(k)
    BY <1>4, <1>10 DEF GarbageCollect
<1>. QED BY <1>1, <1>3, <1>5, <1>6, <1>7, <1>8, <1>9, <1>10 DEF Environment

LEMMA StepMaps ==
    ASSUME TypeOK, BranchTaken, OnlyInvalid, Requested, [Next]_vars
    PROVE  LeakyStep
<1>1. CASE Environment
    BY <1>1, EnvironmentMaps
<1>2. CASE UNCHANGED <<crs, births, store>>
    BY <1>2, SilentStep DEF LeakyStep
<1>3. CASE DeleteClusterRole \/ DeleteClusterRoleBinding
    <2>1. \E k \in Keys : store' = [store EXCEPT ![k] = NoObj] \/ UNCHANGED store
        BY <1>3, KeysTyped
           DEF DeleteClusterRole, DeleteClusterRoleBinding, DeleteExternal
    <2>2. UNCHANGED <<crs, births>>
        BY <1>3 DEF DeleteClusterRole, DeleteClusterRoleBinding, DeleteExternal,
                    EnsureFrame
    <2>. QED BY <1>2, <2>1, <2>2, ObjectStep DEF LeakyStep
<1>4. KeepFinalizer \/ IgnoreDeleted \/ BeginCleanup \/ UpdateFails =>
          UNCHANGED <<crs, births, store>>
    BY DEF KeepFinalizer, IgnoreDeleted, BeginCleanup, UpdateFails, WorkFrame
<1>. QED BY <1>1, <1>2, <1>3, <1>4, EnsureMaps, WriteMaps
        DEF LeakyStep, Next, Reconcile, Sync, SyncCR, StartReconcile, Crash,
            clusterVars, vars

LEMMA InitMaps == Init => Lifecycle!Init /\ Requested
<1>. SUFFICES ASSUME Init PROVE Lifecycle!Init /\ Requested
    OBVIOUS
<1>1. [cr \in Provisioners |-> Seen(crs[cr])] = [cr \in Provisioners |-> NoObj]
    BY DEF Init, ClusterInit, Seen
<1>2. {k \in ExternalKeys : Exists(k)} = {}
    BY KeysTyped DEF Init, ClusterInit, ExternalKeys, Exists
<1>3. births = [cr \in Provisioners |-> 0]
    BY DEF Init, ClusterInit
<1>4. Requested
    BY DEF Init, ClusterInit, ManagerInit, Requested
<1>. QED BY <1>1, <1>2, <1>3, <1>4 DEF Lifecycle!Init

\* The invariants the mapping of a step rests on.
LEMMA LifeInvariant == Spec => [](Requested /\ BranchTaken /\ OnlyInvalid)
<1>1. Init => Requested /\ BranchTaken /\ OnlyInvalid
    BY InitMaps
       DEF Init, ManagerInit, BranchTaken, CleanupStages, DeleteStages, OnlyInvalid
<1>2. TypeOK /\ Requested /\ BranchTaken /\ OnlyInvalid /\ [Next]_vars =>
         Requested' /\ BranchTaken' /\ OnlyInvalid'
    BY RequestedStep, BranchStep, OnlyInvalidStep
<1>. QED BY <1>1, <1>2, TypeCorrect, PTL DEF Spec

\* Whatever the caches show and whichever calls fail, a resource lives the life
\* of ProvisionerLifecycle: users alone write specs, errors are those of the
\* spec they stand next to, the finalizer comes before no deletion, and no
\* resource skips or returns to a stage.  Only its release may leave one of the
\* cluster-wide objects behind.
THEOREM LeakyLifecycleImplemented == Spec => ImplementsLeakyLifecycle
<1>1. Init => Lifecycle!Init
    BY InitMaps
<1>2. TypeOK /\ Requested /\ BranchTaken /\ OnlyInvalid /\ [Next]_vars =>
         [Lifecycle!LeakyNext]_(Lifecycle!lifeVars)
    BY StepMaps DEF LeakyStep, LifeStep, Lifecycle!LeakyNext
<1>. QED BY <1>1, <1>2, LifeInvariant, TypeCorrect, PTL
        DEF Spec, ImplementsLeakyLifecycle, Lifecycle!LeakySpec

\* A release that leaves an object behind takes a finalizer off.
LEMMA AbandonReleases ==
    ASSUME TypeOK, [Next]_vars, NEW cr \in Provisioners, Lifecycle!Abandon(cr)
    PROVE  Releases(cr) /\ \E k \in ExternalKeys : Exists(k)
<1>. DEFINE resources == [x \in Provisioners |-> Seen(crs[x])]
<1>1. resources[cr] # NoObj /\ resources[cr].stage = "doomed"
    BY DEF Lifecycle!Abandon, Lifecycle!InStage
<1>2. crs[cr] # NoObj /\ crs[cr].finalized
    BY <1>1 DEF Seen, StageOf
<1>3. \/ resources' = [resources EXCEPT ![cr] = NoObj]
      \/ resources' = [resources EXCEPT ![cr] = [@ EXCEPT !.stage = "leaving"]]
    BY DEF Lifecycle!Abandon, Lifecycle!Becomes, Lifecycle!Moves
<1>4. crs[cr] \in CustomResources /\ resources[cr] \in Views
    BY <1>2, SeenTyped DEF TypeOK, ClusterTypeOK
<1>5. resources'[cr] = NoObj \/ resources'[cr].stage = "leaving"
    BY <1>3, <1>4 DEF Views
<1>6. resources'[cr] = Seen(crs'[cr])
    BY DEF Seen, StageOf
<1>. HIDE DEF resources
<1>7. ASSUME crs'[cr] # NoObj PROVE ~ crs'[cr].finalized
    <2>1. crs'[cr] \in CustomResources
        BY <1>7, StepTyped DEF TypeOK, ClusterTypeOK
    <2>2. Seen(crs'[cr]) \in Views /\ Seen(crs'[cr]) # NoObj
        BY <1>7, <2>1, SeenTyped, ViewsAssumption
    <2>3. Seen(crs'[cr]).stage = "leaving"
        BY <1>5, <1>6, <2>2
    <2>4. StageOf(crs'[cr]) = "leaving"
        BY <1>7, <2>3 DEF Seen
    <2>. QED BY <2>4 DEF StageOf
<1>8. \E k \in ExternalKeys : Exists(k)
    BY DEF Lifecycle!Abandon
<1>. QED BY <1>2, <1>7, <1>8 DEF Releases

\* In a behaviour whose cleanups are sound nothing is left behind either, and
\* the operator implements ProvisionerLifecycle as it stands.
THEOREM LifecycleImplemented == Spec /\ [][SoundCleanup]_vars => ImplementsLifecycle
<1>. DEFINE Clean ==
               \A cr \in Provisioners : Releases(cr) =>
                  ~ Exists(ClusterRoleKey) /\ ~ Exists(ClusterRoleBindingKey)
<1>1. Init => Lifecycle!Init
    BY InitMaps
<1>2. ASSUME TypeOK, Requested, BranchTaken, OnlyInvalid, [Next]_vars,
             [SoundCleanup]_vars, [Clean]_vars
      PROVE  [Lifecycle!Next]_(Lifecycle!lifeVars)
    <2>1. CASE UNCHANGED vars
        BY <2>1, SilentStep DEF LifeStep, vars
    <2>2. CASE SoundCleanup /\ Clean
        <3>1. ~ \E cr \in Provisioners : Lifecycle!Abandon(cr)
            BY <1>2, <2>2, AbandonReleases DEF ExternalKeys
        <3>2. ~ \E k \in ExternalKeys : Provide(k)
            BY <2>2 DEF SoundCleanup, ExternalKeys
        <3>. QED BY <1>2, <3>1, <3>2, StepMaps DEF LeakyStep, LifeStep
    <2>. QED BY <1>2, <2>1, <2>2
<1>. QED BY <1>1, <1>2, LifeInvariant, TypeCorrect, CleanRelease, PTL
        DEF Spec, CleanBeforeRelease, ImplementsLifecycle, Lifecycle!Spec

=============================================================================
