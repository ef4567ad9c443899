------------------------- MODULE PrerequisiteProofs --------------------------
(***************************************************************************)
(* What a Deployment the operator made can rely on: its account in the     *)
(* SCC, its ServiceAccount, the Role it elects its leader with, its claim. *)
(***************************************************************************)
EXTENDS LifecycleProofs

-----------------------------------------------------------------------------
(* Everything that writes objects *)

\* The object a stage makes when it finds none.
Makes(k, content) ==
    LET ns == NamespaceOf[work.cr] IN
    \/ pc = "SCC" /\ k = SCCKey /\ content = [users |-> {UserToAdd(ns)}]
    \/ pc = "PVC" /\ k = ClaimKey /\ content = BuildPVC(work.obj.spec)
    \/ pc = "ServiceAccount" /\ k = ServiceAccountKey(ns) /\ content = Bare
    \/ pc = "ClusterRole" /\ k = ClusterRoleKey /\ content = BuildClusterRole
    \/ /\ pc = "ClusterRoleBinding"
       /\ k = ClusterRoleBindingKey
       /\ content = BuildClusterRoleBinding(ns)
    \/ pc = "Role" /\ k = RoleKey(ns) /\ content = BuildRole
    \/ pc = "RoleBinding" /\ k = RoleBindingKey(ns) /\ content = BuildRoleBinding(ns)
    \/ /\ pc = "Deployment"
       /\ k = DeploymentKey(ns)
       /\ content = BuildDeployment(work.cr, work.obj.spec)
    \/ pc = "Service" /\ k = ServiceKey(ns) /\ content = BuildService(work.cr)
    \/ /\ pc = "StorageClass"
       /\ k = StorageClassKey(StorageClassName(work.obj.spec))
       /\ content = Bare

Made ==
    \E k, content :
       /\ Makes(k, content)
       /\ store[k] = NoObj
       /\ store' = [store EXCEPT ![k] = Build(k, content)]

ExternalDeleted ==
    \E k \in ExternalKeys : store' = [store EXCEPT ![k] = NoObj]

UserAdded ==
    \E account \in Accounts :
       /\ store[SCCKey] # NoObj
       /\ store' = [store EXCEPT ![SCCKey] =
                      [store[SCCKey] EXCEPT !.content.users = @ \cup {account}]]

LEMMA EnsureWrites ==
    ASSUME TypeOK, EnsureAllResources
    PROVE  UNCHANGED store \/ (pc # "idle" /\ (Made \/ UserAdded))
<1>. DEFINE ns == NamespaceOf[work.cr]
            Goal == UNCHANGED store \/ (pc # "idle" /\ (Made \/ UserAdded))
<1>1. ASSUME NEW k, NEW content, NEW next,
             Ensure(k, content, next), Makes(k, content)
      PROVE  Goal
    <2>1. pc # "idle"
        BY <1>1 DEF Makes
    <2>. QED BY <1>1, <2>1 DEF Ensure, Made
<1>2. CASE EnsureSCC
    <2>1. UserToAdd(ns) \in Accounts /\ pc = "SCC"
        BY <1>2, TypeParts, RequestTyped, AccountsTyped DEF EnsureSCC
    <2>2. CASE Ensure(SCCKey, [users |-> {UserToAdd(ns)}], "PVC")
        <3>1. Makes(SCCKey, [users |-> {UserToAdd(ns)}])
            BY <2>1 DEF Makes
        <3>. QED BY <1>1, <2>2, <3>1
    <2>3. CASE /\ Cached(SCCKey) # NoObj
               /\ FreshSCC(Cached(SCCKey))
               /\ AddUser(Cached(SCCKey), ns)
        BY <2>1, <2>3, FreshAdds DEF UserAdded, FreshSCC
    <2>. QED BY <1>2, <2>2, <2>3 DEF EnsureSCC
<1>3. CASE EnsurePVC
    <2>1. CASE Ensure(ClaimKey, BuildPVC(work.obj.spec), "ServiceAccount")
        <3>1. Makes(ClaimKey, BuildPVC(work.obj.spec))
            BY <1>3 DEF EnsurePVC, Makes
        <3>. QED BY <1>1, <2>1, <3>1
    <2>. QED BY <1>3, <2>1 DEF EnsurePVC
<1>4. CASE EnsureServiceAccount
    BY <1>1, <1>4 DEF EnsureServiceAccount, Makes
<1>5. CASE EnsureClusterRole
    BY <1>1, <1>5 DEF EnsureClusterRole, Makes
<1>6. CASE EnsureClusterRoleBinding
    BY <1>1, <1>6 DEF EnsureClusterRoleBinding, Makes
<1>7. CASE EnsureRole
    BY <1>1, <1>7 DEF EnsureRole, Makes
<1>8. CASE EnsureRoleBinding
    BY <1>1, <1>8 DEF EnsureRoleBinding, Makes
<1>9. CASE EnsureDeployment
    BY <1>1, <1>9 DEF EnsureDeployment, Makes
<1>10. CASE EnsureService
    BY <1>1, <1>10 DEF EnsureService, Makes
<1>11. CASE EnsureStorageClass
    BY <1>1, <1>11 DEF EnsureStorageClass, Makes
<1>12. CASE PanicInBuildPVC \/ EnsureFails \/ ProbeFails
    BY <1>12 DEF PanicInBuildPVC, EnsureFails, ProbeFails, clusterVars
<1>. QED BY <1>2, <1>3, <1>4, <1>5, <1>6, <1>7, <1>8, <1>9, <1>10, <1>11, <1>12
        DEF EnsureAllResources

\* The operator makes objects, adds a user to the SCC and deletes the two
\* cluster-wide objects; all else is done by others.
LEMMA WritersOfObjects ==
    ASSUME TypeOK, [Next]_vars
    PROVE  \/ UNCHANGED store
           \/ pc # "idle" /\ Made
           \/ UserAdded
           \/ ExternalDeleted
           \/ \E k \in Providable : Provide(k)
           \/ \E k \in Drifting : DriftDelete(k)
           \/ \E k \in Keys : GarbageCollect(k)
<1>1. CASE EnsureAllResources
    BY <1>1, EnsureWrites
<1>2. CASE DeleteClusterRole \/ DeleteClusterRoleBinding
    BY <1>2
       DEF DeleteClusterRole, DeleteClusterRoleBinding, DeleteExternal,
           ExternalDeleted, ExternalKeys
<1>3. CASE Environment
    <2>1. ASSUME NEW account \in Administered, AdminAddSCCUser(account)
          PROVE  UserAdded
        BY <2>1, AccountsTyped DEF AdminAddSCCUser, UserAdded
    <2>. QED BY <1>3, <2>1
            DEF Environment, UserCreate, UserEdit, UserDelete, FinishForeground
<1>. QED BY <1>1, <1>2, <1>3
        DEF Next, Reconcile, UpdateStatus, KeepFinalizer, AddFinalizer,
            IgnoreDeleted, BeginCleanup, RemoveFinalizer, UpdateFails, WorkFrame,
            Sync, SyncCR, StartReconcile, Crash, clusterVars, vars

\* The stages of EnsureAllResources follow each other with one request.
LEMMA StagesFollow ==
    ASSUME [Next]_vars
    PROVE  \/ UNCHANGED <<pc, work>>
           \/ pc' \notin EnsureStages \ {"SCC"}
           \/ EnsureAllResources /\ UNCHANGED work
<1>. USE DEF EnsureStages
<1>1. CASE Environment /\ UNCHANGED managerVars
    BY <1>1 DEF managerVars
<1>2. CASE \/ \E k \in Lagging : Sync(k)
           \/ \E cr \in Provisioners : SyncCR(cr)
           \/ UNCHANGED vars
    BY <1>2 DEF Sync, SyncCR, vars
<1>3. CASE \E cr \in Provisioners : StartReconcile(cr)
    BY <1>3 DEF StartReconcile
<1>4. CASE Crash
    BY <1>4 DEF Crash, Restart
<1>5. CASE EnsureAllResources
    BY <1>5, WorkerMoves DEF Reconcile
<1>6. CASE \/ UpdateStatus \/ KeepFinalizer \/ AddFinalizer \/ IgnoreDeleted
           \/ BeginCleanup \/ RemoveFinalizer \/ UpdateFails
    BY <1>6
       DEF UpdateStatus, KeepFinalizer, AddFinalizer, IgnoreDeleted,
           BeginCleanup, RemoveFinalizer, UpdateFails, Conflict, Finish,
           Requeue, Advance
<1>7. CASE DeleteClusterRole \/ DeleteClusterRoleBinding
    BY <1>7
       DEF DeleteClusterRole, DeleteClusterRoleBinding, DeleteExternal, Written,
           Advance, Requeue
<1>. QED BY <1>1, <1>2, <1>3, <1>4, <1>5, <1>6, <1>7 DEF Next, Reconcile

\* An informer keeps what it has or takes what is stored.
LEMMA CachesFollow ==
    ASSUME TypeOK, [Next]_vars, NEW k \in Lagging
    PROVE  cache'[k] = cache[k] \/ (cache'[k] = store[k] /\ UNCHANGED store)
<1>. cache \in [Lagging -> Objects \cup {NoObj}]
    BY DEF TypeOK, ManagerTypeOK
<1>1. CASE EnsureAllResources
    BY <1>1
       DEF EnsureAllResources, EnsureSCC, EnsurePVC, PanicInBuildPVC, Restart,
           EnsureServiceAccount, EnsureClusterRole, EnsureClusterRoleBinding,
           EnsureRole, EnsureRoleBinding, EnsureDeployment, EnsureService,
           EnsureStorageClass, EnsureFails, ProbeFails, EnsureFrame, clusterVars
<1>2. CASE DeleteClusterRole \/ DeleteClusterRoleBinding
    BY <1>2 DEF DeleteClusterRole, DeleteClusterRoleBinding, DeleteExternal, EnsureFrame
<1>3. CASE \E x \in Lagging : Sync(x)
    BY <1>3 DEF Sync, clusterVars
<1>4. CASE Crash
    BY <1>4 DEF Crash, Restart, clusterVars
<1>. QED BY <1>1, <1>2, <1>3, <1>4
        DEF Next, Reconcile, UpdateStatus, KeepFinalizer, AddFinalizer,
            IgnoreDeleted, BeginCleanup, RemoveFinalizer, UpdateFails, WorkFrame,
            SyncCR, StartReconcile, managerVars, vars

-----------------------------------------------------------------------------
(* The account of a Deployment is a user of the SCC *)

\* The substring test for an account tells namespaces apart.
NamesTellApart ==
    /\ \A ns \in Namespaces : EndsWith[ns] = {ns}
    /\ Administered \subseteq [ns : Namespaces, sa : STRING]

\* What goes well in a step: no probe that could see the CRD fails, and nobody
\* deletes the SCC.
SoundListing == ~ ProbeFails /\ ~ DriftDelete(SCCKey)

Listed(ns) == Exists(SCCKey) /\ UserToAdd(ns) \in store[SCCKey].content.users

\* The garbage collector has no claim on the SCC.
UnownedSCC == Exists(SCCKey) => store[SCCKey].owner = NoObj

\* A copy that trails shows no user who is not there.
CachedUsers ==
    SCCKey \in Lagging /\ cache[SCCKey] # NoObj =>
       /\ Exists(SCCKey)
       /\ cache[SCCKey].content.users \subseteq store[SCCKey].content.users

StagesListed == pc \in EnsureStages \ {"SCC"} => Listed(NamespaceOf[work.cr])

DeploymentsListed ==
    \A ns \in Namespaces :
       Exists(DeploymentKey(ns)) /\ store[DeploymentKey(ns)].owner # NoObj => Listed(ns)

ListedFirst == UnownedSCC /\ CachedUsers /\ StagesListed /\ DeploymentsListed

\* Whoever is in the SCC was put there by an administrator.
OnlyAdministered == Exists(SCCKey) => store[SCCKey].content.users \subseteq Administered

LEMMA ListingSound ==
    ASSUME TypeOK, [SoundListing]_vars
    PROVE  SoundListing
<1>1. ~ (Fault /\ UNCHANGED faults)
    BY FaultsAssumption DEF Fault, TypeOK, ManagerTypeOK
<1>2. ~ (Drift /\ UNCHANGED used)
    BY BoundsAssumption DEF Drift, TypeOK, ClusterTypeOK
<1>. QED BY <1>1, <1>2 DEF SoundListing, ProbeFails, DriftDelete, vars

LEMMA SCCStays ==
    ASSUME TypeOK, SoundListing, UnownedSCC, [Next]_vars, Exists(SCCKey)
    PROVE  /\ Exists(SCCKey)'
           /\ store'[SCCKey].owner = NoObj
           /\ store[SCCKey].content.users \subseteq store'[SCCKey].content.users
<1>. StoreOK /\ SCCKey \in Keys
    BY TypeParts, KeysTyped
<1>. store \in [Keys -> Objects \cup {NoObj}]
    BY DEF StoreOK
<1>1. CASE UserAdded
    <2>. PICK account \in Accounts :
            store' = [store EXCEPT ![SCCKey] =
                        [store[SCCKey] EXCEPT !.content.users = @ \cup {account}]]
        BY <1>1 DEF UserAdded
    <2>. DEFINE old == store[SCCKey]
                obj == [old EXCEPT !.content.users = @ \cup {account}]
    <2>1. old \in Objects /\ old.content \in [users : SUBSET Accounts]
        BY DEF StoreOK, SCCShape, Exists
    <2>2. obj.content \in [users : SUBSET Accounts]
        BY <2>1 DEF Objects
    <2>3. obj \in Objects /\ obj.owner = old.owner
        BY <2>1, <2>2, ContentsTyped DEF Objects
    <2>4. store'[SCCKey] = obj
        OBVIOUS
    <2>. QED BY <2>3, <2>4, NoObjAssumption, StepKeepsUsers
            DEF Exists, UsersKept, UnownedSCC
<1>2. \/ Made \/ ExternalDeleted \/ \E k \in Providable : Provide(k)
      \/ \E k \in Drifting : DriftDelete(k)
      \/ \E k \in Keys : GarbageCollect(k)
      \/ UNCHANGED store
      => store'[SCCKey] = store[SCCKey]
    BY SCCKeyUnique
       DEF Made, ExternalDeleted, ExternalKeys, Provide, DriftDelete,
           GarbageCollect, Collectable, SoundListing, UnownedSCC, Exists
<1>3. CASE store'[SCCKey] = store[SCCKey]
    BY <1>3 DEF Exists, UnownedSCC
<1>. QED BY <1>1, <1>2, <1>3, WritersOfObjects

LEMMA ListedStays ==
    ASSUME TypeOK, SoundListing, UnownedSCC, [Next]_vars, NEW ns, Listed(ns)
    PROVE  Listed(ns)'
BY SCCStays DEF Listed, UserToAdd

LEMMA UnownedStep ==
    ASSUME TypeOK, SoundListing, UnownedSCC, [Next]_vars
    PROVE  UnownedSCC'
<1>. store \in [Keys -> Objects \cup {NoObj}] /\ SCCKey \in Keys
    BY KeysTyped DEF TypeOK, ClusterTypeOK
<1>1. CASE Exists(SCCKey)
    BY <1>1, SCCStays DEF UnownedSCC
<1>2. CASE ~ Exists(SCCKey)
    <2>1. Made => UnownedSCC'
        <3>1. ASSUME NEW k, NEW content, store' = [store EXCEPT ![k] = Build(k, content)]
              PROVE  UnownedSCC'
            BY <1>2, <3>1 DEF UnownedSCC, Exists, Build, ClusterScoped, SCCKey
        <3>. QED BY <3>1 DEF Made
    <2>2. \/ UserAdded \/ ExternalDeleted \/ UNCHANGED store
          \/ \E k \in Providable : Provide(k)
          \/ \E k \in Drifting : DriftDelete(k)
          \/ \E k \in Keys : GarbageCollect(k)
          => UnownedSCC'
        BY <1>2 DEF UserAdded, ExternalDeleted, Provide, DriftDelete,
                    GarbageCollect, UnownedSCC, Exists
    <2>. QED BY <2>1, <2>2, WritersOfObjects
<1>. QED BY <1>1, <1>2

LEMMA CachedUsersStep ==
    ASSUME TypeOK, SoundListing, UnownedSCC, CachedUsers, [Next]_vars
    PROVE  CachedUsers'
<1>1. SUFFICES ASSUME SCCKey \in Lagging, cache'[SCCKey] # NoObj
               PROVE  /\ Exists(SCCKey)'
                      /\ cache'[SCCKey].content.users \subseteq store'[SCCKey].content.users
    BY DEF CachedUsers
<1>2. CASE cache'[SCCKey] = store[SCCKey] /\ UNCHANGED store
    BY <1>1, <1>2 DEF Exists
<1>3. CASE cache'[SCCKey] = cache[SCCKey]
    BY <1>1, <1>3, SCCStays DEF CachedUsers
<1>. QED BY <1>1, <1>2, <1>3, CachesFollow

\* The stage of the SCC is only left when the account is listed.
LEMMA SCCStageLists ==
    ASSUME TypeOK, NamesTellApart, ApiExtensions \in Scheme,
           Security \in ServedCRDs, SoundListing, UnownedSCC, CachedUsers,
           EnsureSCC, pc' # "idle",
           NEW ns, ns = NamespaceOf[work.cr]
    PROVE  Listed(ns)'
<1>. DEFINE found == Cached(SCCKey)
<1>. StoreOK /\ WorkerOK /\ CachesOK /\ SCCKey \in Keys
    BY TypeParts, KeysTyped
<1>. store \in [Keys -> Objects \cup {NoObj}]
    BY DEF StoreOK
<1>. [Next]_vars
    BY DEF Next, Reconcile, EnsureAllResources
<1>1. ns \in Namespaces /\ UserToAdd(ns) \in Accounts
    BY RequestTyped, AccountsTyped DEF EnsureSCC
<1>2. IsSCCCRDAvailable
    BY DEF IsSCCCRDAvailable
<1>3. found # NoObj =>
         /\ Exists(SCCKey)
         /\ found.content.users \subseteq store[SCCKey].content.users
    BY DEF Cached, CachedUsers, Exists
<1>4. ASSUME NEW user \in Accounts, Mentions(user, ns)
      PROVE  user = UserToAdd(ns)
    BY <1>1, <1>4 DEF Mentions, NamesTellApart, Accounts, UserToAdd
<1>5. CASE found # NoObj /\ \E user \in found.content.users : Mentions(user, ns)
    <2>1. found.content.users \subseteq Accounts
        BY <1>5 DEF Cached, CachesOK, StoreOK, SCCShape
    <2>2. Listed(ns)
        BY <1>3, <1>4, <1>5, <2>1 DEF Listed
    <2>. QED BY <2>2, ListedStays DEF EnsureFrame, EnsureSCC
<1>6. CASE Ensure(SCCKey, [users |-> {UserToAdd(ns)}], "PVC") /\ found = NoObj
    <2>1. store' = [store EXCEPT ![SCCKey] = Build(SCCKey, [users |-> {UserToAdd(ns)}])]
        BY <1>6 DEF Ensure, Requeue
    <2>2. Build(SCCKey, [users |-> {UserToAdd(ns)}]) \in Objects
        BY <1>1, ContentsTyped, BuildTyped DEF EnsureSCC
    <2>. QED BY <2>1, <2>2, NoObjAssumption DEF Listed, Exists, Build
<1>7. CASE found # NoObj /\ FreshSCC(found) /\ AddUser(found, ns)
    <2>1. store[SCCKey] \in Objects /\ store[SCCKey].content \in [users : SUBSET Accounts]
        BY <1>7 DEF StoreOK, SCCShape, FreshSCC
    <2>2. UserToAdd(ns) \in store'[SCCKey].content.users
        BY <2>1, <1>7, FreshAdds DEF Objects
    <2>3. Exists(SCCKey)'
        BY <1>3, <1>7, SCCStays
    <2>. QED BY <2>2, <2>3 DEF Listed
<1>. QED BY <1>2, <1>5, <1>6, <1>7 DEF EnsureSCC, Requeue

LEMMA StagesListedStep ==
    ASSUME TypeOK, NamesTellApart, ApiExtensions \in Scheme,
           Security \in ServedCRDs, SoundListing, ListedFirst, [Next]_vars
    PROVE  StagesListed'
<1>1. SUFFICES ASSUME pc' \in EnsureStages \ {"SCC"},
                      NEW ns, ns = NamespaceOf[work'.cr]
               PROVE  Listed(ns)'
    BY DEF StagesListed, Listed, Exists, UserToAdd
<1>2. CASE pc \in EnsureStages \ {"SCC"} /\ UNCHANGED work
    BY <1>1, <1>2, ListedStays DEF ListedFirst, StagesListed
<1>3. CASE EnsureAllResources /\ UNCHANGED work /\ pc = "SCC"
    <2>1. EnsureSCC
        BY <1>1, <1>3
           DEF EnsureAllResources, EnsurePVC, PanicInBuildPVC,
               EnsureServiceAccount, EnsureClusterRole, EnsureClusterRoleBinding,
               EnsureRole, EnsureRoleBinding, EnsureDeployment, EnsureService,
               EnsureStorageClass, EnsureFails, ProbeFails, Requeue,
               EnsureStages, SoundListing
    <2>. QED BY <1>1, <1>3, <2>1, SCCStageLists DEF ListedFirst, EnsureStages
<1>4. EnsureAllResources => pc \in EnsureStages
    BY DEF EnsureAllResources, EnsureSCC, EnsurePVC, PanicInBuildPVC,
           EnsureServiceAccount, EnsureClusterRole, EnsureClusterRoleBinding,
           EnsureRole, EnsureRoleBinding, EnsureDeployment, EnsureService,
           EnsureStorageClass, EnsureFails, ProbeFails, EnsureStages
<1>. QED BY <1>1, <1>2, <1>3, <1>4, StagesFollow

\* A Deployment with an owner is made by its stage or was there before.
LEMMA OwnedDeployment ==
    ASSUME TypeOK, [Next]_vars, NEW ns \in Namespaces,
           Exists(DeploymentKey(ns))',
           store'[DeploymentKey(ns)].owner # NoObj
    PROVE  \/ store'[DeploymentKey(ns)] = store[DeploymentKey(ns)]
           \/ /\ pc = "Deployment"
              /\ ns = NamespaceOf[work.cr]
              /\ store'[DeploymentKey(ns)].content
                   = BuildDeployment(work.cr, work.obj.spec)
<1>. DEFINE k == DeploymentKey(ns)
<1>. store \in [Keys -> Objects \cup {NoObj}] /\ k \in Keys
    BY KeysTyped DEF TypeOK, ClusterTypeOK
<1>1. CASE pc # "idle" /\ Made
    <2>. PICK x, content : /\ Makes(x, content)
                           /\ store' = [store EXCEPT ![x] = Build(x, content)]
        BY <1>1 DEF Made
    <2>1. CASE x = k
        <3>1. pc = "Deployment" /\ x = DeploymentKey(NamespaceOf[work.cr])
              /\ content = BuildDeployment(work.cr, work.obj.spec)
            BY <2>1
               DEF Makes, DeploymentKey, SCCKey, ClaimKey, PVCKey,
                   ServiceAccountKey, ClusterRoleKey, ClusterRoleBindingKey,
                   RoleKey, RoleBindingKey, ServiceKey, StorageClassKey
        <3>2. ns = NamespaceOf[work.cr]
            BY <2>1, <3>1 DEF DeploymentKey
        <3>. QED BY <2>1, <3>1, <3>2 DEF Build
    <2>2. CASE x # k
        BY <2>2
    <2>. QED BY <2>1, <2>2
<1>2. \/ UserAdded \/ ExternalDeleted \/ UNCHANGED store
      \/ \E x \in Providable : Provide(x)
      \/ \E x \in Drifting : DriftDelete(x)
      \/ \E x \in Keys : GarbageCollect(x)
      => store'[k] = store[k]
    BY SCCKeyUnique
       DEF UserAdded, ExternalDeleted, Provide, DriftDelete, GarbageCollect, Exists
<1>. QED BY <1>1, <1>2, WritersOfObjects

LEMMA ListedFirstStep ==
    ASSUME TypeOK, NamesTellApart, ApiExtensions \in Scheme,
           Security \in ServedCRDs, SoundListing, ListedFirst, [Next]_vars
    PROVE  ListedFirst'
<1>1. UnownedSCC' /\ CachedUsers'
    BY UnownedStep, CachedUsersStep DEF ListedFirst
<1>2. StagesListed'
    BY StagesListedStep
<1>3. DeploymentsListed'
    <2>1. SUFFICES ASSUME NEW ns \in Namespaces,
                          Exists(DeploymentKey(ns))',
                          store'[DeploymentKey(ns)].owner # NoObj
                   PROVE  Listed(ns)'
        BY DEF DeploymentsListed
    <2>2. CASE store'[DeploymentKey(ns)] = store[DeploymentKey(ns)]
        BY <2>1, <2>2, ListedStays DEF ListedFirst, DeploymentsListed, Exists
    <2>3. CASE pc = "Deployment" /\ ns = NamespaceOf[work.cr]
        BY <2>3, ListedStays DEF ListedFirst, StagesListed, EnsureStages
    <2>. QED BY <2>1, <2>2, <2>3, OwnedDeployment
<1>. QED BY <1>1, <1>2, <1>3 DEF ListedFirst

\* Without the group of CustomResourceDefinitions in the scheme the operator
\* puts nobody in the SCC, whatever becomes of it.
LEMMA AdministeredStep ==
    ASSUME TypeOK, ApiExtensions \notin Scheme, OnlyAdministered, [Next]_vars
    PROVE  OnlyAdministered'
<1>. USE DEF OnlyAdministered, Exists
<1>. store \in [Keys -> Objects \cup {NoObj}] /\ SCCKey \in Keys
    BY KeysTyped DEF TypeOK, ClusterTypeOK
<1>1. CASE store'[SCCKey] = store[SCCKey] \/ store'[SCCKey] = NoObj
    BY <1>1
<1>2. CASE EnsureAllResources
    <2>1. ASSUME NEW k, k # SCCKey, NEW content, NEW next, Ensure(k, content, next)
          PROVE  store'[SCCKey] = store[SCCKey]
        BY <2>1 DEF Ensure
    <2>2. CASE EnsureSCC
        BY <1>1, <2>2 DEF EnsureSCC, IsSCCCRDAvailable
    <2>3. CASE EnsurePVC
        BY <1>1, <2>1, <2>3 DEF EnsurePVC, ClaimKey, PVCKey, SCCKey
    <2>4. CASE \/ EnsureServiceAccount \/ EnsureClusterRole
               \/ EnsureClusterRoleBinding \/ EnsureRole \/ EnsureRoleBinding
               \/ EnsureDeployment \/ EnsureService \/ EnsureStorageClass
        BY <1>1, <2>1, <2>4
           DEF EnsureServiceAccount, EnsureClusterRole, EnsureClusterRoleBinding,
               EnsureRole, EnsureRoleBinding, EnsureDeployment, EnsureService,
               EnsureStorageClass, ServiceAccountKey, ClusterRoleKey,
               ClusterRoleBindingKey, RoleKey, RoleBindingKey, DeploymentKey,
               ServiceKey, StorageClassKey, SCCKey
    <2>5. CASE PanicInBuildPVC \/ EnsureFails \/ ProbeFails
        BY <1>1, <2>5 DEF PanicInBuildPVC, EnsureFails, ProbeFails, clusterVars
    <2>. QED BY <1>2, <2>2, <2>3, <2>4, <2>5 DEF EnsureAllResources
<1>3. CASE Environment
    <2>1. ASSUME NEW account \in Administered, AdminAddSCCUser(account)
          PROVE  OnlyAdministered'
        <3>1. store[SCCKey] \in Objects /\ store[SCCKey].content \in [users : SUBSET Accounts]
            BY <2>1 DEF AdminAddSCCUser, TypeOK, ClusterTypeOK, SCCShape
        <3>2. store'[SCCKey].content.users = store[SCCKey].content.users \cup {account}
            BY <2>1, <3>1 DEF AdminAddSCCUser, Objects
        <3>. QED BY <2>1, <3>2 DEF AdminAddSCCUser
    <2>2. ASSUME NEW k \in Providable, Provide(k)
          PROVE  OnlyAdministered'
        BY <2>2 DEF Provide, ForeignContent
    <2>3. CASE \/ \E k \in Drifting : DriftDelete(k)
               \/ \E k \in Keys : GarbageCollect(k)
        BY <1>1, <2>3 DEF DriftDelete, GarbageCollect
    <2>. QED BY <1>1, <1>3, <2>1, <2>2, <2>3
            DEF Environment, UserCreate, UserEdit, UserDelete, FinishForeground
<1>4. CASE DeleteClusterRole \/ DeleteClusterRoleBinding
    BY <1>1, <1>4, SCCKeyUnique
       DEF DeleteClusterRole, DeleteClusterRoleBinding, DeleteExternal
<1>. QED BY <1>1, <1>2, <1>3, <1>4
        DEF Next, Reconcile, UpdateStatus, KeepFinalizer, AddFinalizer,
            IgnoreDeleted, BeginCleanup, RemoveFinalizer, UpdateFails, WorkFrame,
            Sync, SyncCR, StartReconcile, Crash, clusterVars, vars

\* The scheme of the manager decides.  With the group isSCCCRDAvailable reads
\* from, no Deployment of a resource exists on OpenShift whose account is not a
\* user of the SCC, however far behind the informer's copy of the SCC is, unless
\* a probe fails or somebody deletes the SCC.  Without it, as cmd/main.go has
\* it, every user of the SCC is one an administrator put there.
THEOREM AccountsFollowScheme ==
    ASSUME NamesTellApart
    PROVE  Spec /\ [][SoundListing]_vars =>
              [](IF ApiExtensions \in Scheme THEN SCCBeforeDeployment
                                             ELSE OnlyAdministered)
<1>. DEFINE Inv == IF ApiExtensions \in Scheme
                   THEN Security \in ServedCRDs => ListedFirst
                   ELSE OnlyAdministered
<1>1. Init => Inv
    BY KeysTyped
       DEF Init, ClusterInit, ManagerInit, ListedFirst, UnownedSCC, CachedUsers,
           StagesListed, DeploymentsListed, OnlyAdministered, Exists, EnsureStages
<1>2. TypeOK /\ Inv /\ [Next]_vars /\ [SoundListing]_vars => Inv'
    BY ListingSound, ListedFirstStep, AdministeredStep
<1>3. TypeOK /\ Inv =>
         IF ApiExtensions \in Scheme THEN SCCBeforeDeployment ELSE OnlyAdministered
    <2>1. SUFFICES ASSUME TypeOK, ListedFirst, NEW cr \in Provisioners,
                          OwnedBy(DeploymentKey(NamespaceOf[cr]), cr)
                   PROVE  Listed(NamespaceOf[cr])
        BY DEF SCCBeforeDeployment, Listed
    <2>2. UidOf(cr, crs[cr]) # NoObj
        BY <2>1, NoObjAssumption
           DEF OwnedBy, TypeOK, ClusterTypeOK, UidOf, Uids, CustomResources
    <2>. QED BY <2>1, <2>2, NamespaceAssumption
            DEF OwnedBy, ListedFirst, DeploymentsListed
<1>. QED BY <1>1, <1>2, <1>3, TypeCorrect, PTL DEF Spec

-----------------------------------------------------------------------------
(* The objects a Deployment's pod needs are there *)

Prerequisites(ns) ==
    {ServiceAccountKey(ns), RoleKey(ns), RoleBindingKey(ns)}
    \cup {PVCKey(ns, ClaimName(spec)) : spec \in AdmittedSpecs}

\* What PrerequisitesInPlace rests on: a namespace has one resource, which is
\* not made anew under its name, nobody deletes a prerequisite and nobody else
\* makes the Role and its binding.
OneResourceEach ==
    /\ MaxBirths <= 1
    /\ \A c1, c2 \in Provisioners : NamespaceOf[c1] = NamespaceOf[c2] => c1 = c2
    /\ \A ns \in Namespaces :
          /\ Prerequisites(ns) \cap Drifting = {}
          /\ {RoleKey(ns), RoleBindingKey(ns)} \cap Providable = {}

\* Nobody has asked for the end of the resource.
Pending(cr) == births[cr] = 0 \/ Live(cr)

ForegroundMarked ==
    \A cr \in Provisioners : crs[cr] # NoObj /\ crs[cr].foreground => crs[cr].deleting

\* What has an owner has that of its namespace.
OwnersOfNamespace ==
    \A cr \in Provisioners : \A k \in Prerequisites(NamespaceOf[cr]) :
       Exists(k) /\ store[k].owner # NoObj =>
          store[k].owner.cr = cr /\ births[cr] > 0

CachedPrerequisites ==
    \A cr \in Provisioners : \A k \in Prerequisites(NamespaceOf[cr]) :
       Pending(cr) /\ k \in Lagging /\ cache[k] # NoObj => Exists(k)

RolesBuilt ==
    \A ns \in Namespaces :
       /\ Exists(RoleKey(ns)) => store[RoleKey(ns)].content = BuildRole
       /\ Exists(RoleBindingKey(ns)) =>
             store[RoleBindingKey(ns)].content = BuildRoleBinding(ns)

AfterRoleBinding == {"Deployment"}
AfterRole == AfterRoleBinding \cup {"RoleBinding"}
AfterServiceAccount == AfterRole \cup {"ClusterRole", "ClusterRoleBinding", "Role"}
AfterClaim == AfterServiceAccount \cup {"ServiceAccount"}

\* What the stages before a stage left.
StagesReady ==
    LET ns == NamespaceOf[work.cr] IN
    pc \in AfterClaim /\ Pending(work.cr) =>
       /\ WantsClaim(work.obj.spec) => Exists(PVCKey(ns, ClaimName(work.obj.spec)))
       /\ pc \in AfterServiceAccount => Exists(ServiceAccountKey(ns))
       /\ pc \in AfterRole => Exists(RoleKey(ns))
       /\ pc \in AfterRoleBinding => Exists(RoleBindingKey(ns))

MountsPrerequisite(ns) ==
    LET volume == store[DeploymentKey(ns)].content.volume IN
       volume.kind = "claim" =>
          /\ PVCKey(ns, volume.ref) \in Prerequisites(ns)
          /\ Exists(PVCKey(ns, volume.ref))

DeploymentsReady ==
    \A cr \in Provisioners :
       LET ns == NamespaceOf[cr] IN
       /\ Pending(cr)
       /\ Exists(DeploymentKey(ns))
       /\ store[DeploymentKey(ns)].owner # NoObj
       => /\ Exists(ServiceAccountKey(ns))
          /\ Exists(RoleKey(ns))
          /\ Exists(RoleBindingKey(ns))
          /\ MountsPrerequisite(ns)

ReadyFirst ==
    /\ Requested
    /\ BranchTaken
    /\ ForegroundMarked
    /\ OwnersOfNamespace
    /\ CachedPrerequisites
    /\ RolesBuilt
    /\ StagesReady
    /\ DeploymentsReady

LEMMA PrerequisiteKeys ==
    ASSUME NEW ns \in Namespaces, NEW k \in Prerequisites(ns)
    PROVE  /\ k \in Keys
           /\ k # SCCKey
           /\ k \notin ExternalKeys
           /\ \A x : k # DeploymentKey(x)
           /\ \A x : k \in Prerequisites(x) => x = ns
<1>. USE DEF Prerequisites
<1>1. k \in Keys
    BY KeysTyped
<1>2. k[2] = ns /\ k[1] \in {"ServiceAccount", "Role", "RoleBinding", "PersistentVolumeClaim"}
    BY DEF ServiceAccountKey, RoleKey, RoleBindingKey, PVCKey
<1>3. k # SCCKey /\ k \notin ExternalKeys /\ \A x : k # DeploymentKey(x)
    BY <1>2
       DEF SCCKey, ExternalKeys, ClusterRoleKey, ClusterRoleBindingKey, DeploymentKey
<1>4. ASSUME NEW x, k \in Prerequisites(x) PROVE x = ns
    BY <1>2, <1>4 DEF ServiceAccountKey, RoleKey, RoleBindingKey, PVCKey
<1>. QED BY <1>1, <1>3, <1>4

\* A stage only makes prerequisites of its own namespace.
LEMMA MadeInNamespace ==
    ASSUME NEW ns, NEW k \in Prerequisites(ns), NEW content, Makes(k, content)
    PROVE  ns = NamespaceOf[work.cr]
BY DEF Makes, Prerequisites, SCCKey, ClaimKey, PVCKey, ServiceAccountKey,
       ClusterRoleKey, ClusterRoleBindingKey, RoleKey, RoleBindingKey,
       DeploymentKey, ServiceKey, StorageClassKey

\* A resource is created once.
LEMMA BornByCreation ==
    ASSUME TypeOK, [Next]_vars
    PROVE  UNCHANGED births \/ \E x \in Provisioners, spec \in Specs : UserCreate(x, spec)
<1>1. Environment => UNCHANGED births \/ \E x \in Provisioners, spec \in Specs : UserCreate(x, spec)
    BY DEF Environment, UserEdit, UserDelete, DriftDelete, Provide,
           AdminAddSCCUser, GarbageCollect, FinishForeground, Drift
<1>2. ~ Environment => UNCHANGED births
    BY ReconcileCreatesNoResource
       DEF Next, Sync, SyncCR, StartReconcile, Crash, clusterVars, vars
<1>. QED BY <1>1, <1>2

LEMMA BirthsStep ==
    ASSUME TypeOK, OneResourceEach, [Next]_vars, NEW cr \in Provisioners
    PROVE  births[cr] <= births'[cr] /\ (births'[cr] = births[cr] \/ births[cr] = 0)
<1>. births \in [Provisioners -> 0 .. MaxBirths]
    BY DEF TypeOK, ClusterTypeOK
<1>1. CASE UNCHANGED births
    BY <1>1, BoundsAssumption
<1>2. ASSUME NEW x \in Provisioners, NEW spec \in Specs, UserCreate(x, spec)
      PROVE  births[cr] <= births'[cr] /\ (births'[cr] = births[cr] \/ births[cr] = 0)
    BY <1>2, BoundsAssumption DEF UserCreate, OneResourceEach
<1>. QED BY <1>1, <1>2, BornByCreation

LEMMA PendingBefore ==
    ASSUME TypeOK, BranchTaken, OneResourceEach, [Next]_vars,
           NEW cr \in Provisioners, Pending(cr)'
    PROVE  Pending(cr)
<1>1. IntentKept(cr)
    BY StepKeepsIntent
<1>2. births[cr] <= births'[cr] /\ (births'[cr] = births[cr] \/ births[cr] = 0)
    BY BirthsStep
<1>3. births[cr] \in Nat /\ births'[cr] \in Nat
    BY StepTyped, BoundsAssumption DEF TypeOK, ClusterTypeOK
<1>. QED BY <1>1, <1>2, <1>3 DEF Pending, Live, IntentKept

LEMMA PrerequisiteStays ==
    ASSUME TypeOK, OneResourceEach, ForegroundMarked, OwnersOfNamespace,
           [Next]_vars, NEW cr \in Provisioners, Pending(cr),
           NEW k \in Prerequisites(NamespaceOf[cr]), Exists(k)
    PROVE  store'[k] = store[k]
<1>. /\ store \in [Keys -> Objects \cup {NoObj}]
     /\ crs \in [Provisioners -> CustomResources \cup {NoObj}]
    BY DEF TypeOK, ClusterTypeOK
<1>1. NamespaceOf[cr] \in Namespaces
    BY NamespaceAssumption
<1>2. k \in Keys /\ k # SCCKey /\ k \notin ExternalKeys
    BY <1>1, PrerequisiteKeys
<1>3. k \notin Drifting
    BY <1>1 DEF OneResourceEach
<1>4. ~ Collectable(k)
    <2>1. SUFFICES ASSUME store[k].owner # NoObj PROVE ~ Collectable(k)
        BY DEF Collectable
    <2>2. store[k].owner.cr = cr /\ births[cr] > 0
        BY <2>1 DEF OwnersOfNamespace
    <2>3. Live(cr) /\ ~ crs[cr].foreground
        BY <2>2 DEF Pending, ForegroundMarked, Live
    <2>4. store[k].owner.birth \in 1 .. MaxBirths /\ crs[cr].birth \in 1 .. MaxBirths
        BY <1>2, <2>1, <2>3 DEF Exists, Live, Objects, Uids, CustomResources
    <2>5. store[k].owner.birth = crs[cr].birth
        BY <2>4, BoundsAssumption DEF OneResourceEach
    <2>. QED BY <2>2, <2>3, <2>5 DEF Collectable, Live
<1>5. Made \/ UserAdded \/ ExternalDeleted => store'[k] = store[k]
    BY <1>2 DEF Made, UserAdded, ExternalDeleted, Exists
<1>6. \/ \E x \in Providable : Provide(x)
      \/ \E x \in Drifting : DriftDelete(x)
      \/ \E x \in Keys : GarbageCollect(x)
      => store'[k] = store[k]
    BY <1>2, <1>3, <1>4 DEF Provide, DriftDelete, GarbageCollect, Exists
<1>. QED BY <1>5, <1>6, WritersOfObjects

LEMMA ForegroundMarkedStep ==
    ASSUME TypeOK, ForegroundMarked, [Next]_vars
    PROVE  ForegroundMarked'
<1>. crs \in [Provisioners -> CustomResources \cup {NoObj}]
    BY DEF TypeOK, ClusterTypeOK
<1>. USE DEF ForegroundMarked
<1>1. CASE UNCHANGED crs
    BY <1>1
<1>2. CASE UpdateStatus \/ AddFinalizer \/ RemoveFinalizer
    <2>1. work.cr \in Provisioners /\ work.obj \in CustomResources
        BY <1>2, TypeParts, RequestTyped DEF UpdateStatus, AddFinalizer, RemoveFinalizer
    <2>2. /\ [work.obj EXCEPT !.error = ErrorText(work.obj.spec)].foreground = work.obj.foreground
          /\ [work.obj EXCEPT !.error = ErrorText(work.obj.spec)].deleting = work.obj.deleting
          /\ [work.obj EXCEPT !.finalized = TRUE].foreground = work.obj.foreground
          /\ [work.obj EXCEPT !.finalized = TRUE].deleting = work.obj.deleting
          /\ [work.obj EXCEPT !.finalized = FALSE].foreground = work.obj.foreground
          /\ [work.obj EXCEPT !.finalized = FALSE].deleting = work.obj.deleting
        BY <2>1 DEF CustomResources
    <2>3. \/ UNCHANGED crs
          \/ /\ crs[work.cr] = work.obj
             /\ \E new : /\ crs' = [crs EXCEPT ![work.cr] = new]
                         /\ new # NoObj => /\ new.foreground = work.obj.foreground
                                           /\ new.deleting = work.obj.deleting
        BY <1>2, <2>2
           DEF UpdateStatus, AddFinalizer, RemoveFinalizer, Fresh, Stored,
               Conflict, Released
    <2>. QED BY <2>1, <2>3, NoObjAssumption
<1>3. CASE Environment
    <2>1. ASSUME NEW x \in Provisioners, NEW spec \in Specs, UserCreate(x, spec)
          PROVE  ForegroundMarked'
        BY <2>1 DEF UserCreate
    <2>2. ASSUME NEW x \in Provisioners, NEW spec \in Specs, UserEdit(x, spec)
          PROVE  ForegroundMarked'
        BY <2>2, NoObjAssumption DEF UserEdit, CustomResources
    <2>3. ASSUME NEW x \in Deletable, NEW mode \in DeletionModes, UserDelete(x, mode)
          PROVE  ForegroundMarked'
        BY <2>3, NoObjAssumption, BoundsAssumption DEF UserDelete, CustomResources
    <2>4. ASSUME NEW x \in Provisioners, FinishForeground(x)
          PROVE  ForegroundMarked'
        BY <2>4, NoObjAssumption DEF FinishForeground, CustomResources
    <2>. QED BY <1>1, <1>3, <2>1, <2>2, <2>3, <2>4
            DEF Environment, DriftDelete, Provide, AdminAddSCCUser,
                GarbageCollect, Drift
<1>. QED BY <1>1, <1>2, <1>3, WritersOfResources

\* What a step does to an object that was not there.
LEMMA Appears ==
    ASSUME TypeOK, [Next]_vars, NEW k \in Keys, k # SCCKey,
           ~ Exists(k), Exists(k)'
    PROVE  \/ k \in Providable /\ store'[k].owner = NoObj
           \/ /\ pc # "idle"
              /\ \E content : Makes(k, content) /\ store'[k] = Build(k, content)
<1>. store \in [Keys -> Objects \cup {NoObj}]
    BY DEF TypeOK, ClusterTypeOK
<1>1. CASE Made /\ pc # "idle"
    <2>. PICK x, content : /\ Makes(x, content)
                           /\ store' = [store EXCEPT ![x] = Build(x, content)]
        BY <1>1 DEF Made
    <2>1. x = k
        BY DEF Exists
    <2>. QED BY <1>1, <2>1
<1>2. CASE \E x \in Providable : Provide(x)
    BY <1>2 DEF Provide, Exists
<1>3. ~ (\/ UNCHANGED store \/ UserAdded \/ ExternalDeleted
         \/ \E x \in Drifting : DriftDelete(x)
         \/ \E x \in Keys : GarbageCollect(x))
    BY DEF UserAdded, ExternalDeleted, DriftDelete, GarbageCollect, Exists
<1>. QED BY <1>1, <1>2, <1>3, WritersOfObjects

\* No step but the SCC's changes an object that stays.
LEMMA KeptAsItIs ==
    ASSUME TypeOK, [Next]_vars, NEW k \in Keys, k # SCCKey, Exists(k), Exists(k)'
    PROVE  store'[k] = store[k]
<1>. store \in [Keys -> Objects \cup {NoObj}]
    BY DEF TypeOK, ClusterTypeOK
<1>. QED BY WritersOfObjects
        DEF Made, UserAdded, ExternalDeleted, Provide, DriftDelete,
            GarbageCollect, Exists

LEMMA OwnersStep ==
    ASSUME TypeOK, OneResourceEach, Requested, OwnersOfNamespace, [Next]_vars
    PROVE  OwnersOfNamespace'
<1>1. SUFFICES ASSUME NEW cr \in Provisioners,
                      NEW k \in Prerequisites(NamespaceOf[cr]),
                      Exists(k)', store'[k].owner # NoObj
               PROVE  store'[k].owner.cr = cr /\ births'[cr] > 0
    BY DEF OwnersOfNamespace
<1>2. NamespaceOf[cr] \in Namespaces /\ k \in Keys /\ k # SCCKey
    BY NamespaceAssumption, PrerequisiteKeys
<1>3. births[cr] <= births'[cr] /\ births[cr] \in Nat /\ births'[cr] \in Nat
    BY BirthsStep, StepTyped, BoundsAssumption DEF TypeOK, ClusterTypeOK
<1>4. CASE Exists(k)
    BY <1>1, <1>2, <1>3, <1>4, KeptAsItIs DEF OwnersOfNamespace
<1>5. CASE ~ Exists(k)
    <2>1. PICK content : Makes(k, content) /\ store'[k] = Build(k, content) /\ pc # "idle"
        BY <1>1, <1>2, <1>5, Appears
    <2>2. work.cr \in Provisioners /\ NamespaceOf[work.cr] = NamespaceOf[cr]
        BY <2>1, MadeInNamespace, TypeParts, RequestTyped
    <2>3. work.cr = cr
        BY <2>2 DEF OneResourceEach
    <2>. QED BY <1>1, <1>3, <2>1, <2>3 DEF Build, UidOf, Requested
<1>. QED BY <1>4, <1>5

LEMMA CachedPrerequisitesStep ==
    ASSUME TypeOK, OneResourceEach, BranchTaken, ForegroundMarked,
           OwnersOfNamespace, CachedPrerequisites, [Next]_vars
    PROVE  CachedPrerequisites'
<1>1. SUFFICES ASSUME NEW cr \in Provisioners,
                      NEW k \in Prerequisites(NamespaceOf[cr]),
                      Pending(cr)', k \in Lagging, cache'[k] # NoObj
               PROVE  Exists(k)'
    BY DEF CachedPrerequisites
<1>2. Pending(cr)
    BY <1>1, PendingBefore
<1>3. CASE cache'[k] = store[k] /\ UNCHANGED store
    BY <1>1, <1>3 DEF Exists
<1>4. CASE cache'[k] = cache[k]
    BY <1>1, <1>2, <1>4, PrerequisiteStays DEF CachedPrerequisites, Exists
<1>. QED BY <1>1, <1>3, <1>4, CachesFollow

LEMMA RolesBuiltStep ==
    ASSUME TypeOK, OneResourceEach, RolesBuilt, [Next]_vars
    PROVE  RolesBuilt'
<1>1. SUFFICES ASSUME NEW ns \in Namespaces
               PROVE  /\ Exists(RoleKey(ns))' =>
                            store'[RoleKey(ns)].content = BuildRole
                      /\ Exists(RoleBindingKey(ns))' =>
                            store'[RoleBindingKey(ns)].content = BuildRoleBinding(ns)
    BY DEF RolesBuilt
<1>2. /\ RoleKey(ns) \in Keys /\ RoleBindingKey(ns) \in Keys
      /\ RoleKey(ns) # SCCKey /\ RoleBindingKey(ns) # SCCKey
      /\ RoleKey(ns) \notin Providable /\ RoleBindingKey(ns) \notin Providable
    BY KeysTyped, SCCKeyUnique DEF OneResourceEach
<1>3. ASSUME NEW content, Makes(RoleKey(ns), content)
      PROVE  content = BuildRole
    BY <1>3
       DEF Makes, SCCKey, ClaimKey, PVCKey, ServiceAccountKey, ClusterRoleKey,
           ClusterRoleBindingKey, RoleKey, RoleBindingKey, DeploymentKey,
           ServiceKey, StorageClassKey
<1>4. ASSUME NEW content, Makes(RoleBindingKey(ns), content)
      PROVE  content = BuildRoleBinding(ns)
    BY <1>4
       DEF Makes, SCCKey, ClaimKey, PVCKey, ServiceAccountKey, ClusterRoleKey,
           ClusterRoleBindingKey, RoleKey, RoleBindingKey, DeploymentKey,
           ServiceKey, StorageClassKey
<1>5. ASSUME NEW k \in Keys, k # SCCKey, k \notin Providable, Exists(k)'
      PROVE  \/ Exists(k) /\ store'[k].content = store[k].content
             \/ \E content : Makes(k, content) /\ store'[k].content = content
    <2>1. CASE Exists(k)
        BY <1>5, <2>1, KeptAsItIs
    <2>2. CASE ~ Exists(k)
        <3>1. PICK content : Makes(k, content) /\ store'[k] = Build(k, content)
            BY <1>5, <2>2, Appears
        <3>2. store'[k].content = content
            BY <3>1 DEF Build
        <3>. QED BY <3>1, <3>2
    <2>. QED BY <2>1, <2>2
<1>6. Exists(RoleKey(ns))' => store'[RoleKey(ns)].content = BuildRole
    BY <1>2, <1>3, <1>5 DEF RolesBuilt
<1>7. Exists(RoleBindingKey(ns))' =>
         store'[RoleBindingKey(ns)].content = BuildRoleBinding(ns)
    BY <1>2, <1>4, <1>5 DEF RolesBuilt
<1>. QED BY <1>6, <1>7

\* How the stages behind the claim's are reached.
LEMMA StageOrder ==
    ASSUME EnsureAllResources, pc' \in AfterClaim
    PROVE  \/ pc' = "ServiceAccount" /\ EnsurePVC
           \/ pc' = "ClusterRole" /\ EnsureServiceAccount
           \/ pc' = "ClusterRoleBinding" /\ pc = "ClusterRole"
           \/ pc' = "Role" /\ pc = "ClusterRoleBinding"
           \/ pc' = "RoleBinding" /\ EnsureRole
           \/ pc' = "Deployment" /\ EnsureRoleBinding
<1>. pc' # "idle" /\ pc' \notin {"PVC", "Service", "StorageClass", "finalizer"}
    BY DEF AfterClaim, AfterServiceAccount, AfterRole, AfterRoleBinding
<1>1. ASSUME NEW k, NEW content, NEW next, Ensure(k, content, next)
      PROVE  pc' = next
    BY <1>1 DEF Ensure, Advance, Written, Requeue
<1>2. ~ (EnsureDeployment \/ EnsureService \/ EnsureStorageClass)
    BY <1>1 DEF EnsureDeployment, EnsureService, EnsureStorageClass
<1>3. ~ EnsureSCC
    BY <1>1 DEF EnsureSCC, Advance, Written, Requeue
<1>4. ~ (PanicInBuildPVC \/ EnsureFails \/ ProbeFails)
    BY DEF PanicInBuildPVC, EnsureFails, ProbeFails, Restart, Requeue, Advance
<1>5. EnsurePVC => pc' = "ServiceAccount"
    BY <1>1 DEF EnsurePVC, Advance, Requeue
<1>. QED BY <1>1, <1>2, <1>3, <1>4, <1>5
        DEF EnsureAllResources, EnsureServiceAccount, EnsureClusterRole,
            EnsureClusterRoleBinding, EnsureRole, EnsureRoleBinding

\* A stage that goes on leaves its object behind.
LEMMA Ensured ==
    ASSUME TypeOK, pc # "idle", NEW k \in Keys, NEW content \in Contents, NEW next,
           Ensure(k, content, next), pc' # "idle",
           Cached(k) # NoObj => Exists(k)
    PROVE  Exists(k)'
<1>1. Build(k, content) # NoObj
    BY BuildTyped, TypeParts, NoObjAssumption
<1>. QED BY <1>1 DEF Ensure, Requeue, Exists, TypeOK, ClusterTypeOK

LEMMA StagesReadyStep ==
    ASSUME TypeOK, OneResourceEach, ReadyFirst, [Next]_vars
    PROVE  StagesReady'
<1>. DEFINE Left(stage, ns, spec) ==
               /\ WantsClaim(spec) => Exists(PVCKey(ns, ClaimName(spec)))
               /\ stage \in AfterServiceAccount => Exists(ServiceAccountKey(ns))
               /\ stage \in AfterRole => Exists(RoleKey(ns))
               /\ stage \in AfterRoleBinding => Exists(RoleBindingKey(ns))
<1>1. SUFFICES ASSUME NEW stage \in AfterClaim, stage = pc',
                      NEW cr, cr = work'.cr,
                      NEW spec, spec = work'.obj.spec,
                      NEW ns, ns = NamespaceOf[cr],
                      Pending(cr)'
               PROVE  Left(stage, ns, spec)'
    BY DEF StagesReady, Pending, Live, Exists
<1>. USE DEF AfterClaim, AfterServiceAccount, AfterRole, AfterRoleBinding
<1>2. stage # "idle" /\ stage \in EnsureStages \ {"SCC"}
    BY DEF EnsureStages
<1>3. work' = work /\ (UNCHANGED pc \/ EnsureAllResources)
    BY <1>1, <1>2, StagesFollow
<1>4. pc # "idle"
    BY <1>1, <1>2, <1>3, WorkerMoves DEF Reconcile
<1>5. /\ cr \in Provisioners /\ cr = work.cr
      /\ spec \in AdmittedSpecs /\ spec = work.obj.spec
      /\ ns \in Namespaces
    BY <1>1, <1>3, <1>4, TypeParts, RequestTyped
<1>6. Pending(cr)
    BY <1>1, <1>5, PendingBefore DEF ReadyFirst
<1>7. /\ ServiceAccountKey(ns) \in Prerequisites(ns)
      /\ RoleKey(ns) \in Prerequisites(ns)
      /\ RoleBindingKey(ns) \in Prerequisites(ns)
      /\ PVCKey(ns, ClaimName(spec)) \in Prerequisites(ns)
    BY <1>5 DEF Prerequisites
<1>8. ASSUME NEW k \in Prerequisites(ns)
      PROVE  /\ k \in Keys
             /\ Exists(k) => Exists(k)'
             /\ Cached(k) # NoObj => Exists(k)
    <2>1. k \in Keys
        BY <1>5, PrerequisiteKeys
    <2>2. Exists(k) => Exists(k)'
        BY <1>1, <1>5, <1>6, PrerequisiteStays DEF ReadyFirst, Exists
    <2>3. Cached(k) # NoObj => Exists(k)
        BY <1>1, <1>5, <1>6 DEF ReadyFirst, CachedPrerequisites, Cached, Exists
    <2>. QED BY <2>1, <2>2, <2>3
<1>9. ASSUME pc \in AfterClaim
      PROVE  Left(pc, ns, spec)
    BY <1>1, <1>5, <1>6, <1>9 DEF ReadyFirst, StagesReady
<1>10. ASSUME NEW k \in Prerequisites(ns), NEW content \in Contents, NEW next,
              Ensure(k, content, next)
       PROVE  Exists(k)'
    BY <1>1, <1>2, <1>4, <1>8, <1>10, Ensured
<1>. HIDE DEF AfterClaim, AfterServiceAccount, AfterRole, AfterRoleBinding
<1>11. CASE UNCHANGED pc
    BY <1>1, <1>7, <1>8, <1>9, <1>11
<1>12. CASE EnsureAllResources
    <2>. USE DEF AfterClaim, AfterServiceAccount, AfterRole, AfterRoleBinding
    <2>1. CASE pc' = "ServiceAccount" /\ EnsurePVC
        <3>1. WantsClaim(spec) => Exists(PVCKey(ns, ClaimName(spec)))'
            BY <1>1, <1>2, <1>5, <1>7, <1>8, <1>10, <2>1, ContentsTyped
               DEF EnsurePVC, ClaimKey, Requeue
        <3>. QED BY <1>1, <2>1, <3>1
    <2>2. CASE pc' = "ClusterRole" /\ EnsureServiceAccount
        <3>1. Exists(ServiceAccountKey(ns))'
            BY <1>1, <1>5, <1>7, <1>10, <2>2, ContentsTyped DEF EnsureServiceAccount
        <3>2. pc = "ServiceAccount"
            BY <2>2 DEF EnsureServiceAccount
        <3>. QED BY <1>1, <1>7, <1>8, <1>9, <2>2, <3>1, <3>2
    <2>3. CASE \/ pc' = "ClusterRoleBinding" /\ pc = "ClusterRole"
               \/ pc' = "Role" /\ pc = "ClusterRoleBinding"
        BY <1>1, <1>7, <1>8, <1>9, <2>3
    <2>4. CASE pc' = "RoleBinding" /\ EnsureRole
        <3>1. Exists(RoleKey(ns))'
            BY <1>1, <1>5, <1>7, <1>10, <2>4, ContentsTyped DEF EnsureRole
        <3>2. pc = "Role"
            BY <2>4 DEF EnsureRole
        <3>. QED BY <1>1, <1>7, <1>8, <1>9, <2>4, <3>1, <3>2
    <2>5. CASE pc' = "Deployment" /\ EnsureRoleBinding
        <3>1. Exists(RoleBindingKey(ns))'
            BY <1>1, <1>5, <1>7, <1>10, <2>5, ContentsTyped DEF EnsureRoleBinding
        <3>2. pc = "RoleBinding"
            BY <2>5 DEF EnsureRoleBinding
        <3>. QED BY <1>1, <1>7, <1>8, <1>9, <2>5, <3>1, <3>2
    <2>. QED BY <1>1, <1>12, <2>1, <2>2, <2>3, <2>4, <2>5, StageOrder
<1>. QED BY <1>3, <1>11, <1>12

LEMMA DeploymentsReadyStep ==
    ASSUME TypeOK, OneResourceEach, ReadyFirst, [Next]_vars
    PROVE  DeploymentsReady'
<1>1. SUFFICES ASSUME NEW cr \in Provisioners, NEW ns, ns = NamespaceOf[cr],
                      Pending(cr)',
                      Exists(DeploymentKey(ns))',
                      store'[DeploymentKey(ns)].owner # NoObj
               PROVE  /\ Exists(ServiceAccountKey(ns))'
                      /\ Exists(RoleKey(ns))'
                      /\ Exists(RoleBindingKey(ns))'
                      /\ MountsPrerequisite(ns)'
    BY DEF DeploymentsReady
<1>2. ns \in Namespaces /\ Pending(cr)
    BY <1>1, NamespaceAssumption, PendingBefore DEF ReadyFirst
<1>3. /\ ServiceAccountKey(ns) \in Prerequisites(ns)
      /\ RoleKey(ns) \in Prerequisites(ns)
      /\ RoleBindingKey(ns) \in Prerequisites(ns)
    BY DEF Prerequisites
<1>4. ASSUME NEW k \in Prerequisites(ns)
      PROVE  Exists(k) => Exists(k)'
    BY <1>1, <1>2, <1>4, PrerequisiteStays DEF ReadyFirst, Exists
<1>5. CASE store'[DeploymentKey(ns)] = store[DeploymentKey(ns)]
    <2>1. /\ Exists(ServiceAccountKey(ns))
          /\ Exists(RoleKey(ns))
          /\ Exists(RoleBindingKey(ns))
          /\ MountsPrerequisite(ns)
        BY <1>1, <1>2, <1>5 DEF ReadyFirst, DeploymentsReady, Exists
    <2>2. MountsPrerequisite(ns)'
        BY <1>4, <1>5, <2>1 DEF MountsPrerequisite, Prerequisites
    <2>. QED BY <1>3, <1>4, <2>1, <2>2
<1>6. CASE /\ pc = "Deployment"
           /\ ns = NamespaceOf[work.cr]
           /\ store'[DeploymentKey(ns)].content
                = BuildDeployment(work.cr, work.obj.spec)
    <2>1. /\ work.cr = cr
          /\ work.obj.spec \in AdmittedSpecs
        BY <1>1, <1>6, TypeParts, RequestTyped DEF OneResourceEach
    <2>2. /\ WantsClaim(work.obj.spec) =>
                Exists(PVCKey(ns, ClaimName(work.obj.spec)))
          /\ Exists(ServiceAccountKey(ns))
          /\ Exists(RoleKey(ns))
          /\ Exists(RoleBindingKey(ns))
        BY <1>2, <1>6, <2>1
           DEF ReadyFirst, StagesReady, AfterClaim, AfterServiceAccount,
               AfterRole, AfterRoleBinding
    <2>3. PVCKey(ns, ClaimName(work.obj.spec)) \in Prerequisites(ns)
        BY <2>1 DEF Prerequisites
    <2>4. LET volume == store'[DeploymentKey(ns)].content.volume IN
             volume.kind = "claim" =>
                WantsClaim(work.obj.spec) /\ volume.ref = ClaimName(work.obj.spec)
        BY <1>6
           DEF BuildDeployment, GetVolumeSpec, StorageType, WantsClaim, ClaimName
    <2>5. MountsPrerequisite(ns)'
        BY <1>4, <2>2, <2>3, <2>4 DEF MountsPrerequisite, Prerequisites
    <2>. QED BY <1>3, <1>4, <2>2, <2>5
<1>. QED BY <1>1, <1>2, <1>5, <1>6, OwnedDeployment

\* What the service account of the namespace is granted by the two objects.
LEMMA RolesGrant ==
    ASSUME RolesBuilt, NEW ns \in Namespaces,
           Exists(RoleKey(ns)), Exists(RoleBindingKey(ns))
    PROVE  MayDo(ns, "update", "endpoints")
<1>0. store[RoleBindingKey(ns)].content = BuildRoleBinding(ns)
    BY DEF RolesBuilt
<1>1. /\ store[RoleBindingKey(ns)].content.subject = ServiceAccountKey(ns)
      /\ store[RoleBindingKey(ns)].content.roleRef = RoleKey(ns)
    BY <1>0 DEF BuildRoleBinding
<1>2. store[RoleKey(ns)].content.rules =
         { Rule("endpoints", {"get", "list", "watch", "create", "update", "delete"}),
           Rule("services", {"get"}) }
    BY DEF RolesBuilt, BuildRole
<1>3. \E rule \in store[RoleKey(ns)].content.rules :
         rule.resource = "endpoints" /\ "update" \in rule.verbs
    BY <1>2 DEF Rule
<1>4. RoleKey(ns) \in Keys
    BY KeysTyped
<1>. QED BY <1>1, <1>3, <1>4 DEF MayDo

\* Nothing exists at the start, and no stage has been reached.
LEMMA ReadyStart ==
    ASSUME Init
    PROVE  ReadyFirst
<1>1. \A k \in Keys : ~ Exists(k)
    BY DEF Init, ClusterInit, Exists
<1>2. \A cr \in Provisioners : \A k \in Prerequisites(NamespaceOf[cr]) : k \in Keys
    BY NamespaceAssumption, PrerequisiteKeys
<1>3. OwnersOfNamespace /\ RolesBuilt /\ DeploymentsReady
    BY <1>1, <1>2, KeysTyped, NamespaceAssumption
       DEF OwnersOfNamespace, RolesBuilt, DeploymentsReady
<1>4. CachedPrerequisites
    BY DEF Init, ManagerInit, CachedPrerequisites
<1>5. Requested /\ ForegroundMarked
    BY DEF Init, ClusterInit, ManagerInit, Requested, ForegroundMarked
<1>6. BranchTaken /\ StagesReady
    BY DEF Init, ManagerInit, BranchTaken, CleanupStages, DeleteStages, StagesReady,
           AfterClaim, AfterServiceAccount, AfterRole, AfterRoleBinding
<1>. QED BY <1>3, <1>4, <1>5, <1>6 DEF ReadyFirst

\* A Deployment with all of this has what PrerequisitesInPlace asks for.
LEMMA ReadyMeansInPlace ==
    ASSUME TypeOK, ReadyFirst
    PROVE  PrerequisitesInPlace
<1>1. SUFFICES ASSUME NEW cr \in Provisioners,
                      NEW ns, ns = NamespaceOf[cr],
                      Live(cr), OwnedBy(DeploymentKey(ns), cr)
               PROVE  /\ Exists(ServiceAccountKey(ns))
                      /\ MayDo(ns, "update", "endpoints")
                      /\ MountsExisting(ns)
    BY DEF PrerequisitesInPlace
<1>2. UidOf(cr, crs[cr]) # NoObj
    BY <1>1, NoObjAssumption
       DEF OwnedBy, TypeOK, ClusterTypeOK, UidOf, Uids, CustomResources
<1>3. /\ Exists(ServiceAccountKey(ns))
      /\ Exists(RoleKey(ns))
      /\ Exists(RoleBindingKey(ns))
      /\ MountsPrerequisite(ns)
    BY <1>1, <1>2 DEF OwnedBy, ReadyFirst, DeploymentsReady, Pending
<1>4. MayDo(ns, "update", "endpoints")
    BY <1>1, <1>3, NamespaceAssumption, RolesGrant DEF ReadyFirst
<1>. QED BY <1>3, <1>4 DEF MountsPrerequisite, MountsExisting

\* Where a namespace has one resource, whose prerequisites nobody deletes, a
\* Deployment of a live resource never stands without its ServiceAccount, the
\* right to the Endpoints and the claim it mounts: through stale caches, edits
\* between the stages, conflicts, crashes and the garbage collector.
THEOREM PrerequisitesKept ==
    ASSUME OneResourceEach PROVE Spec => []PrerequisitesInPlace
<1>1. Init => ReadyFirst
    BY ReadyStart
<1>2. TypeOK /\ ReadyFirst /\ [Next]_vars => ReadyFirst'
    BY RequestedStep, BranchStep, ForegroundMarkedStep, OwnersStep,
       CachedPrerequisitesStep, RolesBuiltStep, StagesReadyStep,
       DeploymentsReadyStep
       DEF ReadyFirst
<1>3. TypeOK /\ ReadyFirst => PrerequisitesInPlace
    BY ReadyMeansInPlace
<1>. QED BY <1>1, <1>2, <1>3, TypeCorrect, PTL DEF Spec

=============================================================================
