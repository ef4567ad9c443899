------------------------------- MODULE Cluster -------------------------------
(***************************************************************************)
(* The Kubernetes API server as the operator uses it: the NFSProvisioner   *)
(* resources (crs), every other object the operator reads or writes        *)
(* (store), and what users, administrators and the garbage collector do    *)
(* to them.  Only what the RBAC builders write is code of the repository;  *)
(* the rest is modelled from the calls under controllers/ and the          *)
(* contracts those calls rely on.                                          *)
(*                                                                         *)
(* An object is identified by a key <<kind, namespace, name>> and keeps    *)
(* the owner reference and the part of its content the properties tell     *)
(* apart.  A resourceVersion is not kept: an optimistic write succeeds iff *)
(* the writer's copy equals the stored object.                             *)
(***************************************************************************)
EXTENDS ProvisionerSpec

CONSTANTS
    NoObj,          \* what a Get that answers NotFound returns
    Provisioners,   \* names of the custom resources
    Namespaces,
    NamespaceOf,    \* the namespace of each custom resource
    Specs,          \* the specs users write
    Deletable,      \* the custom resources users delete
    DeletionModes,  \* subset of BOOLEAN: TRUE is foreground deletion
    Drifting,       \* keys somebody else may delete
    Providable,     \* keys somebody else may create
    Administered,   \* service accounts an administrator may put in the SCC
    MaxBirths,      \* bound: creations of each custom resource
    MaxEdits,       \* bound: spec edits
    MaxDrifts       \* bound: foreign creations, deletions and SCC edits

ASSUME NamespaceAssumption == NamespaceOf \in [Provisioners -> Namespaces]

ASSUME SpecsAssumption == Specs \subseteq SpecFields

ASSUME BoundsAssumption ==
    /\ MaxBirths \in Nat
    /\ MaxEdits \in Nat
    /\ MaxDrifts \in Nat
    /\ Deletable \subseteq Provisioners
    /\ DeletionModes \subseteq BOOLEAN

VARIABLES
    crs,        \* the custom resources the API server stores
    store,      \* the other objects the API server stores
    births,     \* how often each custom resource was created
    used        \* environment steps taken so far, against their bounds

clusterVars == <<crs, store, births, used>>

-----------------------------------------------------------------------------
(* Custom resources *)

AdmittedSpecs == {Admitted(spec) : spec \in Specs}

Errors == {NoError} \cup {ErrorText(spec) : spec \in AdmittedSpecs}

\* birth stands for the uid; deleting for a deletionTimestamp; finalized and
\* foreground for the operator's and the garbage collector's finalizer.
CustomResources ==
    [ birth : 1 .. MaxBirths, spec : AdmittedSpecs, deleting : BOOLEAN,
      finalized : BOOLEAN, foreground : BOOLEAN, error : Errors ]

Uids == [cr : Provisioners, birth : 1 .. MaxBirths]

UidOf(cr, obj) == [cr |-> cr, birth |-> obj.birth]

-----------------------------------------------------------------------------
(* The other objects: controllers/defaults gives all names but the claim's
   and the StorageClass's, which the spec may set. *)

ClusterScope == ""

\* A namespace has a name.
ASSUME ScopeAssumption == ClusterScope \notin Namespaces

SCCKey == <<"SecurityContextConstraints", ClusterScope, "nfs-provisioner">>
ClusterRoleKey == <<"ClusterRole", ClusterScope, "nfs-provisioner-runner">>
ClusterRoleBindingKey ==
    <<"ClusterRoleBinding", ClusterScope, "nfs-provisioner-runner">>
StorageClassKey(name) == <<"StorageClass", ClusterScope, name>>
PVCKey(ns, name) == <<"PersistentVolumeClaim", ns, name>>
ServiceAccountKey(ns) == <<"ServiceAccount", ns, "nfs-provisioner">>
RoleKey(ns) == <<"Role", ns, "leader-locking-nfs-provisioner">>
RoleBindingKey(ns) == <<"RoleBinding", ns, "leader-locking-nfs-provisioner">>
DeploymentKey(ns) == <<"Deployment", ns, "nfs-provisioner">>
ServiceKey(ns) == <<"Service", ns, "nfs-provisioner">>

Keys ==
    {SCCKey, ClusterRoleKey, ClusterRoleBindingKey}
    \cup {StorageClassKey(StorageClassName(spec)) : spec \in AdmittedSpecs}
    \cup {PVCKey(ns, ClaimName(spec)) : ns \in Namespaces, spec \in AdmittedSpecs}
    \cup UNION { {ServiceAccountKey(ns), RoleKey(ns), RoleBindingKey(ns),
                  DeploymentKey(ns), ServiceKey(ns)} : ns \in Namespaces }

ClusterScoped(k) == k[2] = ClusterScope

Accounts == Administered \cup [ns : Namespaces, sa : {"nfs-provisioner"}]

Bare == [bare |-> TRUE]     \* a content no property looks at

\* What the RBAC builders write: what a role allows, and who a binding gives
\* which role.
Rule(resource, verbs) == [resource |-> resource, verbs |-> verbs]

BuildClusterRole ==
    LET reading == {"get", "list", "watch"} IN
    [ rules |->
        { Rule("persistentvolumes", reading \cup {"create", "delete"}),
          Rule("persistentvolumeclaims", reading \cup {"update"}),
          Rule("storageclasses", reading),
          Rule("events", {"create", "update", "patch"}),
          Rule("podsecuritypolicies", {"use"}) } ]

BuildRole ==
    [ rules |->
        { Rule("endpoints", {"get", "list", "watch", "create", "update", "delete"}),
          Rule("services", {"get"}) } ]

BuildClusterRoleBinding(ns) ==
    [subject |-> ServiceAccountKey(ns), roleRef |-> ClusterRoleKey]

\* Altered form of BuildRoleBinding: the role of the other binding.
MisreferringRoleBinding(ns) ==
    [subject |-> ServiceAccountKey(ns), roleRef |-> ClusterRoleKey]

BuildRoleBinding(ns) ==
    [subject |-> ServiceAccountKey(ns), roleRef |-> RoleKey(ns)]

Contents ==
    {Bare, BuildClusterRole, BuildRole}
    \cup [users : SUBSET Accounts]
    \cup {BuildClusterRoleBinding(ns) : ns \in Namespaces}
    \cup {BuildRoleBinding(ns) : ns \in Namespaces}
    \cup {BuildPVC(spec) : spec \in AdmittedSpecs}
    \cup {BuildDeployment(cr, spec) : cr \in Provisioners, spec \in AdmittedSpecs}
    \cup {BuildService(cr) : cr \in Provisioners}

Objects == [owner : Uids \cup {NoObj}, content : Contents]

ASSUME NoObjAssumption ==
    /\ NoObj \notin CustomResources
    /\ NoObj \notin Objects
    /\ NoObj \notin Uids

ASSUME ActorsAssumption == Drifting \subseteq Keys /\ Providable \subseteq Keys

\* The SCC is the one object that is updated, so its shape matters.
SCCShape(obj) == obj # NoObj => obj.content \in [users : SUBSET Accounts]

ForeignContent(k) == IF k = SCCKey THEN [users |-> {}] ELSE Bare

ClusterTypeOK ==
    /\ crs \in [Provisioners -> CustomResources \cup {NoObj}]
    /\ store \in [Keys -> Objects \cup {NoObj}]
    /\ SCCShape(store[SCCKey])
    /\ births \in [Provisioners -> 0 .. MaxBirths]
    /\ used \in [edits : 0 .. MaxEdits, drifts : 0 .. MaxDrifts]

ClusterInit ==
    /\ crs = [cr \in Provisioners |-> NoObj]
    /\ store = [k \in Keys |-> NoObj]
    /\ births = [cr \in Provisioners |-> 0]
    /\ used = [edits |-> 0, drifts |-> 0]

-----------------------------------------------------------------------------
(* Users *)

\* kubectl create
UserCreate(cr, spec) ==
    /\ crs[cr] = NoObj
    /\ births[cr] < MaxBirths
    /\ births' = [births EXCEPT ![cr] = @ + 1]
    /\ crs' = [crs EXCEPT ![cr] =
                 [birth |-> births[cr] + 1, spec |-> Admitted(spec),
                  deleting |-> FALSE, finalized |-> FALSE,
                  foreground |-> FALSE, error |-> NoError]]
    /\ UNCHANGED <<store, used>>

\* kubectl edit, also while the resource waits for its finalizers
UserEdit(cr, spec) ==
    /\ crs[cr] # NoObj
    /\ crs[cr].spec # Admitted(spec)
    /\ used.edits < MaxEdits
    /\ used' = [used EXCEPT !.edits = @ + 1]
    /\ crs' = [crs EXCEPT ![cr].spec = Admitted(spec)]
    /\ UNCHANGED <<store, births>>

\* kubectl delete: a resource without finalizers disappears at once, the
\* others are marked and wait.
UserDelete(cr, foreground) ==
    /\ crs[cr] # NoObj
    /\ ~ crs[cr].deleting
    /\ crs' = [crs EXCEPT ![cr] =
                 IF @.finalized \/ foreground
                 THEN [@ EXCEPT !.deleting = TRUE, !.foreground = foreground]
                 ELSE NoObj]
    /\ UNCHANGED <<store, births, used>>

-----------------------------------------------------------------------------
(* Other actors *)

Drift ==
    /\ used.drifts < MaxDrifts
    /\ used' = [used EXCEPT !.drifts = @ + 1]
    /\ UNCHANGED <<crs, births>>

DriftDelete(k) ==
    /\ store[k] # NoObj
    /\ store' = [store EXCEPT ![k] = NoObj]
    /\ Drift

Provide(k) ==
    /\ store[k] = NoObj
    /\ store' = [store EXCEPT ![k] =
                   [owner |-> NoObj, content |-> ForeignContent(k)]]
    /\ Drift

\* oc adm policy add-scc-to-user
AdminAddSCCUser(account) ==
    /\ store[SCCKey] # NoObj
    /\ account \notin store[SCCKey].content.users
    /\ store' = [store EXCEPT ![SCCKey].content.users = @ \cup {account}]
    /\ Drift

-----------------------------------------------------------------------------
(* The garbage collector *)

\* A dependent goes when its owner (that very uid) is gone, or when the
\* owner is being deleted in the foreground.
Collectable(k) ==
    /\ store[k] # NoObj
    /\ store[k].owner # NoObj
    /\ LET owner == crs[store[k].owner.cr] IN
          \/ owner = NoObj
          \/ /\ owner # NoObj
             /\ owner.birth # store[k].owner.birth \/ owner.foreground

GarbageCollect(k) ==
    /\ Collectable(k)
    /\ store' = [store EXCEPT ![k] = NoObj]
    /\ UNCHANGED <<crs, births, used>>

HasDependents(cr) ==
    \E k \in Keys : store[k] # NoObj /\ store[k].owner = UidOf(cr, crs[cr])

\* The collector drops its own finalizer once no dependent is left.
FinishForeground(cr) ==
    /\ crs[cr] # NoObj
    /\ crs[cr].foreground
    /\ ~ HasDependents(cr)
    /\ crs' = [crs EXCEPT ![cr] =
                 IF @.finalized THEN [@ EXCEPT !.foreground = FALSE] ELSE NoObj]
    /\ UNCHANGED <<store, births, used>>

-----------------------------------------------------------------------------

Environment ==
    \/ \E cr \in Provisioners, spec \in Specs : UserCreate(cr, spec)
    \/ \E cr \in Provisioners, spec \in Specs : UserEdit(cr, spec)
    \/ \E cr \in Deletable, mode \in DeletionModes : UserDelete(cr, mode)
    \/ \E k \in Drifting : DriftDelete(k)
    \/ \E k \in Providable : Provide(k)
    \/ \E account \in Administered : AdminAddSCCUser(account)
    \/ \E k \in Keys : GarbageCollect(k)
    \/ \E cr \in Provisioners : FinishForeground(cr)

=============================================================================
