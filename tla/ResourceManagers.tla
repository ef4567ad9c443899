-------------------------- MODULE ResourceManagers ---------------------------
(***************************************************************************)
(* controllers/resources: one stage per EnsureResource, in the order of    *)
(* EnsureAllResources, RBAC split into its four ensure functions.  A stage *)
(* looks its object up in the cache and creates it when it is absent; a    *)
(* Create of an object the cache has not shown yet fails with              *)
(* AlreadyExists and ends the reconcile.                                   *)
(***************************************************************************)
EXTENDS Manager

CONSTANT EndsWith       \* EndsWith[ns]: the namespaces whose name ends with ns

ASSUME EndsWithAssumption ==
    /\ EndsWith \in [Namespaces -> SUBSET Namespaces]
    /\ \A ns \in Namespaces : ns \in EndsWith[ns]

\* The API group isSCCCRDAvailable reads CustomResourceDefinitions from, and
\* the group of the SCC itself.
ApiExtensions == "apiextensions.k8s.io"
Security == "security.openshift.io"

\* The schemes of cmd/main.go and of manager_test.go, by the groups that
\* matter here.
MainScheme == {Security}
TestScheme == {Security, ApiExtensions}

-----------------------------------------------------------------------------

\* Altered form of Build: no builder sets an owner.
UnownedBuild(k, content) == [owner |-> NoObj, content |-> content]

\* SetControllerReference refuses a cluster-scoped object with a namespaced
\* owner; the builders drop that error and the object stays unowned.
Build(k, content) ==
    [ owner |-> IF ClusterScoped(k) THEN NoObj ELSE UidOf(work.cr, work.obj),
      content |-> content ]

EnsureFrame == UNCHANGED <<crs, births, used, crCache, cache>>

\* Altered form of Ensure: a Create that fails with AlreadyExists ends the
\* reconcile with Result{} and no error, so nothing repeats the request.
UnretriedEnsure(k, content, next) ==
    \/ /\ Cached(k) # NoObj
       /\ Advance(next)
       /\ UNCHANGED <<store, faults>>
    \/ /\ Cached(k) = NoObj
       /\ store[k] = NoObj
       /\ store' = [store EXCEPT ![k] = Build(k, content)]
       /\ Written(next)
    \/ /\ Cached(k) = NoObj
       /\ store[k] # NoObj
       /\ Finish
       /\ UNCHANGED <<store, faults>>

\* The common shape of EnsureResource: present, created, or in the way.
Ensure(k, content, next) ==
    \/ /\ Cached(k) # NoObj
       /\ Advance(next)
       /\ UNCHANGED <<store, faults>>
    \/ /\ Cached(k) = NoObj
       /\ store[k] = NoObj
       /\ store' = [store EXCEPT ![k] = Build(k, content)]
       /\ Written(next)
    \/ /\ Cached(k) = NoObj
       /\ store[k] # NoObj
       /\ Requeue
       /\ UNCHANGED <<store, faults>>

-----------------------------------------------------------------------------
(* SecurityContextConstraints *)

IsSCCCRDAvailable == ApiExtensions \in Scheme /\ Security \in ServedCRDs

UserToAdd(ns) == [ns |-> ns, sa |-> "nfs-provisioner"]

\* Altered form of Mentions: the namespace is left out of the substring.
MentionsAnyNamespace(user, ns) == user.sa = "nfs-provisioner"

\* strings.Contains(user, ns + ":nfs-provisioner"): the user's namespace only
\* has to end with ns.
Mentions(user, ns) == user.sa = "nfs-provisioner" /\ user.ns \in EndsWith[ns]

\* Altered form of FreshSCC: the copy carries no resourceVersion.
UncheckedSCC(found) == store[SCCKey] # NoObj

\* The Update of the SCC is optimistic: it needs the stored object to be the
\* copy that was found.
FreshSCC(found) == store[SCCKey] = found

\* The account is appended to the list of the copy, which is written back whole.
AddUser(found, ns) ==
    store' = [store EXCEPT ![SCCKey] =
                [found EXCEPT !.content.users = @ \cup {UserToAdd(ns)}]]

EnsureSCC ==
    LET ns == NamespaceOf[work.cr]
        found == Cached(SCCKey)
        listed == found # NoObj
                  /\ \E user \in found.content.users : Mentions(user, ns)
    IN  /\ pc = "SCC"
        /\ \/ /\ ~ IsSCCCRDAvailable \/ listed
              /\ Advance("PVC")
              /\ UNCHANGED <<store, faults>>
           \/ /\ IsSCCCRDAvailable
              /\ found = NoObj
              /\ Ensure(SCCKey, [users |-> {UserToAdd(ns)}], "PVC")
           \/ /\ IsSCCCRDAvailable
              /\ found # NoObj
              /\ ~ listed
              /\ \/ FreshSCC(found) /\ AddUser(found, ns) /\ Written("PVC")
                 \/ ~ FreshSCC(found) /\ Requeue /\ UNCHANGED <<store, faults>>
        /\ EnsureFrame

-----------------------------------------------------------------------------
(* PersistentVolumeClaim *)

ClaimKey == PVCKey(NamespaceOf[work.cr], ClaimName(work.obj.spec))

EnsurePVC ==
    /\ pc = "PVC"
    /\ \/ /\ ~ WantsClaim(work.obj.spec)
          /\ Advance("ServiceAccount")
          /\ UNCHANGED <<store, faults>>
       \/ /\ WantsClaim(work.obj.spec)
          /\ OwnsClaim(work.obj.spec)
          /\ Cached(ClaimKey) = NoObj => SizeParses(work.obj.spec)
          /\ Ensure(ClaimKey, BuildPVC(work.obj.spec), "ServiceAccount")
       \/ /\ WantsClaim(work.obj.spec)
          /\ ~ OwnsClaim(work.obj.spec)
          /\ Cached(ClaimKey) # NoObj
          /\ Advance("ServiceAccount")
          /\ UNCHANGED <<store, faults>>
       \/ /\ WantsClaim(work.obj.spec)
          /\ ~ OwnsClaim(work.obj.spec)
          /\ Cached(ClaimKey) = NoObj
          /\ Requeue
          /\ UNCHANGED <<store, faults>>
    /\ EnsureFrame

\* resource.MustParse panics, and nothing recovers before the process ends.
PanicInBuildPVC ==
    /\ pc = "PVC"
    /\ WantsClaim(work.obj.spec)
    /\ OwnsClaim(work.obj.spec)
    /\ Cached(ClaimKey) = NoObj
    /\ ~ SizeParses(work.obj.spec)
    /\ Restart
    /\ UNCHANGED <<clusterVars, faults>>

-----------------------------------------------------------------------------
(* ServiceAccount, RBAC, Deployment, Service, StorageClass *)

EnsureServiceAccount ==
    /\ pc = "ServiceAccount"
    /\ Ensure(ServiceAccountKey(NamespaceOf[work.cr]), Bare, "ClusterRole")
    /\ EnsureFrame

EnsureClusterRole ==
    /\ pc = "ClusterRole"
    /\ Ensure(ClusterRoleKey, BuildClusterRole, "ClusterRoleBinding")
    /\ EnsureFrame

\* The binding has one subject, the account of the namespace that made it.
EnsureClusterRoleBinding ==
    /\ pc = "ClusterRoleBinding"
    /\ Ensure(ClusterRoleBindingKey, BuildClusterRoleBinding(NamespaceOf[work.cr]),
              "Role")
    /\ EnsureFrame

EnsureRole ==
    /\ pc = "Role"
    /\ Ensure(RoleKey(NamespaceOf[work.cr]), BuildRole, "RoleBinding")
    /\ EnsureFrame

EnsureRoleBinding ==
    /\ pc = "RoleBinding"
    /\ Ensure(RoleBindingKey(NamespaceOf[work.cr]),
              BuildRoleBinding(NamespaceOf[work.cr]), "Deployment")
    /\ EnsureFrame

EnsureDeployment ==
    /\ pc = "Deployment"
    /\ Ensure(DeploymentKey(NamespaceOf[work.cr]),
              BuildDeployment(work.cr, work.obj.spec), "Service")
    /\ EnsureFrame

EnsureService ==
    /\ pc = "Service"
    /\ Ensure(ServiceKey(NamespaceOf[work.cr]), BuildService(work.cr),
              "StorageClass")
    /\ EnsureFrame

EnsureStorageClass ==
    /\ pc = "StorageClass"
    /\ Ensure(StorageClassKey(StorageClassName(work.obj.spec)), Bare, "finalizer")
    /\ EnsureFrame

\* Whether the stage calls the API server at all, the CRD probe aside.
CallsAPI ==
    /\ pc = "SCC" => IsSCCCRDAvailable
    /\ pc = "PVC" => WantsClaim(work.obj.spec)

\* A Get fails, or the API server rejects the write before it took effect.
EnsureFails ==
    /\ pc \in EnsureStages
    /\ CallsAPI
    /\ Fault
    /\ Requeue
    /\ UNCHANGED <<clusterVars, crCache, cache>>

\* A failing read of the CRD counts as "no CRD".
ProbeFails ==
    /\ pc = "SCC"
    /\ IsSCCCRDAvailable
    /\ ReadFaults
    /\ Fault
    /\ Advance("PVC")
    /\ UNCHANGED <<clusterVars, crCache, cache>>

EnsureAllResources ==
    \/ EnsureSCC
    \/ EnsurePVC
    \/ PanicInBuildPVC
    \/ EnsureServiceAccount
    \/ EnsureClusterRole
    \/ EnsureClusterRoleBinding
    \/ EnsureRole
    \/ EnsureRoleBinding
    \/ EnsureDeployment
    \/ EnsureService
    \/ EnsureStorageClass
    \/ EnsureFails
    \/ ProbeFails

=============================================================================
