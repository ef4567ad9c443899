------------------------ MODULE ReconcilerProperties -------------------------
(***************************************************************************)
(* What the operator owes its users, stated over the whole system of       *)
(* Reconciler.  The properties the code's own comments claim but the code  *)
(* does not keep are at the end.                                           *)
(***************************************************************************)
EXTENDS Reconciler

\* Types of all variables; the worker is idle exactly when it has no request.
TypeOK == ClusterTypeOK /\ ManagerTypeOK

Live(cr) == crs[cr] # NoObj /\ ~ crs[cr].deleting

Exists(k) == store[k] # NoObj

OwnedBy(k, cr) ==
    /\ Exists(k)
    /\ crs[cr] # NoObj
    /\ store[k].owner = UidOf(cr, crs[cr])

-----------------------------------------------------------------------------
(* Safety *)

\* What a step may do to a resource, given what users did in it.
IntentKept(cr) ==
    LET old == crs[cr]
        new == crs'[cr]
    IN  /\ old # NoObj /\ new # NoObj /\ births'[cr] = births[cr] =>
              /\ new.birth = old.birth
              /\ new.spec # old.spec => used'.edits # used.edits
              /\ old.deleting => new.deleting
        /\ old = NoObj /\ new # NoObj => births'[cr] # births[cr]
        /\ old # NoObj /\ (new = NoObj \/ ~ new.finalized) =>
              (old.finalized => old.deleting)

\* Reconcile writes back whole objects it read from a cache that trails the
\* API server.  No such write undoes what a user did meanwhile: the spec only
\* changes by an edit, a deletion request is never taken back, a resource
\* with the finalizer only goes, or loses it, when its deletion was requested.
UserIntentKept == [][\A cr \in Provisioners : IntentKept(cr)]_vars

\* A step that changes the status of a resource tells the truth about its spec.
ErrorTruthful(cr) ==
    /\ crs[cr] # NoObj
    /\ crs'[cr] # NoObj
    /\ births'[cr] = births[cr]
    /\ crs'[cr].error # crs[cr].error
    => /\ ~ Valid(crs[cr].spec)
       /\ crs'[cr].error = ErrorText(crs[cr].spec)

\* Reconcile stores the error of the copy it read, which may be older than the
\* spec by then.  No error is ever stored but that of the spec stored with it,
\* and none for a spec that is valid.
ErrorsMatch == [][\A cr \in Provisioners : ErrorTruthful(cr)]_vars

\* A step takes the finalizer off the resource.
Releases(cr) ==
    /\ crs[cr] # NoObj
    /\ crs[cr].finalized
    /\ crs'[cr] = NoObj \/ ~ crs'[cr].finalized

\* When the finalizer goes, by whatever step, the cluster-wide objects
\* deleteExternalResources is there for are gone.
CleanBeforeRelease ==
    [][ \A cr \in Provisioners : Releases(cr) =>
          ~ Exists(ClusterRoleKey) /\ ~ Exists(ClusterRoleBindingKey) ]_vars

\* The account of the namespace may do verb to resource: a binding gives it a
\* role that is there and says so.
MayDo(ns, verb, resource) ==
    LET binding == store[RoleBindingKey(ns)]
        role == store[binding.content.roleRef]
    IN  /\ Exists(RoleBindingKey(ns))
        /\ binding.content.subject = ServiceAccountKey(ns)
        /\ binding.content.roleRef \in Keys
        /\ Exists(binding.content.roleRef)
        /\ \E rule \in role.content.rules :
              rule.resource = resource /\ verb \in rule.verbs

\* The claim the Deployment mounts, if it mounts one.
MountsExisting(ns) ==
    LET volume == store[DeploymentKey(ns)].content.volume IN
       volume.kind = "claim" => Exists(PVCKey(ns, volume.ref))

\* A running NFS server of a live resource has what its pod needs: the
\* account it runs as, the right of that account to the Endpoints it elects
\* its leader with, and the claim it mounts, whatever edits were made between
\* the reconciles that built them.
PrerequisitesInPlace ==
    \A cr \in Provisioners :
       LET ns == NamespaceOf[cr] IN
          Live(cr) /\ OwnedBy(DeploymentKey(ns), cr) =>
             /\ Exists(ServiceAccountKey(ns))
             /\ MayDo(ns, "update", "endpoints")
             /\ MountsExisting(ns)

UsersKept ==
    Exists(SCCKey) /\ store'[SCCKey] # NoObj =>
       store[SCCKey].content.users \subseteq store'[SCCKey].content.users

\* The SCC is shared with other namespaces and with administrators, and the
\* operator updates it from a stale copy: no user is ever dropped from it.
SCCUsersKept == [][UsersKept]_vars

\* On OpenShift the account of every NFS server is a user of the SCC, provided
\* that no namespace ends with another's name, the CRD probe works and nobody
\* deletes the SCC.
SCCBeforeDeployment ==
    Security \in ServedCRDs =>
       \A cr \in Provisioners :
          OwnedBy(DeploymentKey(NamespaceOf[cr]), cr) =>
             /\ Exists(SCCKey)
             /\ UserToAdd(NamespaceOf[cr]) \in store[SCCKey].content.users

\* Reconcile has nothing left to do for the resource: its error is stored, or
\* it is marked and waits for somebody else.
Settled(obj) ==
    \/ ~ Valid(obj.spec) /\ obj.error = ErrorText(obj.spec)
    \/ obj.deleting /\ ~ obj.finalized

\* The worker serves the resource, or will when it comes to the request or the
\* event it has not seen.
Remembered(cr) ==
    \/ cr \in queue
    \/ pc # "idle" /\ work.cr = cr
    \/ crCache[cr] # crs[cr]

\* No wakeup is lost.  Nothing but events of the resource itself, errors and
\* Result{Requeue: true} brings a request back, and some reconciles end with
\* none of these: a resource they leave behind is settled.
NoneForgotten ==
    \A cr \in Provisioners :
       crs[cr] # NoObj => Remembered(cr) \/ Settled(crs[cr])

-----------------------------------------------------------------------------
(* Liveness *)

ClaimThere(cr) ==
    LET spec == crs[cr].spec IN
       WantsClaim(spec) /\ ~ OwnsClaim(spec) =>
          Exists(PVCKey(NamespaceOf[cr], ClaimName(spec)))

\* The spec is one the operator can act on.
Workable(cr) ==
    /\ Valid(crs[cr].spec)
    /\ SizeParses(crs[cr].spec)
    /\ ClaimThere(cr)

Serviceable(cr) == Live(cr) /\ Workable(cr)

Wanted(cr) ==
    LET ns == NamespaceOf[cr]
        spec == crs[cr].spec
    IN  {ServiceAccountKey(ns), ClusterRoleKey, ClusterRoleBindingKey,
         RoleKey(ns), RoleBindingKey(ns), DeploymentKey(ns), ServiceKey(ns),
         StorageClassKey(StorageClassName(spec))}
        \cup (IF WantsClaim(spec) THEN {PVCKey(ns, ClaimName(spec))} ELSE {})

Ready(cr) ==
    /\ Live(cr)
    /\ crs[cr].finalized
    /\ \A k \in Wanted(cr) : Exists(k)

\* A resource that stays serviceable gets all its objects and keeps them,
\* through lost replies, crashes, stale caches, objects deleted behind the
\* operator's back and the cleanup of other resources.  Nothing is watched
\* but the resource itself, so only Result{Requeue: true} makes this true.
Converges ==
    \A cr \in Provisioners : <>[]Serviceable(cr) => <>[]Ready(cr)

\* The deletion of a workable resource ends, in either mode, although every
\* reconcile of it first recreates what the garbage collector takes away.
DeletionCompletes ==
    \A cr \in Provisioners :
       ~ <>[](crs[cr] # NoObj /\ ~ Live(cr) /\ Workable(cr))

\* A resource that stays invalid ends up with the error of its latest spec,
\* and is then left alone.
InvalidReported ==
    \A cr \in Provisioners :
       <>[](crs[cr] # NoObj /\ ~ Valid(crs[cr].spec)) =>
          <>[](/\ crs[cr] # NoObj
               /\ crs[cr].error = ErrorText(crs[cr].spec)
               /\ cr \notin queue
               /\ pc = "idle" \/ work.cr # cr)

\* Once no resource of a namespace is left, so is nothing the operator made
\* there, also what a reconcile with a stale copy created afterwards.
OwnedCollected ==
    \A ns \in Namespaces :
       <>[](\A cr \in Provisioners : NamespaceOf[cr] = ns => crs[cr] = NoObj) =>
          <>[](\A k \in Keys \ Providable : k[2] = ns => ~ Exists(k))

-----------------------------------------------------------------------------
(* What comments and documentation say and the code does not do *)

\* Every deletion is handled: no resource waits for its finalizer for ever.
DeletionHandled ==
    \A cr \in Provisioners : ~ <>[](crs[cr] # NoObj /\ ~ Live(cr))

AllGone == \A cr \in Provisioners : crs[cr] = NoObj

\* With the last resource the cluster-wide RBAC objects go.
ExternalsCleaned ==
    <>[]AllGone => <>[](~ Exists(ClusterRoleKey) /\ ~ Exists(ClusterRoleBindingKey))

=============================================================================
