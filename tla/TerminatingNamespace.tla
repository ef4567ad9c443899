------------------------ MODULE TerminatingNamespace -------------------------
(***************************************************************************)
(* A namespace is deleted with the resources in it.  The namespace         *)
(* controller deletes what the namespace holds, in any order, and marks    *)
(* the resources, which wait for the operator's finalizer; meanwhile the   *)
(* API server refuses to create anything in the namespace.  The operator   *)
(* knows nothing of namespaces: Reconcile goes through EnsureAllResources  *)
(* before it looks at the deletion.                                        *)
(***************************************************************************)
EXTENDS ReconcilerProperties

VARIABLE closing    \* the namespaces being deleted

closingVars == <<vars, closing>>

ClosingInit == Init /\ closing = {}

In(k, ns) == k[2] = ns

-----------------------------------------------------------------------------
(* The API server and its namespace controller *)

DeleteNamespace(ns) ==
    /\ ns \notin closing
    /\ closing' = closing \cup {ns}
    /\ UNCHANGED vars

RemoveContent(ns, k) ==
    /\ ns \in closing
    /\ In(k, ns)
    /\ store[k] # NoObj
    /\ store' = [store EXCEPT ![k] = NoObj]
    /\ UNCHANGED <<crs, births, used, managerVars, closing>>

RemoveResource(ns, cr) ==
    /\ ns \in closing
    /\ NamespaceOf[cr] = ns
    /\ UserDelete(cr, FALSE)
    /\ UNCHANGED <<managerVars, closing>>

\* The step creates nothing in a namespace that is being deleted.
Admissible ==
    /\ \A k \in Keys :
          store[k] = NoObj /\ store'[k] # NoObj => k[2] \notin closing
    /\ \A cr \in Provisioners :
          crs[cr] = NoObj /\ crs'[cr] # NoObj => NamespaceOf[cr] \notin closing

-----------------------------------------------------------------------------
(* The operator *)

\* What the stage creates in the namespace when it is not there.
Creates(stage) ==
    LET ns == NamespaceOf[work.cr] IN
    CASE stage = "PVC" /\ WantsClaim(work.obj.spec) /\ OwnsClaim(work.obj.spec)
            /\ SizeParses(work.obj.spec) -> {ClaimKey}
      [] stage = "ServiceAccount" -> {ServiceAccountKey(ns)}
      [] stage = "Role" -> {RoleKey(ns)}
      [] stage = "RoleBinding" -> {RoleBindingKey(ns)}
      [] stage = "Deployment" -> {DeploymentKey(ns)}
      [] stage = "Service" -> {ServiceKey(ns)}
      [] OTHER -> {}

\* The Create is forbidden, EnsureResource returns the error.
CreateForbidden ==
    /\ pc # "idle"
    /\ NamespaceOf[work.cr] \in closing
    /\ \E k \in Creates(pc) : Cached(k) = NoObj
    /\ Requeue
    /\ UNCHANGED <<clusterVars, crCache, cache, faults, closing>>

Works == (Reconcile /\ Admissible /\ UNCHANGED closing) \/ CreateForbidden

ClosingNext ==
    \/ Next /\ Admissible /\ UNCHANGED closing
    \/ CreateForbidden
    \/ \E ns \in Namespaces :
          \/ DeleteNamespace(ns)
          \/ \E k \in Keys : RemoveContent(ns, k)
          \/ \E cr \in Provisioners : RemoveResource(ns, cr)

\* Fairness of Reconciler, and a namespace controller that gets around to
\* everything.
ClosingFairness ==
    /\ WF_closingVars(Works)
    /\ \A cr \in Provisioners :
          /\ SF_closingVars(StartReconcile(cr) /\ UNCHANGED closing)
          /\ WF_closingVars(SyncCR(cr) /\ UNCHANGED closing)
          /\ WF_closingVars(FinishForeground(cr) /\ UNCHANGED <<managerVars, closing>>)
          /\ \A ns \in Namespaces : WF_closingVars(RemoveResource(ns, cr))
    /\ \A k \in Lagging : WF_closingVars(Sync(k) /\ UNCHANGED closing)
    /\ \A k \in Keys :
          /\ WF_closingVars(GarbageCollect(k) /\ UNCHANGED <<managerVars, closing>>)
          /\ \A ns \in Namespaces : WF_closingVars(RemoveContent(ns, k))

ClosingSpec == ClosingInit /\ [][ClosingNext]_closingVars /\ ClosingFairness

-----------------------------------------------------------------------------

Emptied(ns) ==
    /\ \A cr \in Provisioners : NamespaceOf[cr] = ns => crs[cr] = NoObj
    /\ \A k \in Keys : In(k, ns) => store[k] = NoObj

\* The deletion of a namespace ends: the operator, which handles the external
\* dependencies of a deleted resource and retries when it fails to, gives up
\* its finalizer there too.
NamespaceFinishes ==
    \A ns \in Namespaces : ns \in closing ~> Emptied(ns)

=============================================================================
