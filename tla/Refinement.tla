----------------------------- MODULE Refinement ------------------------------
(***************************************************************************)
(* Reconciler, with all of its caches, copies and failures, implements     *)
(* ProvisionerLifecycle.                                                   *)
(***************************************************************************)
EXTENDS ReconcilerProperties

StageOf(obj) ==
    IF obj.deleting
    THEN IF obj.finalized THEN "doomed" ELSE "leaving"
    ELSE IF obj.finalized THEN "guarded" ELSE "requested"

Views ==
    [ spec : AdmittedSpecs, error : Errors,
      stage : {"requested", "guarded", "doomed", "leaving"} ]

ASSUME ViewsAssumption == NoObj \notin Views

\* What the user of a resource sees of it.
Seen(obj) ==
    IF obj = NoObj THEN NoObj
    ELSE [spec |-> obj.spec, error |-> obj.error, stage |-> StageOf(obj)]

ExternalKeys == {ClusterRoleKey, ClusterRoleBindingKey}

Lifecycle ==
    INSTANCE ProvisionerLifecycle WITH
        Absent <- NoObj,
        StoredSpecs <- AdmittedSpecs,
        Externals <- ExternalKeys,
        resources <- [cr \in Provisioners |-> Seen(crs[cr])],
        requests <- births,
        external <- {k \in ExternalKeys : Exists(k)}

\* Whatever the interleaving of users, informers, reconciles, failures and
\* restarts, a resource lives the life ProvisionerLifecycle describes, provided
\* that no Get of deleteExternalResources misses an object that is there.
ImplementsLifecycle == Lifecycle!Spec

\* Also when that does not hold, a resource lives that life: all that may go
\* wrong is that its last step leaves an object behind.
ImplementsLeakyLifecycle == Lifecycle!LeakySpec

=============================================================================
