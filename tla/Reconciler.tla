----------------------------- MODULE Reconciler ------------------------------
(***************************************************************************)
(* controllers/nfsprovisioner_controller.go: Reconcile around              *)
(* EnsureAllResources, deleteExternalResources, and the whole system of    *)
(* users, API server, garbage collector, informers and the one worker.     *)
(***************************************************************************)
EXTENDS ResourceManagers

Deleting == work.obj.deleting
Finalized == work.obj.finalized

-----------------------------------------------------------------------------
(* Get and validate *)

\* The Get of the request's resource; the object read is a deep copy that
\* serves the whole reconcile.  A request for a resource that is gone ends.
StartReconcile(cr) ==
    /\ pc = "idle"
    /\ cr \in queue
    /\ queue' = queue \ {cr}
    /\ IF crCache[cr] = NoObj
       THEN UNCHANGED <<pc, work>>
       ELSE /\ work' = [cr |-> cr, obj |-> crCache[cr]]
            /\ pc' = IF Valid(crCache[cr].spec) THEN "SCC" ELSE "status"
    /\ UNCHANGED <<clusterVars, crCache, cache, faults>>

WorkFrame == UNCHANGED <<store, births, used, crCache, cache>>

Stored(changed) ==
    crs' = [crs EXCEPT ![work.cr] = changed]

\* Altered form of Fresh: writes without a resourceVersion.
UncheckedFresh == crs[work.cr] # NoObj

\* r.Update and r.Status().Update are optimistic: they need the stored
\* resource to be the one that was read.
Fresh == crs[work.cr] = work.obj

Conflict ==
    /\ ~ Fresh
    /\ Requeue
    /\ UNCHANGED <<crs, faults>>

\* Status().Update of an invalid resource.  Success returns nil, so the
\* request is not repeated until the resource changes.
UpdateStatus ==
    /\ pc = "status"
    /\ \/ /\ Fresh
          /\ Stored([work.obj EXCEPT !.error = ErrorText(work.obj.spec)])
          /\ \/ Finish /\ UNCHANGED faults
             \/ Requeue /\ Fault
       \/ Conflict
    /\ WorkFrame

-----------------------------------------------------------------------------
(* The finalizer *)

\* Altered form of KeepFinalizer: Result{} instead of Requeue.
ForgetRequest ==
    /\ pc = "finalizer"
    /\ ~ Deleting
    /\ Finalized
    /\ Finish
    /\ UNCHANGED <<crs, faults>>
    /\ WorkFrame

\* The resource already carries the finalizer: Result{Requeue: true}.
KeepFinalizer ==
    /\ pc = "finalizer"
    /\ ~ Deleting
    /\ Finalized
    /\ Requeue
    /\ UNCHANGED <<crs, faults>>
    /\ WorkFrame

\* Success returns Result{Requeue: true}, as a lost reply would.
AddFinalizer ==
    /\ pc = "finalizer"
    /\ ~ Deleting
    /\ ~ Finalized
    /\ \/ /\ Fresh
          /\ Stored([work.obj EXCEPT !.finalized = TRUE])
          /\ Requeue
          /\ UNCHANGED faults
       \/ Conflict
    /\ WorkFrame

IgnoreDeleted ==
    /\ pc = "finalizer"
    /\ Deleting
    /\ ~ Finalized
    /\ Finish
    /\ UNCHANGED <<crs, faults>>
    /\ WorkFrame

\* Altered form of BeginCleanup: deleteExternalResources is not called.
SkipCleanup ==
    /\ pc = "finalizer"
    /\ Deleting
    /\ Finalized
    /\ Advance("removeFinalizer")
    /\ UNCHANGED <<crs, faults>>
    /\ WorkFrame

BeginCleanup ==
    /\ pc = "finalizer"
    /\ Deleting
    /\ Finalized
    /\ Advance("deleteClusterRole")
    /\ UNCHANGED <<crs, faults>>
    /\ WorkFrame

\* Altered form of DeleteExternal: the error of the Delete is returned as nil.
UnretriedDelete(k, next) ==
    /\ \/ /\ Cached(k) = NoObj
          /\ Advance(next)
          /\ UNCHANGED <<store, faults>>
       \/ /\ Cached(k) # NoObj
          /\ store' = [store EXCEPT ![k] = NoObj]
          /\ Advance(next)
          /\ UNCHANGED faults
       \/ /\ Cached(k) # NoObj
          /\ Finish
          /\ Fault
          /\ UNCHANGED store
    /\ EnsureFrame

\* One half of deleteExternalResources.  Whatever error the Get returns, the
\* object counts as absent; a Delete that finds nothing ends the reconcile.
DeleteExternal(k, next) ==
    /\ \/ /\ Cached(k) = NoObj
          /\ Advance(next)
          /\ UNCHANGED <<store, faults>>
       \/ /\ Cached(k) # NoObj
          /\ store[k] # NoObj
          /\ store' = [store EXCEPT ![k] = NoObj]
          /\ Written(next)
       \/ /\ Cached(k) # NoObj
          /\ store[k] = NoObj
          /\ Requeue
          /\ UNCHANGED <<store, faults>>
       \/ /\ Cached(k) # NoObj
          /\ Requeue
          /\ Fault
          /\ UNCHANGED store
       \/ /\ ReadFaults
          /\ Cached(k) # NoObj
          /\ Advance(next)
          /\ Fault
          /\ UNCHANGED store
    /\ EnsureFrame

DeleteClusterRole ==
    /\ pc = "deleteClusterRole"
    /\ DeleteExternal(ClusterRoleKey, "deleteClusterRoleBinding")

DeleteClusterRoleBinding ==
    /\ pc = "deleteClusterRoleBinding"
    /\ DeleteExternal(ClusterRoleBindingKey, "removeFinalizer")

\* Altered form of Released: controllerutil.RemoveFinalizer is left out.
UnremovedFinalizer(obj) == obj

\* The API server removes a resource whose last finalizer goes.
Released(obj) ==
    IF obj.foreground THEN [obj EXCEPT !.finalized = FALSE] ELSE NoObj

RemoveFinalizer ==
    /\ pc = "removeFinalizer"
    /\ \/ /\ Fresh
          /\ Stored(Released(work.obj))
          /\ \/ Finish /\ UNCHANGED faults
             \/ Requeue /\ Fault
       \/ Conflict
    /\ WorkFrame

\* Altered form of UpdateFails: a failed Status().Update returns nil.
UpdateFailsQuietly ==
    /\ pc = "status"
    /\ Finish
    /\ Fault
    /\ UNCHANGED crs
    /\ WorkFrame

\* An Update or a Status().Update is rejected before it took effect.
UpdateFails ==
    /\ \/ pc \in {"status", "removeFinalizer"}
       \/ pc = "finalizer" /\ ~ Deleting /\ ~ Finalized
    /\ Requeue
    /\ Fault
    /\ UNCHANGED crs
    /\ WorkFrame

-----------------------------------------------------------------------------

Reconcile ==
    \/ EnsureAllResources
    \/ UpdateStatus
    \/ KeepFinalizer
    \/ AddFinalizer
    \/ IgnoreDeleted
    \/ BeginCleanup
    \/ DeleteClusterRole
    \/ DeleteClusterRoleBinding
    \/ RemoveFinalizer
    \/ UpdateFails

Init == ClusterInit /\ ManagerInit

Next ==
    \/ Environment /\ UNCHANGED managerVars
    \/ \E k \in Lagging : Sync(k)
    \/ \E cr \in Provisioners : SyncCR(cr)
    \/ \E cr \in Provisioners : StartReconcile(cr)
    \/ Reconcile
    \/ Crash

\* The worker runs while it has a request and takes the requests of the
\* queue in turn, the informers catch up and the garbage collector gets
\* around to everything.  Users and failures owe nothing.
Fairness ==
    /\ WF_vars(Reconcile)
    /\ \A cr \in Provisioners :
          /\ SF_vars(StartReconcile(cr))
          /\ WF_vars(SyncCR(cr))
          /\ WF_vars(FinishForeground(cr) /\ UNCHANGED managerVars)
    /\ \A k \in Lagging : WF_vars(Sync(k))
    /\ \A k \in Keys : WF_vars(GarbageCollect(k) /\ UNCHANGED managerVars)

Spec == Init /\ [][Next]_vars

FairSpec == Spec /\ Fairness

=============================================================================
