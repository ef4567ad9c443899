------------------------------- MODULE Manager -------------------------------
(***************************************************************************)
(* The controller-runtime manager the operator runs in: informer caches    *)
(* that trail the API server, the work queue with its one worker, and the  *)
(* restart of the process.  The worker's state is the stage of Reconcile   *)
(* it is about to execute (pc) and the request it works on (work).         *)
(*                                                                         *)
(* A Get and the write it decides are one step.  What can happen between   *)
(* the two is that the cache the Get read is out of date, and a key in     *)
(* Lagging has a cached copy of its own to model just that; the other keys *)
(* are read as they are stored.  The copies of the custom resources always *)
(* lag.                                                                    *)
(***************************************************************************)
EXTENDS Cluster

CONSTANTS
    Lagging,        \* keys whose informer may trail the API server
    Scheme,         \* groups registered in the manager's runtime.Scheme
    ServedCRDs,     \* CRD groups the API server serves
    ReadFaults,     \* whether a Get may fail whose error the code drops
    MaxFaults       \* bound: failed calls, lost replies and crashes

ASSUME LaggingAssumption == Lagging \subseteq Keys

ASSUME FaultsAssumption == MaxFaults \in Nat /\ ReadFaults \in BOOLEAN

VARIABLES
    crCache,    \* the informer's copy of the custom resources
    cache,      \* the informers' copies of the lagging keys
    queue,      \* requests waiting in the work queue
    pc,         \* stage of Reconcile, "idle" between requests
    work,       \* the request being served and the object Reconcile read
    faults      \* failures so far, against their bound

managerVars == <<crCache, cache, queue, pc, work, faults>>
vars == <<crs, store, births, used, crCache, cache, queue, pc, work, faults>>

-----------------------------------------------------------------------------

EnsureStages ==
    { "SCC", "PVC", "ServiceAccount", "ClusterRole", "ClusterRoleBinding",
      "Role", "RoleBinding", "Deployment", "Service", "StorageClass" }

DeleteStages == {"deleteClusterRole", "deleteClusterRoleBinding"}

Stages ==
    EnsureStages \cup DeleteStages
    \cup {"idle", "status", "finalizer", "removeFinalizer"}

Requests == [cr : Provisioners, obj : CustomResources]

ASSUME RequestsAssumption == NoObj \notin Requests

ManagerTypeOK ==
    /\ crCache \in [Provisioners -> CustomResources \cup {NoObj}]
    /\ cache \in [Lagging -> Objects \cup {NoObj}]
    /\ SCCKey \in Lagging => SCCShape(cache[SCCKey])
    /\ queue \subseteq Provisioners
    /\ pc \in Stages
    /\ work \in Requests \cup {NoObj}
    /\ pc = "idle" <=> work = NoObj
    /\ faults \in 0 .. MaxFaults

ManagerInit ==
    /\ crCache = [cr \in Provisioners |-> NoObj]
    /\ cache = [k \in Lagging |-> NoObj]
    /\ queue = {}
    /\ pc = "idle"
    /\ work = NoObj
    /\ faults = 0

-----------------------------------------------------------------------------
(* Informers *)

\* What the manager's client answers to a Get.
Cached(k) == IF k \in Lagging THEN cache[k] ELSE store[k]

\* Watch events are coalesced: the cached copy jumps to the stored one.
Sync(k) ==
    /\ cache[k] # store[k]
    /\ cache' = [cache EXCEPT ![k] = store[k]]
    /\ UNCHANGED <<clusterVars, crCache, queue, pc, work, faults>>

\* An event of a custom resource also enqueues its name.  No other kind is
\* watched for the queue.
SyncCR(cr) ==
    /\ crCache[cr] # crs[cr]
    /\ crCache' = [crCache EXCEPT ![cr] = crs[cr]]
    /\ queue' = queue \cup {cr}
    /\ UNCHANGED <<clusterVars, cache, pc, work, faults>>

-----------------------------------------------------------------------------
(* The worker *)

Advance(stage) ==
    /\ pc' = stage
    /\ UNCHANGED <<work, queue>>

\* Altered form of Finish: Queue.Done is never called.
FinishHoldingRequest ==
    /\ pc' = "idle"
    /\ UNCHANGED <<work, queue>>

\* Reconcile returned Result{} and no error.
Finish ==
    /\ pc' = "idle"
    /\ work' = NoObj
    /\ UNCHANGED queue

\* Reconcile returned an error or Result{Requeue: true}.  The delay of the
\* rate limiter is the time until the worker takes the request again.
Requeue ==
    /\ pc' = "idle"
    /\ work' = NoObj
    /\ queue' = queue \cup {work.cr}

Fault ==
    /\ faults < MaxFaults
    /\ faults' = faults + 1

\* The outcome of a write the API server carried out: Reconcile goes on at
\* the given stage, or the reply is lost and it returns an error.
Written(stage) ==
    \/ Advance(stage) /\ UNCHANGED faults
    \/ Requeue /\ Fault

\* The process dies (leader election hands the queue to a successor) and
\* comes up with caches filled afresh, every listed resource enqueued.
Restart ==
    /\ pc' = "idle"
    /\ work' = NoObj
    /\ crCache' = crs
    /\ cache' = [k \in Lagging |-> store[k]]
    /\ queue' = {cr \in Provisioners : crs[cr] # NoObj}

Crash ==
    /\ Restart
    /\ Fault
    /\ UNCHANGED clusterVars

\* No process runs, or one that does not lead: its controller has not started.
Stop ==
    /\ pc' = "idle"
    /\ work' = NoObj
    /\ crCache' = [cr \in Provisioners |-> NoObj]
    /\ cache' = [k \in Lagging |-> NoObj]
    /\ queue' = {}

=============================================================================
