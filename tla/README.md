# Verification of the NFS provisioner operator

TLA+ models of the operator under `controllers/`, `api/v1alpha1/` and
`cmd/main.go`, together with the part of Kubernetes they run against, checked by
TLC and proved about with TLAPS. Paths below are relative to the repository
root.

## 1. Inventory

### The system

A user creates an `NFSProvisioner` custom resource (CR). The operator makes,
in the CR's namespace, a claim (PVC), a ServiceAccount, a Role, a RoleBinding,
a Deployment (the NFS server) and a Service, and cluster-wide an OpenShift
SecurityContextConstraints (SCC), a ClusterRole, a ClusterRoleBinding and a
StorageClass. All names but those of the claim and the StorageClass are
constants of `controllers/defaults`: the cluster-wide objects are shared by
every CR, the namespaced ones by every CR of the namespace.

| Component | State | Operations | Interacts with |
|---|---|---|---|
| Custom resource, defaults, builders (`api/v1alpha1`, `controllers/defaults`, builders in `controllers/resources`) | the spec; `status.error`, `status.nodes` | CRD defaulting, `validate`, the names looked up, `getVolumeSpec`, node selector and image choice | pure; used by the next three |
| Reconciler (`controllers/nfsprovisioner_controller.go`) | none between calls; inside one call a copy of the CR read at the start | `Reconcile`, `deleteExternalResources`, adding and removing the finalizer, status update | calls the resource managers; reads the informers' caches, writes through the API server |
| Resource managers (`controllers/resources`) | none | nine `EnsureResource`, run in the order of `NewResourceManager`; RBAC is four ensure functions | cache reads, `Create`; the SCC manager also `Update` |
| Manager process (`cmd/main.go`, controller-runtime) | work queue, informer caches, scheme, the one worker | enqueue on a watch event, requeue, restart, leader election | calls `Reconcile` |
| API server, users, administrators, garbage collector (external) | all stored objects | create, edit, delete of CRs; drift; SCC edits; background and foreground collection | watch events to the informers |
| Readiness script (`hack/scripts/check-nfs-ready.sh`) | a retry counter | poll the Deployment's ready count | `oc` |
| Test object builders (`builder/`) | an object under construction | functional options, map merge | nobody |
| Deployment scripts, Makefile, bundle, must-gather | - | command sequences | people |
| Generated deep copies | - | - | - |

### What is hard here

* **Stale copies.** `Reconcile` reads the CR once, from a cache, and writes the
  whole object back up to a dozen API calls later. Existence of every managed
  object is decided from caches too.
* **Repetition.** Every reconcile, also of a CR that is being deleted, first
  ensures everything; a retried cleanup recreates what it deleted.
* **Partial failure.** Each of a dozen writes may be rejected, or carried out
  with the reply lost; the process may die between any two. Several errors are
  dropped (`SetControllerReference`, the Gets of `deleteExternalResources`, the
  CRD probe).
* **Sharing.** Two CRs share the cluster-wide objects, or all of them; the
  cleanup of one takes the other's. The SCC's user list is shared with
  administrators.
* **Other actors.** The garbage collector works against the reconciles that
  recreate what it takes; others delete and create objects.
* **Progress.** Nothing but the CR is watched: repair rests on
  `Result{Requeue: true}`.

`PROJECT.json` lists each of these at its line under `hazards`.

### What makes each component correct

* Reconciler: never undoes a user's edit or deletion; gives up the finalizer
  only after the cleanup; every deletion ends; an invalid spec is reported and
  left alone; a valid resource converges and stays converged.
* Resource managers: a Deployment never exists without its prerequisites; no
  SCC user is ever lost; the account is in the SCC before the Deployment.
* Manager: a failed request is retried, a restart forgets nothing that matters.
* Builders: claim manager and Deployment manager agree on the claim; the node
  selector is the user's.

## 2. Modules

```
ProvisionerSpec    spec, defaults, validate, builders          (no variables)
  Cluster          API server, users, garbage collector        crs store births used
    Manager        caches, queue, worker, faults, restart      crCache cache queue pc work faults
      ResourceManagers   one stage per EnsureResource
        Reconciler       Reconcile, Init, Next, fairness
          ReconcilerProperties   what is checked
            Refinement           Reconciler implements ProvisionerLifecycle
              MCReconciler       values of the constants for TLC
            TerminatingNamespace the deletion of a namespace    closing
              MCTerminatingNamespace
            TwoManagers          two processes, leader election crCache2 ... work2 holder active
              MCTwoManagers

ProvisionerLifecycle   the abstract life of a resource          resources requests external
CheckNfsReady          hack/scripts/check-nfs-ready.sh          deploy step ready desired ...

ReconcilerProofs       types, user intent, cleanup, SCC users, errors     (theorems)
  LifecycleProofs      the refinement of ProvisionerLifecycle
    PrerequisiteProofs what a Deployment relies on
      StuckProofs      deletions that never end (also of TerminatingNamespace)
    WakeupProofs       the work queue loses nothing
      OwnershipProofs  owner references (also of PrerequisiteProofs)
        ElectionProofs two processes (of TwoManagers)
          TakeoverProofs
```

Each indented module extends the one above it: the components share the API
server's state, so composition is by the variables they read and write, and
`Next` of `Reconciler` is their interleaving. Three modules compose further:

* `TwoManagers` takes the whole system for the first process and an instance of
  it, with variables of its own for caches, queue and worker, for the second.
* `TerminatingNamespace` adds the namespace controller and what it makes of the
  operator's Creates.
* `Refinement` maps the state of the system to that of `ProvisionerLifecycle`,
  the specification of what a user of a resource sees: it is requested, guarded
  by the finalizer, doomed by its user and, once the cluster-wide objects are
  withdrawn, released; users alone write its spec; the error it shows was that
  of its spec.

### Correspondence with the code

* `crs[cr]` is the stored CR: `birth` stands for the uid, `deleting` for the
  deletion timestamp, `finalized` and `foreground` for the operator's finalizer
  and the garbage collector's. `store[k]` is any other object by
  `<<kind, namespace, name>>`, with its owner reference and the part of its
  content some property looks at.
* `pc` is the stage the one worker is about to execute, `work` the request and
  the CR it read. A stage is one step of `Reconcile`: a read from the cache and
  the write it decides. `StartReconcile` is the Get and `validate`; `SCC`,
  `PVC`, ..., `StorageClass` are the managers in the order of
  `manager.go`; then the finalizer branches, `deleteClusterRole`,
  `deleteClusterRoleBinding`, `removeFinalizer`.
* Every write has up to four outcomes: carried out; refused (`AlreadyExists`, a
  conflict, `NotFound`); rejected before it took effect (`EnsureFails`,
  `UpdateFails`, a disjunct of `DeleteExternal`); carried out with the reply
  lost (`Written`). The last three end the reconcile with an error and the
  request goes back to the queue.
* `Crash` may happen at any stage. A panic (`resource.MustParse` on a size that
  is no quantity) ends the process the same way.
* The contents of the RBAC objects are what `controllers/resources/rbac.go`
  builds: rules per resource, and who a binding gives which role.
* In `TwoManagers` the process of `cmd/main.go` takes the lease (`Acquire`),
  runs its controller, and stops when it loses the lease or dies. The lease is
  given back in `renew` (`LoseLease`) before `OnStoppedLeading` ends the process
  (`Exit`), as in the vendored
  `k8s.io/client-go/tools/leaderelection/leaderelection.go`; in between two
  processes reconcile.
* In `CheckNfsReady` a step of the script is one `oc get`; `Declare` and
  `CountAndSleep` are the branches of its `if`.

### Abstractions

* A resourceVersion is not kept: an optimistic write succeeds iff the writer's
  copy equals the stored object. Two writes that restore an identical object
  between the read and the write would let the model's write through where the
  server refuses it; the write is then without effect on what the other two
  did, and the model has the more behaviours.
* A stage's Get and write are one step. What may happen between them is that
  the Get's answer is out of date, and that is modelled by the lagging caches:
  `Lagging` names the keys whose informer may trail (the CRs' always may). The
  runs that need it put the keys that matter there.
* Watch events are coalesced: a cached copy jumps to the stored one.
  Reconcile is level-triggered and only sees the newest copy in the cache.
* The delays of the rate limiter are the time until the worker takes the
  request again. Failure of the CR's own Get puts the request back and is a
  stuttering step. There is no periodic resync (none is configured).
* PVC protection and other foreign finalizers on managed objects are left out:
  a deleted object is gone.
* Ports, probes, environment and log texts are constants and are left out. `status.nodes` is only ever written empty and is left out.

## 3. What the runs check

One or two CRs (`p1`, `p2`), one or two namespaces, specs chosen per run.

| Run | Question | Interesting bound |
|---|---|---|
| `edits` | `TypeOK`, `UserIntentKept`, `ErrorsMatch`, `PrerequisitesInPlace`, `NoneForgotten` while a spec moves between a hostPath, an own claim, a user's claim, a conflict and a size that panics | 2 edits, 1 fault (also a failing Get or CRD probe), deletion in the background, stale caches of the CR, the ServiceAccount and the Deployment, a user's claim that is made late |
| `shared` | `SCCBeforeDeployment`, `SCCUsersKept`, `CleanBeforeRelease`, `ImplementsLifecycle` with two namespaces, one of whose CRs is deleted, and an administrator | 2 CRs in 2 namespaces, stale cache of the SCC, 1 fault |
| `converge` | `Converges`, `InvalidReported`, `DeletionCompletes`, `OwnedCollected`, `ImplementsLifecycle` | 1 edit, 1 object deleted by others, 1 fault, stale cache of the Deployment, both deletion modes |
| `same_namespace` | `Converges` when two CRs share every object and the one that owns them goes | 2 CRs in 1 namespace, stale cache of the Deployment, 1 fault |
| `recreation` | `UserIntentKept`, `Converges`, `DeletionCompletes` for a CR created again under its old name, among objects and copies of the old uid | 2 births, both deletion modes, stale cache of the Deployment |
| `two_managers` | `BothTypeOK`, `BothKeepIntent`, `Converges`, `DeletionCompletes` with two processes and a lease | one process dies or loses the lease at any stage; both run at once until the deposed one exits |

The bounds are enough for the cases the properties are about: a hazard here
takes one stale copy, one failure at the worst place (the fault may strike at
any stage of any reconcile) and at most two resources, because the operator
has one worker and the state shared between resources is the cluster-wide
objects, or one namespace's. Two edits let a spec go wrong and be put right,
or the reverse, both while one copy is being worked on. Foreground
deletion, in which the collector may take any part of the objects while the resource
is still there, multiplies the states and meets edits in `converge`. Reconciles themselves
are not bounded.

`shared` and `edits` use the scheme the unit tests build, since with the one of
`cmd/main.go` the SCC manager does nothing (finding `scc_skipped`), and
namespaces none of which ends with the name of the other (`NoSuffixes`; see the
divergences below). `shared` reads the two cluster-wide RBAC objects fresh, and
no Get fails (`stale_cleanup` is the same property with one stale cache).
`two_managers` needs one CR and one fault: a second CR would only add to the
interleaving of either worker, which the other runs cover, and the fault is the
loss of the lease, the death of a leader, or a failed write, at any stage. Its
spec parses (`SizesAssumption`), since a panic is the death of the process.

`CHECK_DEADLOCK FALSE` is set everywhere: an operator whose resources are gone,
with an empty queue and the users' bounds used up, has nothing left to do.

`MaxBirths = 1` in `edits` is part of the claim: after a recreation
under the same name the Deployment of the new resource may for a while stand
next to a ServiceAccount that still belongs to the old uid and is then
collected; the next requeue repairs it, which `Converges` covers.

### Fairness

`Converges`, `DeletionCompletes`, `InvalidReported` and `OwnedCollected` are
checked under `FairSpec`:

* weak fairness of `Reconcile`: the worker goes on with the request it has;
* strong fairness of `StartReconcile(cr)`: the work queue is first in, first
  out (with finite delays), so a request that is back in the queue again and
  again is taken again and again, although others are taken in between;
* weak fairness of `Sync`, `SyncCR`: a watch delivers in the end;
* weak fairness of the garbage collector's two actions.

`FairBothSpec` asks the same of either process while it is active
(`BothFairness`), and that a free lease is taken, a deposed process exits and
the lease of a dead one expires, which `acquire`, `Run` and
`tryAcquireOrRenew` do on timers. Nobody has to lose a lease.
`TerminatingNamespace` adds a namespace controller that gets around to
everything (`ClosingFairness`); a Create it refuses counts as the worker's step.

Users, drift, faults and crashes owe nothing, and are bounded: the liveness
properties speak of what happens after the last of them. A size that does not
parse restarts the process for ever, so `Workable`, the precondition of
convergence, asks for one that parses.

### Findings

Six runs are expected to be violated. Each checks one statement that a
comment, document or test of the repository makes and that the code does not
keep; `PROJECT.json` quotes the line.

| Run | Property | What happens |
|---|---|---|
| `scc_skipped` | `SCCBeforeDeployment` | the scheme of `cmd/main.go` lacks the apiextensions types, the CRD probe always fails, the SCC is never made |
| `late_finalizer` | `ExternalsCleaned` | cluster-wide objects are made before the finalizer that guards them |
| `stale_cleanup` | `CleanBeforeRelease` | a repeated cleanup recreates the ClusterRole, then misses it in the cache |
| `invalid_deletion` | `DeletionHandled` | an invalid CR returns before its deletion is looked at |
| `namespace_stuck` | `NamespaceFinishes` | in a namespace that is being deleted the ensure before the deletion branch cannot create what is already gone, and fails for ever; the finalizer keeps the namespace |
| `ready_script` | `ReadyIsTrue` | a Deployment that does not exist yet reads as two empty strings, which are equal |

Other divergences are built into the definitions, as the code has them, and
have no run of their own:

* `Mentions` (`controllers/resources/scc.go:76`) is a substring test: with
  `EndsWith` set so that one namespace ends with the name of another, the
  `shared` run finds a Deployment whose account is not in the SCC.
* `DeleteExternal` (`controllers/nfsprovisioner_controller.go:190`) takes any
  error of a Get for absence: with `ReadFaults = TRUE` the `shared` run finds
  the finalizer gone and the ClusterRole there.
* `BuildClusterRoleBinding` (`controllers/resources/rbac.go:175`) has one
  subject, the account of the namespace that came first, and is never compared
  again, although the object is one for the whole cluster
  (`controllers/defaults/defaults.go:25`): the accounts of other namespaces
  never get the ClusterRole. `MayDo` asks about the Role only for this reason.
* With two processes `CleanBeforeRelease` fails: a process that has lost the
  lease recreates the ClusterRole between the cleanup and the release of its
  successor. `cmd/main.go:70` says that leader election ensures that there is
  only one active controller manager; the vendored `leaderelection.go:19` says
  that it does not guarantee it. What does hold of the two is `BothKeepIntent`.
* With two CRs in one namespace the Deployment and the Service may be made for
  different ones, and a Service with the labels of one CR then selects no pod of
  the other's Deployment (`controllers/resources/service.go:61`).
* `Requeue: true` goes through the rate limiter and is never followed by a
  Forget, so its delay grows to the cap of the limiter: repairs come, as
  `Converges` says, but late.
* A CR that names a claim which is gone (`controllers/resources/pvc.go:68`)
  never gets past `EnsureAllResources`, so its deletion never ends;
  `DeletionCompletes` speaks of `Workable` resources for this reason too.
* `EnsureAllResources` runs for a CR that is being deleted, although
  `controllers/nfsprovisioner_controller.go:172` speaks of stopping there.
* `Ensure` never compares contents, so an edit does not reach an existing
  Deployment; `controllers/resources/common.go:15` promises the desired state.
* `NodeSelectorFor` drops the user's selector when the storage is a claim
  (`controllers/resources/deployment.go:85`).
* `status.error` is never cleared (`controllers/nfsprovisioner_controller.go:110`).
* `Build` leaves the StorageClass without an owner and no cleanup removes it
  (`controllers/resources/storageclass.go:78`).

The definitions commented "Altered form of X" give a plausible mistake in `X`.
With it in the place of `X` the property of the run named in `PROJECT.json`
fails, which shows that the property depends on that piece of the code.

## 4. What is proved

The theorems hold for every set of resources, namespaces, specs, lagging caches
and every bound, also those no run could explore.

| Theorem | Module | States | Argument |
|---|---|---|---|
| `TypeCorrect` | `ReconcilerProofs` | `Spec => []TypeOK` | inductive as it stands; split into the store, the worker, the caches and the resources, one lemma per group of actions |
| `BranchInvariant` | `ReconcilerProofs` | `Spec => []BranchTaken` | in the stages of the cleanup and of the finalizer's removal, `work.obj` is marked and carries the finalizer |
| `UserIntent` | `ReconcilerProofs` | `Spec => UserIntentKept` | from `TypeOK` and `BranchTaken`: every write to a CR is optimistic, so its copy is the stored object, and only `RemoveFinalizer` takes the finalizer off |
| `CleanRelease` | `ReconcilerProofs` | `Spec /\ [][SoundCleanup]_vars => CleanBeforeRelease` | the inductive `CleanedSoFar` says which objects are gone at each stage of the cleanup |
| `SCCUsers` | `ReconcilerProofs` | `Spec => SCCUsersKept` | `AddUser` writes back the list of the copy it found; `FreshSCC`, the optimistic check, makes that the stored list with one account more |
| `ErrorsTruthful` | `ReconcilerProofs` | `Spec => ErrorsMatch` | only `UpdateStatus` changes an error; it is optimistic, and its stage is only reached with an invalid copy |
| `LeakyLifecycleImplemented` | `LifecycleProofs` | `Spec => ImplementsLeakyLifecycle` | each step of `Next` maps to a step of `ProvisionerLifecycle`, to a release that leaves an object behind (`Abandon`) or to a stutter, from the invariants above, from `OnlyInvalid` (the status stage holds an invalid copy) and from `Requested` (only resources that exist are worked on) |
| `LifecycleImplemented` | `LifecycleProofs` | `Spec /\ [][SoundCleanup]_vars => ImplementsLifecycle` | the same mapping; `CleanRelease` excludes `Abandon` |
| `AccountsFollowScheme` | `PrerequisiteProofs` | `NamesTellApart` implies `Spec /\ [][SoundListing]_vars => [](IF ApiExtensions \in Scheme THEN SCCBeforeDeployment ELSE OnlyAdministered)` | with the group the inductive `ListedFirst`: the SCC has no owner, the informer's copy never lists a user the stored one lacks, the stages past `EnsureSCC` are only reached with the account listed, and so is the account of each Deployment with an owner; without it `OnlyAdministered` is inductive by itself |
| `PrerequisitesKept` | `PrerequisiteProofs` | `OneResourceEach` implies `Spec => []PrerequisitesInPlace` | the inductive `ReadyFirst`: while nobody has asked for the end of a resource, what a stage or the cache has seen is still in the store, an owned object belongs to its namespace's resource, and a Deployment mounts a claim that is there |
| `WakeupsKept` | `WakeupProofs` | `Spec => []NoneForgotten` | the inductive `WakeupInv`, see below |
| `OrphansTaken` | `OwnershipProofs` | `Spec => []OrphansCollectable` | inductive: an object in a namespace has an owner (`MadeOwned`), and that is a uid given to a resource of the same namespace (`OwnersKnown`), so no resource to come has it |
| `TypesOfTwo` | `ElectionProofs` | `BothSpec => []BothTypeOK` | the induction of `IntentWithTwo` with the types of the lease |
| `IntentWithTwo` | `ElectionProofs` | `BothSpec => BothKeepIntent` | see below |
| `TruthWithTwo`, `UsersWithTwo` | `ElectionProofs` | `BothSpec => BothTellTruth`, `BothKeepUsers` | the same induction; `ErrorsMatch` and `SCCUsersKept` for the steps of either process |
| `AccountsWithTwo` | `TakeoverProofs` | the same of `BothSpec /\ [][BothSoundListing]_allVars` | `ListedFirst` of either process |
| `PrerequisitesWithTwo` | `TakeoverProofs` | `OneResourceEach` implies `BothSpec => []PrerequisitesInPlace` | `ReadyFirst` of either process |
| `OrphansWithTwo` | `TakeoverProofs` | `BothSpec => []OrphansCollectable` | `OwnersKnown` and `MadeOwned`, with the uids either process has seen |
| `InvalidWaits` | `StuckProofs` | `Spec => []([](used.edits = n) /\ Abandoned(cr) => []Abandoned(cr))` | only a copy that passed the validation gets past it (`OnlyValid`), and the removal of the finalizer is optimistic |
| `NamespaceTrapped` | `StuckProofs` | `ClosingSpec => [](Trapped(cr) => []~Emptied(NamespaceOf[cr]))` | `Trapped` is stable: the account is neither created nor cached again, so the worker gets no further than its stage |
| `TypesInClosing`, `IntentInClosing` | `StuckProofs` | `ClosingSpec => []TypeOK`, `UserIntentKept` | the inductions above with the steps of the namespace controller |

### Why the strengthenings are needed

`UserIntentKept` is not inductive by itself: that `RemoveFinalizer` never
strikes a resource nobody deleted follows from what the worker read several
stages earlier, and `BranchTaken` carries that fact to the write.
`SCCBeforeDeployment` and `PrerequisitesInPlace` hold of the store but follow
from what the worker saw some stages before. `CleanedSoFar` says which of the two
objects are gone at each stage of the cleanup; in a sound cleanup it is inductive
because there is one worker and only its ensure stages create the objects.

`NoneForgotten` compares the informer's copy with the stored resource. A user
may edit a spec and edit it back, so the stored resource can come to equal a
copy that was once out of date, and "they differ" is not stable. The induction
(`MovedOn`) is about the copy alone: when the worker leaves a copy behind that
still needs work, the stored resource differs from it in something no user can
turn back, its uid, its error, or the finalizer that was taken off. `Born`
(uids grow, copies are older) and `CopyCurrent` (the worker has the informer's
copy, or the request is in the queue again) carry that through recreation and
through events that arrive while the worker is at work.

Two processes share the API server's variables and have caches, queue and
worker of their own. The inductive invariant of one process is split into what
it says of the shared variables, which either process's steps keep by the
theorems about one process, instantiated for the second (`Second`), and what it
says of its own variables. The latter is stable because the other process does
to the shared variables only what its environment may do
(`FirstStaysReady`, `SecondStaysBorn` and their like). A takeover (`ElectionStep`)
starts or stops a process with fresh or empty variables and leaves the shared
ones alone. The lease itself plays no part: all theorems about two processes hold with leader
election off.

`InvalidWaits` and `NamespaceTrapped` turn two findings into theorems. The runs
`invalid_deletion` and `namespace_stuck` show that `Abandoned` and `Trapped`
states are reached and that the system may stay there under fairness; the
theorems show that it must, for any number of resources, faults and restarts.

Assumptions used, all on constants and each evaluated by TLC in a passing run:
`QuantitiesAssumption` (`ProvisionerSpec`); `NamespaceAssumption`,
`SpecsAssumption`, `BoundsAssumption`, `ScopeAssumption`, `ActorsAssumption`,
`NoObjAssumption` (`Cluster`); `LaggingAssumption`, `FaultsAssumption`, `RequestsAssumption`
(`Manager`); `EndsWithAssumption` (`ResourceManagers`); `ViewsAssumption`
(`Refinement`); `ElectionAssumption`, `SizesAssumption`, `NoHolderAssumption`
(`TwoManagers`).
Two hypotheses are about behaviours, not constants: they exclude certain steps,
and the program has behaviours with and without them.

`SoundCleanup`, of `CleanRelease` and `LifecycleImplemented`: `deleteExternalResources`
only passes an object over that is gone (its Get finds what is there and does not
fail), and nobody else makes the two objects. The caches may trail, also of these
objects, and requests be repeated, as long as no Get of a cleanup is deceived.
`stale_cleanup` is a behaviour with a cleanup that is, and `ReadFaults = TRUE` in
`shared` leads to another. What survives them is `LeakyLifecycleImplemented`, which
has no hypothesis.

`SoundListing`, of `AccountsFollowScheme`: no probe that could see the CRD fails,
and nobody deletes the SCC. `NamesTellApart` is the assumption on constants: no
namespace is the suffix of another in `EnsureSCC`'s substring test. The conclusion
depends on the scheme of the manager. With the scheme of the tests the account of
each Deployment is in the SCC, as in `shared`; with that of `cmd/main.go` the
operator lists nobody (`OnlyAdministered`), which makes `scc_skipped` a theorem.

`PrerequisitesKept` needs `OneResourceEach`: one resource per namespace, not made
anew under its name, and nobody else takes its ServiceAccount, Role, RoleBinding
or claim away or makes the Role and RoleBinding; these hold in `edits`. Under the
constants of `recreation` and of `same_namespace` TLC finds `PrerequisitesInPlace`
false: a Deployment is made for the new uid, or for the other resource, while the
objects of the old owner are still to be collected.

### What is only model-checked, and what is not true

All liveness (`Converges`, `DeletionCompletes`, `InvalidReported`,
`OwnedCollected`) is model-checked only, as fairness and `ENABLED` are out of the
prover's reach. Of each the part that can go wrong for good is a safety property
and proved: no wakeup is lost (`NoneForgotten`), and what is left behind may be
collected (`OrphansCollectable`, which has a theorem and no run:
`OwnedCollected` is what the runs check). `ReadyIsTrue` of the readiness script is false
and has no theorem.

With two processes `CleanBeforeRelease` is false, see the divergences above, so
the refinement of `ProvisionerLifecycle` is about one process. `NoneForgotten`
is stated for one process too: without a resourceVersion two processes can write
a resource back to a value one of them has cached, which the server would tell
apart. `BothTellTruth` and `BothKeepUsers` are theorems without a run: an
instance with an edit, or an administrator, and two processes, is larger than
what `two_managers` explores.

## 5. Not modelled

* `builder/object_builder.go`, `builder/namespace_builder.go`: functional options
  over one local value; no package of the repository imports them.
* The deployment scripts, Makefile, bundle and must-gather: command sequences for
  people, without state of their own.
* `api/v1alpha1/zz_generated.deepcopy.go`: generated.
* Flags, metrics and health probes of `cmd/main.go`: no state the rest depends on.
* Time: the delays of the rate limiter, of lease renewal and of the script's
  sleep are steps that may come at any moment.
