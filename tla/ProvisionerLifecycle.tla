------------------------ MODULE ProvisionerLifecycle -------------------------
(***************************************************************************)
(* What the operator promises the users of NFSProvisioner resources,       *)
(* without caches, copies, stages or failures: a resource is requested,    *)
(* guarded by the operator's finalizer, doomed by its user and released    *)
(* once the cluster-wide objects are withdrawn.  Users alone write specs;  *)
(* the error a resource shows is that of the spec it had when it was set.  *)
(***************************************************************************)
EXTENDS Naturals

CONSTANTS
    Absent,         \* no resource
    Provisioners,   \* names of the resources
    StoredSpecs,
    NoError,
    Valid(_),       \* what validate() accepts
    ErrorText(_),   \* and what it says of the rest
    Externals       \* the cluster-wide objects a finalizer guards

VARIABLES
    resources,  \* spec, error and stage of life of each resource
    requests,   \* how often each was requested
    external    \* the cluster-wide objects that exist

lifeVars == <<resources, requests, external>>

Init ==
    /\ resources = [cr \in Provisioners |-> Absent]
    /\ requests = [cr \in Provisioners |-> 0]
    /\ external = {}

Becomes(cr, resource) ==
    /\ resources' = [resources EXCEPT ![cr] = resource]
    /\ UNCHANGED <<requests, external>>

InStage(cr, stage) == resources[cr] # Absent /\ resources[cr].stage = stage

Moves(cr, stage) == Becomes(cr, [resources[cr] EXCEPT !.stage = stage])

-----------------------------------------------------------------------------
(* Users *)

Request(cr, spec) ==
    /\ resources[cr] = Absent
    /\ resources' = [resources EXCEPT ![cr] =
                       [spec |-> spec, error |-> NoError, stage |-> "requested"]]
    /\ requests' = [requests EXCEPT ![cr] = @ + 1]
    /\ UNCHANGED external

Edit(cr, spec) ==
    /\ resources[cr] # Absent
    /\ Becomes(cr, [resources[cr] EXCEPT !.spec = spec])

\* A resource nobody guards may go at once, or leave after its dependents.
Retract(cr) ==
    \/ InStage(cr, "requested") /\ (Becomes(cr, Absent) \/ Moves(cr, "leaving"))
    \/ InStage(cr, "guarded") /\ Moves(cr, "doomed")

-----------------------------------------------------------------------------
(* The operator *)

Guard(cr) == InStage(cr, "requested") /\ Moves(cr, "guarded")

Report(cr) ==
    /\ resources[cr] # Absent
    /\ ~ Valid(resources[cr].spec)
    /\ Becomes(cr, [resources[cr] EXCEPT !.error = ErrorText(resources[cr].spec)])

Release(cr) ==
    /\ InStage(cr, "doomed")
    /\ external = {}
    /\ Becomes(cr, Absent) \/ Moves(cr, "leaving")

\* Nothing is made in a cluster that never had a resource.
Provide(x) ==
    /\ \E cr \in Provisioners : requests[cr] > 0
    /\ external' = external \cup {x}
    /\ UNCHANGED <<resources, requests>>

-----------------------------------------------------------------------------
(* The operator or others, and the garbage collector *)

Withdraw(x) ==
    /\ external' = external \ {x}
    /\ UNCHANGED <<resources, requests>>

Leave(cr) == InStage(cr, "leaving") /\ Becomes(cr, Absent)

-----------------------------------------------------------------------------

Next ==
    \/ \E cr \in Provisioners :
          \/ \E spec \in StoredSpecs : Request(cr, spec) \/ Edit(cr, spec)
          \/ Retract(cr) \/ Guard(cr) \/ Report(cr) \/ Release(cr) \/ Leave(cr)
    \/ \E x \in Externals : Provide(x) \/ Withdraw(x)

Spec == Init /\ [][Next]_lifeVars

-----------------------------------------------------------------------------
(* What is left of the promise when a cleanup misses an object *)

Abandon(cr) ==
    /\ InStage(cr, "doomed")
    /\ external # {}
    /\ Becomes(cr, Absent) \/ Moves(cr, "leaving")

\* Others may make an object in a cluster that never had a resource.
Supply(x) ==
    /\ external' = external \cup {x}
    /\ UNCHANGED <<resources, requests>>

LeakyNext ==
    \/ Next
    \/ \E cr \in Provisioners : Abandon(cr)
    \/ \E x \in Externals : Supply(x)

LeakySpec == Init /\ [][LeakyNext]_lifeVars

=============================================================================
