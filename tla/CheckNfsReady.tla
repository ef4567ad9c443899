---------------------------- MODULE CheckNfsReady ----------------------------
(***************************************************************************)
(* hack/scripts/check-nfs-ready.sh: a loop that reads the READY column     *)
(* "ready/desired" of the Deployment twice, once for either number, and    *)
(* compares the two as strings.  The deployment scripts run it some        *)
(* seconds after they created the resource; the operator makes the         *)
(* Deployment, kubelets start and lose its pods, others scale or delete it.*)
(***************************************************************************)
EXTENDS Naturals

CONSTANTS
    NoDeploy,       \* the Deployment does not exist
    Blank,          \* what a column of no output reads as
    MaxReplicas,    \* bound: replicas of the Deployment
    CheckCount      \* checkcount, 10 in the script

VARIABLES
    deploy,     \* the Deployment's replicas, ready and desired
    step,       \* what the script does next
    ready,
    desired,
    tempcount,
    said,       \* the script's last word
    wasReady    \* history: all replicas were ready since the script started

scriptVars == <<step, ready, desired, tempcount, said>>
readyVars == <<deploy, scriptVars, wasReady>>

Deploys == [ready : 0 .. MaxReplicas, desired : 0 .. MaxReplicas]

IsReady(d) == d # NoDeploy /\ d.ready = d.desired

ReadyInit ==
    /\ deploy = NoDeploy
    /\ step = "ready"
    /\ ready = Blank
    /\ desired = Blank
    /\ tempcount = 0
    /\ said = ""
    /\ wasReady = FALSE

-----------------------------------------------------------------------------
(* The cluster *)

Becomes(d) ==
    /\ deploy' = d
    /\ wasReady' = (wasReady \/ IsReady(d))
    /\ UNCHANGED scriptVars

\* EnsureDeployment makes one replica.
Made == deploy = NoDeploy /\ Becomes([ready |-> 0, desired |-> 1])

Deleted == deploy # NoDeploy /\ Becomes(NoDeploy)

PodStarts ==
    /\ deploy # NoDeploy
    /\ deploy.ready < deploy.desired
    /\ Becomes([deploy EXCEPT !.ready = @ + 1])

PodFails ==
    /\ deploy # NoDeploy
    /\ deploy.ready > 0
    /\ Becomes([deploy EXCEPT !.ready = @ - 1])

Scaled(n) ==
    /\ deploy # NoDeploy
    /\ Becomes([ready |-> IF deploy.ready < n THEN deploy.ready ELSE n,
                desired |-> n])

-----------------------------------------------------------------------------
(* The script *)

ReadReady ==
    /\ step = "ready"
    /\ ready' = IF deploy = NoDeploy THEN Blank ELSE deploy.ready
    /\ step' = "desired"
    /\ UNCHANGED <<deploy, desired, tempcount, said, wasReady>>

ReadDesired ==
    /\ step = "desired"
    /\ desired' = IF deploy = NoDeploy THEN Blank ELSE deploy.desired
    /\ step' = "compare"
    /\ UNCHANGED <<deploy, ready, tempcount, said, wasReady>>

Declare ==
    /\ step = "compare"
    /\ ready = desired
    /\ said' = "NFS is Ready!"
    /\ step' = "done"
    /\ UNCHANGED <<deploy, ready, desired, tempcount, wasReady>>

\* After the sleep the last count ends the loop.
CountAndSleep ==
    /\ step = "compare"
    /\ ready # desired
    /\ tempcount' = tempcount + 1
    /\ IF tempcount' = CheckCount
       THEN said' = "1" /\ step' = "done"
       ELSE said' = "NFS is not Ready" /\ step' = "ready"
    /\ UNCHANGED <<deploy, ready, desired, wasReady>>

ReadyNext ==
    \/ Made \/ Deleted \/ PodStarts \/ PodFails
    \/ \E n \in 0 .. MaxReplicas : Scaled(n)
    \/ ReadReady \/ ReadDesired \/ Declare \/ CountAndSleep

ReadySpec == ReadyInit /\ [][ReadyNext]_readyVars

-----------------------------------------------------------------------------

\* When the script says that NFS is ready, there was at least one moment since
\* it started at which the Deployment existed with all its replicas ready,
\* although its two readings are of different moments.
ReadyIsTrue == said = "NFS is Ready!" => wasReady

=============================================================================
