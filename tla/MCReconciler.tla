---------------------------- MODULE MCReconciler -----------------------------
(***************************************************************************)
(* Values for the constants of Refinement.                                 *)
(***************************************************************************)
EXTENDS Refinement, TLC

CONSTANTS p1, p2, n1, n2

MCQuantities == {DefaultStorageSize, "1Gi"}

HostPath == [EmptySpec EXCEPT !.hostPathDir = "/nfs"]
UserClaim == [EmptySpec EXCEPT !.pvc = "data"]
BadSize == [EmptySpec EXCEPT !.storageSize = "ten"]
Conflicting == [EmptySpec EXCEPT !.pvc = "data", !.hostPathDir = "/nfs"]

OnlyHostPath == {HostPath}
PlainOrInvalid == {HostPath, Conflicting}
AnyVolume == {HostPath, EmptySpec, UserClaim, Conflicting, BadSize}

InFirst == (p1 :> n1)
Apart == (p1 :> n1) @@ (p2 :> n2)
Together == (p1 :> n1) @@ (p2 :> n1)

NoSuffixes == [ns \in Namespaces |-> {ns}]

Both == BOOLEAN
Background == {FALSE}

None == {}
ClusterRoleAlone == {ClusterRoleKey}
SCCAlone == {SCCKey}
DeploymentAlone == {DeploymentKey(n1)}
AccountAndDeployment == {ServiceAccountKey(n1), DeploymentKey(n1)}
UserClaims == {PVCKey(n1, "data")}
Admins == {[ns |-> n2, sa |-> "other"]}

=============================================================================
