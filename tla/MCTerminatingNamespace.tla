----------------------- MODULE MCTerminatingNamespace ------------------------
(***************************************************************************)
(* Values for the constants of TerminatingNamespace: one resource, which   *)
(* nobody deletes but the namespace controller.                            *)
(***************************************************************************)
EXTENDS TerminatingNamespace, TLC

CONSTANTS p1, n1

MCQuantities == {DefaultStorageSize}

OnlyHostPath == {[EmptySpec EXCEPT !.hostPathDir = "/nfs"]}
OnlyDefault == {EmptySpec}

InFirst == (p1 :> n1)
NoSuffixes == [ns \in Namespaces |-> {ns}]

None == {}

=============================================================================
