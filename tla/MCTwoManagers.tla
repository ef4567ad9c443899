---------------------------- MODULE MCTwoManagers ----------------------------
(***************************************************************************)
(* Values for the constants of TwoManagers: one resource, one namespace.   *)
(***************************************************************************)
EXTENDS TwoManagers, TLC

CONSTANTS p1, n1

MCQuantities == {DefaultStorageSize}

OnlyHostPath == {[EmptySpec EXCEPT !.hostPathDir = "/nfs"]}

InFirst == (p1 :> n1)
NoSuffixes == [ns \in Namespaces |-> {ns}]

Background == {FALSE}
None == {}

=============================================================================
