------------------------- MODULE MCManagedServices -------------------------
(***************************************************************************)
(* Instances of ManagedServices for TLC.  The only object store there may  *)
(* be has a web interface of its own name.                                 *)
(***************************************************************************)
EXTENDS ManagedServices, TLC

CONSTANT UI

MCWebUI == [n \in Garage |-> UI]

Symmetry == Permutations(Services) \cup Permutations(Handlers)

=============================================================================
