--------------------------- MODULE MCDeployEngine ---------------------------
(***************************************************************************)
(* Instances of DeployEngine for TLC.  Deploys, handlers and applications  *)
(* are interchangeable: nothing compares or counts them.                   *)
(***************************************************************************)
EXTENDS DeployEngine, TLC

Symmetry == Permutations(Deploys) \cup Permutations(Handlers) \cup Permutations(Apps)

=============================================================================
