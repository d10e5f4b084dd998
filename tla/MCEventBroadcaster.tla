------------------------- MODULE MCEventBroadcaster -------------------------
(***************************************************************************)
(* Instances of EventBroadcaster for TLC.                                  *)
(***************************************************************************)
EXTENDS EventBroadcaster, TLC

Symmetry == Permutations(Subs)

=============================================================================
