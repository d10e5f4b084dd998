------------------------------ MODULE MCStartup ------------------------------
(***************************************************************************)
(* Instances of Startup for TLC.  Keys and handlers are interchangeable.   *)
(***************************************************************************)
EXTENDS Startup, TLC

Symmetry == Permutations(Keys) \cup Permutations(Handlers)

=============================================================================
