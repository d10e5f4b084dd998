--------------------------- MODULE MCAppLifecycle ---------------------------
(***************************************************************************)
(* Two names, of which one is used again, one domain, two handlers.        *)
(***************************************************************************)
EXTENDS AppLifecycle, TLC

Symmetry == Permutations(Names) \cup Permutations(Handlers)

=============================================================================
