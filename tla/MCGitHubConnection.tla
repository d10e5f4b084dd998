------------------------- MODULE MCGitHubConnection -------------------------
(***************************************************************************)
(* One application, built by Talos or by a workflow, and two repositories,  *)
(* the name of one of which is a part of the other's.                     *)
(***************************************************************************)
EXTENDS GitHubConnection

CONSTANTS a1, app, web

MCUrl == [a \in Apps |-> web]
MCContains == {<<app, app>>, <<web, web>>, <<app, web>>}
MCLastCommit == [r \in Repos |-> IF r = web THEN 3 ELSE 1]

=============================================================================
