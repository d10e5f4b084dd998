------------------------------ MODULE BlueGreen ------------------------------
(***************************************************************************)
(* What the engine promises about one deploy, whatever the other deploys   *)
(* do: its status only moves forward, it succeeds only after traffic was   *)
(* switched to its container, and once traffic was switched it is never    *)
(* reported as failed.                                                     *)
(***************************************************************************)
CONSTANT Deploys

VARIABLES
  status,    \* what the deploy's row says
  switched   \* the deploys whose container has been given the traffic

vars == <<status, switched>>

Init ==
  /\ status = [d \in Deploys |-> "absent"]
  /\ switched = {}

Move(d, from, to) == status[d] \in from /\ status' = [status EXCEPT ![d] = to]

Accept(d) == Move(d, {"absent"}, "pending") /\ UNCHANGED switched

Begin(d) == Move(d, {"pending"}, "running") /\ UNCHANGED switched

\* A row whose UPDATE was lost may still say "pending" at this point.
Switch(d) ==
  /\ status[d] \in {"pending", "running"}
  /\ switched' = switched \cup {d}
  /\ UNCHANGED status

Succeed(d) ==
  /\ d \in switched
  /\ Move(d, {"pending", "running"}, "success")
  /\ UNCHANGED switched

Fail(d) ==
  /\ d \notin switched
  /\ \E s \in {"failed", "auto_rollback"} : Move(d, {"pending", "running"}, s)
  /\ UNCHANGED switched

Next ==
  \E d \in Deploys : Accept(d) \/ Begin(d) \/ Switch(d) \/ Succeed(d) \/ Fail(d)

Spec == Init /\ [][Next]_vars

=============================================================================
