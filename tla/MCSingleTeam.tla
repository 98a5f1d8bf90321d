---------------------------- MODULE MCSingleTeam ----------------------------
(* Symmetry and view for the model-checking instances of SingleTeam. *)
EXTENDS SingleTeam, TLC

CameraSymmetry == Permutations(Cameras)

\* States that differ in the counts of messages alone are explored once: no step
\* and none of the invariants reads them, nor what the agents keep of an earlier step
\* before they have communicated again.
Kept(last) ==
  [a \in Agents |-> IF Team(a) \in spoke \/ round # "none" THEN last[a] ELSE <<>>]
MessageView ==
  <<queue, buffer, steps, read, group_vars, Kept(last_requests), Kept(last_responses),
    wrapper_vars>>
===============================================================================
