----------------------------- MODULE AgentRunMC -----------------------------
(* The instances of AgentRun for TLC.                                         *)
EXTENDS AgentRun

ToolOf == [s \in Steps |-> CASE s = "c1" -> "change" [] s = "e1" -> "edit"
                             [] s = "l1" -> "look" [] OTHER -> "read"]

(* Two processes ask for one run.                                             *)
TwoWindows == {[steps |-> {"c1"}, envs |-> {"here"}, tokens |-> 2, moves |-> 0, saves |-> 6,
                late |-> 1, losses |-> {"crash"}]}

(* A command whose session may close under it.                                *)
OneCommand == {[steps |-> {"c1"}, envs |-> {"here"}, tokens |-> 1, moves |-> 1, saves |-> 7,
                late |-> 0, losses |-> {}]}

(* A run takes steps of every kind under several leases, or looks at what a   *)
(* step has left while its shell moves or its window is loaded again.         *)
StepsOrMoves ==
  {[steps |-> {"e1", "c1", "r1"}, envs |-> {"here"}, tokens |-> 3, moves |-> 0, saves |-> 13,
    late |-> 0, losses |-> {}],
   [steps |-> {"c1", "l1"}, envs |-> {"here", "there"}, tokens |-> 2, moves |-> 1, saves |-> 8,
    late |-> 0, losses |-> {"reload"}]}

=============================================================================
