---------------------------- MODULE SshTaskGateMC ----------------------------
(* One session whose profile is edited while tasks are prepared and started.  *)
EXTENDS SshTaskGate, TLC

MCProfileOf == [s \in Sessions |-> CHOOSE p \in Profiles : TRUE]
Symmetric == Permutations(Tasks)
=============================================================================
