--------------------------- MODULE CommandGateMC ---------------------------
(* A small instance of CommandGate: one shell in which everything happens.     *)
EXTENDS CommandGate, TLC

CONSTANTS ls, rm, fork, probe, hook, home

(* `ls' is harmless where the shell is understood, `rm' always asks, `fork'   *)
(* is always denied.                                                          *)
MCVerdicts ==
  [x \in Sources \X Contexts |->
     CASE x[1] = ls -> "allow" [] x[1] = rm -> "ask" [] OTHER -> "deny"]
MCScriptVerdicts ==
  [x \in Sources |-> IF x = ls THEN "allow" ELSE IF x = rm THEN "ask" ELSE "deny"]
MCProfileOf == [s \in Sessions |-> CHOOSE p \in Profiles : TRUE]

Symmetric == Permutations(Intents) \cup Permutations(Clients)
=============================================================================
