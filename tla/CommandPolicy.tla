---------------------------- MODULE CommandPolicy ----------------------------
(* The analysis of a command before it is reviewed (domain/command_policy/     *)
(* analysis.rs): a walk over the syntax tree, with a depth, a node budget and  *)
(* a deadline, that collects risks and unknowns and ends in allow, ask or      *)
(* deny.  Sources found in a command (sh -c, eval) are parsed and walked in    *)
(* turn.  The trees come from a set of inputs, each with what it does when a   *)
(* shell runs it.                                                              *)
EXTENDS CommandRules, FiniteSets

CONSTANTS Inputs,        \* sequence of [tree, does, ruins, form]
          MaxNodes       \* 32768 nodes

VARIABLES input,         \* the command that is analysed
          todo,          \* what is left to visit, innermost first
          nodes,         \* nodes counted
          late,          \* the deadline passed
          kinds,         \* kinds of the risks listed
          status,        \* "complete" or "unknown"
          decision,      \* "allow", "ask" or "deny"
          phase          \* "start", "walk" or "done"

vars == <<input, todo, nodes, late, kinds, status, decision, phase>>

TypeOK ==
    /\ input.form \in {"plain", "long", "control", "blank", "foreign"}
    /\ nodes \in Nat /\ late \in BOOLEAN
    /\ kinds \subseteq {"delete", "edit", "reboot", "upgrade", "service", "network", "permission",
                        "disk", "execution"}
    /\ status \in {"complete", "unknown"}
    /\ decision \in {"allow", "ask", "deny"}
    /\ phase \in {"start", "walk", "done"}

Init ==
    /\ LET inputs == Inputs IN \E i \in DOMAIN inputs : input = inputs[i]
    /\ todo = <<>> /\ nodes = 0 /\ late = FALSE
    /\ kinds = {} /\ status = "complete" /\ decision = "allow" /\ phase = "start"

-----------------------------------------------------------------------------
\* (a bug to try: a risk found after a denial asks)
AsksAnyway(d) == "ask"
(* unknown() and risk(): a denial is never taken back.                         *)
Ask(d) == IF d = "deny" THEN d ELSE "ask"

Note(finding) ==
    /\ kinds' = kinds \cup finding.kinds
    /\ status' = IF finding.unknown THEN "unknown" ELSE status
    /\ decision' = CASE finding.deny -> "deny"
                     [] ~ finding.deny /\ (finding.kinds # {} \/ finding.unknown) -> Ask(decision)
                     [] OTHER -> decision

Parse(source, depth) == [step |-> "parse", trees |-> source, depth |-> depth]
Visit(tree, depth)   == [step |-> "visit", trees |-> <<tree>>, depth |-> depth]
Child(tree, depth)   == [step |-> "child", trees |-> <<tree>>, depth |-> depth]

(* Inputs that are not walked at all.                                          *)
Refused(form) == form \in {"long", "control", "blank"}

Start ==
    /\ phase = "start"
    /\ CASE Refused(input.form) -> Note([Unknown EXCEPT !.deny = TRUE]) /\ todo' = <<>> /\ phase' = "done"
         [] input.form = "foreign" -> Note(Unknown) /\ todo' = <<>> /\ phase' = "done"
         [] OTHER -> /\ todo' = <<Parse(<<input.tree>>, 0)>> /\ phase' = "walk"
                     /\ UNCHANGED <<kinds, status, decision>>
    /\ UNCHANGED <<input, nodes, late>>

WithinBudget(depth) == depth <= MaxDepth /\ nodes + 1 <= MaxNodes /\ ~ late

Overrun(depth) ==
    /\ ~ WithinBudget(depth)
    /\ Note(Unknown)
    /\ nodes' = nodes + 1
    /\ todo' = Tail(todo)

(* parse(): a tree with an error is walked as well.                            *)
ParseSource ==
    /\ phase = "walk" /\ todo # <<>> /\ todo[1].step = "parse"
    /\ LET item == todo[1]
       IN \/ Overrun(item.depth)
          \/ /\ WithinBudget(item.depth)
             /\ nodes' = nodes + 1
             /\ todo' = [i \in DOMAIN item.trees |-> Visit(item.trees[i], item.depth)] \o Tail(todo)
             /\ UNCHANGED <<kinds, status, decision>>
    /\ UNCHANGED <<input, late, phase>>

(* Names an assignment may not give without more ado.                          *)
ChangesExecution(name) == name \in {"PATH", "IFS", "ENV", "BASH_ENV", "PS4"} \/ Begins(name, "LD_")

RedirectRules(words) ==
    LET target == words[1].text
    IN CASE target = Dynamic -> Both(Unknown, Risk("edit"))
         [] target \in {"/dev/null", "-", "1", "2"} -> Nothing
         [] OTHER -> Risk("edit")

(* What walk() reports of a node.                                              *)
NodeRules(tree, depth) ==
    CASE tree.kind = "command" ->
            Both(If(\E i \in DOMAIN tree.words : tree.words[i].text = Dynamic,
                    Both(Unknown, Risk("execution"))),
                 AnalyzeWords(tree.words, depth))
      [] tree.kind = "write" -> RedirectRules(tree.words)
      [] tree.kind = "assign" ->
            If(ChangesExecution(tree.words[1].text), Both(Risk("execution"), Unknown))
      [] tree.kind = "substitution" -> Both(Unknown, Risk("execution"))
      [] tree.kind \in {"state", "loop", "expansion", "error"} -> Unknown
      [] OTHER -> Nothing

(* walk(): the loop over the children stops when the budget or the deadline is *)
(* gone; sources found in the words were parsed before it.                     *)
LeavesOut == nodes > MaxNodes \/ late

VisitNode ==
    /\ phase = "walk" /\ todo # <<>> /\ todo[1].step # "parse"
    /\ LET item == todo[1]
           tree == item.trees[1]
           found == NodeRules(tree, item.depth)
       IN IF item.step = "child" /\ LeavesOut
          THEN todo' = Tail(todo) /\ UNCHANGED <<nodes, kinds, status, decision>>
          ELSE \/ Overrun(item.depth)
               \/ /\ WithinBudget(item.depth)
                  /\ nodes' = nodes + 1
                  /\ Note(found)
                  /\ todo' = [i \in DOMAIN found.code |-> Parse(found.code[i].source, found.code[i].depth)]
                             \o [i \in DOMAIN tree.children |-> Child(tree.children[i], item.depth + 1)]
                             \o Tail(todo)
    /\ UNCHANGED <<input, late, phase>>

\* (a bug to try: it is not)
NoLastLook == Nothing
(* The deadline is looked at once more before the answer.                      *)
LastLook == If(late, Unknown)

Finish ==
    /\ phase = "walk" /\ todo = <<>>
    /\ Note(LastLook)
    /\ phase' = "done"
    /\ UNCHANGED <<input, todo, nodes, late>>

TimePasses ==
    /\ phase = "walk" /\ ~ late
    /\ late' = TRUE
    /\ UNCHANGED <<input, todo, nodes, kinds, status, decision, phase>>

Next == Start \/ ParseSource \/ VisitNode \/ Finish \/ TimePasses

Spec == Init /\ [][Next]_vars

-----------------------------------------------------------------------------
(* A command is allowed only if nothing it runs changes anything, in whatever  *)
(* wrappers, shells and lists it is, and a complete analysis lists every kind  *)
(* of change: neither the budget nor the deadline leaves a part out unnoticed. *)
EffectsAreReported ==
    phase = "done" =>
        /\ status = "complete" => input.does \subseteq kinds
        /\ decision = "allow" => input.does = {} /\ status = "complete"

(* A command that removes the root directory recursively is denied however it  *)
(* is wrapped, whatever is found after it, unless the analysis is incomplete.  *)
RuinIsDenied ==
    phase = "done" /\ input.ruins /\ status = "complete" => decision = "deny"
=============================================================================
