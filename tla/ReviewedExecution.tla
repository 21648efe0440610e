------------------------- MODULE ReviewedExecution -------------------------
(***************************************************************************)
(* What the command gate promises its user, without targets, versions,      *)
(* locks or expiry: a proposal is executed at most once, only if policy     *)
(* calls it harmless or the user has confirmed its very text, and only in   *)
(* the world it was proposed in.  Whatever changes the world of a place     *)
(* withdraws every proposal that was waiting there.                         *)
(***************************************************************************)
EXTENDS Naturals, Sequences

CONSTANTS Ids, Texts, Places, Verdict

VARIABLES
  waiting,   \* proposals that can still be executed
  executed,  \* the proposals executed so far, in order
  used,      \* ids that have named a proposal
  confirmed, \* the <<id, text>> pairs the user has confirmed
  world      \* of each place: how often it may have changed

vars == <<waiting, executed, used, confirmed, world>>

At(p) == {w \in waiting : w.place = p}

Init ==
  /\ waiting = {} /\ executed = <<>> /\ used = {} /\ confirmed = {}
  /\ world = [p \in Places |-> 0]

Withdraw ==
  /\ waiting' \in SUBSET waiting
  /\ UNCHANGED <<executed, used, confirmed, world>>

(* A proposal is about the world as it is now; old ones may give way to it. *)
Propose(id, text, place, verdict) ==
  /\ id \notin used
  /\ used' = used \cup {id}
  /\ \E gone \in SUBSET waiting :
       waiting' = (waiting \ gone) \cup
         {[id |-> id, text |-> text, place |-> place, verdict |-> verdict,
           world |-> world[place]]}
  /\ UNCHANGED <<executed, confirmed, world>>

Confirm(w) ==
  /\ w.verdict # "deny"
  /\ confirmed' = confirmed \cup {<<w.id, w.text>>}
  /\ UNCHANGED <<waiting, executed, used, world>>

Disturb(p) ==
  /\ world' = [world EXCEPT ![p] = @ + 1]
  /\ waiting' = waiting \ At(p)
  /\ UNCHANGED <<executed, used, confirmed>>

Execute(w) ==
  /\ w.verdict = "allow" \/ <<w.id, w.text>> \in confirmed
  /\ w.world = world[w.place]
  /\ executed' = Append(executed, w)
  /\ \/ /\ waiting' = waiting \ {w}
        /\ UNCHANGED world
     \/ /\ waiting' = waiting \ At(w.place)
        /\ world' = [world EXCEPT ![w.place] = @ + 1]
  /\ UNCHANGED <<used, confirmed>>

Next ==
  \/ Withdraw
  \/ \E id \in Ids, text \in Texts, place \in Places, verdict \in Verdict :
       Propose(id, text, place, verdict)
  \/ \E w \in waiting : Confirm(w) \/ Execute(w)
  \/ \E p \in Places : Disturb(p)

Spec == Init /\ [][Next]_vars

=============================================================================
