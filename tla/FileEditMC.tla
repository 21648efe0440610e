------------------------------ MODULE FileEditMC ------------------------------
(* Two small instances of FileEdit for TLC.  In the first a single edit meets   *)
(* every provider and a crash; in the second two edits of one file meet each    *)
(* other, one of them may undo the other, the helper in the shell writes both,  *)
(* and others write twice, while nobody stops an edit under way.  The two are   *)
(* interchangeable, so the first is proposed first.                            *)
EXTENDS FileEdit

CONSTANTS First, Second,   \* the two edits; the first instance has one of them
          Text    \* the only text of the second instance, besides the file's absence

SingleOrPair ==
  {[edits |-> {First}, texts |-> Texts, providers |-> Providers, foreign |-> 2, crashes |-> 1],
   [edits |-> {First, Second}, texts |-> {Text}, providers |-> {"terminal"},
    foreign |-> 2, crashes |-> 0]}

Single == bound.edits = {First}
FirstComesFirst == pc'[Second] # "none" => pc'[First] # "none"

MCNext == Next /\ (Single \/ (FirstComesFirst /\ UNCHANGED spared))

(* What is fair to a call does not depend on another edit: a single one is      *)
(* enough to see that calls are answered.                                      *)
MCFairness ==
  /\ WF_vars(Single /\ ObserverLeaves(First))
  /\ WF_vars(Single /\ \E ok \in BOOLEAN : Journal(First, ok) \/ SaveResult(First, ok))
  /\ WF_vars(Single /\ (Prepared(First) \/ PreparationFails(First)))

MCSpec == Init /\ [][MCNext]_vars /\ MCFairness

-----------------------------------------------------------------------------
(* A dispatched edit is answered though its writer hangs for ever.             *)
Waiting == Single /\ Unanswered
EditsAreAnswered == Waiting ~> ~ Waiting
=============================================================================
