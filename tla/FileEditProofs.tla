--------------------------- MODULE FileEditProofs ---------------------------
(***************************************************************************)
(* FileEdit for every number of edits, texts, baselines, foreign writes and  *)
(* crashes: EditInvariant is inductive, and what the run checks follows.     *)
(***************************************************************************)
EXTENDS FileEdit, FiniteSetTheorems, TLAPS

USE TextsAssumption, BaselineAssumption, BoundsAssumption

-----------------------------------------------------------------------------
(* Where the call of an edit is tells what has happened already.              *)
CallsFollowPlan ==
  \A e \in Edits :
    /\ pc[e] = "none" => /\ edit[e] = NoProposal /\ answer[e] = "none"
                        /\ outcome[e] = "unknown" /\ ~spared[e]
    /\ pc[e] \in {"none", "pending", "approved", "journal"} => row[e] = "none"
    /\ pc[e] \in {"prepare", "saving", "captured"} => row[e] = "dispatching"
    /\ pc[e] \in {"none", "pending", "approved", "journal", "prepare"} => worker[e] = "idle"
    /\ pc[e] = "saving" => Terminal(e) \/ worker[e] = "idle"
    /\ pc[e] = "observing" => ~Terminal(e) /\ worker[e] # "idle"
    /\ pc[e] = "captured" => Terminal(e)
    /\ capture[e] # "none" => pc[e] = "captured"
    /\ capture[e] = "kept" => worker[e] = "idle"
    /\ capture[e] = "dispatched" => worker[e] # "idle"

(* A writer has a row, and a native one saves what it came to.                 *)
WritersHaveRows ==
  \A e \in Edits :
    /\ worker[e] # "idle" => row[e] # "none"
    /\ worker[e] = "saving" => ~Terminal(e)
    /\ ~Terminal(e) /\ worker[e] \in {"ready", "staged", "started", "written", "saving"}
         => row[e] = "dispatching"
    /\ ~Terminal(e) /\ worker[e] = "ended" /\ outcome[e] \in Final => row[e] = outcome[e]
    /\ worker[e] \in {"idle", "ready", "staged", "started"} => ~touched[e]

(* A result is of a writer that has come to its end.                          *)
AppliedIsThere ==
  \A e \in Edits : "applied" \in {outcome[e], row[e]} =>
    /\ worker[e] \in {"saving", "ended", "dead"}
    /\ rev[e] \in 1..Now /\ versions[rev[e]] = edit[e].after

FailuresTouchNothing ==
  \A e \in Edits : {outcome[e], row[e]} \cap {"failed", "conflict"} # {} =>
    /\ ~touched[e]
    /\ worker[e] \in {"idle", "saving", "ended", "dead"}
    /\ worker[e] = "idle" => pc[e] \in {"saving", "over"}

(* What was stopped in time has no way left to the file.                       *)
SparedStay ==
  \A e \in Edits :
    /\ ~Terminal(e) /\ worker[e] \in {"ready", "staged"} => pc[e] = "observing" \/ token[e]
    /\ spared[e] =>
         /\ ~touched[e] /\ worker[e] \notin {"started", "written"}
         /\ worker[e] \in {"ready", "staged"} => Stops(e)
         /\ worker[e] = "idle" => \/ pc[e] \in {"saving", "over"}
                                  \/ pc[e] \in {"journal", "prepare"} /\ token[e]

VersionsAreThere ==
  \A e \in Edits : /\ pc[e] # "none" => edit[e].version \in 1..Now
                   /\ touched[e] => base[e] \in 1..Now

LateWritesAreMarked ==
  \A e \in Edits :
    /\ worker[e] = "started" => Unchanged(e) \/ raced[e]
    /\ touched[e] => Same(base[e], edit[e].version) \/ raced[e]

RestoresAreExact ==
  \A e \in Edits : \A d \in edit[e].restores :
    /\ row[d] = "applied" /\ edit[e].after = versions[edit[d].version]
    /\ versions[edit[e].version] = edit[d].after
    /\ versions[edit[e].version] = Missing \/ edit[e].version = rev[d]

EditInvariant ==
  /\ CallsFollowPlan /\ WritersHaveRows /\ AnswersAreDurable /\ AppliedIsThere
  /\ FailuresTouchNothing /\ SparedStay /\ VersionsAreThere /\ LateWritesAreMarked
  /\ RestoresAreExact

(* The file gets one more version, and those it had stay.                     *)
LEMMA Grows ==
  ASSUME TypeOK, NEW c \in Texts \cup {Missing, Torn}, versions' = Append(versions, c)
  PROVE  /\ Now \in Nat /\ Now > 0 /\ Now' = Now + 1
         /\ versions' \in Seq(Texts \cup {Missing, Torn}) /\ versions' # <<>>
         /\ versions'[Now'] = c
         /\ \A n \in 1..Now : n \in 1..Now' /\ n # Now' /\ versions'[n] = versions[n]
<1> DEFINE S == Texts \cup {Missing, Torn}
<1>1. versions \in Seq(S) /\ versions # <<>> /\ Len(versions) \in Nat
  BY DEF TypeOK
<1>2. Len(versions) > 0
  BY <1>1
<1> HIDE DEF S
<1>3. /\ versions' \in Seq(S) /\ Len(versions') = Len(versions) + 1
      /\ versions'[Len(versions) + 1] = c
      /\ \A n \in 1..Len(versions) : versions'[n] = versions[n]
  BY <1>1 DEF S
<1>4. versions' # <<>>
  BY <1>2, <1>3
<1> QED BY <1>1, <1>2, <1>3, <1>4 DEF Now, S

(* There are finitely many baselines: each is a version the file has had.   *)
LEMMA BaselinesAreFinite ==
  ASSUME TypeOK
  PROVE  IsFiniteSet(baselines) /\ Cardinality(baselines) \in Nat /\ Now \in Nat /\ Now > 0
<1>1. Now \in Nat /\ Now > 0
  BY DEF TypeOK, Now
<1>2. IsFiniteSet(1..Now)
  BY <1>1, FS_Interval
<1> QED BY <1>1, <1>2, FS_Subset, FS_CardinalityType DEF TypeOK

(* Baselines are forgotten: the limit on them stays kept.                     *)
LEMMA FewerBaselines ==
  ASSUME TypeOK, NEW S \in SUBSET baselines
  PROVE  S \subseteq 1..Now /\ Cardinality(S) <= MaxBaselines
<1>1. /\ IsFiniteSet(baselines) /\ Cardinality(baselines) \in Nat
      /\ Cardinality(baselines) <= MaxBaselines /\ baselines \subseteq 1..Now
  BY BaselinesAreFinite DEF TypeOK
<1>2. Cardinality(S) <= Cardinality(baselines) /\ Cardinality(S) \in Nat
  BY <1>1, FS_Subset, FS_CardinalityType
<1> QED BY <1>1, <1>2

(* An edit that may be undone, and the one that undoes it, have their versions. *)
LEMMA RestoredAreThere ==
  ASSUME TypeOK, EditInvariant, NEW e \in Edits, NEW d \in edit[e].restores
  PROVE  /\ d \in Edits /\ edit[e].version \in 1..Now /\ edit[d].version \in 1..Now
         /\ rev[d] \in 1..Now /\ pc[e] # "none" /\ row[d] = "applied"
<1>1. d \in Edits
  BY DEF TypeOK, Proposal
<1>2. pc[e] # "none"
  BY DEF EditInvariant, CallsFollowPlan, NoProposal
<1>3. row[d] = "applied" /\ pc[d] # "none"
  BY <1>1 DEF EditInvariant, RestoresAreExact, CallsFollowPlan
<1> QED BY <1>1, <1>2, <1>3 DEF EditInvariant, VersionsAreThere, AppliedIsThere

(* Of what is dropped, S is stopped in time, but for a helper that was being    *)
(* written to the shell.                                                     *)
LEMMA StoppedStay ==
  ASSUME TypeOK, EditInvariant, NEW S \in SUBSET Edits, NEW D \in SUBSET Edits, S \subseteq D,
         Stopped(S), Dropped(D), UNCHANGED <<edit, touched>>,
         \A d \in Edits : worker'[d] = worker[d] \/ (d \notin S /\ capture[d] = "kept")
  PROVE  SparedStay'
<1> SUFFICES ASSUME NEW d \in Edits
             PROVE  /\ ~Terminal(d)' /\ worker'[d] \in {"ready", "staged"}
                         => pc'[d] = "observing" \/ token'[d]
                    /\ spared'[d] =>
                         /\ ~touched'[d] /\ worker'[d] \notin {"started", "written"}
                         /\ worker'[d] \in {"ready", "staged"} => Stops(d)'
                         /\ worker'[d] = "idle" =>
                              \/ pc'[d] \in {"saving", "over"}
                              \/ pc'[d] \in {"journal", "prepare"} /\ token'[d]
  BY DEF SparedStay
<1>1. /\ pc'[d] = IF d \in D /\ pc[d] \in {"pending", "approved", "captured"} THEN "over" ELSE pc[d]
      /\ token'[d] = (token[d] \/ (d \in D /\ InFlight(d)))
      /\ Terminal(d)' = Terminal(d) /\ touched'[d] = touched[d]
      /\ token[d] \in BOOLEAN
  BY DEF Dropped, TypeOK, Terminal
<1>2. capture[d] = "kept" => Terminal(d) /\ ~spared[d]
  BY DEF EditInvariant, CallsFollowPlan, SparedStay, Terminal
<1>3. /\ ~Terminal(d) /\ worker[d] \in {"ready", "staged"} => pc[d] = "observing" \/ token[d]
      /\ spared[d] =>
           /\ ~touched[d] /\ worker[d] \notin {"started", "written"}
           /\ worker[d] \in {"ready", "staged"} => token[d] /\ ~Terminal(d)
           /\ worker[d] = "idle" => \/ pc[d] \in {"saving", "over"}
                                    \/ pc[d] \in {"journal", "prepare"} /\ token[d]
  BY DEF EditInvariant, SparedStay, Stops
<1>4. CASE worker'[d] # worker[d]
  BY <1>1, <1>2, <1>4 DEF Stopped
<1>5. CASE worker'[d] = worker[d] /\ spared[d]
  BY <1>1, <1>3, <1>5 DEF Stops, InFlight
<1>6. CASE worker'[d] = worker[d] /\ ~spared[d]
  <2>1. ~Terminal(d)' /\ worker'[d] \in {"ready", "staged"} => pc'[d] = "observing" \/ token'[d]
    BY <1>1, <1>3, <1>6
  <2>2. ASSUME spared'[d]
        PROVE  /\ d \in D /\ pc[d] # "none"
               /\ worker[d] \in (IF Terminal(d) THEN {"idle"} ELSE {"idle", "ready", "staged"})
    BY <1>6, <2>2 DEF Stopped
  <2>3. /\ worker[d] \in {"idle", "ready", "staged"} => ~touched[d]
        /\ worker[d] = "idle" => pc[d] # "observing"
        /\ pc[d] \in {"none", "pending", "approved", "journal", "prepare", "saving",
                      "observing", "captured", "over"}
    BY DEF EditInvariant, WritersHaveRows, CallsFollowPlan, TypeOK
  <2> QED BY <1>1, <1>3, <1>6, <2>1, <2>2, <2>3 DEF Stops, InFlight
<1> QED BY <1>4, <1>5, <1>6

(* A call returns.                                                            *)
LEMMA Returned ==
  ASSUME TypeOK, NEW e \in Edits, NEW what \in Outcomes \cup {"plan", "error"}, Return(e, what)
  PROVE  /\ pc' = [pc EXCEPT ![e] = IF what = "plan" THEN "captured" ELSE "over"]
         /\ pc' \in [Edits -> {"none", "pending", "approved", "journal", "prepare", "saving",
                               "observing", "captured", "over"}]
         /\ answer' = [answer EXCEPT ![e] = what]
         /\ answer' \in [Edits -> Outcomes \cup {"none", "plan", "error"}]
         /\ token' = [token EXCEPT ![e] = TRUE] /\ token' \in [Edits -> BOOLEAN]
BY DEF TypeOK, Return

(* A row without a result is overwritten.                                     *)
LEMMA SavedOnce ==
  ASSUME TypeOK, NEW e \in Edits, NEW status \in Outcomes \cup {"dispatching"},
         row[e] \in {"none", "dispatching"}, Saved(e, status)
  PROVE  /\ row' = [row EXCEPT ![e] = status]
         /\ row' \in [Edits -> Outcomes \cup {"none", "dispatching"}]
BY DEF TypeOK, Saved, Final

(* A write by another program keeps what is known of the earlier versions,  *)
(* and marks the writers whose last check it comes after.                   *)
LEMMA ForeignStep ==
  ASSUME TypeOK, EditInvariant, NEW c \in Texts \cup {Missing}, ForeignWrite(c)
  PROVE  TypeOK' /\ EditInvariant'
<1> USE DEF ForeignWrite, Overtaken, environment, proposal, call, result, ghosts
<1>1. /\ Now \in Nat /\ Now > 0 /\ Now' = Now + 1
      /\ versions' \in Seq(Texts \cup {Missing, Torn}) /\ versions' # <<>>
      /\ versions'[Now'] = c
      /\ \A n \in 1..Now : n \in 1..Now' /\ n # Now' /\ versions'[n] = versions[n]
  BY Grows
<1>2. TypeOK'
  <2>1. foreign' \in 0..bound.foreign
    BY DEF TypeOK, Bound
  <2>2. raced' \in [Edits -> BOOLEAN]
    BY DEF TypeOK
  <2> QED BY <1>1, <2>1, <2>2 DEF TypeOK
<1>3. CallsFollowPlan'
  BY DEF TypeOK, EditInvariant, CallsFollowPlan, Terminal
<1>4. WritersHaveRows'
  BY DEF TypeOK, EditInvariant, CallsFollowPlan, WritersHaveRows, Terminal, Final
<1>5. AnswersAreDurable'
  BY DEF TypeOK, EditInvariant, CallsFollowPlan, WritersHaveRows, AnswersAreDurable, Final
<1>6. AppliedIsThere'
  BY DEF TypeOK, EditInvariant, CallsFollowPlan, AppliedIsThere, Now
<1>7. FailuresTouchNothing'
  BY DEF TypeOK, EditInvariant, CallsFollowPlan, WritersHaveRows, FailuresTouchNothing
<1>8. SparedStay'
  BY DEF TypeOK, EditInvariant, CallsFollowPlan, SparedStay, Terminal, Stops
<1>9. VersionsAreThere'
  BY DEF TypeOK, EditInvariant, VersionsAreThere, Now
<1>10. LateWritesAreMarked'
  <2>1. ASSUME NEW d \in Edits, touched[d] \/ worker[d] = "started"
        PROVE  edit[d].version \in 1..Now /\ (touched[d] => base[d] \in 1..Now)
    BY <2>1 DEF EditInvariant, CallsFollowPlan, WritersHaveRows, VersionsAreThere
  <2> QED BY <1>1, <2>1 DEF TypeOK, EditInvariant, LateWritesAreMarked, Same, Unchanged
<1>11. RestoresAreExact'
  BY <1>1, RestoredAreThere, ZenonT(40) DEF EditInvariant, RestoresAreExact
<1> QED BY <1>2, <1>3, <1>4, <1>5, <1>6, <1>7, <1>8, <1>9, <1>10, <1>11 DEF EditInvariant

(* A baseline is added only while there is room.                            *)
LEMMA ReadStep ==
  ASSUME TypeOK, EditInvariant, ReadFile
  PROVE  TypeOK' /\ EditInvariant'
<1> USE DEF ReadFile, environment, proposal, call, result, ghosts
<1>1. TypeOK'
  <2>1. /\ IsFiniteSet(baselines) /\ Cardinality(baselines) \in Nat /\ Now \in 1..Now
        /\ baselines \subseteq 1..Now
    BY BaselinesAreFinite DEF TypeOK
  <2>2. Cardinality(baselines \cup {Now}) \in {Cardinality(baselines), Cardinality(baselines) + 1}
    BY <2>1, FS_AddElement
  <2>3. Cardinality(baselines \cup {Now}) <= MaxBaselines
    BY <2>1, <2>2
  <2> QED BY <2>1, <2>3 DEF TypeOK, Now
<1>2. CallsFollowPlan'
  BY DEF TypeOK, EditInvariant, CallsFollowPlan, Terminal
<1>3. WritersHaveRows'
  BY DEF TypeOK, EditInvariant, CallsFollowPlan, WritersHaveRows, Terminal, Final
<1>4. AnswersAreDurable'
  BY DEF TypeOK, EditInvariant, CallsFollowPlan, WritersHaveRows, AnswersAreDurable, Final
<1>5. AppliedIsThere'
  BY DEF TypeOK, EditInvariant, CallsFollowPlan, AppliedIsThere, Now
<1>6. FailuresTouchNothing'
  BY DEF TypeOK, EditInvariant, CallsFollowPlan, WritersHaveRows, FailuresTouchNothing
<1>7. SparedStay'
  BY DEF TypeOK, EditInvariant, CallsFollowPlan, SparedStay, Terminal, Stops
<1>8. VersionsAreThere'
  BY DEF TypeOK, EditInvariant, VersionsAreThere, Now
<1>9. LateWritesAreMarked'
  BY DEF TypeOK, EditInvariant, LateWritesAreMarked, Same, Unchanged, Now
<1>10. RestoresAreExact'
  BY DEF TypeOK, EditInvariant, RestoresAreExact, Final
<1> QED BY <1>1, <1>2, <1>3, <1>4, <1>5, <1>6, <1>7, <1>8, <1>9, <1>10 DEF EditInvariant

(* A baseline that is dropped takes no proposal with it.                    *)
LEMMA ForgetStep ==
  ASSUME TypeOK, EditInvariant, NEW n \in baselines, ForgetBaseline(n)
  PROVE  TypeOK' /\ EditInvariant'
<1> USE DEF ForgetBaseline, environment, proposal, call, result, ghosts
<1>1. TypeOK'
  <2>1. baselines' \subseteq 1..Now /\ Cardinality(baselines') <= MaxBaselines
    BY FewerBaselines
  <2> QED BY <2>1 DEF TypeOK, Now
<1>2. CallsFollowPlan'
  BY DEF TypeOK, EditInvariant, CallsFollowPlan, Terminal
<1>3. WritersHaveRows'
  BY DEF TypeOK, EditInvariant, CallsFollowPlan, WritersHaveRows, Terminal, Final
<1>4. AnswersAreDurable'
  BY DEF TypeOK, EditInvariant, CallsFollowPlan, WritersHaveRows, AnswersAreDurable, Final
<1>5. AppliedIsThere'
  BY DEF TypeOK, EditInvariant, CallsFollowPlan, AppliedIsThere, Now
<1>6. FailuresTouchNothing'
  BY DEF TypeOK, EditInvariant, CallsFollowPlan, WritersHaveRows, FailuresTouchNothing
<1>7. SparedStay'
  BY DEF TypeOK, EditInvariant, CallsFollowPlan, SparedStay, Terminal, Stops
<1>8. VersionsAreThere'
  BY DEF TypeOK, EditInvariant, VersionsAreThere, Now
<1>9. LateWritesAreMarked'
  BY DEF TypeOK, EditInvariant, LateWritesAreMarked, Same, Unchanged, Now
<1>10. RestoresAreExact'
  BY DEF TypeOK, EditInvariant, RestoresAreExact, Final
<1> QED BY <1>1, <1>2, <1>3, <1>4, <1>5, <1>6, <1>7, <1>8, <1>9, <1>10 DEF EditInvariant

(* A target that moves drops what waits and cancels what is in flight.      *)
LEMMA MovesStep ==
  ASSUME TypeOK, EditInvariant, TargetMoves
  PROVE  TypeOK' /\ EditInvariant'
<1> USE DEF TargetMoves, Dropped, Stopped, InFlight, environment, proposal, call, result, ghosts
<1>1. TypeOK'
  <2>1. baselines' \subseteq 1..Now /\ Cardinality(baselines') <= MaxBaselines
    BY FewerBaselines
  <2>2. pc' \in [Edits -> {"none", "pending", "approved", "journal", "prepare", "saving",
                          "observing", "captured", "over"}]
    BY DEF TypeOK
  <2>3. token' \in [Edits -> BOOLEAN] /\ moved' \in [Edits -> BOOLEAN]
    BY DEF TypeOK
  <2>4. capture' \in [Edits -> {"none", "kept", "dispatched"}]
    BY DEF TypeOK
  <2>5. worker' \in [Edits -> {"idle", "ready", "staged", "started", "written", "saving",
                              "ended", "dead"}]
    BY DEF TypeOK
  <2>6. spared' \in [Edits -> BOOLEAN]
    BY DEF TypeOK
  <2>7. crashes' \in 0..bound.crashes
    BY DEF TypeOK, Bound
  <2> QED BY <2>1, <2>2, <2>3, <2>4, <2>5, <2>6, <2>7 DEF TypeOK, Now
<1>2. CallsFollowPlan'
  BY DEF TypeOK, EditInvariant, CallsFollowPlan, Terminal
<1>3. WritersHaveRows'
  BY DEF TypeOK, EditInvariant, CallsFollowPlan, WritersHaveRows, Terminal, Final
<1>4. AnswersAreDurable'
  BY DEF TypeOK, EditInvariant, CallsFollowPlan, WritersHaveRows, AnswersAreDurable, Final
<1>5. AppliedIsThere'
  BY DEF TypeOK, EditInvariant, CallsFollowPlan, AppliedIsThere, Now
<1>6. FailuresTouchNothing'
  BY DEF TypeOK, EditInvariant, CallsFollowPlan, WritersHaveRows, FailuresTouchNothing
<1>7. SparedStay'
  BY StoppedStay
<1>8. VersionsAreThere'
  BY DEF TypeOK, EditInvariant, VersionsAreThere, Now
<1>9. LateWritesAreMarked'
  BY DEF TypeOK, EditInvariant, LateWritesAreMarked, Same, Unchanged, Now
<1>10. RestoresAreExact'
  BY DEF TypeOK, EditInvariant, RestoresAreExact, Final
<1> QED BY <1>1, <1>2, <1>3, <1>4, <1>5, <1>6, <1>7, <1>8, <1>9, <1>10 DEF EditInvariant

(* A crash ends the calls and the native writers where they are; rows, the  *)
(* file and helpers in the shell stay.                                      *)
LEMMA CrashesStep ==
  ASSUME TypeOK, EditInvariant, Crash
  PROVE  TypeOK' /\ EditInvariant'
<1> USE DEF Crash, environment, proposal, call, result, ghosts
<1>1. TypeOK'
  <2>1. baselines' \subseteq 1..Now /\ Cardinality(baselines') <= MaxBaselines
    BY FewerBaselines
  <2>2. pc' \in [Edits -> {"none", "pending", "approved", "journal", "prepare", "saving",
                          "observing", "captured", "over"}]
    BY DEF TypeOK
  <2>3. token' \in [Edits -> BOOLEAN] /\ moved' \in [Edits -> BOOLEAN]
    BY DEF TypeOK
  <2>4. capture' \in [Edits -> {"none", "kept", "dispatched"}]
    BY DEF TypeOK
  <2>5. worker' \in [Edits -> {"idle", "ready", "staged", "started", "written", "saving",
                              "ended", "dead"}]
    BY DEF TypeOK
  <2>6. spared' \in [Edits -> BOOLEAN]
    BY DEF TypeOK
  <2>7. crashes' \in 0..bound.crashes
    BY DEF TypeOK, Bound
  <2> QED BY <2>1, <2>2, <2>3, <2>4, <2>5, <2>6, <2>7 DEF TypeOK, Now
<1>2. CallsFollowPlan'
  BY DEF TypeOK, EditInvariant, CallsFollowPlan, Terminal
<1>3. WritersHaveRows'
  BY DEF TypeOK, EditInvariant, CallsFollowPlan, WritersHaveRows, Terminal, Final
<1>4. AnswersAreDurable'
  BY DEF TypeOK, EditInvariant, CallsFollowPlan, WritersHaveRows, AnswersAreDurable, Final
<1>5. AppliedIsThere'
  BY DEF TypeOK, EditInvariant, CallsFollowPlan, AppliedIsThere, Now
<1>6. FailuresTouchNothing'
  BY DEF TypeOK, EditInvariant, CallsFollowPlan, WritersHaveRows, FailuresTouchNothing
<1>7. SparedStay'
  BY DEF TypeOK, EditInvariant, CallsFollowPlan, SparedStay, Terminal, Stops
<1>8. VersionsAreThere'
  BY DEF TypeOK, EditInvariant, VersionsAreThere, Now
<1>9. LateWritesAreMarked'
  BY DEF TypeOK, EditInvariant, LateWritesAreMarked, Same, Unchanged, Now
<1>10. RestoresAreExact'
  BY DEF TypeOK, EditInvariant, RestoresAreExact, Final
<1> QED BY <1>1, <1>2, <1>3, <1>4, <1>5, <1>6, <1>7, <1>8, <1>9, <1>10 DEF EditInvariant

(* A proposal is made of a version that was read; one that restores an      *)
(* edit, of exactly what that edit left.                                    *)
LEMMA InsertsStep ==
  ASSUME TypeOK, EditInvariant, NEW e \in Edits, NEW n \in baselines, NEW after \in Texts \cup {Missing, Torn}, NEW R \in SUBSET Edits,
         \A d \in R : Restorable(d, n) /\ after = versions[edit[d].version],
         Insert(e, n, after, R)
  PROVE  TypeOK' /\ EditInvariant'
<1> USE DEF Insert, Restorable, environment, proposal, call, result, ghosts
<1>1. PICK p \in bound.providers :
        edit' = [edit EXCEPT ![e] = [version |-> n, after |-> after, provider |-> p,
                                     restores |-> R]]
  OBVIOUS
<1>2. /\ pc[e] = "none" /\ n \in 1..Now /\ p \in Providers /\ after \in Texts \cup {Missing}
      /\ row[e] = "none" /\ worker[e] = "idle" /\ ~touched[e]
  BY DEF TypeOK, EditInvariant, CallsFollowPlan, WritersHaveRows, Bound
<1>3. /\ edit'[e] = [version |-> n, after |-> after, provider |-> p, restores |-> R]
      /\ \A d \in Edits \ {e} : edit'[d] = edit[d]
  BY <1>1 DEF TypeOK
<1>4. TypeOK'
  <2>1. [version |-> n, after |-> after, provider |-> p, restores |-> R] \in Proposal
    BY <1>2 DEF Proposal, TypeOK
  <2>2. edit' \in [Edits -> Proposal]
    BY <1>1, <2>1 DEF TypeOK
  <2> QED BY <2>2 DEF TypeOK, Now
<1>5. CallsFollowPlan'
  BY DEF TypeOK, EditInvariant, CallsFollowPlan, Terminal
<1>6. WritersHaveRows'
  BY DEF TypeOK, EditInvariant, CallsFollowPlan, WritersHaveRows, Terminal, Final
<1>7. AnswersAreDurable'
  BY DEF TypeOK, EditInvariant, CallsFollowPlan, WritersHaveRows, AnswersAreDurable, Final
<1>8. AppliedIsThere'
  BY DEF TypeOK, EditInvariant, CallsFollowPlan, AppliedIsThere, Now
<1>9. FailuresTouchNothing'
  BY DEF TypeOK, EditInvariant, CallsFollowPlan, WritersHaveRows, FailuresTouchNothing
<1>10. SparedStay'
  BY DEF TypeOK, EditInvariant, CallsFollowPlan, SparedStay, Terminal, Stops
<1>11. VersionsAreThere'
  BY DEF TypeOK, EditInvariant, VersionsAreThere, Now
<1>12. LateWritesAreMarked'
  BY <1>2, <1>3 DEF EditInvariant, LateWritesAreMarked, Same, Unchanged, Now
<1>13. RestoresAreExact'
  BY <1>2, <1>3, RestoredAreThere DEF EditInvariant, RestoresAreExact, Restorable
<1> QED BY <1>4, <1>5, <1>6, <1>7, <1>8, <1>9, <1>10, <1>11, <1>12, <1>13 DEF EditInvariant

(* An approval changes only where the proposal is.                          *)
LEMMA ApproveStep ==
  ASSUME TypeOK, EditInvariant, NEW e \in Edits, Approve(e)
  PROVE  TypeOK' /\ EditInvariant'
<1> USE DEF Approve, environment, proposal, call, result, ghosts
<1>1. TypeOK'
  BY DEF TypeOK, Now, Final, Outcomes
<1>2. CallsFollowPlan'
  BY DEF TypeOK, EditInvariant, CallsFollowPlan, Terminal
<1>3. WritersHaveRows'
  BY DEF TypeOK, EditInvariant, CallsFollowPlan, WritersHaveRows, Terminal, Final
<1>4. AnswersAreDurable'
  BY DEF TypeOK, EditInvariant, CallsFollowPlan, WritersHaveRows, AnswersAreDurable, Final
<1>5. AppliedIsThere'
  BY DEF TypeOK, EditInvariant, CallsFollowPlan, AppliedIsThere, Now
<1>6. FailuresTouchNothing'
  BY DEF TypeOK, EditInvariant, CallsFollowPlan, WritersHaveRows, FailuresTouchNothing
<1>7. SparedStay'
  BY DEF TypeOK, EditInvariant, CallsFollowPlan, SparedStay, Terminal, Stops
<1>8. VersionsAreThere'
  BY DEF TypeOK, EditInvariant, VersionsAreThere, Now
<1>9. LateWritesAreMarked'
  BY DEF TypeOK, EditInvariant, LateWritesAreMarked, Same, Unchanged, Now
<1>10. RestoresAreExact'
  BY DEF TypeOK, EditInvariant, RestoresAreExact, Final
<1> QED BY <1>1, <1>2, <1>3, <1>4, <1>5, <1>6, <1>7, <1>8, <1>9, <1>10 DEF EditInvariant

(* A proposal that expires had nothing on record.                           *)
LEMMA ExpireStep ==
  ASSUME TypeOK, EditInvariant, NEW e \in Edits, Expire(e)
  PROVE  TypeOK' /\ EditInvariant'
<1> USE DEF Expire, environment, proposal, call, result, ghosts
<1>1. TypeOK'
  BY DEF TypeOK, Now, Final, Outcomes
<1>2. CallsFollowPlan'
  BY DEF TypeOK, EditInvariant, CallsFollowPlan, Terminal
<1>3. WritersHaveRows'
  BY DEF TypeOK, EditInvariant, CallsFollowPlan, WritersHaveRows, Terminal, Final
<1>4. AnswersAreDurable'
  BY DEF TypeOK, EditInvariant, CallsFollowPlan, WritersHaveRows, AnswersAreDurable, Final
<1>5. AppliedIsThere'
  BY DEF TypeOK, EditInvariant, CallsFollowPlan, AppliedIsThere, Now
<1>6. FailuresTouchNothing'
  BY DEF TypeOK, EditInvariant, CallsFollowPlan, WritersHaveRows, FailuresTouchNothing
<1>7. SparedStay'
  BY DEF TypeOK, EditInvariant, CallsFollowPlan, SparedStay, Terminal, Stops
<1>8. VersionsAreThere'
  BY DEF TypeOK, EditInvariant, VersionsAreThere, Now
<1>9. LateWritesAreMarked'
  BY DEF TypeOK, EditInvariant, LateWritesAreMarked, Same, Unchanged, Now
<1>10. RestoresAreExact'
  BY DEF TypeOK, EditInvariant, RestoresAreExact, Final
<1> QED BY <1>1, <1>2, <1>3, <1>4, <1>5, <1>6, <1>7, <1>8, <1>9, <1>10 DEF EditInvariant

(* A cancelled edit that has not started has no way left to the file.       *)
LEMMA CancelStep ==
  ASSUME TypeOK, EditInvariant, NEW e \in Edits, Cancel(e)
  PROVE  TypeOK' /\ EditInvariant'
<1> USE DEF Cancel, Dropped, Stopped, InFlight, environment, proposal, call, result, ghosts
<1>1. TypeOK'
  BY DEF TypeOK, Now, Final, Outcomes
<1>2. CallsFollowPlan'
  BY DEF TypeOK, EditInvariant, CallsFollowPlan, Terminal
<1>3. WritersHaveRows'
  BY DEF TypeOK, EditInvariant, CallsFollowPlan, WritersHaveRows, Terminal, Final
<1>4. AnswersAreDurable'
  BY DEF TypeOK, EditInvariant, CallsFollowPlan, WritersHaveRows, AnswersAreDurable, Final
<1>5. AppliedIsThere'
  BY DEF TypeOK, EditInvariant, CallsFollowPlan, AppliedIsThere, Now
<1>6. FailuresTouchNothing'
  BY DEF TypeOK, EditInvariant, CallsFollowPlan, WritersHaveRows, FailuresTouchNothing
<1>7. SparedStay'
  <2>1. {e} \in SUBSET Edits /\ Stopped({e}) /\ Dropped({e}) /\ UNCHANGED <<edit, worker, touched>>
    OBVIOUS
  <2> QED BY <2>1, StoppedStay
<1>8. VersionsAreThere'
  BY DEF TypeOK, EditInvariant, VersionsAreThere, Now
<1>9. LateWritesAreMarked'
  BY DEF TypeOK, EditInvariant, LateWritesAreMarked, Same, Unchanged, Now
<1>10. RestoresAreExact'
  BY DEF TypeOK, EditInvariant, RestoresAreExact, Final
<1> QED BY <1>1, <1>2, <1>3, <1>4, <1>5, <1>6, <1>7, <1>8, <1>9, <1>10 DEF EditInvariant

(* A proposal that is consumed still has nothing on record.                 *)
LEMMA DispatchStep ==
  ASSUME TypeOK, EditInvariant, NEW e \in Edits, Dispatch(e)
  PROVE  TypeOK' /\ EditInvariant'
<1> USE DEF Dispatch, environment, proposal, call, result, ghosts
<1>1. TypeOK'
  BY DEF TypeOK, Now, Final, Outcomes
<1>2. CallsFollowPlan'
  BY DEF TypeOK, EditInvariant, CallsFollowPlan, Terminal
<1>3. WritersHaveRows'
  BY DEF TypeOK, EditInvariant, CallsFollowPlan, WritersHaveRows, Terminal, Final
<1>4. AnswersAreDurable'
  BY DEF TypeOK, EditInvariant, CallsFollowPlan, WritersHaveRows, AnswersAreDurable, Final
<1>5. AppliedIsThere'
  BY DEF TypeOK, EditInvariant, CallsFollowPlan, AppliedIsThere, Now
<1>6. FailuresTouchNothing'
  BY DEF TypeOK, EditInvariant, CallsFollowPlan, WritersHaveRows, FailuresTouchNothing
<1>7. SparedStay'
  BY DEF TypeOK, EditInvariant, CallsFollowPlan, SparedStay, Terminal, Stops
<1>8. VersionsAreThere'
  BY DEF TypeOK, EditInvariant, VersionsAreThere, Now
<1>9. LateWritesAreMarked'
  BY DEF TypeOK, EditInvariant, LateWritesAreMarked, Same, Unchanged, Now
<1>10. RestoresAreExact'
  BY DEF TypeOK, EditInvariant, RestoresAreExact, Final
<1> QED BY <1>1, <1>2, <1>3, <1>4, <1>5, <1>6, <1>7, <1>8, <1>9, <1>10 DEF EditInvariant

(* Only a call that has its row, and was not stopped, sets a writer going.  *)
LEMMA PreparedStep ==
  ASSUME TypeOK, EditInvariant, NEW e \in Edits, Prepared(e)
  PROVE  TypeOK' /\ EditInvariant'
<1> USE DEF Prepared, Return, environment, proposal, call, result, ghosts
<1>1. /\ row[e] = "dispatching" /\ answer[e] \notin Final
      /\ Terminal(e) => Return(e, "plan")
  BY DEF EditInvariant, CallsFollowPlan, AnswersAreDurable, Final
<1>2. worker[e] = "idle" /\ ~touched[e] /\ ~spared[e]
  BY DEF EditInvariant, CallsFollowPlan, WritersHaveRows, SparedStay
<1>3. TypeOK'
  <2>1. CASE Terminal(e)
    <3>1. "plan" \in Outcomes \cup {"plan", "error"}
      OBVIOUS
    <3>2. /\ pc' \in [Edits -> {"none", "pending", "approved", "journal", "prepare", "saving",
                                "observing", "captured", "over"}]
          /\ answer' \in [Edits -> Outcomes \cup {"none", "plan", "error"}]
          /\ token' \in [Edits -> BOOLEAN]
      BY <1>1, <2>1, <3>1, Returned
    <3>3. capture' \in [Edits -> {"none", "kept", "dispatched"}] /\ UNCHANGED worker
      BY <2>1 DEF TypeOK
    <3> QED BY <3>2, <3>3 DEF TypeOK, Now
  <2>2. CASE ~Terminal(e)
    BY <2>2, ZenonT(60) DEF TypeOK, Now
  <2> QED BY <2>1, <2>2
<1>4. CallsFollowPlan'
  BY DEF TypeOK, EditInvariant, CallsFollowPlan, Terminal
<1>5. WritersHaveRows'
  BY DEF TypeOK, EditInvariant, CallsFollowPlan, WritersHaveRows, Terminal, Final
<1>6. AnswersAreDurable'
  BY <1>1 DEF TypeOK, EditInvariant, AnswersAreDurable, Final
<1>7. AppliedIsThere'
  BY DEF TypeOK, EditInvariant, CallsFollowPlan, AppliedIsThere, Now
<1>8. FailuresTouchNothing'
  BY DEF TypeOK, EditInvariant, CallsFollowPlan, WritersHaveRows, FailuresTouchNothing
<1>9. SparedStay'
  BY <1>2 DEF TypeOK, EditInvariant, SparedStay, Terminal, Stops
<1>10. VersionsAreThere'
  BY DEF TypeOK, EditInvariant, VersionsAreThere, Now
<1>11. LateWritesAreMarked'
  BY DEF TypeOK, EditInvariant, LateWritesAreMarked, Same, Unchanged, Now
<1>12. RestoresAreExact'
  BY DEF TypeOK, EditInvariant, RestoresAreExact, Final
<1> QED BY <1>3, <1>4, <1>5, <1>6, <1>7, <1>8, <1>9, <1>10, <1>11, <1>12 DEF EditInvariant

(* A failed preparation has touched nothing, and no writer will.            *)
LEMMA PreparationFailsStep ==
  ASSUME TypeOK, EditInvariant, NEW e \in Edits, PreparationFails(e)
  PROVE  TypeOK' /\ EditInvariant'
<1> USE DEF PreparationFails, environment, proposal, call, result, ghosts
<1>1. TypeOK'
  BY DEF TypeOK, Now, Final, Outcomes
<1>2. CallsFollowPlan'
  BY DEF TypeOK, EditInvariant, CallsFollowPlan, Terminal
<1>3. WritersHaveRows'
  BY DEF TypeOK, EditInvariant, CallsFollowPlan, WritersHaveRows, Terminal, Final
<1>4. AnswersAreDurable'
  BY DEF TypeOK, EditInvariant, CallsFollowPlan, WritersHaveRows, AnswersAreDurable, Final
<1>5. AppliedIsThere'
  BY DEF TypeOK, EditInvariant, CallsFollowPlan, AppliedIsThere, Now
<1>6. FailuresTouchNothing'
  BY DEF TypeOK, EditInvariant, CallsFollowPlan, WritersHaveRows, FailuresTouchNothing
<1>7. SparedStay'
  BY DEF TypeOK, EditInvariant, CallsFollowPlan, SparedStay, Terminal, Stops
<1>8. VersionsAreThere'
  BY DEF TypeOK, EditInvariant, VersionsAreThere, Now
<1>9. LateWritesAreMarked'
  BY DEF TypeOK, EditInvariant, LateWritesAreMarked, Same, Unchanged, Now
<1>10. RestoresAreExact'
  BY DEF TypeOK, EditInvariant, RestoresAreExact, Final
<1> QED BY <1>1, <1>2, <1>3, <1>4, <1>5, <1>6, <1>7, <1>8, <1>9, <1>10 DEF EditInvariant

(* The row comes first, or the call ends.                                   *)
LEMMA JournalStep ==
  ASSUME TypeOK, EditInvariant, NEW e \in Edits, NEW ok \in BOOLEAN, Journal(e, ok)
  PROVE  TypeOK' /\ EditInvariant'
<1> USE DEF Journal, Saved, Return, environment, proposal, call, result, ghosts
<1>1. /\ row[e] = "none" /\ worker[e] = "idle" /\ ~touched[e]
      /\ ok => row' = [row EXCEPT ![e] = "dispatching"]
  BY SavedOnce DEF EditInvariant, CallsFollowPlan, WritersHaveRows
<1>2. spared[e] => token[e]
  BY <1>1 DEF EditInvariant, SparedStay
<1>3. TypeOK'
  <2>1. CASE ok
    BY <1>1, <2>1, ZenonT(40) DEF TypeOK, Now
  <2>2. CASE ~ok
    BY <2>2, Returned DEF TypeOK, Now
  <2> QED BY <2>1, <2>2
<1>4. CallsFollowPlan'
  <2>1. CASE ok
    BY <1>1, <2>1 DEF TypeOK, EditInvariant, CallsFollowPlan, Terminal
  <2>2. CASE ~ok
    BY <1>1, <2>2 DEF TypeOK, EditInvariant, CallsFollowPlan, Terminal
  <2> QED BY <2>1, <2>2
<1>5. WritersHaveRows'
  BY DEF TypeOK, EditInvariant, CallsFollowPlan, WritersHaveRows, Terminal, Final
<1>6. AnswersAreDurable'
  BY DEF TypeOK, EditInvariant, CallsFollowPlan, WritersHaveRows, AnswersAreDurable, Final
<1>7. AppliedIsThere'
  BY DEF TypeOK, EditInvariant, CallsFollowPlan, AppliedIsThere, Now
<1>8. FailuresTouchNothing'
  BY DEF TypeOK, EditInvariant, CallsFollowPlan, WritersHaveRows, FailuresTouchNothing
<1>9. SparedStay'
  <2>1. /\ pc'[e] \in {"prepare", "over"} /\ (pc'[e] = "prepare" => token'[e] = token[e])
        /\ \A d \in Edits : token[d] => token'[d]
        /\ \A d \in Edits \ {e} : pc'[d] = pc[d]
    <3>1. CASE ok
      BY <3>1 DEF TypeOK
    <3>2. CASE ~ok
      <4>1. /\ pc' = [pc EXCEPT ![e] = "over"] /\ token' = [token EXCEPT ![e] = TRUE]
        BY <3>2
      <4> QED BY <4>1 DEF TypeOK
    <3> QED BY <3>1, <3>2
  <2> QED BY <1>1, <1>2, <2>1 DEF EditInvariant, SparedStay, Terminal, Stops
<1>10. VersionsAreThere'
  BY DEF TypeOK, EditInvariant, VersionsAreThere, Now
<1>11. LateWritesAreMarked'
  BY DEF TypeOK, EditInvariant, LateWritesAreMarked, Same, Unchanged, Now
<1>12. RestoresAreExact'
  BY DEF TypeOK, EditInvariant, RestoresAreExact, Final, Proposal
<1> QED BY <1>3, <1>4, <1>5, <1>6, <1>7, <1>8, <1>9, <1>10, <1>11, <1>12 DEF EditInvariant

(* The call saves and returns the same result, or returns an error.         *)
LEMMA SaveResultStep ==
  ASSUME TypeOK, EditInvariant, NEW e \in Edits, NEW ok \in BOOLEAN, SaveResult(e, ok)
  PROVE  TypeOK' /\ EditInvariant'
<1>1. UNCHANGED <<environment, proposal, moved, capture, worker, result, ghosts>>
  BY DEF SaveResult
<1>2. /\ row[e] = "dispatching" /\ capture[e] = "none" /\ outcome[e] \in Outcomes
      /\ Terminal(e) \/ worker[e] = "idle"
      /\ pc[e] = "saving"
  BY DEF SaveResult, EditInvariant, CallsFollowPlan, TypeOK
<1>3. PICK what \in Outcomes \cup {"error"} :
        /\ Return(e, what)
        /\ \/ what = outcome[e] /\ row' = [row EXCEPT ![e] = what]
           \/ what = "error" /\ UNCHANGED row
  BY <1>2, SavedOnce DEF SaveResult
<1>4. TypeOK'
  <2>1. what # "plan" /\ row' \in [Edits -> Outcomes \cup {"none", "dispatching"}]
    BY <1>3, ZenonT(60) DEF TypeOK, Outcomes, Final
  <2> QED BY <1>3, <1>1, <2>1, Returned DEF TypeOK, Now, environment, proposal, result, ghosts
<1>5. /\ pc'[e] = "over" /\ \A d \in Edits \ {e} : pc'[d] = pc[d]
      /\ token'[e] /\ \A d \in Edits \ {e} : token'[d] = token[d]
      /\ \A d \in Edits \ {e} : answer'[d] = answer[d] /\ row'[d] = row[d]
      /\ \/ answer'[e] = outcome[e] /\ row'[e] = outcome[e]
         \/ answer'[e] = "error" /\ row'[e] = "dispatching"
  BY <1>2, <1>3 DEF Return, TypeOK, Outcomes, Final
<1>6. UNCHANGED <<versions, edit, capture, worker, outcome, rev, touched, base, raced, spared>>
  BY <1>1 DEF environment, proposal, result, ghosts
<1>7. CallsFollowPlan'
  BY <1>2, <1>5, <1>6 DEF TypeOK, EditInvariant, CallsFollowPlan, Terminal
<1>8. WritersHaveRows'
  BY <1>2, <1>5, <1>6 DEF EditInvariant, WritersHaveRows, Terminal, Final, Outcomes
<1>9. AnswersAreDurable'
  BY <1>2, <1>5, <1>6 DEF EditInvariant, AnswersAreDurable, Final
<1>10. AppliedIsThere'
  BY <1>2, <1>5, <1>6 DEF TypeOK, EditInvariant, CallsFollowPlan, AppliedIsThere, Now
<1>11. FailuresTouchNothing'
  BY <1>2, <1>5, <1>6 DEF TypeOK, EditInvariant, CallsFollowPlan, WritersHaveRows,
     FailuresTouchNothing
<1>12. SparedStay'
  BY <1>2, <1>5, <1>6 DEF EditInvariant, SparedStay, Terminal, Stops
<1>13. VersionsAreThere'
  BY <1>2, <1>5, <1>6 DEF TypeOK, EditInvariant, VersionsAreThere, Now
<1>14. LateWritesAreMarked'
  BY <1>2, <1>5, <1>6 DEF TypeOK, EditInvariant, LateWritesAreMarked, Same, Unchanged, Now
<1>15. RestoresAreExact'
  BY <1>2, <1>5, <1>6 DEF TypeOK, EditInvariant, RestoresAreExact, Final, Proposal
<1> QED BY <1>4, <1>7, <1>8, <1>9, <1>10, <1>11, <1>12, <1>13, <1>14, <1>15 DEF EditInvariant

(* A native writer saves its result, or leaves it unknown.                  *)
LEMMA WorkerSavesStep ==
  ASSUME TypeOK, EditInvariant, NEW e \in Edits, NEW ok \in BOOLEAN, WorkerSaves(e, ok)
  PROVE  TypeOK' /\ EditInvariant'
<1>1. UNCHANGED <<environment, proposal, call, rev, ghosts>>
  BY DEF WorkerSaves
<1>2. /\ worker[e] = "saving" /\ ~Terminal(e) /\ row[e] = "dispatching"
      /\ pc[e] \in {"observing", "over"} /\ capture[e] = "none" /\ outcome[e] \in Outcomes
      /\ worker' = [worker EXCEPT ![e] = "ended"]
  BY DEF WorkerSaves, EditInvariant, CallsFollowPlan, WritersHaveRows, TypeOK
<1>3. /\ row' = [row EXCEPT ![e] = row'[e]] /\ outcome' = [outcome EXCEPT ![e] = outcome'[e]]
      /\ \/ row'[e] = outcome[e] /\ outcome'[e] = outcome[e]
         \/ row'[e] = "dispatching" /\ outcome'[e] = "unknown"
  <2>1. CASE ok
    BY <1>2, <2>1, SavedOnce DEF WorkerSaves, TypeOK
  <2>2. CASE ~ok
    BY <1>2, <2>2 DEF WorkerSaves, TypeOK
  <2> QED BY <2>1, <2>2
<1>4. TypeOK'
  <2>1. row'[e] \in Outcomes \cup {"none", "dispatching"} /\ outcome'[e] \in Outcomes
    BY <1>2, <1>3 DEF Outcomes
  <2>2. /\ row' \in [Edits -> Outcomes \cup {"none", "dispatching"}]
        /\ outcome' \in [Edits -> Outcomes]
    BY <1>3, <2>1 DEF TypeOK
  <2> QED BY <1>2, <1>1, <2>2 DEF TypeOK, Now, environment, proposal, call, ghosts
<1>5. /\ worker'[e] = "ended" /\ \A d \in Edits \ {e} : worker'[d] = worker[d]
      /\ \A d \in Edits \ {e} : outcome'[d] = outcome[d] /\ row'[d] = row[d]
      /\ \/ row'[e] = outcome[e] /\ outcome'[e] = outcome[e]
         \/ row'[e] = "dispatching" /\ outcome'[e] = "unknown"
  BY <1>2, <1>3 DEF TypeOK
<1>6. UNCHANGED <<versions, edit, pc, token, capture, answer, rev, touched, base, raced, spared>>
  BY <1>1 DEF environment, proposal, call, ghosts
<1>7. CallsFollowPlan'
  BY <1>2, <1>5, <1>6 DEF TypeOK, EditInvariant, CallsFollowPlan, Terminal
<1>8. WritersHaveRows'
  BY <1>2, <1>5, <1>6 DEF EditInvariant, WritersHaveRows, Terminal, Final, Outcomes
<1>9. AnswersAreDurable'
  BY <1>2, <1>5, <1>6 DEF EditInvariant, AnswersAreDurable, Final
<1>10. AppliedIsThere'
  BY <1>2, <1>5, <1>6 DEF TypeOK, EditInvariant, CallsFollowPlan, AppliedIsThere, Now
<1>11. FailuresTouchNothing'
  BY <1>2, <1>5, <1>6 DEF TypeOK, EditInvariant, CallsFollowPlan, WritersHaveRows,
     FailuresTouchNothing
<1>12. SparedStay'
  BY <1>2, <1>5, <1>6 DEF EditInvariant, SparedStay, Terminal, Stops
<1>13. VersionsAreThere'
  BY <1>2, <1>5, <1>6 DEF TypeOK, EditInvariant, VersionsAreThere, Now
<1>14. LateWritesAreMarked'
  BY <1>2, <1>5, <1>6 DEF TypeOK, EditInvariant, LateWritesAreMarked, Same, Unchanged, Now
<1>15. RestoresAreExact'
  BY <1>2, <1>5, <1>6 DEF TypeOK, EditInvariant, RestoresAreExact, Final, Proposal
<1> QED BY <1>4, <1>7, <1>8, <1>9, <1>10, <1>11, <1>12, <1>13, <1>14, <1>15 DEF EditInvariant

(* The first check moves the writer on, and nothing else.                   *)
LEMMA StageStep ==
  ASSUME TypeOK, EditInvariant, NEW e \in Edits, Stage(e)
  PROVE  TypeOK' /\ EditInvariant'
<1> USE DEF Stage, environment, proposal, call, result, ghosts
<1>1. TypeOK'
  BY DEF TypeOK, Now, Final, Outcomes
<1>2. CallsFollowPlan'
  BY DEF TypeOK, EditInvariant, CallsFollowPlan, Terminal
<1>3. WritersHaveRows'
  BY DEF TypeOK, EditInvariant, CallsFollowPlan, WritersHaveRows, Terminal, Final
<1>4. AnswersAreDurable'
  BY DEF TypeOK, EditInvariant, CallsFollowPlan, WritersHaveRows, AnswersAreDurable, Final
<1>5. AppliedIsThere'
  BY DEF TypeOK, EditInvariant, CallsFollowPlan, AppliedIsThere, Now
<1>6. FailuresTouchNothing'
  BY DEF TypeOK, EditInvariant, CallsFollowPlan, WritersHaveRows, FailuresTouchNothing
<1>7. SparedStay'
  BY DEF TypeOK, EditInvariant, CallsFollowPlan, SparedStay, Terminal, Stops
<1>8. VersionsAreThere'
  BY DEF TypeOK, EditInvariant, VersionsAreThere, Now
<1>9. LateWritesAreMarked'
  BY DEF TypeOK, EditInvariant, LateWritesAreMarked, Same, Unchanged, Now
<1>10. RestoresAreExact'
  BY DEF TypeOK, EditInvariant, RestoresAreExact, Final
<1> QED BY <1>1, <1>2, <1>3, <1>4, <1>5, <1>6, <1>7, <1>8, <1>9, <1>10 DEF EditInvariant

(* The second check sees the version that was reviewed.                     *)
LEMMA StartStep ==
  ASSUME TypeOK, EditInvariant, NEW e \in Edits, Start(e)
  PROVE  TypeOK' /\ EditInvariant'
<1> USE DEF Start, environment, proposal, call, result, ghosts
<1>1. TypeOK'
  BY DEF TypeOK, Now, Final, Outcomes
<1>2. CallsFollowPlan'
  BY DEF TypeOK, EditInvariant, CallsFollowPlan, Terminal
<1>3. WritersHaveRows'
  BY DEF TypeOK, EditInvariant, CallsFollowPlan, WritersHaveRows, Terminal, Final
<1>4. AnswersAreDurable'
  BY DEF TypeOK, EditInvariant, CallsFollowPlan, WritersHaveRows, AnswersAreDurable, Final
<1>5. AppliedIsThere'
  BY DEF TypeOK, EditInvariant, CallsFollowPlan, AppliedIsThere, Now
<1>6. FailuresTouchNothing'
  BY DEF TypeOK, EditInvariant, CallsFollowPlan, WritersHaveRows, FailuresTouchNothing
<1>7. SparedStay'
  BY DEF TypeOK, EditInvariant, CallsFollowPlan, SparedStay, Terminal, Stops
<1>8. VersionsAreThere'
  BY DEF TypeOK, EditInvariant, VersionsAreThere, Now
<1>9. LateWritesAreMarked'
  BY DEF TypeOK, EditInvariant, LateWritesAreMarked, Same, Unchanged, Now
<1>10. RestoresAreExact'
  BY DEF TypeOK, EditInvariant, RestoresAreExact, Final
<1> QED BY <1>1, <1>2, <1>3, <1>4, <1>5, <1>6, <1>7, <1>8, <1>9, <1>10 DEF EditInvariant

(* The write replaces the version of the last check, or one written since;  *)
(* a torn one is no plain failure.                                          *)
LEMMA CommitStep ==
  ASSUME TypeOK, EditInvariant, NEW e \in Edits, Commit(e)
  PROVE  TypeOK' /\ EditInvariant'
<1> DEFINE Ends == IF Terminal(e) THEN "ended" ELSE "saving"
           Writes == \E c \in Texts \cup {Missing, Torn} : Put(e, c)
           Misses == UNCHANGED <<versions, touched, base, raced>>
<1>1. /\ worker[e] = "started" /\ ~touched[e] /\ ~spared[e] /\ pc[e] # "none"
      /\ row[e] # "none" /\ (~Terminal(e) => row[e] = "dispatching")
      /\ {outcome[e], row[e]} \cap Final = {}
      /\ edit[e].version \in 1..Now /\ (Unchanged(e) \/ raced[e])
      /\ edit[e].after \in Texts \cup {Missing}
  <2>1. worker[e] = "started" /\ edit[e] \in Proposal
    BY DEF Commit, TypeOK
  <2>2. pc[e] # "none" /\ ~touched[e] /\ row[e] # "none"
    BY <2>1 DEF EditInvariant, CallsFollowPlan, WritersHaveRows
  <2>3. {outcome[e], row[e]} \cap Final = {}
    BY <2>1 DEF EditInvariant, AppliedIsThere, FailuresTouchNothing, Final
  <2> QED BY <2>1, <2>2, <2>3
          DEF EditInvariant, WritersHaveRows, SparedStay, VersionsAreThere, LateWritesAreMarked,
              Proposal
<1>2. UNCHANGED <<foreign, crashes, bound, edit, baselines, pc, token, moved, capture, answer,
                  rev, row, spared>>
  BY DEF Commit, proposal, call
<1>3. /\ Writes \/ Misses
      /\ \/ worker' = [worker EXCEPT ![e] = "written"] /\ UNCHANGED outcome
         \/ /\ worker' = [worker EXCEPT ![e] = Ends]
            /\ outcome' = [outcome EXCEPT ![e] = "unknown"]
  BY <1>1 DEF Commit, Ended, Failure
<1>4. /\ worker' \in [Edits -> {"idle", "ready", "staged", "started", "written", "saving",
                                "ended", "dead"}]
      /\ outcome' \in [Edits -> Outcomes]
      /\ worker'[e] \in {"written", Ends}
      /\ outcome'[e] \notin Final
      /\ \A d \in Edits \ {e} : worker'[d] = worker[d] /\ outcome'[d] = outcome[d]
  <2>1. Ends \in {"ended", "saving"}
    OBVIOUS
  <2> HIDE DEF Ends, Writes, Misses
  <2>2. PICK to \in {"written", Ends}, came \in {outcome[e], "unknown"} :
          worker' = [worker EXCEPT ![e] = to] /\ outcome' = [outcome EXCEPT ![e] = came]
    <3>1. CASE worker' = [worker EXCEPT ![e] = "written"] /\ UNCHANGED outcome
      <4>1. outcome' = [outcome EXCEPT ![e] = outcome[e]]
        BY <3>1 DEF TypeOK
      <4> QED BY <3>1, <4>1
    <3> QED BY <1>3, <3>1
  <2>3. came \notin Final /\ came \in Outcomes
    BY <1>1 DEF TypeOK, Outcomes, Final
  <2>4. /\ worker' \in [Edits -> {"idle", "ready", "staged", "started", "written", "saving",
                                  "ended", "dead"}]
        /\ worker'[e] \in {"written", Ends}
        /\ \A d \in Edits \ {e} : worker'[d] = worker[d]
    BY <2>1, <2>2 DEF TypeOK
  <2>5. /\ outcome' \in [Edits -> Outcomes] /\ outcome'[e] \notin Final
        /\ \A d \in Edits \ {e} : outcome'[d] = outcome[d]
    BY <2>2, <2>3 DEF TypeOK
  <2> QED BY <2>4, <2>5
<1>5. /\ versions' \in Seq(Texts \cup {Missing, Torn}) /\ versions' # <<>>
      /\ Now \in Nat /\ Now > 0
      /\ \A n \in 1..Now : n \in 1..Now' /\ versions'[n] = versions[n]
      /\ Now' = Now \/ (Now' = Now + 1 /\ \A d \in Edits \ {e} : worker[d] = "started" => raced'[d])
      /\ raced' \in [Edits -> BOOLEAN] /\ raced'[e] = raced[e]
      /\ \A d \in Edits : raced[d] => raced'[d]
      /\ touched' \in [Edits -> BOOLEAN] /\ base' \in [Edits -> Nat]
      /\ touched'[e] => base'[e] = Now
      /\ \A d \in Edits \ {e} : touched'[d] = touched[d] /\ base'[d] = base[d]
  <2>1. CASE Writes
    <3>1. PICK c \in Texts \cup {Missing, Torn} : Put(e, c)
      BY <2>1
    <3>2. /\ Now \in Nat /\ Now > 0 /\ Now' = Now + 1
          /\ versions' \in Seq(Texts \cup {Missing, Torn}) /\ versions' # <<>>
          /\ \A n \in 1..Now : n \in 1..Now' /\ versions'[n] = versions[n]
      BY <3>1, Grows DEF Put
    <3>3. /\ raced' = [[d \in Edits |-> raced[d] \/ worker[d] = "started"] EXCEPT ![e] = raced[e]]
          /\ touched' = [touched EXCEPT ![e] = TRUE] /\ base' = [base EXCEPT ![e] = Now]
      BY <3>1 DEF Put, Overtaken
    <3> QED BY <3>2, <3>3 DEF TypeOK
  <2>2. CASE Misses
    BY <1>1, <2>2 DEF TypeOK, Now
  <2> QED BY <1>3, <2>1, <2>2
<1> HIDE DEF Writes, Misses
<1>6. TypeOK'
  BY <1>2, <1>4, <1>5 DEF TypeOK
<1>7. CallsFollowPlan'
  BY <1>1, <1>2, <1>4 DEF EditInvariant, CallsFollowPlan, Terminal, Final
<1>8. WritersHaveRows'
  BY <1>1, <1>2, <1>4, <1>5 DEF EditInvariant, WritersHaveRows, Terminal
<1>9. AnswersAreDurable'
  BY <1>2 DEF EditInvariant, AnswersAreDurable
<1>10. AppliedIsThere'
  BY <1>1, <1>2, <1>4, <1>5 DEF EditInvariant, AppliedIsThere, Final
<1>11. FailuresTouchNothing'
  BY <1>1, <1>2, <1>4, <1>5 DEF EditInvariant, FailuresTouchNothing, Final
<1>12. SparedStay'
  BY <1>1, <1>2, <1>4, <1>5 DEF EditInvariant, SparedStay, Terminal, Stops
<1>13. VersionsAreThere'
  BY <1>1, <1>2, <1>5 DEF EditInvariant, VersionsAreThere
<1>14. LateWritesAreMarked'
  <2>1. ASSUME NEW d \in Edits \ {e}, touched[d] \/ worker[d] = "started"
        PROVE  edit[d].version \in 1..Now /\ (touched[d] => base[d] \in 1..Now)
    BY <2>1 DEF EditInvariant, CallsFollowPlan, WritersHaveRows, VersionsAreThere
  <2>2. ASSUME NEW d \in Edits \ {e}
        PROVE  /\ worker'[d] = "started" => Unchanged(d)' \/ raced'[d]
               /\ touched'[d] => Same(base[d], edit[d].version)' \/ raced'[d]
    <3>1. /\ worker[d] = "started" => Same(edit[d].version, Now) \/ raced[d]
          /\ touched[d] => Same(base[d], edit[d].version) \/ raced[d]
      BY DEF EditInvariant, LateWritesAreMarked, Unchanged
    <3>2. /\ worker'[d] = worker[d] /\ touched'[d] = touched[d] /\ base'[d] = base[d]
          /\ edit'[d] = edit[d] /\ (raced[d] => raced'[d]) /\ Now \in 1..Now
      BY <1>2, <1>4, <1>5
    <3>3. touched'[d] => Same(base[d], edit[d].version)' \/ raced'[d]
      BY <1>5, <2>1, <3>1, <3>2 DEF Same
    <3>4. CASE Now' = Now
      BY <1>5, <2>1, <3>1, <3>2, <3>3, <3>4 DEF Same, Unchanged
    <3>5. CASE Now' # Now
      BY <1>5, <3>2, <3>3, <3>5
    <3> QED BY <3>4, <3>5
  <2>3. worker'[e] # "started"
    BY <1>4
  <2>4. touched'[e] => Same(base[e], edit[e].version)' \/ raced'[e]
    BY <1>1, <1>2, <1>5 DEF Same, Unchanged
  <2> QED BY <2>2, <2>3, <2>4 DEF LateWritesAreMarked
<1>15. RestoresAreExact'
  <2>1. edit' = edit /\ row' = row /\ rev' = rev
    BY <1>2
  <2>2. \A n \in 1..Now : versions'[n] = versions[n]
    BY <1>5
  <2> QED BY <2>1, <2>2, RestoredAreThere DEF EditInvariant, RestoresAreExact
<1> QED BY <1>6, <1>7, <1>8, <1>9, <1>10, <1>11, <1>12, <1>13, <1>14, <1>15 DEF EditInvariant

(* What is reported applied is the version that is there.                   *)
LEMMA VerifyStep ==
  ASSUME TypeOK, EditInvariant, NEW e \in Edits, Verify(e)
  PROVE  TypeOK' /\ EditInvariant'
<1> USE DEF Verify, Ended, environment, proposal, call, result, ghosts
<1>1. TypeOK'
  BY DEF TypeOK, Now, Final, Outcomes
<1>2. CallsFollowPlan'
  BY DEF TypeOK, EditInvariant, CallsFollowPlan, Terminal
<1>3. WritersHaveRows'
  BY DEF TypeOK, EditInvariant, CallsFollowPlan, WritersHaveRows, Terminal, Final
<1>4. AnswersAreDurable'
  BY DEF TypeOK, EditInvariant, CallsFollowPlan, WritersHaveRows, AnswersAreDurable, Final
<1>5. AppliedIsThere'
  BY DEF TypeOK, EditInvariant, CallsFollowPlan, AppliedIsThere, Now
<1>6. FailuresTouchNothing'
  BY DEF TypeOK, EditInvariant, CallsFollowPlan, WritersHaveRows, FailuresTouchNothing
<1>7. SparedStay'
  BY DEF TypeOK, EditInvariant, CallsFollowPlan, SparedStay, Terminal, Stops
<1>8. VersionsAreThere'
  BY DEF TypeOK, EditInvariant, VersionsAreThere, Now
<1>9. LateWritesAreMarked'
  BY DEF TypeOK, EditInvariant, LateWritesAreMarked, Same, Unchanged, Now
<1>10. RestoresAreExact'
  <2>1. ASSUME NEW d \in Edits, row[d] = "applied"
        PROVE  rev'[d] = rev[d]
    BY <2>1 DEF TypeOK, EditInvariant, AppliedIsThere
  <2> QED BY <2>1, RestoredAreThere DEF EditInvariant, RestoresAreExact
<1> QED BY <1>1, <1>2, <1>3, <1>4, <1>5, <1>6, <1>7, <1>8, <1>9, <1>10 DEF EditInvariant

(* A failure before the start has touched nothing; after it, it is unknown. *)
LEMMA WriterFailsStep ==
  ASSUME TypeOK, EditInvariant, NEW e \in Edits, WriterFails(e)
  PROVE  TypeOK' /\ EditInvariant'
<1> USE DEF WriterFails, Fails, Ended, Failure, environment, proposal, call, result, ghosts
<1>1. TypeOK'
  <2>1. PICK status \in {"unknown", "failed", "conflict"}, to \in {"ended", "saving"} :
          outcome' = [outcome EXCEPT ![e] = status] /\ worker' = [worker EXCEPT ![e] = to]
    OBVIOUS
  <2> QED BY <2>1 DEF TypeOK, Now, Outcomes, Final
<1>2. CallsFollowPlan'
  BY DEF TypeOK, EditInvariant, CallsFollowPlan, Terminal
<1>3. WritersHaveRows'
  BY DEF TypeOK, EditInvariant, CallsFollowPlan, WritersHaveRows, Terminal, Final
<1>4. AnswersAreDurable'
  BY DEF TypeOK, EditInvariant, CallsFollowPlan, WritersHaveRows, AnswersAreDurable, Final
<1>5. AppliedIsThere'
  BY DEF TypeOK, EditInvariant, CallsFollowPlan, AppliedIsThere, Now
<1>6. FailuresTouchNothing'
  BY DEF TypeOK, EditInvariant, CallsFollowPlan, WritersHaveRows, FailuresTouchNothing
<1>7. SparedStay'
  BY DEF TypeOK, EditInvariant, CallsFollowPlan, SparedStay, Terminal, Stops
<1>8. VersionsAreThere'
  BY DEF TypeOK, EditInvariant, VersionsAreThere, Now
<1>9. LateWritesAreMarked'
  BY DEF TypeOK, EditInvariant, LateWritesAreMarked, Same, Unchanged, Now
<1>10. RestoresAreExact'
  BY DEF TypeOK, EditInvariant, RestoresAreExact, Final
<1> QED BY <1>1, <1>2, <1>3, <1>4, <1>5, <1>6, <1>7, <1>8, <1>9, <1>10 DEF EditInvariant

(* The observer returns what the writer has saved.                          *)
LEMMA ObserveStep ==
  ASSUME TypeOK, EditInvariant, NEW e \in Edits, Observe(e)
  PROVE  TypeOK' /\ EditInvariant'
<1> USE DEF Observe, Return, environment, proposal, call, result, ghosts
<1>1. TypeOK'
  BY DEF TypeOK, Now, Final, Outcomes
<1>2. CallsFollowPlan'
  <2>1. pc' = [pc EXCEPT ![e] = "over"]
    BY DEF TypeOK, Outcomes, Final
  <2> QED BY <2>1 DEF TypeOK, EditInvariant, CallsFollowPlan, Terminal
<1>3. WritersHaveRows'
  BY DEF TypeOK, EditInvariant, CallsFollowPlan, WritersHaveRows, Terminal, Final
<1>4. AnswersAreDurable'
  BY DEF TypeOK, EditInvariant, CallsFollowPlan, WritersHaveRows, AnswersAreDurable, Final
<1>5. AppliedIsThere'
  BY DEF TypeOK, EditInvariant, CallsFollowPlan, AppliedIsThere, Now
<1>6. FailuresTouchNothing'
  BY DEF TypeOK, EditInvariant, CallsFollowPlan, WritersHaveRows, FailuresTouchNothing
<1>7. SparedStay'
  BY DEF TypeOK, EditInvariant, CallsFollowPlan, SparedStay, Terminal, Stops
<1>8. VersionsAreThere'
  BY DEF TypeOK, EditInvariant, VersionsAreThere, Now
<1>9. LateWritesAreMarked'
  BY DEF TypeOK, EditInvariant, LateWritesAreMarked, Same, Unchanged, Now
<1>10. RestoresAreExact'
  BY DEF TypeOK, EditInvariant, RestoresAreExact, Final
<1> QED BY <1>1, <1>2, <1>3, <1>4, <1>5, <1>6, <1>7, <1>8, <1>9, <1>10 DEF EditInvariant

(* An observer that leaves says nothing of the result.                      *)
LEMMA ObserverLeavesStep ==
  ASSUME TypeOK, EditInvariant, NEW e \in Edits, ObserverLeaves(e)
  PROVE  TypeOK' /\ EditInvariant'
<1> USE DEF ObserverLeaves, Return, environment, proposal, call, result, ghosts
<1>1. TypeOK'
  BY DEF TypeOK, Now, Final, Outcomes
<1>2. CallsFollowPlan'
  BY DEF TypeOK, EditInvariant, CallsFollowPlan, Terminal
<1>3. WritersHaveRows'
  BY DEF TypeOK, EditInvariant, CallsFollowPlan, WritersHaveRows, Terminal, Final
<1>4. AnswersAreDurable'
  BY DEF TypeOK, EditInvariant, CallsFollowPlan, WritersHaveRows, AnswersAreDurable, Final
<1>5. AppliedIsThere'
  BY DEF TypeOK, EditInvariant, CallsFollowPlan, AppliedIsThere, Now
<1>6. FailuresTouchNothing'
  BY DEF TypeOK, EditInvariant, CallsFollowPlan, WritersHaveRows, FailuresTouchNothing
<1>7. SparedStay'
  BY DEF TypeOK, EditInvariant, CallsFollowPlan, SparedStay, Terminal, Stops
<1>8. VersionsAreThere'
  BY DEF TypeOK, EditInvariant, VersionsAreThere, Now
<1>9. LateWritesAreMarked'
  BY DEF TypeOK, EditInvariant, LateWritesAreMarked, Same, Unchanged, Now
<1>10. RestoresAreExact'
  BY DEF TypeOK, EditInvariant, RestoresAreExact, Final
<1> QED BY <1>1, <1>2, <1>3, <1>4, <1>5, <1>6, <1>7, <1>8, <1>9, <1>10 DEF EditInvariant

(* A helper that is written to the shell has its row.                       *)
LEMMA WriteHelperStep ==
  ASSUME TypeOK, EditInvariant, NEW e \in Edits, WriteHelper(e)
  PROVE  TypeOK' /\ EditInvariant'
<1> USE DEF WriteHelper, environment, proposal, call, result, ghosts
<1>1. TypeOK'
  BY DEF TypeOK, Now, Final, Outcomes
<1>2. CallsFollowPlan'
  BY DEF TypeOK, EditInvariant, CallsFollowPlan, Terminal
<1>3. WritersHaveRows'
  BY DEF TypeOK, EditInvariant, CallsFollowPlan, WritersHaveRows, Terminal, Final
<1>4. AnswersAreDurable'
  BY DEF TypeOK, EditInvariant, CallsFollowPlan, WritersHaveRows, AnswersAreDurable, Final
<1>5. AppliedIsThere'
  BY DEF TypeOK, EditInvariant, CallsFollowPlan, AppliedIsThere, Now
<1>6. FailuresTouchNothing'
  BY DEF TypeOK, EditInvariant, CallsFollowPlan, WritersHaveRows, FailuresTouchNothing
<1>7. SparedStay'
  BY DEF TypeOK, EditInvariant, CallsFollowPlan, SparedStay, Terminal, Stops
<1>8. VersionsAreThere'
  BY DEF TypeOK, EditInvariant, VersionsAreThere, Now
<1>9. LateWritesAreMarked'
  BY DEF TypeOK, EditInvariant, LateWritesAreMarked, Same, Unchanged, Now
<1>10. RestoresAreExact'
  BY DEF TypeOK, EditInvariant, RestoresAreExact, Final
<1> QED BY <1>1, <1>2, <1>3, <1>4, <1>5, <1>6, <1>7, <1>8, <1>9, <1>10 DEF EditInvariant

(* A helper of which some may have got through is not taken for stopped.    *)
LEMMA HelperWriteFailsStep ==
  ASSUME TypeOK, EditInvariant, NEW e \in Edits, HelperWriteFails(e)
  PROVE  TypeOK' /\ EditInvariant'
<1> USE DEF HelperWriteFails, Dropped, Stopped, InFlight, environment, proposal, call, result, ghosts
<1>1. TypeOK'
  <2>1. baselines' \subseteq 1..Now /\ Cardinality(baselines') <= MaxBaselines
    BY FewerBaselines
  <2>2. pc' \in [Edits -> {"none", "pending", "approved", "journal", "prepare", "saving",
                          "observing", "captured", "over"}]
    BY DEF TypeOK
  <2>3. token' \in [Edits -> BOOLEAN] /\ moved' \in [Edits -> BOOLEAN]
    BY DEF TypeOK
  <2>4. capture' \in [Edits -> {"none", "kept", "dispatched"}]
    BY DEF TypeOK
  <2>5. worker' \in [Edits -> {"idle", "ready", "staged", "started", "written", "saving",
                              "ended", "dead"}]
    BY DEF TypeOK
  <2>6. spared' \in [Edits -> BOOLEAN]
    BY DEF TypeOK
  <2>7. crashes' \in 0..bound.crashes
    BY DEF TypeOK, Bound
  <2> QED BY <2>1, <2>2, <2>3, <2>4, <2>5, <2>6, <2>7 DEF TypeOK, Now
<1>2. CallsFollowPlan'
  BY DEF TypeOK, EditInvariant, CallsFollowPlan, Terminal
<1>3. WritersHaveRows'
  BY DEF TypeOK, EditInvariant, CallsFollowPlan, WritersHaveRows, Terminal, Final
<1>4. AnswersAreDurable'
  BY DEF TypeOK, EditInvariant, CallsFollowPlan, WritersHaveRows, AnswersAreDurable, Final
<1>5. AppliedIsThere'
  BY DEF TypeOK, EditInvariant, CallsFollowPlan, AppliedIsThere, Now
<1>6. FailuresTouchNothing'
  BY DEF TypeOK, EditInvariant, CallsFollowPlan, WritersHaveRows, FailuresTouchNothing
<1>7. SparedStay'
  <2>1. \A d \in Edits : worker'[d] = worker[d] \/ (d \notin Edits \ {e} /\ capture[d] = "kept")
    BY DEF TypeOK
  <2> QED BY <2>1, StoppedStay
<1>8. VersionsAreThere'
  BY DEF TypeOK, EditInvariant, VersionsAreThere, Now
<1>9. LateWritesAreMarked'
  BY DEF TypeOK, EditInvariant, LateWritesAreMarked, Same, Unchanged, Now
<1>10. RestoresAreExact'
  BY DEF TypeOK, EditInvariant, RestoresAreExact, Final
<1> QED BY <1>1, <1>2, <1>3, <1>4, <1>5, <1>6, <1>7, <1>8, <1>9, <1>10 DEF EditInvariant

(* The capture's result is the helper's, or unknown.                        *)
LEMMA FinishTerminalStep ==
  ASSUME TypeOK, EditInvariant, NEW e \in Edits, FinishTerminal(e)
  PROVE  TypeOK' /\ EditInvariant'
<1>1. /\ capture' = [capture EXCEPT ![e] = "none"] /\ pc[e] = "captured"
      /\ \/ /\ pc' = [pc EXCEPT ![e] = "over"] /\ token' = [token EXCEPT ![e] = TRUE]
            /\ answer' = [answer EXCEPT ![e] = "error"] /\ UNCHANGED outcome
         \/ /\ pc' = [pc EXCEPT ![e] = "saving"] /\ UNCHANGED <<token, answer>>
            /\ UNCHANGED outcome \/ outcome' = [outcome EXCEPT ![e] = "unknown"]
      /\ capture[e] = "dispatched" \/ UNCHANGED outcome
  BY DEF FinishTerminal, Return, TypeOK
<1>2. UNCHANGED <<versions, foreign, crashes, bound, edit, baselines, moved, worker, rev, row,
                  touched, base, raced, spared>>
  BY DEF FinishTerminal, environment, proposal, ghosts
<1>3. Terminal(e) /\ row[e] = "dispatching"
  BY <1>1 DEF EditInvariant, CallsFollowPlan
<1>4. answer' = [answer EXCEPT ![e] = "error"] \/ answer' = answer
  BY <1>1
<1>5. TypeOK'
  <2>1. pc' \in [Edits -> {"none", "pending", "approved", "journal", "prepare", "saving",
                          "observing", "captured", "over"}]
    <3>1. pc' = [pc EXCEPT ![e] = "over"] \/ pc' = [pc EXCEPT ![e] = "saving"]
      BY <1>1
    <3> QED BY <3>1 DEF TypeOK
  <2>2. token' \in [Edits -> BOOLEAN]
    BY <1>1 DEF TypeOK
  <2>3. answer' \in [Edits -> Outcomes \cup {"none", "plan", "error"}]
    BY <1>4 DEF TypeOK
  <2>4. outcome' \in [Edits -> Outcomes] /\ capture' \in [Edits -> {"none", "kept", "dispatched"}]
    BY <1>1, ZenonT(40) DEF TypeOK, Outcomes
  <2> QED BY <2>1, <2>2, <2>3, <2>4, <1>2 DEF TypeOK, Now
<1>6. CallsFollowPlan'
  BY <1>1, <1>2, <1>3 DEF TypeOK, EditInvariant, CallsFollowPlan, Terminal
<1>7. WritersHaveRows'
  BY <1>1, <1>2, <1>3 DEF TypeOK, EditInvariant, CallsFollowPlan, WritersHaveRows, Terminal,
     Final
<1>8. AnswersAreDurable'
  BY <1>2, <1>4 DEF TypeOK, EditInvariant, AnswersAreDurable, Final
<1>9. AppliedIsThere'
  BY <1>1, <1>2, <1>3 DEF TypeOK, EditInvariant, CallsFollowPlan, AppliedIsThere, Now
<1>10. FailuresTouchNothing'
  BY <1>1, <1>2, <1>3 DEF TypeOK, EditInvariant, CallsFollowPlan, WritersHaveRows,
     FailuresTouchNothing
<1>11. SparedStay'
  <2>1. /\ pc'[e] \in {"saving", "over"} /\ \A d \in Edits \ {e} : pc'[d] = pc[d]
        /\ \A d \in Edits : token[d] => token'[d]
        /\ ~(~Terminal(e) /\ worker[e] \in {"ready", "staged"})
    BY <1>1, <1>3 DEF TypeOK
  <2> QED BY <1>2, <2>1 DEF EditInvariant, SparedStay, Terminal, Stops
<1>12. VersionsAreThere'
  BY <1>1, <1>2, <1>3 DEF TypeOK, EditInvariant, VersionsAreThere, Now
<1>13. LateWritesAreMarked'
  BY <1>1, <1>2, <1>3 DEF TypeOK, EditInvariant, LateWritesAreMarked, Same, Unchanged, Now
<1>14. RestoresAreExact'
  BY <1>1, <1>2, <1>3 DEF TypeOK, EditInvariant, RestoresAreExact, Final
<1> QED BY <1>5, <1>6, <1>7, <1>8, <1>9, <1>10, <1>11, <1>12, <1>13, <1>14 DEF EditInvariant

-----------------------------------------------------------------------------
(* Nothing is proposed at first.                                            *)
LEMMA InitialEdits ==
  ASSUME Init
  PROVE  TypeOK /\ EditInvariant
<1> USE DEF Init
<1>1. PICK c \in Texts \cup {Missing} : versions = <<c>>
  BY DEF Bound
<1>2. TypeOK
  <2>1. versions \in Seq(Texts \cup {Missing, Torn}) /\ versions # <<>> /\ Now = 1
    BY <1>1 DEF Now
  <2>2. edit \in [Edits -> Proposal]
    BY DEF Proposal, NoProposal, Providers
  <2>3. foreign \in 0..bound.foreign /\ crashes \in 0..bound.crashes
    BY DEF Bound
  <2>4. baselines \subseteq 1..Now /\ Cardinality(baselines) <= MaxBaselines
    BY FS_EmptySet
  <2> QED BY <2>1, <2>2, <2>3, <2>4 DEF TypeOK, Outcomes
<1>3. CallsFollowPlan /\ WritersHaveRows
  BY DEF CallsFollowPlan, WritersHaveRows
<1>4. AnswersAreDurable /\ AppliedIsThere /\ FailuresTouchNothing
  BY DEF AnswersAreDurable, AppliedIsThere, FailuresTouchNothing, Final
<1>5. SparedStay /\ VersionsAreThere /\ LateWritesAreMarked /\ RestoresAreExact
  BY DEF SparedStay, VersionsAreThere, LateWritesAreMarked, RestoresAreExact, NoProposal
<1> QED BY <1>2, <1>3, <1>4, <1>5 DEF EditInvariant

(* Every step keeps the types and the invariant.                            *)
LEMMA NextKeepsInvariant ==
  ASSUME TypeOK, EditInvariant, [Next]_vars
  PROVE  TypeOK' /\ EditInvariant'
<1>1. CASE UNCHANGED vars
  BY <1>1 DEF TypeOK, Now, EditInvariant, CallsFollowPlan, WritersHaveRows, AnswersAreDurable,
     AppliedIsThere, FailuresTouchNothing, SparedStay, VersionsAreThere, LateWritesAreMarked,
     RestoresAreExact, Terminal, Stops, Same, Unchanged, vars, environment, proposal, call,
     result, ghosts
<1>2. bound.edits \subseteq Edits /\ bound.texts \subseteq Texts
  BY DEF TypeOK, Bound
<1>3. ASSUME NEW e \in bound.edits, Prepare(e) \/ PrepareRestore(e)
      PROVE  TypeOK' /\ EditInvariant'
  <2>1. CASE Prepare(e)
    <3>1. PICK n \in baselines, after \in bound.texts \cup {Missing} : Insert(e, n, after, {})
      BY <2>1 DEF Prepare
    <3> QED BY <1>2, <3>1, InsertsStep
  <2>2. CASE PrepareRestore(e)
    <3>1. PICK d \in Edits, n \in baselines :
            Restorable(d, n) /\ Insert(e, n, versions[edit[d].version], {d})
      BY <2>2 DEF PrepareRestore
    <3>2. edit[d].version \in 1..Now
      BY <3>1 DEF EditInvariant, CallsFollowPlan, VersionsAreThere, Restorable
    <3>3. versions[edit[d].version] \in Texts \cup {Missing, Torn}
      BY <3>2 DEF TypeOK, Now
    <3> QED BY <1>2, <3>1, <3>3, InsertsStep
  <2> QED BY <1>3, <2>1, <2>2
<1>4. ASSUME NEW e \in bound.edits, NEW ok \in BOOLEAN,
             Journal(e, ok) \/ SaveResult(e, ok) \/ WorkerSaves(e, ok)
      PROVE  TypeOK' /\ EditInvariant'
  BY <1>2, <1>4, JournalStep, SaveResultStep, WorkerSavesStep
<1>5. ASSUME NEW e \in bound.edits, WriterStep(e)
      PROVE  TypeOK' /\ EditInvariant'
  BY <1>2, <1>5, StageStep, StartStep, CommitStep, VerifyStep, WriterFailsStep DEF WriterStep
<1>6. ASSUME NEW e \in bound.edits,
             \/ Approve(e) \/ Expire(e) \/ Cancel(e) \/ Dispatch(e)
             \/ Prepared(e) \/ PreparationFails(e) \/ Observe(e) \/ ObserverLeaves(e)
             \/ WriteHelper(e) \/ HelperWriteFails(e) \/ FinishTerminal(e)
      PROVE  TypeOK' /\ EditInvariant'
  BY <1>2, <1>6, ApproveStep, ExpireStep, CancelStep, DispatchStep, PreparedStep,
     PreparationFailsStep, ObserveStep, ObserverLeavesStep, WriteHelperStep,
     HelperWriteFailsStep, FinishTerminalStep
<1>7. ASSUME \/ \E c \in bound.texts \cup {Missing} : ForeignWrite(c)
             \/ ReadFile \/ TargetMoves \/ Crash
             \/ \E n \in baselines : ForgetBaseline(n)
      PROVE  TypeOK' /\ EditInvariant'
  BY <1>2, <1>7, ForeignStep, ReadStep, MovesStep, CrashesStep, ForgetStep
<1> QED BY <1>1, <1>3, <1>4, <1>5, <1>6, <1>7 DEF Next

(* EditInvariant and the types hold in every state of every behaviour, however  *)
(* many edits, foreign writes and crashes it has.                             *)
THEOREM EditsInvariant == Spec => [](TypeOK /\ EditInvariant)
<1>1. Init => TypeOK /\ EditInvariant
  BY InitialEdits
<1>2. TypeOK /\ EditInvariant /\ [Next]_vars => (TypeOK /\ EditInvariant)'
  BY NextKeepsInvariant
<1> QED BY <1>1, <1>2, PTL DEF Spec

(* Every variable keeps its type, and the baselines their limit.               *)
THEOREM EditsAreTyped == Spec => []TypeOK
BY EditsInvariant, PTL

(* The journal and the answers of dispatch_agent_file_edit and                 *)
(* finish_agent_terminal_file_edit say what became of the file, whoever writes *)
(* it and whatever crashes.                                                   *)
THEOREM JournalStaysTrue == Spec => []JournalIsTrue
<1>1. TypeOK /\ EditInvariant => JournalIsTrue
  <2> SUFFICES ASSUME TypeOK, EditInvariant
               PROVE  JournalIsTrue
    OBVIOUS
  <2>1. WritesAreJournaled
    BY DEF TypeOK, EditInvariant, WritersHaveRows, WritesAreJournaled
  <2>2. RowsAreTrue
    BY DEF EditInvariant, AppliedIsThere, FailuresTouchNothing, RowsAreTrue
  <2> QED BY <2>1, <2>2 DEF JournalIsTrue, EditInvariant
<1> QED BY <1>1, EditsInvariant, PTL

(* An edit stopped before its writer has started never touches the file, and   *)
(* one that does replaces what was reviewed, or what others wrote after the     *)
(* writer's last check.                                                       *)
THEOREM ReviewedIsReplaced == Spec => []OnlyReviewedIsReplaced
<1>1. EditInvariant => OnlyReviewedIsReplaced
  BY DEF EditInvariant, SparedStay, LateWritesAreMarked, OnlyReviewedIsReplaced,
     StoppedNeverTouches, OnlyLateWritesAreLost
<1> QED BY <1>1, EditsInvariant, PTL

(* What undoes an edit puts back exactly what that edit replaced, on exactly    *)
(* what it left.                                                             *)
THEOREM RestoresAreUndone == Spec => []RestoresUndo
<1>1. TypeOK /\ EditInvariant => RestoresUndo
  <2> SUFFICES ASSUME TypeOK, EditInvariant, NEW e \in Edits, NEW d \in Edits,
                      d \in edit[e].restores, touched[e], ~raced[e]
               PROVE  Same(base[e], rev[d]) /\ edit[e].after = versions[edit[d].version]
    BY DEF RestoresUndo
  <2>1. /\ row[d] = "applied" /\ edit[e].after = versions[edit[d].version]
        /\ versions[edit[e].version] = edit[d].after
        /\ versions[edit[e].version] = Missing \/ edit[e].version = rev[d]
    BY DEF EditInvariant, RestoresAreExact
  <2>2. versions[rev[d]] = edit[d].after
    BY <2>1 DEF EditInvariant, AppliedIsThere
  <2>3. Same(base[e], edit[e].version)
    BY DEF EditInvariant, LateWritesAreMarked
  <2> QED BY <2>1, <2>2, <2>3 DEF Same
<1> QED BY <1>1, EditsInvariant, PTL

=============================================================================
