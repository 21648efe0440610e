------------------------------ MODULE FileEdit ------------------------------
(***************************************************************************)
(* Reviewed edits of one file by the agent: the file part of a session       *)
(* (src-tauri/src/app/agent_files_state.rs), the edit commands               *)
(* (app/agent_file_edits_state.rs), the store of baselines and proposals      *)
(* (domain/filesystem/agent_files/edits.rs), the three writers               *)
(* (local_edits.rs, sftp_agent_edits.rs, terminal_edits.py) and the journal   *)
(* of changes in SQLite (storage/file_changes.rs).                           *)
(*                                                                         *)
(* The file is the sequence of its versions: the index is the revision and    *)
(* the element the content.  Other programs write it whenever they like.      *)
(* The application can crash; the journal and the file survive, and so does   *)
(* a helper already running in the shell.                                    *)
(***************************************************************************)
EXTENDS Naturals, Sequences, FiniteSets

CONSTANTS
  Edits,       \* references of proposals
  Texts,       \* contents of the file, other than its absence
  MaxBaselines,   \* MAX_BASELINES
  Bounds       \* what a behaviour may have of each of the following, one record each

Missing == "missing"
Torn == "torn"
Providers == {"local", "sftp", "terminal"}

\* edits: the references used; texts: what is written; providers: the ways of
\* writing; foreign: writes by other programs; crashes: of the application.
Bound == [edits : SUBSET Edits, texts : SUBSET Texts, providers : SUBSET Providers,
          foreign : Nat, crashes : Nat]

ASSUME BaselineAssumption == MaxBaselines \in Nat \ {0}
ASSUME TextsAssumption == Missing \notin Texts /\ Torn \notin Texts
ASSUME BoundsAssumption == Bounds \subseteq Bound

Final == {"applied", "conflict", "failed"}
Outcomes == Final \cup {"unknown"}

VARIABLES
  versions,   \* every version the file has had; the last one is there now
  foreign, crashes,   \* counters of two of the bounds
  bound,      \* the bounds of this behaviour
  baselines,  \* versions read completely, and still in the FileEditStore
  edit,       \* the proposal of each reference
  pc,         \* where the call that handles it is
  token,      \* the task's token
  moved,      \* the session's target is not the proposal's any more
  capture,    \* terminal: none, kept, or dispatched (EditCapture)
  worker,     \* idle, ready, staged, started, written, saving, ended, dead
  outcome,    \* what the worker or the failed preparation came to
  rev,        \* the revision in that outcome
  row,        \* status of the row in agent_file_changes
  answer,     \* what the last call about the edit returned
  touched,    \* ghost: the edit has changed the file
  base,       \* ghost: the version it replaced
  raced,      \* ghost: the file was written by others after the writer's last check
  spared      \* ghost: stopped before the writer had started

environment == <<versions, foreign, crashes, bound>>
proposal == <<edit, baselines>>
call == <<pc, token, moved, capture, answer>>
result == <<outcome, rev>>
ghosts == <<touched, base, raced, spared>>
vars == <<environment, proposal, call, worker, result, row, ghosts>>

Now == Len(versions)
Proposal == [version : Nat, after : Texts \cup {Missing}, provider : Providers, restores : SUBSET Edits]
NoProposal == [version |-> 0, after |-> Missing, provider |-> "local", restores |-> {}]

(* The complete check of a writer: revision and content are those reviewed.    *)
(* A missing file has no revision.                                           *)
Same(m, n) == m = n \/ (versions[m] = Missing /\ versions[n] = Missing)
Unchanged(e) == Same(edit[e].version, Now)

InFlight(e) == pc[e] \in {"journal", "prepare", "saving", "observing"}
Terminal(e) == edit[e].provider = "terminal"
Stops(e) == token[e] /\ ~Terminal(e)    \* a shell helper has no token

Init ==
  /\ bound \in Bounds
  /\ \E c \in bound.texts \cup {Missing} : versions = <<c>>
  /\ foreign = 0 /\ crashes = 0
  /\ baselines = {}
  /\ edit = [e \in Edits |-> NoProposal]
  /\ pc = [e \in Edits |-> "none"]
  /\ token = [e \in Edits |-> FALSE]
  /\ moved = [e \in Edits |-> FALSE]
  /\ capture = [e \in Edits |-> "none"]
  /\ worker = [e \in Edits |-> "idle"]
  /\ outcome = [e \in Edits |-> "unknown"]
  /\ rev = [e \in Edits |-> 0]
  /\ row = [e \in Edits |-> "none"]
  /\ answer = [e \in Edits |-> "none"]
  /\ touched = [e \in Edits |-> FALSE]
  /\ base = [e \in Edits |-> 0]
  /\ raced = [e \in Edits |-> FALSE]
  /\ spared = [e \in Edits |-> FALSE]

-----------------------------------------------------------------------------
(* The edits whose last check the next write comes after.                     *)
Overtaken == [e \in Edits |-> raced[e] \/ worker[e] = "started"]

(* Another program writes the file, or removes it.                            *)
ForeignWrite(c) ==
  /\ foreign < bound.foreign /\ c # versions[Now]
  /\ versions' = Append(versions, c)
  /\ foreign' = foreign + 1
  /\ raced' = Overtaken
  /\ UNCHANGED <<crashes, bound, proposal, call, worker, result, row, touched, base, spared>>

\* (a bug to try: the number of baselines is not limited)
ReadFileAlways ==
  /\ baselines' = baselines \cup {Now}
  /\ UNCHANGED <<environment, edit, call, worker, result, row, ghosts>>

(* A read that is complete, or a confirmed absence, becomes a baseline         *)
(* (register_read, register_absence) while there is room; it is dropped when    *)
(* its time is up.                                                          *)
ReadFile ==
  /\ Cardinality(baselines) < MaxBaselines
  /\ baselines' = baselines \cup {Now}
  /\ UNCHANGED <<environment, edit, call, worker, result, row, ghosts>>

ForgetBaseline(n) ==
  /\ baselines' = baselines \ {n}
  /\ UNCHANGED <<environment, edit, call, worker, result, row, ghosts>>

(* FileEditStore::insert: the provider is the one that read the baseline; an   *)
(* absence is only established in the terminal.                              *)
Insert(e, n, after, restores) ==
  /\ pc[e] = "none" /\ n \in baselines /\ after # versions[n]
  /\ after # Torn
  /\ \E p \in bound.providers :
       /\ versions[n] = Missing => p = "terminal"
       /\ edit' = [edit EXCEPT ![e] = [version |-> n, after |-> after, provider |-> p,
                                       restores |-> restores]]
  /\ pc' = [pc EXCEPT ![e] = "pending"]
  /\ UNCHANGED <<environment, baselines, token, moved, capture, answer, worker, result,
                 row, ghosts>>

Prepare(e) ==
  \E n \in baselines, after \in bound.texts \cup {Missing} : Insert(e, n, after, {})

\* (a bug to try: an edit with the right content is undone, whatever its revision)
RestorableByContent(d, n) ==
  row[d] = "applied" /\ versions[n] = edit[d].after

(* prepare_restore: the fresh baseline is exactly what the edit left behind.   *)
Restorable(d, n) ==
  /\ row[d] = "applied"
  /\ versions[n] = edit[d].after
  /\ versions[n] = Missing \/ n = rev[d]

PrepareRestore(e) ==
  \E d \in Edits, n \in baselines :
    Restorable(d, n) /\ Insert(e, n, versions[edit[d].version], {d})

Approve(e) ==
  /\ pc[e] = "pending"
  /\ pc' = [pc EXCEPT ![e] = "approved"]
  /\ UNCHANGED <<environment, proposal, token, moved, capture, answer, worker, result,
                 row, ghosts>>

(* dispatch_agent_file_edit consumes the approved proposal.                    *)
Dispatch(e) ==
  /\ pc[e] = "approved"
  /\ pc' = [pc EXCEPT ![e] = "journal"]
  /\ UNCHANGED <<environment, proposal, token, moved, capture, answer, worker, result,
                 row, ghosts>>

(* save_agent_file_change overwrites no verified result.                      *)
Saved(e, status) ==
  row' = [row EXCEPT ![e] = IF @ \in Final THEN @ ELSE status]

(* A call returns; its registration goes, and sets the token.                  *)
Return(e, what) ==
  /\ pc' = [pc EXCEPT ![e] = IF what = "plan" THEN "captured" ELSE "over"]
  /\ answer' = [answer EXCEPT ![e] = what]
  /\ token' = [token EXCEPT ![e] = TRUE]

\* (a bug to try: a journal that cannot be written does not stop the edit)
JournalOrNot(e, ok) ==
  /\ pc[e] = "journal"
  /\ IF ok THEN Saved(e, "dispatching") ELSE UNCHANGED row
  /\ pc' = [pc EXCEPT ![e] = "prepare"]
  /\ UNCHANGED <<environment, proposal, token, moved, capture, answer, worker, result,
                 ghosts>>

(* The journal entry is saved, or the edit ends there.                        *)
Journal(e, ok) ==
  /\ pc[e] = "journal"
  /\ IF ok
       THEN /\ Saved(e, "dispatching")
            /\ pc' = [pc EXCEPT ![e] = "prepare"]
            /\ UNCHANGED <<token, answer>>
       ELSE Return(e, "error") /\ UNCHANGED row
  /\ UNCHANGED <<environment, proposal, moved, capture, worker, result, ghosts>>

(* The lock is taken again: the session must still have the target and the     *)
(* task must not be cancelled.  The helper's intent is inserted, or the worker *)
(* spawned.                                                                 *)
Prepared(e) ==
  /\ pc[e] = "prepare" /\ ~moved[e] /\ ~token[e]
  /\ IF Terminal(e)
       THEN /\ Return(e, "plan")
            /\ capture' = [capture EXCEPT ![e] = "kept"]
            /\ UNCHANGED worker
       ELSE /\ pc' = [pc EXCEPT ![e] = "observing"]
            /\ worker' = [worker EXCEPT ![e] = "ready"]
            /\ UNCHANGED <<token, answer, capture>>
  /\ UNCHANGED <<environment, proposal, moved, result, row, ghosts>>

(* The profile is gone, the intents are full, the target moved, the task was   *)
(* cancelled: nothing has started, and that is what will be recorded.          *)
PreparationFails(e) ==
  /\ pc[e] = "prepare"
  /\ outcome' = [outcome EXCEPT ![e] = IF moved[e] THEN "conflict" ELSE "failed"]
  /\ pc' = [pc EXCEPT ![e] = "saving"]
  /\ UNCHANGED <<environment, proposal, token, moved, capture, answer, worker, rev, row,
                 ghosts>>

SaveResult(e, ok) ==
  /\ pc[e] = "saving"
  /\ IF ok
       THEN Saved(e, outcome[e]) /\ Return(e, outcome[e])
       ELSE UNCHANGED row /\ Return(e, "error")
  /\ UNCHANGED <<environment, proposal, moved, capture, worker, result, ghosts>>

-----------------------------------------------------------------------------
(* The writers.                                                             *)
\* (a bug to try: an error after the write has begun is a plain failure)
FailureAnyway(e, kind) == kind

(* FileEditOutcome::failure                                                  *)
Failure(e, kind) == IF worker[e] \in {"started", "written"} THEN "unknown" ELSE kind

(* A native worker still has to save what it came to; a helper just reports.    *)
Ended(e, status) ==
  /\ outcome' = [outcome EXCEPT ![e] = status]
  /\ worker' = [worker EXCEPT ![e] = IF Terminal(e) THEN "ended" ELSE "saving"]

(* Any step may fail, from a lost link to a full disk; a check fails when the   *)
(* task is cancelled or the file is not what was reviewed.                     *)
Fails(e) ==
  \/ worker[e] \in {"ready", "staged", "started", "written"}
     /\ Ended(e, Failure(e, "failed"))
  \/ worker[e] \in {"ready", "staged"} /\ ~Unchanged(e)
     /\ Ended(e, Failure(e, "conflict"))

WriterFails(e) ==
  /\ Fails(e)
  /\ UNCHANGED <<environment, proposal, call, rev, row, ghosts>>

(* The first check, and the new content in a temporary file where there is one. *)
Stage(e) ==
  /\ worker[e] = "ready" /\ ~Stops(e) /\ Unchanged(e)
  /\ worker' = [worker EXCEPT ![e] = "staged"]
  /\ UNCHANGED <<environment, proposal, call, result, row, ghosts>>

\* (a bug to try: what was checked first is not checked again)
StartUnchecked(e) ==
  /\ worker[e] = "staged" /\ ~Stops(e)
  /\ worker' = [worker EXCEPT ![e] = "started"]
  /\ UNCHANGED <<environment, proposal, call, result, row, ghosts>>

(* The second check, the last look at the token, and started is set.           *)
Start(e) ==
  /\ worker[e] = "staged" /\ ~Stops(e) /\ Unchanged(e)
  /\ worker' = [worker EXCEPT ![e] = "started"]
  /\ UNCHANGED <<environment, proposal, call, result, row, ghosts>>

(* The file gets a new version from the edit.                                 *)
Put(e, c) ==
  /\ versions' = Append(versions, c)
  /\ raced' = [Overtaken EXCEPT ![e] = raced[e]]
  /\ touched' = [touched EXCEPT ![e] = TRUE]
  /\ base' = [base EXCEPT ![e] = Now]

(* rename, unlink, or link for a file that must not exist: one call, that       *)
(* leaves the file alone when it fails (WriterFails).  SFTP writes in place,    *)
(* through a handle of the reviewed file: the write may stop half way, and      *)
(* misses a file that has been replaced since.                                *)
Commit(e) ==
  LET p == edit[e]
      inPlace == p.provider = "sftp" /\ p.after # Missing
  IN /\ worker[e] = "started"
     /\ \/ /\ ~inPlace
           /\ (p.after = Missing => versions[Now] # Missing)
           /\ (versions[p.version] = Missing => versions[Now] = Missing)
           /\ Put(e, p.after)
           /\ worker' = [worker EXCEPT ![e] = "written"]
           /\ UNCHANGED outcome
        \/ /\ inPlace /\ versions[Now] # Missing /\ Put(e, p.after)
           /\ worker' = [worker EXCEPT ![e] = "written"]
           /\ UNCHANGED outcome
        \/ /\ inPlace /\ versions[Now] # Missing /\ Put(e, Torn)
           /\ Ended(e, Failure(e, "failed"))
        \/ /\ inPlace /\ ~Unchanged(e)
           /\ worker' = [worker EXCEPT ![e] = "written"]
           /\ UNCHANGED <<outcome, versions, touched, base, raced>>
     /\ UNCHANGED <<foreign, crashes, bound, proposal, call, rev, row, spared>>

(* The file is read back: content and attributes are those proposed.           *)
Verify(e) ==
  /\ worker[e] = "written" /\ versions[Now] = edit[e].after
  /\ Ended(e, "applied")
  /\ rev' = [rev EXCEPT ![e] = Now]
  /\ UNCHANGED <<environment, proposal, call, row, ghosts>>

\* (a bug to try: the result is returned whether it could be saved or not)
WorkerSavesOrNot(e, ok) ==
  /\ worker[e] = "saving"
  /\ IF ok THEN Saved(e, outcome[e]) ELSE UNCHANGED row
  /\ worker' = [worker EXCEPT ![e] = "ended"]
  /\ UNCHANGED <<environment, proposal, call, result, ghosts>>

(* The worker saves its result itself; when it cannot, it returns an error.     *)
WorkerSaves(e, ok) ==
  /\ worker[e] = "saving"
  /\ IF ok
       THEN Saved(e, outcome[e]) /\ UNCHANGED outcome
       ELSE outcome' = [outcome EXCEPT ![e] = "unknown"] /\ UNCHANGED row
  /\ worker' = [worker EXCEPT ![e] = "ended"]
  /\ UNCHANGED <<environment, proposal, call, rev, ghosts>>

WriterStep(e) == Stage(e) \/ Start(e) \/ Commit(e) \/ Verify(e) \/ WriterFails(e)

-----------------------------------------------------------------------------
(* bounded_task_for: the worker's result, unless the task is cancelled, or      *)
(* sixty seconds have passed; then nobody knows.                              *)
Observe(e) ==
  /\ pc[e] = "observing" /\ worker[e] = "ended" /\ ~token[e]
  /\ Return(e, outcome[e])
  /\ UNCHANGED <<environment, proposal, moved, capture, worker, result, row, ghosts>>

\* (a bug to try: the wait only ends when the worker does)
ObserverWaits(e) ==
  /\ pc[e] = "observing" /\ worker[e] = "ended"
  /\ Return(e, "unknown")
  /\ UNCHANGED <<environment, proposal, moved, capture, worker, result, row, ghosts>>

ObserverLeaves(e) ==
  /\ pc[e] = "observing"
  /\ Return(e, "unknown")
  /\ UNCHANGED <<environment, proposal, moved, capture, worker, result, row, ghosts>>

(* The helper's intent is written to the shell: note_dispatched.              *)
WriteHelper(e) ==
  /\ capture[e] = "kept"
  /\ capture' = [capture EXCEPT ![e] = "dispatched"]
  /\ worker' = [worker EXCEPT ![e] = "ready"]
  /\ UNCHANGED <<environment, proposal, pc, token, moved, answer, result, row, ghosts>>

(* finish_agent_terminal_file_edit takes the capture.  Output that does not     *)
(* hold the helper's own report shows nothing.                               *)
FinishTerminal(e) ==
  /\ pc[e] = "captured" /\ capture[e] # "none"
  /\ capture' = [capture EXCEPT ![e] = "none"]
  /\ IF capture[e] = "kept"
       THEN Return(e, "error") /\ UNCHANGED outcome
       ELSE /\ pc' = [pc EXCEPT ![e] = "saving"]
            /\ \/ worker[e] = "ended" /\ UNCHANGED outcome
               \/ outcome' = [outcome EXCEPT ![e] = "unknown"]
            /\ UNCHANGED <<token, answer>>
  /\ UNCHANGED <<environment, proposal, moved, worker, rev, row, ghosts>>

-----------------------------------------------------------------------------
(* What is stopped before its writer has started.  Text in a shell cannot be    *)
(* taken back.                                                              *)
Stopped(S) ==
  spared' = [e \in Edits |->
    \/ spared[e]
    \/ e \in S /\ pc[e] # "none"
       /\ worker[e] \in (IF Terminal(e) THEN {"idle"} ELSE {"idle", "ready", "staged"})]

Dropped(S) ==
  /\ pc' = [e \in Edits |->
              IF e \in S /\ pc[e] \in {"pending", "approved", "captured"} THEN "over" ELSE pc[e]]
  /\ token' = [e \in Edits |-> token[e] \/ (e \in S /\ InFlight(e))]
  /\ capture' = [e \in Edits |-> IF e \in S THEN "none" ELSE capture[e]]

(* cancel_agent_file_operation: the proposal, or the capture and its intent, or *)
(* the token of the task.                                                   *)
Cancel(e) ==
  /\ pc[e] \notin {"none", "over"}
  /\ Dropped({e}) /\ Stopped({e})
  /\ UNCHANGED <<environment, proposal, moved, answer, worker, result, row, touched, base,
                 raced>>

\* (a bug to try: what is being dispatched is not told that the target moved)
TargetMovesQuietly ==
  /\ baselines' = {}
  /\ pc' = [e \in Edits |->
              IF pc[e] \in {"pending", "approved", "captured"} THEN "over" ELSE pc[e]]
  /\ capture' = [e \in Edits |-> "none"]
  /\ moved' = [e \in Edits |-> moved[e] \/ InFlight(e)]
  /\ Stopped(Edits)
  /\ UNCHANGED <<environment, edit, token, answer, worker, result, row, touched, base,
                 raced>>

(* SessionFileState::invalidate, when the target of the session moves or the    *)
(* session ends.                                                            *)
TargetMoves ==
  /\ baselines' = {}
  /\ moved' = [e \in Edits |-> moved[e] \/ InFlight(e)]
  /\ Dropped(Edits) /\ Stopped(Edits)
  /\ UNCHANGED <<environment, edit, answer, worker, result, row, touched, base, raced>>

(* A write to the shell fails: some of the command may have got through.        *)
HelperWriteFails(e) ==
  /\ capture[e] = "kept"
  /\ baselines' = {}
  /\ moved' = [d \in Edits |-> moved[d] \/ InFlight(d)]
  /\ Dropped(Edits) /\ Stopped(Edits \ {e})
  /\ worker' \in {worker, [worker EXCEPT ![e] = "ready"]}
  /\ UNCHANGED <<environment, edit, answer, result, row, touched, base, raced>>

(* A proposal's time is up.                                                 *)
Expire(e) ==
  /\ pc[e] \in {"pending", "approved"}
  /\ pc' = [pc EXCEPT ![e] = "over"]
  /\ UNCHANGED <<environment, proposal, token, moved, capture, answer, worker, result,
                 row, ghosts>>

(* The application dies and is started again.                                *)
Crash ==
  /\ crashes < bound.crashes
  /\ crashes' = crashes + 1
  /\ baselines' = {}
  /\ pc' = [e \in Edits |-> IF pc[e] = "none" THEN "none" ELSE "over"]
  /\ worker' = [e \in Edits |->
       IF Terminal(e) \/ worker[e] \in {"idle", "ended"} THEN worker[e] ELSE "dead"]
  /\ capture' = [e \in Edits |-> "none"]
  /\ UNCHANGED <<versions, foreign, bound, edit, token, moved, answer, result, row, ghosts>>

Next ==
  \/ \E c \in bound.texts \cup {Missing} : ForeignWrite(c)
  \/ ReadFile \/ TargetMoves \/ Crash
  \/ \E n \in baselines : ForgetBaseline(n)
  \/ \E e \in bound.edits :
       \/ Prepare(e) \/ PrepareRestore(e) \/ Approve(e) \/ Expire(e) \/ Cancel(e)
       \/ Dispatch(e) \/ Prepared(e) \/ PreparationFails(e)
       \/ \E ok \in BOOLEAN : Journal(e, ok) \/ SaveResult(e, ok) \/ WorkerSaves(e, ok)
       \/ WriterStep(e) \/ Observe(e) \/ ObserverLeaves(e)
       \/ WriteHelper(e) \/ HelperWriteFails(e) \/ FinishTerminal(e)

(* SQLite answers, the profile lookup (SQLite too) ends, the observer's timer    *)
(* goes off.  Nothing is assumed of the writers.                              *)
Spec ==
  /\ Init /\ [][Next]_vars
  /\ \A e \in Edits : WF_vars(ObserverLeaves(e))
       /\ WF_vars(\E ok \in BOOLEAN : Journal(e, ok) \/ SaveResult(e, ok))
       /\ WF_vars(Prepared(e) \/ PreparationFails(e))

-----------------------------------------------------------------------------
(* Every variable has the type its declaration says.                         *)
TypeOK ==
  /\ versions \in Seq(Texts \cup {Missing, Torn}) /\ versions # <<>>
  /\ bound \in Bounds /\ foreign \in 0..bound.foreign /\ crashes \in 0..bound.crashes
  /\ baselines \subseteq 1..Now /\ Cardinality(baselines) <= MaxBaselines
  /\ edit \in [Edits -> Proposal]
  /\ pc \in [Edits -> {"none", "pending", "approved", "journal", "prepare", "saving",
                       "observing", "captured", "over"}]
  /\ token \in [Edits -> BOOLEAN] /\ moved \in [Edits -> BOOLEAN]
  /\ capture \in [Edits -> {"none", "kept", "dispatched"}]
  /\ worker \in [Edits -> {"idle", "ready", "staged", "started", "written", "saving",
                           "ended", "dead"}]
  /\ outcome \in [Edits -> Outcomes]
  /\ rev \in [Edits -> Nat]
  /\ row \in [Edits -> Outcomes \cup {"none", "dispatching"}]
  /\ answer \in [Edits -> Outcomes \cup {"none", "plan", "error"}]
  /\ touched \in [Edits -> BOOLEAN] /\ raced \in [Edits -> BOOLEAN]
  /\ base \in [Edits -> Nat] /\ spared \in [Edits -> BOOLEAN]

(* agent_file_edits_state.rs, line 111: "A write is never started without       *)
(* durable" evidence; the row is there before the file is touched, whoever      *)
(* writes it and whatever crashes.                                           *)
WritesAreJournaled == \A e \in Edits : touched[e] => row[e] # "none"

(* A row that says applied is of an edit whose text was in the file, at the      *)
(* revision the row gives; one that says failed or conflict is of an edit that  *)
(* has not touched the file and, rows being final, never will.                 *)
RowsAreTrue ==
  \A e \in Edits :
    /\ row[e] = "applied" => /\ rev[e] \in 1..Now
                             /\ versions[rev[e]] = edit[e].after
    /\ row[e] \in {"failed", "conflict"} => ~touched[e]

(* An answer that says what happened is what the journal says, then and later:  *)
(* after a crash the user finds the result he was told.                       *)
AnswersAreDurable ==
  \A e \in Edits : answer[e] \in Final => row[e] = answer[e]

(* What the journal and the answers say of an edit is what became of the file, *)
(* whoever writes it and whatever crashes.                                     *)
JournalIsTrue == WritesAreJournaled /\ RowsAreTrue /\ AnswersAreDurable

(* An edit that is cancelled, or whose target moves, before its writer has       *)
(* started never touches the file, wherever its dispatch is at that moment.     *)
StoppedNeverTouches == \A e \in Edits : spared[e] => ~touched[e]

(* An edit replaces the version that was reviewed, or one that was written       *)
(* after the writer's last check: the plan's "a version conflict is not          *)
(* overwritten" holds up to the rename, which compares nothing.               *)
OnlyLateWritesAreLost ==
  \A e \in Edits : touched[e] => Same(base[e], edit[e].version) \/ raced[e]

(* An edit stopped before its writer has started never touches the file, and   *)
(* one that was not replaces the version that was reviewed, or one written     *)
(* after the writer's last check.                                              *)
OnlyReviewedIsReplaced == StoppedNeverTouches /\ OnlyLateWritesAreLost

(* Undoing an edit replaces exactly what that edit left, and nothing written    *)
(* since, with what the edit had been shown.                                 *)
RestoresUndo ==
  \A e \in Edits, d \in Edits :
    d \in edit[e].restores /\ touched[e] /\ ~raced[e]
      => Same(base[e], rev[d]) /\ edit[e].after = versions[edit[d].version]

(* A dispatched edit is answered though its writer hangs for ever.             *)
Unanswered == \E e \in Edits : InFlight(e)
DispatchIsAnswered == Unanswered ~> ~Unanswered

=============================================================================
