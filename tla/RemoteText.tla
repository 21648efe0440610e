------------------------------ MODULE RemoteText ------------------------------
(***************************************************************************)
(* A text on a server in the built-in editor: useRemoteFileEditor.ts reads it     *)
(* and saves it, read_remote_text_file_with_cancel and                        *)
(* save_remote_text_file_with_cancel of connection/sftp.rs carry that out.  Others  *)
(* write the same file, and the window may turn to another server meanwhile.      *)
(***************************************************************************)
EXTENDS Integers

CONSTANTS
  Targets,   \* servers (or accounts on them)
  Drafts,    \* texts the user types
  Others     \* texts others write

First == "as it was"
Broken == "a part"      \* an upload that ended in the middle
Binary == "binary"      \* too long, or no UTF-8 text
Empty == ""             \* in an editor that could not read its file
Texts == {First, Broken, Binary, Empty} \cup Drafts \cup Others

VARIABLES
  here,      \* the target the window is at
  remote,    \* the text on each target
  editor,    \* the open editor: [target, content, saved, revision]
  at,        \* "closed", "loading", "open", "saving"
  step,      \* the command: "none", "read", "check", "write", "truncated", "answer"
  force,     \* it was told to overwrite
  sent,      \* the text it is to write
  answer,    \* its answer: "none", "ok", "changed" or "failed"
  got,       \* the text it answers with
  token,     \* its cancel token
  asked,     \* the user is asked whether to overwrite
  lost,      \* a ghost: a text the editor had not read was overwritten, nobody was asked
  late       \* a ghost: it was written after the check

window == <<here, editor, at, asked>>
command == <<step, force, sent, answer, got, token>>
ghosts == <<lost, late>>
vars == <<window, remote, command, ghosts>>

NoEditor == [target |-> CHOOSE t \in Targets : TRUE, content |-> Empty, saved |-> Empty,
             revision |-> Empty]

Init ==
  /\ here \in Targets
  /\ remote \in [Targets -> {First, Binary}]
  /\ editor = NoEditor /\ at = "closed" /\ step = "none" /\ force = FALSE
  /\ sent = First /\ answer = "none" /\ got = First /\ token = FALSE /\ asked = FALSE
  /\ lost = FALSE /\ late = FALSE

-----------------------------------------------------------------------------
(* The window.                                                               *)

Dirty == editor.content # editor.saved
(* targetIsCurrent                                                           *)
Current == editor.target = here

Turn(t) ==
  /\ t # here /\ here' = t
  /\ UNCHANGED <<remote, editor, at, asked, command, ghosts>>

Ask(place, first) ==
  /\ at' = place /\ step' = first /\ answer' = "none" /\ token' = FALSE

OpenFile ==
  /\ at = "closed" /\ step = "none"
  /\ editor' = [NoEditor EXCEPT !.target = here]
  /\ Ask("loading", "read")
  /\ force' = FALSE
  /\ UNCHANGED <<here, remote, sent, got, asked, ghosts>>

Type(d) ==
  /\ at \in {"open", "saving"} /\ d # editor.content
  /\ editor' = [editor EXCEPT !.content = d]
  /\ UNCHANGED <<here, at, asked, remote, command, ghosts>>

Close ==
  /\ at = "open" /\ ~asked
  /\ at' = "closed"
  /\ UNCHANGED <<here, editor, asked, remote, command, ghosts>>

\* (a bug to try: the file is saved wherever the window is now)
SavedTo == here
(* The save goes where the text came from, and only while the window is there.     *)
SaveTarget == editor.target

Save(overwrite) ==
  /\ at = "open" /\ step = "none" /\ Dirty /\ Current
  /\ asked = overwrite
  /\ Ask("saving", IF overwrite THEN "write" ELSE "check")
  /\ force' = overwrite /\ sent' = editor.content /\ asked' = FALSE
  /\ UNCHANGED <<here, remote, editor, got, ghosts>>

Decline ==
  /\ asked /\ asked' = FALSE
  /\ UNCHANGED <<here, editor, at, remote, command, ghosts>>

(* The answer.  What was typed while the text was being saved stays, and is dirty.   *)
Settle ==
  /\ step = "answer"
  /\ step' = "none"
  /\ at' = "open"
  /\ editor' =
       CASE answer # "ok"    -> editor
         [] at = "loading"   -> [editor EXCEPT !.content = got, !.saved = got, !.revision = got]
         [] OTHER            -> [editor EXCEPT !.saved = got, !.revision = got]
  /\ asked' = (at = "saving" /\ answer = "changed")
  /\ UNCHANGED <<here, remote, force, sent, answer, got, token, ghosts>>

-----------------------------------------------------------------------------
(* The command.                                                              *)

Ends(a) == step' = "answer" /\ answer' = a

(* read_remote_text_file_with_cancel                                          *)
Read ==
  /\ step = "read"
  /\ IF token THEN Ends("failed") /\ UNCHANGED got
     ELSE \/ Ends("failed") /\ UNCHANGED got
          \/ /\ remote[SaveTarget] # Binary
             /\ Ends("ok") /\ got' = remote[SaveTarget]
  /\ UNCHANGED <<window, remote, force, sent, token, ghosts>>

\* (a bug to try: a text is known by its length)
SameLength(a, b) == a = b \/ {a, b} \cap {First, Broken, Binary, Empty} = {}
(* remote_text_revision                                                      *)
SameRevision(a, b) == a = b

Check ==
  /\ step = "check"
  /\ \/ Ends("failed") /\ UNCHANGED late
     \/ /\ ~token /\ remote[SaveTarget] # Binary
        /\ IF SameRevision(remote[SaveTarget], editor.revision)
             THEN step' = "write" /\ UNCHANGED answer
             ELSE Ends("changed")
        /\ late' = FALSE
  /\ UNCHANGED <<window, remote, force, sent, got, token, lost>>

(* The upload opens the file, which empties it, and then writes it.               *)
Truncate ==
  /\ step = "write"
  /\ \/ Ends("failed") /\ UNCHANGED <<remote, lost>>
     \/ /\ ~token
        /\ step' = "truncated"
        /\ remote' = [remote EXCEPT ![SaveTarget] = Broken]
        /\ lost' = (lost \/ (remote[SaveTarget] # editor.revision /\ ~late /\ ~force))
        /\ UNCHANGED answer
  /\ UNCHANGED <<window, force, sent, got, token, late>>

Write ==
  /\ step = "truncated"
  /\ \/ Ends("failed") /\ UNCHANGED <<remote, got>>
     \/ /\ ~token
        /\ remote' = [remote EXCEPT ![SaveTarget] = sent]
        /\ got' = sent
        /\ Ends("ok")
  /\ UNCHANGED <<window, force, sent, token, ghosts>>

CancelIt ==
  /\ step # "none" /\ ~token /\ token' = TRUE
  /\ UNCHANGED <<window, remote, step, force, sent, answer, got, ghosts>>

(* Somebody else writes the file.  One who writes while it is being uploaded has      *)
(* written it before or after.                                                *)
OthersWrite(t, x) ==
  /\ step # "truncated" /\ remote[t] # x
  /\ remote' = [remote EXCEPT ![t] = x]
  /\ late' = (IF t = editor.target THEN step = "write" ELSE late)
  /\ UNCHANGED <<window, command, lost>>

Next ==
  \/ \E t \in Targets : Turn(t) \/ \E x \in Others : OthersWrite(t, x)
  \/ \E d \in Drafts : Type(d)
  \/ \E o \in BOOLEAN : Save(o)
  \/ OpenFile \/ Close \/ Decline \/ Settle
  \/ Read \/ Check \/ Truncate \/ Write \/ CancelIt

Spec == Init /\ [][Next]_vars

-----------------------------------------------------------------------------
TypeOK ==
  /\ here \in Targets /\ remote \in [Targets -> Texts]
  /\ editor \in [target : Targets, content : Texts, saved : Texts, revision : Texts]
  /\ at \in {"closed", "loading", "open", "saving"}
  /\ step \in {"none", "read", "check", "write", "truncated", "answer"}
  /\ answer \in {"none", "ok", "changed", "failed"} /\ sent \in Texts /\ got \in Texts

(* What others have written and the editor has not read is overwritten only when the    *)
(* user says so, or when it came between the check and the upload, which nothing can  *)
(* tell.  A save goes to the server the text was read from.                         *)
OthersTextIsKept == ~lost

SavesStayThere ==
  \A t \in Targets :
    step \in {"write", "truncated"} /\ remote'[t] # remote[t] /\ step' # step
      => t = editor.target

=============================================================================
