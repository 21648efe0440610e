----------------------------- MODULE SftpProgram -----------------------------
(***************************************************************************)
(* One run of the system's sftp program on a pseudo terminal:               *)
(* run_sftp_launch_plan_with_progress_ref of connection/sftp.rs, which reads    *)
(* what the program shows, answers what it asks and types one command after     *)
(* another, and the watcher of sftp_process.rs, which kills the program when    *)
(* the task is cancelled or its time is up.                                  *)
(*                                                                         *)
(* The program and its ssh are external.  What they show is a sequence of       *)
(* signs; the window is the set of those seen since something was last typed.   *)
(***************************************************************************)
EXTENDS Naturals, Sequences, SequencesExt

(* What the operations type, when no connection of their own did what they are for.  *)
Upload == <<"cd", "put", "bye">>
UploadFile == <<"cd", "put", "bye">>
UploadTo == <<"put", "bye">>
Download == <<"lcd", "get", "bye">>
DownloadFile == <<"get", "bye">>
MakeFolder == <<"mkdir", "bye">>
Delete == <<"rm", "bye">>
Listing == <<"cd", "ls", "bye">>
RootListing == <<"ls", "bye">>
Probe == <<"pwd", "bye">>

Operations == {Upload, UploadFile, UploadTo, Download, DownloadFile, MakeFolder, Delete, Listing,
               RootListing, Probe}

(* sftp_command_changes_files                                                *)
Changing == {"put", "get", "mkdir", "rm"}

VARIABLES
  commands,  \* what is to be typed
  saved,     \* passwords of the launch plan, left to be typed
  at,        \* the loop: read, decide, writing, wait, done
  sent,      \* command_index
  window,    \* prompt_window
  late,      \* the grace for a prompt that never comes is over
  early,     \* a ghost: the first command was typed before a prompt
  expired,   \* the deadline has passed
  token,     \* the cancel token
  answer,    \* "none", "ok", "failed" or "cancelled"
  began,     \* SFTP_ACTION_STARTED is in the error
  alive,     \* the program runs
  phase,     \* it connects, asks for a password, or is connected
  shown,     \* what it has shown and nobody has read
  typed,     \* the lines it has not read yet
  results    \* a ghost: how each command it executed went

loop == <<at, sent, window, early, answer, began, saved>>
program == <<alive, phase, shown, results>>
vars == <<commands, loop, late, expired, token, program, typed>>

Init ==
  /\ commands \in Operations
  /\ saved \in 0..1
  /\ at = "read" /\ sent = 0 /\ window = {} /\ late = FALSE /\ early = FALSE
  /\ expired = FALSE /\ token = FALSE /\ answer = "none" /\ began = FALSE
  /\ alive = TRUE /\ phase = "connecting" /\ shown = <<>> /\ typed = <<>>
  /\ results = <<>>

-----------------------------------------------------------------------------
(* The program.                                                              *)

Shows(signs) == shown' = shown \o signs

(* It asks for a password, or whether to trust a key, or warns of one; what was   *)
(* typed before a password is asked for is thrown away.                        *)
Asks ==
  /\ alive /\ phase = "connecting"
  /\ \/ phase' = "password" /\ Shows(<<"password?">>) /\ typed' = <<>>
     \/ phase' = "trust" /\ Shows(<<"trust?">>) /\ UNCHANGED typed
     \/ phase' = "connecting" /\ ~Contains(shown, "key changed") /\ Shows(<<"key changed">>)
        /\ UNCHANGED typed
  /\ UNCHANGED <<commands, loop, late, expired, token, alive, results>>

Reads ==
  /\ alive /\ phase \in {"password", "trust"} /\ typed # <<>>
  /\ typed' = Tail(typed)
  /\ phase' = "connecting again"
  /\ UNCHANGED <<commands, loop, late, expired, token, alive, shown, results>>

Connects ==
  /\ alive /\ phase \in {"connecting", "connecting again"}
  /\ phase' = "greeting"
  /\ Shows(<<"connected">>)
  /\ UNCHANGED <<commands, loop, late, expired, token, alive, results, typed>>

Prompts ==
  /\ alive /\ phase = "greeting"
  /\ phase' = "connected"
  /\ Shows(<<"prompt">>)
  /\ UNCHANGED <<commands, loop, late, expired, token, alive, results, typed>>

(* A command that fails says so and leaves the program where it was.            *)
Executes ==
  /\ alive /\ phase = "connected" /\ typed # <<>>
  /\ typed' = Tail(typed)
  /\ IF Head(typed) = "bye"
       THEN alive' = FALSE /\ UNCHANGED <<shown, results>>
       ELSE /\ \E fine \in BOOLEAN :
                 /\ results' = Append(results, [command |-> Head(typed), fine |-> fine])
                 /\ Shows(IF fine THEN <<"prompt">> ELSE <<"error", "prompt">>)
            /\ UNCHANGED alive
  /\ UNCHANGED <<commands, loop, late, expired, token, phase>>

Dies ==
  /\ alive /\ phase # "connected"
  /\ alive' = FALSE /\ phase' = "failed"
  /\ UNCHANGED <<commands, loop, late, expired, token, shown, typed, results>>

-----------------------------------------------------------------------------
(* The loop.                                                                 *)

\* (a bug to try: a command counts once the next one was typed)
BeganWhenAnswered == \E i \in 1..(sent - 1) : commands[i] \in Changing

(* Whatever was to be typed counts as begun.                                  *)
Began == \E i \in 1..sent : commands[i] \in Changing

(* The end: the program is killed when its session is dropped, and a run that     *)
(* was cancelled or late ends so whatever it had come to.                      *)
Ends(a) ==
  /\ at' = "done"
  /\ answer' = IF token THEN "cancelled" ELSE IF expired THEN "failed" ELSE a
  /\ began' = (answer' = "failed" /\ Began)
  /\ alive' = FALSE
  /\ UNCHANGED <<commands, sent, window, early, saved, late, expired, token, phase, shown, typed,
                 results>>

(* Everything there is is read; unless the run is cancelled or late.            *)
Read ==
  /\ at = "read"
  /\ IF token \/ expired THEN Ends("failed")
     ELSE /\ window' = window \cup ToSet(shown)
          /\ shown' = <<>>
          /\ at' = "decide"
          /\ UNCHANGED <<commands, sent, early, answer, began, saved, late, expired, token, alive,
                         phase, results, typed>>

(* write_to_pty, which may wait until somebody reads.                          *)
Types(line) ==
  /\ at' = "writing"
  /\ typed' = Append(typed, line)
  /\ window' = {}

\* (a bug to try: the window is not looked at for errors)
Trusts == FALSE
(* A command that failed is noticed before anything else is typed: the program    *)
(* exits with 0 all the same.                                                *)
ShowsFailure == sent > 0 /\ "error" \in window

(* should_send_sftp_commands: the first command is typed at a prompt, or when the  *)
(* connection is there, or when nothing is asked any more for a while.           *)
Ready ==
  \/ "prompt" \in window
  \/ sent = 0 /\ "connected" \in window
  \/ sent = 0 /\ late /\ saved = 0

Decide ==
  /\ at = "decide"
  /\ IF expired \/ ShowsFailure \/ "key changed" \in window THEN Ends("failed")
     ELSE IF "trust?" \in window THEN
       /\ Types("yes")
       /\ UNCHANGED <<commands, sent, early, answer, began, saved, late, expired, token, program>>
     ELSE IF "password?" \in window THEN
       IF saved = 0 THEN Ends("failed")
       ELSE /\ Types("secret") /\ saved' = saved - 1
            /\ UNCHANGED <<commands, sent, early, answer, began, late, expired, token, program>>
     ELSE IF sent < Len(commands) /\ Ready THEN
       /\ Types(commands[sent + 1])
       /\ sent' = sent + 1
       /\ early' = (early \/ (sent = 0 /\ "prompt" \notin window))
       /\ UNCHANGED <<commands, answer, began, saved, late, expired, token, program>>
     ELSE
       /\ at' = "wait"
       /\ UNCHANGED <<commands, sent, window, early, answer, began, saved, late, expired, token,
                      program, typed>>

(* The write returns when it is read, or when the program is gone.               *)
Written ==
  /\ at = "writing"
  /\ at' = "wait"
  /\ UNCHANGED <<commands, sent, window, early, answer, began, saved, late, expired, token, program,
                 typed>>

(* child.try_wait: what was shown in the meantime is read, and not looked at.     *)
Wait ==
  /\ at = "wait"
  /\ IF ~alive THEN Ends(IF phase = "connected" THEN "ok" ELSE "failed")
     ELSE IF expired THEN Ends("failed")
     ELSE /\ at' = "read"
          /\ UNCHANGED <<commands, sent, window, early, answer, began, saved, late, expired, token,
                         program, typed>>

-----------------------------------------------------------------------------
Late ==
  /\ ~late /\ sent = 0 /\ at # "done"
  /\ late' = TRUE
  /\ UNCHANGED <<commands, loop, expired, token, program, typed>>

(* The time is up: the whole of it for a short command, the time without any      *)
(* advance for a transfer.                                                   *)
Expire ==
  /\ ~expired /\ at # "done"
  /\ expired' = TRUE
  /\ UNCHANGED <<commands, loop, late, token, program, typed>>

Cancel ==
  /\ ~token /\ at # "done"
  /\ token' = TRUE
  /\ UNCHANGED <<commands, loop, late, expired, program, typed>>

\* (a bug to try: only the loop looks at the clock)
KillsCancelled == token
Overdue == token \/ expired

(* SftpProcessCancellation                                                   *)
Kill ==
  /\ Overdue /\ alive /\ at # "done"
  /\ alive' = FALSE /\ phase' = "killed"
  /\ UNCHANGED <<commands, loop, late, expired, token, shown, typed, results>>

Loop == Read \/ Decide \/ Wait
(* A write ends for sure only when the program does.                           *)
Unblocked == ~alive /\ Written

Next ==
  \/ Asks \/ Reads \/ Connects \/ Prompts \/ Executes \/ Dies
  \/ Loop \/ Written \/ Late \/ Expire \/ Cancel \/ Kill

Fairness == WF_vars(Loop) /\ WF_vars(Unblocked) /\ WF_vars(Kill) /\ WF_vars(Expire)

Spec == Init /\ [][Next]_vars /\ Fairness

-----------------------------------------------------------------------------
TypeOK ==
  /\ commands \in Operations /\ saved \in 0..1
  /\ at \in {"read", "decide", "writing", "wait", "done"}
  /\ sent \in 0..Len(commands)
  /\ window \subseteq {"password?", "trust?", "key changed", "connected", "prompt", "error"}
  /\ answer \in {"none", "ok", "failed", "cancelled"}
  /\ {late, early, expired, token, began, alive} \subseteq BOOLEAN
  /\ phase \in {"connecting", "password", "trust", "connecting again", "greeting", "connected", "failed",
                "killed"}

Did(c) == \E i \in DOMAIN results : results[i].command = c /\ results[i].fine
Tried(c) == \E i \in DOMAIN results : results[i].command = c

(* A run that fails without saying that it had begun has changed no file, so that  *)
(* another route may be tried.                                               *)
UnstartedChangesNothing ==
  answer = "failed" /\ ~began => \A c \in Changing : ~Tried(c)

(* Commands that are typed at prompts are executed one by one: nothing is done     *)
(* after one that failed, and the run is answered as done only if all of it was.  *)
PromptedGoesInOrder ==
  early \/ /\ \A i \in DOMAIN results : i < Len(results) => results[i].fine
           /\ answer = "ok" => \A c \in ToSet(commands) \ {"bye"} : Did(c)

(* The run ends, though the program may neither read, write nor exit.            *)
RunsEnd == <>(at = "done")

(* After a cd that failed nothing is uploaded to wherever the program is.         *)
NothingAfterAFailedCd == Tried("cd") /\ ~Did("cd") => ~Tried("put")

=============================================================================
