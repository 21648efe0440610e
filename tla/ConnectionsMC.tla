---------------------------- MODULE ConnectionsMC -----------------------------
(* Terminal sessions, attempts to connect and runs of a task, for TLC: a       *)
(* behaviour is one of one of these parts, and the variables of the others     *)
(* keep their first values.                                                    *)
EXTENDS Integers, Sequences

CONSTANTS MaxAttempts, Opened,  \* TerminalSessions
          Keys,                 \* SshConnect
          Codes                 \* SshTaskRun

VARIABLES
  part,  \* the part this behaviour is of
  current, pane, attaching, listening, step, kind, call, records, shell, told, closed,
  leaving, asked, overtaken,
  conn, leg, at, open, tracked, shut, token, watcher, forward, stop, tries, error, offered,
  typed,
  pc, taskStop, late, attempted, protocol, channel, status, outcome, link, remote,
  taskRecords, truth

OneKey == <<"id">>

Terminals == INSTANCE TerminalSessions
Connect   == INSTANCE SshConnect
Run       == INSTANCE SshTaskRun WITH stop <- taskStop, records <- taskRecords

terminals == <<current, pane, attaching, listening, step, kind, call, records, shell, told,
               closed, leaving, asked, overtaken>>
connect   == <<conn, leg, at, open, tracked, shut, token, watcher, forward, stop, tries,
               error, offered, typed>>
run       == <<pc, taskStop, late, attempted, protocol, channel, status, outcome, link, remote,
               taskRecords, truth>>
vars      == <<part, terminals, connect, run>>

ASSUME Bounds == /\ MaxAttempts \in Nat /\ Opened \subseteq Terminals!Kinds
                 /\ Keys \in Seq(STRING)
                 /\ Codes \subseteq 0 .. 255 /\ 0 \in Codes

Init ==
  /\ part \in {"terminals", "connect", "run"}
  /\ Terminals!Init /\ Connect!Init /\ Run!Init
  /\ part # "connect" => conn = CHOOSE c \in Connect!Starts : TRUE

Next ==
  \/ part = "terminals" /\ Terminals!Next /\ UNCHANGED <<part, connect, run>>
  \/ part = "connect" /\ Connect!Next /\ UNCHANGED <<part, terminals, run>>
  \/ part = "run" /\ Run!Next /\ UNCHANGED <<part, terminals, connect>>

(* The fairness of each part, in the behaviours that are of it.                *)
Fairness ==
  /\ \A a \in Terminals!Ids :
       /\ WF_terminals(part = "terminals" /\ Terminals!Backend(a))
       /\ WF_terminals(part = "terminals" /\ Terminals!Window(a))
       /\ WF_terminals(part = "terminals" /\ Terminals!Obeys(a))
  /\ WF_connect(part = "connect" /\ Connect!Runs)
  /\ WF_connect(part = "connect" /\ Connect!Forwards)
  /\ WF_connect(part = "connect" /\ Connect!Watch)
  /\ WF_run(part = "run" /\ Run!Begin) /\ WF_run(part = "run" /\ Run!Attempt)
  /\ WF_run(part = "run" /\ Run!Stopped) /\ WF_run(part = "run" /\ Run!ConnectInterrupted)
  /\ WF_run(part = "run" /\ Run!Conclude) /\ WF_run(part = "run" /\ Run!Watchdog)

Spec == Init /\ [][Next]_vars /\ Fairness

-----------------------------------------------------------------------------
(* The types of all parts.                                                     *)
TypesOK == Terminals!TypeOK /\ Connect!TypeOK /\ Run!TypeOK

(* No pane goes on showing a shell that has ended, and no session stays in the *)
(* backend, nor its shell, that no pane shows.                                 *)
SessionsFollowPanes == Terminals!SessionsFollowPanes

(* What an attempt to connect or a task run is said to have come to is what    *)
(* happened: a cancelled one was cancelled and is neither a failed route nor a *)
(* session, a completed one ended so, one that was not started never will be.  *)
OutcomesAreTrue == Connect!CancelledIsCancelled /\ Run!CompletedIsTrue /\ Run!NotStartedIsTrue

(* A password is not offered again after it was refused, not by the system's   *)
(* ssh and not at a second prompt, nor tried as a key's passphrase.            *)
SecretsAreOfferedOnce == Connect!SecretsAreOfferedOnce

(* Attempts and tasks that are cancelled end though the peer never answers,    *)
(* and leave no socket and no forwarding thread behind.                        *)
CancelledWorkEnds ==
  Connect!Stopping \/ taskStop \/ late ~> Connect!Rests \/ Run!Finished
=============================================================================
