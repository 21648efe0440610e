-------------------------- MODULE TerminalSessions --------------------------
(***************************************************************************)
(* A terminal from the moment a pane of the window opens it until its shell,  *)
(* its threads and its record are gone: connect_profile, connect_local_       *)
(* terminal, disconnect_terminal and terminal_session_active of app/          *)
(* commands.rs, the threads of local.rs, ssh.rs and pty.rs, and the pane's     *)
(* connectRemote, connectLocal and disconnect of TerminalPane.vue.             *)
(*                                                                         *)
(* Every attempt to connect has a session id of its own.  A local shell's id   *)
(* is chosen by the window, which listens before it calls; the id of a remote  *)
(* one is the answer to the call, so that its shell may have come and gone     *)
(* before anybody listens.  Calls, events and removals are served in any       *)
(* order.                                                                   *)
(***************************************************************************)
EXTENDS Naturals

CONSTANTS
  MaxAttempts,  \* bounds the attempts of one pane
  Opened        \* the kinds of session a pane asks for

(* SshConnectionBackend, and the local shell.                                *)
Pty == {"local", "system"}         \* a child process on a pseudo terminal
Native == {"direct", "bastion"}    \* a channel of libssh2
Kinds == Pty \cup Native

Ids == 1..MaxAttempts
Nobody == 0

VARIABLES
  current,    \* connectionAttempt: whose attempt is the latest, or nobody's
  pane,       \* sessionId of the pane
  attaching,  \* the session whose listeners are being asked for
  listening,  \* the session whose listeners are on
  step,       \* what each attempt awaits in the window
  kind,       \* how each session reaches its shell
  call,       \* the command that opens it: none, starting, spawned, answered, failed
  records,    \* AppState::sessions
  shell,      \* the shell of each session and the thread that reads from it
  told,       \* the shells that dropping their record tells to end
  closed,     \* terminal:closed events on their way
  leaving,    \* remove_terminal_session_after_exit, spawned and not yet run
  asked,      \* disconnect_terminal calls on their way
  overtaken   \* a ghost: shells that were over when they were registered

window == <<current, pane, attaching, listening, step>>
threads == <<shell, told>>
vars == <<window, kind, call, records, threads, closed, leaving, asked, overtaken>>

Init ==
  /\ current = Nobody /\ pane = Nobody /\ attaching = Nobody /\ listening = Nobody
  /\ step = [a \in Ids |-> "none"]
  /\ kind = [a \in Ids |-> "none"]
  /\ call = [a \in Ids |-> "none"]
  /\ shell = [a \in Ids |-> "none"]
  /\ records = {} /\ told = {} /\ closed = {} /\ leaving = {} /\ asked = {}
  /\ overtaken = {}

-----------------------------------------------------------------------------
(* The backend.                                                              *)

(* spawn_ssh_terminal, spawn_local_terminal: the threads run from here on.  A  *)
(* direct connection that fails before authentication is tried once more with  *)
(* the system's ssh.                                                         *)
Spawn(a) ==
  /\ call[a] = "starting"
  /\ kind' \in {kind} \cup {[kind EXCEPT ![a] = "system"] : d \in {kind[a]} \cap {"direct"}}
  /\ call' = [call EXCEPT ![a] = "spawned"]
  /\ shell' = [shell EXCEPT ![a] = "running"]
  /\ UNCHANGED <<window, records, told, closed, leaving, asked, overtaken>>

SpawnFails(a) ==
  /\ call[a] = "starting"
  /\ call' = [call EXCEPT ![a] = "failed"]
  /\ UNCHANGED <<window, kind, records, threads, closed, leaving, asked, overtaken>>

(* register_terminal_session, and the answer.                                *)
Register(a) ==
  /\ call[a] = "spawned"
  /\ call' = [call EXCEPT ![a] = "answered"]
  /\ records' = records \cup {a}
  /\ overtaken' = IF shell[a] = "over" THEN overtaken \cup {a} ELSE overtaken
  /\ UNCHANGED <<window, kind, threads, closed, leaving, asked>>

(* The shell ends, and the thread that sees it calls on_exit: child.wait has     *)
(* returned, or the channel has nothing more to read.                         *)
Exit(a) ==
  /\ shell[a] = "running"
  /\ shell' = [shell EXCEPT ![a] = "over"]
  /\ closed' = closed \cup {a}
  /\ leaving' = leaving \cup {a}
  /\ UNCHANGED <<window, kind, call, records, told, asked, overtaken>>

\* (a bug to try: neither a pseudo terminal nor a forward has a Drop)
DropsNothing(a) ==
  /\ records' = records \ {a}
  /\ UNCHANGED told

(* remove_session drops the terminal: PtySession kills its child, and the      *)
(* forward of a bastion is stopped, which cuts the connection behind it.  The  *)
(* reader of a direct connection keeps the channel open.                      *)
Remove(a) ==
  /\ records' = records \ {a}
  /\ told' = IF a \in records /\ kind[a] \in Pty \cup {"bastion"} THEN told \cup {a} ELSE told

RemoveAfterExit(a) ==
  /\ a \in leaving
  /\ leaving' = leaving \ {a}
  /\ Remove(a)
  /\ UNCHANGED <<window, kind, call, shell, closed, asked, overtaken>>

DisconnectTerminal(a) ==
  /\ a \in asked
  /\ asked' = asked \ {a}
  /\ Remove(a)
  /\ UNCHANGED <<window, kind, call, shell, closed, leaving, overtaken>>

-----------------------------------------------------------------------------
(* The pane.                                                                 *)

(* connectLocal, connectRemote: the previous session is disconnected first.  A  *)
(* pane has a profile or has none for as long as it is there.                   *)
Open(k) ==
  \E a \in Ids :
    /\ step[a] = "none" /\ \A b \in Ids : step[b] = "none" => a <= b
    /\ \A b \in 1..(a - 1) : kind[b] = "local" <=> k = "local"
    /\ current' = a
    /\ asked' = asked \cup ({pane} \ {Nobody})
    /\ listening' = Nobody
    /\ kind' = [kind EXCEPT ![a] = k]
    /\ IF k = "local"
         THEN /\ pane' = a /\ attaching' = a
              /\ step' = [step EXCEPT ![a] = "listening"]
              /\ UNCHANGED call
         ELSE /\ pane' = Nobody /\ attaching' = Nobody
              /\ step' = [step EXCEPT ![a] = "opening"]
              /\ call' = [call EXCEPT ![a] = "starting"]
    /\ UNCHANGED <<records, threads, closed, leaving, overtaken>>

(* disconnect, by its button or because the pane goes.                        *)
Disconnect ==
  /\ current # Nobody
  /\ current' = Nobody /\ pane' = Nobody /\ attaching' = Nobody /\ listening' = Nobody
  /\ asked' = asked \cup ({pane} \ {Nobody})
  /\ UNCHANGED <<step, kind, call, records, threads, closed, leaving, overtaken>>

(* attachTerminalEvents has its listeners, and keeps them if they are wanted.   *)
Attached(a) == attaching = a /\ pane = a

ListenLocal(a) ==
  /\ step[a] = "listening"
  /\ IF Attached(a)
       THEN /\ listening' = a /\ attaching' = Nobody
            /\ step' = [step EXCEPT ![a] = "opening"]
            /\ call' = [call EXCEPT ![a] = "starting"]
       ELSE /\ step' = [step EXCEPT ![a] = "over"]
            /\ UNCHANGED <<listening, attaching, call>>
  /\ UNCHANGED <<current, pane, kind, records, threads, closed, leaving, asked, overtaken>>

\* (a bug to try: an answer that comes too late is ignored)
LateIgnored(a) ==
  /\ step' = [step EXCEPT ![a] = "over"]
  /\ UNCHANGED <<current, pane, attaching, listening, asked>>

(* This attempt gives its session up.                                        *)
GiveUp(a) ==
  /\ asked' = asked \cup {a}
  /\ step' = [step EXCEPT ![a] = "over"]
  /\ UNCHANGED <<current, pane, attaching, listening>>

Answered(a) ==
  /\ step[a] = "opening" /\ call[a] = "answered"
  /\ \/ /\ current # a
        /\ GiveUp(a)
     \/ /\ current = a /\ pane # a
        /\ pane' = a /\ attaching' = a /\ listening' = Nobody
        /\ step' = [step EXCEPT ![a] = "relistening"]
        /\ UNCHANGED <<current, asked>>
     \/ /\ current = a /\ pane = a
        /\ step' = [step EXCEPT ![a] = "verifying"]
        /\ UNCHANGED <<current, pane, attaching, listening, asked>>
  /\ UNCHANGED <<kind, call, records, threads, closed, leaving, overtaken>>

Failed(a) ==
  /\ step[a] = "opening" /\ call[a] = "failed"
  /\ step' = [step EXCEPT ![a] = "over"]
  /\ IF current = a
       THEN pane' = Nobody /\ attaching' = Nobody /\ listening' = Nobody
       ELSE UNCHANGED <<pane, attaching, listening>>
  /\ UNCHANGED <<current, kind, call, records, threads, closed, leaving, asked, overtaken>>

ListenRemote(a) ==
  /\ step[a] = "relistening"
  /\ \/ /\ Attached(a)
        /\ listening' = a /\ attaching' = Nobody
        /\ step' = [step EXCEPT ![a] = "verifying"]
        /\ UNCHANGED <<current, pane, asked>>
     \/ ~Attached(a) /\ GiveUp(a)
  /\ UNCHANGED <<kind, call, records, threads, closed, leaving, overtaken>>

\* (a bug to try: what has ended before anybody listened is not looked for)
ActiveAnyway(a) == TRUE
Active(a) == a \in records

(* terminal_session_active, 150 ms later.  The lock of the sessions is handed  *)
(* out in order, so a removal that was spawned before the wait comes first.    *)
Verify(a) ==
  /\ step[a] = "verifying" /\ a \notin leaving
  /\ step' = [step EXCEPT ![a] = IF Active(a) THEN "active" ELSE "gone"]
  /\ UNCHANGED <<current, pane, attaching, listening, kind, call, records, threads, closed,
                 leaving, asked, overtaken>>

(* The end of connectRemote and connectLocal; a session that has gone is       *)
(* handled as if its event had come.                                         *)
Verified(a) ==
  /\ step[a] \in {"active", "gone"}
  /\ \/ /\ step[a] = "active" /\ current = a /\ pane = a
        /\ step' = [step EXCEPT ![a] = "ready"]
        /\ UNCHANGED <<pane, asked>>
     \/ /\ ~(step[a] = "active" /\ current = a /\ pane = a)
        /\ pane' = IF pane = a THEN Nobody ELSE pane
        /\ asked' = asked \cup {a}
        /\ step' = [step EXCEPT ![a] = "over"]
  /\ UNCHANGED <<current, attaching, listening, kind, call, records, threads, closed, leaving,
                 overtaken>>

(* The event reaches the window, and handleTerminalSessionClosed if the        *)
(* session is the pane's.                                                    *)
CloseEvent(a) ==
  /\ a \in closed
  /\ closed' = closed \ {a}
  /\ IF listening = a /\ pane = a
       THEN pane' = Nobody /\ asked' = asked \cup {a}
       ELSE UNCHANGED <<pane, asked>>
  /\ UNCHANGED <<current, attaching, listening, step, kind, call, records, threads, leaving,
                 overtaken>>

Backend(a) == Register(a) \/ RemoveAfterExit(a) \/ DisconnectTerminal(a)
Window(a) ==
  \/ ListenLocal(a) \/ Answered(a) \/ Failed(a) \/ ListenRemote(a)
  \/ Verify(a) \/ Verified(a) \/ CloseEvent(a)
Obeys(a) == a \in told /\ Exit(a)

Next ==
  \/ \E k \in Opened : Open(k)
  \/ Disconnect
  \/ \E a \in Ids : Spawn(a) \/ SpawnFails(a) \/ Exit(a) \/ Backend(a) \/ Window(a)

(* Threads and promises run; a shell that is told to end does.  Nothing is      *)
(* assumed of a connection that is being made, or of a shell that is not told. *)
Fairness ==
  \A a \in Ids : WF_vars(Backend(a)) /\ WF_vars(Window(a)) /\ WF_vars(Obeys(a))

Spec == Init /\ [][Next]_vars /\ Fairness

-----------------------------------------------------------------------------
TypeOK ==
  /\ {current, pane, attaching, listening} \subseteq Ids \cup {Nobody}
  /\ step \in [Ids -> {"none", "listening", "opening", "relistening", "verifying", "active",
                       "gone", "ready", "over"}]
  /\ kind \in [Ids -> Kinds \cup {"none"}]
  /\ call \in [Ids -> {"none", "starting", "spawned", "answered", "failed"}]
  /\ shell \in [Ids -> {"none", "running", "over"}]
  /\ UNION {records, told, closed, leaving, asked, overtaken} \subseteq Ids

(* What an attempt to open a terminal may leave behind for a moment: a pane    *)
(* that shows a shell which has ended (unless it had ended before its record   *)
(* was made, which connect_profile does not look at); a session in the backend *)
(* that no pane shows; the shell, with its reading thread, of a session whose  *)
(* record has gone (unless it is native and direct, which nothing cuts off).   *)
StaleShell(a)  == step[a] = "ready" /\ pane = a /\ shell[a] = "over" /\ a \notin overtaken
Abandoned(a)   == a \in records /\ pane # a
LostShell(a)   == /\ call[a] = "answered" /\ a \notin records
                  /\ kind[a] # "direct" /\ shell[a] # "over"
Unsettled(a)   == StaleShell(a) \/ Abandoned(a) \/ LostShell(a)

(* None of it stays: a shell that ends is noticed though its event comes before *)
(* anybody listens for it, and an attempt that was overtaken, cancelled or has  *)
(* failed half way is disconnected in the end.                                 *)
SessionsFollowPanes == \A a \in Ids : Unsettled(a) ~> ~ Unsettled(a)

=============================================================================
