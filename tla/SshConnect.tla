------------------------------ MODULE SshConnect ------------------------------
(***************************************************************************)
(* One SSH connection, from the call to the session or the error: terminal/   *)
(* ssh.rs and ssh_cancel.rs.  It goes to its target directly or through the    *)
(* gateway of a bastion, it is made for a terminal (which may fall back to     *)
(* the system's ssh) or for an SFTP task (which may cancel it, from a thread   *)
(* that watches the task's token and shuts the sockets it was told of).        *)
(*                                                                         *)
(* An error is the set of the words in its text that somebody looks for; which  *)
(* words libssh2's errors have is external to this code.                      *)
(***************************************************************************)
EXTENDS Naturals, Sequences

CONSTANT Keys   \* private_key_candidates: the key files that are there, in their order

(* AuthMode, and whether a password is saved that is not blank.                *)
Modes == {"Auto", "Password", "Key"}
Legs == {"gateway", "target"}

VARIABLES
  conn,      \* [owner, proxied, mode, saved]: what is asked for
  leg,       \* the endpoint being connected to
  at,        \* how far this leg is
  open,      \* the sockets that are open
  tracked,   \* SshIoCancellation.sockets
  shut,      \* the sockets that have been shut down
  token,     \* the task's cancel token
  watcher,   \* the thread of SshIoCancellation
  forward,   \* the thread of start_local_forward
  stop,      \* its stop flag
  tries,     \* the ways to authenticate still to be tried on this leg
  error,     \* the words of the error so far
  offered,   \* the ways tried, on any leg
  typed      \* passwords typed into the system's ssh

vars == <<conn, leg, at, open, tracked, shut, token, watcher, forward, stop, tries, error,
          offered, typed>>
net == <<open, tracked, shut>>
thread == <<forward, stop>>

Starts == [owner : {"terminal", "task"}, proxied : BOOLEAN, mode : Modes, saved : BOOLEAN]
Cancellable == conn.owner = "task"
Ended == at \in {"session", "failed", "system"}

(* endpoint_plaintext_password, and plaintext_passwords of a launch plan.       *)
Password(c) == c.saved /\ c.mode # "Key"

-----------------------------------------------------------------------------
(* Authentication.                                                           *)

(* A way to authenticate: the agent, the saved password, a key file with it    *)
(* for a passphrase, or a key file alone.                                     *)
Way(how, key) == [how |-> how, key |-> key]
Ways == [how : {"agent", "password", "prompt"}, key : {""}]
        \cup [how : {"secret", "key"}, key : {Keys[i] : i \in DOMAIN Keys}]

PasswordWays(c) == IF Password(c) THEN <<Way("password", ""), Way("prompt", "")>> ELSE <<>>

(* try_public_key_files: every candidate that is a file, with the passphrase    *)
(* first if there is one.                                                    *)
KeyWays(secret) ==
  IF secret THEN [i \in 1..(2 * Len(Keys)) |->
                    Way(IF i % 2 = 1 THEN "secret" ELSE "key", Keys[(i + 1) \div 2])]
  ELSE [i \in 1..Len(Keys) |-> Way("key", Keys[i])]

\* (a bug to try: the passphrase is taken from the endpoint, whatever its mode)
AnyOrder(c) ==
  (IF c.saved THEN <<Way("password", "")>> ELSE <<>>) \o <<Way("agent", "")>>
  \o KeyWays(c.saved)

(* authenticate_endpoint after its probe.                                     *)
Order(c) ==
  IF c.mode = "Key" THEN KeyWays(FALSE) \o <<Way("agent", "")>>
  ELSE PasswordWays(c) \o <<Way("agent", "")>> \o KeyWays(Password(c))

(* What libssh2 says when a way is refused: "Authentication failed" for a       *)
(* password, something else for a key and for the agent.                      *)
Words(w) == IF w.how \in {"password", "prompt"} THEN {"authentication"} ELSE {}

\* (a bug to try: only the transport is looked at)
FallsAnyway(words) == words \cap {"failed to connect", "handshake failed"} # {}

(* should_fallback_native_direct_error                                       *)
Falls(words) ==
  /\ words \cap {"failed to connect", "handshake failed"} # {}
  /\ words \cap {"authentication", "known_hosts", "host key"} = {}

-----------------------------------------------------------------------------
Init ==
  /\ conn \in Starts
  /\ leg = IF conn.proxied THEN "gateway" ELSE "target"
  /\ at = "resolve"
  /\ open = {} /\ tracked = {} /\ shut = {} /\ token = FALSE
  /\ watcher = IF Cancellable THEN "on" ELSE "off"
  /\ forward = "none" /\ stop = FALSE
  /\ tries = <<>> /\ error = {} /\ offered = {} /\ typed = 0

(* The end of an attempt that fails: connect_endpoint_via_cancellable looks at   *)
(* the token once more, every session is dropped, and with the forward's guard  *)
(* the forward is told to stop.  A terminal that goes directly may fall back.   *)
\* (a bug to try: a socket that was shut is a route that failed)
KeepsError(words) ==
  /\ error' = IF "cancelled" \in words THEN words ELSE words \cup {"failed to connect"}
  /\ at' = IF conn.owner = "terminal" /\ ~conn.proxied /\ Falls(error') THEN "system" ELSE "failed"
  /\ open' = {} /\ shut' = shut \cup open /\ stop' = TRUE /\ watcher' = "off"

Fails(words) ==
  /\ error' = IF token THEN {"cancelled"} ELSE words \cup {"failed to connect"}
  /\ at' = IF conn.owner = "terminal" /\ ~conn.proxied /\ Falls(error') THEN "system" ELSE "failed"
  /\ open' = {} /\ shut' = shut \cup open /\ stop' = TRUE /\ watcher' = "off"

Failing(words) == Fails(words) /\ UNCHANGED <<conn, leg, tracked, token, forward, tries, offered, typed>>

(* guard.check()                                                             *)
Check == token /\ ~Ended /\ Failing({"cancelled"})

(* connect_tcp and resolve_tcp_addresses: the task looks at its token while it  *)
(* waits, in slices.                                                         *)
Resolve ==
  /\ at = "resolve" /\ ~token
  /\ \/ /\ at' = "tcp"
        /\ UNCHANGED <<conn, leg, net, token, watcher, thread, tries, error, offered, typed>>
     \/ Failing({"failed to connect"})

Tcp ==
  /\ at = "tcp" /\ ~token
  /\ \/ /\ at' = IF Cancellable THEN "track" ELSE "handshake"
        /\ open' = open \cup {leg}
        /\ UNCHANGED <<conn, leg, tracked, shut, token, watcher, thread, tries, error, offered,
                       typed>>
     \/ Failing({"failed to connect"})

\* (a bug to try: the token is not looked at again after the socket is tracked)
TrackUnchecked ==
  /\ at = "track"
  /\ tracked' = tracked \cup {leg}
  /\ at' = "handshake"
  /\ UNCHANGED <<conn, leg, open, shut, token, watcher, thread, tries, error, offered, typed>>

(* SshIoCancellation::track: the watcher may have gone through its list just    *)
(* before this socket is in it.                                              *)
Track ==
  /\ at = "track" /\ ~token
  /\ tracked' = tracked \cup {leg}
  /\ at' = "tracked"
  /\ UNCHANGED <<conn, leg, open, shut, token, watcher, thread, tries, error, offered, typed>>

Tracked ==
  /\ at = "tracked" /\ ~token
  /\ at' = "handshake"
  /\ UNCHANGED <<conn, leg, net, token, watcher, thread, tries, error, offered, typed>>

(* The peer answers a blocking call; nobody answers on a socket that was shut.   *)
Answers == leg \notin shut /\ (leg = "target" /\ conn.proxied => forward = "relaying")

(* set_timeout, a connection that breaks, or a socket that was shut.            *)
Breaks ==
  /\ at \in {"handshake", "probe", "auth"}
  /\ Failing(error \cup (IF at = "handshake" THEN {"handshake failed"} ELSE {}))

Handshake ==
  /\ at = "handshake" /\ Answers /\ ~token
  /\ at' = "verify"
  /\ UNCHANGED <<conn, leg, net, token, watcher, thread, tries, error, offered, typed>>

(* verify_known_host; KnownHosts has the file.                                *)
Verify ==
  /\ at = "verify" /\ ~token
  /\ \/ /\ at' = "probe"
        /\ UNCHANGED <<conn, leg, net, token, watcher, thread, tries, error, offered, typed>>
     \/ Failing({"host key"})
     \/ Failing({"known_hosts"})

Authenticated ==
  /\ at' = "authenticated"
  /\ UNCHANGED <<conn, leg, net, token, watcher, thread, tries, error, offered, typed>>

(* inspect_auth_methods: a server that asks for nothing has let us in.          *)
Probe ==
  /\ at = "probe" /\ Answers
  /\ \/ Authenticated
     \/ /\ at' = "auth" /\ tries' = Order(conn)
        /\ UNCHANGED <<conn, leg, net, token, watcher, thread, error, offered, typed>>

Try ==
  /\ at = "auth" /\ Answers
  /\ IF tries = <<>>
       THEN Failing(error)
       ELSE /\ tries' = Tail(tries)
            /\ offered' = offered \cup {Head(tries)}
            /\ \/ at' = "authenticated" /\ UNCHANGED error
               \/ at' = at /\ error' = error \cup Words(Head(tries))
            /\ UNCHANGED <<conn, leg, net, token, watcher, thread, typed>>

(* The end of connect_endpoint_via_cancellable, and what connect_routed_        *)
(* endpoint or spawn_native_bastion_terminal goes on with.                     *)
LegDone ==
  /\ at = "authenticated" /\ ~token
  /\ IF leg = "gateway"
       THEN \/ /\ leg' = "target" /\ at' = "resolve" /\ forward' = "waiting"
               /\ error' = {} /\ tries' = <<>>
               /\ UNCHANGED <<conn, net, token, watcher, stop, offered, typed>>
            \/ Failing({})
       ELSE /\ at' = "session" /\ watcher' = "off"
            /\ UNCHANGED <<conn, leg, net, token, thread, tries, error, offered, typed>>

-----------------------------------------------------------------------------
(* The forward: handle_forward_connection and pump_forward.                     *)
ForwardAccepts ==
  /\ forward = "waiting" /\ ~stop /\ "target" \in open
  /\ forward' = "asking"
  /\ UNCHANGED <<conn, leg, at, net, token, watcher, stop, tries, error, offered, typed>>

(* channel_direct_tcpip answers, or retry_ssh2 gives up.  A connection the       *)
(* bastion does not open is dropped, and the forward waits for another.         *)
ForwardOpens ==
  /\ forward = "asking"
  /\ forward' \in {"waiting"} \cup {"relaying" : g \in {"gateway"} \ shut}
  /\ shut' = IF forward' = "waiting" THEN shut \cup {"target"} ELSE shut
  /\ UNCHANGED <<conn, leg, at, open, tracked, token, watcher, stop, tries, error, offered, typed>>

\* (a bug to try: the pump only looks at its two ends)
PumpsOn ==
  /\ forward = "waiting" /\ stop
  /\ forward' = "over"
  /\ UNCHANGED <<conn, leg, at, net, token, watcher, stop, tries, error, offered, typed>>

ForwardStops ==
  /\ forward \in {"waiting", "relaying"} /\ stop
  /\ forward' = "over"
  /\ UNCHANGED <<conn, leg, at, net, token, watcher, stop, tries, error, offered, typed>>

-----------------------------------------------------------------------------
(* The task cancels; the watcher sees it, shuts what is tracked and is done.     *)
Cancel ==
  /\ Cancellable /\ ~token /\ ~Ended
  /\ token' = TRUE
  /\ UNCHANGED <<conn, leg, at, net, watcher, thread, tries, error, offered, typed>>

\* (a bug to try: the watcher goes before it looks at the sockets)
WatchNothing ==
  /\ watcher = "on" /\ token
  /\ watcher' = "off"
  /\ UNCHANGED <<conn, leg, at, net, token, thread, tries, error, offered, typed>>

Watch ==
  /\ watcher = "on" /\ token
  /\ shut' = shut \cup tracked
  /\ watcher' = "off"
  /\ UNCHANGED <<conn, leg, at, open, tracked, token, thread, tries, error, offered, typed>>

(* A check of the token, wherever the code has one that the steps above do not.   *)
Sees == at \in {"resolve", "tcp", "track", "tracked", "verify", "authenticated"} /\ Check
(* A blocking call on a socket that was shut returns.                          *)
Woken == leg \in shut /\ Breaks

(* The session ends and the terminal or the pool drops it: RoutedSshSession,      *)
(* NativeSshTerminalSession and LocalForwardGuard.                             *)
Drop ==
  /\ at = "session"
  /\ at' = "failed"
  /\ open' = {} /\ shut' = shut \cup open /\ stop' = TRUE
  /\ UNCHANGED <<conn, leg, tracked, token, watcher, forward, tries, error, offered, typed>>

(* spawn_ssh_launch_plan: the reader types the saved password at a prompt, once.  *)
\* (a bug to try: at every prompt)
TypesAgain ==
  /\ at = "system" /\ Password(conn) /\ typed < 2
  /\ typed' = typed + 1
  /\ UNCHANGED <<conn, leg, at, net, token, watcher, thread, tries, error, offered>>

Types ==
  /\ at = "system" /\ Password(conn) /\ typed = 0
  /\ typed' = 1
  /\ UNCHANGED <<conn, leg, at, net, token, watcher, thread, tries, error, offered>>

Connects ==
  \/ Resolve \/ Tcp \/ Track \/ Tracked \/ Handshake \/ Verify \/ Probe \/ Try \/ LegDone
  \/ Breaks
Runs == Sees \/ Woken \/ Tracked
Forwards == ForwardOpens \/ ForwardStops
Next == Connects \/ Sees \/ ForwardAccepts \/ Forwards \/ Cancel \/ Watch \/ Drop \/ Types

Fairness == WF_vars(Runs) /\ WF_vars(Forwards) /\ WF_vars(Watch)

Spec == Init /\ [][Next]_vars /\ Fairness

-----------------------------------------------------------------------------
TypeOK ==
  /\ leg \in Legs
  /\ at \in {"resolve", "tcp", "track", "tracked", "handshake", "verify", "probe", "auth",
            "authenticated", "session", "failed", "system"}
  /\ open \cup tracked \cup shut \subseteq Legs
  /\ token \in BOOLEAN /\ stop \in BOOLEAN /\ watcher \in {"on", "off"}
  /\ forward \in {"none", "waiting", "asking", "relaying", "over"}
  /\ offered \subseteq Ways /\ tries \in Seq(Ways) /\ typed \in 0..1

(* A task that is cancelled ends with that, whichever call its sockets were shut  *)
(* under: never with an error that reads as a route that failed, and never with  *)
(* a session.                                                               *)
CancelledIsCancelled == token /\ Ended => at = "failed" /\ error = {"cancelled"}

(* A password is not offered again after it was refused, neither by the         *)
(* system's ssh nor at a second prompt; one that is saved for an endpoint that   *)
(* uses keys is not offered at all, nor tried on them.                         *)
SecretsAreOfferedOnce ==
  LET withSecret == {w \in offered : w.how \in {"password", "prompt", "secret"}}
  IN /\ typed <= 1
     /\ at = "system" => \A w \in offered : w.how \notin {"password", "prompt"}
     /\ conn.mode = "Key" => withSecret = {} /\ typed = 0

(* An attempt that was cancelled or has failed, and one of which nothing is     *)
(* left: no socket, and no thread that forwards to one.                         *)
Stopping == token \/ at = "failed"
Rests == Ended /\ (at = "failed" => open = {} /\ forward \in {"none", "over"})

(* An attempt comes to rest when it is cancelled, though its peer never answers *)
(* and even when the socket is only tracked after the watcher has gone through  *)
(* its list; and one that failed takes its forwarding thread along.             *)
StoppedRests == Stopping ~> Rests

=============================================================================
