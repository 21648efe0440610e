----------------------------- MODULE SshTaskRun -----------------------------
(***************************************************************************)
(* One run of an independent SSH task: execute_ssh_task and its watchdog in *)
(* src-tauri/src/domain/terminal/ssh_tasks/executor.rs, the ExitProtocol of *)
(* protocol.rs that reads the wrapper's records, and, as far as the program *)
(* relies on them, the network and the remote host.                         *)
(*                                                                         *)
(* What matters is what the final status claims.  `Completed' claims that   *)
(* the remote command ended, and how; `NotStarted' that it never began and  *)
(* may be proposed again; everything else must be `Unknown'.                *)
(***************************************************************************)
EXTENDS Naturals, Sequences

CONSTANT Codes   \* exit codes the remote command or its cd can end with

NoCode == 256    \* None: an exit code is a u8

VARIABLES
  pc,        \* where execute_ssh_task is
  stop,      \* SshTaskControl::stop
  late,      \* the deadline has passed
  attempted, \* dispatch_attempted
  protocol,  \* ExitProtocol
  channel,   \* exit_status and exit_signal, read from the closed channel
  status,    \* SshTaskSnapshot::status
  outcome,   \* SshTaskSnapshot::exit_code and exit_signal
  link,      \* the connection of this run: none, up or lost
  remote,    \* the wrapper at the host: idle, asked, running, ended or closed
  records,   \* the wrapper's records on their way to the program
  truth      \* ghost: what became of the command and of its wrapper

vars == <<pc, stop, late, attempted, protocol, channel, status, outcome, link,
          remote, records, truth>>
claim == <<status, outcome>>
flags == <<stop, late>>
host == <<link, remote, records, truth>>

Statuses == {"connecting", "running", "completed", "not-started", "unknown"}
Finished == status \notin {"connecting", "running"}

-----------------------------------------------------------------------------
(* ExitProtocol::record, for START, EXIT:code and SETUP:code.                *)
Record(p, r) ==
  CASE r.kind = "START" ->
         [p EXCEPT !.invalid = @ \/ p.started \/ p.setup # NoCode,
                   !.started = TRUE]
    [] r.kind = "EXIT" ->
         [p EXCEPT !.invalid = @ \/ ~p.started \/ p.exit # NoCode \/ p.setup # NoCode,
                   !.exit = r.code]
    [] r.kind = "SETUP" ->
         [p EXCEPT !.invalid = @ \/ p.started \/ p.setup # NoCode,
                   !.setup = r.code]

\* (a bug to try: only the deadline ends a run)
InTime == ~late

(* check: a stop or the deadline ends the run at the next operation.         *)
MayGoOn == ~stop /\ ~late

Init ==
  /\ pc = "begin" /\ stop = FALSE /\ late = FALSE /\ attempted = FALSE
  /\ protocol = [started |-> FALSE, exit |-> NoCode, setup |-> NoCode,
                 invalid |-> FALSE]
  /\ channel = [hint |-> NoCode, signal |-> FALSE]
  /\ status = "connecting" /\ outcome = [code |-> NoCode, signal |-> FALSE]
  /\ link = "none" /\ remote = "idle" /\ records = <<>>
  /\ truth = [command |-> "never", code |-> NoCode, killed |-> FALSE]

Fail == pc' = "failed"     \* the closure returns an error

(* Any check between two operations finds the run stopped or out of time.     *)
Stopped ==
  /\ pc \in {"begin", "open", "ready", "exec", "eof", "read", "close"}
  /\ ~MayGoOn
  /\ Fail
  /\ UNCHANGED <<flags, attempted, protocol, channel, claim, host>>

(* An operation of libssh2 fails once the link is lost.                       *)
LinkFails ==
  /\ pc \in {"open", "exec", "eof", "read", "close"} /\ link = "lost"
  /\ Fail
  /\ UNCHANGED <<flags, attempted, protocol, channel, claim, host>>

Begin ==
  /\ pc = "begin" /\ MayGoOn /\ pc' = "connect"
  /\ UNCHANGED <<flags, attempted, protocol, channel, claim, host>>

(* connect_routed_endpoint: DNS, TCP, handshake, host key and authentication, *)
(* for a proxy too.  It can take forever; the last thing it does is to check   *)
(* the token.                                                                *)
Connect ==
  /\ pc = "connect"
  /\ \/ ~stop /\ pc' = "open" /\ link' = "up"
     \/ Fail /\ UNCHANGED link
  /\ UNCHANGED <<flags, attempted, protocol, channel, claim, remote, records, truth>>

(* The watcher of SshIoCancellation shuts the sockets the connect waits on,    *)
(* and the waits without a socket poll the token: a stop gets through.         *)
ConnectInterrupted ==
  /\ pc = "connect" /\ stop
  /\ Fail
  /\ UNCHANGED <<flags, attempted, protocol, channel, claim, host>>

OpenChannel ==
  /\ pc = "open" /\ MayGoOn /\ link = "up"
  /\ \/ pc' = "ready"
     \/ Fail
  /\ UNCHANGED <<flags, attempted, protocol, channel, claim, host>>

(* The last check; from here on the remote effect can be unknown.             *)
Attempt ==
  /\ pc = "ready" /\ MayGoOn
  /\ pc' = "exec" /\ attempted' = TRUE
  /\ UNCHANGED <<flags, protocol, channel, claim, host>>

(* channel.exec: the host may act on the request whether or not its answer     *)
(* comes back.                                                               *)
Exec ==
  /\ pc = "exec" /\ MayGoOn /\ link = "up"
  /\ \/ remote' = "asked" /\ pc' = "eof" /\ status' = "running"
     \/ remote' = "asked" /\ Fail /\ UNCHANGED status
     \/ Fail /\ UNCHANGED <<remote, status>>
  /\ UNCHANGED <<flags, attempted, protocol, channel, outcome, link, records, truth>>

SendEof ==
  /\ pc = "eof" /\ MayGoOn /\ link = "up" /\ pc' = "read"
  /\ UNCHANGED <<flags, attempted, protocol, channel, claim, host>>

ReadRecord ==
  /\ pc = "read" /\ MayGoOn /\ records # <<>>
  /\ protocol' = Record(protocol, Head(records))
  /\ records' = Tail(records)
  /\ UNCHANGED <<pc, flags, attempted, channel, claim, link, remote, truth>>

(* The end of both streams: the host closed the channel, or the link was lost  *)
(* and libssh2 calls that an end of file.                                     *)
ReadEnd ==
  /\ pc = "read" /\ MayGoOn /\ records = <<>>
  /\ remote = "closed" \/ link = "lost"
  /\ pc' = "close"
  /\ UNCHANGED <<flags, attempted, protocol, channel, claim, host>>

(* wait_close, exit_status and exit_signal.  An exit status that never came    *)
(* reads as zero, and a host need not report a signal.                        *)
Close ==
  /\ pc = "close" /\ MayGoOn
  /\ pc' = "closed"
  /\ \E told \in BOOLEAN :
       channel' = IF ~told \/ remote # "closed" THEN [hint |-> 0, signal |-> FALSE]
                  ELSE IF truth.killed THEN [hint |-> 0, signal |-> TRUE]
                  ELSE [hint |-> truth.code, signal |-> FALSE]
  /\ UNCHANGED <<flags, attempted, protocol, claim, host>>

\* (a bug to try: the exit status of the channel will do)
ChannelEvidence ==
  /\ ~protocol.invalid /\ protocol.started
  /\ ~channel.signal
  /\ channel.hint \in {0, protocol.exit}

(* What the closure returned, and what was seen on the way, as a status.       *)
Evidence ==
  /\ ~protocol.invalid /\ protocol.started /\ protocol.exit # NoCode
  /\ ~channel.signal
  /\ channel.hint \in {0, protocol.exit}

\* (bugs to try: without evidence the status stays; an error before START means
\* that nothing was started)
VerdictOrStatus ==
  IF pc = "failed" THEN IF attempted THEN "unknown" ELSE "not-started"
  ELSE IF Evidence \/ channel.signal THEN "completed" ELSE status

VerdictBeforeStart ==
  IF pc = "failed" THEN IF protocol.started THEN "unknown" ELSE "not-started"
  ELSE IF Evidence \/ channel.signal THEN "completed" ELSE "unknown"

Verdict ==
  IF pc = "failed" THEN IF attempted THEN "unknown" ELSE "not-started"
  ELSE IF Evidence \/ channel.signal THEN "completed"
  ELSE IF ~protocol.invalid /\ protocol.setup # NoCode THEN "not-started"
  ELSE "unknown"

Conclude ==
  /\ pc \in {"failed", "closed"}
  /\ pc' = "done"
  /\ status' = Verdict
  /\ outcome' = [code   |-> IF pc = "closed" /\ Evidence THEN protocol.exit ELSE NoCode,
                 signal |-> pc = "closed" /\ channel.signal]
  /\ UNCHANGED <<flags, attempted, protocol, channel, host>>

-----------------------------------------------------------------------------
(* Those around the run.                                                    *)

StopObserving ==
  /\ stop' = TRUE
  /\ UNCHANGED <<pc, late, attempted, protocol, channel, claim, host>>

TimePasses ==
  /\ ~late /\ late' = TRUE
  /\ UNCHANGED <<pc, stop, attempted, protocol, channel, claim, host>>

Watchdog ==
  /\ late /\ pc # "done"
  /\ stop' = TRUE
  /\ UNCHANGED <<pc, late, attempted, protocol, channel, claim, host>>

LoseLink ==
  /\ link = "up" /\ link' = "lost"
  /\ \E n \in 0..Len(records) : records' = SubSeq(records, 1, n)
  /\ UNCHANGED <<pc, flags, attempted, protocol, channel, claim, remote, truth>>

(* render_command's wrapper, at the host: cd, START, the command, EXIT:code;   *)
(* or SETUP:code.  What it prints arrives while the link is up.                *)
Printed(kind, code) ==
  records' = IF link = "up" THEN Append(records, [kind |-> kind, code |-> code])
                            ELSE records

WrapperStarts ==
  /\ remote = "asked"
  /\ \/ /\ remote' = "running"
        /\ truth' = [truth EXCEPT !.command = "running"]
        /\ Printed("START", 0)
     \/ /\ remote' = "ended"
        /\ \E code \in Codes \ {0} : /\ truth' = [truth EXCEPT !.code = code]
                                     /\ Printed("SETUP", code)
  /\ UNCHANGED <<pc, flags, attempted, protocol, channel, claim, link>>

CommandEnds ==
  /\ remote = "running"
  /\ remote' = "ended"
  /\ \E code \in Codes :
       /\ truth' = [truth EXCEPT !.command = "ended", !.code = code]
       /\ Printed("EXIT", code)
  /\ UNCHANGED <<pc, flags, attempted, protocol, channel, claim, link>>

WrapperKilled ==
  /\ remote \in {"running", "ended"}
  /\ remote' = "ended"
  /\ truth' = [truth EXCEPT !.killed = TRUE]
  /\ UNCHANGED <<pc, flags, attempted, protocol, channel, claim, link, records>>

HostCloses ==
  /\ remote = "ended" /\ remote' = "closed"
  /\ UNCHANGED <<pc, flags, attempted, protocol, channel, claim, link, records,
                 truth>>

Executor ==
  \/ Begin \/ Connect \/ ConnectInterrupted \/ OpenChannel \/ Attempt \/ Exec
  \/ SendEof \/ ReadRecord \/ ReadEnd \/ Close \/ Stopped \/ LinkFails \/ Conclude

Environment ==
  \/ StopObserving \/ TimePasses \/ Watchdog \/ LoseLink
  \/ WrapperStarts \/ CommandEnds \/ WrapperKilled \/ HostCloses

Next == Executor \/ Environment

(* The threads of the run are scheduled, and polling operations return when    *)
(* they should.  Nothing is assumed of the network or the host: any operation   *)
(* that waits for them may wait for ever.                                     *)
Spec ==
  /\ Init /\ [][Next]_vars
  /\ WF_vars(Begin) /\ WF_vars(Attempt) /\ WF_vars(Stopped)
  /\ WF_vars(ConnectInterrupted) /\ WF_vars(Conclude) /\ WF_vars(Watchdog)

-----------------------------------------------------------------------------
(* Every variable has the type its declaration says, and a run that is over has a *)
(* final status.                                                             *)
TypeOK ==
  /\ Finished <=> pc = "done"
  /\ pc \in {"begin", "connect", "open", "ready", "exec", "eof", "read", "close",
             "closed", "failed", "done"}
  /\ {stop, late, attempted} \subseteq BOOLEAN
  /\ protocol \in [started : BOOLEAN, exit : Codes \cup {NoCode},
                   setup : Codes \cup {NoCode}, invalid : BOOLEAN]
  /\ channel \in [hint : Codes \cup {NoCode}, signal : BOOLEAN]
  /\ status \in Statuses
  /\ outcome \in [code : Codes \cup {NoCode}, signal : BOOLEAN]
  /\ link \in {"none", "up", "lost"}
  /\ remote \in {"idle", "asked", "running", "ended", "closed"}
  /\ records \in Seq([kind : {"START", "EXIT", "SETUP"}, code : Codes])
  /\ truth \in [command : {"never", "running", "ended"},
                code : Codes \cup {NoCode}, killed : BOOLEAN]

(* A run reported as completed with an exit code is a command that ended with  *)
(* that code; one reported as ended by a signal was.  Neither a lost link, nor  *)
(* a status libssh2 makes up, nor a stop can produce the claim.                *)
CompletedIsTrue ==
  status = "completed" =>
    \/ outcome.signal /\ truth.killed
    \/ truth.command = "ended" /\ truth.code = outcome.code

(* A run reported as not started has not run its command and never will: the   *)
(* only status after which the task may be proposed again.                    *)
NotStartedIsTrue ==
  status = "not-started" => truth.command = "never" /\ remote # "asked"

(* A run that is told to stop, or runs out of time, gets a final status, no     *)
(* matter where the network leaves it hanging.                                *)
StopsWhenTold == (stop \/ late) ~> Finished

=============================================================================
