--------------------------- MODULE TransferQueue ---------------------------
(***************************************************************************)
(* The window's queue of file transfers, transferTaskManager.ts of the       *)
(* frontend's transfer domain, on top of the backend's task registry.        *)
(*                                                                         *)
(* A job waits for a slot and for its server (or its terminal), subscribes   *)
(* to progress, calls the backend under its own id, and ends when the answer *)
(* comes, the user cancels it or its timer fires.  boundedOperation lets the  *)
(* first of these win; the subscription, the call and the cancellation are   *)
(* then still on their way, in any order.                                   *)
(*                                                                         *)
(* One turn of the window's event loop is one action: what ends a job also   *)
(* starts the next ones.  Jobs are numbered in the order of the list; the     *)
(* removal of ended jobs from it is left out.                                *)
(***************************************************************************)
EXTENDS TaskRegistry

CONSTANTS
  Servers,    \* server keys, each with a route over SFTP
  Terminals,  \* terminals that transfer files in their own session
  MaxRunning  \* 4 in pump

VARIABLES
  key,      \* what a job occupies: its server key or its terminal, or nowhere
  status,   \* TransferJob::status, or none
  stage,    \* what run awaits: none, subscribing or executing
  listener, \* the progress listener: none, asked, on or off
  net,      \* the job's calls on their way: start, cancel
  work,     \* the command in the backend: none, running or over
  reply     \* its answer on its way to the window

window == <<key, status, stage, listener>>
backend == <<registry, work>>
vars == <<window, backend, net, reply>>

Ended == {"done", "error", "cancelled"}
Running == {j \in Ids : status[j] = "running"}
Enqueued == {j \in Ids : status[j] # "none"}
Sftp(j) == key[j] \in Servers

Init ==
  /\ RegistryInit
  /\ key = [j \in Ids |-> "nowhere"]
  /\ status = [j \in Ids |-> "none"]
  /\ stage = [j \in Ids |-> "none"]
  /\ listener = [j \in Ids |-> "none"]
  /\ net = [j \in Ids |-> {}]
  /\ work = [j \in Ids |-> "none"]
  /\ reply = [j \in Ids |-> "none"]

-----------------------------------------------------------------------------
(* pump, for some statuses and keys: which of the jobs run after it.  It goes   *)
(* through the list once; those that ran before and those it has started of     *)
(* the earlier ones are what a job meets when its turn comes.                  *)
Started(running, st) == {j \in running : st[j] = "queued"}
Met(running, st, j) == {i \in running : st[i] = "running" \/ i < j}

\* (bugs to try: the number of transfers is not limited; a job that has to wait
\* holds up those behind it)
Unlimited(running, st, j) == FALSE
InLine(running, st, k, j) ==
  \/ \E i \in Met(running, st, j) : k[i] = k[j]
  \/ \E i \in Ids \ running : st[i] = "queued" /\ i < j

Full(running, st, j) == Cardinality(Met(running, st, j)) >= MaxRunning
Occupied(running, st, k, j) == \E i \in Met(running, st, j) : k[i] = k[j]

Pumped(running, st, k) ==
  /\ {j \in Ids : st[j] = "running"} \subseteq running
  /\ \A j \in running : st[j] \in {"running", "queued"}
  /\ \A j \in Ids : st[j] = "queued" =>
       (j \in running <=> ~(Full(running, st, j) \/ Occupied(running, st, k, j)))

(* The window goes on with these statuses and keys: pump starts what it can,   *)
(* and run subscribes, or calls a terminal's transfer at once.                *)
GoesOn(st, k, listeners) ==
  \E running \in SUBSET Ids :
    LET new == Started(running, st)
    IN /\ Pumped(running, st, k)
       /\ key' = k
       /\ status' = [j \in Ids |-> IF j \in new THEN "running" ELSE st[j]]
       /\ stage' = [j \in Ids |-> CASE j \notin running -> "none"
                                    [] j \in new /\ k[j] \in Servers -> "subscribing"
                                    [] j \in new /\ k[j] \notin Servers -> "executing"
                                    [] OTHER -> stage[j]]
       /\ listener' = [j \in Ids |-> IF j \in new /\ k[j] \in Servers THEN "asked" ELSE listeners[j]]

(* enqueue *)
Enqueue(k) ==
  \E j \in Ids \ Enqueued :
    /\ \A i \in Ids \ Enqueued : j <= i
    /\ GoesOn([status EXCEPT ![j] = "queued"], [key EXCEPT ![j] = k], listener)
    /\ UNCHANGED <<backend, net, reply>>

(* The end of run: the listener is given up, and pump looks for the next.      *)
Ends(j, how) ==
  GoesOn([status EXCEPT ![j] = how], key,
         [listener EXCEPT ![j] = IF @ = "on" THEN "off" ELSE @])

\* (a bug to try: a listener that comes too late is kept)
AnsweredKept(j) ==
  /\ listener' = [listener EXCEPT ![j] = "on"]
  /\ stage' = [stage EXCEPT ![j] = IF @ = "subscribing" THEN "executing" ELSE @]
  /\ net' = [net EXCEPT ![j] = @ \cup (IF stage[j] = "subscribing" THEN {"start"} ELSE {})]

Answered(j) ==
  IF stage[j] = "subscribing"
    THEN /\ listener' = [listener EXCEPT ![j] = "on"]
         /\ stage' = [stage EXCEPT ![j] = "executing"]
         /\ net' = [net EXCEPT ![j] = @ \cup {"start"}]
    ELSE /\ listener' = [listener EXCEPT ![j] = "off"]
         /\ UNCHANGED <<stage, net>>

(* The subscription is there: the job goes on to its command, or the listener  *)
(* is stopped because nobody waits for it any more.                          *)
ListenAnswers(j) ==
  /\ listener[j] = "asked"
  /\ Answered(j)
  /\ UNCHANGED <<key, status, backend, reply>>

ListenFails(j) ==
  /\ listener[j] = "asked"
  /\ IF stage[j] = "subscribing"
       THEN GoesOn([status EXCEPT ![j] = "error"], key, [listener EXCEPT ![j] = "off"])
       ELSE /\ listener' = [listener EXCEPT ![j] = "off"]
            /\ UNCHANGED <<key, status, stage>>
  /\ UNCHANGED <<backend, net, reply>>

(* cancelBackend: a transfer of a terminal hears of it by its AbortSignal.      *)
Told(j) == [net EXCEPT ![j] = @ \cup (IF Sftp(j) THEN {"cancel"} ELSE {})]

(* cancel, by the user or because the terminal has gone: a queued job just      *)
(* leaves, a running one is aborted and the next may run.                      *)
CancelQueued(j) ==
  /\ status[j] = "queued"
  /\ status' = [status EXCEPT ![j] = "cancelled"]
  /\ UNCHANGED <<key, stage, listener, backend, net, reply>>

CancelRunning(j) ==
  /\ status[j] = "running"
  /\ Ends(j, "cancelled")
  /\ net' = Told(j)
  /\ UNCHANGED <<backend, reply>>

\* (a bug to try: the subscription has no time limit)
TimesOutWorking(j) ==
  /\ stage[j] = "executing"
  /\ Ends(j, "error")
  /\ net' = Told(j)
  /\ UNCHANGED <<backend, reply>>

(* boundedOperation gives up: five seconds for the subscription, two minutes   *)
(* and a half without progress for the transfer.                             *)
TimesOut(j) ==
  /\ stage[j] # "none"
  /\ Ends(j, "error")
  /\ net' = IF stage[j] = "executing" THEN Told(j) ELSE net
  /\ UNCHANGED <<backend, reply>>

(* An answer that comes after the end is nobody's.  An error may say that the  *)
(* backend was told to cancel.                                               *)
Replies(j) ==
  /\ reply[j] # "none"
  /\ reply' = [reply EXCEPT ![j] = "none"]
  /\ IF stage[j] = "executing"
       THEN \E how \in IF reply[j] = "ok" THEN {"done"} ELSE {"error", "cancelled"} :
              Ends(j, how)
       ELSE UNCHANGED window
  /\ UNCHANGED <<backend, net>>

(* useTerminalFileTransfer settles; a job over SFTP never does this.           *)
TerminalEnds(j) ==
  /\ stage[j] = "executing" /\ ~Sftp(j)
  /\ \E how \in Ended : Ends(j, how)
  /\ UNCHANGED <<backend, net, reply>>

-----------------------------------------------------------------------------
(* The backend serves the calls in any order.  SftpTask has the command in     *)
(* detail.                                                                  *)
ServeStart(j) ==
  /\ "start" \in net[j]
  /\ Enter(j, j)
  /\ net' = [net EXCEPT ![j] = @ \ {"start"}]
  /\ work' = [work EXCEPT ![j] = "running"]
  /\ UNCHANGED <<window, reply>>

ServeCancel(j) ==
  /\ "cancel" \in net[j]
  /\ Cancel(j)
  /\ net' = [net EXCEPT ![j] = @ \ {"cancel"}]
  /\ UNCHANGED <<window, work, reply>>

WorkEnds(j) ==
  /\ work[j] = "running"
  /\ work' = [work EXCEPT ![j] = "over"]
  /\ Leave(j)
  /\ \E answer \in {"ok", "error"} : reply' = [reply EXCEPT ![j] = answer]
  /\ UNCHANGED <<window, net>>

Next ==
  \/ \E k \in Servers \cup Terminals : Enqueue(k)
  \/ \E j \in Ids : \/ ListenAnswers(j) \/ ListenFails(j)
                    \/ CancelQueued(j) \/ CancelRunning(j) \/ TimesOut(j)
                    \/ Replies(j) \/ TerminalEnds(j)
                    \/ ServeStart(j) \/ ServeCancel(j) \/ WorkEnds(j)

(* The window's timers fire: a transfer does not report progress for ever.      *)
(* Nothing is assumed of the backend, the subscription or the user.           *)
Spec == Init /\ [][Next]_vars /\ \A j \in Ids : WF_vars(TimesOut(j))

-----------------------------------------------------------------------------
(* Every variable has the type its declaration says; a job awaits something    *)
(* exactly while it runs, and no more of them run than pump allows.           *)
TypeOK ==
  /\ RegistryTypes
  /\ key \in [Ids -> Servers \cup Terminals \cup {"nowhere"}]
  /\ status \in [Ids -> {"none", "queued", "running"} \cup Ended]
  /\ stage \in [Ids -> {"none", "subscribing", "executing"}]
  /\ \A j \in Ids : stage[j] # "none" <=> status[j] = "running"
  /\ listener \in [Ids -> {"none", "asked", "on", "off"}]
  /\ net \in [Ids -> SUBSET {"start", "cancel"}]
  /\ work \in [Ids -> {"none", "running", "over"}]
  /\ reply \in [Ids -> {"none", "ok", "error"}]
  /\ Cardinality(Running) <= MaxRunning

(* A job waits only for a job that runs: on the same server or terminal, of     *)
(* which there is never more than one, or for one of the slots.                *)
WaitsForARunningJob ==
  /\ \A i, j \in Running : key[i] = key[j] => i = j
  /\ \A j \in Ids : status[j] = "queued" =>
       \/ Cardinality(Running) = MaxRunning
       \/ \E i \in Running : key[i] = key[j]

(* A transfer that has ended leaves nothing behind, however its subscription,   *)
(* its command and its cancellation cross: no listener, and no command that     *)
(* works, or will, without having been told to stop.                          *)
EndedLeavesNothing ==
  \A j \in Ids : status[j] \in Ended =>
    /\ listener[j] # "on"
    /\ work[j] = "running" => token[j] \/ "cancel" \in net[j]
    /\ "start" \in net[j] => IsMarked(j) \/ "cancel" \in net[j]

(* Every transfer ends, one that waits for its server too, though the backend   *)
(* answers no call at all.                                                    *)
Busy == \E j \in Ids : status[j] \in {"queued", "running"}
EveryTransferEnds == Busy ~> ~ Busy

=============================================================================
