------------------------------ MODULE SftpTask ------------------------------
(***************************************************************************)
(* The commands that work under a task id: run_task of                      *)
(* src-tauri/src/app/sftp_task.rs, which every SFTP command goes through,    *)
(* and the streaming chat commands of app/commands.rs.                      *)
(*                                                                         *)
(* An SFTP command is a future and a blocking worker.  The future looks the  *)
(* profile up, hands the action to the blocking pool and waits; every wait   *)
(* is until_stopped, which polls the token and the deadline.  A worker can   *)
(* only be asked to stop; the future gives it a grace period and answers.    *)
(* The command can also be dropped, and its worker is then on its own.       *)
(***************************************************************************)
EXTENDS TaskRegistry

CONSTANT Budget   \* units of time before the deadline of a command

VARIABLES
  pc,      \* idle, profile, waiting, grace, answered, panicked, dropped; or chat
  name,    \* the task id of each call
  idle,    \* TaskDeadline::Idle: progress extends the deadline
  left,    \* time until the deadline; 0 when it has passed
  taken,   \* the JoinHandle of the worker has already given its result
  worker,  \* none, queued, running, ended or aborted
  answer,  \* what the call returned: none, ok or error
  told,    \* ghost: the user cancelled this very call, or dropped it
  early    \* ghost: ids cancelled ahead of the call that will carry them

calls == <<pc, name, idle, left, taken, worker, answer>>
vars == <<registry, calls, told, early>>

InProgress(c) == pc[c] \in {"profile", "waiting", "grace", "chat"}

\* (a bug to try: the deadline is only looked at before the wait)
Cancelled(c) == token[c]

(* TaskDeadline::check                                                       *)
Stopped(c) == token[c] \/ left[c] = 0

Init ==
  /\ RegistryInit
  /\ pc = [c \in Calls |-> "idle"]
  /\ name = [c \in Calls |-> NoId]
  /\ idle = [c \in Calls |-> FALSE]
  /\ left = [c \in Calls |-> Budget]
  /\ taken = [c \in Calls |-> FALSE]
  /\ worker = [c \in Calls |-> "none"]
  /\ answer = [c \in Calls |-> "none"]
  /\ told = [c \in Calls |-> FALSE] /\ early = {}

(* The call ends, in whatever way, and its TaskRegistration is dropped.        *)
End(c, how, result) ==
  /\ pc' = [pc EXCEPT ![c] = how]
  /\ answer' = [answer EXCEPT ![c] = result]
  /\ Leave(c)

(* run_sftp_task and run_sftp_transfer_task begin; an id that is active        *)
(* already is refused.                                                       *)
Begin(c, id) ==
  /\ pc[c] = "idle"
  /\ Enter(c, id)
  /\ name' = [name EXCEPT ![c] = id]
  /\ told' = [told EXCEPT ![c] = id \in early]
  /\ early' = early \ {id}

Start(c, id, transfer) ==
  /\ Begin(c, id)
  /\ pc' = [pc EXCEPT ![c] = "profile"]
  /\ idle' = [idle EXCEPT ![c] = transfer]
  /\ UNCHANGED <<left, taken, worker, answer>>

Refuse(c, id) ==
  /\ pc[c] = "idle" /\ IsActive(id)
  /\ pc' = [pc EXCEPT ![c] = "answered"]
  /\ answer' = [answer EXCEPT ![c] = "error"]
  /\ UNCHANGED <<registry, name, idle, left, taken, worker, told, early>>

(* The profile and its passwords are there, or they are not; until_stopped     *)
(* checks once more, and the action goes to the blocking pool.                *)
ProfileDone(c, found) ==
  /\ pc[c] = "profile" /\ ~Stopped(c)
  /\ IF found
       THEN /\ pc' = [pc EXCEPT ![c] = "waiting"]
            /\ worker' = [worker EXCEPT ![c] = "queued"]
            /\ UNCHANGED <<registry, answer>>
       ELSE /\ End(c, "answered", "error")
            /\ UNCHANGED worker
  /\ UNCHANGED <<name, idle, left, taken, told, early>>

ProfileStop(c) ==
  /\ pc[c] = "profile" /\ Stopped(c)
  /\ End(c, "answered", "error")
  /\ UNCHANGED <<name, idle, left, taken, worker, told, early>>

(* The closure of the worker: it looks at the token before the action and      *)
(* after it, and the action looks at it whenever it can.                      *)
WorkerStart(c) ==
  /\ worker[c] = "queued"
  /\ worker' = [worker EXCEPT ![c] = IF token[c] THEN "ended" ELSE "running"]
  /\ UNCHANGED <<registry, pc, name, idle, left, taken, answer, told, early>>

WorkerEnd(c) ==
  /\ worker[c] = "running"
  /\ worker' = [worker EXCEPT ![c] = "ended"]
  /\ UNCHANGED <<registry, pc, name, idle, left, taken, answer, told, early>>

\* (a bug to try: progress revives a transfer that has expired)
TouchAlways(c) ==
  /\ worker[c] = "running" /\ idle[c]
  /\ left' = [left EXCEPT ![c] = Budget]
  /\ UNCHANGED <<registry, pc, name, idle, taken, worker, answer, told, early>>

(* TransferActivity::touch, from the progress callback of the worker.          *)
Touch(c) ==
  /\ worker[c] = "running" /\ idle[c]
  /\ left[c] > 0
  /\ left' = [left EXCEPT ![c] = Budget]
  /\ UNCHANGED <<registry, pc, name, idle, taken, worker, answer, told, early>>

TimePasses(c) ==
  /\ pc[c] \in {"profile", "waiting"} /\ left[c] > 0
  /\ left' = [left EXCEPT ![c] = @ - 1]
  /\ UNCHANGED <<registry, pc, name, idle, taken, worker, answer, told, early>>

(* until_stopped has the result of the worker in hand, and checks again before *)
(* it lets it out.  What it then discards was the only result there is.        *)
CallResult(c, ok) ==
  /\ pc[c] = "waiting" /\ worker[c] = "ended"
  /\ IF Stopped(c)
       THEN /\ pc' = [pc EXCEPT ![c] = "grace"]
            /\ token' = [token EXCEPT ![c] = TRUE]
            /\ taken' = [taken EXCEPT ![c] = TRUE]
            /\ UNCHANGED <<active, marks, answer>>
       ELSE /\ End(c, "answered", IF ok THEN "ok" ELSE "error")
            /\ UNCHANGED taken
  /\ UNCHANGED <<name, idle, left, worker, told, early>>

(* until_stopped finds the token set or the time up while the worker is still   *)
(* at it: the token is set, and a worker that has not begun is aborted.        *)
CallStop(c) ==
  /\ pc[c] = "waiting" /\ Stopped(c)
  /\ pc' = [pc EXCEPT ![c] = "grace"]
  /\ token' = [token EXCEPT ![c] = TRUE]
  /\ worker' = [worker EXCEPT ![c] = IF @ = "queued" THEN "aborted" ELSE @]
  /\ UNCHANGED <<active, marks, name, idle, left, taken, answer, told, early>>

(* The JoinHandle is awaited for WORKER_STOP_GRACE.  tokio panics when one that *)
(* has given its result is polled again.                                      *)
GraceEnd(c) ==
  /\ pc[c] = "grace"
  /\ IF taken[c] THEN End(c, "panicked", "none") ELSE End(c, "answered", "error")
  /\ UNCHANGED <<name, idle, left, taken, worker, told, early>>

(* The future of the command is dropped where it awaits.                       *)
DropFuture(c) ==
  /\ pc[c] \in {"profile", "waiting", "grace"}
  /\ End(c, "dropped", "none")
  /\ told' = [told EXCEPT ![c] = TRUE]
  /\ UNCHANGED <<name, idle, left, taken, worker, early>>

(* chat_with_ai_provider_stream and ai_agent_turn_stream: register_task, the    *)
(* stream, finish_task.  The front end makes a new id for every request.        *)
StartChat(c, id) ==
  /\ id # NoId /\ \A d \in Calls : name[d] # id
  /\ Begin(c, id)
  /\ pc' = [pc EXCEPT ![c] = "chat"]
  /\ UNCHANGED <<idle, left, taken, worker, answer>>

FinishChat(c, result) ==
  /\ pc[c] = "chat"
  /\ Finish(name[c])
  /\ pc' = [pc EXCEPT ![c] = "answered"]
  /\ answer' = [answer EXCEPT ![c] = result]
  /\ UNCHANGED <<name, idle, left, taken, worker, told, early>>

EndChat(c) == \E result \in {"ok", "error"} : FinishChat(c, result)

(* wait_for_stream polls the token; the text so far is the answer.             *)
StopChat(c) == token[c] /\ FinishChat(c, "ok")

(* cancel_task, from the front end, at any time: it may overtake the command    *)
(* it is meant for.                                                          *)
CancelTask(id) ==
  LET mine == {c \in Calls : name[c] = id /\ InProgress(c)}
  IN /\ Cancel(id)
     /\ told' = [c \in Calls |-> told[c] \/ c \in mine]
     /\ early' = (IF mine = {} THEN early \cup {id} ELSE early)
                    \ (IF IsActive(id) THEN {} ELSE Forgotten(id))
     /\ UNCHANGED calls

ForgetMark(id) ==
  /\ MarkExpires(id)
  /\ early' = early \ {id}
  /\ UNCHANGED <<calls, told>>

CallStep(c) ==
  \/ \E id \in Ids \cup {NoId}, transfer \in BOOLEAN : Start(c, id, transfer)
  \/ \E id \in Ids : Refuse(c, id) \/ StartChat(c, id)
  \/ \E ok \in BOOLEAN : ProfileDone(c, ok) \/ CallResult(c, ok)
  \/ EndChat(c) \/ StopChat(c) \/ ProfileStop(c) \/ CallStop(c) \/ GraceEnd(c) \/ DropFuture(c)
  \/ WorkerStart(c) \/ WorkerEnd(c) \/ Touch(c) \/ TimePasses(c)

Next ==
  \/ \E c \in Calls : CallStep(c)
  \/ \E id \in Ids : CancelTask(id) \/ ForgetMark(id)

(* The poll timer and the grace timer go off.  Nothing is assumed of the        *)
(* profile lookup, the blocking pool or the action.                           *)
Spec ==
  /\ Init /\ [][Next]_vars
  /\ \A c \in Calls : WF_vars(ProfileStop(c)) /\ WF_vars(CallStop(c))
                      /\ WF_vars(GraceEnd(c)) /\ WF_vars(StopChat(c))

-----------------------------------------------------------------------------
(* Every variable has the type its declaration says.                         *)
TypeOK ==
  /\ RegistryTypes
  /\ pc \in [Calls -> {"idle", "profile", "waiting", "grace", "chat", "answered",
                       "panicked", "dropped"}]
  /\ name \in [Calls -> Ids \cup {NoId}]
  /\ idle \in [Calls -> BOOLEAN]
  /\ left \in [Calls -> 0..Budget]
  /\ taken \in [Calls -> BOOLEAN]
  /\ worker \in [Calls -> {"none", "queued", "running", "ended", "aborted"}]
  /\ answer \in [Calls -> {"none", "ok", "error"}]
  /\ told \in [Calls -> BOOLEAN]
  /\ early \subseteq Ids

(* The registry holds exactly the calls in progress: no call that ends, is      *)
(* dropped or panics stays, and none of them takes the entry of a later call    *)
(* that has the same id, which could then not be cancelled.                   *)
RegistryIsExact ==
  active = {[id |-> name[c], call |-> c] :
              c \in {d \in Calls : InProgress(d) /\ name[d] # NoId}}

(* A worker nobody waits for any more has been told to stop.                  *)
OrphansAreTold ==
  \A c \in Calls : worker[c] = "running" /\ ~InProgress(c) => token[c]

(* A call that was cancelled, even before the command carrying its id arrived,  *)
(* never begins its work, whatever it is doing when the cancel comes.          *)
CancelledNeverStarts ==
  \A c \in Calls : told[c] /\ worker[c] # "running" => worker'[c] # "running"

(* No result of SFTP work is published that a cancel or the deadline has        *)
(* overtaken.                                                                *)
StaleNeverPublished ==
  \A c \in Calls :
    worker[c] # "none" /\ answer[c] # "ok" /\ answer'[c] = "ok" => ~told[c] /\ left[c] > 0

(* A call that is cancelled or out of time ends, though its profile lookup, its *)
(* worker, the pool or the model provider may hang for ever.                   *)
Overdue == \E c \in Calls : InProgress(c) /\ (told[c] \/ left[c] = 0)
EndsWhenTold == Overdue ~> ~ Overdue

(* docs/sftp-remediation.md, line 69: once a task is cancelled or its time is   *)
(* up, "the backend waits at most another 750 ms for the worker thread to       *)
(* clean up and then replies".  Every call that was not dropped is answered.    *)
EveryCallIsAnswered ==
  \A c \in Calls :
    pc[c] \notin {"idle", "dropped"} /\ ~InProgress(c) => answer[c] # "none"

=============================================================================
