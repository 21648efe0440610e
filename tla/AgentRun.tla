------------------------------ MODULE AgentRun ------------------------------
(***************************************************************************)
(* One run of the agent: the durable record the backend keeps of it        *)
(* (src-tauri/src/app/agent_checkpoints_state.rs and                        *)
(* src-tauri/src/domain/storage/agent_checkpoints.rs), the lease that lets *)
(* one window continue it, and the window's loop, which records every step *)
(* before it is dispatched (frontend agentLoop.ts,                          *)
(* agentCheckpointJournal.ts and useAgentSession.ts).                       *)
(*                                                                         *)
(* A process of the application has one window.  The window asks the       *)
(* backend for a lease, saves, confirmations and the release by calls that *)
(* may be answered after the window stopped waiting, and the runtime runs  *)
(* them in any order.  A window may be reloaded and a process may die; what *)
(* was sent to the shell goes on.                                          *)
(*                                                                         *)
(* A step is reduced to what recovery.rs asks of it, its effect: "none"    *)
(* (not started or skipped), "unknown" (unknown_effect) or "known".  Plan, *)
(* verifications, texts, redaction and the budgets of the model are left   *)
(* out.  An environment stands for connection, route, account and scope.   *)
(***************************************************************************)
EXTENDS Integers

CONSTANTS
  Processes,  \* the application's processes, with one window each
  Steps,      \* the step ids the model may use
  Tool,       \* the tool of each step: "read", "look", "change" or "edit"
  Bounds      \* what a behaviour may have of each of the following, one record each

\* steps: the ids the model uses; envs: the environments a shell may be in;
\* tokens: how often a lease is asked for; moves: sessions closed and
\* environments entered; saves: no review of a recovery starts after so many;
\* late: calls the window stops waiting for; losses: each happens once at most.
Bound == [steps : SUBSET Steps, envs : SUBSET STRING, tokens : Nat, moves : Nat, saves : Nat,
          late : Nat, losses : SUBSET {"crash", "reload"}]

\* "look" is a command the policy allows as read-only, "change" any other
\* command of the terminal, "edit" a file edit and "read" a file tool.
ASSUME ToolAssumption ==
  /\ Processes # {}
  /\ Tool \in [Steps -> {"read", "look", "change", "edit"}]
  /\ Bounds \subseteq Bound

VARIABLES
  row,     \* the record in the database
  owners,  \* by process: the lease in AppState.agent_runs, with its file lock
  target,  \* by process: the execution target of its terminal
  client,  \* by process: the window's loop and journal
  net,     \* by process: the window's calls the backend has, or has answered
  ran,     \* by step: what really happened to it
  intent,  \* by step: the target its operation was prepared for
  aborted, \* steps whose capture was given up when the session closed
  life,    \* by step: the lease it was asked to run under
  tokens, moves, late, lost,  \* what the bounds count
  bound                       \* the bounds of this behaviour

vars == <<row, owners, target, client, net, ran, intent, aborted, life, tokens, moves, late, lost, bound>>
-----------------------------------------------------------------------------
Target == [proc : Processes, inst : Nat, env : UNION {b.envs : b \in Bounds}]
Effects == {"absent", "none", "unknown", "known"}
NoRow == [boundary |-> "none"]
NoTarget == [env |-> "none"]
NoOwner == [token |-> 0, inst |-> 0]
Commands == {"look", "change"}

Idle == [pc |-> "idle", step |-> "none", token |-> 0, seq |-> 0, phase |-> "none",
         steps |-> [s \in Steps |-> "absent"], status |-> "working"]

Init ==
  /\ bound \in Bounds
  /\ row = NoRow
  /\ owners = [p \in Processes |-> NoOwner]
  /\ \E e \in bound.envs :
       LET first(p) == [proc |-> p, inst |-> 0, env |-> e] IN
       /\ target = [p \in Processes |-> first(p)]
       /\ intent = [s \in Steps |-> first(CHOOSE p \in Processes : TRUE)]  \* of no meaning yet
  /\ client = [p \in Processes |-> Idle]
  /\ net = [p \in Processes |-> {}]
  /\ ran = [s \in Steps |-> "no"]
  /\ aborted = {}
  /\ life = [s \in Steps |-> 0]
  /\ tokens = 0 /\ moves = 0 /\ late = 0 /\ lost = {}

\* unknown_effect: a command or an edit whose end nobody recorded
Unknown(steps) == {s \in Steps : Tool[s] # "read" /\ steps[s] = "unknown"}
Resolved(r) == {x.step : x \in r.resolved}

Required(r) == Unknown(r.steps) \ Resolved(r)
NeedsAttention(r) == r.status # "done" \/ Required(r) # {}
Present(steps) == {s \in Steps : steps[s] # "absent"}

Locked == \E q \in Processes : owners[q] # NoOwner
Awaited(p) == {r \in net[p] : r.reply = "awaited"}
-----------------------------------------------------------------------------
(* The backend.  One mutex over agent_runs makes every handler one step;    *)
(* any handler may also fail: storage, budgets, a profile that is gone.     *)

Answered(p, r, state) ==
  LET answer == IF r.reply = "lost" \/ (r.reply = "late" /\ state = "failed")
                THEN {} ELSE {[r EXCEPT !.state = state]}
  IN net' = [net EXCEPT ![p] = (@ \ {r}) \cup answer]

Refuse(p, r) ==
  /\ r.state = "sent"
  /\ r.kind = "release" => owners[p].token \notin {0, r.token}
  /\ Answered(p, r, "failed")
  /\ UNCHANGED <<row, owners, target, client, ran, intent, aborted, life, tokens, moves, late, lost, bound>>

NewRow == [seq |-> 0, boundary |-> "started", status |-> "working",
           steps |-> [s \in Steps |-> "absent"], at |-> [s \in Steps |-> NoTarget],
           inspected |-> {}, phase |-> "none", source |-> {}, required |-> {},
           resolved |-> {}, current |-> NoTarget, last |-> NoTarget]

\* begin_agent_run
Begun(p) == IF row = NoRow THEN {[NewRow EXCEPT !.last = target[p]]} ELSE {}

\* A bug to try: what came before the recovery is not kept apart
ContinuedLoosely(r, steps, current, phase) ==
  [r EXCEPT !.seq = @ + 1, !.steps = steps, !.status = "working", !.phase = phase,
            !.boundary = IF phase = "inspecting" THEN "recovering" ELSE "resumed",
            !.required = Required([r EXCEPT !.steps = steps]), !.current = current]

\* What a recovery starts from: every step so far is history, and the ones
\* whose effect nobody knows have to be checked first.
Continued(r, steps, current, phase) ==
  [r EXCEPT !.seq = @ + 1, !.steps = steps, !.status = "working", !.phase = phase,
            !.boundary = IF phase = "inspecting" THEN "recovering" ELSE "resumed",
            !.source = Present(steps),
            !.required = Required([r EXCEPT !.steps = steps]), !.current = current]

\* reopen_agent_checkpoint: the journal of file edits may know more than the record
Reopened(p) ==
  IF row = NoRow \/ row.last.env # target[p].env \/ ~NeedsAttention(row) THEN {}
  ELSE {Continued(row, [s \in Steps |-> IF s \in told THEN "known" ELSE row.steps[s]],
                  target[p], "inspecting")
          : told \in SUBSET {s \in Unknown(row.steps) : Tool[s] = "edit" /\ ran[s] = "over"}}

\* reply_agent_checkpoint
Replied(p) ==
  IF row = NoRow \/ row.status # "waiting" \/ row.boundary # "finished"
     \/ row.last.env # target[p].env THEN {}
  ELSE {[Continued(row, row.steps, target[p],
                   IF Required(row) # {} \/ row.last # target[p]
                   THEN "inspecting" ELSE "continuing") EXCEPT !.last = target[p]]}

\* begin_agent_run, recover_agent_run, reply_agent_run
Open(p, r) ==
  /\ r.state = "sent" /\ r.kind \in {"begin", "recover", "reply"}
  /\ r.at = target[p]
  /\ owners[p] = NoOwner /\ ~Locked
  /\ r.kind # "begin" => (row # NoRow /\ row.seq = r.seq)
  /\ row' \in CASE r.kind = "begin" -> Begun(p)
                [] r.kind = "recover" -> Reopened(p)
                [] r.kind = "reply" -> Replied(p)
  /\ owners' = [owners EXCEPT ![p] = [token |-> r.token, inst |-> r.at.inst]]
  /\ Answered(p, r, "ok")
  /\ UNCHANGED <<target, client, ran, intent, aborted, life, tokens, moves, late, lost, bound>>

Dispatching(r) == r.boundary \in {"prepared", "before-dispatch"}

\* update_agent_checkpoint_with_source: history is kept and never dispatched again
MayUpdate(p, r) ==
  /\ row.seq = r.seq /\ row.boundary # "finished"
  /\ Dispatching(r) =>
       /\ r.step \notin row.source
       /\ row.phase = "inspecting" =>
            /\ row.current.env = target[p].env
            /\ r.boundary = "before-dispatch" => Tool[r.step] \in {"read", "look"}

Updated(p, r) ==
  LET kept == [row EXCEPT !.seq = @ + 1, !.boundary = r.boundary, !.status = r.status,
                 !.steps = [s \in Steps |-> IF s \in row.source THEN @[s] ELSE r.steps[s]]]
  IN IF ~Dispatching(r) THEN kept
     ELSE [kept EXCEPT !.last = target[p], !.at[r.step] = target[p],
             !.inspected = IF row.phase = "inspecting" THEN @ \cup {r.step} ELSE @ \ {r.step}]

\* save_agent_checkpoint; the last save gives the lease back
Save(p, r) ==
  /\ r.state = "sent" /\ r.kind = "save"
  /\ owners[p].token = r.token
  /\ Dispatching(r) => owners[p].inst = target[p].inst
  /\ MayUpdate(p, r)
  /\ row' = Updated(p, r)
  /\ owners' = IF r.boundary = "finished" THEN [owners EXCEPT ![p] = NoOwner] ELSE owners
  /\ Answered(p, r, "ok")
  /\ UNCHANGED <<target, client, ran, intent, aborted, life, tokens, moves, late, lost, bound>>

\* validate_recovery_resolutions: a later read-only check, here, of every
\* required step; an edit needs the file itself
Evidence(x) ==
  /\ x.by \notin row.source /\ x.by \in row.inspected
  /\ Tool[x.by] \in {"read", "look"} /\ row.steps[x.by] = "known"
  /\ row.at[x.by].proc = row.current.proc /\ row.at[x.by].inst = row.current.inst
  /\ row.at[x.by].env = row.current.env
  /\ Tool[x.step] = "edit" => Tool[x.by] = "read"

\* A bug to try: some of the required steps may be left open
ResolvesSome(resolutions) ==
  /\ row.phase = "inspecting"
  /\ \A x \in resolutions : x.step \in row.required /\ Evidence(x)

Resolves(resolutions) ==
  /\ row.phase = "inspecting"
  /\ \A x \in resolutions : x.step \in row.required /\ Evidence(x)
  /\ {x.step : x \in resolutions} = row.required

\* A bug to try: nobody asks where the recovery was opened
StillAnywhere(r) == TRUE

StillThere(r) == row.current = r.at

\* confirm_agent_recovery
Confirm(p, r) ==
  /\ r.state = "sent" /\ r.kind = "confirm"
  /\ owners[p].token = r.token /\ owners[p].inst = r.at.inst /\ r.at = target[p]
  /\ row.seq = r.seq /\ StillThere(r)
  /\ Resolves(r.resolutions)
  /\ row' = [row EXCEPT !.seq = @ + 1, !.boundary = "resumed", !.status = "working",
                        !.phase = "continuing", !.resolved = @ \cup r.resolutions]
  /\ Answered(p, r, "ok")
  /\ UNCHANGED <<owners, target, client, ran, intent, aborted, life, tokens, moves, late, lost, bound>>

\* release_agent_run: somebody else's lease is left alone
Release(p, r) ==
  /\ r.state = "sent" /\ r.kind = "release"
  /\ owners[p].token \in {0, r.token}
  /\ owners' = [owners EXCEPT ![p] = NoOwner]
  /\ Answered(p, r, "ok")
  /\ UNCHANGED <<row, target, client, ran, intent, aborted, life, tokens, moves, late, lost, bound>>

Serve(p) == \E r \in net[p] : Refuse(p, r) \/ Open(p, r) \/ Save(p, r) \/ Confirm(p, r) \/ Release(p, r)
-----------------------------------------------------------------------------
(* The window: useAgentSession.ts sets up the lease, agentLoop.ts runs the  *)
(* steps, agentCheckpointJournal.ts sends one save at a time and waits ten  *)
(* seconds for each; a save that fails or is late ends the journal.         *)

StartCall(p, kind) ==
  [kind |-> kind, token |-> tokens + 1, seq |-> IF row = NoRow THEN 0 ELSE row.seq,
   at |-> target[p], reply |-> "awaited", state |-> "sent"]

SaveCall(c, boundary) ==
  [kind |-> "save", token |-> c.token, seq |-> c.seq, boundary |-> boundary,
   step |-> IF boundary \in {"prepared", "before-dispatch"} THEN c.step ELSE "none",
   steps |-> c.steps, status |-> c.status, reply |-> "awaited", state |-> "sent"]

ReleaseCall(token, reply) ==
  [kind |-> "release", token |-> token, reply |-> reply, state |-> "sent"]

\* The window's state becomes c, the calls in old are over and new is sent.
Goes(p, c, old, new) ==
  /\ client' = [client EXCEPT ![p] = c]
  /\ net' = [net EXCEPT ![p] = (@ \ old) \cup new]

Saves(p, c, pc, boundary, old) == Goes(p, [c EXCEPT !.pc = pc], old, {SaveCall(c, boundary)})
Finishes(p, c, status, old) ==
  Saves(p, [c EXCEPT !.status = status], "finishing", "finished", old)

quiet == <<row, owners, target, aborted, moves, lost, bound>>  \* what no window changes
unsent == <<ran, intent, life, tokens, late>>                  \* ... unless it prepares, asks or waits too long

\* beginAgentTask, startAgentRecovery, replyToAgentTask
Ask(p) ==
  /\ client[p].pc = "idle" /\ tokens < bound.tokens
  /\ \E kind \in {"begin", "recover", "reply"} :
       /\ kind = "begin" <=> row = NoRow
       /\ kind = "recover" => NeedsAttention(row)
       /\ kind = "reply" => row.status = "waiting" /\ row.boundary = "finished"
       /\ Goes(p, [Idle EXCEPT !.pc = "starting", !.token = tokens + 1], {}, {StartCall(p, kind)})
  /\ tokens' = tokens + 1
  /\ UNCHANGED <<quiet, ran, intent, life, late>>

\* Ten seconds are over before the backend has answered, or before its answer came.
TooLate(r) == IF r.state = "failed" THEN late' = late ELSE late < bound.late /\ late' = late + 1
Unserved(r, reply) == IF r.state = "sent" THEN {[r EXCEPT !.reply = reply]} ELSE {}

Starts == {"begin", "recover", "reply"}

\* The record cannot have changed since: only the lease's owner writes it.
GotLease(p) ==
  /\ client[p].pc = "starting"
  /\ \E r \in Awaited(p) :
       /\ r.state = "ok"
       /\ Saves(p, [client[p] EXCEPT !.seq = row.seq, !.steps = row.steps, !.phase = row.phase],
                "progress", "progress", {r})
  /\ UNCHANGED <<quiet, unsent>>

\* waitForSetup gives up: refused, stopped, or ten seconds passed
GiveUp(p) ==
  /\ client[p].pc = "starting"
  /\ \E r \in Awaited(p) :
       /\ TooLate(r)
       /\ Goes(p, Idle, {r}, IF r.state = "failed" THEN {} ELSE {[r EXCEPT !.reply = "late"]})
  /\ UNCHANGED <<quiet, ran, intent, life, tokens>>

\* A bug to try: a late lease is dropped
LateLeaseDropped(p) ==
  /\ \E r \in net[p] :
       /\ r.kind \in Starts /\ r.reply = "late" /\ r.state = "ok"
       /\ Goes(p, client[p], {r}, {})
  /\ UNCHANGED <<quiet, unsent>>

\* starting.then(...): a lease that comes after the window gave up is given back
LateLease(p) ==
  /\ \E r \in net[p] :
       /\ r.kind \in Starts /\ r.reply = "late" /\ r.state = "ok"
       /\ Goes(p, client[p], {r}, {ReleaseCall(r.token, "lost")})
  /\ UNCHANGED <<quiet, unsent>>

\* A bug to try: only a step that ended is not run again
FreshOrOpenStep(c, s) == c.steps[s] # "known"

\* handleToolCall: a new step id; nothing but checks before a recovery is confirmed.
\* A command on the allow list starts at once, everything else is shown first.
FreshStep(c, s) == c.steps[s] = "absent"

Propose(p) ==
  /\ client[p].pc = "model"
  /\ \E s \in bound.steps :
       LET c == [client[p] EXCEPT !.step = s, !.steps[s] = "none"] IN
       /\ FreshStep(client[p], s)
       /\ c.phase = "inspecting" => Tool[s] \in {"read", "look"}
       /\ intent' = [intent EXCEPT ![s] = target[p]]
       /\ \/ Saves(p, c, "prepared", "prepared", {})
          \/ /\ Tool[s] \in Commands /\ c.phase # "continuing"
             /\ Saves(p, [c EXCEPT !.steps[s] = "unknown"], "predispatch", "before-dispatch", {})
  /\ UNCHANGED <<quiet, ran, life, tokens, late>>

\* The model ends the run or asks the user; in a recovery that is the review.
Conclude(p) ==
  /\ client[p].pc = "model"
  /\ IF client[p].phase = "inspecting"
     THEN client[p].seq < bound.saves /\ Saves(p, client[p], "reviewing", "progress", {})
     ELSE \E status \in {"done", "waiting", "stopped"} : Finishes(p, client[p], status, {})
  /\ UNCHANGED <<quiet, unsent>>

Approve(p) ==
  /\ client[p].pc = "approval"
  /\ Saves(p, [client[p] EXCEPT !.steps[client[p].step] = "unknown"],
           "predispatch", "before-dispatch", {})
  /\ UNCHANGED <<quiet, unsent>>

Skip(p) ==
  /\ client[p].pc = "approval"
  /\ Saves(p, client[p], "result", "result", {})
  /\ UNCHANGED <<quiet, unsent>>

\* recoveryEvidenceSteps: what the user may cite for a required step
Citable(c, t) == t \notin row.source /\ c.steps[t] = "known" /\ Tool[t] \in {"read", "look"}

\* The user wants more checks, or says what became of the steps nobody knows about.
Review(p) ==
  LET c == client[p] IN
  /\ c.pc = "review"
  /\ \/ Saves(p, c, "progress", "progress", {})
     \/ \E x \in SUBSET [step : row.required, by : {t \in Steps : Citable(c, t)}] :
          /\ \A a, b \in x : a.step = b.step => a = b
          /\ Goes(p, [c EXCEPT !.pc = "confirming"], {},
                  {[kind |-> "confirm", token |-> c.token, seq |-> c.seq, at |-> target[p],
                    resolutions |-> x, reply |-> "awaited", state |-> "sent"]})
  /\ UNCHANGED <<quiet, unsent>>
-----------------------------------------------------------------------------
(* The answers to the journal's calls.                                      *)

AfterSave == [progress |-> "model", prepared |-> "approval", observing |-> "running",
              result |-> "model", reviewing |-> "review"]

Acknowledged(p, kind) == {r \in Awaited(p) : r.kind = kind /\ r.state = "ok"}

Saved(p) ==
  /\ client[p].pc \in DOMAIN AfterSave
  /\ \E r \in Acknowledged(p, "save") :
       Goes(p, [client[p] EXCEPT !.seq = @ + 1, !.pc = AfterSave[@]], {r}, {})
  /\ UNCHANGED <<quiet, unsent>>

\* A bug to try: the save is sent and not waited for
SavedSoon(p) == Awaited(p)

\* Only a step that is on record as about to be dispatched is dispatched.
SavedFirst(p) == Acknowledged(p, "save")

SavedDispatch(p) ==
  LET c == client[p] IN
  /\ c.pc = "predispatch"
  /\ \E r \in SavedFirst(p) :
       Goes(p, [c EXCEPT !.seq = @ + 1, !.pc = "dispatch"], {r}, {})
  /\ ran' = [ran EXCEPT ![c.step] = "asked"]
  /\ life' = [life EXCEPT ![c.step] = c.token]
  /\ UNCHANGED <<quiet, intent, tokens, late>>

Confirmed(p) ==
  /\ client[p].pc = "confirming"
  /\ \E r \in Acknowledged(p, "confirm") :
       Saves(p, [client[p] EXCEPT !.seq = @ + 1, !.phase = "continuing"],
                "progress", "progress", {r})
  /\ UNCHANGED <<quiet, unsent>>

\* A run stopped during a call saves its end after that call, in order.
SavedStopping(p) ==
  /\ client[p].pc = "stopping"
  /\ \E r \in Awaited(p) :
       /\ r.state = "ok"
       /\ Finishes(p, [client[p] EXCEPT !.seq = @ + 1], "stopped", {r})
  /\ UNCHANGED <<quiet, unsent>>

Releases(p, old, new) ==
  Goes(p, [Idle EXCEPT !.pc = "releasing", !.token = client[p].token], old,
       new \cup {ReleaseCall(client[p].token, "awaited")})

SavedFinish(p) ==
  /\ client[p].pc = "finishing"
  /\ \E r \in Acknowledged(p, "save") : Releases(p, {r}, {})
  /\ UNCHANGED <<quiet, unsent>>

Journaling == {"progress", "prepared", "predispatch", "observing", "result", "reviewing",
               "confirming", "stopping", "finishing"}

\* A bug to try: the journal has no timer
NotSavedForLong(p) ==
  /\ client[p].pc \in Journaling
  /\ \E r \in Awaited(p) : r.state = "failed" /\ Releases(p, {r}, {})
  /\ UNCHANGED <<quiet, ran, intent, life, tokens, late>>

\* Refused or late: the journal is over, nothing is dispatched any more, and
\* the end of the run is not recorded.  A call that is late may still be served.
NotSaved(p) ==
  /\ client[p].pc \in Journaling
  /\ \E r \in Awaited(p) :
       TooLate(r) /\ Releases(p, {r}, Unserved(r, "lost"))
  /\ UNCHANGED <<quiet, ran, intent, life, tokens>>

Released(p) ==
  /\ client[p].pc = "releasing"
  /\ \E r \in Awaited(p) :
       /\ IF r.state = "sent" THEN TooLate(r) ELSE late' = late
       /\ Goes(p, Idle, {r}, Unserved(r, "lost"))
  /\ UNCHANGED <<quiet, ran, intent, life, tokens>>
-----------------------------------------------------------------------------
(* The running step.                                                        *)

\* The capture of a command is observed, and that is recorded too.
Observe(p) ==
  LET c == client[p] IN
  /\ c.pc = "dispatch"
  /\ IF Tool[c.step] \in Commands THEN Saves(p, c, "observing", "observing", {})
     ELSE Goes(p, [c EXCEPT !.pc = "running"], {}, {})
  /\ UNCHANGED <<quiet, unsent>>

Ended(p) ==
  LET c == client[p] IN
  /\ c.pc = "running" /\ ran[c.step] = "over" /\ c.step \notin aborted
  /\ Saves(p, [c EXCEPT !.steps[c.step] = "known"], "result", "result", {})
  /\ UNCHANGED <<quiet, unsent>>

\* dispatch-failed: the command was never written, or so the capture says.  An
\* edit that fails is unknown; a read that fails is a result like another.
NotStarted(p) ==
  LET c == client[p] IN
  /\ c.pc = "running" /\ (ran[c.step] = "refused" \/ c.step \in aborted)
  /\ CASE Tool[c.step] = "read" ->
            Saves(p, [c EXCEPT !.steps[c.step] = "none"], "result", "result", {})
       [] Tool[c.step] = "edit" -> Finishes(p, c, "stopped", {})
       [] OTHER -> Finishes(p, [c EXCEPT !.steps[c.step] = "none"], "stopped", {})
  /\ UNCHANGED <<quiet, unsent>>

\* The end was not seen: another command's marker, a prompt without a marker, a
\* file edit whose result is unknown.
Unconfirmed(p) ==
  LET c == client[p] IN
  /\ c.pc = "running" /\ ran[c.step] \in {"sent", "over"} /\ Tool[c.step] # "read"
  /\ Finishes(p, c, "stopped", {})
  /\ UNCHANGED <<quiet, unsent>>

Settling == {"idle", "starting", "stopping", "finishing", "releasing"}

\* A bug to try: the end is saved without waiting for the save before it
StopAtOnce(p) ==
  /\ client[p].pc \notin Settling
  /\ Finishes(p, client[p], "stopped", {})
  /\ UNCHANGED <<quiet, unsent>>

\* stop(), or the user gives up on a command that takes too long
Stop(p) ==
  LET c == client[p] IN
  /\ c.pc \notin Settling
  /\ IF c.pc \in Journaling THEN Goes(p, [c EXCEPT !.pc = "stopping"], {}, {})
     ELSE Finishes(p, c, "stopped", {})
  /\ UNCHANGED <<quiet, unsent>>

\* The operation reaches the shell or the writer if its target is still there.
\* The gate and the file service model that in detail.
Write(s) ==
  /\ ran[s] = "asked" /\ intent[s] = target[intent[s].proc]
  /\ ran' = [ran EXCEPT ![s] = "sent"]
  /\ UNCHANGED <<row, owners, target, client, net, intent, aborted, life, tokens, moves, late, lost, bound>>

NotWritten(s) ==
  /\ ran[s] = "asked"
  /\ ran' = [ran EXCEPT ![s] = "refused"]
  /\ UNCHANGED <<row, owners, target, client, net, intent, aborted, life, tokens, moves, late, lost, bound>>

Ends(s) ==
  /\ ran[s] = "sent"
  /\ ran' = [ran EXCEPT ![s] = "over"]
  /\ UNCHANGED <<row, owners, target, client, net, intent, aborted, life, tokens, moves, late, lost, bound>>

Captured(p) ==
  {s \in Steps : /\ client[p].pc \in {"dispatch", "observing", "running"} /\ client[p].step = s
                 /\ Tool[s] \in Commands /\ ran[s] \in {"asked", "sent", "over"}}

\* advanceTerminalInputGeneration: the active capture is told that its command
\* was not dispatched
SessionCloses(p) ==
  /\ moves < bound.moves
  /\ target' = [target EXCEPT ![p].inst = @ + 1]
  /\ aborted' = aborted \cup Captured(p)
  /\ moves' = moves + 1
  /\ UNCHANGED <<row, owners, client, net, ran, intent, life, tokens, late, lost, bound>>

EnvironmentChanges(p) ==
  /\ moves < bound.moves
  /\ \E e \in bound.envs \ {target[p].env} : target' = [target EXCEPT ![p].env = e]
  /\ moves' = moves + 1
  /\ UNCHANGED <<row, owners, client, net, ran, intent, aborted, life, tokens, late, lost, bound>>

\* The process dies and is started again: the file lock goes with it.
Crash(p) ==
  /\ "crash" \in bound.losses \ lost
  /\ lost' = lost \cup {"crash"}
  /\ owners' = [owners EXCEPT ![p] = NoOwner]
  /\ client' = [client EXCEPT ![p] = Idle]
  /\ net' = [net EXCEPT ![p] = {}]
  /\ target' = [target EXCEPT ![p].inst = @ + 1]
  /\ ran' = [s \in Steps |-> IF ran[s] = "asked" /\ intent[s].proc = p THEN "refused" ELSE ran[s]]
  /\ UNCHANGED <<row, intent, aborted, life, tokens, moves, late, bound>>

\* The window is loaded again: its lease stays with the backend, its calls are
\* served and answered to nobody.
Reload(p) ==
  /\ "reload" \in bound.losses \ lost
  /\ lost' = lost \cup {"reload"}
  /\ client' = [client EXCEPT ![p] = Idle]
  /\ net' = [net EXCEPT ![p] = {[r EXCEPT !.reply = "lost"] : r \in {x \in @ : x.state = "sent"}}]
  /\ target' = [target EXCEPT ![p].inst = @ + 1]
  /\ UNCHANGED <<row, owners, ran, intent, aborted, life, tokens, moves, late, bound>>

Window(p) ==
  \/ Ask(p) \/ GotLease(p) \/ GiveUp(p) \/ LateLease(p) \/ Propose(p) \/ Conclude(p)
  \/ Approve(p) \/ Skip(p) \/ Review(p) \/ Saved(p) \/ SavedDispatch(p) \/ Confirmed(p)
  \/ SavedStopping(p) \/ SavedFinish(p) \/ NotSaved(p) \/ Released(p) \/ Observe(p)
  \/ Ended(p) \/ NotStarted(p) \/ Unconfirmed(p) \/ Stop(p)

Next ==
  \/ \E p \in Processes : \/ Window(p) \/ Serve(p) \/ SessionCloses(p) \/ EnvironmentChanges(p)
                          \/ Crash(p) \/ Reload(p)
  \/ \E s \in Steps : Write(s) \/ NotWritten(s) \/ Ends(s)

\* The window's timers fire and its promises settle.  The backend, the model,
\* the user and the shell owe nothing; but a call the window does not stop
\* waiting for, as the bound is used up, is one the backend answers.
Fairness == \A p \in Processes :
  /\ WF_vars(SavedStopping(p) \/ SavedFinish(p) \/ NotSaved(p))
  /\ WF_vars(Released(p))
  /\ WF_vars(GiveUp(p) \/ GotLease(p))
  /\ WF_vars(late = bound.late /\ Serve(p))

Spec == Init /\ [][Next]_vars /\ Fairness
-----------------------------------------------------------------------------
Boundaries == {"started", "progress", "prepared", "before-dispatch", "observing", "result",
               "reviewing", "recovering", "resumed", "finished"}
Phases == {"none", "inspecting", "continuing"}
Statuses == {"working", "done", "waiting", "stopped"}
Replies == {"awaited", "late", "lost"}
States == {"sent", "ok", "failed"}
Call ==
  [kind : Starts, token : Nat, seq : Nat, at : Target, reply : Replies, state : States]
  \cup [kind : {"save"}, token : Nat, seq : Nat, boundary : Boundaries, step : Steps \cup {"none"},
        steps : [Steps -> Effects], status : Statuses, reply : Replies, state : States]
  \cup [kind : {"release"}, token : Nat, reply : Replies, state : States]
  \cup [kind : {"confirm"}, token : Nat, seq : Nat, at : Target,
        resolutions : SUBSET [step : Steps, by : Steps], reply : Replies, state : States]

Row == [seq : Nat, boundary : Boundaries, status : Statuses, steps : [Steps -> Effects],
        at : [Steps -> Target \cup {NoTarget}], inspected : SUBSET Steps, phase : Phases,
        source : SUBSET Steps, required : SUBSET Steps,
        resolved : SUBSET [step : Steps, by : Steps],
        current : Target \cup {NoTarget}, last : Target]

\* The window works with a lease, from the record it took over to the last save.
Live == Journaling \cup {"model", "approval", "review", "dispatch", "running"}

Loop == [pc : Live \cup {"idle", "starting", "releasing"}, step : Steps \cup {"none"},
         token : Nat, seq : Nat, phase : Phases, steps : [Steps -> Effects], status : Statuses]

Typed ==
  /\ row = NoRow \/ row \in Row
  /\ owners \in [Processes -> [token : 0 .. bound.tokens, inst : Nat]]
  /\ target \in [Processes -> Target] /\ \A p \in Processes : target[p].proc = p
  /\ client \in [Processes -> Loop] /\ net \in [Processes -> SUBSET Call]
  /\ ran \in [Steps -> {"no", "asked", "sent", "over", "refused"}]
  /\ intent \in [Steps -> Target] /\ aborted \subseteq Steps
  /\ life \in [Steps -> Nat]
  /\ bound \in Bounds /\ tokens \in 0 .. bound.tokens

\* Every window waits for at most one call, and a call it waits for is its own.
OneIsAwaited == \A p \in Processes : \A r, x \in Awaited(p) : r = x /\ r.token = client[p].token

TypeOK == Typed /\ OneIsAwaited

Happened == {s \in Steps : Tool[s] # "read" /\ ran[s] \in {"asked", "sent", "over"}}

\* What was dispatched is on record, whatever is lost, late or stopped: its
\* effect is unknown there or known, and known only after it ended
\* (agentLoop.ts saves before-dispatch and waits for the answer).  A command
\* whose session closed under it is excepted: see NotStartedIsTrue.
EffectsAreRecorded ==
  \A s \in Happened \ aborted :
    /\ row.steps[s] \in {"unknown", "known"}
    /\ row.steps[s] = "known" => ran[s] = "over"

\* The plan's scenario 7: after a disconnect, what was written and reloaded is
\* checked before the run goes on.  A command the record says was not started
\* was not sent.
NotStartedIsTrue ==
  \A s \in Happened : row.boundary = "finished" => row.steps[s] # "none"

\* One window owns the run, and a lease is not left behind: when a window is
\* idle and its calls are served, its process has given the run back
\* (useAgentSession.ts gives back a lease that comes too late).  A reloaded
\* window leaves its lease to the process.
LeasesHaveWindows ==
  /\ \A p, q \in Processes : owners[p] # NoOwner /\ owners[q] # NoOwner => p = q
  /\ \A p \in Processes :
       client[p].pc = "idle" /\ net[p] = {} /\ "reload" \notin lost => owners[p] = NoOwner

\* What a resolution cites was looked at after the step it settles, by a later
\* owner of the run (reopen_agent_checkpoint fixes what is history).
ResolvedByLaterEvidence ==
  row # NoRow => \A x \in row.resolved : life[x.by] > life[x.step] /\ ran[x.by] = "over"

\* Nothing is changed on top of an earlier owner's step nobody knows the end of:
\* such a step is resolved before a command or an edit that may change something
\* is dispatched.
FollowsReview ==
  \A s \in Steps : (ran[s] # "asked" /\ ran'[s] = "asked" /\ Tool[s] \in {"change", "edit"}) =>
    \A t \in Happened \ aborted :
      life[t] < life'[s] => row.steps[t] = "known" \/ t \in Resolved(row)

\* No step is dispatched twice, by the same owner or a later one.
RunsOnce ==
  \A s \in Steps : ran[s] # "no" /\ ran'[s] = "asked" => ran[s] = "asked" /\ life'[s] = life[s]

\* When a resolution is accepted the shell is where its evidence was read: the
\* same session and the same environment.
ResolvesWhereChecked ==
  (row # NoRow /\ row'.resolved # row.resolved) =>
    \E p \in Processes : owners[p] # NoOwner /\
      \A x \in row'.resolved \ row.resolved :
        target[p] = [proc |-> p, inst |-> row.at[x.by].inst, env |-> row.at[x.by].env]

\* A run that is stopped comes to an end in the window, though storage, model
\* or shell never answer.
StopEnds == \A p \in Processes : client[p].pc = "stopping" ~> client[p].pc = "idle"
\* What was dispatched is on record, whatever is lost, late or stopped, and
\* what a resolution cites was looked at after the step it settles.
RecordIsTrue == EffectsAreRecorded /\ ResolvedByLaterEvidence

\* Nothing is changed on top of an earlier owner's step nobody knows the end
\* of, no step is dispatched twice, and when a resolution is accepted the shell
\* is where its evidence was read.
StepsFollowReview == [][FollowsReview /\ RunsOnce /\ ResolvesWhereChecked]_vars
-----------------------------------------------------------------------------
(* What these follow from: the parts of an invariant every step preserves.  *)

\* The window's lease is still the one it works with: its last save is not served.
Holds(p) ==
  /\ client[p].pc \in Live
  /\ ~(client[p].pc = "finishing" /\ \E r \in Awaited(p) : r.state = "ok")

OneOwner == \A p, q \in Processes : owners[p] # NoOwner /\ owners[q] # NoOwner => p = q

TokensAreIssued ==
  \A p \in Processes :
    /\ owners[p] = NoOwner \/ owners[p].token \in 1 .. tokens
    /\ client[p].token \in 0 .. tokens /\ (client[p].pc # "idle" => client[p].token # 0)
    /\ \A r \in net[p] : r.token \in 1 .. tokens

\* A token is of one start call, and of what its window goes on to ask.
StartsAreAlone ==
  \A p, q \in Processes : \A r \in net[p], x \in net[q] :
    r.kind \in Starts /\ x.token = r.token => p = q /\ x = r

StartsAreAsked ==
  \A p, q \in Processes : \A r \in net[p] :
    r.kind \in Starts /\ client[q].token = r.token => p = q /\ client[p].pc = "starting"

StartsAreOwned ==
  \A p, q \in Processes : \A r \in net[p] : r.kind \in Starts =>
    /\ r.state = "sent" => owners[q].token # r.token
    /\ r.state = "ok" => owners[p].token = r.token

\* The call a window waits for is the one that is due where it is, and while it
\* works no other call has its token.
WaitsAreDue ==
  \A p \in Processes :
    /\ \A r \in Awaited(p) :
         /\ r.kind \in Starts => client[p].pc = "starting"
         /\ r.kind \in {"save", "confirm"} => client[p].pc \in Journaling
         /\ r.kind = "release" => client[p].pc = "releasing"
         /\ client[p].pc # "idle"
         /\ client[p].pc # "finishing" /\ r.kind = "save" => r.boundary # "finished"
    /\ client[p].pc \in Live \cup {"starting"} =>
         \A r \in net[p] : r.token = client[p].token => r.reply = "awaited"

HoldersOwn == \A p \in Processes : Holds(p) => owners[p].token = client[p].token

\* A lease has a window, or a call that gives it back.
GivesBack(r) == (r.kind \in Starts /\ r.state = "ok") \/ (r.kind = "release" /\ r.state = "sent")

LeasesReturn ==
  "reload" \notin lost => \A p \in Processes :
    /\ \A r \in net[p] : r.kind \in Starts => r.reply # "lost"
    /\ owners[p] # NoOwner =>
         \/ client[p].pc \in Live /\ client[p].token = owners[p].token
         \/ \E r \in net[p] : r.token = owners[p].token /\ GivesBack(r)

\* Without a record nothing was asked for but to begin one.
NothingWithoutRecord ==
  row = NoRow =>
    /\ \A s \in Steps : ran[s] = "no"
    /\ \A p \in Processes : /\ owners[p] = NoOwner
                            /\ \A r \in net[p] : r.kind \in Starts => r.kind = "begin"

\* What a copy of the steps says, if it is true.
Truthful(steps) ==
  \A s \in Steps :
    /\ steps[s] = "absent" => ran[s] = "no"
    /\ steps[s] = "known" => ran[s] = "over"
    /\ s \in Happened \ aborted => steps[s] \in {"unknown", "known"}

CopiesAreTrue ==
  /\ row # NoRow => Truthful(row.steps)
  /\ \A p \in Processes :
       /\ Holds(p) => Truthful(client[p].steps)
       /\ \A r \in net[p] : r.kind = "save" /\ r.state = "sent" /\ r.token = owners[p].token =>
            Truthful(r.steps)

\* The step that is about to be dispatched has not been, and is on record.
StepsAreNamed == \A p \in Processes : \A r \in net[p] :
  r.kind = "save" /\ Dispatching(r) => r.step \in Steps

NextIsNew ==
  \A p \in Processes : LET c == client[p] IN
    /\ c.pc \in {"prepared", "approval", "predispatch"} => c.step \in Steps /\ ran[c.step] = "no"
    /\ c.pc = "predispatch" =>
         /\ c.steps[c.step] = "unknown"
         /\ \A r \in Awaited(p) :
              /\ r.kind = "save" /\ r.boundary = "before-dispatch"
              /\ r.step = c.step /\ r.steps = c.steps
              /\ r.state = "ok" =>
                   /\ row.steps[c.step] = "unknown" /\ c.step \notin row.source
                   /\ Tool[c.step] \in {"change", "edit"} => row.phase # "inspecting"

\* The history of a recovery: what is open in it is required until it is
\* resolved, and nothing is inspected only once that is done.
HistoryIsReviewed ==
  row # NoRow =>
    /\ row.source \subseteq Present(row.steps)
    /\ row.required \cup Resolved(row) \subseteq row.source
    /\ Unknown(row.steps) \cap row.source \subseteq row.required \cup Resolved(row)
    /\ row.phase # "inspecting" => row.required \subseteq Resolved(row)

\* Leases follow each other in the order they were asked for, as the record
\* has moved on for a call that comes too late.
LivesAreOrdered ==
  /\ \A s \in Steps : life[s] \in 0 .. tokens /\ (ran[s] = "no" => life[s] = 0)
  /\ row # NoRow => \A a \in row.source, b \in Steps \ row.source :
       ran[b] # "no" => life[a] < life[b]
  /\ \A p \in Processes : owners[p] # NoOwner =>
       /\ \A a \in row.source : life[a] < owners[p].token
       /\ \A b \in Steps \ row.source : ran[b] # "no" => life[b] = owners[p].token
  /\ \A p \in Processes : \A r \in net[p] : r.kind \in {"recover", "reply"} /\ r.state = "sent" =>
       /\ r.seq <= row.seq
       /\ r.seq = row.seq => \A s \in Steps : life[s] < r.token
       /\ \A q \in Processes : r.token < owners[q].token => r.seq < row.seq

RunInvariant ==
  /\ Typed /\ OneIsAwaited /\ OneOwner /\ TokensAreIssued /\ StartsAreAlone
  /\ StartsAreAsked /\ StartsAreOwned /\ WaitsAreDue /\ HoldersOwn
  /\ LeasesReturn /\ NothingWithoutRecord /\ CopiesAreTrue /\ StepsAreNamed /\ NextIsNew
  /\ HistoryIsReviewed /\ LivesAreOrdered /\ ResolvedByLaterEvidence

=============================================================================
