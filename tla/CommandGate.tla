---------------------------- MODULE CommandGate ----------------------------
(***************************************************************************)
(* The gate between a proposed command and the shell that runs it:          *)
(* AppState (src-tauri/src/app/state.rs) and its IntentStore                *)
(* (src-tauri/src/domain/command_policy/intent.rs).                        *)
(*                                                                         *)
(* A client (the command bar, the agent, a script run) takes a snapshot of *)
(* the session's ExecutionTarget, has its source analysed outside the lock *)
(* and inserts the result as a pending intent.  The user approves the      *)
(* intent, a dispatch consumes it and writes its payload to the terminal.   *)
(* Meanwhile anyone may type, report a new context, edit the profile, or    *)
(* replace the session.  Every action below is one critical section of the *)
(* `sessions' mutex; what happens between two of them is the analysis.      *)
(*                                                                         *)
(* Ghost state: `epoch' counts what the shell itself has been through, with *)
(* no regard to the versions the program keeps; `log' is what was written.  *)
(***************************************************************************)
EXTENDS ExecutionTargets, Sequences, FiniteSets

CONSTANTS
  Profiles,         \* ids of connection profiles
  ProfileOf,        \* the profile each session was opened with
  Clients,          \* concurrent callers of the Tauri commands
  Intents,          \* the UUIDs of intents that can be issued
  Sources,          \* command texts a caller may propose
  Probes,           \* InternalProbe: fixed read-only helpers of the program
  IntegrationProbe, \* the one probe that changes the shell
  Complete,         \* contexts with directory, user and scope all reported
  ScriptShells,     \* contexts whose shell is Bash, Posix or Zsh
  Verdicts,         \* analyze_command: source and context to a decision
  ScriptVerdicts,   \* analyze_command with the Bash dialect
  MaxPending,       \* MAX_PENDING_INTENTS
  MaxInstance, MaxRoute, MaxVersion  \* bounds of the model

Decisions == {"allow", "ask", "deny"}

ASSUME GateAssumption ==
  /\ ProfileOf \in [Sessions -> Profiles]
  /\ Complete \subseteq Contexts \ {UnknownContext}
  /\ ScriptShells \subseteq Contexts \ {UnknownContext}
  /\ IntegrationProbe \in Probes
  /\ Verdicts \in [Sources \X Contexts -> Decisions]
  /\ ScriptVerdicts \in [Sources -> Decisions]
  /\ MaxPending \in Nat \ {0}
  /\ MaxInstance \in Nat /\ MaxRoute \in Nat /\ MaxVersion \in Nat

VARIABLES
  open,       \* the keys of AppState::sessions
  target,     \* SessionRecord::execution_target, for open sessions
  terminal,   \* SessionRecord::terminal.is_some()
  pending,    \* the IntentStores of all sessions: a set of intents
  issued,     \* ids handed out by Uuid::new_v4 so far
  held,       \* the target each client read last, with the epoch it saw
  analysing,  \* the analysis each client has running: {} or one prepared intent
  instances,  \* sessions registered so far
  epoch,      \* ghost: how often the shell of a session may have changed
  measured,   \* ghost: the epoch in which the current context was measured
  reviewed,   \* ghost: which text the user approved for which intent
  log         \* ghost: what dispatches wrote, in order

records == <<open, target, terminal>>
clients == <<held, analysing>>
vars == <<open, target, terminal, pending, issued, held, analysing, instances,
          epoch, measured, reviewed, log>>

-----------------------------------------------------------------------------
(* The IntentStore.                                                        *)

Prepared ==
  [source : Sources \cup Probes, script : BOOLEAN, target : Target,
   decision : Decisions, preserves : BOOLEAN, seen : Nat]

Intent ==
  [id : Intents, source : Sources \cup Probes, script : BOOLEAN,
   target : Target, decision : Decisions, preserves : BOOLEAN, seen : Nat,
   approved : BOOLEAN, fresh : BOOLEAN]

PendingOf(s) == {i \in pending : i.target.session = s}
Unexpired(s) == {i \in PendingOf(s) : i.fresh}

\* (a bug to try: the context does not matter)
AnalyseTrusting(source, script, context) ==
  IF script THEN ScriptVerdicts[source] ELSE Verdicts[source, context]

(* prepare_input: an incomplete context, or a script for a shell that is not *)
(* known to take one, leaves nothing better than Ask.                       *)
Analyse(source, script, context) ==
  LET verdict == IF script THEN ScriptVerdicts[source]
                           ELSE Verdicts[source, context]
      unknown == \/ context \notin Complete
                 \/ script /\ context \notin ScriptShells
  IN IF unknown /\ verdict # "deny" THEN "ask" ELSE verdict

NewIntent(id, p) ==
  [id |-> id, source |-> p.source, script |-> p.script, target |-> p.target,
   decision |-> p.decision, preserves |-> p.preserves, seen |-> p.seen,
   approved |-> FALSE, fresh |-> TRUE]

(* The current intents leave room for one more.                              *)
Room(s) == Cardinality(Unexpired(s)) < MaxPending

(* IntentStore::insert: a changed target is refused, then the expired entries *)
(* go, then the cap counts what is left.                                     *)
Insert(s, p) ==
  /\ s \in open
  /\ \/ /\ p.target = target[s]
        /\ Room(s)
        /\ \E id \in Intents \ issued :
             /\ issued' = issued \cup {id}
             /\ pending' = (pending \ PendingOf(s)) \cup Unexpired(s)
                             \cup {NewIntent(id, p)}
     \/ /\ p.target = target[s]
        /\ ~Room(s)
        /\ pending' = (pending \ PendingOf(s)) \cup Unexpired(s)
        /\ UNCHANGED issued
     \/ /\ p.target # target[s]
        /\ UNCHANGED <<pending, issued>>

(* IntentStore::checked, for the reference its caller was given.             *)
Checked(i) ==
  /\ i.target.session \in open
  /\ i.fresh
  /\ i.target = target[i.target.session]
  /\ i.decision # "deny"

-----------------------------------------------------------------------------
Init ==
  /\ open = {}
  /\ target = [s \in Sessions |-> NewTarget(s, 0)]
  /\ terminal = [s \in Sessions |-> FALSE]
  /\ pending = {} /\ issued = {}
  /\ held = [c \in Clients |-> {}]
  /\ analysing = [c \in Clients |-> {}]
  /\ instances = 0
  /\ epoch = [s \in Sessions |-> 0]
  /\ measured = [s \in Sessions |-> 0]
  /\ reviewed = {}
  /\ log = <<>>

(* register_terminal_session, and register_session without a terminal.  An   *)
(* existing record of that id is dropped with everything it held.            *)
Register(s, attached) ==
  /\ instances < MaxInstance
  /\ instances' = instances + 1
  /\ open' = open \cup {s}
  /\ target' = [target EXCEPT ![s] = NewTarget(s, instances + 1)]
  /\ terminal' = [terminal EXCEPT ![s] = attached]
  /\ pending' = pending \ PendingOf(s)
  /\ epoch' = [epoch EXCEPT ![s] = @ + 1]
  /\ UNCHANGED <<issued, clients, measured, reviewed, log>>

(* remove_session: disconnect, or the exit callback of the terminal.         *)
Remove(s) ==
  /\ s \in open
  /\ open' = open \ {s}
  /\ terminal' = [terminal EXCEPT ![s] = FALSE]
  /\ pending' = pending \ PendingOf(s)
  /\ UNCHANGED <<target, issued, clients, instances, epoch, measured, reviewed,
                 log>>

(* write_terminal: keyboard input.  The approvals go before the write, and   *)
(* whether or not it succeeds.                                               *)
WriteTerminal(s) ==
  /\ s \in open /\ target[s].version < MaxVersion
  /\ target' = [target EXCEPT ![s] = InvalidateContext(@)]
  /\ pending' = pending \ PendingOf(s)
  /\ epoch' = IF terminal[s] THEN [epoch EXCEPT ![s] = @ + 1] ELSE epoch
  /\ UNCHANGED <<open, terminal, issued, clients, instances, measured, reviewed,
                 log>>

(* command_execution_target                                                 *)
ReadTarget(c, s) ==
  /\ s \in open /\ terminal[s]
  /\ held' = [held EXCEPT ![c] = {[target |-> target[s], epoch |-> epoch[s]]}]
  /\ UNCHANGED <<records, pending, issued, analysing, instances, epoch, measured,
                 reviewed, log>>

(* update_command_context: a report is accepted only for the target it was   *)
(* measured on, and a context that did change voids what was reviewed.       *)
UpdateContext(c, context) ==
  \E h \in held[c] : LET s == h.target.session IN
    /\ s \in open /\ target[s] = h.target
    /\ context # target[s].context
    /\ target[s].version < MaxVersion
    /\ target' = [target EXCEPT ![s].context = context, ![s].version = @ + 1]
    /\ pending' = pending \ PendingOf(s)
    /\ measured' = [measured EXCEPT ![s] = h.epoch]
    /\ UNCHANGED <<open, terminal, issued, clients, instances, epoch, reviewed,
                   log>>

(* analyze_captured_command_intent, first half: the target is compared, the  *)
(* lock released and the source handed to the blocking pool.                 *)
StartAnalysis(c, source, script) ==
  /\ analysing[c] = {}
  /\ \E h \in held[c] : LET s == h.target.session IN
       /\ s \in open /\ terminal[s] /\ target[s] = h.target
       /\ analysing' = [analysing EXCEPT ![c] =
            {[source |-> source, script |-> script, target |-> h.target,
              decision |-> Analyse(source, script, h.target.context),
              preserves |-> FALSE, seen |-> h.epoch]}]
  /\ UNCHANGED <<records, pending, issued, held, instances, epoch, measured,
                 reviewed, log>>

(* Second half: the lock is taken again and insert rechecks the target.      *)
FinishAnalysis(c) ==
  /\ \E p \in analysing[c] :
       \/ Insert(p.target.session, p)
       \/ p.target.session \notin open /\ UNCHANGED <<pending, issued>>
  /\ analysing' = [analysing EXCEPT ![c] = {}]
  /\ UNCHANGED <<records, held, instances, epoch, measured, reviewed, log>>

(* prepare_terminal_probe                                                   *)
PrepareProbe(c, probe) ==
  /\ \E h \in held[c] :
       /\ terminal[h.target.session]
       /\ Insert(h.target.session,
            [source |-> probe, script |-> FALSE, target |-> h.target,
             decision |-> "allow", preserves |-> probe # IntegrationProbe,
             seen |-> h.epoch])
  /\ UNCHANGED <<records, clients, instances, epoch, measured, reviewed, log>>

(* approve_command_intent: the text on the user's screen must be the text    *)
(* that is stored.                                                          *)
Approve(i, text) ==
  /\ Checked(i)
  /\ i.source = text
  /\ pending' = (pending \ {i}) \cup {[i EXCEPT !.approved = TRUE]}
  /\ reviewed' = reviewed \cup {<<i.id, text>>}
  /\ UNCHANGED <<records, issued, clients, instances, epoch, measured, log>>

(* cancel_command_intent                                                    *)
Cancel(i) ==
  /\ pending' = pending \ {i}
  /\ UNCHANGED <<records, issued, clients, instances, epoch, measured, reviewed,
                 log>>

(* The five minutes of INTENT_TTL pass.                                     *)
Expire(i) ==
  /\ i.fresh
  /\ pending' = (pending \ {i}) \cup {[i EXCEPT !.fresh = FALSE]}
  /\ UNCHANGED <<records, issued, clients, instances, epoch, measured, reviewed,
                 log>>

\* (a bug to try: nobody asks whether the user has confirmed)
UnconfirmedToo(i) ==
  /\ Checked(i)
  /\ i.script => target[i.target.session].context \in ScriptShells

(* consume_dispatch: what may leave the store.                              *)
MayDispatch(i) ==
  /\ Checked(i)
  /\ i.decision = "allow" \/ i.approved
  /\ i.script => target[i.target.session].context \in ScriptShells

\* (a bug to try: a read-only probe stays in the store)
ConsumedIfChanging(i, changes) ==
  IF changes THEN PendingOf(i.target.session) ELSE {}

(* What a dispatch takes out of the store: a read-only probe only itself, all *)
(* else every approval of the session.                                      *)
Consumed(i, changes) ==
  IF changes THEN PendingOf(i.target.session) ELSE {i}

(* dispatch_command_intent: consumed and written under one lock.  A write    *)
(* that fails may have had an effect, so it voids the rest as well.          *)
Dispatch(i, ok) ==
  LET s == i.target.session
      changes == ~i.preserves \/ ~ok
  IN /\ MayDispatch(i) /\ terminal[s]
     /\ changes => target[s].version < MaxVersion
     /\ pending' = pending \ Consumed(i, changes)
     /\ target' = IF changes
                     THEN [target EXCEPT ![s] = InvalidateContext(@)]
                     ELSE target
     /\ epoch' = IF changes THEN [epoch EXCEPT ![s] = @ + 1] ELSE epoch
     /\ log' = Append(log, [intent |-> i, epoch |-> epoch[s]])
     /\ UNCHANGED <<open, terminal, issued, clients, instances, measured, reviewed>>

(* save_connection_profile and delete_connection_profile, after the store     *)
(* has changed: invalidate_profile_intents.                                  *)
InvalidateProfile(p) ==
  LET affected == {s \in open : ProfileOf[s] = p}
  IN /\ \A s \in affected : /\ target[s].route < MaxRoute
                             /\ target[s].version < MaxVersion
     /\ target' = [s \in Sessions |-> IF s \in affected
                                        THEN InvalidateRoute(target[s])
                                        ELSE target[s]]
     /\ pending' = {i \in pending : i.target.session \notin affected}
     /\ UNCHANGED <<open, terminal, issued, clients, instances, epoch, measured,
                    reviewed, log>>

Next ==
  \/ \E s \in Sessions : \/ \E attached \in BOOLEAN : Register(s, attached)
                         \/ Remove(s)
                         \/ WriteTerminal(s)
                         \/ \E c \in Clients : ReadTarget(c, s)
  \/ \E c \in Clients : \/ \E context \in Contexts : UpdateContext(c, context)
                        \/ \E source \in Sources, script \in BOOLEAN :
                             StartAnalysis(c, source, script)
                        \/ FinishAnalysis(c)
                        \/ \E probe \in Probes : PrepareProbe(c, probe)
  \/ \E i \in pending : \/ \E text \in Sources \cup Probes : Approve(i, text)
                        \/ Cancel(i)
                        \/ Expire(i)
                        \/ \E ok \in BOOLEAN : Dispatch(i, ok)
  \/ \E p \in Profiles : InvalidateProfile(p)

Spec == Init /\ [][Next]_vars

-----------------------------------------------------------------------------
Bounded ==
  /\ IsFiniteSet(pending)
  /\ \A s \in Sessions : Cardinality(PendingOf(s)) <= MaxPending

(* Every variable has the type its declaration says, and no session has more  *)
(* than MaxPending intents waiting.                                          *)
TypeOK ==
  /\ open \subseteq Sessions
  /\ target \in [Sessions -> Target]
  /\ terminal \in [Sessions -> BOOLEAN]
  /\ pending \subseteq Intent /\ Bounded
  /\ issued \subseteq Intents
  /\ held \in [Clients -> SUBSET [target : Target, epoch : Nat]]
  /\ analysing \in [Clients -> SUBSET Prepared]
  /\ instances \in Nat
  /\ epoch \in [Sessions -> Nat]
  /\ measured \in [Sessions -> Nat]
  /\ reviewed \subseteq Intents \X (Sources \cup Probes)
  /\ log \in Seq([intent : Intent, epoch : Nat])

(* No approval outlives the target it was given for: whatever is pending in  *)
(* a session is pending for exactly the target the session has now, although *)
(* targets change in five places and analyses land at any time.              *)
PendingIsCurrent ==
  \A i \in pending : /\ i.target.session \in open
                     /\ i.target = target[i.target.session]

(* A command reaches the shell at most once, however often its reference is  *)
(* presented: dispatch consumes the intent before it writes.                 *)
WrittenOnce ==
  \A m, n \in DOMAIN log : log[m].intent.id = log[n].intent.id => m = n

(* What reaches the shell was allowed by policy or confirmed by the user in   *)
(* the very text that is written, and was never denied; and nothing is        *)
(* allowed unseen in a shell whose context was not fully known.              *)
WrittenAsReviewed ==
  \A n \in DOMAIN log : LET i == log[n].intent IN
    /\ i.decision = "allow" \/ <<i.id, i.source>> \in reviewed
    /\ i.decision # "deny"
    /\ (i.decision = "allow" /\ i.source \notin Probes) =>
         i.target.context \in Complete

(* A command runs in the shell it was reviewed for: nothing that could have   *)
(* moved the shell (typing, another command, a reconnect, a failed write)     *)
(* happened between the moment its proposer looked at the target and the      *)
(* write.  The program compares versions; this compares what happened.       *)
WrittenInReviewedShell ==
  \A n \in DOMAIN log : log[n].intent.seen = log[n].epoch

(* A reported directory and identity is never attributed to a shell that has  *)
(* moved on since they were measured.                                        *)
ContextIsCurrent ==
  \A s \in open : target[s].context # UnknownContext => measured[s] = epoch[s]

(* Why all this holds.  A snapshot is never ahead of the target it was taken   *)
(* of, and one that still equals it was taken of the shell as it is now.       *)
Dated(t, seen) ==
  /\ t.instance <= instances
  /\ t.instance = target[t.session].instance =>
       t.version <= target[t.session].version
  /\ t = target[t.session] => seen = epoch[t.session]

SnapshotsAreDated ==
  /\ \A s \in Sessions : target[s].session = s /\ target[s].instance <= instances
  /\ \A c \in Clients : /\ \A h \in held[c] : Dated(h.target, h.epoch)
                        /\ \A p \in analysing[c] : Dated(p.target, p.seen)
  /\ \A i \in pending : i.seen = epoch[i.target.session]

(* An id is handed out once, and leaves the store for good.                   *)
IdsAreSpent ==
  /\ \A i \in pending : i.id \in issued
  /\ \A i, j \in pending : i.id = j.id => i = j
  /\ \A n \in DOMAIN log : log[n].intent.id \in issued
  /\ \A n \in DOMAIN log : \A i \in pending : log[n].intent.id # i.id

(* An approval is what the user said, and allowed unseen means understood.     *)
Understood(p) ==
  p.decision = "allow" /\ p.source \notin Probes => p.target.context \in Complete

DecisionsAreCautious ==
  /\ \A c \in Clients : \A p \in analysing[c] : Understood(p)
  /\ \A i \in pending : /\ Understood(i)
                        /\ i.approved => <<i.id, i.source>> \in reviewed

IInv ==
  /\ TypeOK /\ PendingIsCurrent /\ SnapshotsAreDated
  /\ ContextIsCurrent /\ WrittenInReviewedShell
  /\ IdsAreSpent /\ WrittenOnce
  /\ DecisionsAreCautious /\ WrittenAsReviewed

(* The gate keeps the promise of ReviewedExecution.                          *)
Proposal(i) ==
  [id |-> i.id, text |-> i.source, place |-> i.target.session,
   verdict |-> i.decision, world |-> i.seen]

Promise == INSTANCE ReviewedExecution WITH
  Ids <- Intents, Texts <- Sources \cup Probes, Places <- Sessions,
  Verdict <- Decisions,
  waiting <- {Proposal(i) : i \in pending},
  executed <- [n \in DOMAIN log |-> Proposal(log[n].intent)],
  used <- issued, confirmed <- reviewed, world <- epoch

KeepsPromise == Promise!Spec

=============================================================================
