---------------------------- MODULE SshTaskGate ----------------------------
(***************************************************************************)
(* Independent SSH tasks, from proposal to a run under observation:         *)
(* src-tauri/src/app/ssh_tasks_state.rs, domain/terminal/ssh_tasks/store.rs *)
(* and the profile edits of app/state.rs that are meant to overtake them.   *)
(*                                                                         *)
(* A task is bound to the session's ExecutionTarget and to the profile as it *)
(* was saved when the task was prepared.  Preparing and starting both read   *)
(* the profile from the database before they take the session lock; saving   *)
(* a profile writes the database first and invalidates the sessions later.   *)
(* Every action is one database access or one critical section of the lock.  *)
(***************************************************************************)
EXTENDS ExecutionTargets, FiniteSets

CONSTANTS
  Profiles, ProfileOf, \* connection profiles, and the one of each session
  Routes, Secrets,     \* what a profile holds: host, user, gateway; passwords
  NoSecret,            \* a profile whose stored password is gone
  Tasks,               \* the UUIDs of tasks that can be prepared
  Callers,             \* concurrent prepare_ssh_task and start_ssh_task calls
  MaxPending,          \* 16 in SshTaskStore::insert
  MaxRunning,          \* 4 in SessionSshTasks::reserve
  MaxKept,             \* 15 in SessionSshTasks::reserve
  MaxInstance, MaxVersion, MaxEdits \* bounds of the model

ASSUME TaskAssumption ==
  /\ ProfileOf \in [Sessions -> Profiles]
  /\ NoSecret \in Secrets
  /\ MaxPending \in Nat \ {0} /\ MaxRunning \in Nat \ {0}
  /\ MaxKept \in Nat /\ MaxRunning <= MaxKept
  /\ MaxInstance \in Nat /\ MaxVersion \in Nat /\ MaxEdits \in Nat

Profile == [route : Routes, secret : Secrets]

VARIABLES
  stored,    \* the saved profiles: at most one Profile per id
  edits,     \* saves and deletes begun; bounded by MaxEdits
  saving,    \* saves and deletes done in the database, sessions not yet told
  deleting,  \* deletes that have removed the passwords but not the row
  open,      \* sessions with a record
  target,    \* SessionRecord::execution_target
  instances, \* sessions registered so far
  pending,   \* SshTaskStore::pending of all sessions
  issued,    \* task ids handed out
  calls,     \* calls between two of their steps, at most one per caller
  runs,      \* runs spawned, with their SshTaskControl
  confirmed  \* ghost: the <<task, route>> pairs the user confirmed

database == <<stored, edits, saving, deleting>>
sessions == <<open, target, instances>>
vars == <<stored, edits, saving, deleting, open, target, instances, pending, issued,
          calls, runs, confirmed>>

Pending ==
  [id : Tasks, origin : Target, profile : Profile, approved : BOOLEAN,
   fresh : BOOLEAN]

(* A prepare call after its target check or its profile read, and a start     *)
(* call after its profile read.                                              *)
Call == [kind : {"checked"}, origin : Target]
   \cup [kind : {"prepared"}, origin : Target, profile : Profile]
   \cup [kind : {"starting"}, origin : Target, profile : Profile, id : Tasks]

(* `kept': still in SessionSshTasks::active of the record that started it.    *)
Run ==
  [id : Tasks, origin : Target, profile : Profile, stop : BOOLEAN,
   finished : BOOLEAN, kept : BOOLEAN]

PendingOf(s) == {t \in pending : t.origin.session = s}
KeptBy(s) == {r \in runs : r.kept /\ r.origin.session = s}
Unexpired(s) == {t \in PendingOf(s) : t.fresh}

\* (bugs to try: only runs started in the present context are stopped; or they are
\* forgotten without being stopped)
StopRunsOfContext(ss) ==
  {IF r.kept /\ r.origin.session \in ss /\ r.origin = target[r.origin.session]
     THEN [r EXCEPT !.stop = TRUE] ELSE r : r \in runs}

ForgetRuns(ss) ==
  {IF r.kept /\ r.origin.session \in ss THEN [r EXCEPT !.kept = FALSE] ELSE r :
     r \in runs}

\* (and one more: the tasks of a dropped record are not told)
DroppedQuietly(ss) == ForgetRuns(ss)

(* SessionSshTasks::invalidate_route, and its Drop, for some sessions.        *)
StopRuns(ss) ==
  {IF r.kept /\ r.origin.session \in ss THEN [r EXCEPT !.stop = TRUE] ELSE r :
     r \in runs}

Dropped(ss) ==
  {IF r.kept /\ r.origin.session \in ss
     THEN [r EXCEPT !.stop = TRUE, !.kept = FALSE] ELSE r : r \in runs}

-----------------------------------------------------------------------------
Init ==
  /\ stored \in [Profiles -> {{p} : p \in [route : Routes, secret : Secrets]}]
  /\ edits = 0
  /\ saving = [p \in Profiles |-> 0]
  /\ deleting = {}
  /\ open = {}
  /\ target = [s \in Sessions |-> NewTarget(s, 0)]
  /\ instances = 0
  /\ pending = {} /\ issued = {} /\ runs = {} /\ confirmed = {}
  /\ calls = [c \in Callers |-> {}]

(* save_connection_profile in the store: passwords go to the credential       *)
(* store first, the row follows.  If the row fails the passwords have changed *)
(* and the error returns before any session is told.                         *)
SaveProfile(p, profile, ok) ==
  /\ edits < MaxEdits /\ edits' = edits + 1
  /\ IF ok
       THEN /\ stored' = [stored EXCEPT ![p] = {profile}]
            /\ saving' = [saving EXCEPT ![p] = @ + 1]
       ELSE /\ stored' = [stored EXCEPT ![p] =
                 {[old EXCEPT !.secret = profile.secret] : old \in @}]
            /\ UNCHANGED saving
  /\ UNCHANGED <<deleting, sessions, pending, issued, calls, runs, confirmed>>

(* delete_connection_profile in the store: the passwords, then the row.       *)
DeleteSecrets(p) ==
  /\ edits < MaxEdits /\ edits' = edits + 1
  /\ stored[p] # {} /\ p \notin deleting
  /\ stored' = [stored EXCEPT ![p] = {[old EXCEPT !.secret = NoSecret] : old \in @}]
  /\ deleting' = deleting \cup {p}
  /\ UNCHANGED <<saving, sessions, pending, issued, calls, runs, confirmed>>

DeleteRow(p, ok) ==
  /\ p \in deleting
  /\ UNCHANGED edits
  /\ deleting' = deleting \ {p}
  /\ IF ok /\ stored[p] # {}
       THEN /\ stored' = [stored EXCEPT ![p] = {}]
            /\ saving' = [saving EXCEPT ![p] = @ + 1]
       ELSE UNCHANGED <<stored, saving>>
  /\ UNCHANGED <<sessions, pending, issued, calls, runs, confirmed>>

(* invalidate_profile_intents, once per save or delete that succeeded.        *)
InvalidateProfile(p) ==
  LET told == {s \in open : ProfileOf[s] = p}
  IN /\ saving[p] > 0
     /\ saving' = [saving EXCEPT ![p] = @ - 1]
     /\ target' = [s \in Sessions |->
                     IF s \in told THEN InvalidateRoute(target[s]) ELSE target[s]]
     /\ pending' = {t \in pending : t.origin.session \notin told}
     /\ runs' = StopRuns(told)
     /\ UNCHANGED <<stored, edits, deleting, open, instances, issued, calls, confirmed>>

-----------------------------------------------------------------------------
(* register_terminal_session: a record of the same id is dropped first.       *)
Register(s) ==
  /\ instances < MaxInstance
  /\ instances' = instances + 1
  /\ open' = open \cup {s}
  /\ target' = [target EXCEPT ![s] = NewTarget(s, instances + 1)]
  /\ pending' = pending \ PendingOf(s)
  /\ runs' = Dropped({s})
  /\ UNCHANGED <<database, issued, calls, confirmed>>

Remove(s) ==
  /\ s \in open
  /\ open' = open \ {s}
  /\ pending' = pending \ PendingOf(s)
  /\ runs' = Dropped({s})
  /\ UNCHANGED <<database, target, instances, issued, calls, confirmed>>

(* What CommandGate does to a target, seen from here: keyboard input, a       *)
(* dispatched command or a new context moves the version and clears what is   *)
(* pending; runs that were started go on.                                    *)
MoveContext(s) ==
  /\ s \in open /\ target[s].version < MaxVersion
  /\ target' = [target EXCEPT ![s] = InvalidateContext(@)]
  /\ pending' = pending \ PendingOf(s)
  /\ UNCHANGED <<database, open, instances, issued, calls, runs, confirmed>>

-----------------------------------------------------------------------------
(* prepare_ssh_task: check the target, read the profile, insert.              *)
PrepareCheck(c, s) ==
  /\ calls[c] = {} /\ s \in open
  /\ calls' = [calls EXCEPT ![c] = {[kind |-> "checked", origin |-> target[s]]}]
  /\ UNCHANGED <<database, sessions, pending, issued, runs, confirmed>>

PrepareRead(c) ==
  /\ \E k \in calls[c] :
       /\ k.kind = "checked"
       /\ calls' = [calls EXCEPT ![c] =
            {[kind |-> "prepared", origin |-> k.origin, profile |-> profile] :
               profile \in stored[ProfileOf[k.origin.session]]}]
  /\ UNCHANGED <<database, sessions, pending, issued, runs, confirmed>>

PrepareInsert(c) ==
  /\ \E k \in calls[c] : LET s == k.origin.session IN
       /\ k.kind = "prepared"
       /\ IF s \in open /\ k.origin = target[s]
            THEN \/ /\ Cardinality(Unexpired(s)) < MaxPending
                    /\ \E id \in Tasks \ issued :
                         /\ issued' = issued \cup {id}
                         /\ pending' = (pending \ PendingOf(s)) \cup Unexpired(s) \cup
                              {[id |-> id, origin |-> k.origin, profile |-> k.profile,
                                approved |-> FALSE, fresh |-> TRUE]}
                 \/ /\ Cardinality(Unexpired(s)) >= MaxPending
                    /\ pending' = (pending \ PendingOf(s)) \cup Unexpired(s)
                    /\ UNCHANGED issued
            ELSE UNCHANGED <<pending, issued>>
  /\ calls' = [calls EXCEPT ![c] = {}]
  /\ UNCHANGED <<database, sessions, runs, confirmed>>

(* SshTaskStore::checked for the reference a caller holds.                    *)
Checked(t) ==
  /\ t.fresh
  /\ t.origin.session \in open
  /\ t.origin = target[t.origin.session]

(* approve: the request and the displayed route must be those of the task.    *)
Approve(t, route) ==
  /\ Checked(t)
  /\ t.profile.route = route
  /\ pending' = (pending \ {t}) \cup {[t EXCEPT !.approved = TRUE]}
  /\ confirmed' = confirmed \cup {<<t.id, route>>}
  /\ UNCHANGED <<database, sessions, issued, calls, runs>>

Expire(t) ==
  /\ t.fresh
  /\ pending' = (pending \ {t}) \cup {[t EXCEPT !.fresh = FALSE]}
  /\ UNCHANGED <<database, sessions, issued, calls, runs, confirmed>>

(* start_ssh_task: the profile is read before the lock is taken.              *)
StartRead(c, id, origin) ==
  /\ calls[c] = {}
  /\ calls' = [calls EXCEPT ![c] =
       {[kind |-> "starting", origin |-> origin, profile |-> profile, id |-> id] :
          profile \in stored[ProfileOf[origin.session]]}]
  /\ UNCHANGED <<database, sessions, pending, issued, runs, confirmed>>

(* reserve: refuse a session that runs enough tasks, forget finished ones.    *)
\* (a bug to try: a run that was told to stop does not count)
AliveUntold(s) == {r \in KeptBy(s) : ~r.finished /\ ~r.stop}

Alive(s) == {r \in KeptBy(s) : ~r.finished}

Evicted(s) ==
  {gone \in SUBSET {r \in KeptBy(s) : r.finished} :
     Cardinality(gone) = IF Cardinality(KeptBy(s)) > MaxKept
                           THEN Cardinality(KeptBy(s)) - MaxKept ELSE 0}

\* (a bug to try: the user is not asked)
Unasked(k) ==
  {t \in pending : /\ t.id = k.id /\ t.origin = k.origin
                   /\ Checked(t) /\ t.profile = k.profile}

(* consume: approved, current, and for the profile as it was just read.       *)
Consumable(k) ==
  {t \in pending : /\ t.id = k.id /\ t.origin = k.origin
                   /\ Checked(t) /\ t.approved /\ t.profile = k.profile}

NewRun(t) ==
  [id |-> t.id, origin |-> t.origin, profile |-> t.profile, stop |-> FALSE,
   finished |-> FALSE, kept |-> TRUE]

StartCommit(c) ==
  /\ \E k \in calls[c] : LET s == k.origin.session IN
       /\ k.kind = "starting"
       /\ IF s \in open /\ Cardinality(Alive(s)) < MaxRunning
            THEN \E gone \in Evicted(s) :
                   LET rest == (runs \ gone) \cup {[r EXCEPT !.kept = FALSE] : r \in gone}
                   IN /\ pending' = pending \ Consumable(k)
                      /\ runs' = rest \cup {NewRun(t) : t \in Consumable(k)}
            ELSE UNCHANGED <<pending, runs>>
  /\ calls' = [calls EXCEPT ![c] = {}]
  /\ UNCHANGED <<database, sessions, issued, confirmed>>

(* stop_observing_ssh_task: cancels a pending task, or tells a run to stop.    *)
StopPending(t) ==
  /\ t.origin.session \in open
  /\ pending' = pending \ {t}
  /\ UNCHANGED <<database, sessions, issued, calls, runs, confirmed>>

StopRun(r) ==
  /\ r.kept
  /\ runs' = (runs \ {r}) \cup {[r EXCEPT !.stop = TRUE]}
  /\ UNCHANGED <<database, sessions, pending, issued, calls, confirmed>>

(* execute_ssh_task ends, for any of the reasons SshTaskRun goes into.         *)
Finish(r) ==
  /\ ~r.finished
  /\ runs' = (runs \ {r}) \cup {[r EXCEPT !.finished = TRUE]}
  /\ UNCHANGED <<database, sessions, pending, issued, calls, confirmed>>

Edits ==
  \E p \in Profiles :
    \/ \E profile \in Profile, ok \in BOOLEAN : SaveProfile(p, profile, ok)
    \/ DeleteSecrets(p)
    \/ \E ok \in BOOLEAN : DeleteRow(p, ok)

Next ==
  \/ Edits
  \/ \E p \in Profiles : InvalidateProfile(p)
  \/ \E s \in Sessions : Register(s) \/ Remove(s) \/ MoveContext(s)
  \/ \E c \in Callers : \/ \E s \in Sessions : PrepareCheck(c, s)
                        \/ PrepareRead(c) \/ PrepareInsert(c)
                        \/ \E t \in pending : StartRead(c, t.id, t.origin)
                        \/ StartCommit(c)
  \/ \E t \in pending : \/ \E route \in Routes : Approve(t, route)
                        \/ Expire(t) \/ StopPending(t)
  \/ \E r \in runs : StopRun(r) \/ Finish(r)

(* The command that saved a profile goes on to tell the sessions.            *)
Spec ==
  /\ Init /\ [][Next]_vars
  /\ \A p \in Profiles : WF_vars(InvalidateProfile(p))

-----------------------------------------------------------------------------
(* The limits on what a session may have waiting, running and remembered.     *)
Bounded ==
  /\ IsFiniteSet(pending) /\ IsFiniteSet(runs)
  /\ \A s \in Sessions : /\ Cardinality(PendingOf(s)) <= MaxPending
                         /\ Cardinality({r \in KeptBy(s) : ~r.finished}) <= MaxRunning
                         /\ Cardinality(KeptBy(s)) <= MaxKept + 1

(* Every variable has the type its declaration says, within those limits.     *)
TypeOK ==
  /\ stored \in [Profiles -> SUBSET Profile]
  /\ edits \in Nat /\ instances \in Nat
  /\ saving \in [Profiles -> Nat]
  /\ deleting \subseteq Profiles
  /\ open \subseteq Sessions
  /\ target \in [Sessions -> Target]
  /\ pending \subseteq Pending
  /\ issued \subseteq Tasks
  /\ calls \in [Callers -> SUBSET Call]
  /\ runs \subseteq Run
  /\ confirmed \subseteq Tasks \X Routes
  /\ Bounded

(* A task runs at most once, over the very route its user confirmed for it,   *)
(* although the profile is read again, outside the lock, when it starts.      *)
RunsAreConfirmed ==
  /\ \A r \in runs : <<r.id, r.profile.route>> \in confirmed
  /\ \A r, q \in runs : r.id = q.id => r = q
  /\ \A r \in runs : \A t \in pending : r.id # t.id

(* A run that is still observed, and not told to stop, goes over the route    *)
(* that is saved now, or an edit is about to stop it: no interleaving of      *)
(* reading the profile, saving it and starting leaves a run behind on a route *)
(* the user has replaced.                                                    *)
Observed(r) == ~r.finished /\ ~r.stop
OnSavedRoute(r) ==
  \E p \in stored[ProfileOf[r.origin.session]] : p.route = r.profile.route

OnDueRoute(r) == OnSavedRoute(r) \/ saving[ProfileOf[r.origin.session]] > 0

ReplacedRoutesAreLeft == \A r \in runs : Observed(r) => OnDueRoute(r)

(* And the stop does come: a run over a replaced route is told to stop.       *)
ReplacedRoutesEnd ==
  \A id \in Tasks :
    (\E r \in runs : r.id = id /\ Observed(r) /\ ~OnSavedRoute(r))
      ~> (\A r \in runs : r.id = id => ~Observed(r) \/ OnSavedRoute(r))

(* A run that is not told to stop belongs to a session that is still there:   *)
(* its owner can always find it and stop it.                                 *)
RunsHaveOwners ==
  \A r \in runs :
    Observed(r) => LET s == r.origin.session IN
      /\ s \in open /\ r.origin.instance = target[s].instance
      /\ r.kept

(* A task runs once at most, over the route its user confirmed, and its owner  *)
(* can find it and stop it.                                                    *)
RunsAreOwned == RunsAreConfirmed /\ RunsHaveOwners

-----------------------------------------------------------------------------
(* What these follow from: the parts of an invariant every step preserves.    *)

(* A pending task is one of the target its session has now ...                *)
PendingIsCurrent ==
  \A t \in pending : LET s == t.origin.session IN s \in open /\ t.origin = target[s]

(* ... whose id was spent on it alone, and was confirmed if it is approved.    *)
IdsAreSpent ==
  /\ \A t \in pending : t.id \in issued
  /\ \A r \in runs : r.id \in issued
  /\ \A t, u \in pending : t.id = u.id => t = u

ApprovalsAreConfirmed ==
  \A t \in pending : t.approved => <<t.id, t.profile.route>> \in confirmed

(* No target is of a record that is yet to be registered.                     *)
InstancesAreNumbered == \A s \in Sessions : target[s].instance <= instances

(* A start call holds a target its session has or has had, and if the session *)
(* has it still, then the profile the call read has the saved route or an     *)
(* edit is about to take that target away.                                   *)
StartingCalls == {k \in UNION {calls[c] : c \in Callers} : k.kind = "starting"}

StartsAreDated ==
  \A k \in StartingCalls : LET now == target[k.origin.session] IN
    /\ k.origin.instance <= instances
    /\ k.origin.instance = now.instance => k.origin.version <= now.version

StartsAreDue ==
  \A k \in StartingCalls : LET s == k.origin.session IN
    s \in open /\ k.origin = target[s] => OnDueRoute(k)

TaskInvariant ==
  /\ TypeOK
  /\ PendingIsCurrent /\ IdsAreSpent /\ ApprovalsAreConfirmed
  /\ InstancesAreNumbered /\ StartsAreDated /\ StartsAreDue
  /\ RunsAreConfirmed /\ RunsHaveOwners /\ ReplacedRoutesAreLeft

=============================================================================
