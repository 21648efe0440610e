--------------------------- MODULE AgentRunProofs ---------------------------
(***************************************************************************)
(* AgentRun for any number of processes, steps and leases: RunInvariant is  *)
(* inductive, and what is recorded, owned and dispatched follows from it.   *)
(***************************************************************************)
EXTENDS AgentRun, TLAPS

-----------------------------------------------------------------------------
(* Calls.                                                                     *)

(* What a call has, by its kind.                                              *)
LEMMA CallFields ==
  ASSUME NEW r \in Call
  PROVE  /\ r.kind \in Starts \cup {"save", "release", "confirm"}
         /\ r.token \in Nat /\ r.reply \in Replies /\ r.state \in States
         /\ r.kind \in Starts => r.seq \in Nat /\ r.at \in Target
         /\ r.kind = "save" => /\ r.boundary \in Boundaries /\ r.status \in Statuses
                               /\ r.steps \in [Steps -> Effects]
         /\ r.kind = "confirm" => r.resolutions \in SUBSET [step : Steps, by : Steps]
BY DEF Call, Starts

(* Two states of one call.                                                    *)
Alike(x, r) ==
  /\ x.kind = r.kind /\ x.token = r.token
  /\ r.kind \in Starts => x.seq = r.seq
  /\ r.kind = "save" => x.boundary = r.boundary /\ x.step = r.step /\ x.steps = r.steps

LEMMA StateChanges ==
  ASSUME NEW r \in Call, NEW v \in States
  PROVE  LET x == [r EXCEPT !.state = v]
         IN  x \in Call /\ Alike(x, r) /\ x.state = v /\ x.reply = r.reply
<1>1. CASE r \in [kind : Starts, token : Nat, seq : Nat, at : Target, reply : Replies, state : States]
  BY <1>1 DEF Call, Alike, Starts
<1>2. CASE r \in [kind : {"save"}, token : Nat, seq : Nat, boundary : Boundaries,
                  step : Steps \cup {"none"}, steps : [Steps -> Effects], status : Statuses,
                  reply : Replies, state : States]
  BY <1>2 DEF Call, Alike, Starts
<1>3. CASE r \in [kind : {"release"}, token : Nat, reply : Replies, state : States]
  BY <1>3 DEF Call, Alike, Starts
<1>4. CASE r \in [kind : {"confirm"}, token : Nat, seq : Nat, at : Target,
                  resolutions : SUBSET [step : Steps, by : Steps], reply : Replies,
                  state : States]
  BY <1>4 DEF Call, Alike, Starts
<1> QED BY <1>1, <1>2, <1>3, <1>4 DEF Call

LEMMA ReplyChanges ==
  ASSUME NEW r \in Call, NEW v \in Replies
  PROVE  LET x == [r EXCEPT !.reply = v]
         IN  x \in Call /\ Alike(x, r) /\ x.reply = v /\ x.state = r.state
<1>1. CASE r \in [kind : Starts, token : Nat, seq : Nat, at : Target, reply : Replies, state : States]
  BY <1>1 DEF Call, Alike, Starts
<1>2. CASE r \in [kind : {"save"}, token : Nat, seq : Nat, boundary : Boundaries,
                  step : Steps \cup {"none"}, steps : [Steps -> Effects], status : Statuses,
                  reply : Replies, state : States]
  BY <1>2 DEF Call, Alike, Starts
<1>3. CASE r \in [kind : {"release"}, token : Nat, reply : Replies, state : States]
  BY <1>3 DEF Call, Alike, Starts
<1>4. CASE r \in [kind : {"confirm"}, token : Nat, seq : Nat, at : Target,
                  resolutions : SUBSET [step : Steps, by : Steps], reply : Replies,
                  state : States]
  BY <1>4 DEF Call, Alike, Starts
<1> QED BY <1>1, <1>2, <1>3, <1>4 DEF Call

LEMMA NewSave ==
  ASSUME NEW c \in Loop, NEW b \in Boundaries
  PROVE  LET s == SaveCall(c, b)
         IN  /\ s \in Call /\ s.kind = "save" /\ s.token = c.token /\ s.boundary = b
             /\ s.steps = c.steps /\ s.reply = "awaited" /\ s.state = "sent"
             /\ b \in {"prepared", "before-dispatch"} => s.step = c.step
<1>1. SaveCall(c, b) \in Call
  BY DEF SaveCall, Call, Loop, Replies, States
<1> QED BY <1>1 DEF SaveCall

LEMMA NewStart ==
  ASSUME Typed, NEW p \in Processes, NEW kind \in Starts
  PROVE  LET s == StartCall(p, kind)
         IN  /\ s \in Call /\ s.kind = kind /\ s.token = tokens + 1 /\ s.reply = "awaited"
             /\ s.state = "sent" /\ (row # NoRow => s.seq = row.seq) /\ s.at = target[p]
<1>1. row = NoRow \/ row.seq \in Nat
  BY DEF Typed, Row
<1>2. tokens + 1 \in Nat /\ target[p] \in Target
  BY ToolAssumption DEF Typed, ToolAssumption, Bound
<1>3. StartCall(p, kind) \in Call
  BY <1>1, <1>2 DEF StartCall, Call, Replies, States
<1> QED BY <1>3 DEF StartCall

LEMMA NewRelease ==
  ASSUME NEW t \in Nat, NEW rep \in Replies
  PROVE  LET s == ReleaseCall(t, rep)
         IN  /\ s \in Call /\ s.kind = "release" /\ s.token = t /\ s.reply = rep
             /\ s.state = "sent"
<1>1. ReleaseCall(t, rep) \in Call
  BY DEF ReleaseCall, Call, Replies, States
<1> QED BY <1>1 DEF ReleaseCall

(* What an action does to the calls of p: some are over, some are new.        *)
Exchange(p, old, new) == net' = [net EXCEPT ![p] = (@ \ old) \cup new]

(* The backend's answer to a call is the call in another state, or nothing.   *)
LEMMA Answers ==
  ASSUME Typed, NEW p \in Processes, NEW r \in net[p], NEW st \in States, Answered(p, r, st)
  PROVE  \E new \in SUBSET Call :
           /\ Exchange(p, {r}, new)
           /\ \A x \in new : Alike(x, r) /\ x.reply = r.reply /\ x.state = st
           /\ \A x, y \in new : x = y
           /\ r.reply # "lost" /\ st # "failed" => new # {}
<1>1. r \in Call
  BY DEF Typed
<1> DEFINE x == [r EXCEPT !.state = st]
           new == IF r.reply = "lost" \/ (r.reply = "late" /\ st = "failed") THEN {} ELSE {x}
<1>2. x \in Call /\ Alike(x, r) /\ x.state = st /\ x.reply = r.reply
  BY <1>1, StateChanges
<1>3. Exchange(p, {r}, new)
  BY DEF Answered, Exchange
<1> HIDE DEF x
<1> QED BY <1>2, <1>3

(* The calls after an exchange.                                               *)
LEMMA Exchanged ==
  ASSUME Typed, NEW p \in Processes, NEW old, NEW new \in SUBSET Call, Exchange(p, old, new)
  PROVE  /\ net' \in [Processes -> SUBSET Call]
         /\ net'[p] = (net[p] \ old) \cup new
         /\ \A q \in Processes : q # p => net'[q] = net[q]
BY DEF Typed, Exchange

(* A new call has its token from no call that stays, unless neither starts a  *)
(* run.                                                                       *)
Apart(p, old, new) ==
  /\ \A x, y \in new : x.kind \in Starts /\ x.token = y.token => x = y
  /\ \A x \in new, q \in Processes : \A z \in net[q] :
       z.token = x.token /\ (q = p => z \notin old) => z.kind \notin Starts /\ x.kind \notin Starts

LEMMA AloneStep ==
  ASSUME Typed, StartsAreAlone, NEW p \in Processes, NEW old, NEW new \in SUBSET Call,
         Exchange(p, old, new), Apart(p, old, new)
  PROVE  StartsAreAlone'
<1> SUFFICES ASSUME NEW a \in Processes, NEW b \in Processes,
                    NEW r \in net'[a], NEW x \in net'[b], r.kind \in Starts, x.token = r.token
             PROVE  a = b /\ x = r
  BY DEF StartsAreAlone
<1>1. \/ r \in net[a] /\ (a = p => r \notin old)
      \/ a = p /\ r \in new
  BY Exchanged
<1>2. \/ x \in net[b] /\ (b = p => x \notin old)
      \/ b = p /\ x \in new
  BY Exchanged
<1> QED BY <1>1, <1>2 DEF StartsAreAlone, Apart

(* What continues an old call is apart from the others.                       *)
LEMMA Continuing ==
  ASSUME Typed, StartsAreAlone, NEW p \in Processes, NEW r \in net[p], NEW new \in SUBSET Call,
         \A x \in new : Alike(x, r), \A x, y \in new : x = y
  PROVE  Apart(p, {r}, new)
BY DEF StartsAreAlone, Apart, Alike

-----------------------------------------------------------------------------
(* The backend: what all its handlers do to the calls.                        *)

Serves(p, r, new, st) ==
  /\ r \in net[p] /\ r.state = "sent" /\ st \in {"ok", "failed"}
  /\ new \in SUBSET Call /\ Exchange(p, {r}, new)
  /\ \A x \in new : Alike(x, r) /\ x.reply = r.reply /\ x.state = st
  /\ \A x, y \in new : x = y
  /\ r.reply # "lost" /\ st = "ok" => new # {}
  /\ UNCHANGED <<target, client, ran, intent, aborted, life, tokens, moves, late, lost, bound>>

LEMMA Handlers ==
  ASSUME Typed, NEW p \in Processes, Serve(p)
  PROVE  \E r \in net[p], new \in SUBSET Call, st \in {"ok", "failed"} :
           /\ Serves(p, r, new, st)
           /\ \/ Refuse(p, r) /\ st = "failed"
              \/ (Open(p, r) \/ Save(p, r) \/ Confirm(p, r) \/ Release(p, r)) /\ st = "ok"
<1>1. PICK r \in net[p] : Refuse(p, r) \/ Open(p, r) \/ Save(p, r) \/ Confirm(p, r) \/ Release(p, r)
  BY DEF Serve
<1>2. PICK st \in {"ok", "failed"} :
        /\ Answered(p, r, st) /\ r.state = "sent"
        /\ UNCHANGED <<target, client, ran, intent, aborted, life, tokens, moves, late, lost, bound>>
        /\ \/ Refuse(p, r) /\ st = "failed"
           \/ (Open(p, r) \/ Save(p, r) \/ Confirm(p, r) \/ Release(p, r)) /\ st = "ok"
  BY <1>1 DEF Refuse, Open, Save, Confirm, Release
<1>3. st \in States
  BY <1>2 DEF States
<1>4. PICK new \in SUBSET Call :
        /\ Exchange(p, {r}, new)
        /\ \A x \in new : Alike(x, r) /\ x.reply = r.reply /\ x.state = st
        /\ \A x, y \in new : x = y
        /\ r.reply # "lost" /\ st # "failed" => new # {}
  BY <1>2, <1>3, Answers
<1>5. Serves(p, r, new, st)
  BY <1>2, <1>4 DEF Serves
<1> QED BY <1>2, <1>5

(* A call after a handler is one from before, or the answer to the one it ran.*)
LEMMA ServedCalls ==
  ASSUME Typed, NEW p \in Processes, NEW r, NEW new, NEW st, Serves(p, r, new, st)
  PROVE  /\ r \in Call
         /\ net' \in [Processes -> SUBSET Call]
         /\ \A q \in Processes : \A x : x \in net'[q] =>
              \/ x \in net[q] /\ (q = p => x # r)
              \/ q = p /\ x \in new /\ Alike(x, r) /\ x.reply = r.reply /\ x.state = st
         /\ \A q \in Processes : \A x : x \in net[q] /\ (q = p => x # r) => x \in net'[q]
<1>1. new \in SUBSET Call /\ Exchange(p, {r}, new) /\ r \in net[p]
  BY DEF Serves
<1>2. /\ net' \in [Processes -> SUBSET Call]
      /\ net'[p] = (net[p] \ {r}) \cup new
      /\ \A q \in Processes : q # p => net'[q] = net[q]
  BY <1>1, Exchanged
<1>3. \A x \in new : Alike(x, r) /\ x.reply = r.reply /\ x.state = st
  BY DEF Serves
<1>4. r \in Call
  BY <1>1 DEF Typed
<1> QED BY <1>1, <1>2, <1>3, <1>4

LEMMA ServedWaits ==
  ASSUME Typed, OneIsAwaited, TokensAreIssued, WaitsAreDue,
         NEW p \in Processes, NEW r, NEW new, NEW st, Serves(p, r, new, st)
  PROVE  /\ OneIsAwaited' /\ WaitsAreDue'
         /\ \A q \in Processes : \A x \in net'[q] : x.token \in 1 .. tokens
<1>1. client' = client /\ r \in net[p] /\ \A x, y \in new : x = y
  BY DEF Serves
<1>2. \A q \in Processes : \A x \in net'[q] : \E y \in net[q] :
         /\ Alike(x, y) /\ x.reply = y.reply
         /\ \/ x = y /\ (q = p => x # r)
            \/ q = p /\ y = r /\ x \in new
  BY <1>1, ServedCalls DEF Alike
<1>3. \A q \in Processes : \A x \in net'[q] : x.token \in 1 .. tokens
  BY <1>2 DEF TokensAreIssued, Alike
<1>4. OneIsAwaited'
  BY <1>1, <1>2 DEF OneIsAwaited, Awaited, Alike
<1>5. WaitsAreDue'
  BY <1>1, <1>2 DEF WaitsAreDue, Awaited, Alike
<1> QED BY <1>3, <1>4, <1>5

LEMMA ServedStarts ==
  ASSUME Typed, StartsAreAlone, StartsAreAsked,
         NEW p \in Processes, NEW r, NEW new, NEW st, Serves(p, r, new, st)
  PROVE  StartsAreAlone' /\ StartsAreAsked'
<1>1. /\ client' = client /\ r \in net[p] /\ new \in SUBSET Call /\ Exchange(p, {r}, new)
      /\ \A x, y \in new : x = y
      /\ \A x \in new : Alike(x, r)
  BY DEF Serves
<1>2. StartsAreAlone'
  BY <1>1, Continuing, AloneStep
<1>3. \A q \in Processes : \A x \in net'[q] : \E y \in net[q] : Alike(x, y)
  BY <1>1, ServedCalls DEF Alike
<1>4. StartsAreAsked'
  BY <1>1, <1>3 DEF StartsAreAsked, Alike
<1> QED BY <1>2, <1>4

(* No window comes to hold a lease by what the backend does.                  *)
LEMMA ServedHolders ==
  ASSUME Typed, NEW p \in Processes, NEW r, NEW new, NEW st, Serves(p, r, new, st),
         NEW q \in Processes, Holds(q)'
  PROVE  Holds(q)
<1>1. client' = client /\ r.state = "sent"
  BY DEF Serves
<1>2. \A x \in Awaited(q) : x.state = "ok" => x \in net'[q] /\ x.reply = "awaited"
  BY <1>1, ServedCalls DEF Awaited
<1> QED BY <1>1, <1>2 DEF Holds, Awaited

-----------------------------------------------------------------------------
(* The record a handler leaves.                                               *)

LEMMA RowKinds ==
  /\ NoRow \notin Row
  /\ \A r \in Row : r # NoRow
BY DEF NoRow, Row

LEMMA ContinuedRow ==
  ASSUME NEW r \in Row, NEW steps \in [Steps -> Effects], NEW current \in Target,
         NEW phase \in Phases
  PROVE  LET x == Continued(r, steps, current, phase)
         IN  /\ x \in Row /\ x.seq = r.seq + 1 /\ x.steps = steps /\ x.phase = phase
             /\ x.source = Present(steps) /\ x.resolved = r.resolved
             /\ x.required = Unknown(steps) \ Resolved(r)
<1> DEFINE a == [r EXCEPT !.seq = @ + 1]
           b == [a EXCEPT !.steps = steps]
           c == [b EXCEPT !.status = "working"]
           d == [c EXCEPT !.phase = phase]
           e == [d EXCEPT !.boundary = IF phase = "inspecting" THEN "recovering" ELSE "resumed"]
           f == [e EXCEPT !.source = Present(steps)]
           g == [f EXCEPT !.required = Required([r EXCEPT !.steps = steps])]
           h == [g EXCEPT !.current = current]
<1>1. Continued(r, steps, current, phase) = h
  BY DEF Continued
<1>2. Required([r EXCEPT !.steps = steps]) = Unknown(steps) \ Resolved(r)
  BY DEF Required, Resolved, Row
<1>3. Present(steps) \subseteq Steps /\ Unknown(steps) \ Resolved(r) \subseteq Steps
  BY DEF Present, Unknown
<1>4. a \in Row /\ a.seq = r.seq + 1 /\ a.resolved = r.resolved
  BY DEF Row
<1> HIDE DEF a
<1>5. b \in Row /\ b.seq = a.seq /\ b.resolved = a.resolved /\ b.steps = steps
  BY <1>4 DEF Row
<1> HIDE DEF b
<1>6. c \in Row /\ c.seq = b.seq /\ c.resolved = b.resolved /\ c.steps = b.steps
  BY <1>5 DEF Row, Statuses
<1> HIDE DEF c
<1>7. d \in Row /\ d.seq = c.seq /\ d.resolved = c.resolved /\ d.steps = c.steps /\ d.phase = phase
  BY <1>6 DEF Row
<1> HIDE DEF d
<1>8. e \in Row /\ e.seq = d.seq /\ e.resolved = d.resolved /\ e.steps = d.steps /\ e.phase = d.phase
  BY <1>7 DEF Row, Boundaries
<1> HIDE DEF e
<1>9. /\ f \in Row /\ f.seq = e.seq /\ f.resolved = e.resolved /\ f.steps = e.steps
      /\ f.phase = e.phase /\ f.source = Present(steps)
  BY <1>3, <1>8 DEF Row
<1> HIDE DEF f
<1>10. /\ g \in Row /\ g.seq = f.seq /\ g.resolved = f.resolved /\ g.steps = f.steps
       /\ g.phase = f.phase /\ g.source = f.source /\ g.required = Unknown(steps) \ Resolved(r)
  BY <1>2, <1>3, <1>9 DEF Row
<1> HIDE DEF g
<1>11. /\ h \in Row /\ h.seq = g.seq /\ h.resolved = g.resolved /\ h.steps = g.steps
       /\ h.phase = g.phase /\ h.source = g.source /\ h.required = g.required
  BY <1>10 DEF Row
<1> HIDE DEF h
<1> QED BY <1>1, <1>4, <1>5, <1>6, <1>7, <1>8, <1>9, <1>10, <1>11

(* A new record knows of nothing.                                             *)
Fresh(r) ==
  /\ r \in Row /\ r.seq = 0 /\ r.steps = [s \in Steps |-> "absent"] /\ r.phase = "none"
  /\ r.source = {} /\ r.required = {} /\ r.resolved = {}

LEMMA BegunRow ==
  ASSUME Typed, NEW p \in Processes, NEW x \in Begun(p)
  PROVE  row = NoRow /\ Fresh(x)
<1>1. target[p] \in Target
  BY DEF Typed
<1>2. row = NoRow /\ x = [NewRow EXCEPT !.last = target[p]]
  BY DEF Begun
<1>3. /\ x = [seq |-> 0, boundary |-> "started", status |-> "working",
               steps |-> [s \in Steps |-> "absent"], at |-> [s \in Steps |-> NoTarget],
               inspected |-> {}, phase |-> "none", source |-> {}, required |-> {},
               resolved |-> {}, current |-> NoTarget, last |-> target[p]]
  BY <1>2 DEF NewRow
<1>4. /\ [s \in Steps |-> "absent"] \in [Steps -> Effects]
      /\ [s \in Steps |-> NoTarget] \in [Steps -> Target \cup {NoTarget}]
  BY DEF Effects
<1>5. x \in Row
  BY <1>1, <1>3, <1>4 DEF Row, Boundaries, Statuses, Phases
<1> QED BY <1>2, <1>3, <1>5 DEF Fresh

(* A recovery or a reply makes everything the record knows of history.        *)
Recovered(r) ==
  /\ r \in Row /\ r.seq = row.seq + 1 /\ r.source = Present(r.steps)
  /\ r.resolved = row.resolved /\ r.required = Unknown(r.steps) \ Resolved(row)
  /\ r.phase # "inspecting" => r.required = {}
  /\ \A s \in Steps : \/ r.steps[s] = row.steps[s]
                      \/ row.steps[s] = "unknown" /\ r.steps[s] = "known" /\ ran[s] = "over"

LEMMA ReopenedRow ==
  ASSUME Typed, NEW p \in Processes, NEW x \in Reopened(p)
  PROVE  row \in Row /\ Recovered(x)
<1>1. row \in Row /\ target[p] \in Target
  BY DEF Typed, Reopened
<1>2. PICK told \in SUBSET {s \in Unknown(row.steps) : Tool[s] = "edit" /\ ran[s] = "over"} :
        x = Continued(row, [s \in Steps |-> IF s \in told THEN "known" ELSE row.steps[s]],
                      target[p], "inspecting")
  BY <1>1, RowKinds DEF Reopened
<1> DEFINE steps == [s \in Steps |-> IF s \in told THEN "known" ELSE row.steps[s]]
<1>3. steps \in [Steps -> Effects]
  BY <1>1 DEF Row, Effects
<1>4. \A s \in Steps : \/ steps[s] = row.steps[s]
                       \/ row.steps[s] = "unknown" /\ steps[s] = "known" /\ ran[s] = "over"
  BY DEF Unknown
<1>5. x = Continued(row, steps, target[p], "inspecting") /\ "inspecting" \in Phases
  BY <1>2 DEF Phases
<1> HIDE DEF steps
<1>6. /\ x \in Row /\ x.seq = row.seq + 1 /\ x.steps = steps /\ x.phase = "inspecting"
      /\ x.source = Present(steps) /\ x.resolved = row.resolved
      /\ x.required = Unknown(steps) \ Resolved(row)
  BY <1>1, <1>3, <1>5, ContinuedRow
<1> QED BY <1>1, <1>4, <1>6 DEF Recovered

LEMMA RepliedRow ==
  ASSUME Typed, NEW p \in Processes, NEW x \in Replied(p)
  PROVE  row \in Row /\ Recovered(x)
<1>1. row \in Row /\ target[p] \in Target /\ row.steps \in [Steps -> Effects]
  BY DEF Typed, Replied, Row
<1> DEFINE phase == IF Required(row) # {} \/ row.last # target[p] THEN "inspecting" ELSE "continuing"
           c == Continued(row, row.steps, target[p], phase)
<1>2. x = [c EXCEPT !.last = target[p]]
  BY <1>1, RowKinds DEF Replied
<1>3. phase # "inspecting" => Unknown(row.steps) \ Resolved(row) = {}
  BY DEF Required
<1>4. phase \in Phases
  BY DEF Phases
<1> HIDE DEF phase
<1>5. /\ c \in Row /\ c.seq = row.seq + 1 /\ c.steps = row.steps /\ c.phase = phase
      /\ c.source = Present(row.steps) /\ c.resolved = row.resolved
      /\ c.required = Unknown(row.steps) \ Resolved(row)
  BY <1>1, <1>4, ContinuedRow
<1> HIDE DEF c
<1>6. /\ x \in Row /\ x.seq = row.seq + 1 /\ x.steps = row.steps /\ x.phase = phase
      /\ x.source = Present(row.steps) /\ x.resolved = row.resolved
      /\ x.required = Unknown(row.steps) \ Resolved(row)
  BY <1>1, <1>2, <1>5 DEF Row
<1> QED BY <1>1, <1>6, <1>3 DEF Recovered

LEMMA OpenedRow ==
  ASSUME Typed, NEW p \in Processes, NEW r \in net[p], Open(p, r)
  PROVE  \/ r.kind = "begin" /\ row = NoRow /\ Fresh(row')
         \/ r.kind # "begin" /\ row \in Row /\ row.seq = r.seq /\ Recovered(row')
<1>1. CASE r.kind = "begin"
  BY <1>1, BegunRow DEF Open
<1>2. CASE r.kind = "recover"
  <2>1. row' \in Reopened(p) /\ row.seq = r.seq
    BY <1>2 DEF Open
  <2> QED BY <1>2, <2>1, ReopenedRow
<1>3. CASE r.kind = "reply"
  <2>1. row' \in Replied(p) /\ row.seq = r.seq
    BY <1>3 DEF Open
  <2> QED BY <1>3, <2>1, RepliedRow
<1> QED BY <1>1, <1>2, <1>3 DEF Open

(* A save keeps what is history, and a confirmation what the steps are.       *)
LEMMA UpdatedRow ==
  ASSUME Typed, row \in Row, StepsAreNamed, NEW p \in Processes, NEW r \in net[p], r.kind = "save"
  PROVE  LET x == Updated(p, r)
         IN  /\ x \in Row /\ x.seq = row.seq + 1 /\ x.phase = row.phase /\ x.source = row.source
             /\ x.required = row.required /\ x.resolved = row.resolved
             /\ \A s \in Steps : x.steps[s] = IF s \in row.source THEN row.steps[s] ELSE r.steps[s]
<1>1. /\ r \in Call /\ target[p] \in Target
      /\ r.boundary \in Boundaries /\ r.status \in Statuses /\ r.steps \in [Steps -> Effects]
  BY CallFields DEF Typed
<1>2. Dispatching(r) => r.step \in Steps
  BY DEF StepsAreNamed
<1> DEFINE steps == [s \in Steps |-> IF s \in row.source THEN row.steps[s] ELSE r.steps[s]]
           a == [row EXCEPT !.seq = @ + 1]
           b == [a EXCEPT !.boundary = r.boundary]
           c == [b EXCEPT !.status = r.status]
           d == [c EXCEPT !.steps = steps]
           e == [d EXCEPT !.last = target[p]]
           f == [e EXCEPT !.at[r.step] = target[p]]
           g == [f EXCEPT !.inspected = IF row.phase = "inspecting" THEN @ \cup {r.step}
                                        ELSE @ \ {r.step}]
<1>3. steps \in [Steps -> Effects]
  BY <1>1 DEF Row
<1>4. a \in Row /\ a.seq = row.seq + 1 /\ a.phase = row.phase /\ a.source = row.source
      /\ a.required = row.required /\ a.resolved = row.resolved /\ a.steps = row.steps
  BY DEF Row
<1>5. Updated(p, r) = IF Dispatching(r) THEN g ELSE d
  BY <1>4 DEF Updated, Row
<1>6. \A s \in Steps : steps[s] = IF s \in row.source THEN row.steps[s] ELSE r.steps[s]
  OBVIOUS
<1> HIDE DEF a, steps
<1>7. /\ b \in Row /\ b.seq = a.seq /\ b.phase = a.phase /\ b.source = a.source
      /\ b.required = a.required /\ b.resolved = a.resolved
  BY <1>1, <1>4 DEF Row
<1> HIDE DEF b
<1>8. /\ c \in Row /\ c.seq = b.seq /\ c.phase = b.phase /\ c.source = b.source
      /\ c.required = b.required /\ c.resolved = b.resolved
  BY <1>1, <1>7 DEF Row
<1> HIDE DEF c
<1>9. /\ d \in Row /\ d.seq = c.seq /\ d.phase = c.phase /\ d.source = c.source
      /\ d.required = c.required /\ d.resolved = c.resolved /\ d.steps = steps
  BY <1>3, <1>8 DEF Row
<1> HIDE DEF d
<1>10. /\ e \in Row /\ e.seq = d.seq /\ e.phase = d.phase /\ e.source = d.source
       /\ e.required = d.required /\ e.resolved = d.resolved /\ e.steps = d.steps
  BY <1>1, <1>9 DEF Row
<1> HIDE DEF e
<1>11. /\ f \in Row /\ f.seq = e.seq /\ f.phase = e.phase /\ f.source = e.source
       /\ f.required = e.required /\ f.resolved = e.resolved /\ f.steps = e.steps
  <2>1. [e.at EXCEPT ![r.step] = target[p]] \in [Steps -> Target \cup {NoTarget}]
    BY <1>1, <1>10 DEF Row
  <2>2. f = [e EXCEPT !.at = [e.at EXCEPT ![r.step] = target[p]]]
    BY <1>10 DEF Row
  <2> QED BY <1>10, <2>1, <2>2 DEF Row
<1> HIDE DEF f
<1>12. Dispatching(r) =>
         /\ g \in Row /\ g.seq = f.seq /\ g.phase = f.phase /\ g.source = f.source
         /\ g.required = f.required /\ g.resolved = f.resolved /\ g.steps = f.steps
  BY <1>2, <1>11 DEF Row
<1> HIDE DEF g
<1> QED BY <1>4, <1>5, <1>6, <1>7, <1>8, <1>9, <1>10, <1>11, <1>12

LEMMA ConfirmedRow ==
  ASSUME Typed, row \in Row, NEW p \in Processes, NEW r \in net[p], Confirm(p, r)
  PROVE  /\ row' \in Row /\ row'.seq = row.seq + 1 /\ row'.phase = "continuing"
         /\ row'.source = row.source /\ row'.required = row.required /\ row'.steps = row.steps
         /\ row'.resolved = row.resolved \cup r.resolutions
<1>1. r.resolutions \in SUBSET [step : Steps, by : Steps]
  BY CallFields DEF Typed, Confirm
<1> DEFINE a == [row EXCEPT !.seq = @ + 1]
           b == [a EXCEPT !.boundary = "resumed"]
           c == [b EXCEPT !.status = "working"]
           d == [c EXCEPT !.phase = "continuing"]
           e == [d EXCEPT !.resolved = row.resolved \cup r.resolutions]
<1>2. row' = e
  BY DEF Row, Confirm
<1>3. /\ a \in Row /\ a.seq = row.seq + 1 /\ a.source = row.source
      /\ a.required = row.required /\ a.steps = row.steps
  BY DEF Row
<1> HIDE DEF a
<1>4. /\ b \in Row /\ b.seq = a.seq /\ b.source = a.source
      /\ b.required = a.required /\ b.steps = a.steps
  BY <1>3 DEF Row, Boundaries
<1> HIDE DEF b
<1>5. /\ c \in Row /\ c.seq = b.seq /\ c.source = b.source
      /\ c.required = b.required /\ c.steps = b.steps
  BY <1>4 DEF Row, Statuses
<1> HIDE DEF c
<1>6. /\ d \in Row /\ d.seq = c.seq /\ d.source = c.source
      /\ d.required = c.required /\ d.steps = c.steps /\ d.phase = "continuing"
  BY <1>5 DEF Row, Phases
<1> HIDE DEF d
<1>7. /\ e \in Row /\ e.seq = d.seq /\ e.source = d.source
      /\ e.required = d.required /\ e.steps = d.steps /\ e.phase = d.phase
      /\ e.resolved = row.resolved \cup r.resolutions
  BY <1>1, <1>6 DEF Row
<1> HIDE DEF e
<1> QED BY <1>2, <1>3, <1>4, <1>5, <1>6, <1>7

-----------------------------------------------------------------------------
(* What the handlers find, and what each keeps.                               *)

LEMMA Owned ==
  ASSUME Typed, TokensAreIssued, NEW q \in Processes
  PROVE  /\ owners[q].token \in 0 .. tokens
         /\ owners[q] # NoOwner <=> owners[q].token # 0
         /\ tokens \in Nat /\ bound.tokens \in Nat
BY ToolAssumption DEF Typed, TokensAreIssued, NoOwner, ToolAssumption, Bound

LEMMA HolderOwns ==
  ASSUME RunInvariant, NEW q \in Processes, Holds(q)
  PROVE  /\ owners[q] # NoOwner /\ owners[q].token = client[q].token
         /\ client[q].token # 0 /\ row # NoRow
         /\ \A o \in Processes : o # q => owners[o] = NoOwner /\ ~Holds(o)
<1>1. client[q].pc # "idle"
  BY DEF Holds, Live, Journaling
<1>2. client[q].token # 0
  BY <1>1 DEF RunInvariant, TokensAreIssued
<1>3. owners[q].token = client[q].token
  BY DEF RunInvariant, HoldersOwn
<1>4. owners[q] # NoOwner
  BY <1>2, <1>3, Owned DEF RunInvariant
<1>5. row # NoRow
  BY <1>4 DEF RunInvariant, NothingWithoutRecord
<1>6. ASSUME NEW o \in Processes, o # q
      PROVE  owners[o] = NoOwner /\ ~Holds(o)
  <2>1. owners[o] = NoOwner
    BY <1>4, <1>6 DEF RunInvariant, OneOwner
  <2>2. owners[o].token = 0
    BY <2>1 DEF NoOwner
  <2>3. Holds(o) => owners[o].token = client[o].token /\ client[o].pc # "idle"
    BY DEF RunInvariant, HoldersOwn, Holds, Live, Journaling
  <2>4. client[o].pc # "idle" => client[o].token # 0
    BY DEF RunInvariant, TokensAreIssued
  <2> QED BY <2>1, <2>2, <2>3, <2>4
<1> QED BY <1>2, <1>3, <1>4, <1>5, <1>6

(* What follows of any handler.                                               *)
LEMMA ServedAll ==
  ASSUME RunInvariant, NEW p \in Processes, NEW r, NEW new, NEW st, Serves(p, r, new, st)
  PROVE  /\ OneIsAwaited' /\ WaitsAreDue' /\ StartsAreAlone' /\ StartsAreAsked' /\ StepsAreNamed'
         /\ \A q \in Processes : \A x \in net'[q] : x.token \in 1 .. tokens
         /\ \A q \in Processes : Holds(q)' => Holds(q)
         /\ \A q \in Processes : \A x : x \in net'[q] =>
              \/ x \in net[q] /\ (q = p => x # r)
              \/ q = p /\ x \in new /\ Alike(x, r) /\ x.reply = r.reply /\ x.state = st
         /\ \A q \in Processes : \A x : x \in net[q] /\ (q = p => x # r) => x \in net'[q]
         /\ UNCHANGED <<target, client, ran, intent, aborted, life, tokens, lost, bound>>
         /\ r \in Call /\ r \in net[p] /\ r.state = "sent" /\ r.token \in 1 .. tokens
         /\ net' \in [Processes -> SUBSET Call]
<1>1. r \in net[p] /\ r.state = "sent"
      /\ UNCHANGED <<target, client, ran, intent, aborted, life, tokens, lost, bound>>
  BY DEF Serves
<1>2. /\ r \in Call /\ net' \in [Processes -> SUBSET Call]
      /\ \A q \in Processes : \A x : x \in net'[q] =>
              \/ x \in net[q] /\ (q = p => x # r)
              \/ q = p /\ x \in new /\ Alike(x, r) /\ x.reply = r.reply /\ x.state = st
      /\ \A q \in Processes : \A x : x \in net[q] /\ (q = p => x # r) => x \in net'[q]
  BY ServedCalls DEF RunInvariant
<1>3. StepsAreNamed'
  BY <1>1, <1>2 DEF RunInvariant, StepsAreNamed, Alike, Dispatching
<1>4. r.token \in 1 .. tokens
  BY <1>1 DEF RunInvariant, TokensAreIssued
<1>5. \A q \in Processes : Holds(q)' => Holds(q)
  BY ServedHolders DEF RunInvariant
<1>6. /\ OneIsAwaited' /\ WaitsAreDue'
      /\ \A q \in Processes : \A x \in net'[q] : x.token \in 1 .. tokens
  BY ServedWaits DEF RunInvariant
<1>7. StartsAreAlone' /\ StartsAreAsked'
  BY ServedStarts DEF RunInvariant
<1> QED BY <1>1, <1>2, <1>3, <1>4, <1>5, <1>6, <1>7

LEMMA RefuseStep ==
  ASSUME RunInvariant, NEW p \in Processes, NEW r, NEW new, Serves(p, r, new, "failed"),
         Refuse(p, r)
  PROVE  RunInvariant'
<1> USE ServedAll
<1>1. row' = row /\ owners' = owners /\ UNCHANGED <<target, client, ran, intent, aborted, life, tokens, lost, bound>>
  BY DEF Refuse
<1>2. Typed'
  BY <1>1 DEF RunInvariant, Typed
<1>3. OneOwner' /\ TokensAreIssued' /\ HoldersOwn' /\ HistoryIsReviewed' /\ ResolvedByLaterEvidence'
  BY <1>1 DEF RunInvariant, OneOwner, TokensAreIssued, HoldersOwn, HistoryIsReviewed,
              ResolvedByLaterEvidence
<1>4. StartsAreOwned'
  BY <1>1 DEF RunInvariant, StartsAreOwned, Alike
<1>5. LeasesReturn'
  <2>1. GivesBack(r) => r.token # owners[p].token
    BY Owned DEF Refuse, RunInvariant, GivesBack
  <2> QED BY <1>1, <2>1 DEF RunInvariant, LeasesReturn, Alike, GivesBack
<1>6. NothingWithoutRecord'
  BY <1>1 DEF RunInvariant, NothingWithoutRecord, Alike
<1>7. CopiesAreTrue'
  BY <1>1 DEF RunInvariant, CopiesAreTrue, Truthful, Happened, Alike
<1>8. NextIsNew'
  BY <1>1 DEF RunInvariant, NextIsNew, Alike, Awaited
<1>9. LivesAreOrdered'
  BY <1>1 DEF RunInvariant, LivesAreOrdered, Alike
<1> QED BY <1>2, <1>3, <1>4, <1>5, <1>6, <1>7, <1>8, <1>9 DEF RunInvariant

LEMMA OpenStep ==
  ASSUME RunInvariant, NEW p \in Processes, NEW r, NEW new, Serves(p, r, new, "ok"), Open(p, r)
  PROVE  RunInvariant'
<1> USE ServedAll
<1>1. UNCHANGED <<target, client, ran, intent, aborted, life, tokens, lost, bound>>
  OBVIOUS
<1>2. /\ r.kind \in Starts /\ r.state = "sent" /\ r.at = target[p]
      /\ \A q \in Processes : owners[q] = NoOwner
      /\ owners' = [owners EXCEPT ![p] = [token |-> r.token, inst |-> r.at.inst]]
  BY DEF Open, Starts, Locked
<1>3. \/ r.kind = "begin" /\ row = NoRow /\ Fresh(row')
      \/ r.kind # "begin" /\ row \in Row /\ row.seq = r.seq /\ Recovered(row')
  BY OpenedRow DEF RunInvariant
<1>4. row' \in Row /\ row' # NoRow
  BY <1>3, RowKinds DEF Fresh, Recovered
<1>5. \A q \in Processes : ~Holds(q) /\ ~Holds(q)'
  BY <1>2, HolderOwns
<1>6. /\ owners'[p].token = r.token /\ owners'[p].inst = r.at.inst
      /\ \A q \in Processes : q # p => owners'[q] = NoOwner
      /\ r.token # 0 /\ r.token \in 1 .. tokens
  BY <1>2 DEF RunInvariant, Typed
<1>7. Typed'
  <2>1. r.token \in 0 .. bound.tokens /\ r.at.inst \in Nat
    BY <1>2, <1>6, Owned DEF RunInvariant, Typed, Target
  <2>2. owners' \in [Processes -> [token : 0 .. bound.tokens, inst : Nat]]
    BY <1>2, <2>1 DEF RunInvariant, Typed
  <2> QED BY <1>1, <1>4, <2>2 DEF RunInvariant, Typed
<1>8. OneOwner' /\ TokensAreIssued' /\ HoldersOwn'
  BY <1>1, <1>5, <1>6 DEF RunInvariant, OneOwner, TokensAreIssued, HoldersOwn
<1>9. StartsAreOwned'
  <2> SUFFICES ASSUME NEW a \in Processes, NEW b \in Processes, NEW x \in net'[a], x.kind \in Starts
               PROVE  /\ x.state = "sent" => owners'[b].token # x.token
                      /\ x.state = "ok" => owners'[a].token = x.token
    BY DEF StartsAreOwned
  <2>1. CASE a = p /\ x \in new /\ Alike(x, r) /\ x.state = "ok"
    BY <1>6, <2>1 DEF Alike
  <2>2. CASE x \in net[a] /\ (a = p => x # r)
    <3>1. x.token # r.token
      BY <1>2, <2>2 DEF RunInvariant, StartsAreAlone
    <3>2. x.token \in 1 .. tokens /\ owners[a].token = 0
      BY <1>2, <2>2 DEF RunInvariant, TokensAreIssued, NoOwner
    <3>3. x.state # "ok"
      BY <2>2, <3>2 DEF RunInvariant, StartsAreOwned
    <3>4. owners'[b].token # x.token
      BY <1>6, <3>1, <3>2 DEF NoOwner
    <3> QED BY <3>3, <3>4
  <2> QED BY <2>1, <2>2
<1>10. LeasesReturn'
  <2> SUFFICES ASSUME "reload" \notin lost
               PROVE  \A q \in Processes :
                        /\ \A x \in net'[q] : x.kind \in Starts => x.reply # "lost"
                        /\ owners'[q] # NoOwner =>
                             \E x \in net'[q] : x.token = owners'[q].token /\ GivesBack(x)
    BY <1>1 DEF LeasesReturn
  <2>1. \A q \in Processes : \A x \in net'[q] : x.kind \in Starts => x.reply # "lost"
    BY DEF RunInvariant, LeasesReturn, Alike
  <2>2. r.reply # "lost"
    BY <1>2 DEF RunInvariant, LeasesReturn
  <2>3. PICK x \in new : TRUE
    BY <2>2 DEF Serves
  <2>4. x \in net'[p] /\ Alike(x, r) /\ x.state = "ok"
    BY <2>3, Exchanged DEF Serves, RunInvariant
  <2>5. x.token = owners'[p].token /\ GivesBack(x)
    BY <1>2, <1>6, <2>4 DEF Alike, GivesBack
  <2> QED BY <1>6, <2>1, <2>4, <2>5
<1>11. NothingWithoutRecord'
  BY <1>4 DEF NothingWithoutRecord
<1>12. Truthful(row'.steps)
  <2>1. CASE Fresh(row')
    BY <1>3, <2>1 DEF RunInvariant, NothingWithoutRecord, Truthful, Fresh, Happened, Recovered, Row
  <2>2. CASE row \in Row /\ Recovered(row')
    BY <2>2, RowKinds DEF RunInvariant, CopiesAreTrue, Truthful, Recovered, Happened
  <2> QED BY <1>3, <2>1, <2>2
<1>13. CopiesAreTrue'
  <2>1. \A q \in Processes : \A x \in net'[q] :
          ~(x.kind = "save" /\ x.state = "sent" /\ x.token = owners'[q].token)
    <3> SUFFICES ASSUME NEW q \in Processes, NEW x \in net'[q],
                        x.kind = "save", x.token = owners'[q].token
                 PROVE  x.state # "sent"
      OBVIOUS
    <3>1. CASE q = p
      BY <1>2, <1>6, <3>1 DEF RunInvariant, StartsAreAlone
    <3>2. CASE q # p
      BY <1>6, <3>2 DEF NoOwner
    <3> QED BY <3>1, <3>2
  <2>2. Truthful(row.steps)'
    BY <1>1, <1>12 DEF Truthful, Happened
  <2> QED BY <1>5, <2>1, <2>2 DEF CopiesAreTrue
<1>14. NextIsNew'
  <2>1. \A q \in Processes : client[q].pc # "predispatch"
    BY <1>5 DEF Holds, Live, Journaling
  <2> QED BY <1>1, <2>1 DEF RunInvariant, NextIsNew
<1>15. HistoryIsReviewed'
  <2>1. CASE Fresh(row')
    BY <2>1 DEF HistoryIsReviewed, Fresh, Resolved
  <2>2. CASE row \in Row /\ Recovered(row')
    <3>1. Resolved(row') = Resolved(row) /\ Resolved(row) \subseteq row.source
      BY <2>2, RowKinds DEF Recovered, Resolved, RunInvariant, HistoryIsReviewed
    <3>2. row.source \subseteq row'.source
      BY <2>2, RowKinds DEF RunInvariant, HistoryIsReviewed, Recovered, Present
    <3>3. row'.required \subseteq row'.source
      BY <2>2 DEF Recovered, Present, Unknown
    <3> QED BY <2>2, <3>1, <3>2, <3>3 DEF HistoryIsReviewed, Recovered
  <2> QED BY <1>3, <2>1, <2>2
<1>16. \A b \in Steps \ row'.source : ran[b] = "no"
  <2>1. CASE Fresh(row')
    BY <1>3, <2>1 DEF RunInvariant, NothingWithoutRecord, Fresh, Recovered, Row
  <2>2. CASE Recovered(row')
    BY <1>12, <2>2 DEF Recovered, Truthful, Present
  <2> QED BY <1>3, <2>1, <2>2
<1>17. \A a \in row'.source : life[a] < r.token
  <2>1. CASE Fresh(row')
    BY <2>1 DEF Fresh
  <2>2. CASE r.kind # "begin" /\ row.seq = r.seq /\ row' \in Row
    <3>1. \A s \in Steps : life[s] < r.token
      BY <1>2, <2>2 DEF RunInvariant, LivesAreOrdered, Starts
    <3> QED BY <2>2, <3>1 DEF Row
  <2> QED BY <1>3, <1>4, <2>1, <2>2
<1>18. LivesAreOrdered'
  <2>1. ASSUME NEW q \in Processes, NEW x \in net'[q], x.kind \in {"recover", "reply"},
               x.state = "sent"
        PROVE  x.seq < row'.seq
    <3>1. x \in net[q]
      BY <2>1
    <3>2. row # NoRow
      BY <2>1, <3>1 DEF RunInvariant, NothingWithoutRecord, Starts
    <3>3. row \in Row /\ row'.seq = row.seq + 1
      BY <1>3, <3>2 DEF Recovered
    <3>4. x.seq <= row.seq
      BY <2>1, <3>1 DEF RunInvariant, LivesAreOrdered
    <3>5. x.seq \in Nat /\ row.seq \in Nat
      BY <2>1, <3>1, <3>3, CallFields DEF RunInvariant, Typed, Starts, Row
    <3> QED BY <3>3, <3>4, <3>5
  <2>2. \A s \in Steps : life[s] \in 0 .. tokens /\ (ran[s] = "no" => life[s] = 0)
    BY DEF RunInvariant, LivesAreOrdered
  <2>3. \A q \in Processes : \A x \in net'[q] : x.kind \in {"recover", "reply"} /\ x.state = "sent" =>
          x.seq \in Nat /\ row'.seq \in Nat
    BY <1>4, CallFields DEF Starts, Row
  <2>4. \A q \in Processes : \A x \in net'[q] : x.kind \in {"recover", "reply"} /\ x.state = "sent" =>
          x.seq <= row'.seq /\ x.seq # row'.seq /\ x.seq < row'.seq
    BY <2>1, <2>3
  <2> QED BY <1>1, <1>6, <1>16, <1>17, <2>2, <2>4 DEF LivesAreOrdered
<1>19. ResolvedByLaterEvidence'
  <2>1. row'.resolved = {} \/ (row # NoRow /\ row'.resolved = row.resolved)
    BY <1>3, RowKinds DEF Fresh, Recovered
  <2> QED BY <1>1, <2>1 DEF RunInvariant, ResolvedByLaterEvidence
<1> QED BY <1>7, <1>8, <1>9, <1>10, <1>11, <1>13, <1>14, <1>15, <1>18, <1>19 DEF RunInvariant

LEMMA SaveStep ==
  ASSUME RunInvariant, NEW p \in Processes, NEW r, NEW new, Serves(p, r, new, "ok"), Save(p, r)
  PROVE  RunInvariant'
<1> USE ServedAll
<1>1. UNCHANGED <<target, client, ran, intent, aborted, life, tokens, lost, bound>>
  OBVIOUS
<1>2. /\ r.kind = "save" /\ r.state = "sent" /\ owners[p].token = r.token /\ r.token # 0
      /\ MayUpdate(p, r) /\ row' = Updated(p, r)
      /\ owners' = IF r.boundary = "finished" THEN [owners EXCEPT ![p] = NoOwner] ELSE owners
  BY DEF Save, RunInvariant, TokensAreIssued
<1>3. owners[p] # NoOwner /\ row # NoRow /\ row \in Row
      /\ \A q \in Processes : q # p => owners[q] = NoOwner /\ owners[q].token = 0
  <2>1. owners[p] # NoOwner
    BY <1>2, Owned DEF RunInvariant
  <2>2. row # NoRow /\ row \in Row
    BY <2>1 DEF RunInvariant, NothingWithoutRecord, Typed
  <2>3. \A q \in Processes : q # p => owners[q] = NoOwner
    BY <2>1 DEF RunInvariant, OneOwner
  <2> QED BY <2>1, <2>2, <2>3 DEF NoOwner
<1>4. /\ row' \in Row /\ row'.seq = row.seq + 1 /\ row'.phase = row.phase
      /\ row'.source = row.source /\ row'.required = row.required /\ row'.resolved = row.resolved
      /\ \A s \in Steps : row'.steps[s] = IF s \in row.source THEN row.steps[s] ELSE r.steps[s]
  BY <1>2, <1>3, UpdatedRow DEF RunInvariant
<1>5. row' # NoRow
  BY <1>4, RowKinds
<1>6. /\ owners' \in [Processes -> [token : 0 .. bound.tokens, inst : Nat]]
      /\ \A q \in Processes : \/ owners'[q] = owners[q]
                              \/ q = p /\ owners'[q] = NoOwner /\ owners'[q].token = 0
      /\ \A q \in Processes : owners'[q] # NoOwner => owners'[q] = owners[q]
      /\ r.boundary # "finished" => owners' = owners
  <2>1. NoOwner \in [token : 0 .. bound.tokens, inst : Nat]
    BY Owned DEF NoOwner, RunInvariant
  <2> QED BY <1>2, <2>1 DEF RunInvariant, Typed, NoOwner
<1>7. Typed'
  BY <1>1, <1>4, <1>6 DEF RunInvariant, Typed
<1>8. OneOwner' /\ TokensAreIssued'
  <2>1. OneOwner'
    BY <1>6 DEF RunInvariant, OneOwner
  <2>2. TokensAreIssued'
    BY <1>1, <1>6 DEF RunInvariant, TokensAreIssued
  <2> QED BY <2>1, <2>2
<1>9. StartsAreOwned'
  <2> SUFFICES ASSUME NEW a \in Processes, NEW b \in Processes, NEW x \in net'[a], x.kind \in Starts
               PROVE  /\ x.state = "sent" => owners'[b].token # x.token
                      /\ x.state = "ok" => owners'[a].token = x.token
    BY DEF StartsAreOwned
  <2>1. x \in net[a] /\ x.token # 0
    BY <1>2 DEF Alike, Starts, RunInvariant, TokensAreIssued
  <2>2. x.token # r.token
    BY <1>2, <2>1 DEF RunInvariant, StartsAreAlone, Starts
  <2> QED BY <1>2, <1>6, <2>1, <2>2 DEF RunInvariant, StartsAreOwned
<1>10. HoldersOwn'
  <2> SUFFICES ASSUME NEW q \in Processes, Holds(q)'
               PROVE  owners'[q].token = client[q].token
    BY <1>1 DEF HoldersOwn
  <2>1. Holds(q) /\ owners[q].token = client[q].token
    BY DEF RunInvariant, HoldersOwn
  <2>2. CASE q # p \/ r.boundary # "finished"
    BY <1>6, <2>1, <2>2
  <2>3. CASE q = p /\ r.boundary = "finished"
    <3>1. client[p].pc \in Live /\ r.token = client[p].token
      BY <1>2, <2>1, <2>3 DEF Holds
    <3>2. r \in Awaited(p)
      BY <3>1 DEF RunInvariant, WaitsAreDue, Awaited
    <3>3. client[p].pc = "finishing"
      BY <1>2, <2>3, <3>2 DEF RunInvariant, WaitsAreDue
    <3>4. PICK x \in new : TRUE
      BY <3>2 DEF Serves, Awaited
    <3>5. x \in Awaited(p)' /\ x.state = "ok"
      BY <3>2, <3>4, Exchanged DEF Serves, RunInvariant, Awaited
    <3> QED BY <1>1, <2>3, <3>3, <3>5 DEF Holds
  <2> QED BY <2>2, <2>3
<1>11. LeasesReturn'
  BY <1>1, <1>2, <1>6 DEF RunInvariant, LeasesReturn, Alike, GivesBack, Starts
<1>12. NothingWithoutRecord'
  BY <1>5 DEF NothingWithoutRecord
<1>13. Truthful(row.steps) /\ Truthful(r.steps) /\ Truthful(row'.steps)
  <2>1. Truthful(row.steps)
    BY <1>3 DEF RunInvariant, CopiesAreTrue
  <2>2. Truthful(r.steps)
    BY <1>2 DEF RunInvariant, CopiesAreTrue
  <2> QED BY <1>4, <2>1, <2>2 DEF Truthful
<1>14. CopiesAreTrue'
  <2>1. \A q \in Processes : \A x \in net'[q] :
          x.kind = "save" /\ x.state = "sent" /\ x.token = owners'[q].token =>
            x \in net[q] /\ x.token = owners[q].token
    BY <1>6 DEF RunInvariant, TokensAreIssued
  <2>2. Truthful(row.steps)'
    BY <1>1, <1>13 DEF Truthful, Happened
  <2> QED BY <1>1, <2>1, <2>2 DEF RunInvariant, CopiesAreTrue, Truthful, Happened
<1>15. NextIsNew'
  <2> SUFFICES ASSUME NEW q \in Processes, client[q].pc = "predispatch",
                      NEW x \in Awaited(q)'
               PROVE  /\ x.kind = "save" /\ x.boundary = "before-dispatch"
                      /\ x.step = client[q].step /\ x.steps = client[q].steps
                      /\ x.state = "ok" =>
                           /\ row'.steps[client[q].step] = "unknown"
                           /\ client[q].step \notin row'.source
                           /\ Tool[client[q].step] \in {"change", "edit"} => row'.phase # "inspecting"
    BY <1>1 DEF RunInvariant, NextIsNew
  <2>1. /\ client[q].step \in Steps /\ client[q].steps[client[q].step] = "unknown"
        /\ \A y \in Awaited(q) : /\ y.kind = "save" /\ y.boundary = "before-dispatch"
                                 /\ y.step = client[q].step /\ y.steps = client[q].steps
    BY DEF RunInvariant, NextIsNew
  <2>2. x \in net'[q] /\ x.reply = "awaited"
    BY DEF Awaited
  <2>3. CASE q = p /\ x \in new /\ Alike(x, r) /\ x.reply = r.reply
    <3>1. r \in Awaited(q)
      BY <2>2, <2>3 DEF Awaited
    <3>2. /\ r.boundary = "before-dispatch" /\ r.step = client[q].step
          /\ r.steps = client[q].steps
      BY <2>1, <3>1
    <3>3. /\ r.step \notin row.source
          /\ row.phase = "inspecting" => Tool[r.step] \in {"read", "look"}
      BY <1>2, <3>2 DEF MayUpdate, Dispatching
    <3>4. row'.steps[client[q].step] = "unknown"
      BY <1>4, <2>1, <3>2, <3>3
    <3> QED BY <1>2, <1>4, <2>1, <2>3, <3>2, <3>3, <3>4 DEF Alike
  <2>4. CASE x \in net[q] /\ (q = p => x # r)
    <3>1. x \in Awaited(q)
      BY <2>2, <2>4 DEF Awaited
    <3>2. Holds(q) /\ client[q].pc \in Live
      BY DEF Holds, Live, Journaling
    <3>3. q = p /\ r.token = client[p].token
      BY <1>2, <1>3, <3>2, HolderOwns
    <3>4. r \in Awaited(p)
      BY <3>2, <3>3 DEF RunInvariant, WaitsAreDue, Awaited
    <3> QED BY <2>4, <3>1, <3>3, <3>4 DEF RunInvariant, OneIsAwaited
  <2> QED BY <2>2, <2>3, <2>4
<1>16. HistoryIsReviewed'
  <2>1. Resolved(row') = Resolved(row)
    BY <1>4 DEF Resolved
  <2>2. Unknown(row'.steps) \cap row'.source = Unknown(row.steps) \cap row.source
    BY <1>4 DEF Unknown
  <2>3. row.source \subseteq Steps /\ row'.source \subseteq Present(row'.steps)
    BY <1>3, <1>4 DEF RunInvariant, HistoryIsReviewed, Present, Row
  <2>4. HistoryIsReviewed
    BY DEF RunInvariant
  <2> QED BY <1>3, <1>4, <2>1, <2>2, <2>3, <2>4 DEF HistoryIsReviewed
<1>17. LivesAreOrdered'
  <2>1. ASSUME NEW q \in Processes, NEW x \in net'[q], x.kind \in {"recover", "reply"},
               x.state = "sent"
        PROVE  x.seq < row'.seq /\ x.seq # row'.seq /\ x.seq <= row'.seq
    <3>1. x \in net[q] /\ x.seq <= row.seq
      BY <2>1 DEF RunInvariant, LivesAreOrdered
    <3>2. x.seq \in Nat /\ row.seq \in Nat
      BY <1>3, <2>1, <3>1, CallFields DEF RunInvariant, Typed, Starts, Row
    <3> QED BY <1>4, <3>1, <3>2
  <2>2. LivesAreOrdered
    BY DEF RunInvariant
  <2> QED BY <1>1, <1>3, <1>4, <1>6, <2>1, <2>2 DEF LivesAreOrdered
<1>18. ResolvedByLaterEvidence'
  BY <1>1, <1>3, <1>4 DEF RunInvariant, ResolvedByLaterEvidence
<1> QED BY <1>7, <1>8, <1>9, <1>10, <1>11, <1>12, <1>14, <1>15, <1>16, <1>17, <1>18 DEF RunInvariant

LEMMA ReleaseStep ==
  ASSUME RunInvariant, NEW p \in Processes, NEW r, NEW new, Serves(p, r, new, "ok"), Release(p, r)
  PROVE  RunInvariant'
<1> USE ServedAll
<1>1. /\ UNCHANGED <<target, client, ran, intent, aborted, life, tokens, lost, bound>>
      /\ row' = row /\ r.kind = "release" /\ owners[p].token \in {0, r.token}
      /\ owners' = [owners EXCEPT ![p] = NoOwner]
  BY DEF Release
<1>2. /\ owners' \in [Processes -> [token : 0 .. bound.tokens, inst : Nat]]
      /\ owners'[p] = NoOwner /\ owners'[p].token = 0
      /\ \A q \in Processes : q # p => owners'[q] = owners[q]
      /\ \A q \in Processes : owners'[q] # NoOwner => owners'[q] = owners[q]
  <2>1. NoOwner \in [token : 0 .. bound.tokens, inst : Nat]
    BY Owned DEF NoOwner, RunInvariant
  <2> QED BY <1>1, <2>1 DEF RunInvariant, Typed, NoOwner
<1>3. Typed'
  BY <1>1, <1>2 DEF RunInvariant, Typed
<1>4. OneOwner' /\ TokensAreIssued' /\ HistoryIsReviewed' /\ ResolvedByLaterEvidence'
  BY <1>1, <1>2 DEF RunInvariant, OneOwner, TokensAreIssued, HistoryIsReviewed,
                    ResolvedByLaterEvidence
<1>5. StartsAreOwned'
  <2> SUFFICES ASSUME NEW a \in Processes, NEW b \in Processes, NEW x \in net'[a], x.kind \in Starts
               PROVE  /\ x.state = "sent" => owners'[b].token # x.token
                      /\ x.state = "ok" => owners'[a].token = x.token
    BY DEF StartsAreOwned
  <2>1. x \in net[a] /\ x.token # 0
    BY <1>1 DEF Alike, Starts, RunInvariant, TokensAreIssued
  <2>2. x.token # r.token
    BY <1>1, <2>1 DEF RunInvariant, StartsAreAlone, Starts
  <2> QED BY <1>1, <1>2, <2>1, <2>2 DEF RunInvariant, StartsAreOwned
<1>6. HoldersOwn'
  <2> SUFFICES ASSUME NEW q \in Processes, Holds(q)'
               PROVE  owners'[q].token = client[q].token
    BY <1>1 DEF HoldersOwn
  <2>1. Holds(q) /\ owners[q].token = client[q].token /\ owners[q].token # 0
    BY HolderOwns
  <2>2. q # p
    <3> SUFFICES ASSUME q = p PROVE FALSE
      OBVIOUS
    <3>1. client[p].pc \in Live /\ r.token = client[p].token
      BY <1>1, <2>1 DEF Holds
    <3>2. r \in Awaited(p)
      BY <3>1 DEF RunInvariant, WaitsAreDue, Awaited
    <3> QED BY <1>1, <3>1, <3>2 DEF RunInvariant, WaitsAreDue, Live, Journaling
  <2> QED BY <1>2, <2>1, <2>2
<1>7. LeasesReturn'
  BY <1>1, <1>2 DEF RunInvariant, LeasesReturn, Alike, GivesBack, Starts
<1>8. NothingWithoutRecord'
  BY <1>1, <1>2 DEF RunInvariant, NothingWithoutRecord, Alike
<1>9. CopiesAreTrue'
  <2>1. \A q \in Processes : \A x \in net'[q] :
          x.kind = "save" /\ x.state = "sent" /\ x.token = owners'[q].token =>
            x \in net[q] /\ x.token = owners[q].token
    BY <1>1, <1>2 DEF RunInvariant, TokensAreIssued
  <2> QED BY <1>1, <2>1 DEF RunInvariant, CopiesAreTrue, Truthful, Happened
<1>10. NextIsNew'
  BY <1>1 DEF RunInvariant, NextIsNew, WaitsAreDue, Alike, Awaited, Journaling
<1>11. LivesAreOrdered'
  BY <1>1, <1>2 DEF RunInvariant, LivesAreOrdered, Alike
<1> QED BY <1>3, <1>4, <1>5, <1>6, <1>7, <1>8, <1>9, <1>10, <1>11 DEF RunInvariant

LEMMA ConfirmStep ==
  ASSUME RunInvariant, NEW p \in Processes, NEW r, NEW new, Serves(p, r, new, "ok"), Confirm(p, r)
  PROVE  RunInvariant'
<1> USE ServedAll
<1>1. UNCHANGED <<owners, target, client, ran, intent, aborted, life, tokens, lost, bound>>
  BY DEF Confirm
<1>2. r.kind = "confirm" /\ owners[p].token = r.token /\ r.token # 0 /\ Resolves(r.resolutions)
  BY DEF Confirm, RunInvariant, TokensAreIssued
<1>3. owners[p] # NoOwner /\ row # NoRow /\ row \in Row
  <2>1. owners[p] # NoOwner
    BY <1>2, Owned DEF RunInvariant
  <2> QED BY <2>1 DEF RunInvariant, NothingWithoutRecord, Typed
<1>4. /\ row' \in Row /\ row'.seq = row.seq + 1 /\ row'.phase = "continuing"
      /\ row'.source = row.source /\ row'.required = row.required /\ row'.steps = row.steps
      /\ row'.resolved = row.resolved \cup r.resolutions
  BY <1>3, ConfirmedRow DEF RunInvariant
<1>5. row' # NoRow
  BY <1>4, RowKinds
<1>6. Typed'
  BY <1>1, <1>4 DEF RunInvariant, Typed
<1>7. OneOwner' /\ TokensAreIssued' /\ HoldersOwn' /\ NothingWithoutRecord'
  BY <1>1, <1>5 DEF RunInvariant, OneOwner, TokensAreIssued, HoldersOwn, NothingWithoutRecord
<1>8. StartsAreOwned'
  BY <1>1, <1>2 DEF RunInvariant, StartsAreOwned, Alike, Starts
<1>9. LeasesReturn'
  BY <1>1, <1>2 DEF RunInvariant, LeasesReturn, Alike, GivesBack, Starts
<1>10. CopiesAreTrue'
  BY <1>1, <1>2, <1>3, <1>4 DEF RunInvariant, CopiesAreTrue, Truthful, Happened, Alike
<1>11. NextIsNew'
  <2>1. ASSUME NEW q \in Processes, client[q].pc = "predispatch", NEW x \in Awaited(q)'
        PROVE  x \in Awaited(q)
    <3>1. \A y \in Awaited(q) : y.kind = "save"
      BY <2>1 DEF RunInvariant, NextIsNew
    <3> QED BY <1>2, <2>1, <3>1 DEF Awaited, Alike
  <2> QED BY <1>1, <1>3, <1>4, <2>1 DEF RunInvariant, NextIsNew
<1>12. /\ r.resolutions \subseteq [step : Steps, by : Steps]
       /\ \A x \in r.resolutions : x.step \in row.required /\ Evidence(x)
       /\ {x.step : x \in r.resolutions} = row.required
  BY <1>2, CallFields DEF Resolves
<1>13. row.required \subseteq row.source /\ row.required \subseteq Steps /\ row.source \subseteq Steps
  BY <1>3 DEF RunInvariant, HistoryIsReviewed, Row
<1>14. HistoryIsReviewed'
  <2>1. Resolved(row') = Resolved(row) \cup row.required
    BY <1>4, <1>12 DEF Resolved
  <2>2. HistoryIsReviewed
    BY DEF RunInvariant
  <2> QED BY <1>3, <1>4, <1>13, <2>1, <2>2 DEF HistoryIsReviewed
<1>15. LivesAreOrdered'
  <2>1. ASSUME NEW q \in Processes, NEW x \in net'[q], x.kind \in {"recover", "reply"},
               x.state = "sent"
        PROVE  x.seq < row'.seq /\ x.seq # row'.seq /\ x.seq <= row'.seq
    <3>1. x \in net[q] /\ x.seq <= row.seq
      BY <2>1 DEF RunInvariant, LivesAreOrdered
    <3>2. x.seq \in Nat /\ row.seq \in Nat
      BY <1>3, <2>1, <3>1, CallFields DEF RunInvariant, Typed, Starts, Row
    <3> QED BY <1>4, <3>1, <3>2
  <2>2. LivesAreOrdered
    BY DEF RunInvariant
  <2> QED BY <1>1, <1>3, <1>4, <2>1, <2>2 DEF LivesAreOrdered
<1>16. ResolvedByLaterEvidence'
  <2>1. ASSUME NEW x \in r.resolutions
        PROVE  life[x.by] > life[x.step] /\ ran[x.by] = "over"
    <3>1. /\ x.by \in Steps \ row.source /\ x.step \in row.source
          /\ row.steps[x.by] = "known"
      BY <1>12, <1>13 DEF Evidence
    <3>2. ran[x.by] = "over"
      BY <1>3, <3>1 DEF RunInvariant, CopiesAreTrue, Truthful
    <3>3. life[x.step] < life[x.by]
      BY <1>3, <3>1, <3>2 DEF RunInvariant, LivesAreOrdered
    <3>4. life[x.step] \in Nat /\ life[x.by] \in Nat
      BY <1>13, <3>1 DEF RunInvariant, Typed
    <3> QED BY <3>2, <3>3, <3>4
  <2>2. \A x \in row.resolved : life[x.by] > life[x.step] /\ ran[x.by] = "over"
    BY <1>3 DEF RunInvariant, ResolvedByLaterEvidence
  <2> QED BY <1>1, <1>4, <2>1, <2>2 DEF ResolvedByLaterEvidence
<1> QED BY <1>6, <1>7, <1>8, <1>9, <1>10, <1>11, <1>14, <1>15, <1>16 DEF RunInvariant

LEMMA ServeStep ==
  ASSUME RunInvariant, NEW p \in Processes, Serve(p)
  PROVE  RunInvariant'
<1>1. PICK r \in net[p], new \in SUBSET Call, st \in {"ok", "failed"} :
        /\ Serves(p, r, new, st)
        /\ \/ Refuse(p, r) /\ st = "failed"
           \/ (Open(p, r) \/ Save(p, r) \/ Confirm(p, r) \/ Release(p, r)) /\ st = "ok"
  BY Handlers DEF RunInvariant
<1> QED BY <1>1, RefuseStep, OpenStep, SaveStep, ConfirmStep, ReleaseStep

-----------------------------------------------------------------------------
(* The shell, the sessions and the losses.                                    *)

LEMMA ShellStep ==
  ASSUME RunInvariant, NEW s \in Steps, Write(s) \/ NotWritten(s) \/ Ends(s)
  PROVE  RunInvariant'
<1>1. /\ UNCHANGED <<row, owners, target, client, net, intent, aborted, life, tokens, lost, bound>>
      /\ \A t \in Steps : t # s => ran'[t] = ran[t]
      /\ ran[s] \in {"asked", "sent"} /\ ran'[s] \in {"sent", "over", "refused"}
      /\ ran[s] = "sent" => ran'[s] = "over"
      /\ ran' \in [Steps -> {"no", "asked", "sent", "over", "refused"}]
  BY DEF Write, NotWritten, Ends, RunInvariant, Typed
<1>2. Typed'
  BY <1>1 DEF RunInvariant, Typed
<1>3. OneIsAwaited' /\ WaitsAreDue' /\ OneOwner' /\ HoldersOwn' /\ LeasesReturn' /\ StepsAreNamed'
      /\ TokensAreIssued' /\ StartsAreAlone' /\ StartsAreAsked' /\ StartsAreOwned'
  BY <1>1 DEF RunInvariant, OneIsAwaited, WaitsAreDue, Awaited, OneOwner, HoldersOwn, Holds,
              LeasesReturn, StepsAreNamed, TokensAreIssued, StartsAreAlone, StartsAreAsked,
              StartsAreOwned
<1>4. NothingWithoutRecord' /\ HistoryIsReviewed'
  BY <1>1 DEF RunInvariant, NothingWithoutRecord, HistoryIsReviewed
<1>5. ASSUME NEW steps, Truthful(steps)
      PROVE  /\ \A t \in Steps : steps[t] = "absent" => ran'[t] = "no"
             /\ \A t \in Steps : steps[t] = "known" => ran'[t] = "over"
             /\ \A t \in Happened' \ aborted' : steps[t] \in {"unknown", "known"}
  BY <1>1, <1>5 DEF Truthful, Happened
<1>6. CopiesAreTrue'
  BY <1>1, <1>5 DEF RunInvariant, CopiesAreTrue, Truthful, Holds, Awaited
<1>7. NextIsNew'
  BY <1>1 DEF RunInvariant, NextIsNew, Awaited
<1>8. LivesAreOrdered'
  BY <1>1 DEF RunInvariant, LivesAreOrdered
<1>9. ResolvedByLaterEvidence'
  <2>1. row # NoRow => row.resolved \subseteq [step : Steps, by : Steps]
    BY DEF RunInvariant, Typed, Row
  <2>2. \A t \in Steps : ran[t] = "over" => ran'[t] = "over"
    BY <1>1
  <2> QED BY <1>1, <2>1, <2>2 DEF RunInvariant, ResolvedByLaterEvidence
<1> QED BY <1>2, <1>3, <1>4, <1>6, <1>7, <1>8, <1>9 DEF RunInvariant

LEMMA MovesStep ==
  ASSUME RunInvariant, NEW p \in Processes, SessionCloses(p) \/ EnvironmentChanges(p)
  PROVE  RunInvariant'
<1>1. /\ UNCHANGED <<row, owners, client, net, ran, intent, life, tokens, lost, bound>>
      /\ aborted \subseteq aborted' /\ aborted' \subseteq Steps
  BY DEF SessionCloses, EnvironmentChanges, RunInvariant, Typed, Captured
<1>2. target' \in [Processes -> Target] /\ \A q \in Processes : target'[q].proc = q
  <2>1. target \in [Processes -> Target] /\ \A q \in Processes : target[q].proc = q
    BY DEF RunInvariant, Typed
  <2>2. PICK n \in Nat, e \in UNION {b.envs : b \in Bounds} :
          \/ target' = [target EXCEPT ![p].inst = n]
          \/ target' = [target EXCEPT ![p].env = e]
    <3>1. CASE SessionCloses(p)
      <4>1. target[p].inst + 1 \in Nat /\ target[p].env \in UNION {b.envs : b \in Bounds}
        BY <2>1 DEF Target
      <4>2. target' = [target EXCEPT ![p].inst = target[p].inst + 1]
        BY <2>1, <3>1 DEF SessionCloses
      <4> QED BY <4>1, <4>2
    <3>2. CASE EnvironmentChanges(p)
      <4>1. bound \in Bounds
        BY DEF RunInvariant, Typed
      <4> QED BY <3>2, <4>1 DEF EnvironmentChanges
    <3> QED BY <3>1, <3>2
  <2> QED BY <2>1, <2>2 DEF Target
<1>3. Typed'
  BY <1>1, <1>2 DEF RunInvariant, Typed
<1>4. OneIsAwaited' /\ WaitsAreDue' /\ OneOwner' /\ HoldersOwn' /\ LeasesReturn' /\ StepsAreNamed'
      /\ TokensAreIssued' /\ StartsAreAlone' /\ StartsAreAsked' /\ StartsAreOwned'
  BY <1>1 DEF RunInvariant, OneIsAwaited, WaitsAreDue, Awaited, OneOwner, HoldersOwn, Holds,
              LeasesReturn, StepsAreNamed, TokensAreIssued, StartsAreAlone, StartsAreAsked,
              StartsAreOwned
<1>5. NothingWithoutRecord' /\ HistoryIsReviewed' /\ NextIsNew' /\ LivesAreOrdered'
      /\ ResolvedByLaterEvidence'
  BY <1>1 DEF RunInvariant, NothingWithoutRecord, HistoryIsReviewed, NextIsNew, Awaited,
              LivesAreOrdered, ResolvedByLaterEvidence
<1>6. CopiesAreTrue'
  BY <1>1 DEF RunInvariant, CopiesAreTrue, Truthful, Happened, Holds, Awaited
<1> QED BY <1>3, <1>4, <1>5, <1>6 DEF RunInvariant

LEMMA IdleLoop == Idle \in Loop /\ Idle.pc = "idle" /\ Idle.token = 0
BY DEF Idle, Loop, Phases, Statuses, Effects

LEMMA IdleLoops ==
  ASSUME NEW t \in Nat, NEW pc \in {"starting", "releasing"}
  PROVE  LET c == [Idle EXCEPT !.pc = pc, !.token = t]
         IN  c \in Loop /\ c.pc = pc /\ c.token = t
BY DEF Idle, Loop, Phases, Statuses, Effects

LEMMA CrashStep ==
  ASSUME RunInvariant, NEW p \in Processes, Crash(p)
  PROVE  RunInvariant'
<1>1. /\ owners' = [owners EXCEPT ![p] = NoOwner] /\ client' = [client EXCEPT ![p] = Idle]
      /\ net' = [net EXCEPT ![p] = {}] /\ lost' = lost \cup {"crash"}
      /\ target' = [target EXCEPT ![p].inst = @ + 1]
      /\ ran' = [s \in Steps |-> IF ran[s] = "asked" /\ intent[s].proc = p THEN "refused" ELSE ran[s]]
      /\ UNCHANGED <<row, intent, aborted, life, tokens, bound>>
  BY DEF Crash
<1>2. /\ NoOwner \in [token : 0 .. bound.tokens, inst : Nat] /\ NoOwner.token = 0
      /\ Idle \in Loop /\ Idle.pc = "idle" /\ Idle.token = 0
  BY Owned, IdleLoop DEF NoOwner, RunInvariant
<1>3. /\ owners' \in [Processes -> [token : 0 .. bound.tokens, inst : Nat]]
      /\ client' \in [Processes -> Loop] /\ net' \in [Processes -> SUBSET Call]
      /\ owners'[p] = NoOwner /\ client'[p] = Idle /\ net'[p] = {}
      /\ \A q \in Processes : q # p => /\ owners'[q] = owners[q] /\ client'[q] = client[q]
                                       /\ net'[q] = net[q]
  BY <1>1, <1>2 DEF RunInvariant, Typed
<1>4. target' \in [Processes -> Target] /\ \A q \in Processes : target'[q].proc = q
  <2>1. target \in [Processes -> Target] /\ \A q \in Processes : target[q].proc = q
    BY DEF RunInvariant, Typed
  <2>2. target[p].inst + 1 \in Nat
    BY <2>1 DEF Target
  <2> QED BY <1>1, <2>1, <2>2 DEF Target
<1>5. /\ ran' \in [Steps -> {"no", "asked", "sent", "over", "refused"}]
      /\ \A s \in Steps : ran'[s] = ran[s] \/ (ran[s] = "asked" /\ ran'[s] = "refused")
  BY <1>1 DEF RunInvariant, Typed
<1>6. Typed'
  BY <1>1, <1>3, <1>4, <1>5 DEF RunInvariant, Typed
<1>7. \A q \in Processes : Holds(q)' => q # p /\ Holds(q)
  BY <1>2, <1>3 DEF Holds, Awaited, Live, Journaling
<1>8. OneIsAwaited' /\ WaitsAreDue'
  BY <1>2, <1>3 DEF RunInvariant, OneIsAwaited, WaitsAreDue, Awaited, Live, Journaling
<1>9. OneOwner' /\ HoldersOwn' /\ TokensAreIssued'
  <2>1. tokens \in Nat
    BY Owned DEF RunInvariant
  <2> QED BY <1>1, <1>2, <1>3, <1>7, <2>1 DEF RunInvariant, OneOwner, HoldersOwn, TokensAreIssued
<1>10. StartsAreAlone' /\ StartsAreAsked' /\ StartsAreOwned' /\ StepsAreNamed'
  <2>1. \A q \in Processes : \A x \in net'[q] : q # p /\ x \in net[q] /\ x.token # 0
    BY <1>3 DEF RunInvariant, TokensAreIssued
  <2>2. StartsAreAlone' /\ StepsAreNamed'
    BY <1>3, <2>1 DEF RunInvariant, StartsAreAlone, StepsAreNamed
  <2>3. StartsAreAsked'
    BY <1>2, <1>3, <2>1 DEF RunInvariant, StartsAreAsked
  <2>4. StartsAreOwned'
    BY <1>2, <1>3, <2>1 DEF RunInvariant, StartsAreOwned
  <2> QED BY <2>2, <2>3, <2>4
<1>11. LeasesReturn'
  BY <1>1, <1>3 DEF RunInvariant, LeasesReturn
<1>12. NothingWithoutRecord' /\ HistoryIsReviewed'
  BY <1>1, <1>3, <1>5 DEF RunInvariant, NothingWithoutRecord, HistoryIsReviewed
<1>13. CopiesAreTrue'
  <2>1. ASSUME NEW steps, Truthful(steps)
        PROVE  /\ \A t \in Steps : steps[t] = "absent" => ran'[t] = "no"
               /\ \A t \in Steps : steps[t] = "known" => ran'[t] = "over"
               /\ \A t \in Happened' \ aborted' : steps[t] \in {"unknown", "known"}
    BY <1>1, <1>5, <2>1 DEF Truthful, Happened
  <2> QED BY <1>1, <1>3, <1>7, <2>1 DEF RunInvariant, CopiesAreTrue, Truthful
<1>14. NextIsNew'
  BY <1>1, <1>2, <1>3, <1>5 DEF RunInvariant, NextIsNew, Awaited
<1>15. LivesAreOrdered'
  <2>1. \A q \in Processes : owners'[q] # NoOwner => owners'[q] = owners[q]
    BY <1>3
  <2>2. \A s \in Steps : ran'[s] = "no" <=> ran[s] = "no"
    BY <1>5
  <2>3. \A q \in Processes : \A x \in net'[q] : x \in net[q] /\ x.token \in 1 .. tokens
    BY <1>3 DEF RunInvariant, TokensAreIssued
  <2>4. row # NoRow => row.source \subseteq Steps
    BY DEF RunInvariant, Typed, Row
  <2>5. \A q \in Processes : owners'[q].token = owners[q].token \/ owners'[q].token = 0
    BY <1>2, <1>3
  <2>6. \A q \in Processes : \A x \in net'[q] : ~(x.token < 0)
    BY <2>3
  <2> QED BY <1>1, <2>1, <2>2, <2>3, <2>4, <2>5, <2>6 DEF RunInvariant, LivesAreOrdered
<1>16. ResolvedByLaterEvidence'
  <2>1. row # NoRow => row.resolved \subseteq [step : Steps, by : Steps]
    BY DEF RunInvariant, Typed, Row
  <2>2. \A t \in Steps : ran[t] = "over" => ran'[t] = "over"
    BY <1>5
  <2> QED BY <1>1, <2>1, <2>2 DEF RunInvariant, ResolvedByLaterEvidence
<1> QED BY <1>6, <1>8, <1>9, <1>10, <1>11, <1>12, <1>13, <1>14, <1>15, <1>16 DEF RunInvariant

LEMMA ReloadStep ==
  ASSUME RunInvariant, NEW p \in Processes, Reload(p)
  PROVE  RunInvariant'
<1> DEFINE unserved == {[r EXCEPT !.reply = "lost"] : r \in {x \in net[p] : x.state = "sent"}}
<1>1. /\ client' = [client EXCEPT ![p] = Idle] /\ net' = [net EXCEPT ![p] = unserved]
      /\ lost' = lost \cup {"reload"} /\ target' = [target EXCEPT ![p].inst = @ + 1]
      /\ UNCHANGED <<row, owners, ran, intent, aborted, life, tokens, bound>>
  BY DEF Reload, RunInvariant, Typed
<1>2. Idle \in Loop /\ Idle.pc = "idle" /\ Idle.token = 0
  BY IdleLoop
<1>3. ASSUME NEW x \in unserved
      PROVE  \E r \in net[p] : /\ x \in Call /\ Alike(x, r) /\ x.state = "sent" /\ r.state = "sent"
                               /\ x.reply = "lost" /\ x = [r EXCEPT !.reply = "lost"]
  <2>1. PICK r \in net[p] : r.state = "sent" /\ x = [r EXCEPT !.reply = "lost"]
    BY <1>3
  <2>2. r \in Call
    BY DEF RunInvariant, Typed
  <2> QED BY <2>1, <2>2, ReplyChanges DEF Replies
<1> HIDE DEF unserved
<1>4. /\ client' \in [Processes -> Loop] /\ net' \in [Processes -> SUBSET Call]
      /\ client'[p] = Idle /\ net'[p] = unserved
      /\ \A q \in Processes : q # p => client'[q] = client[q] /\ net'[q] = net[q]
  BY <1>1, <1>2, <1>3 DEF RunInvariant, Typed
<1>5. \A q \in Processes : \A x \in net'[q] : \E r \in net[q] :
        /\ Alike(x, r) /\ x.state = r.state
        /\ IF q = p THEN x.state = "sent" /\ x.reply = "lost" /\ x = [r EXCEPT !.reply = "lost"]
           ELSE x = r
  BY <1>3, <1>4 DEF Alike
<1>6. target' \in [Processes -> Target] /\ \A q \in Processes : target'[q].proc = q
  <2>1. target \in [Processes -> Target] /\ \A q \in Processes : target[q].proc = q
    BY DEF RunInvariant, Typed
  <2>2. target[p].inst + 1 \in Nat
    BY <2>1 DEF Target
  <2> QED BY <1>1, <2>1, <2>2 DEF Target
<1>7. Typed'
  BY <1>1, <1>4, <1>6 DEF RunInvariant, Typed
<1>8. \A q \in Processes : Holds(q)' => q # p /\ Holds(q)
  BY <1>2, <1>4 DEF Holds, Awaited, Live, Journaling
<1>9. OneIsAwaited' /\ WaitsAreDue'
  <2>1. Awaited(p)' = {} /\ \A q \in Processes : q # p => Awaited(q)' = Awaited(q)
    BY <1>4, <1>5 DEF Awaited
  <2> QED BY <1>2, <1>4, <2>1 DEF RunInvariant, OneIsAwaited, WaitsAreDue, Live, Journaling
<1>10. OneOwner' /\ HoldersOwn' /\ TokensAreIssued' /\ LeasesReturn'
  <2>1. tokens \in Nat /\ \A q \in Processes : \A x \in net'[q] : x.token \in 1 .. tokens
    BY <1>5, Owned DEF RunInvariant, TokensAreIssued, Alike
  <2> QED BY <1>1, <1>2, <1>4, <1>8, <2>1 DEF RunInvariant, OneOwner, HoldersOwn,
                                              TokensAreIssued, LeasesReturn
<1>11. StartsAreAlone'
  <2> SUFFICES ASSUME NEW a \in Processes, NEW b \in Processes, NEW r \in net'[a],
                      NEW x \in net'[b], r.kind \in Starts, x.token = r.token
               PROVE  a = b /\ x = r
    BY DEF StartsAreAlone
  <2>1. PICK y \in net[a] : /\ Alike(r, y)
                            /\ IF a = p THEN r = [y EXCEPT !.reply = "lost"] ELSE r = y
    BY <1>5
  <2>2. PICK z \in net[b] : /\ Alike(x, z)
                            /\ IF b = p THEN x = [z EXCEPT !.reply = "lost"] ELSE x = z
    BY <1>5
  <2>3. a = b /\ z = y
    BY <2>1, <2>2 DEF RunInvariant, StartsAreAlone, Alike
  <2> QED BY <2>1, <2>2, <2>3
<1>12. StartsAreAsked' /\ StartsAreOwned' /\ StepsAreNamed'
  <2>1. \A q \in Processes : \A x \in net'[q] : x.token # 0
    BY <1>5 DEF RunInvariant, TokensAreIssued, Alike
  <2>2. StartsAreAsked'
    <3> SUFFICES ASSUME NEW a \in Processes, NEW b \in Processes, NEW r \in net'[a],
                        r.kind \in Starts, client'[b].token = r.token
                 PROVE  a = b /\ client'[a].pc = "starting"
      BY DEF StartsAreAsked
    <3>1. b # p
      BY <1>2, <1>4, <2>1
    <3>2. PICK y \in net[a] : Alike(r, y)
      BY <1>5
    <3>3. a = b /\ client[a].pc = "starting"
      BY <1>4, <3>1, <3>2 DEF RunInvariant, StartsAreAsked, Alike
    <3> QED BY <1>4, <3>1, <3>3
  <2>3. StartsAreOwned' /\ StepsAreNamed'
    BY <1>1, <1>5 DEF RunInvariant, StartsAreOwned, StepsAreNamed, Alike, Dispatching
  <2> QED BY <2>2, <2>3
<1>13. NothingWithoutRecord' /\ HistoryIsReviewed' /\ ResolvedByLaterEvidence'
  BY <1>1, <1>5 DEF RunInvariant, NothingWithoutRecord, HistoryIsReviewed,
                    ResolvedByLaterEvidence, Alike
<1>14. CopiesAreTrue'
  BY <1>1, <1>4, <1>5, <1>8 DEF RunInvariant, CopiesAreTrue, Truthful, Happened, Alike
<1>15. NextIsNew'
  BY <1>1, <1>2, <1>4 DEF RunInvariant, NextIsNew, Awaited
<1>16. LivesAreOrdered'
  <2>1. \A q \in Processes : \A x \in net'[q] : x.kind \in {"recover", "reply"} =>
          \E r \in net[q] : /\ r.kind = x.kind /\ r.state = x.state /\ r.seq = x.seq
                            /\ r.token = x.token
    BY <1>5 DEF Alike, Starts
  <2> QED BY <1>1, <2>1 DEF RunInvariant, LivesAreOrdered
<1> QED BY <1>7, <1>9, <1>10, <1>11, <1>12, <1>13, <1>14, <1>15, <1>16 DEF RunInvariant

-----------------------------------------------------------------------------
(* The window, while it works with its lease.                                 *)

(* It waits for nothing unless it journals.                                   *)
LEMMA NothingAwaited ==
  ASSUME RunInvariant, NEW p \in Processes,
         client[p].pc \in {"idle", "model", "approval", "review", "dispatch", "running"}
  PROVE  Awaited(p) = {}
<1> SUFFICES ASSUME NEW r \in Awaited(p) PROVE FALSE
  OBVIOUS
<1>1. r \in net[p] /\ r \in Call
  BY DEF Awaited, RunInvariant, Typed
<1>2. r.kind \in Starts \cup {"save", "release", "confirm"}
  BY <1>1, CallFields
<1> QED BY <1>2 DEF RunInvariant, WaitsAreDue, Journaling

LEMMA OnlyOneAwaited ==
  ASSUME RunInvariant, NEW p \in Processes, NEW r \in Awaited(p)
  PROVE  /\ Awaited(p) = {r} /\ r \in net[p] /\ r \in Call /\ r.reply = "awaited"
         /\ r.token = client[p].token
BY DEF RunInvariant, OneIsAwaited, Awaited, Typed

Works(p, c, old, new) ==
  /\ client[p].pc \in Live \ {"finishing"} /\ c \in Loop /\ c.pc \in Live
  /\ c.token = client[p].token
  /\ client' = [client EXCEPT ![p] = c] /\ Exchange(p, old, new)
  /\ new \in SUBSET Call /\ old \subseteq Awaited(p)
  /\ Awaited(p) \subseteq old \/ (new = {} /\ c.pc = "stopping" /\ client[p].pc \in Journaling)
  /\ \A x, y \in new : x = y
  /\ \A x \in new : /\ x.kind \in {"save", "confirm"} /\ x.reply = "awaited" /\ x.state = "sent"
                    /\ x.token = c.token /\ c.pc \in Journaling
                    /\ x.kind = "save" /\ c.pc # "finishing" => x.boundary # "finished"
  /\ UNCHANGED <<row, owners, target, aborted, lost, bound, tokens>>

LEMMA WorksOn ==
  ASSUME RunInvariant, NEW p \in Processes, NEW c, NEW old, NEW new, Works(p, c, old, new)
  PROVE  /\ UNCHANGED <<row, owners, target, aborted, lost, bound, tokens>>
         /\ client' \in [Processes -> Loop] /\ net' \in [Processes -> SUBSET Call]
         /\ client'[p] = c /\ net'[p] = (net[p] \ old) \cup new
         /\ \A q \in Processes : q # p => client'[q] = client[q] /\ net'[q] = net[q]
         /\ Holds(p) /\ row # NoRow /\ row \in Row
         /\ Awaited(p)' = (Awaited(p) \ old) \cup new
         /\ c.pc # "stopping" => Awaited(p)' = new
         /\ \A x \in net[p] : x.token = client[p].token => x.reply = "awaited"
         /\ client[p].token \in 1 .. tokens /\ c.token = client[p].token
         /\ client[p].pc \notin {"idle", "starting", "finishing", "releasing"}
         /\ c.pc \in Live /\ c.pc \notin {"idle", "starting", "releasing"}
         /\ old \subseteq Awaited(p)
         /\ Awaited(p) \subseteq old \/ (new = {} /\ c.pc = "stopping" /\ client[p].pc \in Journaling)
         /\ \A x, y \in new : x = y
         /\ \A x \in new :
              /\ x.kind \in {"save", "confirm"} /\ x.kind \notin Starts
              /\ x.reply = "awaited" /\ x.state = "sent" /\ x.token = c.token /\ c.pc \in Journaling
              /\ x.kind = "save" /\ c.pc # "finishing" => x.boundary # "finished"
<1>1. /\ client[p].pc \in Live \ {"finishing"} /\ c \in Loop /\ c.pc \in Live
      /\ c.token = client[p].token
      /\ client' = [client EXCEPT ![p] = c] /\ Exchange(p, old, new)
      /\ new \in SUBSET Call /\ old \subseteq Awaited(p)
      /\ Awaited(p) \subseteq old \/ (new = {} /\ c.pc = "stopping" /\ client[p].pc \in Journaling)
      /\ \A x, y \in new : x = y
      /\ \A x \in new :
           /\ x.kind \in {"save", "confirm"} /\ x.kind \notin Starts
           /\ x.reply = "awaited" /\ x.state = "sent" /\ x.token = c.token /\ c.pc \in Journaling
           /\ x.kind = "save" /\ c.pc # "finishing" => x.boundary # "finished"
      /\ UNCHANGED <<row, owners, target, aborted, lost, bound, tokens>>
  BY DEF Works, Starts
<1>2. /\ net' \in [Processes -> SUBSET Call] /\ net'[p] = (net[p] \ old) \cup new
      /\ \A q \in Processes : q # p => net'[q] = net[q]
  BY <1>1, Exchanged DEF RunInvariant
<1>3. /\ client' \in [Processes -> Loop] /\ client'[p] = c
      /\ \A q \in Processes : q # p => client'[q] = client[q]
  BY <1>1 DEF RunInvariant, Typed
<1>4. /\ client[p].pc \notin {"idle", "starting", "finishing", "releasing"}
      /\ c.pc \notin {"idle", "starting", "releasing"}
  BY <1>1 DEF Live, Journaling
<1>5. Holds(p)
  BY <1>1 DEF Holds
<1>6. row # NoRow /\ row \in Row
  BY <1>5, HolderOwns DEF RunInvariant, Typed
<1>7. Awaited(p)' = (Awaited(p) \ old) \cup new
  BY <1>1, <1>2 DEF Awaited
<1>8. c.pc # "stopping" => Awaited(p)' = new
  <2>1. Awaited(p) \subseteq old => (Awaited(p) \ old) \cup new = new
    OBVIOUS
  <2> QED BY <1>1, <1>7, <2>1
<1>9. \A x \in net[p] : x.token = client[p].token => x.reply = "awaited"
  BY <1>1 DEF RunInvariant, WaitsAreDue
<1>10. client[p].token \in 1 .. tokens
  <2>1. client[p].token \in 0 .. tokens /\ client[p].token # 0
    BY <1>4 DEF RunInvariant, TokensAreIssued
  <2> QED BY <2>1
<1> QED BY <1>1, <1>2, <1>3, <1>4, <1>5, <1>6, <1>7, <1>9, <1>10, <1>8

LEMMA WorksKeeps ==
  ASSUME RunInvariant, NEW p \in Processes, NEW c, NEW old, NEW new, Works(p, c, old, new)
  PROVE  /\ OneOwner' /\ TokensAreIssued' /\ StartsAreAlone' /\ StartsAreAsked'
         /\ StartsAreOwned' /\ OneIsAwaited' /\ WaitsAreDue' /\ HoldersOwn' /\ LeasesReturn'
         /\ NothingWithoutRecord' /\ HistoryIsReviewed'
<1> USE WorksOn
<1>1. UNCHANGED <<row, owners, target, aborted, lost, bound, tokens>>
  OBVIOUS
<1>2. OneOwner' /\ NothingWithoutRecord' /\ HistoryIsReviewed'
  BY <1>1 DEF RunInvariant, OneOwner, NothingWithoutRecord, HistoryIsReviewed
<1>3. client[p].token \in 1 .. tokens /\ client[p].token # 0 /\ client[p].token \in 0 .. tokens
  OBVIOUS
<1>4. TokensAreIssued'
  BY <1>1, <1>3 DEF RunInvariant, TokensAreIssued
<1>5. StartsAreAlone'
  <2>1. Apart(p, old, new)
    BY DEF Apart, RunInvariant, StartsAreAsked
  <2>2. new \in SUBSET Call /\ Exchange(p, old, new)
    BY DEF Works
  <2> QED BY <2>1, <2>2, AloneStep DEF RunInvariant
<1>6. StartsAreAsked'
  BY DEF RunInvariant, StartsAreAsked
<1>7. StartsAreOwned'
  BY <1>1 DEF RunInvariant, StartsAreOwned
<1>8. OneIsAwaited'
  <2>1. \A q \in Processes : q # p => Awaited(q)' = Awaited(q) /\ client'[q] = client[q]
    BY DEF Awaited
  <2>2. \A x, y \in Awaited(p)' : x = y /\ x.token = c.token
    BY OnlyOneAwaited
  <2> QED BY <2>1, <2>2 DEF RunInvariant, OneIsAwaited
<1>9. WaitsAreDue'
  <2>1. ASSUME NEW q \in Processes, q # p
        PROVE  Awaited(q)' = Awaited(q) /\ client'[q] = client[q] /\ net'[q] = net[q]
    BY <2>1 DEF Awaited
  <2>2. ASSUME NEW x \in Awaited(p)'
        PROVE  /\ x.kind \notin Starts /\ x.kind # "release" /\ c.pc \in Journaling
               /\ c.pc # "finishing" /\ x.kind = "save" => x.boundary # "finished"
    <3>1. CASE x \in new
      BY <3>1
    <3>2. CASE x \in Awaited(p) /\ c.pc = "stopping" /\ client[p].pc \in Journaling
      BY <3>2 DEF RunInvariant, WaitsAreDue, Journaling
    <3> QED BY <2>2, <3>1, <3>2
  <2>3. \A x \in net'[p] : x.token = c.token => x.reply = "awaited"
    OBVIOUS
  <2> QED BY <1>3, <2>1, <2>2, <2>3 DEF RunInvariant, WaitsAreDue
<1>10. HoldersOwn'
  <2>1. \A q \in Processes : q # p => ~Holds(q)
    BY HolderOwns
  <2>2. \A q \in Processes : q # p => ~Holds(q)'
    BY <2>1 DEF Holds, Awaited
  <2> QED BY <1>1, <2>2, HolderOwns DEF HoldersOwn
<1>11. LeasesReturn'
  <2> SUFFICES ASSUME "reload" \notin lost
               PROVE  \A q \in Processes :
                        /\ \A x \in net'[q] : x.kind \in Starts => x.reply # "lost"
                        /\ owners'[q] # NoOwner =>
                             \/ client'[q].pc \in Live /\ client'[q].token = owners'[q].token
                             \/ \E x \in net'[q] : x.token = owners'[q].token /\ GivesBack(x)
    BY <1>1 DEF LeasesReturn
  <2>1. \A q \in Processes : \A x \in net'[q] : x.kind \in Starts => x.reply # "lost"
    BY DEF RunInvariant, LeasesReturn
  <2>2. \A q \in Processes : owners'[q] # NoOwner => q = p
    BY <1>1, HolderOwns
  <2>3. client'[p].pc \in Live /\ client'[p].token = owners'[p].token
    BY <1>1, HolderOwns
  <2> QED BY <2>1, <2>2, <2>3
<1> QED BY <1>2, <1>4, <1>5, <1>6, <1>7, <1>8, <1>9, <1>10, <1>11

(* A step of work that dispatches nothing keeps the invariant if what it takes *)
(* over and sends is true, and a step about to be dispatched is a new one.     *)
LEMMA WorkStep ==
  ASSUME RunInvariant, NEW p \in Processes, NEW c, NEW old, NEW new, Works(p, c, old, new),
         UNCHANGED <<ran, life>>, intent' \in [Steps -> Target],
         Truthful(c.steps), \A x \in new : x.kind = "save" => Truthful(x.steps),
         \A x \in new : x.kind = "save" /\ Dispatching(x) => x.step \in Steps,
         c.pc \in {"prepared", "approval", "predispatch"} => c.step \in Steps /\ ran[c.step] = "no",
         c.pc = "predispatch" =>
           /\ c.steps[c.step] = "unknown"
           /\ \A x \in new : /\ x.kind = "save" /\ x.boundary = "before-dispatch"
                             /\ x.step = c.step /\ x.steps = c.steps
  PROVE  RunInvariant'
<1> USE WorksOn
<1>1. UNCHANGED <<row, owners, target, aborted, lost, bound, tokens, ran, life>>
  BY DEF Works
<1>2. Typed'
  BY <1>1 DEF RunInvariant, Typed
<1>3. CopiesAreTrue'
  <2>1. \A q \in Processes : q # p => ~Holds(q)' /\ owners[q].token = 0
    <3>1. \A q \in Processes : q # p => ~Holds(q) /\ owners[q] = NoOwner
      BY HolderOwns
    <3> QED BY <3>1 DEF Holds, Awaited, NoOwner
  <2>2. \A q \in Processes : \A x \in net'[q] :
          x.kind = "save" /\ x.state = "sent" /\ x.token = owners[q].token => Truthful(x.steps)
    BY DEF RunInvariant, CopiesAreTrue
  <2>3. Truthful(row.steps)
    BY DEF RunInvariant, CopiesAreTrue
  <2> QED BY <1>1, <2>1, <2>2, <2>3 DEF CopiesAreTrue, Truthful, Happened
<1>4. StepsAreNamed'
  BY DEF RunInvariant, StepsAreNamed, Dispatching
<1>5. NextIsNew'
  <2>1. \A q \in Processes : q # p => Awaited(q)' = Awaited(q) /\ client'[q] = client[q]
    BY DEF Awaited
  <2>2. /\ c.pc = "predispatch" => Awaited(p)' = new
        /\ \A x \in new : x.state # "ok"
    OBVIOUS
  <2> QED BY <1>1, <2>1, <2>2 DEF RunInvariant, NextIsNew
<1>6. LivesAreOrdered'
  <2>1. \A q \in Processes : \A x \in net'[q] : x.kind \in {"recover", "reply"} => x \in net[q]
    BY DEF Starts
  <2> QED BY <1>1, <2>1 DEF RunInvariant, LivesAreOrdered
<1>7. ResolvedByLaterEvidence'
  BY <1>1 DEF RunInvariant, ResolvedByLaterEvidence
<1> QED BY <1>2, <1>3, <1>4, <1>5, <1>6, <1>7, WorksKeeps DEF RunInvariant

LEMMA SavesStep ==
  ASSUME RunInvariant, NEW p \in Processes, NEW c \in Loop, NEW pc \in Journaling,
         NEW b \in Boundaries, NEW old,
         client[p].pc \in Live \ {"finishing"}, c.token = client[p].token,
         old \subseteq Awaited(p), Awaited(p) \subseteq old, Saves(p, c, pc, b, old),
         UNCHANGED <<row, owners, target, aborted, lost, bound, tokens, ran, life>>,
         intent' \in [Steps -> Target], Truthful(c.steps),
         pc # "finishing" => b # "finished",
         b \in {"prepared", "before-dispatch"} => c.step \in Steps,
         pc \in {"prepared", "predispatch"} => c.step \in Steps /\ ran[c.step] = "no",
         pc = "predispatch" => b = "before-dispatch" /\ c.steps[c.step] = "unknown"
  PROVE  RunInvariant'
<1> DEFINE d == [c EXCEPT !.pc = pc]
           n == SaveCall(c, b)
<1>1. /\ d \in Loop /\ d.pc = pc /\ d.token = c.token /\ d.steps = c.steps /\ d.step = c.step
      /\ pc \in Live /\ pc # "approval"
  BY DEF Loop, Live, Journaling
<1>2. /\ n \in Call /\ n.kind = "save" /\ n.token = c.token /\ n.boundary = b
      /\ n.steps = c.steps /\ n.reply = "awaited" /\ n.state = "sent"
      /\ b \in {"prepared", "before-dispatch"} => n.step = c.step
  BY NewSave
<1>3. client' = [client EXCEPT ![p] = d] /\ Exchange(p, old, {n})
  BY DEF Saves, Goes, Exchange
<1> HIDE DEF d, n
<1>4. Works(p, d, old, {n})
  BY <1>1, <1>2, <1>3 DEF Works
<1>5. /\ \A x \in {n} : x.kind = "save" => Truthful(x.steps)
      /\ \A x \in {n} : x.kind = "save" /\ Dispatching(x) => x.step \in Steps
      /\ d.pc \in {"prepared", "approval", "predispatch"} => d.step \in Steps /\ ran[d.step] = "no"
      /\ Truthful(d.steps)
  BY <1>1, <1>2 DEF Dispatching
<1>6. d.pc = "predispatch" =>
           /\ d.steps[d.step] = "unknown"
           /\ \A x \in {n} : /\ x.kind = "save" /\ x.boundary = "before-dispatch"
                             /\ x.step = d.step /\ x.steps = d.steps
  BY <1>1, <1>2
<1> QED BY <1>4, <1>5, <1>6, WorkStep

(* The last save of a run.                                                    *)
LEMMA FinishesStep ==
  ASSUME RunInvariant, NEW p \in Processes, NEW c \in Loop, NEW status \in Statuses, NEW old,
         client[p].pc \in Live \ {"finishing"}, c.token = client[p].token,
         old \subseteq Awaited(p), Awaited(p) \subseteq old, Finishes(p, c, status, old),
         UNCHANGED <<row, owners, target, aborted, lost, bound, tokens, ran, life>>,
         intent' \in [Steps -> Target], Truthful(c.steps)
  PROVE  RunInvariant'
<1> DEFINE d == [c EXCEPT !.status = status]
<1>1. d \in Loop /\ d.token = c.token /\ d.steps = c.steps
  BY DEF Loop
<1>2. Saves(p, d, "finishing", "finished", old) /\ "finishing" \in Journaling /\ "finished" \in Boundaries
  BY DEF Finishes, Journaling, Boundaries
<1> HIDE DEF d
<1> QED BY <1>1, <1>2, SavesStep

(* What the working window knows, and what no window changes.                 *)
LEMMA Working ==
  ASSUME RunInvariant, NEW p \in Processes
  PROVE  /\ client[p] \in Loop /\ client[p].steps \in [Steps -> Effects]
         /\ intent \in [Steps -> Target] /\ target[p] \in Target
         /\ client[p].pc \in Live \ {"finishing"} => Truthful(client[p].steps)
BY DEF RunInvariant, Typed, CopiesAreTrue, Holds, Loop

LEMMA ProposeStep ==
  ASSUME RunInvariant, NEW p \in Processes, Propose(p)
  PROVE  RunInvariant'
<1>1. /\ client[p].pc = "model" /\ UNCHANGED <<row, owners, target, aborted, lost, bound, tokens, ran, life>>
  BY DEF Propose, quiet
<1>2. PICK s \in bound.steps :
        LET c == [client[p] EXCEPT !.step = s, !.steps[s] = "none"] IN
        /\ FreshStep(client[p], s)
        /\ intent' = [intent EXCEPT ![s] = target[p]]
        /\ \/ Saves(p, c, "prepared", "prepared", {})
           \/ Saves(p, [c EXCEPT !.steps[s] = "unknown"], "predispatch", "before-dispatch", {})
  BY DEF Propose
<1> DEFINE c == [client[p] EXCEPT !.step = s, !.steps[s] = "none"]
           d == [c EXCEPT !.steps[s] = "unknown"]
<1>3. s \in Steps
  BY ToolAssumption DEF ToolAssumption, Bound, RunInvariant, Typed
<1>4. Awaited(p) = {} /\ client[p].pc \in Live \ {"finishing"}
  BY <1>1, NothingAwaited DEF Live
<1>5. /\ c \in Loop /\ c.step = s /\ c.token = client[p].token
      /\ c.steps = [client[p].steps EXCEPT ![s] = "none"]
  <2>1. [client[p].steps EXCEPT ![s] = "none"] \in [Steps -> Effects]
    BY Working DEF Effects
  <2>2. c = [[client[p] EXCEPT !.step = s] EXCEPT !.steps = [client[p].steps EXCEPT ![s] = "none"]]
    BY Working DEF Loop
  <2> QED BY <1>3, <2>1, <2>2, Working DEF Loop
<1> HIDE DEF c
<1>6. /\ d \in Loop /\ d.step = s /\ d.token = client[p].token
      /\ d.steps = [client[p].steps EXCEPT ![s] = "unknown"]
  <2>1. [c.steps EXCEPT ![s] = "unknown"] \in [Steps -> Effects]
    BY <1>5, Working DEF Effects
  <2>2. d = [c EXCEPT !.steps = [c.steps EXCEPT ![s] = "unknown"]]
    BY <1>5 DEF Loop
  <2>3. [c.steps EXCEPT ![s] = "unknown"] = [client[p].steps EXCEPT ![s] = "unknown"]
    BY <1>5, Working
  <2> QED BY <1>5, <2>1, <2>2, <2>3 DEF Loop
<1> HIDE DEF d
<1>7. /\ ran[s] = "no" /\ Truthful(c.steps) /\ Truthful(d.steps) /\ d.steps[d.step] = "unknown"
  BY <1>2, <1>3, <1>4, <1>5, <1>6, Working DEF FreshStep, Truthful, Happened
<1>8. intent' \in [Steps -> Target]
  BY <1>2, Working
<1>9. /\ {"prepared", "predispatch"} \subseteq Journaling
      /\ {"prepared", "before-dispatch"} \subseteq Boundaries
      /\ {} \subseteq Awaited(p) /\ Awaited(p) \subseteq {}
  BY <1>4 DEF Journaling, Boundaries
<1>10. CASE Saves(p, c, "prepared", "prepared", {})
  BY <1>1, <1>3, <1>4, <1>5, <1>7, <1>8, <1>9, <1>10, SavesStep
<1>11. CASE Saves(p, d, "predispatch", "before-dispatch", {})
  BY <1>1, <1>3, <1>4, <1>6, <1>7, <1>8, <1>9, <1>11, SavesStep
<1> QED BY <1>2, <1>10, <1>11 DEF c, d

(* The loop after the journal was told what became of its step.               *)
LEMMA Marked ==
  ASSUME RunInvariant, NEW p \in Processes, NEW v \in Effects
  PROVE  LET c == [client[p] EXCEPT !.steps[client[p].step] = v]
         IN  /\ c \in Loop /\ c.step = client[p].step /\ c.token = client[p].token
             /\ c.steps = [client[p].steps EXCEPT ![client[p].step] = v]
<1>1. [client[p].steps EXCEPT ![client[p].step] = v] \in [Steps -> Effects]
  BY Working
<1>2. [client[p] EXCEPT !.steps[client[p].step] = v]
        = [client[p] EXCEPT !.steps = [client[p].steps EXCEPT ![client[p].step] = v]]
  BY Working DEF Loop
<1> QED BY <1>1, <1>2, Working DEF Loop

LEMMA ConcludeStep ==
  ASSUME RunInvariant, NEW p \in Processes, Conclude(p)
  PROVE  RunInvariant'
<1>1. /\ client[p].pc = "model" /\ client[p].pc \in Live \ {"finishing"}
      /\ UNCHANGED <<row, owners, target, aborted, lost, bound, tokens, ran, life>>
      /\ intent' = intent /\ Awaited(p) = {}
      /\ \/ Saves(p, client[p], "reviewing", "progress", {})
         \/ \E status \in {"done", "waiting", "stopped"} : Finishes(p, client[p], status, {})
  BY NothingAwaited DEF Conclude, quiet, unsent, Live
<1>2. /\ "reviewing" \in Journaling /\ "progress" \in Boundaries
      /\ {"done", "waiting", "stopped"} \subseteq Statuses
      /\ {} \subseteq Awaited(p) /\ Awaited(p) \subseteq {}
  BY <1>1 DEF Journaling, Boundaries, Statuses
<1>3. /\ client[p] \in Loop /\ intent' \in [Steps -> Target]
      /\ Truthful(client[p].steps)
  BY <1>1, Working
<1>4. CASE Saves(p, client[p], "reviewing", "progress", {})
  BY <1>1, <1>2, <1>3, <1>4, SavesStep
<1>5. ASSUME NEW status \in {"done", "waiting", "stopped"}, Finishes(p, client[p], status, {})
      PROVE  RunInvariant'
  BY <1>1, <1>2, <1>3, <1>5, FinishesStep
<1> QED BY <1>1, <1>4, <1>5

LEMMA ApprovalStep ==
  ASSUME RunInvariant, NEW p \in Processes, Approve(p) \/ Skip(p)
  PROVE  RunInvariant'
<1>1. /\ client[p].pc = "approval" /\ client[p].pc \in Live \ {"finishing"}
      /\ UNCHANGED <<row, owners, target, aborted, lost, bound, tokens, ran, life>>
      /\ intent' = intent /\ Awaited(p) = {}
  BY NothingAwaited DEF Approve, Skip, quiet, unsent, Live
<1>2. /\ {"result", "predispatch"} \subseteq Journaling
      /\ {"result", "before-dispatch"} \subseteq Boundaries
      /\ {} \subseteq Awaited(p) /\ Awaited(p) \subseteq {}
  BY <1>1 DEF Journaling, Boundaries
<1>3. /\ client[p] \in Loop /\ intent' \in [Steps -> Target]
      /\ Truthful(client[p].steps)
      /\ client[p].step \in Steps /\ ran[client[p].step] = "no"
  BY <1>1, Working DEF RunInvariant, NextIsNew
<1>4. CASE Skip(p)
  <2>1. Saves(p, client[p], "result", "result", {})
    BY <1>4 DEF Skip
  <2> QED BY <1>1, <1>2, <1>3, <2>1, SavesStep
<1>5. CASE Approve(p)
  <2> DEFINE c == [client[p] EXCEPT !.steps[client[p].step] = "unknown"]
  <2>1. Saves(p, c, "predispatch", "before-dispatch", {})
    BY <1>5 DEF Approve
  <2>2. /\ c \in Loop /\ c.step = client[p].step /\ c.token = client[p].token
        /\ c.steps = [client[p].steps EXCEPT ![client[p].step] = "unknown"]
    BY Marked DEF Effects
  <2> HIDE DEF c
  <2>3. Truthful(c.steps) /\ c.steps[c.step] = "unknown"
    BY <1>3, <2>2, Working DEF Truthful, Happened
  <2> QED BY <1>1, <1>2, <1>3, <2>1, <2>2, <2>3, SavesStep
<1> QED BY <1>4, <1>5

LEMMA ReviewStep ==
  ASSUME RunInvariant, NEW p \in Processes, Review(p)
  PROVE  RunInvariant'
<1>1. /\ client[p].pc = "review" /\ client[p].pc \in Live \ {"finishing"}
      /\ UNCHANGED <<row, owners, target, aborted, lost, bound, tokens, ran, life>>
      /\ intent' = intent /\ Awaited(p) = {}
  BY NothingAwaited DEF Review, quiet, unsent, Live
<1>2. /\ "progress" \in Journaling /\ "progress" \in Boundaries
      /\ {} \subseteq Awaited(p) /\ Awaited(p) \subseteq {}
  BY <1>1 DEF Journaling, Boundaries
<1>3. /\ client[p] \in Loop /\ intent' \in [Steps -> Target] /\ Truthful(client[p].steps)
  BY <1>1, Working
<1>4. CASE Saves(p, client[p], "progress", "progress", {})
  BY <1>1, <1>2, <1>3, <1>4, SavesStep
<1>5. ASSUME NEW x \in SUBSET [step : row.required, by : {t \in Steps : Citable(client[p], t)}],
             Goes(p, [client[p] EXCEPT !.pc = "confirming"], {},
                  {[kind |-> "confirm", token |-> client[p].token, seq |-> client[p].seq,
                    at |-> target[p], resolutions |-> x, reply |-> "awaited", state |-> "sent"]})
      PROVE  RunInvariant'
  <2> DEFINE n == [kind |-> "confirm", token |-> client[p].token, seq |-> client[p].seq,
                   at |-> target[p], resolutions |-> x, reply |-> "awaited", state |-> "sent"]
             d == [client[p] EXCEPT !.pc = "confirming"]
  <2>1. x \in SUBSET [step : Steps, by : Steps]
    <3>1. row.required \subseteq Steps
      BY <1>1, HolderOwns DEF Holds, RunInvariant, Typed, Row
    <3> QED BY <1>5, <3>1
  <2>2. n \in Call /\ n.kind = "confirm" /\ n.token = client[p].token /\ n.reply = "awaited"
        /\ n.state = "sent"
    BY <1>3, <2>1, Working DEF Call, Loop, Replies, States
  <2>3. /\ d \in Loop /\ d.pc = "confirming" /\ d.token = client[p].token
        /\ d.steps = client[p].steps /\ "confirming" \in Live /\ "confirming" \in Journaling
    BY <1>3 DEF Loop, Live, Journaling
  <2>4. client' = [client EXCEPT ![p] = d] /\ Exchange(p, {}, {n})
    BY <1>5 DEF Goes, Exchange
  <2> HIDE DEF n, d
  <2>5. Works(p, d, {}, {n})
    BY <1>1, <1>2, <2>2, <2>3, <2>4 DEF Works
  <2>6. Truthful(d.steps) /\ n.kind # "save"
    BY <1>3, <2>2, <2>3
  <2> QED BY <1>1, <1>3, <2>3, <2>5, <2>6, WorkStep
<1> QED BY <1>4, <1>5 DEF Review

(* The answers to the journal's calls.                                        *)
LEMMA AnsweredSteps ==
  ASSUME RunInvariant, NEW p \in Processes,
         Saved(p) \/ Confirmed(p) \/ SavedStopping(p)
  PROVE  RunInvariant'
<1>1. /\ client[p].pc \in Live \ {"finishing"}
      /\ UNCHANGED <<row, owners, target, aborted, lost, bound, tokens, ran, life>>
      /\ intent' = intent
  BY DEF Saved, Confirmed, SavedStopping, AfterSave, quiet, unsent, Live, Journaling
<1>2. /\ client[p] \in Loop /\ client[p].seq + 1 \in Nat
      /\ intent' \in [Steps -> Target] /\ Truthful(client[p].steps)
  BY <1>1, Working DEF Loop
<1>3. /\ "progress" \in Journaling /\ "progress" \in Boundaries /\ "stopped" \in Statuses
      /\ "continuing" \in Phases
  BY DEF Journaling, Boundaries, Statuses, Phases
<1>4. CASE Saved(p)
  <2> DEFINE d == [client[p] EXCEPT !.seq = @ + 1, !.pc = AfterSave[@]]
  <2>1. PICK r \in Acknowledged(p, "save") : Goes(p, d, {r}, {})
    BY <1>4 DEF Saved
  <2>2. r \in Awaited(p) /\ Awaited(p) = {r}
    BY OnlyOneAwaited DEF Acknowledged
  <2>3. /\ client[p].pc \in {"progress", "prepared", "observing", "result", "reviewing"}
        /\ AfterSave[client[p].pc] \in {"model", "approval", "running", "review"}
        /\ AfterSave[client[p].pc] = "approval" => client[p].pc = "prepared"
    BY <1>4 DEF Saved, AfterSave
  <2>4. /\ d \in Loop /\ d.pc = AfterSave[client[p].pc] /\ d.token = client[p].token
        /\ d.steps = client[p].steps /\ d.step = client[p].step
    BY <1>2, <2>3 DEF Loop, Live
  <2>5. client' = [client EXCEPT ![p] = d] /\ Exchange(p, {r}, {})
    BY <2>1 DEF Goes, Exchange
  <2> HIDE DEF d
  <2>6. d.pc \in Live /\ d.pc # "predispatch"
    BY <2>3, <2>4 DEF Live
  <2>7. Works(p, d, {r}, {})
    BY <1>1, <2>2, <2>4, <2>5, <2>6 DEF Works
  <2>8. d.pc \in {"prepared", "approval", "predispatch"} => d.step \in Steps /\ ran[d.step] = "no"
    BY <2>3, <2>4 DEF RunInvariant, NextIsNew
  <2>9. Truthful(d.steps)
    BY <1>2, <2>4
  <2> QED BY <1>1, <1>2, <2>6, <2>7, <2>8, <2>9, WorkStep
<1>5. CASE Confirmed(p)
  <2> DEFINE c == [client[p] EXCEPT !.seq = @ + 1, !.phase = "continuing"]
  <2>1. PICK r \in Acknowledged(p, "confirm") : Saves(p, c, "progress", "progress", {r})
    BY <1>5 DEF Confirmed
  <2>2. r \in Awaited(p) /\ Awaited(p) \subseteq {r} /\ {r} \subseteq Awaited(p)
    BY OnlyOneAwaited DEF Acknowledged
  <2>3. c \in Loop /\ c.token = client[p].token /\ c.steps = client[p].steps
    BY <1>2, <1>3 DEF Loop
  <2> HIDE DEF c
  <2>4. Truthful(c.steps)
    BY <1>2, <2>3
  <2> QED BY <1>1, <1>2, <1>3, <2>1, <2>2, <2>3, <2>4, SavesStep
<1>6. CASE SavedStopping(p)
  <2> DEFINE c == [client[p] EXCEPT !.seq = @ + 1]
  <2>1. PICK r \in Awaited(p) : Finishes(p, c, "stopped", {r})
    BY <1>6 DEF SavedStopping
  <2>2. r \in Awaited(p) /\ Awaited(p) \subseteq {r} /\ {r} \subseteq Awaited(p)
    BY OnlyOneAwaited
  <2>3. c \in Loop /\ c.token = client[p].token /\ c.steps = client[p].steps
    BY <1>2 DEF Loop
  <2> HIDE DEF c
  <2>4. Truthful(c.steps)
    BY <1>2, <2>3
  <2> QED BY <1>1, <1>2, <1>3, <2>1, <2>2, <2>3, <2>4, FinishesStep
<1> QED BY <1>4, <1>5, <1>6

LEMMA ObserveStep ==
  ASSUME RunInvariant, NEW p \in Processes, Observe(p)
  PROVE  RunInvariant'
<1>1. /\ client[p].pc = "dispatch" /\ client[p].pc \in Live \ {"finishing"}
      /\ UNCHANGED <<row, owners, target, aborted, lost, bound, tokens, ran, life>>
      /\ intent' = intent /\ Awaited(p) = {}
  BY NothingAwaited DEF Observe, quiet, unsent, Live
<1>2. /\ "observing" \in Journaling /\ "observing" \in Boundaries
      /\ {} \subseteq Awaited(p) /\ Awaited(p) \subseteq {}
  BY <1>1 DEF Journaling, Boundaries
<1>3. /\ client[p] \in Loop /\ intent' \in [Steps -> Target] /\ Truthful(client[p].steps)
  BY <1>1, Working
<1>4. CASE Saves(p, client[p], "observing", "observing", {})
  BY <1>1, <1>2, <1>3, <1>4, SavesStep
<1>5. CASE Goes(p, [client[p] EXCEPT !.pc = "running"], {}, {})
  <2> DEFINE d == [client[p] EXCEPT !.pc = "running"]
  <2>1. /\ d \in Loop /\ d.pc = "running" /\ d.token = client[p].token
        /\ d.steps = client[p].steps /\ "running" \in Live
    BY <1>3 DEF Loop, Live
  <2>2. client' = [client EXCEPT ![p] = d] /\ Exchange(p, {}, {})
    BY <1>5 DEF Goes, Exchange
  <2> HIDE DEF d
  <2>3. Works(p, d, {}, {})
    BY <1>1, <1>2, <2>1, <2>2 DEF Works
  <2>4. Truthful(d.steps)
    BY <1>3, <2>1
  <2> QED BY <1>1, <1>3, <2>1, <2>3, <2>4, WorkStep
<1> QED BY <1>4, <1>5 DEF Observe

(* What became of the running step.                                           *)
LEMMA EndedSteps ==
  ASSUME RunInvariant, NEW p \in Processes, Ended(p) \/ NotStarted(p) \/ Unconfirmed(p)
  PROVE  RunInvariant'
<1>1. /\ client[p].pc = "running" /\ client[p].pc \in Live \ {"finishing"}
      /\ UNCHANGED <<row, owners, target, aborted, lost, bound, tokens, ran, life>>
      /\ intent' = intent /\ Awaited(p) = {}
  BY NothingAwaited DEF Ended, NotStarted, Unconfirmed, quiet, unsent, Live
<1>2. /\ "result" \in Journaling /\ "result" \in Boundaries /\ "stopped" \in Statuses
      /\ {} \subseteq Awaited(p) /\ Awaited(p) \subseteq {}
  BY <1>1 DEF Journaling, Boundaries, Statuses
<1>3. /\ client[p] \in Loop /\ intent' \in [Steps -> Target] /\ Truthful(client[p].steps)
  BY <1>1, Working
<1> DEFINE marked(v) == [client[p] EXCEPT !.steps[client[p].step] = v]
<1>4. ASSUME NEW v \in Effects
      PROVE  /\ marked(v) \in Loop /\ marked(v).token = client[p].token
             /\ marked(v).steps = [client[p].steps EXCEPT ![client[p].step] = v]
  BY Marked
<1>5. {"known", "none"} \subseteq Effects
  BY DEF Effects
<1> HIDE DEF marked
<1>6. CASE Ended(p)
  <2>1. Saves(p, marked("known"), "result", "result", {})
    BY <1>6 DEF Ended, marked
  <2>2. \A s \in Steps : marked("known").steps[s] = IF s = client[p].step THEN "known"
                                                    ELSE client[p].steps[s]
    BY <1>4, <1>5, Working
  <2>3. ran[client[p].step] = "over"
    BY <1>6 DEF Ended
  <2>4. Truthful(marked("known").steps)
    BY <1>3, <2>2, <2>3 DEF Truthful, Happened
  <2> QED BY <1>1, <1>2, <1>3, <1>4, <1>5, <2>1, <2>4, SavesStep
<1>7. CASE NotStarted(p)
  <2>1. Tool[client[p].step] # "edit" => Truthful(marked("none").steps)
    BY <1>3, <1>4, <1>5, <1>7, Working, ZenonT(40) DEF NotStarted, Truthful, Happened
  <2>2. \/ Tool[client[p].step] = "read" /\ Saves(p, marked("none"), "result", "result", {})
        \/ Finishes(p, client[p], "stopped", {})
        \/ Tool[client[p].step] # "edit" /\ Finishes(p, marked("none"), "stopped", {})
    BY <1>7 DEF NotStarted, marked
  <2>3. CASE Tool[client[p].step] = "read" /\ Saves(p, marked("none"), "result", "result", {})
    BY <1>1, <1>2, <1>3, <1>4, <1>5, <2>1, <2>3, SavesStep
  <2>4. CASE Finishes(p, client[p], "stopped", {})
    BY <1>1, <1>2, <1>3, <2>4, FinishesStep
  <2>5. CASE Tool[client[p].step] # "edit" /\ Finishes(p, marked("none"), "stopped", {})
    BY <1>1, <1>2, <1>3, <1>4, <1>5, <2>1, <2>5, FinishesStep
  <2> QED BY <2>2, <2>3, <2>4, <2>5
<1>8. CASE Unconfirmed(p)
  <2>1. Finishes(p, client[p], "stopped", {})
    BY <1>8 DEF Unconfirmed
  <2> QED BY <1>1, <1>2, <1>3, <2>1, FinishesStep
<1> QED BY <1>6, <1>7, <1>8

LEMMA StopStep ==
  ASSUME RunInvariant, NEW p \in Processes, Stop(p)
  PROVE  RunInvariant'
<1>1. /\ client[p].pc \in Live \ {"finishing"}
      /\ UNCHANGED <<row, owners, target, aborted, lost, bound, tokens, ran, life>>
      /\ intent' = intent
  BY Working DEF Stop, Settling, quiet, unsent, Loop
<1>2. /\ client[p] \in Loop /\ intent' \in [Steps -> Target] /\ Truthful(client[p].steps)
  BY <1>1, Working
<1>3. CASE client[p].pc \in Journaling /\ Goes(p, [client[p] EXCEPT !.pc = "stopping"], {}, {})
  <2> DEFINE d == [client[p] EXCEPT !.pc = "stopping"]
  <2>1. /\ d \in Loop /\ d.pc = "stopping" /\ d.token = client[p].token
        /\ d.steps = client[p].steps /\ "stopping" \in Live
    BY <1>2 DEF Loop, Live, Journaling
  <2>2. client' = [client EXCEPT ![p] = d] /\ Exchange(p, {}, {})
    BY <1>3 DEF Goes, Exchange
  <2> HIDE DEF d
  <2>3. Works(p, d, {}, {})
    BY <1>1, <1>3, <2>1, <2>2 DEF Works
  <2>4. Truthful(d.steps)
    BY <1>2, <2>1
  <2> QED BY <1>1, <1>2, <2>1, <2>3, <2>4, WorkStep
<1>4. CASE client[p].pc \notin Journaling /\ Finishes(p, client[p], "stopped", {})
  <2>1. client[p].pc \in {"model", "approval", "review", "dispatch", "running"}
    BY <1>1, <1>4 DEF Live
  <2>2. Awaited(p) = {} /\ {} \subseteq Awaited(p) /\ Awaited(p) \subseteq {}
    BY <2>1, NothingAwaited
  <2>3. "stopped" \in Statuses
    BY DEF Statuses
  <2> QED BY <1>1, <1>2, <1>4, <2>2, <2>3, FinishesStep
<1> QED BY <1>3, <1>4 DEF Stop

(* What is dispatched is on record, is no history, and is its owner's.         *)
LEMMA Dispatched ==
  ASSUME RunInvariant, NEW p \in Processes, SavedDispatch(p)
  PROVE  /\ client[p].pc = "predispatch" /\ Holds(p) /\ row # NoRow /\ row \in Row
         /\ client[p].step \in Steps /\ ran[client[p].step] = "no"
         /\ client[p].steps[client[p].step] = "unknown"
         /\ row.steps[client[p].step] = "unknown" /\ client[p].step \notin row.source
         /\ Tool[client[p].step] \in {"change", "edit"} => row.phase # "inspecting"
         /\ ran' = [ran EXCEPT ![client[p].step] = "asked"]
         /\ life' = [life EXCEPT ![client[p].step] = client[p].token]
<1>1. PICK r \in Acknowledged(p, "save") : r \in SavedFirst(p)
  BY DEF SavedDispatch, SavedFirst
<1>2. /\ client[p].pc = "predispatch"
      /\ ran' = [ran EXCEPT ![client[p].step] = "asked"]
      /\ life' = [life EXCEPT ![client[p].step] = client[p].token]
  BY DEF SavedDispatch
<1>3. Holds(p)
  BY <1>2 DEF Holds, Live, Journaling
<1>4. row # NoRow /\ row \in Row
  BY <1>3, HolderOwns DEF RunInvariant, Typed
<1>5. r \in Awaited(p) /\ r.state = "ok"
  BY <1>1 DEF Acknowledged
<1>6. /\ client[p].step \in Steps /\ ran[client[p].step] = "no"
      /\ client[p].steps[client[p].step] = "unknown"
      /\ row.steps[client[p].step] = "unknown" /\ client[p].step \notin row.source
      /\ Tool[client[p].step] \in {"change", "edit"} => row.phase # "inspecting"
  BY <1>2, <1>5 DEF RunInvariant, NextIsNew
<1> QED BY <1>2, <1>3, <1>4, <1>6

LEMMA DispatchStep ==
  ASSUME RunInvariant, NEW p \in Processes, SavedDispatch(p)
  PROVE  RunInvariant'
<1> DEFINE step == client[p].step
           d == [client[p] EXCEPT !.seq = @ + 1, !.pc = "dispatch"]
<1>1. /\ client[p].pc = "predispatch" /\ row # NoRow /\ row \in Row
      /\ step \in Steps /\ ran[step] = "no"
      /\ row.steps[step] = "unknown" /\ step \notin row.source
      /\ ran' = [ran EXCEPT ![step] = "asked"] /\ life' = [life EXCEPT ![step] = client[p].token]
  BY Dispatched
<1>2. PICK r \in Awaited(p) : Goes(p, d, {r}, {})
  BY DEF SavedDispatch, SavedFirst, Acknowledged
<1>3. Awaited(p) = {r}
  BY OnlyOneAwaited
<1>4. /\ d \in Loop /\ d.pc = "dispatch" /\ d.token = client[p].token /\ d.steps = client[p].steps
      /\ "dispatch" \in Live /\ client[p].pc \in Live \ {"finishing"}
  <2>1. "dispatch" \in Live /\ client[p].pc \in Live \ {"finishing"}
    BY <1>1 DEF Live, Journaling
  <2>2. client[p] \in Loop /\ client[p].seq + 1 \in Nat
    BY Working DEF Loop
  <2> QED BY <2>1, <2>2 DEF Loop
<1>5. client' = [client EXCEPT ![p] = d] /\ Exchange(p, {r}, {})
  BY <1>2 DEF Goes, Exchange
<1>6. UNCHANGED <<row, owners, target, aborted, lost, bound, tokens, intent>>
  BY DEF SavedDispatch, quiet
<1> HIDE DEF d
<1>7. Works(p, d, {r}, {})
  BY <1>3, <1>4, <1>5, <1>6 DEF Works
<1>8. /\ client' \in [Processes -> Loop] /\ net' \in [Processes -> SUBSET Call]
      /\ client'[p] = d /\ net'[p] = net[p] \ {r}
      /\ \A q \in Processes : q # p => client'[q] = client[q] /\ net'[q] = net[q]
      /\ \A x \in net[p] : x.token = client[p].token => x.reply = "awaited"
      /\ client[p].token \in 1 .. tokens /\ Holds(p)
  BY <1>7, WorksOn
<1>9. /\ OneOwner' /\ TokensAreIssued' /\ StartsAreAlone' /\ StartsAreAsked'
      /\ StartsAreOwned' /\ OneIsAwaited' /\ WaitsAreDue' /\ HoldersOwn' /\ LeasesReturn'
      /\ HistoryIsReviewed'
  BY <1>7, WorksKeeps
<1>10. /\ owners[p].token = client[p].token
       /\ \A q \in Processes : q # p => owners[q] = NoOwner /\ ~Holds(q)
  BY <1>8, HolderOwns
<1>11. /\ ran' \in [Steps -> {"no", "asked", "sent", "over", "refused"}]
       /\ life' \in [Steps -> Nat]
       /\ ran'[step] = "asked" /\ life'[step] = owners[p].token
       /\ \A s \in Steps : s # step => ran'[s] = ran[s] /\ life'[s] = life[s]
  BY <1>1, <1>8, <1>10, Owned DEF RunInvariant, Typed
<1> HIDE DEF step
<1>12. Typed'
  BY <1>6, <1>8, <1>11 DEF RunInvariant, Typed
<1>13. NothingWithoutRecord' /\ StepsAreNamed'
  BY <1>1, <1>6, <1>8 DEF RunInvariant, NothingWithoutRecord, StepsAreNamed, Dispatching
<1>14. ASSUME NEW steps, Truthful(steps), steps[step] = "unknown"
       PROVE  /\ \A t \in Steps : steps[t] = "absent" => ran'[t] = "no"
              /\ \A t \in Steps : steps[t] = "known" => ran'[t] = "over"
              /\ \A t \in Happened' \ aborted' : steps[t] \in {"unknown", "known"}
  BY <1>1, <1>6, <1>11, <1>14 DEF Truthful, Happened
<1>15. CopiesAreTrue'
  <2>1. \A q \in Processes : q # p => ~Holds(q)' /\ owners[q].token = 0
    BY <1>8, <1>10 DEF Holds, Awaited, NoOwner
  <2>2. \A q \in Processes : \A x \in net'[q] :
          ~(x.kind = "save" /\ x.state = "sent" /\ x.token = owners[q].token)
    <3>1. \A x \in net[p] : x.token = owners[p].token => x \in Awaited(p)
      BY <1>8, <1>10 DEF Awaited
    <3>2. \A q \in Processes : \A x \in net[q] : x.token # 0
      BY DEF RunInvariant, TokensAreIssued
    <3> QED BY <1>3, <1>8, <2>1, <3>1, <3>2
  <2>3. Truthful(row.steps) /\ Truthful(client[p].steps)
    BY <1>1, <1>4, Working DEF RunInvariant, CopiesAreTrue
  <2>4. client[p].steps[step] = "unknown"
    BY Dispatched DEF step
  <2> QED BY <1>1, <1>4, <1>6, <1>8, <1>14, <2>1, <2>2, <2>3, <2>4 DEF CopiesAreTrue, Truthful
<1>16. NextIsNew'
  <2>1. \A q \in Processes : q # p => client'[q].pc \notin {"prepared", "approval", "predispatch"}
    BY <1>8, <1>10 DEF Holds, Live, Journaling
  <2> QED BY <1>4, <1>8, <2>1 DEF NextIsNew
<1>17. LivesAreOrdered'
  <2>1. owners[p] # NoOwner
    BY <1>8, HolderOwns
  <2>2. /\ \A s \in Steps : life'[s] \in 0 .. tokens /\ (ran'[s] = "no" => life'[s] = 0)
        /\ \A s \in Steps : ran[s] # "no" => ran'[s] # "no"
    BY <1>1, <1>8, <1>10, <1>11 DEF RunInvariant, LivesAreOrdered
  <2>3. \A a \in row.source : a \in Steps /\ a # step
    BY <1>1 DEF Row
  <2>4. /\ \A a \in row.source : life'[a] = life[a] /\ life[a] < owners[p].token
        /\ \A b \in Steps \ row.source : ran'[b] # "no" => life'[b] = owners[p].token
    BY <1>11, <2>1, <2>3 DEF RunInvariant, LivesAreOrdered
  <2>5. ASSUME NEW q \in Processes, NEW x \in net'[q], x.kind \in {"recover", "reply"},
               x.state = "sent"
        PROVE  /\ x.seq <= row.seq
               /\ x.seq = row.seq => \A s \in Steps : life'[s] < x.token
               /\ \A o \in Processes : x.token < owners[o].token => x.seq < row.seq
    <3>1. x \in net[q]
      BY <1>8
    <3>2. /\ x.seq <= row.seq
          /\ x.seq = row.seq => \A s \in Steps : life[s] < x.token
          /\ \A o \in Processes : x.token < owners[o].token => x.seq < row.seq
      BY <2>5, <3>1 DEF RunInvariant, LivesAreOrdered
    <3>3. owners[p].token # x.token
      BY <2>5, <3>1 DEF RunInvariant, StartsAreOwned, Starts
    <3>4. x.token \in Nat /\ owners[p].token \in Nat /\ x.seq \in Nat /\ row.seq \in Nat
      BY <1>1, <1>8, <1>10, <2>5, <3>1, CallFields DEF RunInvariant, Typed, Starts, Row
    <3>5. x.seq = row.seq => owners[p].token < x.token
      BY <3>2, <3>3, <3>4
    <3> QED BY <1>11, <3>2, <3>5
  <2>6. \A q \in Processes : owners'[q] # NoOwner => q = p
    BY <1>6, <1>10
  <2> QED BY <1>6, <2>2, <2>4, <2>5, <2>6 DEF LivesAreOrdered
<1>18. ResolvedByLaterEvidence'
  <2>1. row.resolved \subseteq [step : Steps, by : Steps]
    BY <1>1 DEF Row
  <2>2. ASSUME NEW x \in row.resolved
        PROVE  x.step # step /\ x.by # step
    <3>1. x.step \in row.source
      BY <1>1, <2>2 DEF RunInvariant, HistoryIsReviewed, Resolved
    <3>2. ran[x.by] = "over"
      BY <1>1, <2>2 DEF RunInvariant, ResolvedByLaterEvidence
    <3> QED BY <1>1, <3>1, <3>2
  <2> QED BY <1>1, <1>6, <1>11, <2>1, <2>2 DEF RunInvariant, ResolvedByLaterEvidence
<1> QED BY <1>9, <1>12, <1>13, <1>15, <1>16, <1>17, <1>18 DEF RunInvariant

-----------------------------------------------------------------------------
(* The window, while it comes by a lease and gives it back.                   *)

(* What is new among the calls, and in the loop, of a window that neither      *)
(* dispatches nor learns of a step.                                            *)
Passes(p, c, old, new) ==
  /\ c \in Loop /\ new \in SUBSET Call
  /\ client' = [client EXCEPT ![p] = c] /\ Exchange(p, old, new)
  /\ UNCHANGED <<row, owners, target, aborted, lost, bound, ran, intent, life>>
  /\ tokens' \in tokens .. bound.tokens
  /\ c.token \in 0 .. tokens' /\ (c.pc # "idle" => c.token # 0)
  /\ \A x \in new : x.token \in 1 .. tokens'

(* ... and what has to be true of it.                                          *)
NewLoop(p, c) ==
  /\ Holds(p)' => owners[p].token = c.token /\ Truthful(c.steps)
  /\ c.pc \in {"prepared", "approval", "predispatch"} =>
       c = client[p] /\ Awaited(p)' \subseteq Awaited(p)
  /\ \A r \in Awaited(p)' :
       /\ Awaited(p)' = {r} /\ r.token = c.token
       /\ r.kind \in Starts => c.pc = "starting"
       /\ r.kind \in {"save", "confirm"} => c.pc \in Journaling
       /\ r.kind = "release" => c.pc = "releasing"
       /\ c.pc # "idle"
       /\ c.pc # "finishing" /\ r.kind = "save" => r.boundary # "finished"
  /\ c.pc \in Live \cup {"starting"} =>
       \A r \in net'[p] : r.token = c.token => r.reply = "awaited"

NewCalls(p, c, old, new) ==
  /\ Apart(p, old, new)
  /\ \A q \in Processes : \A z \in net'[q] :
       z.kind \in Starts /\ z.token = c.token => q = p /\ c.pc = "starting"
  /\ \A x \in new :
       /\ x.kind = "save" /\ Dispatching(x) => x.step \in Steps
       /\ x.kind = "save" /\ x.state = "sent" /\ x.token = owners[p].token => Truthful(x.steps)
       /\ x.kind \in Starts =>
            /\ x.reply # "lost" /\ (row = NoRow => x.kind = "begin")
            /\ \A q \in Processes : q # p => client[q].token # x.token
            /\ x.state = "sent" => \A q \in Processes : owners[q].token # x.token
            /\ x.state = "ok" => owners[p].token = x.token
       /\ x.kind \in {"recover", "reply"} /\ x.state = "sent" =>
            /\ x.seq <= row.seq
            /\ x.seq = row.seq => \A s \in Steps : life[s] < x.token
            /\ \A q \in Processes : x.token < owners[q].token => x.seq < row.seq
  /\ "reload" \notin lost /\ owners[p] # NoOwner =>
       \/ c.pc \in Live /\ c.token = owners[p].token
       \/ \E r \in net'[p] : r.token = owners[p].token /\ GivesBack(r)

LEMMA PassesOn ==
  ASSUME RunInvariant, NEW p \in Processes, NEW c, NEW old, NEW new, Passes(p, c, old, new)
  PROVE  /\ client' \in [Processes -> Loop] /\ net' \in [Processes -> SUBSET Call]
         /\ client'[p] = c /\ net'[p] = (net[p] \ old) \cup new
         /\ \A q \in Processes : q # p => client'[q] = client[q] /\ net'[q] = net[q]
         /\ Awaited(p)' = (Awaited(p) \ old) \cup {x \in new : x.reply = "awaited"}
<1>1. new \in SUBSET Call /\ Exchange(p, old, new) /\ c \in Loop /\ client' = [client EXCEPT ![p] = c]
  BY DEF Passes
<1>2. /\ net' \in [Processes -> SUBSET Call] /\ net'[p] = (net[p] \ old) \cup new
      /\ \A q \in Processes : q # p => net'[q] = net[q]
  BY <1>1, Exchanged DEF RunInvariant
<1>3. /\ client' \in [Processes -> Loop] /\ client'[p] = c
      /\ \A q \in Processes : q # p => client'[q] = client[q]
  BY <1>1 DEF RunInvariant, Typed
<1>4. Awaited(p)' = (Awaited(p) \ old) \cup {x \in new : x.reply = "awaited"}
  BY <1>2 DEF Awaited
<1> QED BY <1>2, <1>3, <1>4

LEMMA PassesStep ==
  ASSUME RunInvariant, NEW p \in Processes, NEW c, NEW old, NEW new, Passes(p, c, old, new),
         NewLoop(p, c), NewCalls(p, c, old, new)
  PROVE  RunInvariant'
<1>1. /\ UNCHANGED <<row, owners, target, aborted, lost, bound, ran, intent, life>>
      /\ tokens' \in tokens .. bound.tokens
      /\ c.token \in 0 .. tokens' /\ (c.pc # "idle" => c.token # 0)
      /\ \A x \in new : x.token \in 1 .. tokens'
      /\ new \in SUBSET Call /\ Exchange(p, old, new)
  BY DEF Passes
<1>2. /\ client' \in [Processes -> Loop] /\ net' \in [Processes -> SUBSET Call]
      /\ client'[p] = c /\ net'[p] = (net[p] \ old) \cup new
      /\ \A q \in Processes : q # p => client'[q] = client[q] /\ net'[q] = net[q]
  BY PassesOn
<1>3. \A q \in Processes : q # p => Awaited(q)' = Awaited(q) /\ (Holds(q)' => Holds(q))
  BY <1>2 DEF Awaited, Holds
<1>4. tokens \in Nat /\ tokens' \in Nat /\ tokens <= tokens' /\ tokens' \in 0 .. bound.tokens
  BY <1>1, ToolAssumption DEF ToolAssumption, Bound, RunInvariant, Typed
<1>5. Typed'
  BY <1>1, <1>2, <1>4 DEF RunInvariant, Typed
<1>6. OneOwner' /\ HistoryIsReviewed' /\ ResolvedByLaterEvidence'
  BY <1>1 DEF RunInvariant, OneOwner, HistoryIsReviewed, ResolvedByLaterEvidence
<1>7. OneIsAwaited'
  BY <1>2, <1>3 DEF NewLoop, RunInvariant, OneIsAwaited
<1>8. TokensAreIssued'
  <2>1. ASSUME NEW t \in 0 .. tokens
        PROVE  t \in 0 .. tokens' /\ (t # 0 => t \in 1 .. tokens')
    BY <1>4
  <2>2. \A q \in Processes : owners[q] = NoOwner \/ owners[q].token \in 1 .. tokens'
    BY <1>4 DEF RunInvariant, TokensAreIssued
  <2>3. \A q \in Processes : /\ client'[q].token \in 0 .. tokens'
                             /\ client'[q].pc # "idle" => client'[q].token # 0
    BY <1>1, <1>2, <1>4 DEF RunInvariant, TokensAreIssued
  <2>4. \A q \in Processes : \A r \in net'[q] : r.token \in 1 .. tokens'
    BY <1>1, <1>2, <1>4 DEF RunInvariant, TokensAreIssued
  <2> QED BY <1>1, <2>2, <2>3, <2>4 DEF TokensAreIssued
<1>9. StartsAreAlone'
  BY <1>1, AloneStep DEF NewCalls, RunInvariant
<1>10. StartsAreAsked'
  <2> SUFFICES ASSUME NEW a \in Processes, NEW b \in Processes, NEW r \in net'[a],
                      r.kind \in Starts, client'[b].token = r.token
               PROVE  a = b /\ client'[a].pc = "starting"
    BY DEF StartsAreAsked
  <2>1. CASE b = p
    BY <1>2, <2>1 DEF NewCalls
  <2>2. CASE b # p
    <3>1. r \in net[a]
      BY <1>2, <2>2 DEF NewCalls
    <3> QED BY <1>2, <2>2, <3>1 DEF RunInvariant, StartsAreAsked
  <2> QED BY <2>1, <2>2
<1>11. StartsAreOwned'
  BY <1>1, <1>2 DEF NewCalls, RunInvariant, StartsAreOwned
<1>12. WaitsAreDue'
  BY <1>2, <1>3 DEF NewLoop, RunInvariant, WaitsAreDue
<1>13. HoldersOwn'
  BY <1>1, <1>2, <1>3 DEF NewLoop, RunInvariant, HoldersOwn
<1>14. LeasesReturn'
  BY <1>1, <1>2 DEF NewCalls, RunInvariant, LeasesReturn
<1>15. NothingWithoutRecord' /\ StepsAreNamed'
  BY <1>1, <1>2 DEF NewCalls, RunInvariant, NothingWithoutRecord, StepsAreNamed, Dispatching
<1>16. CopiesAreTrue'
  <2>1. \A q \in Processes : \A x \in net'[q] :
          x.kind = "save" /\ x.state = "sent" /\ x.token = owners[q].token => Truthful(x.steps)
    BY <1>2 DEF NewCalls, RunInvariant, CopiesAreTrue
  <2>2. \A q \in Processes : Holds(q)' => Truthful(client'[q].steps)
    BY <1>2, <1>3 DEF NewLoop, RunInvariant, CopiesAreTrue
  <2>3. row # NoRow => Truthful(row.steps)
    BY DEF RunInvariant, CopiesAreTrue
  <2> QED BY <1>1, <2>1, <2>2, <2>3 DEF CopiesAreTrue, Truthful, Happened
<1>17. NextIsNew'
  BY <1>1, <1>2, <1>3 DEF NewLoop, RunInvariant, NextIsNew
<1>18. LivesAreOrdered'
  <2>1. \A s \in Steps : life[s] \in 0 .. tokens' /\ (ran[s] = "no" => life[s] = 0)
    BY <1>4 DEF RunInvariant, LivesAreOrdered
  <2>2. ASSUME NEW q \in Processes, NEW x \in net'[q], x.kind \in {"recover", "reply"},
               x.state = "sent"
        PROVE  /\ x.seq <= row.seq
               /\ x.seq = row.seq => \A s \in Steps : life[s] < x.token
               /\ \A o \in Processes : x.token < owners[o].token => x.seq < row.seq
    BY <1>2, <2>2 DEF NewCalls, RunInvariant, LivesAreOrdered
  <2>3. LivesAreOrdered
    BY DEF RunInvariant
  <2> QED BY <1>1, <2>1, <2>2, <2>3 DEF LivesAreOrdered
<1> QED BY <1>5, <1>6, <1>7, <1>8, <1>9, <1>10, <1>11, <1>12, <1>13, <1>14, <1>15, <1>16,
           <1>17, <1>18 DEF RunInvariant

(* The call a window waits for is of the kind that is due.                    *)
LEMMA AwaitedKind ==
  ASSUME RunInvariant, NEW p \in Processes, NEW r \in Awaited(p)
  PROVE  /\ client[p].pc = "starting" => r.kind \in Starts
         /\ client[p].pc \in Journaling => r.kind \in {"save", "confirm"}
         /\ client[p].pc = "releasing" => r.kind = "release"
         /\ Awaited(p) = {r} /\ r \in net[p] /\ r \in Call /\ r.reply = "awaited"
         /\ r.token = client[p].token /\ r.token \in 1 .. tokens
<1>1. /\ Awaited(p) = {r} /\ r \in net[p] /\ r \in Call /\ r.reply = "awaited"
      /\ r.token = client[p].token
  BY OnlyOneAwaited
<1>2. r.kind \in Starts \cup {"save", "release", "confirm"}
  BY <1>1, CallFields
<1>3. r.token \in 1 .. tokens
  BY <1>1 DEF RunInvariant, TokensAreIssued
<1>4. /\ r.kind \in Starts => client[p].pc = "starting"
      /\ r.kind \in {"save", "confirm"} => client[p].pc \in Journaling
      /\ r.kind = "release" => client[p].pc = "releasing"
  BY DEF RunInvariant, WaitsAreDue
<1> QED BY <1>1, <1>2, <1>3, <1>4 DEF Journaling

(* What is not counted, and what each window has.                             *)
LEMMA Counted ==
  ASSUME RunInvariant, NEW p \in Processes
  PROVE  /\ tokens \in Nat /\ bound.tokens \in Nat /\ tokens \in tokens .. bound.tokens
         /\ client[p] \in Loop /\ client[p].token \in 0 .. tokens
         /\ owners[p].token \in 0 .. tokens
         /\ net[p] \subseteq Call /\ \A x \in net[p] : x.token \in 1 .. tokens /\ x.token # 0
<1>1. tokens \in Nat /\ bound.tokens \in Nat /\ owners[p].token \in 0 .. tokens
  BY Owned DEF RunInvariant
<1>2. tokens \in 0 .. bound.tokens
  BY DEF RunInvariant, Typed
<1>3. client[p] \in Loop /\ client[p].token \in 0 .. tokens
  BY DEF RunInvariant, Typed, TokensAreIssued
<1>4. net[p] \subseteq Call /\ \A x \in net[p] : x.token \in 1 .. tokens /\ x.token # 0
  BY DEF RunInvariant, Typed, TokensAreIssued
<1> QED BY <1>1, <1>2, <1>3, <1>4

LEMMA AskStep ==
  ASSUME RunInvariant, NEW p \in Processes, Ask(p)
  PROVE  RunInvariant'
<1>1. /\ client[p].pc = "idle" /\ tokens < bound.tokens /\ tokens' = tokens + 1
      /\ UNCHANGED <<row, owners, target, aborted, lost, bound, ran, intent, life>>
  BY DEF Ask, quiet
<1>2. PICK kind \in Starts :
        /\ kind = "begin" <=> row = NoRow
        /\ Goes(p, [Idle EXCEPT !.pc = "starting", !.token = tokens + 1], {}, {StartCall(p, kind)})
  BY DEF Ask, Starts
<1> DEFINE c == [Idle EXCEPT !.pc = "starting", !.token = tokens + 1]
           n == StartCall(p, kind)
<1>3. tokens + 1 \in Nat /\ tokens' \in tokens .. bound.tokens /\ tokens + 1 \in 1 .. tokens'
      /\ tokens \in Nat
  BY <1>1, Counted
<1>4. c \in Loop /\ c.pc = "starting" /\ c.token = tokens + 1
  BY <1>3, IdleLoops
<1>5. /\ n \in Call /\ n.kind = kind /\ n.token = tokens + 1 /\ n.reply = "awaited"
      /\ n.state = "sent" /\ (row # NoRow => n.seq = row.seq)
  BY NewStart DEF RunInvariant
<1>6. client' = [client EXCEPT ![p] = c] /\ Exchange(p, {}, {n})
  BY <1>2 DEF Goes, Exchange
<1> HIDE DEF c, n
<1>7. Passes(p, c, {}, {n})
  BY <1>1, <1>3, <1>4, <1>5, <1>6 DEF Passes
<1>8. /\ client'[p] = c /\ net'[p] = net[p] \cup {n}
      /\ \A q \in Processes : q # p => client'[q] = client[q] /\ net'[q] = net[q]
      /\ Awaited(p)' = {n}
  <2>1. Awaited(p) = {}
    BY <1>1, NothingAwaited
  <2> QED BY <1>5, <1>7, <2>1, PassesOn
<1>9. \A q \in Processes :
        /\ \A z \in net[q] : z.token # tokens + 1
        /\ client[q].token # tokens + 1 /\ owners[q].token # tokens + 1
        /\ ~(tokens + 1 < owners[q].token)
  BY <1>3, Counted
<1>10. NewLoop(p, c)
  <2>1. ~Holds(p)' /\ c.pc \notin {"prepared", "approval", "predispatch", "idle"}
    BY <1>4, <1>8 DEF Holds, Live, Journaling
  <2>2. \A r \in net'[p] : r.token = c.token => r.reply = "awaited"
    BY <1>4, <1>5, <1>8, <1>9
  <2> QED BY <1>2, <1>4, <1>5, <1>8, <2>1, <2>2 DEF NewLoop, Starts
<1>11. NewCalls(p, c, {}, {n})
  <2>1. Apart(p, {}, {n})
    BY <1>5, <1>9 DEF Apart
  <2>2. \A q \in Processes : \A z \in net'[q] :
          z.kind \in Starts /\ z.token = c.token => q = p /\ c.pc = "starting"
    BY <1>4, <1>8, <1>9
  <2>3. n.kind \in Starts /\ n.kind # "save" /\ n.reply # "lost" /\ (row = NoRow => n.kind = "begin")
        /\ n.state # "ok"
    BY <1>2, <1>5 DEF Starts
  <2>4. kind \in {"recover", "reply"} =>
          /\ n.seq <= row.seq
          /\ n.seq = row.seq => \A s \in Steps : life[s] < n.token
    <3>1. kind # "begin" => row # NoRow
      BY <1>2
    <3>2. row # NoRow => row.seq \in Nat
      BY DEF RunInvariant, Typed, Row
    <3>3. \A s \in Steps : life[s] \in 0 .. tokens
      BY DEF RunInvariant, LivesAreOrdered
    <3> QED BY <1>3, <1>5, <3>1, <3>2, <3>3
  <2>5. "reload" \notin lost /\ owners[p] # NoOwner =>
          \E r \in net'[p] : r.token = owners[p].token /\ GivesBack(r)
    BY <1>1, <1>8 DEF RunInvariant, LeasesReturn, Live, Journaling
  <2> QED BY <1>5, <1>9, <2>1, <2>2, <2>3, <2>4, <2>5 DEF NewCalls
<1> QED BY <1>7, <1>10, <1>11, PassesStep

(* A lease that was given is its window's, and no other call has its token.    *)
LEMMA Granted ==
  ASSUME RunInvariant, NEW p \in Processes, NEW r \in net[p], r.kind \in Starts
  PROVE  /\ r.state = "ok" => owners[p].token = r.token /\ row # NoRow /\ row \in Row
         /\ \A q \in Processes : \A z \in net[q] : z.token = r.token => q = p /\ z = r
         /\ \A q \in Processes : client[q].token = r.token => q = p /\ client[p].pc = "starting"
<1>1. \A q \in Processes : \A z \in net[q] : z.token = r.token => q = p /\ z = r
  BY DEF RunInvariant, StartsAreAlone
<1>2. \A q \in Processes : client[q].token = r.token => q = p /\ client[p].pc = "starting"
  BY DEF RunInvariant, StartsAreAsked
<1>3. ASSUME r.state = "ok"
      PROVE  owners[p].token = r.token /\ row # NoRow /\ row \in Row
  <2>1. owners[p].token = r.token /\ r.token # 0
    BY <1>3, Counted DEF RunInvariant, StartsAreOwned
  <2>2. owners[p] # NoOwner
    BY <2>1 DEF NoOwner
  <2> QED BY <2>1, <2>2 DEF RunInvariant, NothingWithoutRecord, Typed
<1> QED BY <1>1, <1>2, <1>3

LEMMA GotLeaseStep ==
  ASSUME RunInvariant, NEW p \in Processes, GotLease(p)
  PROVE  RunInvariant'
<1> DEFINE b == [client[p] EXCEPT !.seq = row.seq, !.steps = row.steps, !.phase = row.phase]
           c == [b EXCEPT !.pc = "progress"]
           n == SaveCall(b, "progress")
<1>1. /\ client[p].pc = "starting"
      /\ UNCHANGED <<row, owners, target, aborted, lost, bound, ran, intent, life, tokens>>
  BY DEF GotLease, quiet, unsent
<1>2. PICK r \in Awaited(p) : r.state = "ok" /\ Saves(p, b, "progress", "progress", {r})
  BY DEF GotLease
<1>3. /\ r.kind \in Starts /\ Awaited(p) = {r} /\ r \in net[p] /\ r \in Call
      /\ r.token = client[p].token /\ r.token \in 1 .. tokens
  BY <1>1, AwaitedKind
<1>4. /\ owners[p].token = r.token /\ row # NoRow /\ row \in Row
      /\ \A q \in Processes : \A z \in net[q] : z.token = r.token => q = p /\ z = r
  BY <1>2, <1>3, Granted
<1>5. b \in Loop /\ b.token = r.token /\ b.steps = row.steps
  BY <1>3, <1>4, Counted, ZenonT(40) DEF Loop, Row
<1>6. /\ n \in Call /\ n.kind = "save" /\ n.token = b.token /\ n.boundary = "progress"
      /\ n.steps = b.steps /\ n.reply = "awaited" /\ n.state = "sent"
  <2>1. "progress" \in Boundaries
    BY DEF Boundaries
  <2> HIDE DEF b
  <2> QED BY <1>5, <2>1, NewSave
<1>7. client' = [client EXCEPT ![p] = c] /\ Exchange(p, {r}, {n})
  BY <1>2 DEF Saves, Goes, Exchange
<1> HIDE DEF b, n
<1>8. c \in Loop /\ c.pc = "progress" /\ c.token = r.token /\ c.steps = row.steps
      /\ c.pc \in Live /\ c.pc \in Journaling
  BY <1>5 DEF Loop, Live, Journaling
<1> HIDE DEF c
<1>9. Passes(p, c, {r}, {n})
  <2>1. tokens' \in tokens .. bound.tokens /\ c.token \in 0 .. tokens' /\ c.token # 0
        /\ n.token \in 1 .. tokens'
    BY <1>1, <1>3, <1>5, <1>6, <1>8, Counted
  <2> QED BY <1>1, <1>6, <1>7, <1>8, <2>1 DEF Passes
<1>10. /\ client'[p] = c /\ net'[p] = (net[p] \ {r}) \cup {n}
       /\ \A q \in Processes : q # p => client'[q] = client[q] /\ net'[q] = net[q]
       /\ Awaited(p)' = {n}
  BY <1>3, <1>6, <1>9, PassesOn
<1>11. n.kind \notin Starts /\ n.kind \notin {"recover", "reply"} /\ ~Dispatching(n)
  BY <1>6 DEF Starts, Dispatching
<1>12. NewLoop(p, c)
  <2>1. Truthful(c.steps)
    BY <1>4, <1>8 DEF RunInvariant, CopiesAreTrue
  <2>2. \A z \in net'[p] : z.token = c.token => z.reply = "awaited"
    BY <1>4, <1>6, <1>8, <1>10
  <2> QED BY <1>4, <1>5, <1>6, <1>8, <1>10, <1>11, <2>1, <2>2 DEF NewLoop
<1>13. NewCalls(p, c, {r}, {n})
  <2>1. Apart(p, {r}, {n})
    BY <1>4, <1>5, <1>6, <1>11 DEF Apart
  <2>2. \A q \in Processes : \A z \in net'[q] : ~(z.kind \in Starts /\ z.token = c.token)
    BY <1>4, <1>8, <1>10, <1>11
  <2>3. Truthful(n.steps)
    BY <1>4, <1>5, <1>6 DEF RunInvariant, CopiesAreTrue
  <2> QED BY <1>4, <1>8, <1>11, <2>1, <2>2, <2>3 DEF NewCalls
<1> QED BY <1>9, <1>12, <1>13, PassesStep

LEMMA GiveUpStep ==
  ASSUME RunInvariant, NEW p \in Processes, GiveUp(p)
  PROVE  RunInvariant'
<1>1. /\ client[p].pc = "starting"
      /\ UNCHANGED <<row, owners, target, aborted, lost, bound, ran, intent, life, tokens>>
  BY DEF GiveUp, quiet
<1>2. PICK r \in Awaited(p) :
        Goes(p, Idle, {r}, IF r.state = "failed" THEN {} ELSE {[r EXCEPT !.reply = "late"]})
  BY DEF GiveUp
<1> DEFINE x == [r EXCEPT !.reply = "late"]
           new == IF r.state = "failed" THEN {} ELSE {x}
<1>3. /\ r.kind \in Starts /\ Awaited(p) = {r} /\ r \in net[p] /\ r \in Call
      /\ r.token = client[p].token /\ r.token \in 1 .. tokens
  BY <1>1, AwaitedKind
<1>4. x \in Call /\ Alike(x, r) /\ x.reply = "late" /\ x.state = r.state
  BY <1>3, ReplyChanges DEF Replies
<1>5. client' = [client EXCEPT ![p] = Idle] /\ Exchange(p, {r}, new)
  BY <1>2 DEF Goes, Exchange
<1> HIDE DEF x
<1>6. new \in SUBSET Call /\ \A y \in new : y = x /\ r.state # "failed"
  BY <1>4
<1>7. r.state # "failed" => x \in new
  OBVIOUS
<1> HIDE DEF new
<1>8. Passes(p, Idle, {r}, new)
  <2>1. tokens' \in tokens .. bound.tokens /\ Idle.token \in 0 .. tokens' /\ r.token \in 1 .. tokens'
    BY <1>1, <1>3, Counted, IdleLoop
  <2> QED BY <1>1, <1>4, <1>5, <1>6, <2>1, IdleLoop DEF Passes, Alike
<1>9. /\ client'[p] = Idle /\ net'[p] = (net[p] \ {r}) \cup new
      /\ \A q \in Processes : q # p => client'[q] = client[q] /\ net'[q] = net[q]
      /\ Awaited(p)' = {}
  <2>1. {y \in new : y.reply = "awaited"} = {}
    BY <1>4, <1>6
  <2> QED BY <1>3, <1>8, <2>1, PassesOn
<1>10. NewLoop(p, Idle)
  BY <1>9, IdleLoop DEF NewLoop, Holds, Live, Journaling
<1>11. NewCalls(p, Idle, {r}, new)
  <2>1. Apart(p, {r}, new)
    BY <1>3, <1>4, <1>6, Continuing DEF RunInvariant
  <2>2. \A q \in Processes : \A z \in net'[q] : z.token # Idle.token
    BY <1>3, <1>4, <1>6, <1>9, Counted, IdleLoop DEF Alike
  <2>3. /\ \A q \in Processes : q # p => client[q].token # r.token
        /\ r.state = "sent" => \A q \in Processes : owners[q].token # r.token
        /\ r.state = "ok" => owners[p].token = r.token
        /\ row = NoRow => r.kind = "begin"
        /\ r.kind # "save" /\ x.kind # "save"
    BY <1>3, <1>4, Granted DEF RunInvariant, StartsAreOwned, NothingWithoutRecord, Starts, Alike
  <2>4. r.kind \in {"recover", "reply"} /\ r.state = "sent" =>
          /\ r.seq <= row.seq
          /\ r.seq = row.seq => \A s \in Steps : life[s] < r.token
          /\ \A q \in Processes : r.token < owners[q].token => r.seq < row.seq
    BY <1>3 DEF RunInvariant, LivesAreOrdered
  <2>5. "reload" \notin lost /\ owners[p] # NoOwner =>
          \E z \in net'[p] : z.token = owners[p].token /\ GivesBack(z)
    <3> SUFFICES ASSUME "reload" \notin lost, owners[p] # NoOwner
                 PROVE  \E z \in net'[p] : z.token = owners[p].token /\ GivesBack(z)
      OBVIOUS
    <3>1. PICK z \in net[p] : z.token = owners[p].token /\ GivesBack(z)
      BY <1>1 DEF RunInvariant, LeasesReturn, Live, Journaling
    <3>2. CASE z = r
      BY <1>3, <1>4, <1>7, <1>9, <3>1, <3>2 DEF GivesBack, Alike, Starts
    <3>3. CASE z # r
      BY <1>9, <3>1, <3>3
    <3> QED BY <3>2, <3>3
  <2> QED BY <1>3, <1>4, <1>6, <2>1, <2>2, <2>3, <2>4, <2>5 DEF NewCalls, Alike, Starts
<1> QED BY <1>8, <1>10, <1>11, PassesStep

LEMMA LateLeaseStep ==
  ASSUME RunInvariant, NEW p \in Processes, LateLease(p)
  PROVE  RunInvariant'
<1>1. UNCHANGED <<row, owners, target, aborted, lost, bound, ran, intent, life, tokens>>
  BY DEF LateLease, quiet, unsent
<1>2. PICK r \in net[p] :
        /\ r.kind \in Starts /\ r.reply = "late" /\ r.state = "ok"
        /\ Goes(p, client[p], {r}, {ReleaseCall(r.token, "lost")})
  BY DEF LateLease
<1> DEFINE c == client[p]
           n == ReleaseCall(r.token, "lost")
<1>3. r.token \in 1 .. tokens /\ r.token \in Nat /\ c \in Loop /\ c.token \in 0 .. tokens
      /\ (c.pc # "idle" => c.token # 0)
  BY <1>2, Counted DEF RunInvariant, TokensAreIssued
<1>4. n \in Call /\ n.kind = "release" /\ n.token = r.token /\ n.reply = "lost" /\ n.state = "sent"
  BY <1>3, NewRelease DEF Replies
<1>5. client' = [client EXCEPT ![p] = c] /\ Exchange(p, {r}, {n})
  BY <1>2 DEF Goes, Exchange
<1>6. /\ owners[p].token = r.token
      /\ \A q \in Processes : \A z \in net[q] : z.token = r.token => q = p /\ z = r
      /\ \A q \in Processes : client[q].token = r.token => q = p /\ client[p].pc = "starting"
  BY <1>2, Granted
<1> HIDE DEF c, n
<1>7. Passes(p, c, {r}, {n})
  BY <1>1, <1>3, <1>4, <1>5, Counted DEF Passes
<1>8. /\ client'[p] = c /\ net'[p] = (net[p] \ {r}) \cup {n}
      /\ \A q \in Processes : q # p => client'[q] = client[q] /\ net'[q] = net[q]
      /\ Awaited(p)' = Awaited(p)
  <2>1. Awaited(p) \ {r} = Awaited(p) /\ {y \in {n} : y.reply = "awaited"} = {}
    BY <1>2, <1>4 DEF Awaited
  <2> QED BY <1>7, <2>1, PassesOn
<1>9. NewLoop(p, c)
  <2>1. Holds(p)' => owners[p].token = c.token /\ Truthful(c.steps)
    BY <1>8 DEF c, Holds, RunInvariant, HoldersOwn, CopiesAreTrue
  <2>2. \A x \in Awaited(p) :
          /\ Awaited(p) = {x} /\ x.token = c.token
          /\ x.kind \in Starts => c.pc = "starting"
          /\ x.kind \in {"save", "confirm"} => c.pc \in Journaling
          /\ x.kind = "release" => c.pc = "releasing"
          /\ c.pc # "idle"
          /\ c.pc # "finishing" /\ x.kind = "save" => x.boundary # "finished"
    BY OnlyOneAwaited DEF c, RunInvariant, WaitsAreDue
  <2>3. c.pc \in Live \cup {"starting"} => \A z \in net'[p] : z.token = c.token => z.reply = "awaited"
    <3>1. c.pc \in Live \cup {"starting"} =>
            /\ \A z \in net[p] : z.token = c.token => z.reply = "awaited"
            /\ c.token # r.token
      BY <1>2 DEF c, RunInvariant, WaitsAreDue
    <3> QED BY <1>4, <1>8, <3>1
  <2> QED BY <1>8, <2>1, <2>2, <2>3 DEF NewLoop, c
<1>10. NewCalls(p, c, {r}, {n})
  <2>1. n.kind \notin Starts /\ n.kind \notin {"save", "recover", "reply"}
    BY <1>4 DEF Starts
  <2>2. Apart(p, {r}, {n})
    BY <1>4, <1>6, <2>1 DEF Apart
  <2>3. \A q \in Processes : \A z \in net'[q] :
          z.kind \in Starts /\ z.token = c.token => q = p /\ c.pc = "starting"
    BY <1>8, <2>1 DEF c, RunInvariant, StartsAreAsked
  <2>4. n \in net'[p] /\ GivesBack(n)
    BY <1>4, <1>8 DEF GivesBack
  <2> QED BY <1>4, <1>6, <2>1, <2>2, <2>3, <2>4 DEF NewCalls
<1> QED BY <1>7, <1>9, <1>10, PassesStep

(* What is left of a call nobody waits for any more.                          *)
LEMMA LeftCalls ==
  ASSUME NEW r \in Call, NEW left, left \subseteq Unserved(r, "lost")
  PROVE  \A x \in left : /\ x \in Call /\ Alike(x, r) /\ x.reply = "lost" /\ x.state = "sent"
                         /\ r.state = "sent"
<1> SUFFICES ASSUME NEW x \in left
             PROVE  /\ x \in Call /\ Alike(x, r) /\ x.reply = "lost" /\ x.state = "sent"
                    /\ r.state = "sent"
  OBVIOUS
<1>1. r.state = "sent" /\ x = [r EXCEPT !.reply = "lost"]
  BY DEF Unserved
<1> QED BY <1>1, ReplyChanges DEF Replies

LEMMA ReleasesStep ==
  ASSUME RunInvariant, NEW p \in Processes, client[p].pc \in Journaling, NEW r \in Awaited(p),
         NEW left, left \subseteq Unserved(r, "lost"), Releases(p, {r}, left),
         UNCHANGED <<row, owners, target, aborted, lost, bound, ran, intent, life, tokens>>
  PROVE  RunInvariant'
<1> DEFINE c == [Idle EXCEPT !.pc = "releasing", !.token = client[p].token]
           n == ReleaseCall(client[p].token, "awaited")
           new == left \cup {n}
<1>1. /\ r.kind \in {"save", "confirm"} /\ Awaited(p) = {r} /\ r \in net[p] /\ r \in Call
      /\ r.token = client[p].token /\ r.token \in 1 .. tokens
  BY AwaitedKind
<1>2. client[p].token \in 1 .. tokens /\ client[p].token \in Nat
  BY <1>1, Counted
<1>3. c \in Loop /\ c.pc = "releasing" /\ c.token = client[p].token
  BY <1>2, IdleLoops
<1>4. /\ n \in Call /\ n.kind = "release" /\ n.token = client[p].token
      /\ n.reply = "awaited" /\ n.state = "sent"
  BY <1>2, NewRelease DEF Replies
<1>5. client' = [client EXCEPT ![p] = c] /\ Exchange(p, {r}, new)
  BY DEF Releases, Goes, Exchange
<1>6. \A x \in left : x \in Call /\ Alike(x, r) /\ x.reply = "lost" /\ x.state = "sent" /\ r.state = "sent"
  BY <1>1, LeftCalls
<1> HIDE DEF c, n
<1>7. /\ new \in SUBSET Call
      /\ \A x \in new : \/ x = n
                        \/ Alike(x, r) /\ x.reply = "lost" /\ x.state = "sent" /\ r.state = "sent"
      /\ n \in new /\ {y \in new : y.reply = "awaited"} = {n}
      /\ \A x \in new : /\ x.token = client[p].token /\ x.kind \notin Starts
                        /\ x.kind \notin {"recover", "reply"}
  BY <1>1, <1>4, <1>6 DEF Alike, Starts
<1> HIDE DEF new
<1>8. Passes(p, c, {r}, new)
  BY <1>2, <1>3, <1>5, <1>7, Counted DEF Passes
<1>9. /\ client'[p] = c /\ net'[p] = (net[p] \ {r}) \cup new
      /\ \A q \in Processes : q # p => client'[q] = client[q] /\ net'[q] = net[q]
      /\ Awaited(p)' = {n}
  BY <1>1, <1>7, <1>8, PassesOn
<1>10. NewLoop(p, c)
  <2>1. ~Holds(p)' /\ c.pc \notin {"prepared", "approval", "predispatch", "idle", "starting"}
        /\ c.pc \notin Live
    BY <1>3, <1>9 DEF Holds, Live, Journaling
  <2> QED BY <1>3, <1>4, <1>9, <2>1 DEF NewLoop, Starts
<1>11. NewCalls(p, c, {r}, new)
  <2>1. \A q \in Processes : \A z \in net[q] : z.kind \in Starts => z.token # client[p].token
    BY DEF RunInvariant, StartsAreAsked, Journaling
  <2>2. Apart(p, {r}, new)
    BY <1>7, <2>1 DEF Apart
  <2>3. \A q \in Processes : \A z \in net'[q] : ~(z.kind \in Starts /\ z.token = c.token)
    BY <1>3, <1>7, <1>9, <2>1
  <2>4. \A x \in new :
          /\ x.kind = "save" /\ Dispatching(x) => x.step \in Steps
          /\ x.kind = "save" /\ x.state = "sent" /\ x.token = owners[p].token => Truthful(x.steps)
    <3>1. n.kind # "save"
      BY <1>4
    <3>2. /\ r.kind = "save" /\ Dispatching(r) => r.step \in Steps
          /\ r.kind = "save" /\ r.state = "sent" /\ r.token = owners[p].token => Truthful(r.steps)
      BY <1>1 DEF RunInvariant, StepsAreNamed, CopiesAreTrue
    <3> QED BY <1>7, <3>1, <3>2 DEF Alike, Dispatching
  <2>5. "reload" \notin lost /\ owners[p] # NoOwner =>
          \E z \in net'[p] : z.token = owners[p].token /\ GivesBack(z)
    <3> SUFFICES ASSUME "reload" \notin lost, owners[p] # NoOwner
                 PROVE  \E z \in net'[p] : z.token = owners[p].token /\ GivesBack(z)
      OBVIOUS
    <3>1. \/ client[p].token = owners[p].token
          \/ \E z \in net[p] : z.token = owners[p].token /\ GivesBack(z)
      BY DEF RunInvariant, LeasesReturn
    <3>2. GivesBack(n) /\ ~GivesBack(r)
      BY <1>1, <1>4 DEF GivesBack, Starts
    <3> QED BY <1>4, <1>7, <1>9, <3>1, <3>2
  <2> QED BY <1>7, <2>2, <2>3, <2>4, <2>5 DEF NewCalls
<1> QED BY <1>8, <1>10, <1>11, PassesStep

LEMMA FinishedStep ==
  ASSUME RunInvariant, NEW p \in Processes, SavedFinish(p) \/ NotSaved(p)
  PROVE  RunInvariant'
<1>1. /\ client[p].pc \in Journaling
      /\ UNCHANGED <<row, owners, target, aborted, lost, bound, ran, intent, life, tokens>>
  BY DEF SavedFinish, NotSaved, quiet, unsent, Journaling
<1>2. PICK r \in Awaited(p) : \E left \in SUBSET Unserved(r, "lost") : Releases(p, {r}, left)
  BY DEF SavedFinish, NotSaved, Acknowledged
<1> QED BY <1>1, <1>2, ReleasesStep

LEMMA ReleasedStep ==
  ASSUME RunInvariant, NEW p \in Processes, Released(p)
  PROVE  RunInvariant'
<1>1. /\ client[p].pc = "releasing"
      /\ UNCHANGED <<row, owners, target, aborted, lost, bound, ran, intent, life, tokens>>
  BY DEF Released, quiet
<1>2. PICK r \in Awaited(p) : Goes(p, Idle, {r}, Unserved(r, "lost"))
  BY DEF Released
<1> DEFINE new == Unserved(r, "lost")
<1>3. /\ r.kind = "release" /\ Awaited(p) = {r} /\ r \in net[p] /\ r \in Call
      /\ r.token = client[p].token /\ r.token \in 1 .. tokens
  BY <1>1, AwaitedKind
<1>4. client' = [client EXCEPT ![p] = Idle] /\ Exchange(p, {r}, new)
  BY <1>2 DEF Goes, Exchange
<1>5. r.state = "sent" => \E x \in new : Alike(x, r) /\ x.state = "sent"
  BY <1>3, ReplyChanges DEF Unserved, Replies
<1> HIDE DEF new
<1>6. \A x \in new : x \in Call /\ Alike(x, r) /\ x.reply = "lost" /\ x.state = "sent" /\ r.state = "sent"
  BY <1>3, LeftCalls DEF new
<1>7. Passes(p, Idle, {r}, new)
  <2>1. tokens' \in tokens .. bound.tokens /\ Idle.token \in 0 .. tokens'
    BY <1>1, Counted, IdleLoop
  <2> QED BY <1>1, <1>3, <1>4, <1>6, <2>1, IdleLoop DEF Passes, Alike
<1>8. /\ client'[p] = Idle /\ net'[p] = (net[p] \ {r}) \cup new
      /\ \A q \in Processes : q # p => client'[q] = client[q] /\ net'[q] = net[q]
      /\ Awaited(p)' = {}
  <2>1. {x \in new : x.reply = "awaited"} = {}
    BY <1>6
  <2> QED BY <1>3, <1>7, <2>1, PassesOn
<1>9. NewLoop(p, Idle)
  BY <1>8, IdleLoop DEF NewLoop, Holds, Live, Journaling
<1>10. NewCalls(p, Idle, {r}, new)
  <2>1. /\ \A x \in new : x.kind = "release" /\ x.kind \notin Starts /\ x.token = r.token
        /\ \A q \in Processes : \A z \in net[q] : z.kind \in Starts => z.token # r.token
    BY <1>1, <1>3, <1>6 DEF Alike, Starts, RunInvariant, StartsAreAsked
  <2>2. Apart(p, {r}, new)
    BY <2>1 DEF Apart
  <2>3. \A q \in Processes : \A z \in net'[q] : z.token # Idle.token
    BY <1>3, <1>8, <2>1, Counted, IdleLoop
  <2>4. "reload" \notin lost /\ owners[p] # NoOwner =>
          \E z \in net'[p] : z.token = owners[p].token /\ GivesBack(z)
    <3> SUFFICES ASSUME "reload" \notin lost, owners[p] # NoOwner
                 PROVE  \E z \in net'[p] : z.token = owners[p].token /\ GivesBack(z)
      OBVIOUS
    <3>1. PICK z \in net[p] : z.token = owners[p].token /\ GivesBack(z)
      BY <1>1 DEF RunInvariant, LeasesReturn, Live, Journaling
    <3>2. CASE z = r
      <4>1. r.state = "sent"
        BY <1>3, <3>1, <3>2 DEF GivesBack, Starts
      <4> QED BY <1>3, <1>5, <1>8, <3>1, <3>2, <4>1 DEF GivesBack, Alike
    <3>3. CASE z # r
      BY <1>8, <3>1, <3>3
    <3> QED BY <3>2, <3>3
  <2> QED BY <2>1, <2>2, <2>3, <2>4 DEF NewCalls
<1> QED BY <1>7, <1>9, <1>10, PassesStep

-----------------------------------------------------------------------------
(* The invariant.                                                             *)

LEMMA InitInvariant == ASSUME Init PROVE RunInvariant
<1>1. PICK e \in bound.envs :
        /\ target = [p \in Processes |-> [proc |-> p, inst |-> 0, env |-> e]]
        /\ intent = [s \in Steps |-> [proc |-> CHOOSE p \in Processes : TRUE, inst |-> 0, env |-> e]]
  BY DEF Init
<1>2. /\ bound \in Bounds /\ row = NoRow /\ owners = [p \in Processes |-> NoOwner]
      /\ client = [p \in Processes |-> Idle] /\ net = [p \in Processes |-> {}]
      /\ ran = [s \in Steps |-> "no"] /\ aborted = {} /\ life = [s \in Steps |-> 0]
      /\ tokens = 0 /\ lost = {}
  BY DEF Init
<1>3. bound.tokens \in Nat /\ 0 \in 0 .. bound.tokens /\ e \in UNION {b.envs : b \in Bounds}
  BY <1>2, ToolAssumption DEF ToolAssumption, Bound
<1>4. (CHOOSE p \in Processes : TRUE) \in Processes
  BY ToolAssumption DEF ToolAssumption
<1>5. /\ target \in [Processes -> Target] /\ \A p \in Processes : target[p].proc = p
      /\ intent \in [Steps -> Target]
  BY <1>1, <1>3, <1>4 DEF Target
<1>6. Typed
  BY <1>2, <1>3, <1>5, IdleLoop DEF Typed, NoOwner
<1>7. \A p \in Processes : /\ net[p] = {} /\ Awaited(p) = {} /\ owners[p] = NoOwner
                           /\ client[p] = Idle /\ ~Holds(p)
  BY <1>2, IdleLoop DEF Awaited, Holds, Live, Journaling
<1>8. NoOwner.token = 0
  BY DEF NoOwner
<1>9. OneIsAwaited /\ OneOwner /\ TokensAreIssued /\ StartsAreAlone /\ StartsAreAsked
      /\ StartsAreOwned /\ WaitsAreDue /\ HoldersOwn /\ LeasesReturn /\ StepsAreNamed
  BY <1>2, <1>7, <1>8, IdleLoop DEF OneIsAwaited, OneOwner, TokensAreIssued, StartsAreAlone,
     StartsAreAsked, StartsAreOwned, WaitsAreDue, HoldersOwn, LeasesReturn, StepsAreNamed
<1>10. NothingWithoutRecord /\ CopiesAreTrue /\ HistoryIsReviewed /\ ResolvedByLaterEvidence
  BY <1>2, <1>7 DEF NothingWithoutRecord, CopiesAreTrue, HistoryIsReviewed, ResolvedByLaterEvidence
<1>11. NextIsNew /\ LivesAreOrdered
  BY <1>2, <1>7, IdleLoop DEF NextIsNew, LivesAreOrdered
<1> QED BY <1>6, <1>9, <1>10, <1>11 DEF RunInvariant

LEMMA WindowStep ==
  ASSUME RunInvariant, NEW p \in Processes, Window(p)
  PROVE  RunInvariant'
<1>1. CASE Ask(p)  BY <1>1, AskStep
<1>2. CASE GotLease(p)  BY <1>2, GotLeaseStep
<1>3. CASE GiveUp(p)  BY <1>3, GiveUpStep
<1>4. CASE LateLease(p)  BY <1>4, LateLeaseStep
<1>5. CASE Propose(p)  BY <1>5, ProposeStep
<1>6. CASE Conclude(p)  BY <1>6, ConcludeStep
<1>7. CASE Approve(p) \/ Skip(p)  BY <1>7, ApprovalStep
<1>8. CASE Review(p)  BY <1>8, ReviewStep
<1>9. CASE Saved(p) \/ Confirmed(p) \/ SavedStopping(p)  BY <1>9, AnsweredSteps
<1>10. CASE SavedDispatch(p)  BY <1>10, DispatchStep
<1>11. CASE SavedFinish(p) \/ NotSaved(p)  BY <1>11, FinishedStep
<1>12. CASE Released(p)  BY <1>12, ReleasedStep
<1>13. CASE Observe(p)  BY <1>13, ObserveStep
<1>14. CASE Ended(p) \/ NotStarted(p) \/ Unconfirmed(p)  BY <1>14, EndedSteps
<1>15. CASE Stop(p)  BY <1>15, StopStep
<1> QED BY <1>1, <1>2, <1>3, <1>4, <1>5, <1>6, <1>7, <1>8, <1>9, <1>10, <1>11, <1>12, <1>13,
           <1>14, <1>15 DEF Window

LEMMA StutterStep == ASSUME RunInvariant, UNCHANGED vars PROVE RunInvariant'
<1>1. UNCHANGED <<row, owners, target, client, net, ran, intent, aborted, life, tokens, lost, bound>>
  BY DEF vars
<1>2. Typed' /\ OneIsAwaited' /\ OneOwner' /\ TokensAreIssued' /\ StartsAreAlone'
  BY <1>1 DEF RunInvariant, Typed, OneIsAwaited, Awaited, OneOwner, TokensAreIssued, StartsAreAlone
<1>3. StartsAreAsked' /\ StartsAreOwned' /\ WaitsAreDue' /\ HoldersOwn' /\ LeasesReturn'
  BY <1>1 DEF RunInvariant, StartsAreAsked, StartsAreOwned, WaitsAreDue, HoldersOwn, Holds,
              LeasesReturn, Awaited
<1>4. NothingWithoutRecord' /\ StepsAreNamed' /\ HistoryIsReviewed' /\ ResolvedByLaterEvidence'
  BY <1>1 DEF RunInvariant, NothingWithoutRecord, StepsAreNamed, HistoryIsReviewed,
              ResolvedByLaterEvidence
<1>5. CopiesAreTrue'
  BY <1>1 DEF RunInvariant, CopiesAreTrue, Truthful, Happened, Holds, Awaited
<1>6. NextIsNew' /\ LivesAreOrdered'
  BY <1>1 DEF RunInvariant, NextIsNew, Awaited, LivesAreOrdered
<1> QED BY <1>2, <1>3, <1>4, <1>5, <1>6 DEF RunInvariant

LEMMA NextStep == ASSUME RunInvariant, [Next]_vars PROVE RunInvariant'
<1>1. ASSUME NEW p \in Processes,
             \/ Window(p) \/ Serve(p) \/ SessionCloses(p) \/ EnvironmentChanges(p)
             \/ Crash(p) \/ Reload(p)
      PROVE  RunInvariant'
  BY <1>1, WindowStep, ServeStep, MovesStep, CrashStep, ReloadStep
<1>2. ASSUME NEW s \in Steps, Write(s) \/ NotWritten(s) \/ Ends(s)
      PROVE  RunInvariant'
  BY <1>2, ShellStep
<1>3. CASE UNCHANGED vars
  BY <1>3, StutterStep
<1> QED BY <1>1, <1>2, <1>3 DEF Next

(* Every state of every run of the agent is as RunInvariant says.             *)
THEOREM RunsInvariant == Spec => []RunInvariant
<1>1. Init => RunInvariant
  BY InitInvariant
<1>2. RunInvariant /\ [Next]_vars => RunInvariant'
  BY NextStep
<1> QED BY <1>1, <1>2, PTL DEF Spec

(* The state is what the code can hold, and a window waits for one call of its *)
(* own (agentCheckpointJournal.ts sends one save at a time).                   *)
THEOREM RunsAreTyped == Spec => []TypeOK
<1>1. RunInvariant => TypeOK
  BY DEF RunInvariant, TypeOK
<1> QED BY <1>1, RunsInvariant, PTL

(* Nothing was dispatched that is not on record, and nothing is recorded as     *)
(* known or resolved that was not seen to end (agentLoop.ts saves before it     *)
(* dispatches; validate_recovery_resolutions).                                  *)
THEOREM RecordsAreTrue == Spec => []RecordIsTrue
<1>1. ASSUME RunInvariant PROVE EffectsAreRecorded
  <2>1. Happened \subseteq Steps /\ \A s \in Happened : ran[s] # "no"
    BY DEF Happened
  <2>2. row # NoRow \/ Happened = {}
    BY <1>1, <2>1 DEF RunInvariant, NothingWithoutRecord
  <2>3. row # NoRow => Truthful(row.steps)
    BY <1>1 DEF RunInvariant, CopiesAreTrue
  <2> QED BY <2>1, <2>2, <2>3 DEF EffectsAreRecorded, Truthful
<1>2. RunInvariant => RecordIsTrue
  BY <1>1 DEF RunInvariant, RecordIsTrue
<1> QED BY <1>2, RunsInvariant, PTL

(* The run has one owner, and a lease without a window is given back            *)
(* (useAgentSession.ts).                                                        *)
THEOREM LeasesAreHeld == Spec => []LeasesHaveWindows
<1>1. ASSUME RunInvariant PROVE LeasesHaveWindows
  BY <1>1 DEF RunInvariant, OneOwner, LeasesReturn, LeasesHaveWindows, Live, Journaling
<1>2. RunInvariant => LeasesHaveWindows
  BY <1>1
<1> QED BY <1>2, RunsInvariant, PTL

-----------------------------------------------------------------------------
(* The steps.                                                                 *)

(* A step is asked for, and gets its owner, when its save was acknowledged.   *)
LEMMA OnlyDispatchAsks ==
  ASSUME RunInvariant, [Next]_vars, NEW s \in Steps,
         (ran[s] # "asked" /\ ran'[s] = "asked") \/ life'[s] # life[s]
  PROVE  \E p \in Processes : SavedDispatch(p) /\ s = client[p].step
<1>1. ASSUME NEW p \in Processes, Window(p)
      PROVE  SavedDispatch(p) \/ UNCHANGED <<ran, life>>
  BY <1>1 DEF Window, Ask, GotLease, GiveUp, LateLease, Propose, Conclude, Approve, Skip, Review,
     Saved, Confirmed, SavedStopping, SavedFinish, NotSaved, Released, Observe, Ended, NotStarted,
     Unconfirmed, Stop, unsent
<1>2. ASSUME NEW p \in Processes, Serve(p) \/ SessionCloses(p) \/ EnvironmentChanges(p) \/ Reload(p)
      PROVE  UNCHANGED <<ran, life>>
  BY <1>2 DEF Serve, Refuse, Open, Save, Confirm, Release, SessionCloses, EnvironmentChanges, Reload
<1>3. ASSUME NEW p \in Processes, Crash(p)
      PROVE  life' = life /\ (ran'[s] = "asked" => ran[s] = "asked")
  BY <1>3 DEF Crash
<1>4. ASSUME NEW t \in Steps, Write(t) \/ NotWritten(t) \/ Ends(t)
      PROVE  life' = life /\ (ran'[s] = "asked" => ran[s] = "asked")
  BY <1>4 DEF Write, NotWritten, Ends, RunInvariant, Typed
<1>5. UNCHANGED vars => UNCHANGED <<ran, life>>
  BY DEF vars
<1>6. PICK p \in Processes : SavedDispatch(p)
  BY <1>1, <1>2, <1>3, <1>4, <1>5 DEF Next
<1>7. /\ ran' = [ran EXCEPT ![client[p].step] = "asked"]
      /\ life' = [life EXCEPT ![client[p].step] = client[p].token]
  BY <1>6, Dispatched
<1>8. s = client[p].step
  BY <1>7 DEF RunInvariant, Typed
<1> QED BY <1>6, <1>8, Zenon

(* Only a handler of the backend writes the record, and only a confirmation     *)
(* resolves.                                                                    *)
LEMMA OnlyConfirmResolves ==
  ASSUME RunInvariant, [Next]_vars, row # NoRow, row'.resolved # row.resolved
  PROVE  \E p \in Processes : \E r \in net[p] :
           Confirm(p, r) /\ row'.resolved = row.resolved \cup r.resolutions
<1>1. ASSUME NEW p \in Processes, Window(p)
      PROVE  row' = row
  BY <1>1 DEF Window, Ask, GotLease, GiveUp, LateLease, Propose, Conclude, Approve, Skip, Review,
     Saved, SavedDispatch, Confirmed, SavedStopping, SavedFinish, NotSaved, Released, Observe,
     Ended, NotStarted, Unconfirmed, Stop, quiet
<1>2. ASSUME NEW p \in Processes, SessionCloses(p) \/ EnvironmentChanges(p) \/ Crash(p) \/ Reload(p)
      PROVE  row' = row
  BY <1>2 DEF SessionCloses, EnvironmentChanges, Crash, Reload
<1>3. ASSUME NEW t \in Steps, Write(t) \/ NotWritten(t) \/ Ends(t)
      PROVE  row' = row
  BY <1>3 DEF Write, NotWritten, Ends
<1>4. UNCHANGED vars => row' = row
  BY DEF vars
<1>5. PICK p \in Processes : Serve(p)
  BY <1>1, <1>2, <1>3, <1>4 DEF Next
<1>6. row \in Row /\ StepsAreNamed
  BY DEF RunInvariant, Typed
<1>7. PICK r \in net[p] :
        Refuse(p, r) \/ Open(p, r) \/ Save(p, r) \/ Confirm(p, r) \/ Release(p, r)
  BY <1>5 DEF Serve
<1>8. CASE Refuse(p, r) \/ Release(p, r)
  BY <1>8 DEF Refuse, Release
<1>9. CASE Open(p, r)
  BY <1>9, OpenedRow DEF RunInvariant, Recovered
<1>10. CASE Save(p, r)
  <2>1. row' = Updated(p, r) /\ r.kind = "save"
    BY <1>10 DEF Save
  <2> QED BY <1>6, <2>1, UpdatedRow DEF RunInvariant
<1>11. CASE Confirm(p, r)
  BY <1>6, <1>11, ConfirmedRow DEF RunInvariant
<1> QED BY <1>7, <1>8, <1>9, <1>10, <1>11

LEMMA ReviewIsFollowed == ASSUME RunInvariant, [Next]_vars PROVE FollowsReview
<1> SUFFICES ASSUME NEW s \in Steps, ran[s] # "asked", ran'[s] = "asked",
                    Tool[s] \in {"change", "edit"},
                    NEW t \in Happened \ aborted, life[t] < life'[s], row.steps[t] # "known"
             PROVE  t \in Resolved(row)
  BY DEF FollowsReview
<1>1. PICK p \in Processes : SavedDispatch(p) /\ s = client[p].step
  BY OnlyDispatchAsks
<1>2. /\ Holds(p) /\ row # NoRow /\ row \in Row /\ row.phase # "inspecting"
      /\ life' = [life EXCEPT ![s] = client[p].token]
  BY <1>1, Dispatched
<1>3. owners[p] # NoOwner /\ life'[s] = owners[p].token
  BY <1>2, HolderOwns DEF RunInvariant, Typed
<1>4. t \in Steps /\ ran[t] # "no" /\ Tool[t] # "read"
  BY DEF Happened
<1>5. t \in row.source
  <2>1. ASSUME t \notin row.source
        PROVE  life[t] = owners[p].token
    BY <1>2, <1>3, <1>4, <2>1 DEF RunInvariant, LivesAreOrdered
  <2>2. life[t] \in Nat /\ life'[s] \in Nat
    BY <1>3, <1>4, Counted DEF RunInvariant, Typed
  <2> QED BY <1>3, <2>1, <2>2
<1>6. row.steps[t] = "unknown"
  BY <1>2, <1>4 DEF RunInvariant, CopiesAreTrue, Truthful
<1>7. t \in Unknown(row.steps)
  BY <1>4, <1>6 DEF Unknown
<1> QED BY <1>2, <1>5, <1>7 DEF RunInvariant, HistoryIsReviewed

LEMMA OnceIsRun == ASSUME RunInvariant, [Next]_vars PROVE RunsOnce
<1> SUFFICES ASSUME NEW s \in Steps, ran[s] # "no", ran'[s] = "asked"
             PROVE  ran[s] = "asked" /\ life'[s] = life[s]
  BY DEF RunsOnce
<1>1. ASSUME NEW p \in Processes, SavedDispatch(p), s = client[p].step
      PROVE  FALSE
  BY <1>1, Dispatched
<1> QED BY <1>1, OnlyDispatchAsks

LEMMA WhereChecked == ASSUME RunInvariant, [Next]_vars PROVE ResolvesWhereChecked
<1> SUFFICES ASSUME row # NoRow, row'.resolved # row.resolved
             PROVE  \E p \in Processes : owners[p] # NoOwner /\
                      \A x \in row'.resolved \ row.resolved :
                        target[p] = [proc |-> p, inst |-> row.at[x.by].inst,
                                     env |-> row.at[x.by].env]
  BY DEF ResolvesWhereChecked
<1>1. PICK p \in Processes : \E r \in net[p] :
        Confirm(p, r) /\ row'.resolved = row.resolved \cup r.resolutions
  BY OnlyConfirmResolves
<1>2. PICK r \in net[p] : Confirm(p, r) /\ row'.resolved = row.resolved \cup r.resolutions
  BY <1>1
<1>3. owners[p].token = r.token /\ row.current = target[p] /\ Resolves(r.resolutions)
  BY <1>2 DEF Confirm, StillThere
<1>4. owners[p] # NoOwner
  BY <1>3, Counted DEF NoOwner
<1>5. target[p] \in Target /\ target[p].proc = p
  BY DEF RunInvariant, Typed
<1>6. ASSUME NEW x \in row'.resolved \ row.resolved
      PROVE  target[p] = [proc |-> p, inst |-> row.at[x.by].inst, env |-> row.at[x.by].env]
  <2>1. Evidence(x)
    BY <1>2, <1>3 DEF Resolves
  <2>2. target[p] = [proc |-> target[p].proc, inst |-> target[p].inst, env |-> target[p].env]
    BY <1>5 DEF Target
  <2> QED BY <1>3, <1>5, <2>1, <2>2 DEF Evidence
<1> QED BY <1>4, <1>6

(* A change follows the review of what earlier owners left open, no step is      *)
(* dispatched twice, and a resolution is accepted where its evidence was read    *)
(* (update_agent_checkpoint_with_source, confirm_agent_recovery).                *)
THEOREM ReviewComesFirst == Spec => StepsFollowReview
<1>1. RunInvariant /\ [Next]_vars => FollowsReview /\ RunsOnce /\ ResolvesWhereChecked
  BY ReviewIsFollowed, OnceIsRun, WhereChecked
<1>2. RunInvariant /\ [Next]_vars => [FollowsReview /\ RunsOnce /\ ResolvesWhereChecked]_vars
  BY <1>1
<1> QED BY <1>2, RunsInvariant, PTL DEF Spec, StepsFollowReview

=============================================================================
