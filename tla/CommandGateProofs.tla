------------------------- MODULE CommandGateProofs -------------------------
(***************************************************************************)
(* CommandGate for every number of sessions, clients and intents: IInv is   *)
(* inductive, so the invariants it is made of hold of Spec.                 *)
(***************************************************************************)
EXTENDS CommandGate, FiniteSetTheorems, TLAPS

USE ContextsAssumption, GateAssumption DEF ContextsAssumption, GateAssumption

(* Targets stay targets.                                                     *)
LEMMA TargetTypes ==
  ASSUME NEW t \in Target
  PROVE  /\ InvalidateContext(t) \in Target
         /\ InvalidateRoute(t) \in Target
         /\ InvalidateContext(t).session = t.session
         /\ InvalidateRoute(t).session = t.session
         /\ InvalidateContext(t).instance = t.instance
         /\ InvalidateRoute(t).instance = t.instance
         /\ InvalidateContext(t).version = t.version + 1
         /\ InvalidateRoute(t).version = t.version + 1
         /\ InvalidateContext(t).context = UnknownContext
         /\ InvalidateRoute(t).context = UnknownContext
<1>1. ASSUME NEW u \in Target
      PROVE  /\ InvalidateContext(u) \in Target
             /\ InvalidateContext(u).session = u.session
             /\ InvalidateContext(u).instance = u.instance
             /\ InvalidateContext(u).version = u.version + 1
             /\ InvalidateContext(u).context = UnknownContext
  <2> DEFINE v == [u EXCEPT !.version = u.version + 1]
  <2>1. v \in Target /\ v.session = u.session /\ v.instance = u.instance
        /\ v.version = u.version + 1
    BY DEF Target
  <2>2. InvalidateContext(u) = [v EXCEPT !.context = UnknownContext]
    BY DEF InvalidateContext
  <2> HIDE DEF v
  <2> QED BY <2>1, <2>2 DEF Target
<1> DEFINE u == [t EXCEPT !.route = @ + 1]
<1>2. /\ u \in Target /\ u.session = t.session
      /\ u.instance = t.instance /\ u.version = t.version
  BY DEF Target
<1>3. InvalidateRoute(t) = InvalidateContext(u)
  BY DEF InvalidateRoute
<1> HIDE DEF u
<1> QED BY <1>1, <1>2, <1>3

LEMMA ReportedTarget ==
  ASSUME NEW t \in Target, NEW context \in Contexts
  PROVE  LET u == [t EXCEPT !.context = context, !.version = @ + 1]
         IN /\ u \in Target
            /\ u.session = t.session /\ u.instance = t.instance
            /\ u.version = t.version + 1 /\ u.context = context
<1> DEFINE v == [t EXCEPT !.context = context]
<1>1. /\ v \in Target /\ v.session = t.session /\ v.instance = t.instance
      /\ v.version = t.version /\ v.context = context
  BY DEF Target
<1>2. [t EXCEPT !.context = context, !.version = @ + 1] = [v EXCEPT !.version = v.version + 1]
  OBVIOUS
<1> HIDE DEF v
<1> QED BY <1>1, <1>2 DEF Target

LEMMA NewTargetType ==
  ASSUME NEW s \in Sessions, NEW n \in Nat
  PROVE  NewTarget(s, n) \in Target
BY DEF Target, NewTarget

LEMMA AnalyseType ==
  ASSUME NEW source \in Sources, NEW script \in BOOLEAN, NEW context \in Contexts
  PROVE  Analyse(source, script, context) \in Decisions
BY DEF Analyse, Decisions

(* What is pending stays bounded when some of it goes ...                     *)
LEMMA BoundedIfFewer ==
  ASSUME Bounded, pending' \subseteq pending
  PROVE  Bounded'
<1>1. IsFiniteSet(pending')
  BY FS_Subset DEF Bounded
<1>2. ASSUME NEW s \in Sessions PROVE Cardinality(PendingOf(s)') <= MaxPending
  <2>1. PendingOf(s)' \subseteq PendingOf(s)
    BY DEF PendingOf
  <2>2. IsFiniteSet(PendingOf(s))
    BY FS_Subset DEF Bounded, PendingOf
  <2>3. Cardinality(PendingOf(s)') <= Cardinality(PendingOf(s))
    BY <2>1, <2>2, FS_Subset
  <2>4. Cardinality(PendingOf(s)') \in Nat /\ Cardinality(PendingOf(s)) \in Nat
    BY <2>1, <2>2, FS_Subset, FS_CardinalityType
  <2>5. Cardinality(PendingOf(s)) <= MaxPending
    BY DEF Bounded
  <2> QED BY <2>3, <2>4, <2>5
<1> QED BY <1>1, <1>2 DEF Bounded, PendingOf

(* ... when one intent takes the place of another of its session ...          *)
LEMMA BoundedIfReplaced ==
  ASSUME Bounded, NEW i \in pending, NEW j,
         j.target = i.target, pending' = (pending \ {i}) \cup {j}
  PROVE  Bounded'
<1>1. IsFiniteSet(pending')
  BY FS_RemoveElement, FS_AddElement DEF Bounded
<1>2. ASSUME NEW s \in Sessions PROVE Cardinality(PendingOf(s)') <= MaxPending
  <2>1. IsFiniteSet(PendingOf(s))
    BY FS_Subset DEF Bounded, PendingOf
  <2>2. Cardinality(PendingOf(s)) \in Nat /\ Cardinality(PendingOf(s)) <= MaxPending
    BY <2>1, FS_CardinalityType DEF Bounded
  <2>3. CASE i.target.session = s
    <3> DEFINE rest == PendingOf(s) \ {i}
    <3>1. PendingOf(s)' = rest \cup {j} /\ i \in PendingOf(s)
      BY <2>3 DEF PendingOf
    <3>2. IsFiniteSet(rest) /\ Cardinality(rest) = Cardinality(PendingOf(s)) - 1
      BY <2>1, <3>1, FS_RemoveElement
    <3> HIDE DEF rest
    <3>3. Cardinality(rest \cup {j}) \in {Cardinality(rest), Cardinality(rest) + 1}
      BY <3>2, FS_AddElement
    <3> QED BY <2>2, <3>1, <3>2, <3>3
  <2>4. CASE i.target.session # s
    <3>1. PendingOf(s)' = PendingOf(s)
      BY <2>4 DEF PendingOf
    <3> QED BY <2>2, <3>1
  <2> QED BY <2>3, <2>4
<1> QED BY <1>1, <1>2 DEF Bounded, PendingOf

(* ... and when Insert adds one where there is room.                          *)
LEMMA BoundedIfInserted ==
  ASSUME Bounded, NEW p, NEW s \in Sessions, p.target.session = s, Insert(s, p)
  PROVE  Bounded'
<1>1. CASE pending' \subseteq pending
  BY <1>1, BoundedIfFewer
<1>2. ASSUME NEW id, Room(s),
             pending' = (pending \ PendingOf(s)) \cup Unexpired(s)
                           \cup {NewIntent(id, p)}
      PROVE  Bounded'
  <2> DEFINE kept == (pending \ PendingOf(s)) \cup Unexpired(s)
  <2>1. kept \subseteq pending
    BY DEF PendingOf, Unexpired
  <2>2. IsFiniteSet(kept)
    BY <2>1, FS_Subset DEF Bounded
  <2>3. IsFiniteSet(pending')
    BY <2>2, <1>2, FS_AddElement
  <2>4. ASSUME NEW r \in Sessions PROVE Cardinality(PendingOf(r)') <= MaxPending
    <3>1. IsFiniteSet(PendingOf(r)) /\ IsFiniteSet(Unexpired(r))
      BY FS_Subset DEF Bounded, PendingOf, Unexpired
    <3>2. /\ Cardinality(PendingOf(r)) \in Nat /\ Cardinality(PendingOf(r)) <= MaxPending
          /\ Cardinality(Unexpired(r)) \in Nat
      BY <3>1, FS_CardinalityType DEF Bounded
    <3>3. CASE p.target.session = r
      <4>1. r = s
        BY <3>3
      <4>2. PendingOf(r)' = Unexpired(r) \cup {NewIntent(id, p)}
        BY <3>3, <4>1, <1>2 DEF PendingOf, Unexpired, NewIntent
      <4>3. Cardinality(PendingOf(r)') <= Cardinality(Unexpired(r)) + 1
        <5>1. Cardinality(Unexpired(r) \cup {NewIntent(id, p)})
                \in {Cardinality(Unexpired(r)), Cardinality(Unexpired(r)) + 1}
          BY <3>1, FS_AddElement
        <5> QED BY <4>2, <5>1, <3>2
      <4>4. Cardinality(Unexpired(r)) < MaxPending
        BY <4>1, <1>2 DEF Room
      <4>5. Cardinality(PendingOf(r)') \in Nat
        BY <4>2, <3>1, FS_AddElement, FS_CardinalityType
      <4> QED BY <3>2, <4>3, <4>4, <4>5
    <3>4. CASE p.target.session # r
      <4>1. PendingOf(r)' \subseteq PendingOf(r)
        BY <3>4, <1>2 DEF PendingOf, Unexpired, NewIntent
      <4>2. Cardinality(PendingOf(r)') <= Cardinality(PendingOf(r))
        BY <4>1, <3>1, FS_Subset
      <4>3. Cardinality(PendingOf(r)') \in Nat
        BY <4>1, <3>1, FS_Subset, FS_CardinalityType
      <4> QED BY <3>2, <4>2, <4>3
    <3> QED BY <3>3, <3>4
  <2> QED BY <2>3, <2>4 DEF Bounded
<1>3. pending' \subseteq pending \/ \E id : Room(s) /\
        pending' = (pending \ PendingOf(s)) \cup Unexpired(s) \cup {NewIntent(id, p)}
  BY DEF Insert, Unexpired, PendingOf
<1> QED BY <1>1, <1>2, <1>3

-----------------------------------------------------------------------------
LEMMA NewIntentType ==
  ASSUME NEW id \in Intents, NEW p \in Prepared
  PROVE  NewIntent(id, p) \in Intent
BY DEF NewIntent, Prepared, Intent

LEMMA InsertType ==
  ASSUME TypeOK, NEW p \in Prepared, Insert(p.target.session, p)
  PROVE  pending' \subseteq Intent /\ Bounded' /\ issued' \subseteq Intents
<1>1. p.target.session \in Sessions
  BY DEF Prepared, Target
<1>2. Bounded'
  BY <1>1, BoundedIfInserted DEF TypeOK
<1>3. pending' \subseteq Intent /\ issued' \subseteq Intents
  BY NewIntentType DEF Insert, Unexpired, PendingOf, TypeOK
<1> QED BY <1>2, <1>3

LEMMA TypeInit == Init => TypeOK
<1> SUFFICES ASSUME Init PROVE TypeOK
  OBVIOUS
<1>1. Bounded
  <2>1. \A s \in Sessions : PendingOf(s) = {}
    BY DEF Init, PendingOf
  <2>2. IsFiniteSet({}) /\ Cardinality({}) = 0 /\ 0 <= MaxPending
    BY FS_EmptySet
  <2> QED BY <2>1, <2>2 DEF Init, Bounded
<1>2. target \in [Sessions -> Target]
  BY NewTargetType DEF Init
<1> QED BY <1>1, <1>2 DEF Init, TypeOK

LEMMA TypeStep ==
  ASSUME TypeOK, [Next]_vars
  PROVE  TypeOK'
<1> USE DEF TypeOK, records, clients
<1>1. /\ \A s \in Sessions : target[s] \in Target
      /\ \A c \in Clients : \A h \in held[c] :
           /\ h.target \in Target /\ h.epoch \in Nat
           /\ h.target.session \in Sessions /\ h.target.context \in Contexts
      /\ \A i \in pending : i \in Intent /\ i.target.session \in Sessions
  BY DEF Target, Intent
<1>2. ASSUME NEW s \in Sessions, NEW attached \in BOOLEAN, Register(s, attached)
      PROVE  TypeOK'
  BY <1>2, BoundedIfFewer, NewTargetType DEF Register
<1>3. ASSUME NEW s \in Sessions, Remove(s)
      PROVE  TypeOK'
  BY <1>3, BoundedIfFewer DEF Remove
<1>4. ASSUME NEW s \in Sessions, WriteTerminal(s)
      PROVE  TypeOK'
  BY <1>4, <1>1, BoundedIfFewer, TargetTypes DEF WriteTerminal
<1>5. ASSUME NEW c \in Clients, NEW s \in Sessions, ReadTarget(c, s)
      PROVE  TypeOK'
  BY <1>5, <1>1, BoundedIfFewer DEF ReadTarget
<1>6. ASSUME NEW c \in Clients, NEW context \in Contexts, UpdateContext(c, context)
      PROVE  TypeOK'
  <2>1. PICK h \in held[c] :
          /\ target' = [target EXCEPT ![h.target.session].context = context,
                                     ![h.target.session].version = @ + 1]
          /\ measured' = [measured EXCEPT ![h.target.session] = h.epoch]
    BY <1>6 DEF UpdateContext
  <2> DEFINE s == h.target.session
             u == [target[s] EXCEPT !.context = context, !.version = @ + 1]
  <2>2. s \in Sessions /\ target[s] \in Target
    BY <1>1
  <2>3. u \in Target
    BY <2>2, ReportedTarget
  <2>4. target' = [target EXCEPT ![s] = u]
    BY <2>1, <2>2
  <2>5. target' \in [Sessions -> Target] /\ measured' \in [Sessions -> Nat]
    BY <2>1, <2>3, <2>4, <1>1
  <2> QED BY <1>6, <2>5, BoundedIfFewer DEF UpdateContext
<1>7. ASSUME NEW c \in Clients, NEW source \in Sources, NEW script \in BOOLEAN,
             StartAnalysis(c, source, script)
      PROVE  TypeOK'
  BY <1>7, <1>1, BoundedIfFewer, AnalyseType DEF StartAnalysis, Prepared
<1>8. ASSUME NEW c \in Clients, FinishAnalysis(c)
      PROVE  TypeOK'
  BY <1>8, <1>1, BoundedIfFewer, InsertType DEF FinishAnalysis
<1>9. ASSUME NEW c \in Clients, NEW probe \in Probes, PrepareProbe(c, probe)
      PROVE  TypeOK'
  <2>1. PICK h \in held[c] :
          Insert(h.target.session,
            [source |-> probe, script |-> FALSE, target |-> h.target,
             decision |-> "allow", preserves |-> probe # IntegrationProbe,
             seen |-> h.epoch])
    BY <1>9 DEF PrepareProbe
  <2> DEFINE p == [source |-> probe, script |-> FALSE, target |-> h.target,
                   decision |-> "allow", preserves |-> probe # IntegrationProbe,
                   seen |-> h.epoch]
  <2>2. p \in Prepared /\ p.target.session = h.target.session
    BY <1>1 DEF Prepared, Decisions
  <2>3. Insert(p.target.session, p)
    BY <2>1, <2>2
  <2> HIDE DEF p
  <2>4. pending' \subseteq Intent /\ Bounded' /\ issued' \subseteq Intents
    BY <2>2, <2>3, InsertType
  <2> QED BY <1>9, <2>4 DEF PrepareProbe
<1>10. ASSUME NEW i \in pending, NEW text \in Sources \cup Probes, Approve(i, text)
       PROVE  TypeOK'
  <2> DEFINE j == [i EXCEPT !.approved = TRUE]
  <2>1. j \in Intent /\ j.target = i.target /\ i.id \in Intents
    BY <1>1 DEF Intent
  <2>2. Bounded'
    BY <1>10, <2>1, BoundedIfReplaced DEF Approve
  <2>3. reviewed' \subseteq Intents \X (Sources \cup Probes)
    BY <1>10, <2>1 DEF Approve
  <2>4. pending' \subseteq Intent
    BY <1>10, <2>1 DEF Approve
  <2> QED BY <1>10, <2>2, <2>3, <2>4 DEF Approve
<1>11. ASSUME NEW i \in pending, Cancel(i)
       PROVE  TypeOK'
  BY <1>11, <1>1, BoundedIfFewer DEF Cancel
<1>12. ASSUME NEW i \in pending, Expire(i)
       PROVE  TypeOK'
  BY <1>12, <1>1, BoundedIfReplaced DEF Expire, Intent
<1>13. ASSUME NEW i \in pending, NEW ok \in BOOLEAN, Dispatch(i, ok)
       PROVE  TypeOK'
  BY <1>13, <1>1, BoundedIfFewer, TargetTypes DEF Dispatch
<1>14. ASSUME NEW p \in Profiles, InvalidateProfile(p)
       PROVE  TypeOK'
  BY <1>14, <1>1, BoundedIfFewer, TargetTypes DEF InvalidateProfile
<1>15. CASE UNCHANGED vars
  BY <1>15, BoundedIfFewer DEF vars
<1> HIDE DEF TypeOK
<1> QED
  BY <1>2, <1>3, <1>4, <1>5, <1>6, <1>7, <1>8, <1>9, <1>10, <1>11, <1>12, <1>13,
     <1>14, <1>15 DEF Next

(* Every value the gate holds has its type, and no session ever has more than  *)
(* MaxPending intents waiting: approvals cannot pile up.                       *)
THEOREM TypeCorrect == Spec => []TypeOK
BY TypeInit, TypeStep, PTL DEF Spec

(* Replacing an intent by an approved or expired one changes nothing else of it. *)
LEMMA SameIntent ==
  ASSUME NEW i \in Intent
  PROVE  LET a == [i EXCEPT !.approved = TRUE]
             e == [i EXCEPT !.fresh = FALSE]
         IN /\ a.target = i.target /\ a.id = i.id /\ a.source = i.source
            /\ a.seen = i.seen /\ a.decision = i.decision
            /\ e.target = i.target /\ e.id = i.id /\ e.source = i.source
            /\ e.seen = i.seen /\ e.decision = i.decision /\ e.approved = i.approved
BY DEF Intent

LEMMA PendingStep ==
  ASSUME TypeOK, PendingIsCurrent, [Next]_vars
  PROVE  PendingIsCurrent'
<1> USE DEF PendingIsCurrent, PendingOf, Unexpired, records, clients
<1>1. /\ \A s \in Sessions : target[s] \in Target
      /\ \A i \in pending : i.target \in Target /\ i.target.session \in Sessions
      /\ \A c \in Clients : \A h \in held[c] :
           h.target \in Target /\ h.target.session \in Sessions
      /\ \A c \in Clients : \A p \in analysing[c] :
           p.target \in Target /\ p.target.session \in Sessions
  BY DEF TypeOK, Target, Intent, Prepared
<1>2. ASSUME NEW s \in Sessions, NEW attached \in BOOLEAN, Register(s, attached)
      PROVE  PendingIsCurrent'
  BY <1>2, <1>1 DEF Register
<1>3. ASSUME NEW s \in Sessions, Remove(s)
      PROVE  PendingIsCurrent'
  BY <1>3, <1>1 DEF Remove
<1>4. ASSUME NEW s \in Sessions, WriteTerminal(s)
      PROVE  PendingIsCurrent'
  BY <1>4, <1>1 DEF WriteTerminal
<1>5. ASSUME NEW c \in Clients, NEW s \in Sessions, ReadTarget(c, s)
      PROVE  PendingIsCurrent'
  BY <1>5, <1>1 DEF ReadTarget
<1>6. ASSUME NEW c \in Clients, NEW context \in Contexts, UpdateContext(c, context)
      PROVE  PendingIsCurrent'
  <2>1. PICK h \in held[c] :
          /\ target' = [target EXCEPT ![h.target.session].context = context,
                                     ![h.target.session].version = @ + 1]
          /\ pending' = pending \ PendingOf(h.target.session)
          /\ open' = open
    BY <1>6 DEF UpdateContext
  <2>2. \A s \in Sessions : s # h.target.session => target'[s] = target[s]
    BY <2>1 DEF TypeOK
  <2> QED BY <2>1, <2>2, <1>1
<1>7. ASSUME NEW c \in Clients, NEW source \in Sources, NEW script \in BOOLEAN,
             StartAnalysis(c, source, script)
      PROVE  PendingIsCurrent'
  BY <1>7, <1>1 DEF StartAnalysis
<1>8. ASSUME NEW c \in Clients, FinishAnalysis(c)
      PROVE  PendingIsCurrent'
  BY <1>8, <1>1 DEF FinishAnalysis, Insert, NewIntent
<1>9. ASSUME NEW c \in Clients, NEW probe \in Probes, PrepareProbe(c, probe)
      PROVE  PendingIsCurrent'
  BY <1>9, <1>1 DEF PrepareProbe, Insert, NewIntent
<1>10. ASSUME NEW i \in pending, NEW text \in Sources \cup Probes, Approve(i, text)
       PROVE  PendingIsCurrent'
  <2> DEFINE j == [i EXCEPT !.approved = TRUE]
  <2>1. j.target = i.target
    BY SameIntent DEF TypeOK
  <2>2. /\ pending' = (pending \ {i}) \cup {j}
        /\ UNCHANGED <<open, target>>
    BY <1>10 DEF Approve
  <2> HIDE DEF j
  <2> QED BY <1>1, <2>1, <2>2
<1>11. ASSUME NEW i \in pending, Cancel(i)
       PROVE  PendingIsCurrent'
  BY <1>11, <1>1 DEF Cancel
<1>12. ASSUME NEW i \in pending, Expire(i)
       PROVE  PendingIsCurrent'
  <2> DEFINE j == [i EXCEPT !.fresh = FALSE]
  <2>1. j.target = i.target
    BY SameIntent DEF TypeOK
  <2>2. /\ pending' = (pending \ {i}) \cup {j}
        /\ UNCHANGED <<open, target>>
    BY <1>12 DEF Expire
  <2> HIDE DEF j
  <2> QED BY <1>1, <2>1, <2>2
<1>13. ASSUME NEW i \in pending, NEW ok \in BOOLEAN, Dispatch(i, ok)
       PROVE  PendingIsCurrent'
  BY <1>13, <1>1 DEF Dispatch, MayDispatch, Checked, Consumed
<1>14. ASSUME NEW p \in Profiles, InvalidateProfile(p)
       PROVE  PendingIsCurrent'
  BY <1>14, <1>1 DEF InvalidateProfile
<1>15. CASE UNCHANGED vars
  BY <1>15 DEF vars
<1> HIDE DEF PendingIsCurrent, PendingOf, Unexpired, records, clients
<1> QED
  BY <1>2, <1>3, <1>4, <1>5, <1>6, <1>7, <1>8, <1>9, <1>10, <1>11,
     <1>12, <1>13, <1>14, <1>15 DEF Next

(* Time only goes forward: the target of a session is what it was, in a shell     *)
(* that is what it was, or has a higher version, or belongs to a new instance.  *)
Aged(s) ==
  \/ target'[s] = target[s] /\ epoch'[s] = epoch[s]
  \/ target'[s].instance = target[s].instance /\ target'[s].version > target[s].version
  \/ target'[s].instance > instances

Ages ==
  /\ instances <= instances'
  /\ \A s \in Sessions : /\ Aged(s)
                         /\ target'[s].session = s /\ target'[s].instance <= instances'

LEMMA StaysDated ==
  ASSUME TypeOK, TypeOK', Ages, NEW t \in Target, NEW seen, Dated(t, seen)
  PROVE  Dated(t, seen)'
<1>1. t.session \in Sessions /\ t.instance \in Nat /\ t.version \in Nat
  BY DEF Target
<1>2. \A s \in Sessions : target[s].instance \in Nat /\ target[s].version \in Nat
                          /\ target'[s].instance \in Nat /\ target'[s].version \in Nat
  BY DEF TypeOK, Target
<1>3. instances \in Nat /\ instances' \in Nat
  BY DEF TypeOK
<1> QED BY <1>1, <1>2, <1>3 DEF Ages, Aged, Dated

LEMMA TargetsAge ==
  ASSUME TypeOK, SnapshotsAreDated, [Next]_vars
  PROVE  Ages
<1> USE DEF Ages, Aged, records, clients
<1>1. /\ instances \in Nat
      /\ \A s \in Sessions : /\ target[s] \in Target
                             /\ target[s].instance \in Nat /\ target[s].version \in Nat
      /\ \A i \in pending : i.target.session \in Sessions
      /\ \A c \in Clients : \A h \in held[c] : h.target.session \in Sessions
      /\ target \in [Sessions -> Target]
      /\ \A s \in Sessions : target[s].session = s /\ target[s].instance <= instances
  <2>1. instances \in Nat /\ target \in [Sessions -> Target]
    BY DEF TypeOK
  <2>2. \A s \in Sessions : target[s].instance \in Nat /\ target[s].version \in Nat
    BY <2>1 DEF Target
  <2>3. /\ \A i \in pending : i.target.session \in Sessions
        /\ \A c \in Clients : \A h \in held[c] : h.target.session \in Sessions
    BY DEF TypeOK, Target, Intent
  <2> QED BY <2>1, <2>2, <2>3 DEF SnapshotsAreDated
<1>2. ASSUME NEW s \in Sessions, NEW attached \in BOOLEAN, Register(s, attached)
      PROVE  Ages
  BY <1>2, <1>1 DEF Register, NewTarget
<1>3. ASSUME NEW s \in Sessions, Remove(s)
      PROVE  Ages
  BY <1>3, <1>1 DEF Remove
<1>4. ASSUME NEW s \in Sessions, WriteTerminal(s)
      PROVE  Ages
  BY <1>4, <1>1, TargetTypes DEF WriteTerminal
<1>5. ASSUME NEW c \in Clients, NEW s \in Sessions, ReadTarget(c, s)
      PROVE  Ages
  <2>1. UNCHANGED <<target, epoch, instances>>
    BY <1>5 DEF ReadTarget
  <2> QED BY <2>1, <1>1
<1>6. ASSUME NEW c \in Clients, NEW context \in Contexts, UpdateContext(c, context)
      PROVE  Ages
  <2>1. PICK h \in held[c] :
          /\ target' = [target EXCEPT ![h.target.session].context = context,
                                     ![h.target.session].version = @ + 1]
          /\ epoch' = epoch /\ instances' = instances
    BY <1>6 DEF UpdateContext
  <2> DEFINE s == h.target.session
             u == [target[s] EXCEPT !.context = context, !.version = @ + 1]
  <2>2. s \in Sessions
    BY <1>1
  <2>3. u.session = target[s].session /\ u.instance = target[s].instance /\ u.version = target[s].version + 1
    BY <2>2, <1>1, ReportedTarget
  <2>4. target' = [target EXCEPT ![s] = u]
    BY <2>1, <2>2, <1>1
  <2> HIDE DEF u
  <2> QED BY <2>1, <2>2, <2>3, <2>4, <1>1
<1>7. ASSUME NEW c \in Clients, NEW source \in Sources, NEW script \in BOOLEAN,
             StartAnalysis(c, source, script)
      PROVE  Ages
  BY <1>7, <1>1 DEF StartAnalysis
<1>8. ASSUME NEW c \in Clients, FinishAnalysis(c)
      PROVE  Ages
  BY <1>8, <1>1 DEF FinishAnalysis
<1>9. ASSUME NEW c \in Clients, NEW probe \in Probes, PrepareProbe(c, probe)
      PROVE  Ages
  BY <1>9, <1>1 DEF PrepareProbe
<1>10. ASSUME NEW i \in pending, NEW text \in Sources \cup Probes, Approve(i, text)
       PROVE  Ages
  BY <1>10, <1>1 DEF Approve
<1>11. ASSUME NEW i \in pending, Cancel(i)
       PROVE  Ages
  BY <1>11, <1>1 DEF Cancel
<1>12. ASSUME NEW i \in pending, Expire(i)
       PROVE  Ages
  BY <1>12, <1>1 DEF Expire
<1>13. ASSUME NEW i \in pending, NEW ok \in BOOLEAN, Dispatch(i, ok)
       PROVE  Ages
  BY <1>13, <1>1, TargetTypes DEF Dispatch
<1>14. ASSUME NEW p \in Profiles, InvalidateProfile(p)
       PROVE  Ages
  BY <1>14, <1>1, TargetTypes DEF InvalidateProfile
<1>15. CASE UNCHANGED vars
  BY <1>15, <1>1 DEF vars
<1> HIDE DEF Ages, Aged, records, clients
<1> QED
  BY <1>2, <1>3, <1>4, <1>5, <1>6, <1>7, <1>8, <1>9, <1>10, <1>11,
     <1>12, <1>13, <1>14, <1>15 DEF Next

(* What Insert adds, if it adds anything.                                      *)
LEMMA InsertedIntent ==
  ASSUME NEW p, NEW s, Insert(s, p)
  PROVE  \A i \in pending' :
           \/ i \in pending
           \/ p.target = target[s] /\ \E id \in Intents \ issued :
                 i = NewIntent(id, p) /\ issued' = issued \cup {id}
BY DEF Insert, Unexpired, PendingOf

LEMMA NewIntentFields ==
  ASSUME NEW id, NEW p
  PROVE  LET i == NewIntent(id, p)
         IN /\ i.id = id /\ i.target = p.target /\ i.seen = p.seen
            /\ i.source = p.source /\ i.decision = p.decision
            /\ ~i.approved /\ i.fresh
BY DEF NewIntent

LEMMA SnapshotStep ==
  ASSUME TypeOK, TypeOK', PendingIsCurrent, SnapshotsAreDated, Ages, [Next]_vars
  PROVE  SnapshotsAreDated'
<1> USE DEF SnapshotsAreDated, PendingOf, Unexpired, records, clients
<1>1. /\ \A c \in Clients : \A h \in held[c] : Dated(h.target, h.epoch)'
      /\ \A c \in Clients : \A p \in analysing[c] : Dated(p.target, p.seen)'
      /\ \A s \in Sessions : target'[s].session = s /\ target'[s].instance <= instances'
  <2>1. ASSUME NEW c \in Clients, NEW h \in held[c] PROVE Dated(h.target, h.epoch)'
    <3>1. h.target \in Target /\ Dated(h.target, h.epoch)
      BY DEF TypeOK
    <3> QED BY <3>1, StaysDated
  <2>2. ASSUME NEW c \in Clients, NEW p \in analysing[c] PROVE Dated(p.target, p.seen)'
    <3>1. p.target \in Target /\ Dated(p.target, p.seen)
      BY DEF TypeOK, Prepared
    <3> QED BY <3>1, StaysDated
  <2> QED BY <2>1, <2>2 DEF Ages
<1>2. /\ \A i \in pending : /\ i.target.session \in Sessions
                            /\ i.target = target[i.target.session]
      /\ \A c \in Clients : \A h \in held[c] : h.target.session \in Sessions
      /\ \A c \in Clients : \A p \in analysing[c] : p.target.session \in Sessions
      /\ epoch \in [Sessions -> Nat]
      /\ held \in [Clients -> SUBSET [target : Target, epoch : Nat]]
      /\ analysing \in [Clients -> SUBSET Prepared]
  <2>1. \A i \in pending : /\ i.target.session \in Sessions
                           /\ i.target = target[i.target.session]
    BY DEF TypeOK, PendingIsCurrent, Target, Intent
  <2>2. \A c \in Clients : \A h \in held[c] : h.target.session \in Sessions
    BY DEF TypeOK, Target
  <2>3. \A c \in Clients : \A p \in analysing[c] : p.target.session \in Sessions
    BY DEF TypeOK, Target, Prepared
  <2> QED BY <2>1, <2>2, <2>3 DEF TypeOK
<1>3. ASSUME NEW s \in Sessions, NEW attached \in BOOLEAN, Register(s, attached)
      PROVE  SnapshotsAreDated'
  BY <1>3, <1>1, <1>2 DEF Register
<1>4. ASSUME NEW s \in Sessions, Remove(s)
      PROVE  SnapshotsAreDated'
  BY <1>4, <1>1, <1>2 DEF Remove
<1>5. ASSUME NEW s \in Sessions, WriteTerminal(s)
      PROVE  SnapshotsAreDated'
  BY <1>5, <1>1, <1>2 DEF WriteTerminal
<1>6. ASSUME NEW c \in Clients, NEW s \in Sessions, ReadTarget(c, s)
      PROVE  SnapshotsAreDated'
  <2>1. \A d \in Clients : \A h \in held'[d] :
          h \in held[d] \/ h = [target |-> target[s], epoch |-> epoch[s]]
    BY <1>6, <1>2 DEF ReadTarget
  <2>2. target[s] \in Target /\ target[s].session = s /\ target[s].instance <= instances
    BY DEF TypeOK
  <2>3. Dated(target[s], epoch[s])'
    BY <1>6, <2>2 DEF ReadTarget, Dated, Target
  <2> QED BY <1>6, <1>1, <1>2, <2>1, <2>2, <2>3 DEF ReadTarget
<1>7. ASSUME NEW c \in Clients, NEW context \in Contexts, UpdateContext(c, context)
      PROVE  SnapshotsAreDated'
  BY <1>7, <1>1, <1>2 DEF UpdateContext
<1>8. ASSUME NEW c \in Clients, NEW source \in Sources, NEW script \in BOOLEAN,
             StartAnalysis(c, source, script)
      PROVE  SnapshotsAreDated'
  <2>1. \A d \in Clients : \A p \in analysing'[d] :
          \/ p \in analysing[d]
          \/ \E h \in held[c] : p.target = h.target /\ p.seen = h.epoch
    BY <1>8, <1>2 DEF StartAnalysis
  <2> QED BY <1>8, <1>1, <1>2, <2>1 DEF StartAnalysis
<1>9. ASSUME NEW c \in Clients, FinishAnalysis(c)
      PROVE  SnapshotsAreDated'
  <2>1. \A i \in pending' : \/ i \in pending
                            \/ \E p \in analysing[c] : /\ i.target = p.target /\ i.seen = p.seen
                                                      /\ p.target = target[p.target.session]
    BY <1>9, InsertedIntent, NewIntentFields DEF FinishAnalysis
  <2>2. \A d \in Clients : \A p \in analysing'[d] : p \in analysing[d]
    BY <1>9, <1>2 DEF FinishAnalysis
  <2>3. \A i \in pending' : i.seen = epoch[i.target.session]
    BY <2>1, <1>2 DEF Dated
  <2> QED BY <1>9, <1>1, <1>2, <2>2, <2>3 DEF FinishAnalysis
<1>10. ASSUME NEW c \in Clients, NEW probe \in Probes, PrepareProbe(c, probe)
       PROVE  SnapshotsAreDated'
  <2>1. PICK h \in held[c] :
          Insert(h.target.session,
            [source |-> probe, script |-> FALSE, target |-> h.target,
             decision |-> "allow", preserves |-> probe # IntegrationProbe,
             seen |-> h.epoch])
    BY <1>10 DEF PrepareProbe
  <2> DEFINE p == [source |-> probe, script |-> FALSE, target |-> h.target,
                   decision |-> "allow", preserves |-> probe # IntegrationProbe,
                   seen |-> h.epoch]
  <2>2. p.target = h.target /\ p.seen = h.epoch
    OBVIOUS
  <2> HIDE DEF p
  <2>3. Insert(h.target.session, p)
    BY <2>1 DEF p
  <2>4. \A i \in pending' : \/ i \in pending
                            \/ /\ i.target = h.target /\ i.seen = h.epoch
                               /\ h.target = target[h.target.session]
    BY <2>2, <2>3, InsertedIntent, NewIntentFields
  <2>5. \A i \in pending' : i.seen = epoch[i.target.session]
    BY <2>4, <1>2 DEF Dated
  <2> QED BY <1>10, <1>1, <1>2, <2>5 DEF PrepareProbe
<1>11. ASSUME NEW i \in pending, NEW text \in Sources \cup Probes, Approve(i, text)
       PROVE  SnapshotsAreDated'
  <2> DEFINE j == [i EXCEPT !.approved = TRUE]
  <2>1. j.target = i.target /\ j.seen = i.seen
    BY SameIntent DEF TypeOK
  <2>2. /\ pending' = (pending \ {i}) \cup {j}
        /\ UNCHANGED <<held, analysing, instances, epoch>>
    BY <1>11 DEF Approve
  <2> HIDE DEF j
  <2> QED BY <1>1, <1>2, <2>1, <2>2
<1>12. ASSUME NEW i \in pending, Cancel(i)
       PROVE  SnapshotsAreDated'
  BY <1>12, <1>1, <1>2 DEF Cancel
<1>13. ASSUME NEW i \in pending, Expire(i)
       PROVE  SnapshotsAreDated'
  <2> DEFINE j == [i EXCEPT !.fresh = FALSE]
  <2>1. j.target = i.target /\ j.seen = i.seen
    BY SameIntent DEF TypeOK
  <2>2. /\ pending' = (pending \ {i}) \cup {j}
        /\ UNCHANGED <<held, analysing, instances, epoch>>
    BY <1>13 DEF Expire
  <2> HIDE DEF j
  <2> QED BY <1>1, <1>2, <2>1, <2>2
<1>14. ASSUME NEW i \in pending, NEW ok \in BOOLEAN, Dispatch(i, ok)
       PROVE  SnapshotsAreDated'
  BY <1>14, <1>1, <1>2 DEF Dispatch, MayDispatch, Checked, Consumed
<1>15. ASSUME NEW p \in Profiles, InvalidateProfile(p)
       PROVE  SnapshotsAreDated'
  BY <1>15, <1>1, <1>2 DEF InvalidateProfile
<1>16. CASE UNCHANGED vars
  BY <1>16, <1>1, <1>2 DEF vars
<1> HIDE DEF SnapshotsAreDated, PendingOf, Unexpired, records, clients
<1> QED
  BY <1>3, <1>4, <1>5, <1>6, <1>7, <1>8, <1>9, <1>10, <1>11, <1>12,
     <1>13, <1>14, <1>15, <1>16 DEF Next

(* Only a dispatch writes.                                                   *)
LEMMA LogStep ==
  ASSUME [Next]_vars
  PROVE  UNCHANGED log \/ \E i \in pending, ok \in BOOLEAN : Dispatch(i, ok)
BY DEF Next, vars, Register, Remove, WriteTerminal, ReadTarget, UpdateContext,
       StartAnalysis, FinishAnalysis, PrepareProbe, Approve, Cancel, Expire,
       InvalidateProfile

LEMMA ContextStep ==
  ASSUME TypeOK, SnapshotsAreDated, ContextIsCurrent, [Next]_vars
  PROVE  ContextIsCurrent'
<1> USE DEF ContextIsCurrent, records, clients
<1>1. /\ \A s \in Sessions : target[s] \in Target
      /\ target \in [Sessions -> Target] /\ epoch \in [Sessions -> Nat]
      /\ measured \in [Sessions -> Nat] /\ open \subseteq Sessions
  BY DEF TypeOK
<1>2. /\ \A c \in Clients : \A h \in held[c] : h.target.session \in Sessions
      /\ \A i \in pending : i.target.session \in Sessions
  BY DEF TypeOK, Target, Intent
<1>3. ASSUME NEW s \in Sessions, NEW attached \in BOOLEAN, Register(s, attached)
      PROVE  ContextIsCurrent'
  BY <1>3, <1>1, <1>2 DEF Register, NewTarget
<1>4. ASSUME NEW s \in Sessions, Remove(s)
      PROVE  ContextIsCurrent'
  BY <1>4, <1>1, <1>2 DEF Remove
<1>5. ASSUME NEW s \in Sessions, WriteTerminal(s)
      PROVE  ContextIsCurrent'
  BY <1>5, <1>1, <1>2, TargetTypes DEF WriteTerminal
<1>6. ASSUME NEW c \in Clients, NEW s \in Sessions, ReadTarget(c, s)
      PROVE  ContextIsCurrent'
  BY <1>6, <1>1, <1>2 DEF ReadTarget
<1>7. ASSUME NEW c \in Clients, NEW context \in Contexts, UpdateContext(c, context)
      PROVE  ContextIsCurrent'
  <2>1. PICK h \in held[c] :
          /\ h.target.session \in open
          /\ target[h.target.session] = h.target
          /\ target' = [target EXCEPT ![h.target.session].context = context,
                                     ![h.target.session].version = @ + 1]
          /\ measured' = [measured EXCEPT ![h.target.session] = h.epoch]
          /\ epoch' = epoch /\ open' = open
    BY <1>7 DEF UpdateContext
  <2>2. h.epoch = epoch[h.target.session]
    BY <2>1, <1>2 DEF SnapshotsAreDated, Dated
  <2>3. \A r \in open : r # h.target.session =>
          target'[r] = target[r] /\ measured'[r] = measured[r]
    BY <2>1, <1>1
  <2>4. measured'[h.target.session] = epoch'[h.target.session]
    BY <2>1, <2>2, <1>1
  <2> QED BY <2>1, <2>3, <2>4
<1>8. ASSUME NEW c \in Clients, NEW source \in Sources, NEW script \in BOOLEAN,
             StartAnalysis(c, source, script)
      PROVE  ContextIsCurrent'
  BY <1>8, <1>1, <1>2 DEF StartAnalysis
<1>9. ASSUME NEW c \in Clients, FinishAnalysis(c)
      PROVE  ContextIsCurrent'
  BY <1>9, <1>1, <1>2 DEF FinishAnalysis
<1>10. ASSUME NEW c \in Clients, NEW probe \in Probes, PrepareProbe(c, probe)
       PROVE  ContextIsCurrent'
  BY <1>10, <1>1, <1>2 DEF PrepareProbe
<1>11. ASSUME NEW i \in pending, NEW text \in Sources \cup Probes, Approve(i, text)
       PROVE  ContextIsCurrent'
  BY <1>11, <1>1, <1>2 DEF Approve
<1>12. ASSUME NEW i \in pending, Cancel(i)
       PROVE  ContextIsCurrent'
  BY <1>12, <1>1, <1>2 DEF Cancel
<1>13. ASSUME NEW i \in pending, Expire(i)
       PROVE  ContextIsCurrent'
  BY <1>13, <1>1, <1>2 DEF Expire
<1>14. ASSUME NEW i \in pending, NEW ok \in BOOLEAN, Dispatch(i, ok)
       PROVE  ContextIsCurrent'
  BY <1>14, <1>1, <1>2, TargetTypes DEF Dispatch
<1>15. ASSUME NEW p \in Profiles, InvalidateProfile(p)
       PROVE  ContextIsCurrent'
  BY <1>15, <1>1, <1>2, TargetTypes DEF InvalidateProfile
<1>16. CASE UNCHANGED vars
  BY <1>16, <1>1, <1>2 DEF vars
<1> HIDE DEF ContextIsCurrent, records, clients
<1> QED
  BY <1>3, <1>4, <1>5, <1>6, <1>7, <1>8, <1>9, <1>10, <1>11, <1>12,
     <1>13, <1>14, <1>15, <1>16 DEF Next

LEMMA ShellStep ==
  ASSUME TypeOK, SnapshotsAreDated, WrittenInReviewedShell, [Next]_vars
  PROVE  WrittenInReviewedShell'
<1>1. CASE UNCHANGED log
  BY <1>1 DEF WrittenInReviewedShell
<1>2. ASSUME NEW i \in pending, NEW ok \in BOOLEAN, Dispatch(i, ok)
      PROVE  WrittenInReviewedShell'
  <2>1. log' = Append(log, [intent |-> i, epoch |-> epoch[i.target.session]])
    BY <1>2 DEF Dispatch
  <2>2. i.seen = epoch[i.target.session]
    BY DEF SnapshotsAreDated
  <2>3. log \in Seq([intent : Intent, epoch : Nat])
    BY DEF TypeOK
  <2> QED BY <2>1, <2>2, <2>3 DEF WrittenInReviewedShell
<1> QED
  BY <1>1, <1>2, LogStep

LEMMA IdsKept ==
  ASSUME IdsAreSpent, UNCHANGED log, issued \subseteq issued',
         \A i \in pending' : \/ \E j \in pending : j.id = i.id
                             \/ i.id \in issued' \ issued,
         \A i, j \in pending' : i.id = j.id => i = j
  PROVE  IdsAreSpent'
BY DEF IdsAreSpent

LEMMA IdsInserted ==
  ASSUME IdsAreSpent, UNCHANGED log, NEW p, NEW s, Insert(s, p)
  PROVE  IdsAreSpent'
<1>1. issued \subseteq issued'
  BY DEF Insert
<1>2. ASSUME NEW i \in pending'
      PROVE  \/ i \in pending
             \/ i.id \notin issued /\ issued' = issued \cup {i.id} /\ i = NewIntent(i.id, p)
  BY InsertedIntent, NewIntentFields
<1>3. \A i, j \in pending' : i.id = j.id => i = j
  BY <1>2 DEF IdsAreSpent
<1> QED BY <1>1, <1>2, <1>3, IdsKept

LEMMA IdsStep ==
  ASSUME TypeOK, IdsAreSpent, [Next]_vars
  PROVE  IdsAreSpent'
<1>1. ASSUME NEW s \in Sessions, NEW attached \in BOOLEAN, Register(s, attached)
      PROVE  IdsAreSpent'
  <2>1. pending' \subseteq pending /\ UNCHANGED <<issued, log>>
    BY <1>1 DEF Register, records, clients
  <2> QED BY <2>1, IdsKept DEF IdsAreSpent
<1>2. ASSUME NEW s \in Sessions, Remove(s)
      PROVE  IdsAreSpent'
  <2>1. pending' \subseteq pending /\ UNCHANGED <<issued, log>>
    BY <1>2 DEF Remove, records, clients
  <2> QED BY <2>1, IdsKept DEF IdsAreSpent
<1>3. ASSUME NEW s \in Sessions, WriteTerminal(s)
      PROVE  IdsAreSpent'
  <2>1. pending' \subseteq pending /\ UNCHANGED <<issued, log>>
    BY <1>3 DEF WriteTerminal, records, clients
  <2> QED BY <2>1, IdsKept DEF IdsAreSpent
<1>4. ASSUME NEW c \in Clients, NEW s \in Sessions, ReadTarget(c, s)
      PROVE  IdsAreSpent'
  <2>1. pending' \subseteq pending /\ UNCHANGED <<issued, log>>
    BY <1>4 DEF ReadTarget, records, clients
  <2> QED BY <2>1, IdsKept DEF IdsAreSpent
<1>5. ASSUME NEW c \in Clients, NEW context \in Contexts, UpdateContext(c, context)
      PROVE  IdsAreSpent'
  <2>1. pending' \subseteq pending /\ UNCHANGED <<issued, log>>
    BY <1>5 DEF UpdateContext, records, clients
  <2> QED BY <2>1, IdsKept DEF IdsAreSpent
<1>6. ASSUME NEW c \in Clients, NEW source \in Sources, NEW script \in BOOLEAN,
             StartAnalysis(c, source, script)
      PROVE  IdsAreSpent'
  <2>1. pending' \subseteq pending /\ UNCHANGED <<issued, log>>
    BY <1>6 DEF StartAnalysis, records, clients
  <2> QED BY <2>1, IdsKept DEF IdsAreSpent
<1>7. ASSUME NEW c \in Clients, FinishAnalysis(c)
      PROVE  IdsAreSpent'
  <2>1. UNCHANGED log
    BY <1>7 DEF FinishAnalysis
  <2>2. CASE UNCHANGED <<pending, issued>>
    BY <2>1, <2>2, IdsKept DEF IdsAreSpent
  <2>3. ASSUME NEW p \in analysing[c], Insert(p.target.session, p)
        PROVE  IdsAreSpent'
    BY <2>1, <2>3, IdsInserted
  <2> QED BY <1>7, <2>2, <2>3 DEF FinishAnalysis
<1>8. ASSUME NEW c \in Clients, NEW probe \in Probes, PrepareProbe(c, probe)
      PROVE  IdsAreSpent'
  <2>1. UNCHANGED log /\ \E p, s : Insert(s, p)
    BY <1>8 DEF PrepareProbe
  <2> QED BY <2>1, IdsInserted
<1>9. ASSUME NEW i \in pending, NEW text \in Sources \cup Probes, Approve(i, text)
      PROVE  IdsAreSpent'
  <2> DEFINE j == [i EXCEPT !.approved = TRUE]
  <2>1. j.id = i.id
    BY SameIntent DEF TypeOK
  <2>2. /\ pending' = (pending \ {i}) \cup {j}
        /\ UNCHANGED <<issued, log>>
    BY <1>9 DEF Approve
  <2> HIDE DEF j
  <2>3. \A k, m \in pending' : k.id = m.id => k = m
    BY <2>1, <2>2 DEF IdsAreSpent
  <2> QED BY <2>1, <2>2, <2>3, IdsKept
<1>10. ASSUME NEW i \in pending, Cancel(i)
       PROVE  IdsAreSpent'
  <2>1. pending' \subseteq pending /\ UNCHANGED <<issued, log>>
    BY <1>10 DEF Cancel, records, clients
  <2> QED BY <2>1, IdsKept DEF IdsAreSpent
<1>11. ASSUME NEW i \in pending, Expire(i)
       PROVE  IdsAreSpent'
  <2> DEFINE j == [i EXCEPT !.fresh = FALSE]
  <2>1. j.id = i.id
    BY SameIntent DEF TypeOK
  <2>2. /\ pending' = (pending \ {i}) \cup {j}
        /\ UNCHANGED <<issued, log>>
    BY <1>11 DEF Expire
  <2> HIDE DEF j
  <2>3. \A k, m \in pending' : k.id = m.id => k = m
    BY <2>1, <2>2 DEF IdsAreSpent
  <2> QED BY <2>1, <2>2, <2>3, IdsKept
<1>12. ASSUME NEW i \in pending, NEW ok \in BOOLEAN, Dispatch(i, ok)
       PROVE  IdsAreSpent'
  <2>1. /\ log' = Append(log, [intent |-> i, epoch |-> epoch[i.target.session]])
        /\ pending' \subseteq pending \ {i} /\ issued' = issued
    BY <1>12 DEF Dispatch, Consumed, PendingOf
  <2>2. log \in Seq([intent : Intent, epoch : Nat])
    BY DEF TypeOK
  <2>3. \A n \in DOMAIN log' : log'[n].intent.id \in issued'
    BY <2>1, <2>2 DEF IdsAreSpent
  <2>4. \A n \in DOMAIN log' : \A j \in pending' : log'[n].intent.id # j.id
    BY <2>1, <2>2 DEF IdsAreSpent
  <2> QED BY <2>1, <2>3, <2>4 DEF IdsAreSpent
<1>13. ASSUME NEW p \in Profiles, InvalidateProfile(p)
       PROVE  IdsAreSpent'
  <2>1. pending' \subseteq pending /\ UNCHANGED <<issued, log>>
    BY <1>13 DEF InvalidateProfile, records, clients
  <2> QED BY <2>1, IdsKept DEF IdsAreSpent
<1>14. CASE UNCHANGED vars
  BY <1>14, IdsKept DEF vars, IdsAreSpent
<1> QED
  BY <1>1, <1>2, <1>3, <1>4, <1>5, <1>6, <1>7, <1>8, <1>9, <1>10,
     <1>11, <1>12, <1>13, <1>14 DEF Next

LEMMA OnceStep ==
  ASSUME TypeOK, IdsAreSpent, WrittenOnce, [Next]_vars
  PROVE  WrittenOnce'
<1>1. CASE UNCHANGED log
  BY <1>1 DEF WrittenOnce
<1>2. ASSUME NEW i \in pending, NEW ok \in BOOLEAN, Dispatch(i, ok)
      PROVE  WrittenOnce'
  <2>1. log' = Append(log, [intent |-> i, epoch |-> epoch[i.target.session]])
    BY <1>2 DEF Dispatch
  <2>2. log \in Seq([intent : Intent, epoch : Nat])
    BY DEF TypeOK
  <2>3. \A n \in DOMAIN log : log[n].intent.id # i.id
    BY DEF IdsAreSpent
  <2> QED BY <2>1, <2>2, <2>3 DEF WrittenOnce
<1> QED
  BY <1>1, <1>2, LogStep

LEMMA AppendAt ==
  ASSUME NEW S, NEW seq \in Seq(S), NEW e
  PROVE  \A n \in DOMAIN Append(seq, e) :
           \/ n \in DOMAIN seq /\ Append(seq, e)[n] = seq[n]
           \/ Append(seq, e)[n] = e
OBVIOUS

LEMMA AllowedIfUnderstood ==
  ASSUME NEW source, NEW script \in BOOLEAN, NEW context,
         Analyse(source, script, context) = "allow"
  PROVE  context \in Complete
BY DEF Analyse

LEMMA DecisionStep ==
  ASSUME TypeOK, DecisionsAreCautious, [Next]_vars
  PROVE  DecisionsAreCautious'
<1>1. /\ \A i \in pending : i \in Intent
      /\ analysing \in [Clients -> SUBSET Prepared]
  BY DEF TypeOK
<1>2. ASSUME NEW s \in Sessions, NEW attached \in BOOLEAN, Register(s, attached)
      PROVE  DecisionsAreCautious'
  <2>1. pending' \subseteq pending /\ UNCHANGED <<analysing, reviewed>>
    BY <1>2 DEF Register, records, clients
  <2> QED BY <2>1 DEF DecisionsAreCautious
<1>3. ASSUME NEW s \in Sessions, Remove(s)
      PROVE  DecisionsAreCautious'
  <2>1. pending' \subseteq pending /\ UNCHANGED <<analysing, reviewed>>
    BY <1>3 DEF Remove, records, clients
  <2> QED BY <2>1 DEF DecisionsAreCautious
<1>4. ASSUME NEW s \in Sessions, WriteTerminal(s)
      PROVE  DecisionsAreCautious'
  <2>1. pending' \subseteq pending /\ UNCHANGED <<analysing, reviewed>>
    BY <1>4 DEF WriteTerminal, records, clients
  <2> QED BY <2>1 DEF DecisionsAreCautious
<1>5. ASSUME NEW c \in Clients, NEW s \in Sessions, ReadTarget(c, s)
      PROVE  DecisionsAreCautious'
  <2>1. pending' \subseteq pending /\ UNCHANGED <<analysing, reviewed>>
    BY <1>5 DEF ReadTarget, records, clients
  <2> QED BY <2>1 DEF DecisionsAreCautious
<1>6. ASSUME NEW c \in Clients, NEW context \in Contexts, UpdateContext(c, context)
      PROVE  DecisionsAreCautious'
  <2>1. pending' \subseteq pending /\ UNCHANGED <<analysing, reviewed>>
    BY <1>6 DEF UpdateContext, records, clients
  <2> QED BY <2>1 DEF DecisionsAreCautious
<1>7. ASSUME NEW c \in Clients, NEW source \in Sources, NEW script \in BOOLEAN,
             StartAnalysis(c, source, script)
      PROVE  DecisionsAreCautious'
  <2>1. UNCHANGED <<pending, reviewed>>
    BY <1>7 DEF StartAnalysis, records
  <2>2. \A d \in Clients : \A p \in analysing'[d] :
          \/ p \in analysing[d]
          \/ \E h \in held[c] : /\ p.target = h.target
                               /\ p.decision = Analyse(source, script, h.target.context)
    BY <1>7, <1>1 DEF StartAnalysis
  <2>3. \A d \in Clients : \A p \in analysing'[d] : Understood(p)
    BY <2>2, AllowedIfUnderstood DEF DecisionsAreCautious, Understood
  <2> QED BY <2>1, <2>3 DEF DecisionsAreCautious, Understood
<1>8. ASSUME NEW c \in Clients, FinishAnalysis(c)
      PROVE  DecisionsAreCautious'
  <2>1. \A i \in pending' : \/ i \in pending
                          \/ \E p \in analysing[c] : /\ i.target = p.target
                                                    /\ i.source = p.source
                                                    /\ i.decision = p.decision
                                                    /\ ~i.approved
    BY <1>8, InsertedIntent, NewIntentFields DEF FinishAnalysis
  <2>2. \A d \in Clients : \A p \in analysing'[d] : p \in analysing[d]
    BY <1>8, <1>1 DEF FinishAnalysis
  <2>3. reviewed' = reviewed
    BY <1>8 DEF FinishAnalysis
  <2> QED BY <2>1, <2>2, <2>3 DEF DecisionsAreCautious, Understood
<1>9. ASSUME NEW c \in Clients, NEW probe \in Probes, PrepareProbe(c, probe)
      PROVE  DecisionsAreCautious'
  <2>1. PICK h \in held[c] :
          Insert(h.target.session,
            [source |-> probe, script |-> FALSE, target |-> h.target,
             decision |-> "allow", preserves |-> probe # IntegrationProbe,
             seen |-> h.epoch])
    BY <1>9 DEF PrepareProbe
  <2> DEFINE p == [source |-> probe, script |-> FALSE, target |-> h.target,
                   decision |-> "allow", preserves |-> probe # IntegrationProbe,
                   seen |-> h.epoch]
  <2>2. p.source = probe
    OBVIOUS
  <2> HIDE DEF p
  <2>3. Insert(h.target.session, p)
    BY <2>1 DEF p
  <2>4. \A i \in pending' : i \in pending \/ (i.source = probe /\ ~i.approved)
    BY <2>2, <2>3, InsertedIntent, NewIntentFields
  <2>5. UNCHANGED <<analysing, reviewed>>
    BY <1>9 DEF PrepareProbe, clients
  <2> QED BY <2>4, <2>5 DEF DecisionsAreCautious, Understood
<1>10. ASSUME NEW i \in pending, NEW text \in Sources \cup Probes, Approve(i, text)
       PROVE  DecisionsAreCautious'
  <2> DEFINE j == [i EXCEPT !.approved = TRUE]
  <2>1. j.target = i.target /\ j.id = i.id /\ j.source = i.source /\ j.decision = i.decision
    BY <1>1, SameIntent
  <2>2. /\ pending' = (pending \ {i}) \cup {j}
        /\ analysing' = analysing
        /\ i.source = text /\ reviewed' = reviewed \cup {<<i.id, i.source>>}
    BY <1>10 DEF Approve, clients
  <2> HIDE DEF j
  <2> QED BY <2>1, <2>2 DEF DecisionsAreCautious, Understood
<1>11. ASSUME NEW i \in pending, Cancel(i)
       PROVE  DecisionsAreCautious'
  <2>1. pending' \subseteq pending /\ UNCHANGED <<analysing, reviewed>>
    BY <1>11 DEF Cancel, records, clients
  <2> QED BY <2>1 DEF DecisionsAreCautious
<1>12. ASSUME NEW i \in pending, Expire(i)
       PROVE  DecisionsAreCautious'
  <2> DEFINE j == [i EXCEPT !.fresh = FALSE]
  <2>1. j.target = i.target /\ j.id = i.id /\ j.source = i.source /\ j.decision = i.decision
        /\ j.approved = i.approved
    BY <1>1, SameIntent
  <2>2. /\ pending' = (pending \ {i}) \cup {j}
        /\ analysing' = analysing
        /\ reviewed' = reviewed
    BY <1>12 DEF Expire, clients
  <2> HIDE DEF j
  <2> QED BY <2>1, <2>2 DEF DecisionsAreCautious, Understood
<1>13. ASSUME NEW i \in pending, NEW ok \in BOOLEAN, Dispatch(i, ok)
       PROVE  DecisionsAreCautious'
  <2>1. pending' \subseteq pending /\ UNCHANGED <<analysing, reviewed>>
    BY <1>13 DEF Dispatch, records, clients
  <2> QED BY <2>1 DEF DecisionsAreCautious
<1>14. ASSUME NEW p \in Profiles, InvalidateProfile(p)
       PROVE  DecisionsAreCautious'
  <2>1. pending' \subseteq pending /\ UNCHANGED <<analysing, reviewed>>
    BY <1>14 DEF InvalidateProfile, records, clients
  <2> QED BY <2>1 DEF DecisionsAreCautious
<1>15. CASE UNCHANGED vars
  <2>1. UNCHANGED <<pending, analysing, reviewed>>
    BY <1>15 DEF vars
  <2> QED BY <2>1 DEF DecisionsAreCautious
<1> QED
  BY <1>2, <1>3, <1>4, <1>5, <1>6, <1>7, <1>8, <1>9, <1>10, <1>11,
     <1>12, <1>13, <1>14, <1>15 DEF Next

LEMMA ReviewStep ==
  ASSUME TypeOK, DecisionsAreCautious, WrittenAsReviewed, [Next]_vars
  PROVE  WrittenAsReviewed'
<1>1. reviewed \subseteq reviewed'
  BY DEF Next, vars, clients, Register, Remove, WriteTerminal, ReadTarget,
         UpdateContext, StartAnalysis, FinishAnalysis, PrepareProbe, Approve, Cancel,
         Expire, Dispatch, InvalidateProfile
<1>2. CASE UNCHANGED log
  BY <1>1, <1>2 DEF WrittenAsReviewed
<1>3. ASSUME NEW i \in pending, NEW ok \in BOOLEAN, Dispatch(i, ok)
      PROVE  WrittenAsReviewed'
  <2>1. log' = Append(log, [intent |-> i, epoch |-> epoch[i.target.session]])
    BY <1>3 DEF Dispatch
  <2>2. log \in Seq([intent : Intent, epoch : Nat])
    BY DEF TypeOK
  <2>3. /\ i.decision = "allow" \/ <<i.id, i.source>> \in reviewed
        /\ i.decision # "deny"
        /\ (i.decision = "allow" /\ i.source \notin Probes) =>
             i.target.context \in Complete
    BY <1>3 DEF Dispatch, MayDispatch, Checked, DecisionsAreCautious, Understood
  <2> DEFINE e == [intent |-> i, epoch |-> epoch[i.target.session]]
  <2>4. e.intent = i /\ log' = Append(log, e)
    BY <2>1
  <2> HIDE DEF e
  <2>5. \A n \in DOMAIN log' : (n \in DOMAIN log /\ log'[n] = log[n]) \/ log'[n] = e
    BY <2>2, <2>4, AppendAt
  <2> QED BY <1>1, <2>3, <2>4, <2>5 DEF WrittenAsReviewed
<1> QED
  BY <1>2, <1>3, LogStep

-----------------------------------------------------------------------------
LEMMA InvInit == Init => IInv
<1> SUFFICES ASSUME Init PROVE IInv
  OBVIOUS
<1>1. TypeOK
  BY TypeInit
<1>2. SnapshotsAreDated
  BY DEF Init, SnapshotsAreDated, NewTarget
<1>3. PendingIsCurrent /\ ContextIsCurrent /\ IdsAreSpent /\ DecisionsAreCautious
  BY DEF Init, PendingIsCurrent, ContextIsCurrent, IdsAreSpent, DecisionsAreCautious
<1>4. WrittenInReviewedShell /\ WrittenOnce /\ WrittenAsReviewed
  BY DEF Init, WrittenInReviewedShell, WrittenOnce, WrittenAsReviewed
<1> QED BY <1>1, <1>2, <1>3, <1>4 DEF IInv

LEMMA InvStep == IInv /\ [Next]_vars => IInv'
<1> SUFFICES ASSUME IInv, [Next]_vars PROVE IInv'
  OBVIOUS
<1> USE DEF IInv
<1>1. TypeOK'
  BY TypeStep
<1>2. Ages
  BY TargetsAge
<1>3. SnapshotsAreDated'
  BY <1>1, <1>2, SnapshotStep
<1>4. PendingIsCurrent' /\ ContextIsCurrent' /\ WrittenInReviewedShell'
  BY PendingStep, ContextStep, ShellStep
<1>5. IdsAreSpent' /\ WrittenOnce'
  BY IdsStep, OnceStep
<1>6. DecisionsAreCautious' /\ WrittenAsReviewed'
  BY DecisionStep, ReviewStep
<1> QED BY <1>1, <1>3, <1>4, <1>5, <1>6

(* The invariant from which the others follow is one.                           *)
THEOREM GateInvariant == Spec => []IInv
BY InvInit, InvStep, PTL DEF Spec

(* Whatever is pending in a session is pending for the target it has now.       *)
THEOREM PendingIsAlwaysCurrent == Spec => []PendingIsCurrent
<1>1. IInv => PendingIsCurrent
  BY DEF IInv
<1> QED BY <1>1, GateInvariant, PTL

(* No intent is written twice, however its reference is presented again.        *)
THEOREM NothingIsWrittenTwice == Spec => []WrittenOnce
<1>1. IInv => WrittenOnce
  BY DEF IInv
<1> QED BY <1>1, GateInvariant, PTL

(* Everything that is written was allowed in a context that was understood, or   *)
(* confirmed by the user in the text that is written; nothing denied is.         *)
THEOREM EverythingWrittenWasReviewed == Spec => []WrittenAsReviewed
<1>1. IInv => WrittenAsReviewed
  BY DEF IInv
<1> QED BY <1>1, GateInvariant, PTL

(* Nothing disturbed the shell between the snapshot a command was analysed for   *)
(* and its write.                                                             *)
THEOREM ShellIsAsReviewed == Spec => []WrittenInReviewedShell
<1>1. IInv => WrittenInReviewedShell
  BY DEF IInv
<1> QED BY <1>1, GateInvariant, PTL

(* The context the gate knows of a shell was measured since it last moved.       *)
THEOREM ContextIsNeverStale == Spec => []ContextIsCurrent
<1>1. IInv => ContextIsCurrent
  BY DEF IInv
<1> QED BY <1>1, GateInvariant, PTL

-----------------------------------------------------------------------------
(* The refinement: what each step of the gate is to ReviewedExecution.          *)

Waiting == {Proposal(i) : i \in pending}
Executed == [n \in DOMAIN log |-> Proposal(log[n].intent)]

LEMMA ProposalFields ==
  ASSUME NEW i
  PROVE  LET w == Proposal(i)
         IN /\ w.id = i.id /\ w.text = i.source /\ w.place = i.target.session
            /\ w.verdict = i.decision /\ w.world = i.seen
BY DEF Proposal

(* The barred variables, spelled out.                                           *)
LEMMA PromiseActions ==
  /\ Promise!Withdraw <=> /\ Waiting' \in SUBSET Waiting
                          /\ UNCHANGED <<Executed, issued, reviewed, epoch>>
  /\ \A s : Promise!Disturb(s) <=>
       /\ epoch' = [epoch EXCEPT ![s] = @ + 1]
       /\ Waiting' = Waiting \ {w \in Waiting : w.place = s}
       /\ UNCHANGED <<Executed, issued, reviewed>>
  /\ \A w : Promise!Confirm(w) <=>
       /\ w.verdict # "deny"
       /\ reviewed' = reviewed \cup {<<w.id, w.text>>}
       /\ UNCHANGED <<Waiting, Executed, issued, epoch>>
  /\ \A w : Promise!Execute(w) <=>
       /\ w.verdict = "allow" \/ <<w.id, w.text>> \in reviewed
       /\ w.world = epoch[w.place]
       /\ Executed' = Append(Executed, w)
       /\ \/ Waiting' = Waiting \ {w} /\ UNCHANGED epoch
          \/ /\ Waiting' = Waiting \ {v \in Waiting : v.place = w.place}
             /\ epoch' = [epoch EXCEPT ![w.place] = @ + 1]
       /\ UNCHANGED <<issued, reviewed>>
  /\ UNCHANGED <<Waiting, Executed, issued, reviewed, epoch>> => UNCHANGED Promise!vars
BY DEF Promise!Withdraw, Promise!Disturb, Promise!Confirm, Promise!Execute, Promise!At,
       Promise!vars, Waiting, Executed

LEMMA AppendIs ==
  ASSUME NEW S, NEW seq \in Seq(S), NEW e \in S
  PROVE  Append(seq, e) = [n \in 1 .. Len(seq) + 1 |-> IF n = Len(seq) + 1 THEN e ELSE seq[n]]
<1> DEFINE f == [n \in 1 .. Len(seq) + 1 |-> IF n = Len(seq) + 1 THEN e ELSE seq[n]]
<1>1. Append(seq, e) \in Seq(S) /\ Len(Append(seq, e)) = Len(seq) + 1
  OBVIOUS
<1>2. f \in Seq(S) /\ Len(f) = Len(seq) + 1
  OBVIOUS
<1>3. \A n \in 1 .. Len(seq) + 1 : Append(seq, e)[n] = f[n]
  OBVIOUS
<1> HIDE DEF f
<1>4. Append(seq, e) = f
  BY <1>1, <1>2, <1>3
<1> QED BY <1>4 DEF f

(* Intents leave the store, or come back approved or expired.                   *)
LEMMA Withdraws ==
  ASSUME \A i \in pending' : \E j \in pending : Proposal(i) = Proposal(j),
         UNCHANGED <<log, issued, reviewed, epoch>>
  PROVE  [Promise!Next]_(Promise!vars)
<1>1. Waiting' \subseteq Waiting
  BY DEF Waiting
<1>2. Executed' = Executed
  BY DEF Executed
<1>3. Promise!Withdraw
  BY <1>1, <1>2, PromiseActions
<1> QED BY <1>3 DEF Promise!Next

LEMMA Disturbs ==
  ASSUME NEW s \in Sessions,
         pending' = pending \ PendingOf(s), epoch' = [epoch EXCEPT ![s] = @ + 1],
         UNCHANGED <<log, issued, reviewed>>
  PROVE  [Promise!Next]_(Promise!vars)
<1>1. Waiting' = Waiting \ {w \in Waiting : w.place = s}
  <2>1. \A i \in pending : i \in pending' <=> Proposal(i).place # s
    BY ProposalFields DEF PendingOf
  <2> QED BY <2>1 DEF Waiting
<1>2. Executed' = Executed
  BY DEF Executed
<1>3. Promise!Disturb(s)
  BY <1>1, <1>2, PromiseActions
<1> QED BY <1>3 DEF Promise!Next

(* What is replaced is proposed as before.                                      *)
LEMMA SameProposal ==
  ASSUME TypeOK, NEW i \in pending
  PROVE  /\ Proposal([i EXCEPT !.approved = TRUE]) = Proposal(i)
         /\ Proposal([i EXCEPT !.fresh = FALSE]) = Proposal(i)
<1>1. i \in Intent
  BY DEF TypeOK
<1> QED BY <1>1, SameIntent DEF Proposal

(* An insertion proposes, withdraws what has expired, or does nothing.          *)
LEMMA Proposes ==
  ASSUME TypeOK, SnapshotsAreDated, NEW s \in Sessions, NEW p \in Prepared,
         p.target.session = s, Dated(p.target, p.seen), Insert(s, p),
         UNCHANGED <<log, reviewed, epoch>>
  PROVE  [Promise!Next]_(Promise!vars)
<1>1. Unexpired(s) \subseteq pending
  BY DEF Unexpired, PendingOf
<1>2. CASE UNCHANGED issued
  <2>1. pending' \subseteq pending
    BY <1>1, <1>2 DEF Insert
  <2> QED BY <1>2, <2>1, Withdraws
<1>3. CASE /\ p.target = target[s]
           /\ \E id \in Intents \ issued :
                /\ issued' = issued \cup {id}
                /\ pending' = (pending \ PendingOf(s)) \cup Unexpired(s) \cup {NewIntent(id, p)}
  <2>1. PICK id \in Intents \ issued :
          /\ issued' = issued \cup {id}
          /\ pending' = (pending \ PendingOf(s)) \cup Unexpired(s) \cup {NewIntent(id, p)}
    BY <1>3
  <2> DEFINE kept == (pending \ PendingOf(s)) \cup Unexpired(s)
             stays == {Proposal(i) : i \in kept}
             w == [id |-> id, text |-> p.source, place |-> s, verdict |-> p.decision,
                   world |-> epoch[s]]
  <2>2. Proposal(NewIntent(id, p)) = w
    <3>1. p.seen = epoch[s]
      BY <1>3 DEF Dated
    <3> QED BY <3>1, NewIntentFields DEF Proposal
  <2>3. stays \subseteq Waiting
    BY <1>1 DEF Waiting
  <2>4. Waiting' = stays \cup {w}
    BY <2>1, <2>2 DEF Waiting
  <2>5. Executed' = Executed
    BY DEF Executed
  <2>6. Waiting \ (Waiting \ stays) = stays /\ Waiting \ stays \in SUBSET Waiting
    BY <2>3
  <2> HIDE DEF kept, stays
  <2>7. Promise!Propose(id, p.source, s, p.decision)
    BY <2>1, <2>4, <2>5, <2>6 DEF Promise!Propose, Waiting, Executed
  <2>8. p.source \in Sources \cup Probes /\ p.decision \in Decisions
    BY DEF Prepared
  <2> QED BY <2>7, <2>8 DEF Promise!Next
<1> QED BY <1>2, <1>3 DEF Insert

LEMMA Confirms ==
  ASSUME TypeOK, NEW i \in pending, NEW text \in Sources \cup Probes, Approve(i, text)
  PROVE  [Promise!Next]_(Promise!vars)
<1>1. /\ pending' = (pending \ {i}) \cup {[i EXCEPT !.approved = TRUE]}
      /\ reviewed' = reviewed \cup {<<i.id, i.source>>}
      /\ i.decision # "deny"
      /\ UNCHANGED <<log, issued, epoch>>
  BY DEF Approve, Checked
<1>2. Waiting' = Waiting /\ Executed' = Executed
  BY <1>1, SameProposal DEF Waiting, Executed
<1>3. Promise!Confirm(Proposal(i))
  BY <1>1, <1>2, ProposalFields, PromiseActions
<1>4. Proposal(i) \in Waiting
  BY DEF Waiting
<1> QED BY <1>3, <1>4 DEF Promise!Next, Waiting

(* A dispatch executes what was proposed in the shell as it is.                 *)
LEMMA Executes ==
  ASSUME IInv, NEW i \in pending, NEW ok \in BOOLEAN, Dispatch(i, ok)
  PROVE  [Promise!Next]_(Promise!vars)
<1> DEFINE s == i.target.session
           w == Proposal(i)
           changes == ~i.preserves \/ ~ok
           e == [intent |-> i, epoch |-> epoch[s]]
<1>1. w \in Waiting
  BY DEF Waiting
<1>2. /\ w.verdict = "allow" \/ <<w.id, w.text>> \in reviewed
      /\ w.world = epoch[w.place]
      /\ w.place = s
  BY ProposalFields
     DEF Dispatch, MayDispatch, IInv, DecisionsAreCautious, SnapshotsAreDated
<1>3. Executed' = Append(Executed, w)
  <2>1. log \in Seq([intent : Intent, epoch : Nat])
    BY DEF IInv, TypeOK
  <2>2. log' = Append(log, e) /\ e.intent = i
    BY DEF Dispatch
  <2> HIDE DEF e, w
  <2>3. Len(log) \in Nat /\ DOMAIN log = 1 .. Len(log)
    BY <2>1
  <2>4. /\ DOMAIN log' = 1 .. Len(log) + 1
        /\ \A n \in 1 .. Len(log) : log'[n] = log[n]
        /\ log'[Len(log) + 1] = e
    BY <2>1, <2>2, <2>3
  <2>5. /\ Executed = [n \in 1 .. Len(log) |-> Proposal(log[n].intent)]
        /\ Executed' = [n \in 1 .. Len(log) + 1 |-> Proposal(log'[n].intent)]
    BY <2>3, <2>4 DEF Executed
  <2> DEFINE S == {Proposal(log[n].intent) : n \in 1 .. Len(log)} \cup {w}
  <2>6. Executed \in Seq(S) /\ Len(Executed) = Len(log) /\ w \in S
    BY <2>3, <2>5
  <2> HIDE DEF S
  <2>7. Proposal(e.intent) = w
    BY <2>2 DEF w
  <2>8. Append(Executed, w) = [n \in 1 .. Len(log) + 1 |->
                                 IF n = Len(log) + 1 THEN w ELSE Executed[n]]
    BY <2>6, AppendIs
  <2>9. \A n \in 1 .. Len(log) + 1 : Proposal(log'[n].intent) =
                                       IF n = Len(log) + 1 THEN w ELSE Executed[n]
    BY <2>3, <2>4, <2>5, <2>7
  <2> QED BY <2>5, <2>8, <2>9
<1>4. UNCHANGED <<issued, reviewed>>
  BY DEF Dispatch
<1>5. CASE changes
  <2>1. pending' = pending \ PendingOf(s) /\ epoch' = [epoch EXCEPT ![s] = @ + 1]
    BY <1>5 DEF Dispatch, Consumed
  <2>2. Waiting' = Waiting \ {v \in Waiting : v.place = s}
    <3>1. \A j \in pending : j \in pending' <=> Proposal(j).place # s
      BY <2>1, ProposalFields DEF PendingOf
    <3> QED BY <2>1, <3>1 DEF Waiting
  <2> HIDE DEF w, s
  <2>3. Promise!Execute(w)
    BY <1>2, <1>3, <1>4, <2>1, <2>2, PromiseActions, ZenonT(60)
  <2> QED BY <1>1, <2>3 DEF Promise!Next, Waiting
<1>6. CASE ~changes
  <2>1. pending' = pending \ {i} /\ epoch' = epoch
    BY <1>6 DEF Dispatch, Consumed
  <2>2. \A j \in pending : Proposal(j) = w => j = i
    BY ProposalFields DEF IInv, IdsAreSpent
  <2>3. Waiting' = Waiting \ {w}
    BY <2>1, <2>2 DEF Waiting
  <2> HIDE DEF w, s
  <2>4. Promise!Execute(w)
    BY <1>2, <1>3, <1>4, <2>1, <2>3, PromiseActions
  <2> QED BY <1>1, <2>4 DEF Promise!Next, Waiting
<1> QED BY <1>5, <1>6

LEMMA PromiseInit == Init => Promise!Init
<1> SUFFICES ASSUME Init PROVE Promise!Init
  OBVIOUS
<1>1. Waiting = {} /\ Executed = <<>>
  BY DEF Init, Waiting, Executed
<1> QED BY <1>1 DEF Init, Promise!Init, Waiting, Executed

LEMMA PromiseStep == IInv /\ [Next]_vars => [Promise!Next]_(Promise!vars)
<1> SUFFICES ASSUME IInv, [Next]_vars PROVE [Promise!Next]_(Promise!vars)
  OBVIOUS
<1> USE DEF records, clients
<1>1. /\ TypeOK /\ SnapshotsAreDated
      /\ \A c \in Clients : \A h \in held[c] : h.target.session \in Sessions
      /\ \A c \in Clients : \A p \in analysing[c] : p \in Prepared /\ p.target.session \in Sessions
      /\ \A i \in pending : i.target.session \in Sessions
  BY DEF IInv, TypeOK, Prepared, Target, Intent
<1>2. ASSUME NEW s \in Sessions, NEW attached \in BOOLEAN, Register(s, attached)
      PROVE  [Promise!Next]_(Promise!vars)
  BY <1>2, Disturbs DEF Register
<1>3. ASSUME NEW s \in Sessions, Remove(s)
      PROVE  [Promise!Next]_(Promise!vars)
  <2>1. pending' \subseteq pending /\ UNCHANGED <<log, issued, reviewed, epoch>>
    BY <1>3 DEF Remove
  <2> QED BY <2>1, Withdraws
<1>4. ASSUME NEW s \in Sessions, WriteTerminal(s)
      PROVE  [Promise!Next]_(Promise!vars)
  <2>1. CASE terminal[s]
    BY <1>4, <2>1, Disturbs DEF WriteTerminal
  <2>2. CASE ~terminal[s]
    <3>1. pending' \subseteq pending /\ UNCHANGED <<log, issued, reviewed, epoch>>
      BY <1>4, <2>2 DEF WriteTerminal
    <3> QED BY <3>1, Withdraws
  <2> QED BY <2>1, <2>2
<1>5. ASSUME NEW c \in Clients, NEW s \in Sessions, ReadTarget(c, s)
      PROVE  [Promise!Next]_(Promise!vars)
  BY <1>5, Withdraws DEF ReadTarget
<1>6. ASSUME NEW c \in Clients, NEW context \in Contexts, UpdateContext(c, context)
      PROVE  [Promise!Next]_(Promise!vars)
  <2>1. pending' \subseteq pending /\ UNCHANGED <<log, issued, reviewed, epoch>>
    BY <1>6 DEF UpdateContext
  <2> QED BY <2>1, Withdraws
<1>7. ASSUME NEW c \in Clients, NEW source \in Sources, NEW script \in BOOLEAN,
             StartAnalysis(c, source, script)
      PROVE  [Promise!Next]_(Promise!vars)
  BY <1>7, Withdraws DEF StartAnalysis
<1>8. ASSUME NEW c \in Clients, FinishAnalysis(c)
      PROVE  [Promise!Next]_(Promise!vars)
  <2>1. PICK p \in analysing[c] :
          \/ Insert(p.target.session, p)
          \/ p.target.session \notin open /\ UNCHANGED <<pending, issued>>
    BY <1>8 DEF FinishAnalysis
  <2>2. UNCHANGED <<log, reviewed, epoch>>
    BY <1>8 DEF FinishAnalysis
  <2>3. CASE Insert(p.target.session, p)
    <3>1. Dated(p.target, p.seen)
      BY <1>1 DEF SnapshotsAreDated
    <3> QED BY <1>1, <2>2, <2>3, <3>1, Proposes
  <2>4. CASE UNCHANGED <<pending, issued>>
    BY <2>2, <2>4, Withdraws
  <2> QED BY <2>1, <2>3, <2>4
<1>9. ASSUME NEW c \in Clients, NEW probe \in Probes, PrepareProbe(c, probe)
      PROVE  [Promise!Next]_(Promise!vars)
  <2>1. PICK h \in held[c] :
          Insert(h.target.session,
            [source |-> probe, script |-> FALSE, target |-> h.target,
             decision |-> "allow", preserves |-> probe # IntegrationProbe,
             seen |-> h.epoch])
    BY <1>9 DEF PrepareProbe
  <2> DEFINE p == [source |-> probe, script |-> FALSE, target |-> h.target,
                   decision |-> "allow", preserves |-> probe # IntegrationProbe,
                   seen |-> h.epoch]
  <2>2. p \in Prepared /\ p.target = h.target /\ p.seen = h.epoch
    BY <1>1 DEF TypeOK, Prepared, Decisions
  <2>3. UNCHANGED <<log, reviewed, epoch>>
    BY <1>9 DEF PrepareProbe
  <2>4. Dated(h.target, h.epoch)
    BY <1>1 DEF SnapshotsAreDated
  <2>5. Insert(p.target.session, p)
    BY <2>1, <2>2
  <2> HIDE DEF p
  <2> QED BY <1>1, <2>2, <2>3, <2>4, <2>5, Proposes
<1>10. ASSUME NEW i \in pending, NEW text \in Sources \cup Probes, Approve(i, text)
       PROVE  [Promise!Next]_(Promise!vars)
  BY <1>1, <1>10, Confirms
<1>11. ASSUME NEW i \in pending, Cancel(i)
       PROVE  [Promise!Next]_(Promise!vars)
  <2>1. pending' \subseteq pending /\ UNCHANGED <<log, issued, reviewed, epoch>>
    BY <1>11 DEF Cancel
  <2> QED BY <2>1, Withdraws
<1>12. ASSUME NEW i \in pending, Expire(i)
       PROVE  [Promise!Next]_(Promise!vars)
  <2>1. \A j \in pending' : \E k \in pending : Proposal(j) = Proposal(k)
    BY <1>1, <1>12, SameProposal DEF Expire
  <2>2. UNCHANGED <<log, issued, reviewed, epoch>>
    BY <1>12 DEF Expire
  <2> QED BY <2>1, <2>2, Withdraws
<1>13. ASSUME NEW i \in pending, NEW ok \in BOOLEAN, Dispatch(i, ok)
       PROVE  [Promise!Next]_(Promise!vars)
  BY <1>13, Executes
<1>14. ASSUME NEW p \in Profiles, InvalidateProfile(p)
       PROVE  [Promise!Next]_(Promise!vars)
  <2>1. pending' \subseteq pending /\ UNCHANGED <<log, issued, reviewed, epoch>>
    BY <1>14 DEF InvalidateProfile
  <2> QED BY <2>1, Withdraws
<1>15. CASE UNCHANGED vars
  BY <1>15, Withdraws DEF vars
<1> HIDE DEF records, clients
<1> QED
  BY <1>2, <1>3, <1>4, <1>5, <1>6, <1>7, <1>8, <1>9, <1>10, <1>11, <1>12, <1>13,
     <1>14, <1>15 DEF Next

(* The gate keeps its promise: with targets, versions, locks and expiry it does  *)
(* nothing that ReviewedExecution does not allow.                                *)
THEOREM GateKeepsPromise == Spec => KeepsPromise
BY GateInvariant, PromiseInit, PromiseStep, PTL DEF Spec, KeepsPromise, Promise!Spec

=============================================================================
