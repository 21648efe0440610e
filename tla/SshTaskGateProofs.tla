------------------------- MODULE SshTaskGateProofs -------------------------
(***************************************************************************)
(* SshTaskGate for every number of sessions, profiles, callers and tasks:   *)
(* TaskInvariant is inductive, so its parts hold of Spec.                   *)
(***************************************************************************)
EXTENDS SshTaskGate, FiniteSetTheorems, TLAPS

USE ContextsAssumption, TaskAssumption DEF ContextsAssumption, TaskAssumption

-----------------------------------------------------------------------------
(* What the operators on targets and on sets of runs do.                      *)

(* A target moves to a later version of the same instance.                    *)
LEMMA TargetMoves ==
  ASSUME NEW t \in Target
  PROVE  /\ InvalidateContext(t) \in Target
         /\ InvalidateRoute(t) \in Target
         /\ InvalidateContext(t).instance = t.instance
         /\ InvalidateRoute(t).instance = t.instance
         /\ InvalidateContext(t).version = t.version + 1
         /\ InvalidateRoute(t).version = t.version + 1
<1>1. ASSUME NEW u \in Target
      PROVE  /\ InvalidateContext(u) \in Target
             /\ InvalidateContext(u).instance = u.instance
             /\ InvalidateContext(u).version = u.version + 1
  <2> DEFINE v == [u EXCEPT !.version = u.version + 1]
  <2>1. v \in Target /\ v.instance = u.instance /\ v.version = u.version + 1
    BY DEF Target
  <2>2. InvalidateContext(u) = [v EXCEPT !.context = UnknownContext]
    BY DEF InvalidateContext
  <2> HIDE DEF v
  <2> QED BY <2>1, <2>2 DEF Target
<1> DEFINE u == [t EXCEPT !.route = @ + 1]
<1>2. u \in Target /\ u.instance = t.instance /\ u.version = t.version
  BY DEF Target
<1>3. InvalidateRoute(t) = InvalidateContext(u)
  BY DEF InvalidateRoute
<1> HIDE DEF u
<1> QED BY <1>1, <1>2, <1>3

LEMMA NewTargetType ==
  ASSUME NEW s \in Sessions, NEW n \in Nat
  PROVE  NewTarget(s, n) \in Target /\ NewTarget(s, n).instance = n
BY DEF Target, NewTarget

(* The image of a finite set is finite and no larger.                         *)
LEMMA Images ==
  ASSUME NEW S, IsFiniteSet(S), NEW f
  PROVE  LET image == {f[x] : x \in S}
         IN  IsFiniteSet(image) /\ Cardinality(image) <= Cardinality(S)
<1> DEFINE image == {f[x] : x \in S}
           g == [x \in S |-> f[x]]
<1>1. g \in Surjection(S, image)
  BY DEF Surjection
<1> QED BY <1>1, FS_Surjection

(* No larger set of the same kind.                                            *)
LEMMA Fewer ==
  ASSUME NEW S, IsFiniteSet(S), NEW T, T \subseteq S
  PROVE  /\ IsFiniteSet(T)
         /\ Cardinality(S) \in Nat /\ Cardinality(T) \in Nat
         /\ Cardinality(T) <= Cardinality(S)
BY FS_Subset, FS_CardinalityType

LEMMA Joined ==
  ASSUME NEW S, IsFiniteSet(S), NEW T, IsFiniteSet(T)
  PROVE  IsFiniteSet(S \cup T) /\ Cardinality(S \cup T) <= Cardinality(S) + Cardinality(T)
<1>1. IsFiniteSet(S \cap T)
  BY FS_Intersection
<1>2. Cardinality(S) \in Nat /\ Cardinality(T) \in Nat /\ Cardinality(S \cap T) \in Nat
  BY <1>1, FS_CardinalityType
<1>3. /\ IsFiniteSet(S \cup T)
      /\ Cardinality(S \cup T) = Cardinality(S) + Cardinality(T) - Cardinality(S \cap T)
  BY FS_Union
<1> QED BY <1>2, <1>3

(* Runs that are told something: each keeps its id, origin and profile, none  *)
(* is untold, unfinished or remembered again.                                *)
Marks(f) ==
  \A r \in runs : /\ f[r] \in Run
                  /\ f[r].id = r.id /\ f[r].origin = r.origin /\ f[r].profile = r.profile
                  /\ r.stop => f[r].stop
                  /\ r.finished => f[r].finished
                  /\ f[r].kept => r.kept

MarkedBy(f) == {f[r] : r \in runs}

(* The limits on runs hold of runs that are only told something.              *)
LEMMA MarkedAreBounded ==
  ASSUME TypeOK, NEW f, Marks(f), NEW s \in Sessions
  PROVE  LET kept == {r \in MarkedBy(f) : r.kept /\ r.origin.session = s}
             alive == {r \in kept : ~r.finished}
         IN  /\ IsFiniteSet(MarkedBy(f)) /\ IsFiniteSet(kept) /\ IsFiniteSet(alive)
             /\ Cardinality(kept) \in Nat /\ Cardinality(kept) <= Cardinality(KeptBy(s))
             /\ Cardinality(alive) \in Nat /\ Cardinality(alive) <= Cardinality(Alive(s))
             /\ Cardinality(KeptBy(s)) \in Nat /\ Cardinality(Alive(s)) \in Nat
<1> DEFINE kept == {r \in MarkedBy(f) : r.kept /\ r.origin.session = s}
           alive == {r \in kept : ~r.finished}
           keptImage == {f[r] : r \in KeptBy(s)}
           aliveImage == {f[r] : r \in Alive(s)}
<1>1. IsFiniteSet(runs) /\ runs \subseteq Run
  BY DEF TypeOK, Bounded
<1>2. IsFiniteSet(MarkedBy(f))
  BY <1>1, Images DEF MarkedBy
<1>3. IsFiniteSet(KeptBy(s)) /\ IsFiniteSet(Alive(s))
  BY <1>1, FS_Subset DEF KeptBy, Alive
<1>4. kept \subseteq keptImage /\ alive \subseteq aliveImage
  BY DEF Marks, MarkedBy, KeptBy, Alive
<1>5. /\ IsFiniteSet(keptImage) /\ Cardinality(keptImage) <= Cardinality(KeptBy(s))
      /\ IsFiniteSet(aliveImage) /\ Cardinality(aliveImage) <= Cardinality(Alive(s))
  BY <1>3, Images
<1> HIDE DEF kept, alive, keptImage, aliveImage
<1>6. /\ IsFiniteSet(kept) /\ Cardinality(kept) \in Nat
      /\ Cardinality(keptImage) \in Nat /\ Cardinality(kept) <= Cardinality(keptImage)
      /\ IsFiniteSet(alive) /\ Cardinality(alive) \in Nat
      /\ Cardinality(aliveImage) \in Nat /\ Cardinality(alive) <= Cardinality(aliveImage)
  BY <1>4, <1>5, Fewer
<1>7. Cardinality(KeptBy(s)) \in Nat /\ Cardinality(Alive(s)) \in Nat
  BY <1>3, FS_CardinalityType
<1>8. Cardinality(kept) <= Cardinality(KeptBy(s)) /\ Cardinality(alive) <= Cardinality(Alive(s))
  BY <1>5, <1>6, <1>7
<1> QED BY <1>2, <1>6, <1>7, <1>8 DEF kept, alive

(* What every action but StartCommit does to the runs: it tells some.         *)
OnlyMarks == \E f : Marks(f) /\ runs' = MarkedBy(f)

LEMMA UnchangedMarks ==
  ASSUME TypeOK, runs' = runs
  PROVE  OnlyMarks
<1> DEFINE f == [r \in runs |-> r]
<1>1. Marks(f) /\ runs = MarkedBy(f)
  BY DEF TypeOK, Marks, MarkedBy
<1> QED BY <1>1 DEF OnlyMarks

LEMMA StopMarks ==
  ASSUME TypeOK, NEW ss, runs' = StopRuns(ss)
  PROVE  OnlyMarks
<1> DEFINE f == [r \in runs |-> IF r.kept /\ r.origin.session \in ss
                                  THEN [r EXCEPT !.stop = TRUE] ELSE r]
<1>1. Marks(f)
  BY DEF TypeOK, Marks, Run
<1>2. runs' = MarkedBy(f)
  BY DEF StopRuns, MarkedBy
<1> QED BY <1>1, <1>2 DEF OnlyMarks

LEMMA DropMarks ==
  ASSUME TypeOK, NEW ss, runs' = Dropped(ss)
  PROVE  OnlyMarks
<1> DEFINE f == [r \in runs |-> IF r.kept /\ r.origin.session \in ss
                                  THEN [r EXCEPT !.stop = TRUE, !.kept = FALSE] ELSE r]
<1>1. Marks(f)
  <2>1. ASSUME NEW r \in runs
        PROVE  LET q == [r EXCEPT !.stop = TRUE, !.kept = FALSE]
               IN  /\ q \in Run /\ q.id = r.id /\ q.origin = r.origin
                   /\ q.profile = r.profile /\ q.stop /\ q.finished = r.finished
                   /\ ~q.kept
    BY DEF TypeOK, Run
  <2> QED BY <2>1 DEF TypeOK, Marks
<1>2. runs' = MarkedBy(f)
  BY DEF Dropped, MarkedBy
<1> QED BY <1>1, <1>2 DEF OnlyMarks

LEMMA OneMarked ==
  ASSUME TypeOK, NEW r \in runs, StopRun(r) \/ Finish(r)
  PROVE  OnlyMarks
<1> DEFINE told == IF StopRun(r) THEN [r EXCEPT !.stop = TRUE] ELSE [r EXCEPT !.finished = TRUE]
           f == [q \in runs |-> IF q = r THEN told ELSE q]
<1>1. Marks(f)
  BY DEF TypeOK, Marks, Run
<1>2. runs' = MarkedBy(f)
  BY DEF StopRun, Finish, MarkedBy
<1> QED BY <1>1, <1>2 DEF OnlyMarks

LEMMA StepMarks ==
  ASSUME TypeOK, [Next]_vars
  PROVE  OnlyMarks \/ \E c \in Callers : StartCommit(c)
<1> USE UnchangedMarks
<1>1. CASE Edits
  BY <1>1 DEF Edits, SaveProfile, DeleteSecrets, DeleteRow
<1>2. CASE \E p \in Profiles : InvalidateProfile(p)
  BY <1>2, StopMarks DEF InvalidateProfile
<1>3. CASE \E s \in Sessions : Register(s) \/ Remove(s) \/ MoveContext(s)
  BY <1>3, DropMarks DEF Register, Remove, MoveContext
<1>4. ASSUME NEW c \in Callers,
             \/ \E s \in Sessions : PrepareCheck(c, s)
             \/ PrepareRead(c) \/ PrepareInsert(c)
             \/ \E t \in pending : StartRead(c, t.id, t.origin)
      PROVE  OnlyMarks
  BY <1>4 DEF PrepareCheck, PrepareRead, PrepareInsert, StartRead
<1>5. CASE \E t \in pending : \/ \E route \in Routes : Approve(t, route)
                              \/ Expire(t) \/ StopPending(t)
  BY <1>5 DEF Approve, Expire, StopPending
<1>6. CASE \E r \in runs : StopRun(r) \/ Finish(r)
  BY <1>6, OneMarked
<1>7. CASE UNCHANGED vars
  BY <1>7 DEF vars
<1> QED BY <1>1, <1>2, <1>3, <1>4, <1>5, <1>6, <1>7 DEF Next

(* StartCommit forgets some runs, and then starts one at most: the task whose *)
(* id and target the call holds.                                             *)
Starts(k, f) ==
  /\ UNCHANGED <<database, sessions, issued, confirmed>>
  /\ Marks(f) /\ \A r \in runs : f[r] = r \/ r.finished
  /\ k \in StartingCalls
  /\ runs' = MarkedBy(f) \cup {NewRun(t) : t \in Consumable(k)}
  /\ pending' = pending \ Consumable(k)
  /\ Consumable(k) = {} \/ \E t \in pending : Consumable(k) = {t}

StartsNothing == UNCHANGED <<database, sessions, issued, confirmed, pending, runs>>

LEMMA CommitStarts ==
  ASSUME TypeOK, IdsAreSpent, NEW c \in Callers, StartCommit(c)
  PROVE  StartsNothing \/ \E k, f : Starts(k, f)
<1>1. PICK k \in calls[c] :
        /\ k.kind = "starting"
        /\ IF k.origin.session \in open /\ Cardinality(Alive(k.origin.session)) < MaxRunning
             THEN \E gone \in Evicted(k.origin.session) :
                    LET rest == (runs \ gone) \cup {[r EXCEPT !.kept = FALSE] : r \in gone}
                    IN /\ pending' = pending \ Consumable(k)
                       /\ runs' = rest \cup {NewRun(t) : t \in Consumable(k)}
             ELSE UNCHANGED <<pending, runs>>
  BY DEF StartCommit
<1>2. UNCHANGED <<database, sessions, issued, confirmed>>
  BY DEF StartCommit
<1>3. ASSUME NEW gone \in Evicted(k.origin.session),
             pending' = pending \ Consumable(k),
             runs' = ((runs \ gone) \cup {[r EXCEPT !.kept = FALSE] : r \in gone})
                       \cup {NewRun(t) : t \in Consumable(k)}
      PROVE  \E f : Starts(k, f)
  <2> DEFINE f == [r \in runs |-> IF r \in gone THEN [r EXCEPT !.kept = FALSE] ELSE r]
  <2>1. gone \subseteq runs
    BY DEF Evicted, KeptBy
  <2>2. Marks(f)
    BY DEF TypeOK, Marks, Run
  <2>3. (runs \ gone) \cup {[r EXCEPT !.kept = FALSE] : r \in gone} = MarkedBy(f)
    BY <2>1 DEF MarkedBy
  <2>4. k \in StartingCalls /\ \A r \in runs : f[r] = r \/ r.finished
    BY <1>1 DEF StartingCalls, Evicted
  <2>5. Consumable(k) = {} \/ \E t \in pending : Consumable(k) = {t}
    <3>1. /\ Consumable(k) \subseteq pending
          /\ \A t, u \in Consumable(k) : t = u
      BY DEF Consumable, IdsAreSpent
    <3> QED BY <3>1
  <2> HIDE DEF f
  <2> QED BY <1>2, <1>3, <2>2, <2>3, <2>4, <2>5 DEF Starts
<1> QED BY <1>2, <1>1, <1>3 DEF StartsNothing

-----------------------------------------------------------------------------
(* The limits.                                                                *)
PendingBounded ==
  IsFiniteSet(pending) /\ \A s \in Sessions : Cardinality(PendingOf(s)) <= MaxPending

RunsBounded ==
  /\ IsFiniteSet(runs)
  /\ \A s \in Sessions : /\ Cardinality(Alive(s)) <= MaxRunning
                         /\ Cardinality(KeptBy(s)) <= MaxKept + 1

LEMMA BoundedParts == Bounded <=> PendingBounded /\ RunsBounded
BY DEF Bounded, PendingBounded, RunsBounded, Alive

LEMMA FewerPending ==
  ASSUME TypeOK, pending' \subseteq pending
  PROVE  PendingBounded'
<1>1. IsFiniteSet(pending')
  BY Fewer DEF TypeOK, Bounded
<1>2. ASSUME NEW s \in Sessions PROVE Cardinality(PendingOf(s)') <= MaxPending
  <2>1. IsFiniteSet(PendingOf(s)) /\ PendingOf(s)' \subseteq PendingOf(s)
    BY FS_Subset DEF TypeOK, Bounded, PendingOf
  <2>2. Cardinality(PendingOf(s)) <= MaxPending
    BY DEF TypeOK, Bounded
  <2> QED BY <2>1, <2>2, Fewer
<1> QED BY <1>1, <1>2 DEF PendingBounded, PendingOf

LEMMA ReplacedPending ==
  ASSUME TypeOK, NEW t \in pending, NEW u, u.origin = t.origin,
         pending' = (pending \ {t}) \cup {u}
  PROVE  PendingBounded'
<1>1. IsFiniteSet(pending')
  BY FS_RemoveElement, FS_AddElement DEF TypeOK, Bounded
<1>2. ASSUME NEW s \in Sessions PROVE Cardinality(PendingOf(s)') <= MaxPending
  <2>1. IsFiniteSet(PendingOf(s))
    BY FS_Subset DEF TypeOK, Bounded, PendingOf
  <2>2. Cardinality(PendingOf(s)) \in Nat /\ Cardinality(PendingOf(s)) <= MaxPending
    BY <2>1, FS_CardinalityType DEF TypeOK, Bounded
  <2>3. CASE t.origin.session = s
    <3> DEFINE rest == PendingOf(s) \ {t}
    <3>1. PendingOf(s)' = rest \cup {u} /\ t \in PendingOf(s)
      BY <2>3 DEF PendingOf
    <3>2. IsFiniteSet(rest) /\ Cardinality(rest) = Cardinality(PendingOf(s)) - 1
      BY <2>1, <3>1, FS_RemoveElement
    <3> HIDE DEF rest
    <3>3. Cardinality(rest \cup {u}) \in {Cardinality(rest), Cardinality(rest) + 1}
      BY <3>2, FS_AddElement
    <3> QED BY <2>2, <3>1, <3>2, <3>3
  <2>4. CASE t.origin.session # s
    <3>1. PendingOf(s)' = PendingOf(s)
      BY <2>4 DEF PendingOf
    <3> QED BY <2>2, <3>1
  <2> QED BY <2>3, <2>4
<1> QED BY <1>1, <1>2 DEF PendingBounded, PendingOf

LEMMA InsertedPending ==
  ASSUME TypeOK, NEW s \in Sessions, NEW u, u.origin.session = s,
         Cardinality(Unexpired(s)) < MaxPending,
         pending' = (pending \ PendingOf(s)) \cup Unexpired(s) \cup {u}
  PROVE  PendingBounded'
<1> DEFINE rest == (pending \ PendingOf(s)) \cup Unexpired(s)
<1>1. IsFiniteSet(rest)
  BY FS_Subset DEF TypeOK, Bounded, PendingOf, Unexpired
<1>2. IsFiniteSet(pending')
  BY <1>1, FS_AddElement
<1>3. ASSUME NEW q \in Sessions PROVE Cardinality(PendingOf(q)') <= MaxPending
  <2>1. IsFiniteSet(PendingOf(q)) /\ IsFiniteSet(Unexpired(q))
    BY FS_Subset DEF TypeOK, Bounded, PendingOf, Unexpired
  <2>2. CASE q = s
    <3>1. PendingOf(q)' = Unexpired(q) \cup {u}
      BY <2>2 DEF PendingOf, Unexpired
    <3>2. Cardinality(Unexpired(q) \cup {u})
            \in {Cardinality(Unexpired(q)), Cardinality(Unexpired(q)) + 1}
      BY <2>1, FS_AddElement
    <3>3. Cardinality(Unexpired(q)) \in Nat
      BY <2>1, FS_CardinalityType
    <3> QED BY <2>2, <3>1, <3>2, <3>3
  <2>3. CASE q # s
    <3>1. PendingOf(q)' \subseteq PendingOf(q)
      BY <2>3 DEF PendingOf, Unexpired
    <3>2. Cardinality(PendingOf(q)) <= MaxPending
      BY DEF TypeOK, Bounded
    <3> QED BY <2>1, <3>1, <3>2, Fewer
  <2> QED BY <2>2, <2>3
<1> QED BY <1>2, <1>3 DEF PendingBounded, PendingOf

LEMMA MarkedRuns ==
  ASSUME TypeOK, OnlyMarks
  PROVE  RunsBounded' /\ runs' \subseteq Run
<1>1. PICK f : Marks(f) /\ runs' = MarkedBy(f)
  BY DEF OnlyMarks
<1>2. IsFiniteSet(runs')
  BY <1>1, Images DEF MarkedBy, TypeOK, Bounded
<1>3. ASSUME NEW s \in Sessions
      PROVE  Cardinality(Alive(s)') <= MaxRunning /\ Cardinality(KeptBy(s)') <= MaxKept + 1
  <2> DEFINE kept == {r \in MarkedBy(f) : r.kept /\ r.origin.session = s}
             alive == {r \in kept : ~r.finished}
  <2>1. KeptBy(s)' = kept /\ Alive(s)' = alive
    BY <1>1 DEF KeptBy, Alive
  <2>2. /\ Cardinality(kept) \in Nat /\ Cardinality(kept) <= Cardinality(KeptBy(s))
        /\ Cardinality(alive) \in Nat /\ Cardinality(alive) <= Cardinality(Alive(s))
        /\ Cardinality(KeptBy(s)) \in Nat /\ Cardinality(Alive(s)) \in Nat
    BY <1>1, MarkedAreBounded
  <2>3. Cardinality(Alive(s)) <= MaxRunning /\ Cardinality(KeptBy(s)) <= MaxKept + 1
    BY DEF TypeOK, Bounded, Alive
  <2> HIDE DEF kept, alive
  <2> QED BY <2>1, <2>2, <2>3
<1>4. runs' \subseteq Run
  BY <1>1 DEF Marks, MarkedBy
<1> QED BY <1>2, <1>3, <1>4 DEF RunsBounded, Alive, KeptBy

(* A start that finds room makes room among what is remembered as well.       *)
LEMMA StartedRuns ==
  ASSUME TypeOK, IdsAreSpent, NEW c \in Callers, StartCommit(c)
  PROVE  RunsBounded'
<1>1. PICK k \in calls[c] :
        /\ k.kind = "starting"
        /\ IF k.origin.session \in open /\ Cardinality(Alive(k.origin.session)) < MaxRunning
             THEN \E gone \in Evicted(k.origin.session) :
                    LET rest == (runs \ gone) \cup {[r EXCEPT !.kept = FALSE] : r \in gone}
                    IN /\ pending' = pending \ Consumable(k)
                       /\ runs' = rest \cup {NewRun(t) : t \in Consumable(k)}
             ELSE UNCHANGED <<pending, runs>>
  BY DEF StartCommit
<1> DEFINE s == k.origin.session
<1>2. CASE UNCHANGED <<pending, runs>>
  BY <1>2 DEF TypeOK, Bounded, RunsBounded, Alive, KeptBy
<1>3. ASSUME NEW gone \in Evicted(s), s \in open, Cardinality(Alive(s)) < MaxRunning,
             runs' = ((runs \ gone) \cup {[r EXCEPT !.kept = FALSE] : r \in gone})
                       \cup {NewRun(t) : t \in Consumable(k)}
      PROVE  RunsBounded'
  <2> DEFINE started == {NewRun(t) : t \in Consumable(k)}
             forgotten == {[r EXCEPT !.kept = FALSE] : r \in gone}
  <2>1. started = {} \/ \E u : started = {u}
    <3>1. \A t, u \in Consumable(k) : t = u
      BY DEF Consumable, IdsAreSpent
    <3>2. Consumable(k) = {} \/ \E t : Consumable(k) = {t}
      BY <3>1
    <3> QED BY <3>2
  <2>2. IsFiniteSet(started) /\ Cardinality(started) \in {0, 1}
    <3> HIDE DEF started
    <3>1. CASE started = {}
      BY <3>1, FS_EmptySet
    <3>2. ASSUME NEW u, started = {u}
          PROVE  IsFiniteSet(started) /\ Cardinality(started) = 1
      <4>1. IsFiniteSet({u}) /\ Cardinality({u}) = 1
        BY FS_Singleton
      <4> QED BY <3>2, <4>1
    <3> QED BY <2>1, <3>1, <3>2
  <2>3. gone \subseteq KeptBy(s) /\ gone \subseteq runs /\ s \in Sessions
    BY <1>3 DEF Evicted, KeptBy, TypeOK
  <2>4. \A r \in forgotten : ~r.kept
    BY <2>3 DEF TypeOK, Run
  <2>5. \A r \in started : r.origin.session = s
    BY DEF NewRun, Consumable
  <2>6. IsFiniteSet(runs')
    <3>1. IsFiniteSet(runs) /\ IsFiniteSet(gone)
      BY <2>3, FS_Subset DEF TypeOK, Bounded
    <3> DEFINE f == [r \in gone |-> [r EXCEPT !.kept = FALSE]]
    <3>2. forgotten = {f[r] : r \in gone}
      OBVIOUS
    <3>3. IsFiniteSet(forgotten)
      <4> HIDE DEF f, forgotten
      <4> QED BY <3>1, <3>2, Images
    <3>4. IsFiniteSet(runs \ gone)
      BY <3>1, FS_Difference
    <3> HIDE DEF forgotten, started
    <3> QED BY <2>2, <3>3, <3>4, <1>3, FS_Union DEF forgotten, started
  <2> HIDE DEF started, forgotten
  <2>7. runs' = ((runs \ gone) \cup forgotten) \cup started
    BY <1>3 DEF started, forgotten
  <2>8. ASSUME NEW q \in Sessions
        PROVE  Cardinality(Alive(q)') <= MaxRunning /\ Cardinality(KeptBy(q)') <= MaxKept + 1
    <3>1. /\ IsFiniteSet(KeptBy(q)) /\ Cardinality(KeptBy(q)) \in Nat
          /\ IsFiniteSet(Alive(q)) /\ Cardinality(Alive(q)) \in Nat
      BY FS_Subset, FS_CardinalityType DEF TypeOK, Bounded, KeptBy, Alive
    <3>2. CASE q # s
      <4>1. KeptBy(q)' \subseteq KeptBy(q) /\ Alive(q)' \subseteq Alive(q)
        BY <2>4, <2>5, <2>7, <3>2 DEF KeptBy, Alive
      <4>2. Cardinality(Alive(q)) <= MaxRunning /\ Cardinality(KeptBy(q)) <= MaxKept + 1
        BY DEF TypeOK, Bounded, Alive
      <4>3. /\ Cardinality(KeptBy(q)') \in Nat /\ Cardinality(Alive(q)') \in Nat
            /\ Cardinality(KeptBy(q)') <= Cardinality(KeptBy(q))
            /\ Cardinality(Alive(q)') <= Cardinality(Alive(q))
        BY <3>1, <4>1, Fewer
      <4> QED BY <3>1, <4>2, <4>3
    <3>3. CASE q = s
      <4> DEFINE left == KeptBy(s) \ gone
      <4>1. KeptBy(q)' \subseteq left \cup started /\ Alive(q)' \subseteq Alive(s) \cup started
        BY <2>4, <2>7, <3>3 DEF KeptBy, Alive
      <4>2. /\ IsFiniteSet(gone) /\ Cardinality(gone) \in Nat
            /\ Cardinality(gone) = IF Cardinality(KeptBy(s)) > MaxKept
                                     THEN Cardinality(KeptBy(s)) - MaxKept ELSE 0
        BY <2>3, <3>1, <3>3, Fewer DEF Evicted
      <4>3. IsFiniteSet(left) /\ Cardinality(left) \in Nat /\ Cardinality(left) <= MaxKept
        <5>1. KeptBy(s) \cap gone = gone
          BY <2>3
        <5>2. IsFiniteSet(left) /\ Cardinality(left) = Cardinality(KeptBy(s)) - Cardinality(gone)
          BY <3>1, <3>3, <5>1, FS_Difference
        <5> QED BY <4>2, <5>2, <3>1, <3>3
      <4> HIDE DEF left
      <4>4. /\ IsFiniteSet(left \cup started)
            /\ Cardinality(left \cup started) <= Cardinality(left) + Cardinality(started)
        BY <2>2, <4>3, Joined
      <4>5. /\ IsFiniteSet(Alive(s) \cup started)
            /\ Cardinality(Alive(s) \cup started) <= Cardinality(Alive(s)) + Cardinality(started)
        BY <2>2, <3>1, <3>3, Joined
      <4>6. /\ Cardinality(KeptBy(q)') <= Cardinality(left \cup started)
            /\ Cardinality(Alive(q)') <= Cardinality(Alive(s) \cup started)
            /\ Cardinality(KeptBy(q)') \in Nat /\ Cardinality(Alive(q)') \in Nat
            /\ Cardinality(left \cup started) \in Nat
            /\ Cardinality(Alive(s) \cup started) \in Nat
        BY <4>1, <4>4, <4>5, Fewer
      <4> QED BY <1>3, <2>2, <3>1, <3>3, <4>3, <4>4, <4>5, <4>6
    <3> QED BY <3>2, <3>3
  <2> QED BY <2>6, <2>8 DEF RunsBounded, Alive, KeptBy
<1> QED BY <1>1, <1>2, <1>3

-----------------------------------------------------------------------------
(* Types.                                                                     *)
LEMMA CallTypes ==
  ASSUME NEW k \in Call
  PROVE  /\ k.origin \in Target /\ k.origin.session \in Sessions
         /\ k.kind = "prepared" => k.profile \in Profile
         /\ k.kind = "starting" => k.profile \in Profile /\ k.id \in Tasks
BY DEF Call, Target

LEMMA CallsMade ==
  ASSUME NEW origin \in Target, NEW profile \in Profile, NEW id \in Tasks
  PROVE  /\ [kind |-> "checked", origin |-> origin] \in Call
         /\ [kind |-> "prepared", origin |-> origin, profile |-> profile] \in Call
         /\ [kind |-> "starting", origin |-> origin, profile |-> profile, id |-> id] \in Call
BY DEF Call

LEMMA TypeInit == Init => TypeOK
<1> SUFFICES ASSUME Init PROVE TypeOK
  OBVIOUS
<1>1. Bounded
  <2>1. \A s \in Sessions : PendingOf(s) = {} /\ Alive(s) = {} /\ KeptBy(s) = {}
    BY DEF Init, PendingOf, Alive, KeptBy
  <2>2. IsFiniteSet({}) /\ Cardinality({}) = 0
    BY FS_EmptySet
  <2>3. 0 <= MaxPending /\ 0 <= MaxRunning /\ 0 <= MaxKept + 1
    OBVIOUS
  <2>4. IsFiniteSet(pending) /\ IsFiniteSet(runs)
    BY <2>2 DEF Init
  <2> QED BY <2>1, <2>2, <2>3, <2>4 DEF Bounded
<1>2. target \in [Sessions -> Target]
  BY NewTargetType DEF Init
<1>3. stored \in [Profiles -> SUBSET Profile]
  BY DEF Init, Profile
<1> QED BY <1>1, <1>2, <1>3 DEF Init, TypeOK

LEMMA TypeStep ==
  ASSUME TypeOK, IdsAreSpent, [Next]_vars
  PROVE  TypeOK'
<1> USE DEF database, sessions
<1>1. RunsBounded' /\ runs' \subseteq Run
  <2>1. CASE OnlyMarks
    BY <2>1, MarkedRuns
  <2>2. ASSUME NEW c \in Callers, StartCommit(c)
        PROVE  RunsBounded' /\ runs' \subseteq Run
    <3>1. RunsBounded'
      BY <2>2, StartedRuns
    <3>2. CASE StartsNothing
      BY <3>1, <3>2 DEF StartsNothing, TypeOK
    <3>3. ASSUME NEW k, NEW f, Starts(k, f) PROVE runs' \subseteq Run
      <4>1. \A t \in Consumable(k) : NewRun(t) \in Run
        BY DEF Consumable, NewRun, Run, TypeOK, Pending
      <4> QED BY <3>3, <4>1 DEF Starts, Marks, MarkedBy
    <3> QED BY <2>2, <3>1, <3>2, <3>3, CommitStarts
  <2> QED BY <2>1, <2>2, StepMarks
<1>2. ASSUME pending' \subseteq Pending, PendingBounded', stored' \in [Profiles -> SUBSET Profile],
             edits' \in Nat, instances' \in Nat, saving' \in [Profiles -> Nat],
             deleting' \subseteq Profiles, open' \subseteq Sessions,
             target' \in [Sessions -> Target], issued' \subseteq Tasks,
             calls' \in [Callers -> SUBSET Call], confirmed' \subseteq Tasks \X Routes
      PROVE  TypeOK'
  <2>1. Bounded'
    BY <1>1, <1>2 DEF Bounded, PendingBounded, RunsBounded, Alive
  <2> QED BY <1>1, <1>2, <2>1 DEF TypeOK
<1>3. pending' \subseteq pending => pending' \subseteq Pending /\ PendingBounded'
  BY FewerPending DEF TypeOK
<1>4. /\ \A p \in Profiles : stored[p] \subseteq Profile
      /\ \A p \in Profiles, old \in Profile, secret \in Secrets :
           [old EXCEPT !.secret = secret] \in Profile
      /\ \A t \in pending : t.origin.session \in Sessions /\ t.origin \in Target /\ t.id \in Tasks
      /\ \A c \in Callers : calls[c] \subseteq Call
  BY DEF TypeOK, Profile, Pending, Target
<1>5. CASE Edits
  <2>1. ASSUME NEW p \in Profiles, NEW secret \in Secrets
        PROVE  {[old EXCEPT !.secret = secret] : old \in stored[p]} \subseteq Profile
    BY <1>4, <2>1
  <2>2. ASSUME NEW p \in Profiles, NEW profile \in Profile, NEW ok \in BOOLEAN,
               SaveProfile(p, profile, ok)
        PROVE  TypeOK'
    <3>1. profile.secret \in Secrets
      BY DEF Profile
    <3>2. {[old EXCEPT !.secret = profile.secret] : old \in stored[p]} \subseteq Profile
      BY <2>1, <3>1
    <3>3. stored' \in [Profiles -> SUBSET Profile]
      BY <2>2, <3>2 DEF SaveProfile, TypeOK
    <3> QED BY <1>2, <1>3, <2>2, <3>3 DEF SaveProfile, TypeOK
  <2>3. ASSUME NEW p \in Profiles, DeleteSecrets(p)
        PROVE  TypeOK'
    <3>1. stored' \in [Profiles -> SUBSET Profile]
      BY <2>1, <2>3 DEF DeleteSecrets, TypeOK
    <3> QED BY <1>2, <1>3, <2>3, <3>1 DEF DeleteSecrets, TypeOK
  <2>4. ASSUME NEW p \in Profiles, NEW ok \in BOOLEAN, DeleteRow(p, ok)
        PROVE  TypeOK'
    BY <1>2, <1>3, <2>4 DEF DeleteRow, TypeOK
  <2> QED BY <1>5, <2>2, <2>3, <2>4 DEF Edits
<1>6. ASSUME NEW p \in Profiles, InvalidateProfile(p)
      PROVE  TypeOK'
  <2>1. target' \in [Sessions -> Target]
    BY <1>6, TargetMoves DEF InvalidateProfile, TypeOK
  <2>2. saving' \in [Profiles -> Nat]
    BY <1>6 DEF InvalidateProfile, TypeOK
  <2> QED BY <1>2, <1>3, <1>6, <2>1, <2>2 DEF InvalidateProfile, TypeOK
<1>7. ASSUME NEW s \in Sessions, Register(s) \/ Remove(s) \/ MoveContext(s)
      PROVE  TypeOK'
  <2>1. target' \in [Sessions -> Target]
    <3>1. NewTarget(s, instances + 1) \in Target /\ InvalidateContext(target[s]) \in Target
      BY TargetMoves, NewTargetType DEF TypeOK
    <3> QED BY <1>7, <3>1 DEF Register, Remove, MoveContext, TypeOK
  <2>2. pending' \subseteq pending /\ open' \subseteq Sessions /\ instances' \in Nat
    BY <1>7 DEF Register, Remove, MoveContext, TypeOK
  <2> QED BY <1>2, <1>3, <1>7, <2>1, <2>2 DEF Register, Remove, MoveContext, TypeOK
<1>8. ASSUME NEW c \in Callers, NEW s \in Sessions, PrepareCheck(c, s)
      PROVE  TypeOK'
  <2>1. [kind |-> "checked", origin |-> target[s]] \in Call
    BY DEF Call, TypeOK
  <2>2. calls' \in [Callers -> SUBSET Call]
    BY <1>8, <2>1 DEF PrepareCheck, TypeOK
  <2> QED BY <1>2, <1>3, <1>8, <2>2 DEF PrepareCheck, TypeOK
<1>9. ASSUME NEW c \in Callers, PrepareRead(c)
      PROVE  TypeOK'
  <2>1. PICK k \in calls[c] :
          calls' = [calls EXCEPT ![c] =
            {[kind |-> "prepared", origin |-> k.origin, profile |-> profile] :
               profile \in stored[ProfileOf[k.origin.session]]}]
    BY <1>9 DEF PrepareRead
  <2>2. k.origin \in Target /\ stored[ProfileOf[k.origin.session]] \subseteq Profile
    BY <1>4, CallTypes
  <2>3. calls' \in [Callers -> SUBSET Call]
    BY <2>1, <2>2 DEF TypeOK, Call
  <2> QED BY <1>2, <1>3, <1>9, <2>3 DEF PrepareRead, TypeOK
<1>10. ASSUME NEW c \in Callers, PrepareInsert(c)
       PROVE  TypeOK'
  <2>1. PICK k \in calls[c] :
          /\ k.kind = "prepared"
          /\ \/ /\ Cardinality(Unexpired(k.origin.session)) < MaxPending
                /\ \E id \in Tasks \ issued :
                     /\ issued' = issued \cup {id}
                     /\ pending' = (pending \ PendingOf(k.origin.session))
                          \cup Unexpired(k.origin.session) \cup
                          {[id |-> id, origin |-> k.origin, profile |-> k.profile,
                            approved |-> FALSE, fresh |-> TRUE]}
             \/ pending' = (pending \ PendingOf(k.origin.session))
                             \cup Unexpired(k.origin.session) /\ UNCHANGED issued
             \/ UNCHANGED <<pending, issued>>
    BY <1>10 DEF PrepareInsert
  <2>2. k.origin \in Target /\ k.origin.session \in Sessions /\ k.profile \in Profile
    BY <1>4, <2>1, CallTypes
  <2>3. pending' \subseteq Pending /\ PendingBounded' /\ issued' \subseteq Tasks
    <3>1. Unexpired(k.origin.session) \subseteq pending
      BY DEF Unexpired, PendingOf
    <3>2. ASSUME NEW id \in Tasks \ issued,
                 Cardinality(Unexpired(k.origin.session)) < MaxPending,
                 issued' = issued \cup {id},
                 pending' = (pending \ PendingOf(k.origin.session))
                      \cup Unexpired(k.origin.session) \cup
                      {[id |-> id, origin |-> k.origin, profile |-> k.profile,
                        approved |-> FALSE, fresh |-> TRUE]}
          PROVE  pending' \subseteq Pending /\ PendingBounded' /\ issued' \subseteq Tasks
      <4> DEFINE u == [id |-> id, origin |-> k.origin, profile |-> k.profile,
                       approved |-> FALSE, fresh |-> TRUE]
      <4>1. u \in Pending /\ u.origin.session = k.origin.session
        BY <2>2 DEF Pending
      <4> HIDE DEF u
      <4>2. PendingBounded'
        BY <2>2, <3>2, <4>1, InsertedPending DEF u
      <4> QED BY <3>1, <3>2, <4>1, <4>2 DEF u, TypeOK
    <3>3. CASE pending' \subseteq pending /\ issued' = issued
      BY <1>3, <3>3 DEF TypeOK
    <3> QED BY <2>1, <3>1, <3>2, <3>3
  <2>4. calls' \in [Callers -> SUBSET Call]
    BY <1>10 DEF PrepareInsert, TypeOK
  <2> QED BY <1>2, <1>10, <2>3, <2>4 DEF PrepareInsert, TypeOK
<1>11. ASSUME NEW t \in pending, NEW u \in Pending, u.origin = t.origin,
              pending' = (pending \ {t}) \cup {u}
       PROVE  pending' \subseteq Pending /\ PendingBounded'
  BY <1>11, ReplacedPending DEF TypeOK
<1>12. ASSUME NEW t \in pending, NEW route \in Routes, Approve(t, route)
       PROVE  TypeOK'
  <2>1. [t EXCEPT !.approved = TRUE] \in Pending /\ [t EXCEPT !.approved = TRUE].origin = t.origin
    BY DEF TypeOK, Pending
  <2>2. pending' \subseteq Pending /\ PendingBounded'
    BY <1>11, <1>12, <2>1 DEF Approve
  <2>3. confirmed' \subseteq Tasks \X Routes
    BY <1>4, <1>12 DEF Approve, TypeOK
  <2> QED BY <1>2, <1>12, <2>2, <2>3 DEF Approve, TypeOK
<1>13. ASSUME NEW t \in pending, Expire(t)
       PROVE  TypeOK'
  <2>1. [t EXCEPT !.fresh = FALSE] \in Pending /\ [t EXCEPT !.fresh = FALSE].origin = t.origin
    BY DEF TypeOK, Pending
  <2>2. pending' \subseteq Pending /\ PendingBounded'
    BY <1>11, <1>13, <2>1 DEF Expire
  <2> QED BY <1>2, <1>13, <2>2 DEF Expire, TypeOK
<1>14. ASSUME NEW t \in pending, StopPending(t)
       PROVE  TypeOK'
  BY <1>2, <1>3, <1>14 DEF StopPending, TypeOK
<1>15. ASSUME NEW c \in Callers, NEW t \in pending, StartRead(c, t.id, t.origin)
       PROVE  TypeOK'
  <2>1. stored[ProfileOf[t.origin.session]] \subseteq Profile
    BY <1>4
  <2>2. calls' \in [Callers -> SUBSET Call]
    BY <1>4, <1>15, <2>1 DEF StartRead, TypeOK, Call
  <2> QED BY <1>2, <1>3, <1>15, <2>2 DEF StartRead, TypeOK
<1>16. ASSUME NEW c \in Callers, StartCommit(c)
       PROVE  TypeOK'
  <2>1. pending' \subseteq pending
    BY <1>16 DEF StartCommit
  <2>2. calls' \in [Callers -> SUBSET Call]
    BY <1>16 DEF StartCommit, TypeOK
  <2> QED BY <1>2, <1>3, <1>16, <2>1, <2>2 DEF StartCommit, TypeOK
<1>17. ASSUME NEW r \in runs, StopRun(r) \/ Finish(r)
       PROVE  TypeOK'
  BY <1>2, <1>3, <1>17 DEF StopRun, Finish, TypeOK
<1>18. CASE UNCHANGED vars
  BY <1>2, <1>3, <1>18 DEF vars, TypeOK
<1> QED BY <1>5, <1>6, <1>7, <1>8, <1>9, <1>10, <1>12, <1>13, <1>14, <1>15, <1>16, <1>17, <1>18
        DEF Next

-----------------------------------------------------------------------------
(* How the targets move, and what is held of them.                            *)
Moves(s) ==
  target'[s].instance = target[s].instance /\ target'[s].version > target[s].version
Renews(s) == target'[s].instance = instances' /\ instances' > instances

LEMMA TargetSteps ==
  ASSUME TypeOK, TypeOK', [Next]_vars
  PROVE  /\ instances' >= instances
         /\ \A s \in Sessions : target'[s] = target[s] \/ Moves(s) \/ Renews(s)
<1> USE DEF database, sessions
<1>1. /\ \A s \in Sessions : target[s] \in Target /\ target[s].version \in Nat
      /\ instances \in Nat
  BY DEF TypeOK, Target
<1>2. ASSUME NEW p \in Profiles, InvalidateProfile(p)
      PROVE  /\ instances' >= instances
             /\ \A s \in Sessions : target'[s] = target[s] \/ Moves(s)
  <2>1. ASSUME NEW s \in Sessions
        PROVE  target'[s] = target[s] \/ target'[s] = InvalidateRoute(target[s])
    BY <1>2 DEF InvalidateProfile
  <2>2. ASSUME NEW s \in Sessions, target'[s] = InvalidateRoute(target[s])
        PROVE  Moves(s)
    BY <1>1, <2>2, TargetMoves DEF Moves
  <2> QED BY <1>1, <1>2, <2>1, <2>2 DEF InvalidateProfile
<1>3. ASSUME NEW r \in Sessions, Register(r)
      PROVE  /\ instances' >= instances
             /\ \A s \in Sessions : target'[s] = target[s] \/ Renews(s)
  <2>1. /\ instances' = instances + 1 /\ target' = [target EXCEPT ![r] = NewTarget(r, instances')]
        /\ instances' \in Nat
    BY <1>1, <1>3 DEF Register
  <2>2. target'[r] = NewTarget(r, instances') /\ \A s \in Sessions \ {r} : target'[s] = target[s]
    BY <2>1 DEF TypeOK
  <2>3. Renews(r)
    BY <1>1, <2>1, <2>2, NewTargetType DEF Renews
  <2> QED BY <1>1, <2>1, <2>2, <2>3
<1>4. ASSUME NEW r \in Sessions, MoveContext(r)
      PROVE  /\ instances' >= instances
             /\ \A s \in Sessions : target'[s] = target[s] \/ Moves(s)
  <2>1. /\ target'[r] = InvalidateContext(target[r])
        /\ \A s \in Sessions \ {r} : target'[s] = target[s]
    BY <1>4 DEF MoveContext, TypeOK
  <2>2. Moves(r)
    BY <1>1, <2>1, TargetMoves DEF Moves
  <2> QED BY <1>1, <1>4, <2>1, <2>2 DEF MoveContext
<1>5. CASE UNCHANGED <<target, instances>>
  BY <1>1, <1>5
<1>6. \/ UNCHANGED <<target, instances>>
      \/ \E p \in Profiles : InvalidateProfile(p)
      \/ \E r \in Sessions : Register(r) \/ MoveContext(r)
  BY DEF Next, vars, Edits, SaveProfile, DeleteSecrets, DeleteRow, Remove, PrepareCheck,
         PrepareRead, PrepareInsert, StartRead, StartCommit, Approve, Expire, StopPending,
         StopRun, Finish
<1> QED BY <1>1, <1>2, <1>3, <1>4, <1>5, <1>6

LEMMA NumberedStep ==
  ASSUME TypeOK, TypeOK', InstancesAreNumbered, [Next]_vars
  PROVE  InstancesAreNumbered'
<1>1. /\ \A s \in Sessions : target[s].instance \in Nat /\ target[s].instance <= instances
      /\ instances \in Nat /\ instances' \in Nat
  BY DEF TypeOK, Target, InstancesAreNumbered
<1> QED BY <1>1, TargetSteps DEF InstancesAreNumbered, Moves, Renews

LEMMA PendingStep ==
  ASSUME TypeOK, PendingIsCurrent, [Next]_vars
  PROVE  PendingIsCurrent'
<1> USE DEF PendingIsCurrent, database, sessions
<1>1. CASE UNCHANGED <<open, target>> /\ pending' \subseteq pending
  BY <1>1
<1>2. ASSUME NEW t \in pending, NEW u, u.origin = t.origin,
             UNCHANGED <<open, target>>, pending' = (pending \ {t}) \cup {u}
      PROVE  PendingIsCurrent'
  BY <1>2
<1>3. \A t \in pending : t.origin.session \in Sessions
  BY DEF TypeOK, Pending, Target
<1>4. ASSUME NEW p \in Profiles, InvalidateProfile(p)
      PROVE  PendingIsCurrent'
  BY <1>3, <1>4 DEF InvalidateProfile, TypeOK
<1>5. ASSUME NEW s \in Sessions, Register(s) \/ Remove(s) \/ MoveContext(s)
      PROVE  PendingIsCurrent'
  BY <1>3, <1>5 DEF Register, Remove, MoveContext, PendingOf, TypeOK
<1>6. ASSUME NEW c \in Callers, PrepareInsert(c)
      PROVE  PendingIsCurrent'
  <2>1. PICK k \in calls[c] :
          \/ pending' \subseteq pending
          \/ /\ k.origin.session \in open /\ k.origin = target[k.origin.session]
             /\ \E id : pending' = (pending \ PendingOf(k.origin.session))
                          \cup Unexpired(k.origin.session) \cup
                          {[id |-> id, origin |-> k.origin, profile |-> k.profile,
                            approved |-> FALSE, fresh |-> TRUE]}
    BY <1>6 DEF PrepareInsert, Unexpired, PendingOf
  <2> QED BY <1>6, <2>1 DEF PrepareInsert, Unexpired, PendingOf
<1>7. ASSUME NEW t \in pending, Expire(t) \/ \E route \in Routes : Approve(t, route)
      PROVE  PendingIsCurrent'
  <2>1. /\ [t EXCEPT !.approved = TRUE].origin = t.origin
        /\ [t EXCEPT !.fresh = FALSE].origin = t.origin
    BY DEF TypeOK, Pending
  <2> QED BY <1>2, <1>7, <2>1 DEF Approve, Expire
<1>8. ASSUME NEW t \in pending, StopPending(t)
      PROVE  PendingIsCurrent'
  BY <1>1, <1>8 DEF StopPending
<1>9. ASSUME NEW c \in Callers, StartCommit(c)
      PROVE  PendingIsCurrent'
  BY <1>1, <1>9 DEF StartCommit
<1>10. CASE UNCHANGED <<open, target, pending>>
  BY <1>1, <1>10
<1>11. \/ UNCHANGED <<open, target, pending>>
       \/ \E p \in Profiles : InvalidateProfile(p)
       \/ \E s \in Sessions : Register(s) \/ Remove(s) \/ MoveContext(s)
       \/ \E c \in Callers : PrepareInsert(c) \/ StartCommit(c)
       \/ \E t \in pending : \/ \E route \in Routes : Approve(t, route)
                             \/ Expire(t) \/ StopPending(t)
  BY DEF Next, vars, Edits, SaveProfile, DeleteSecrets, DeleteRow, PrepareCheck,
         PrepareRead, StartRead, StopRun, Finish
<1> QED BY <1>4, <1>5, <1>6, <1>7, <1>8, <1>9, <1>10, <1>11

(* A start call begins with what its profile is now, for a task that is       *)
(* pending; no other action makes one.                                        *)
StartsWith(k) ==
  /\ UNCHANGED <<database, sessions, pending, runs>>
  /\ \E t \in pending : k.origin = t.origin
  /\ k.profile \in stored[ProfileOf[k.origin.session]]

LEMMA StartingSteps ==
  ASSUME TypeOK, [Next]_vars, NEW k \in StartingCalls'
  PROVE  /\ k \in StartingCalls \/ StartsWith(k)
         /\ k.origin.session \in Sessions /\ k.origin.version \in Nat /\ k.origin.instance \in Nat
<1>1. PICK c \in Callers : k \in calls'[c] /\ k.kind = "starting"
  BY DEF StartingCalls
<1>2. \A q \in StartingCalls : /\ q.origin.session \in Sessions
                               /\ q.origin.version \in Nat /\ q.origin.instance \in Nat
  BY CallTypes DEF StartingCalls, TypeOK, Target
<1>3. CASE k \in calls[c]
  BY <1>1, <1>2, <1>3 DEF StartingCalls
<1>4. ASSUME NEW d \in Callers, NEW t \in pending, StartRead(d, t.id, t.origin), k \notin calls[c]
      PROVE  StartsWith(k) /\ k.origin = t.origin
  <2>1. c = d
    BY <1>1, <1>4 DEF StartRead, TypeOK
  <2>2. \E profile \in stored[ProfileOf[t.origin.session]] :
           k = [kind |-> "starting", origin |-> t.origin, profile |-> profile, id |-> t.id]
    BY <1>1, <1>4, <2>1 DEF StartRead, TypeOK
  <2> QED BY <1>4, <2>2 DEF StartsWith, StartRead
<1>5. \A t \in pending : /\ t.origin.session \in Sessions
                         /\ t.origin.version \in Nat /\ t.origin.instance \in Nat
  BY DEF TypeOK, Pending, Target
<1>6. ASSUME NEW d \in Callers,
             \/ \E s \in Sessions : PrepareCheck(d, s)
             \/ PrepareRead(d) \/ PrepareInsert(d) \/ StartCommit(d)
      PROVE  k \in calls[c]
  BY <1>1, <1>6 DEF PrepareCheck, PrepareRead, PrepareInsert, StartCommit, TypeOK
<1>7. CASE UNCHANGED calls
  BY <1>1, <1>3, <1>7
<1>8. \/ UNCHANGED calls
      \/ \E d \in Callers : \/ \E s \in Sessions : PrepareCheck(d, s)
                            \/ PrepareRead(d) \/ PrepareInsert(d) \/ StartCommit(d)
                            \/ \E t \in pending : StartRead(d, t.id, t.origin)
  BY DEF Next, vars, Edits, SaveProfile, DeleteSecrets, DeleteRow, InvalidateProfile,
         Register, Remove, MoveContext, Approve, Expire, StopPending, StopRun, Finish
<1> QED BY <1>1, <1>3, <1>4, <1>5, <1>6, <1>7, <1>8

LEMMA DatedStep ==
  ASSUME TypeOK, TypeOK', InstancesAreNumbered, PendingIsCurrent, StartsAreDated, [Next]_vars
  PROVE  StartsAreDated'
<1> SUFFICES ASSUME NEW k \in StartingCalls'
             PROVE  /\ k.origin.instance <= instances'
                    /\ k.origin.instance = target'[k.origin.session].instance
                         => k.origin.version <= target'[k.origin.session].version
  BY DEF StartsAreDated
<1> DEFINE s == k.origin.session
<1>1. /\ s \in Sessions /\ k.origin.version \in Nat /\ k.origin.instance \in Nat
      /\ target[s].version \in Nat /\ target[s].instance \in Nat /\ instances \in Nat
  BY StartingSteps DEF TypeOK, Target
<1>2. k.origin.instance <= instances
      /\ (k.origin.instance = target[s].instance => k.origin.version <= target[s].version)
  <2>1. CASE k \in StartingCalls
    BY <2>1 DEF StartsAreDated
  <2>2. CASE StartsWith(k)
    BY <1>1, <2>2 DEF StartsWith, PendingIsCurrent, InstancesAreNumbered
  <2> QED BY <2>1, <2>2, StartingSteps
<1>3. /\ instances' >= instances
      /\ target'[s] = target[s] \/ Moves(s) \/ Renews(s)
  BY <1>1, TargetSteps
<1>4. instances' \in Nat /\ target'[s].version \in Nat
  BY <1>1 DEF TypeOK, Target
<1> QED BY <1>1, <1>2, <1>3, <1>4 DEF Moves, Renews

-----------------------------------------------------------------------------
(* What is due stays due, until the sessions are told.                        *)
LEMMA RouteStep ==
  ASSUME TypeOK, [Next]_vars,
         NEW q, q.origin.session \in Sessions, OnDueRoute(q)
  PROVE  OnDueRoute(q)' \/ InvalidateProfile(ProfileOf[q.origin.session])
<1> DEFINE p == ProfileOf[q.origin.session]
<1>1. p \in Profiles /\ saving[p] \in Nat
  BY DEF TypeOK
<1>2. CASE UNCHANGED <<stored, saving>>
  BY <1>2 DEF OnDueRoute, OnSavedRoute
<1>3. ASSUME NEW o \in Profiles, NEW profile \in Profile, NEW ok \in BOOLEAN,
             SaveProfile(o, profile, ok)
      PROVE  OnDueRoute(q)'
  <2>1. CASE ok
    BY <1>1, <1>3, <2>1 DEF SaveProfile, OnDueRoute, OnSavedRoute, TypeOK
  <2>2. CASE ~ok /\ saving[p] > 0
    BY <1>3, <2>2 DEF SaveProfile, OnDueRoute
  <2>3. CASE ~ok /\ OnSavedRoute(q)
    <3>1. PICK old \in stored[p] : old \in Profile /\ old.route = q.profile.route
      BY <1>1, <2>3 DEF OnSavedRoute, TypeOK
    <3>2. [old EXCEPT !.secret = profile.secret].route = q.profile.route
      BY <3>1 DEF Profile
    <3>3. old \in stored'[p] \/ [old EXCEPT !.secret = profile.secret] \in stored'[p]
      BY <1>1, <1>3, <2>3, <3>1 DEF SaveProfile, TypeOK
    <3> QED BY <3>1, <3>2, <3>3 DEF OnDueRoute, OnSavedRoute
  <2> QED BY <2>1, <2>2, <2>3 DEF OnDueRoute
<1>4. ASSUME NEW o \in Profiles, DeleteSecrets(o)
      PROVE  OnDueRoute(q)'
  <2>1. CASE saving[p] > 0
    BY <1>4, <2>1 DEF DeleteSecrets, OnDueRoute
  <2>2. CASE OnSavedRoute(q)
    <3>1. PICK old \in stored[p] : old \in Profile /\ old.route = q.profile.route
      BY <1>1, <2>2 DEF OnSavedRoute, TypeOK
    <3>2. [old EXCEPT !.secret = NoSecret].route = q.profile.route
      BY <3>1 DEF Profile
    <3>3. old \in stored'[p] \/ [old EXCEPT !.secret = NoSecret] \in stored'[p]
      BY <1>1, <1>4, <3>1 DEF DeleteSecrets, TypeOK
    <3> QED BY <3>1, <3>2, <3>3 DEF OnDueRoute, OnSavedRoute
  <2> QED BY <2>1, <2>2 DEF OnDueRoute
<1>5. ASSUME NEW o \in Profiles, NEW ok \in BOOLEAN, DeleteRow(o, ok)
      PROVE  OnDueRoute(q)'
  BY <1>1, <1>5 DEF DeleteRow, OnDueRoute, OnSavedRoute, TypeOK
<1>6. ASSUME NEW o \in Profiles, InvalidateProfile(o), o # p
      PROVE  OnDueRoute(q)'
  BY <1>1, <1>6 DEF InvalidateProfile, OnDueRoute, OnSavedRoute, TypeOK
<1>7. \/ UNCHANGED <<stored, saving>>
      \/ Edits \/ \E o \in Profiles : InvalidateProfile(o)
  BY DEF Next, vars, database, Register, Remove, MoveContext, PrepareCheck, PrepareRead,
         PrepareInsert, StartRead, StartCommit, Approve, Expire, StopPending, StopRun, Finish
<1> QED BY <1>2, <1>3, <1>4, <1>5, <1>6, <1>7 DEF Edits

(* A session that opens has a new target.                                     *)
LEMMA OpenStep ==
  ASSUME TypeOK, TypeOK', InstancesAreNumbered, [Next]_vars,
         NEW s \in open', target'[s] = target[s]
  PROVE  s \in open
<1>1. CASE s \in Sessions /\ Register(s)
  <2>1. target'[s].instance = instances + 1 /\ instances \in Nat
    BY <1>1, NewTargetType DEF Register, TypeOK
  <2>2. target[s].instance <= instances /\ target[s].instance \in Nat
    BY <1>1 DEF InstancesAreNumbered, TypeOK, Target
  <2> QED BY <2>1, <2>2
<1>2. CASE open' \subseteq open
  BY <1>2
<1>3. open' \subseteq open \/ \E r \in Sessions : Register(r)
  BY DEF Next, vars, sessions, Edits, SaveProfile, DeleteSecrets, DeleteRow, Remove,
         PrepareCheck, PrepareRead, PrepareInsert, StartRead, StartCommit, Approve, Expire,
         StopPending, StopRun, Finish, InvalidateProfile, MoveContext
<1>4. ASSUME NEW r \in Sessions, Register(r), r # s
      PROVE  s \in open
  BY <1>4 DEF Register
<1> QED BY <1>1, <1>2, <1>3, <1>4

(* A route that is given up while a call holds it: its target goes first.     *)
LEMMA DueStep ==
  ASSUME TypeOK, TypeOK', InstancesAreNumbered, PendingIsCurrent, StartsAreDated,
         StartsAreDue, [Next]_vars
  PROVE  StartsAreDue'
<1> SUFFICES ASSUME NEW k \in StartingCalls',
                    k.origin.session \in open', k.origin = target'[k.origin.session]
             PROVE  OnDueRoute(k)'
  BY DEF StartsAreDue
<1> DEFINE s == k.origin.session
<1>1. /\ s \in Sessions /\ k.origin.version \in Nat /\ k.origin.instance \in Nat
      /\ target[s].version \in Nat /\ target[s].instance \in Nat /\ instances \in Nat
      /\ target[s] \in Target
  BY StartingSteps DEF TypeOK, Target
<1>2. CASE StartsWith(k)
  BY <1>2 DEF StartsWith, OnDueRoute, OnSavedRoute, database
<1>3. CASE k \in StartingCalls
  <2>1. target'[s] = target[s]
    <3>1. ~Moves(s) /\ ~Renews(s)
      BY <1>1, <1>3 DEF StartsAreDated, Moves, Renews, TypeOK
    <3> QED BY <1>1, <3>1, TargetSteps
  <2>2. s \in open
    BY <2>1, OpenStep
  <2>3. OnDueRoute(k)
    BY <1>3, <2>1, <2>2 DEF StartsAreDue
  <2>4. ~InvalidateProfile(ProfileOf[s])
    <3>1. SUFFICES ASSUME InvalidateProfile(ProfileOf[s]) PROVE FALSE
      OBVIOUS
    <3>2. target'[s] = InvalidateRoute(target[s])
      BY <1>1, <2>2, <3>1 DEF InvalidateProfile
    <3>3. InvalidateRoute(target[s]).version = target[s].version + 1
      BY <1>1, TargetMoves
    <3>4. target[s].version = target[s].version + 1
      BY <2>1, <3>2, <3>3
    <3> QED BY <1>1, <3>4
  <2> QED BY <1>1, <2>3, <2>4, RouteStep
<1> QED BY <1>2, <1>3, StartingSteps

-----------------------------------------------------------------------------
(* The runs that are observed: those there were, of sessions that stay and    *)
(* are not told of an edit, and the one a start adds.                         *)
Stays(r) ==
  LET s == r.origin.session IN
  /\ s \in open' /\ target'[s].instance = target[s].instance
  /\ ~InvalidateProfile(ProfileOf[s])

IsStarted(r) == \E k, f : Starts(k, f) /\ \E t \in Consumable(k) : r = NewRun(t)

LEMMA Untold ==
  ASSUME TypeOK, NEW ss, NEW r, ~r.stop, r \in StopRuns(ss) \cup Dropped(ss)
  PROVE  r \in runs /\ ~(r.kept /\ r.origin.session \in ss)
<1>1. ASSUME NEW q \in runs
      PROVE  [q EXCEPT !.stop = TRUE].stop /\ [q EXCEPT !.stop = TRUE, !.kept = FALSE].stop
  BY DEF TypeOK, Run
<1>2. PICK q \in runs :
        \/ r = q /\ ~(q.kept /\ q.origin.session \in ss)
        \/ r = [q EXCEPT !.stop = TRUE]
        \/ r = [q EXCEPT !.stop = TRUE, !.kept = FALSE]
  BY DEF StopRuns, Dropped
<1> QED BY <1>1, <1>2

LEMMA OneInvalidates ==
  ASSUME TypeOK, NEW p \in Profiles, NEW o \in Profiles,
         saving' = saving \/ (InvalidateProfile(o) /\ o # p)
  PROVE  ~InvalidateProfile(p)
BY DEF InvalidateProfile, TypeOK

LEMMA ObservedSteps ==
  ASSUME TypeOK, IdsAreSpent, RunsHaveOwners, [Next]_vars,
         NEW r \in runs', Observed(r)
  PROVE  (r \in runs /\ Stays(r)) \/ IsStarted(r)
<1> DEFINE s == r.origin.session
<1>1. \A q \in runs : q.origin.session \in Sessions
  BY DEF TypeOK, Run, Target
<1>2. r \in runs => s \in Sessions /\ ProfileOf[s] \in Profiles /\ s \in open /\ r.kept
  BY <1>1 DEF RunsHaveOwners
<1>3. r \in runs /\ saving' = saving => ~InvalidateProfile(ProfileOf[s])
  BY <1>2, OneInvalidates
<1>4. ASSUME NEW p \in Profiles, InvalidateProfile(p)
      PROVE  r \in runs /\ Stays(r)
  <2>1. r \in StopRuns({o \in open : ProfileOf[o] = p})
    BY <1>4 DEF InvalidateProfile
  <2>2. r \in runs /\ ProfileOf[s] # p
    BY <1>2, <2>1, Untold DEF Observed
  <2>3. target'[s].instance = target[s].instance /\ s \in open'
    BY <1>2, <1>4, <2>2 DEF InvalidateProfile
  <2>4. ~InvalidateProfile(ProfileOf[s])
    BY <1>2, <1>4, <2>2, OneInvalidates
  <2> QED BY <2>2, <2>3, <2>4 DEF Stays
<1>5. ASSUME NEW q \in Sessions, Register(q) \/ Remove(q)
      PROVE  r \in runs /\ Stays(r)
  <2>1. r \in Dropped({q})
    BY <1>5 DEF Register, Remove
  <2>2. r \in runs /\ s # q
    BY <1>2, <2>1, Untold DEF Observed
  <2> QED BY <1>2, <1>3, <1>5, <2>2 DEF Register, Remove, Stays, TypeOK, database
<1>6. ASSUME NEW q \in Sessions, MoveContext(q)
      PROVE  r \in runs /\ Stays(r)
  <2>1. InvalidateContext(target[q]).instance = target[q].instance
    BY TargetMoves DEF TypeOK
  <2>2. r \in runs /\ target'[s].instance = target[s].instance
    BY <1>2, <1>6, <2>1 DEF MoveContext, TypeOK
  <2> QED BY <1>2, <1>3, <1>6, <2>2 DEF MoveContext, Stays, database
<1>7. ASSUME NEW q \in runs, StopRun(q) \/ Finish(q)
      PROVE  r \in runs /\ Stays(r)
  <2>1. [q EXCEPT !.stop = TRUE].stop /\ [q EXCEPT !.finished = TRUE].finished
    BY DEF TypeOK, Run
  <2>2. r \in runs
    BY <1>7, <2>1 DEF StopRun, Finish, Observed
  <2> QED BY <1>2, <1>3, <1>7, <2>2 DEF StopRun, Finish, Stays, sessions, database
<1>8. ASSUME NEW c \in Callers, StartCommit(c)
      PROVE  (r \in runs /\ Stays(r)) \/ IsStarted(r)
  <2>1. r \in runs \/ IsStarted(r)
    <3>1. CASE StartsNothing
      BY <3>1 DEF StartsNothing
    <3>2. ASSUME NEW k, NEW f, Starts(k, f)
          PROVE  r \in runs \/ IsStarted(r)
      BY <3>2 DEF Starts, Marks, MarkedBy, IsStarted, Observed
    <3> QED BY <1>8, <3>1, <3>2, CommitStarts
  <2> QED BY <1>2, <1>3, <1>8, <2>1 DEF StartCommit, Stays, sessions, database
<1>9. CASE UNCHANGED <<database, sessions, runs>>
  BY <1>2, <1>3, <1>9 DEF Stays, database, sessions
<1>10. CASE Edits
  <2>1. /\ UNCHANGED <<open, target, runs>>
        /\ \A p \in Profiles : ~InvalidateProfile(p)
    <3>1. ASSUME NEW p \in Profiles PROVE ~InvalidateProfile(p)
      BY <1>10 DEF Edits, SaveProfile, DeleteSecrets, DeleteRow, InvalidateProfile, TypeOK
    <3> QED BY <1>10, <3>1 DEF Edits, SaveProfile, DeleteSecrets, DeleteRow, sessions
  <2> QED BY <1>2, <2>1 DEF Stays
<1>11. \/ UNCHANGED <<database, sessions, runs>> \/ Edits
       \/ \E p \in Profiles : InvalidateProfile(p)
       \/ \E q \in Sessions : Register(q) \/ Remove(q) \/ MoveContext(q)
       \/ \E c \in Callers : StartCommit(c)
       \/ \E q \in runs : StopRun(q) \/ Finish(q)
  BY DEF Next, vars, PrepareCheck, PrepareRead, PrepareInsert, StartRead, Approve, Expire,
         StopPending, database, sessions
<1> QED BY <1>4, <1>5, <1>6, <1>7, <1>8, <1>9, <1>10, <1>11


LEMMA OwnersStep ==
  ASSUME TypeOK, IdsAreSpent, RunsHaveOwners, [Next]_vars
  PROVE  RunsHaveOwners'
<1> SUFFICES ASSUME NEW r \in runs', Observed(r)
             PROVE  /\ r.origin.session \in open' /\ r.kept
                    /\ r.origin.instance = target'[r.origin.session].instance
  BY DEF RunsHaveOwners, Observed
<1>1. CASE r \in runs /\ Stays(r)
  BY <1>1 DEF RunsHaveOwners, Stays
<1>2. ASSUME NEW k, NEW f, Starts(k, f), NEW t \in Consumable(k), r = NewRun(t)
      PROVE  /\ r.origin.session \in open' /\ r.kept
             /\ r.origin = target'[r.origin.session]
  BY <1>2 DEF Starts, Consumable, Checked, NewRun, sessions
<1> QED BY <1>1, <1>2, ObservedSteps DEF IsStarted

LEMMA LeftStep ==
  ASSUME TypeOK, IdsAreSpent, RunsHaveOwners, StartsAreDue, ReplacedRoutesAreLeft, [Next]_vars
  PROVE  ReplacedRoutesAreLeft'
<1> SUFFICES ASSUME NEW r \in runs', Observed(r)
             PROVE  OnDueRoute(r)'
  BY DEF ReplacedRoutesAreLeft, Observed
<1>1. CASE r \in runs /\ Stays(r)
  <2>1. r.origin.session \in Sessions
    BY <1>1 DEF TypeOK, Run, Target
  <2>2. OnDueRoute(r)
    BY <1>1 DEF ReplacedRoutesAreLeft
  <2> QED BY <1>1, <2>1, <2>2, RouteStep DEF Stays
<1>2. ASSUME NEW k, NEW f, Starts(k, f), NEW t \in Consumable(k), r = NewRun(t)
      PROVE  OnDueRoute(r)'
  <2>1. /\ k.origin.session \in open /\ k.origin = target[k.origin.session]
        /\ r.origin = k.origin /\ r.profile = k.profile
    BY <1>2 DEF Consumable, Checked, NewRun
  <2>2. OnDueRoute(k)
    BY <1>2, <2>1 DEF Starts, StartsAreDue
  <2> QED BY <1>2, <2>1, <2>2 DEF Starts, OnDueRoute, OnSavedRoute, database
<1> QED BY <1>1, <1>2, ObservedSteps DEF IsStarted

-----------------------------------------------------------------------------
(* Ids and confirmations.  Runs that are only marked keep theirs ...          *)
LEMMA MarkedIds ==
  ASSUME TypeOK, RunsAreConfirmed, NEW f, Marks(f)
  PROVE  /\ \A r \in MarkedBy(f) : /\ \E q \in runs : q.id = r.id
                                   /\ <<r.id, r.profile.route>> \in confirmed
         /\ \A r, q \in MarkedBy(f) : r.id = q.id => r = q
BY DEF Marks, MarkedBy, RunsAreConfirmed

(* ... and what is pending keeps its id, or is given a new one.               *)
IdsInvariant == IdsAreSpent /\ ApprovalsAreConfirmed /\ RunsAreConfirmed

LEMMA MarkedStep ==
  ASSUME TypeOK, IdsInvariant, OnlyMarks,
         issued \subseteq issued', confirmed \subseteq confirmed',
         \A t \in pending' : /\ t.id \in issued'
                             /\ (\E u \in pending : u.id = t.id) \/ t.id \notin issued
                             /\ t.approved => <<t.id, t.profile.route>> \in confirmed',
         \A t, u \in pending' : t.id = u.id => t = u
  PROVE  IdsInvariant'
<1>1. PICK f : Marks(f) /\ runs' = MarkedBy(f)
  BY DEF OnlyMarks
<1>2. /\ \A r \in runs' : /\ \E q \in runs : q.id = r.id
                          /\ <<r.id, r.profile.route>> \in confirmed
      /\ \A r, q \in runs' : r.id = q.id => r = q
  BY <1>1, MarkedIds DEF IdsInvariant
<1>3. \A q \in runs : q.id \in issued /\ \A t \in pending : q.id # t.id
  BY DEF IdsInvariant, IdsAreSpent, RunsAreConfirmed
<1>4. IdsAreSpent'
  <2>1. \A r \in runs' : r.id \in issued'
    BY <1>2, <1>3
  <2> QED BY <2>1 DEF IdsAreSpent
<1>5. ApprovalsAreConfirmed'
  BY DEF ApprovalsAreConfirmed
<1>6. RunsAreConfirmed'
  <2>1. ASSUME NEW r \in runs', NEW t \in pending' PROVE r.id # t.id
    <3>1. PICK q \in runs : q.id = r.id
      BY <1>2
    <3>2. r.id \in issued /\ \A u \in pending : u.id # r.id
      BY <1>3, <3>1
    <3> QED BY <3>2
  <2>2. \A r \in runs' : <<r.id, r.profile.route>> \in confirmed'
    BY <1>2
  <2> QED BY <1>2, <2>1, <2>2 DEF RunsAreConfirmed
<1> QED BY <1>4, <1>5, <1>6 DEF IdsInvariant

LEMMA IdsStep ==
  ASSUME TypeOK, IdsInvariant, [Next]_vars
  PROVE  IdsInvariant'
<1>1. \A t \in pending : t \in Pending /\ t.id \in issued
  BY DEF TypeOK, IdsInvariant, IdsAreSpent
<1>2. ASSUME OnlyMarks, pending' \subseteq pending, UNCHANGED <<issued, confirmed>>
      PROVE  IdsInvariant'
  <2>1. /\ \A t, u \in pending : t.id = u.id => t = u
        /\ \A t \in pending : t.approved => <<t.id, t.profile.route>> \in confirmed
    BY DEF IdsInvariant, IdsAreSpent, ApprovalsAreConfirmed
  <2> QED BY <1>1, <1>2, <2>1, MarkedStep
<1>3. ASSUME NEW t \in pending, NEW u, u.id = t.id, OnlyMarks,
             u.approved => <<u.id, u.profile.route>> \in confirmed',
             UNCHANGED issued, confirmed \subseteq confirmed',
             pending' = (pending \ {t}) \cup {u}
      PROVE  IdsInvariant'
  <2>1. /\ \A v, w \in pending : v.id = w.id => v = w
        /\ \A v \in pending : v.approved => <<v.id, v.profile.route>> \in confirmed
    BY DEF IdsInvariant, IdsAreSpent, ApprovalsAreConfirmed
  <2> QED BY <1>1, <1>3, <2>1, MarkedStep
<1>4. ASSUME NEW t \in pending, NEW route \in Routes, Approve(t, route)
      PROVE  IdsInvariant'
  <2> DEFINE u == [t EXCEPT !.approved = TRUE]
  <2>1. u.id = t.id /\ u.profile = t.profile
    BY <1>1 DEF Pending
  <2>2. OnlyMarks
    BY <1>4, UnchangedMarks DEF Approve
  <2>3. /\ pending' = (pending \ {t}) \cup {u} /\ UNCHANGED issued
        /\ confirmed' = confirmed \cup {<<t.id, t.profile.route>>}
    BY <1>4 DEF Approve
  <2> HIDE DEF u
  <2> QED BY <1>3, <2>1, <2>2, <2>3
<1>5. ASSUME NEW t \in pending, Expire(t)
      PROVE  IdsInvariant'
  <2> DEFINE u == [t EXCEPT !.fresh = FALSE]
  <2>1. u.id = t.id /\ u.profile = t.profile /\ u.approved = t.approved
    BY <1>1 DEF Pending
  <2>2. OnlyMarks
    BY <1>5, UnchangedMarks DEF Expire
  <2>3. t.approved => <<t.id, t.profile.route>> \in confirmed
    BY DEF IdsInvariant, ApprovalsAreConfirmed
  <2>4. pending' = (pending \ {t}) \cup {u} /\ UNCHANGED <<issued, confirmed>>
    BY <1>5 DEF Expire
  <2> HIDE DEF u
  <2> QED BY <1>3, <2>1, <2>2, <2>3, <2>4
<1>6. ASSUME NEW c \in Callers, PrepareInsert(c)
      PROVE  IdsInvariant'
  <2>1. OnlyMarks /\ UNCHANGED confirmed
    BY <1>6, UnchangedMarks DEF PrepareInsert
  <2>2. CASE pending' \subseteq pending /\ UNCHANGED issued
    BY <1>2, <2>1, <2>2
  <2>3. ASSUME NEW id \in Tasks \ issued, NEW u, u.id = id, ~u.approved,
               issued' = issued \cup {id}, pending' \subseteq pending \cup {u}
        PROVE  IdsInvariant'
    <3>1. /\ \A v, w \in pending : v.id = w.id => v = w
          /\ \A v \in pending : v.approved => <<v.id, v.profile.route>> \in confirmed
      BY DEF IdsInvariant, IdsAreSpent, ApprovalsAreConfirmed
    <3> QED BY <1>1, <2>1, <2>3, <3>1, MarkedStep
  <2>4. \/ pending' \subseteq pending /\ UNCHANGED issued
        \/ \E id \in Tasks \ issued : \E u :
             /\ u.id = id /\ ~u.approved
             /\ issued' = issued \cup {id} /\ pending' \subseteq pending \cup {u}
    <3>1. PICK k \in calls[c] :
            \/ pending' \subseteq pending /\ UNCHANGED issued
            \/ \E id \in Tasks \ issued :
                 /\ issued' = issued \cup {id}
                 /\ pending' \subseteq pending \cup
                      {[id |-> id, origin |-> k.origin, profile |-> k.profile,
                        approved |-> FALSE, fresh |-> TRUE]}
      BY <1>6 DEF PrepareInsert, Unexpired, PendingOf
    <3>2. ASSUME NEW id \in Tasks \ issued, issued' = issued \cup {id},
                 pending' \subseteq pending \cup
                   {[id |-> id, origin |-> k.origin, profile |-> k.profile,
                     approved |-> FALSE, fresh |-> TRUE]}
          PROVE  \E u : /\ u.id = id /\ ~u.approved
                        /\ pending' \subseteq pending \cup {u}
      <4> WITNESS [id |-> id, origin |-> k.origin, profile |-> k.profile,
                   approved |-> FALSE, fresh |-> TRUE]
      <4> QED BY <3>2
    <3> QED BY <3>1, <3>2
  <2> QED BY <2>2, <2>3, <2>4
<1>7. ASSUME NEW c \in Callers, StartCommit(c)
      PROVE  IdsInvariant'
  <2>1. IdsAreSpent
    BY DEF IdsInvariant
  <2>2. CASE StartsNothing
    BY <1>2, <2>2, UnchangedMarks DEF StartsNothing
  <2>3. ASSUME NEW k, NEW f, Starts(k, f)
        PROVE  IdsInvariant'
    <3>1. /\ \A r \in MarkedBy(f) : /\ \E q \in runs : q.id = r.id
                                    /\ <<r.id, r.profile.route>> \in confirmed
          /\ \A r, q \in MarkedBy(f) : r.id = q.id => r = q
      BY <2>3, MarkedIds DEF IdsInvariant, Starts
    <3>2. CASE Consumable(k) = {}
      <4>1. OnlyMarks
        BY <2>3, <3>2 DEF Starts, OnlyMarks
      <4> QED BY <1>2, <2>3, <4>1 DEF Starts
    <3>3. ASSUME NEW t \in pending, Consumable(k) = {t}
          PROVE  IdsInvariant'
      <4>1. /\ runs' = MarkedBy(f) \cup {NewRun(t)} /\ pending' = pending \ {t}
            /\ UNCHANGED <<issued, confirmed>>
        BY <2>3, <3>3 DEF Starts
      <4>2. /\ NewRun(t).id = t.id /\ NewRun(t).profile = t.profile
            /\ <<t.id, t.profile.route>> \in confirmed
        BY <3>3 DEF NewRun, Consumable, IdsInvariant, ApprovalsAreConfirmed
      <4>3. /\ \A v, w \in pending : v.id = w.id => v = w
            /\ \A q \in runs : q.id \in issued /\ \A v \in pending : q.id # v.id
        BY DEF IdsInvariant, IdsAreSpent, RunsAreConfirmed
      <4>4. IdsAreSpent'
        <5>1. \A r \in runs' : r.id \in issued
          BY <1>1, <3>1, <4>1, <4>2, <4>3
        <5> QED BY <1>1, <4>1, <4>3, <5>1 DEF IdsAreSpent
      <4>5. ApprovalsAreConfirmed'
        BY <4>1 DEF ApprovalsAreConfirmed, IdsInvariant
      <4>6. RunsAreConfirmed'
        <5>1. \A r \in runs' : <<r.id, r.profile.route>> \in confirmed'
          BY <3>1, <4>1, <4>2
        <5>2. \A r \in MarkedBy(f) : \A v \in pending : r.id # v.id
          BY <3>1, <4>3
        <5>3. \A r, q \in runs' : r.id = q.id => r = q
          BY <3>1, <4>1, <4>2, <5>2
        <5>4. \A r \in runs' : \A v \in pending' : r.id # v.id
          BY <4>1, <4>2, <4>3, <5>2
        <5> QED BY <5>1, <5>3, <5>4 DEF RunsAreConfirmed
      <4> QED BY <4>4, <4>5, <4>6 DEF IdsInvariant
    <3> QED BY <2>3, <3>2, <3>3 DEF Starts
  <2> QED BY <1>7, <2>1, <2>2, <2>3, CommitStarts
<1>8. CASE /\ pending' \subseteq pending /\ UNCHANGED <<issued, confirmed>>
           /\ ~\E c \in Callers : StartCommit(c)
  BY <1>2, <1>8, StepMarks
<1>9. \/ pending' \subseteq pending /\ UNCHANGED <<issued, confirmed>>
      \/ \E c \in Callers : PrepareInsert(c)
      \/ \E t \in pending : Expire(t) \/ \E route \in Routes : Approve(t, route)
  BY DEF Next, vars, Edits, SaveProfile, DeleteSecrets, DeleteRow, InvalidateProfile,
         Register, Remove, MoveContext, PrepareCheck, PrepareRead, StartRead, StartCommit,
         StopPending, StopRun, Finish
<1> QED BY <1>4, <1>5, <1>6, <1>7, <1>8, <1>9

-----------------------------------------------------------------------------
LEMMA InvariantInit == Init => TaskInvariant
BY TypeInit DEF Init, TaskInvariant, PendingIsCurrent, IdsAreSpent, ApprovalsAreConfirmed,
                InstancesAreNumbered, StartsAreDated, StartsAreDue, StartingCalls,
                RunsAreConfirmed, RunsHaveOwners, ReplacedRoutesAreLeft, NewTarget

LEMMA InvariantStep ==
  ASSUME TaskInvariant, [Next]_vars
  PROVE  TaskInvariant'
<1>1. TypeOK'
  BY TypeStep DEF TaskInvariant
<1>2. PendingIsCurrent' /\ InstancesAreNumbered' /\ StartsAreDated' /\ StartsAreDue'
  BY <1>1, PendingStep, NumberedStep, DatedStep, DueStep DEF TaskInvariant
<1>3. RunsHaveOwners' /\ ReplacedRoutesAreLeft'
  BY OwnersStep, LeftStep DEF TaskInvariant
<1>4. IdsInvariant'
  BY IdsStep DEF TaskInvariant, IdsInvariant
<1> QED BY <1>1, <1>2, <1>3, <1>4 DEF TaskInvariant, IdsInvariant

(* The inductive invariant, of any number of sessions, profiles and callers.  *)
THEOREM TasksInvariant == Spec => []TaskInvariant
<1>1. Init => TaskInvariant
  BY InvariantInit
<1>2. TaskInvariant /\ [Next]_vars => TaskInvariant'
  BY InvariantStep
<1> QED BY <1>1, <1>2, PTL DEF Spec

(* The types are kept, and so are the limits on what a session has waiting,   *)
(* running and remembered, whatever MaxPending, MaxRunning and MaxKept are.   *)
THEOREM TasksAreBounded == Spec => []TypeOK
<1>1. TaskInvariant => TypeOK
  BY DEF TaskInvariant
<1> QED BY <1>1, TasksInvariant, PTL

(* A task runs at most once, over the route its user confirmed, and a run that *)
(* is not told to stop is one its session still has.                          *)
THEOREM RunsAreAlwaysOwned == Spec => []RunsAreOwned
<1>1. TaskInvariant => RunsAreOwned
  BY DEF TaskInvariant, RunsAreOwned
<1> QED BY <1>1, TasksInvariant, PTL

(* No interleaving of edits, reads and starts leaves a run on a route that     *)
(* was replaced without the stop that ends it being due.                       *)
THEOREM NoRunIsLeftBehind == Spec => []ReplacedRoutesAreLeft
<1>1. TaskInvariant => ReplacedRoutesAreLeft
  BY DEF TaskInvariant
<1> QED BY <1>1, TasksInvariant, PTL

=============================================================================
