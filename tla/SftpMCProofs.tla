----------------------------- MODULE SftpMCProofs -----------------------------
(***************************************************************************)
(* Commands under task ids, the queue of transfers and operations over pooled *)
(* connections, for any number of commands, ids, transfers, servers and       *)
(* connections: SftpInvariant is inductive, and what the run checks follows.  *)
(***************************************************************************)
EXTENDS SftpMC, SequenceTheorems, FiniteSetTheorems, TLAPS

USE Bounds

-----------------------------------------------------------------------------
(* The instances count as this module does.                                   *)
LEMMA TaskCounts ==
  ASSUME NEW S
  PROVE  Task!Cardinality(S) = Cardinality(S)
BY DEF Task!Cardinality, Cardinality, Task!IsFiniteSet, IsFiniteSet

(* The queue, too.                                                             *)
LEMMA QueueCounts ==
  ASSUME NEW S
  PROVE  Queue!Cardinality(S) = Cardinality(S)
BY DEF Queue!Cardinality, Cardinality, Queue!IsFiniteSet, IsFiniteSet

(* The marks of the registry, by age.                                         *)
Distinct(m) == \A i, j \in DOMAIN m : m[i] = m[j] => i = j

(* When a mark is removed the newer ones keep their places and the older ones  *)
(* move up.                                                                  *)
LEMMA Removing ==
  ASSUME NEW m, m \in [DOMAIN m -> Nat], Distinct(m), NEW id, NEW w,
         w = [i \in DOMAIN m \ {id} |->
                IF id \in DOMAIN m /\ m[i] > m[id] THEN m[i] - 1 ELSE m[i]]
  PROVE  /\ DOMAIN w = DOMAIN m \ {id} /\ w \in [DOMAIN w -> Nat] /\ Distinct(w)
         /\ \A i \in DOMAIN w : w[i] <= m[i]
         /\ \A n \in Nat : id \in DOMAIN m /\ (\A i \in DOMAIN m : m[i] <= n) =>
                             \A i \in DOMAIN w : w[i] < n
<1>1. DOMAIN w = DOMAIN m \ {id}
  OBVIOUS
<1>2. CASE id \in DOMAIN m
  <2>1. \A i \in DOMAIN w : /\ m[i] \in Nat /\ m[i] # m[id] /\ m[id] \in Nat
                            /\ w[i] = IF m[i] > m[id] THEN m[i] - 1 ELSE m[i]
    BY <1>1, <1>2 DEF Distinct
  <2>2. w \in [DOMAIN w -> Nat] /\ \A i \in DOMAIN w : w[i] <= m[i]
    BY <1>1, <2>1
  <2>3. Distinct(w)
    BY <1>1, <2>1 DEF Distinct
  <2>4. ASSUME NEW n \in Nat, \A i \in DOMAIN m : m[i] <= n
        PROVE  \A i \in DOMAIN w : w[i] < n
    BY <1>1, <1>2, <2>1, <2>4
  <2> QED BY <1>1, <2>2, <2>3, <2>4
<1>3. CASE id \notin DOMAIN m
  <2>1. w = m
    BY <1>3
  <2> QED BY <1>3, <2>1
<1> QED BY <1>2, <1>3

(* A new mark is the newest, and every other is one older.                     *)
LEMMA Marking ==
  ASSUME NEW w, w \in [DOMAIN w -> Nat], Distinct(w), NEW id, id \notin DOMAIN w,
         NEW k, DOMAIN k = DOMAIN w \cup {id}, k[id] = 0, \A i \in DOMAIN w : k[i] = w[i] + 1
  PROVE  (\A i \in DOMAIN k : k[i] \in Nat) /\ Distinct(k)
BY DEF Distinct

(* There are no more marks than there are ages.                               *)
LEMMA FewMarks ==
  ASSUME NEW m, NEW L \in Nat, m \in [DOMAIN m -> 0 .. L - 1], Distinct(m)
  PROVE  IsFiniteSet(DOMAIN m) /\ Cardinality(DOMAIN m) <= L
<1>1. m \in Injection(DOMAIN m, 0 .. L - 1)
  BY DEF Injection, IsInjective, Distinct
<1>2. IsFiniteSet(0 .. L - 1) /\ Cardinality(0 .. L - 1) = L
  <2>1. 0 \in Int /\ L - 1 \in Int
    OBVIOUS
  <2>2. IsFiniteSet(0 .. L - 1) /\ Cardinality(0 .. L - 1) = IF 0 > L - 1 THEN 0 ELSE (L - 1) - 0 + 1
    BY <2>1, FS_Interval
  <2> QED BY <2>2
<1> QED BY <1>1, <1>2, FS_Injection

(* Of finitely many numbers one is the last.                                   *)
LEMMA LastOfMany ==
  ASSUME NEW S, S \subseteq Nat, IsFiniteSet(S), S # {}
  PROVE  \E m \in S : \A i \in S : i <= m
<1> DEFINE Later(j) == {i \in S : i > j}
           T == {Later(j) : j \in S}
<1>1. IsWellFoundedOn(StrictSubsetOrdering(S), FiniteSubsetsOf(S))
  BY FS_StrictSubsetOrderingWellFounded
<1>2. T \subseteq FiniteSubsetsOf(S) /\ T # {}
  <2>1. T \subseteq SUBSET S /\ T # {}
    OBVIOUS
  <2>2. FiniteSubsetsOf(S) = SUBSET S
    BY FS_FiniteSubsetsOfFinite
  <2> QED BY <2>1, <2>2
<1>3. PICK x \in T : \A y \in T : ~(<<y, x>> \in StrictSubsetOrdering(S))
  <2> HIDE DEF T
  <2> QED BY <1>1, <1>2, WFMin
<1>4. PICK m \in S : x = Later(m)
  OBVIOUS
<1>5. ASSUME NEW i \in S, i > m
      PROVE  FALSE
  <2>1. Later(i) \in T /\ Later(i) \subseteq S /\ Later(m) \subseteq S
    OBVIOUS
  <2>2. i \in Nat /\ m \in Nat /\ \A j \in S : j \in Nat
    OBVIOUS
  <2>3. Later(i) \subseteq Later(m) /\ i \in Later(m) /\ i \notin Later(i)
    <3>1. ~(i > i) /\ \A j \in S : j > i => j > m
      BY <1>5, <2>2
    <3> QED BY <1>5, <3>1
  <2>4. <<Later(i), Later(m)>> \in StrictSubsetOrdering(S)
    BY <2>1, <2>3 DEF StrictSubsetOrdering
  <2> QED BY <1>3, <1>4, <2>1, <2>4
<1>6. \A j \in S : j \in Nat
  OBVIOUS
<1> QED BY <1>5, <1>6

-----------------------------------------------------------------------------
(* Commands under their ids.                                                  *)

(* A call has its id to itself while it is in progress.                        *)
IdsHaveOneCall ==
  \A c, d \in Calls :
    Task!InProgress(c) /\ Task!InProgress(d) /\ name[c] = name[d] /\ name[c] # NoId => c = d

(* A cancel is not forgotten: what was cancelled ahead is marked, and the token *)
(* of a call that was cancelled is set.                                       *)
CancelsAreKept ==
  /\ early \subseteq DOMAIN marks
  /\ \A c \in Calls : told[c] => token[c]

(* Only a call that waits for a worker, or has waited for it, has one; a worker *)
(* that was not begun when its call ended has been told to stop.               *)
WorkersHaveCalls ==
  \A c \in Calls :
    /\ pc[c] \in {"idle", "profile", "chat"} => worker[c] = "none"
    /\ pc[c] = "chat" => name[c] # NoId
    /\ worker[c] = "queued" /\ ~Task!InProgress(c) => token[c]

TaskInvariant ==
  /\ Task!TypeOK /\ Distinct(marks)
  /\ Task!RegistryIsExact /\ Task!OrphansAreTold
  /\ IdsHaveOneCall /\ CancelsAreKept /\ WorkersHaveCalls

(* The marks without one of them, and with a new one.                          *)
LEMMA TaskUnmarks ==
  ASSUME Task!RegistryTypes, Distinct(marks), NEW id, marks' = Task!Without(id)
  PROVE  /\ DOMAIN marks' = DOMAIN marks \ {id} /\ marks' \in [DOMAIN marks' -> 0 .. MarkLimit - 1]
         /\ Distinct(marks') /\ DOMAIN marks' \subseteq Ids /\ Cardinality(DOMAIN marks') <= MarkLimit
<1> DEFINE w == Task!Without(id)
<1>1. marks \in [DOMAIN marks -> Nat] /\ \A i \in DOMAIN marks : marks[i] < MarkLimit
  BY DEF Task!RegistryTypes
<1>2. w = [i \in DOMAIN marks \ {id} |->
             IF id \in DOMAIN marks /\ marks[i] > marks[id] THEN marks[i] - 1 ELSE marks[i]]
  BY DEF Task!Without, Task!IsMarked
<1> HIDE DEF w
<1>3. /\ DOMAIN w = DOMAIN marks \ {id} /\ w \in [DOMAIN w -> Nat] /\ Distinct(w)
      /\ \A i \in DOMAIN w : w[i] <= marks[i]
  BY <1>1, <1>2, Removing
<1>4. w \in [DOMAIN w -> 0 .. MarkLimit - 1]
  BY <1>1, <1>3
<1>5. Cardinality(DOMAIN w) <= MarkLimit
  BY <1>3, <1>4, FewMarks
<1>6. marks' = w
  BY DEF w
<1> QED BY <1>3, <1>4, <1>5, <1>6 DEF Task!RegistryTypes

(* The marks when an id that is not active is cancelled: it is marked, and only   *)
(* what is over the limit is forgotten.                                      *)
LEMMA TaskMarks ==
  ASSUME Task!RegistryTypes, Distinct(marks), NEW id \in Ids, ~Task!IsActive(id), Task!Cancel(id)
  PROVE  /\ UNCHANGED <<active, token>>
         /\ DOMAIN marks' = (DOMAIN marks \cup {id}) \ Task!Forgotten(id)
         /\ id \notin Task!Forgotten(id)
         /\ marks' \in [DOMAIN marks' -> 0 .. MarkLimit - 1]
         /\ Distinct(marks') /\ DOMAIN marks' \subseteq Ids /\ Cardinality(DOMAIN marks') <= MarkLimit
<1> DEFINE w == Task!Without(id)
           k == Task!Marked(id)
<1>1. marks \in [DOMAIN marks -> Nat]
  BY DEF Task!RegistryTypes
<1>2. w = [i \in DOMAIN marks \ {id} |->
             IF id \in DOMAIN marks /\ marks[i] > marks[id] THEN marks[i] - 1 ELSE marks[i]]
  BY DEF Task!Without, Task!IsMarked
<1>3. k = [i \in DOMAIN marks \cup {id} |-> IF i = id THEN 0 ELSE w[i] + 1]
  BY DEF Task!Marked
<1>4. Task!Forgotten(id) = {i \in DOMAIN k : k[i] >= MarkLimit}
  BY DEF Task!Forgotten
<1>5. marks' = [i \in DOMAIN k \ Task!Forgotten(id) |-> k[i]] /\ UNCHANGED <<active, token>>
  BY DEF Task!Cancel
<1> HIDE DEF w, k
<1>6. DOMAIN w = DOMAIN marks \ {id} /\ w \in [DOMAIN w -> Nat] /\ Distinct(w)
  BY <1>1, <1>2, Removing
<1>7. DOMAIN k = DOMAIN marks \cup {id} /\ (\A i \in DOMAIN k : k[i] \in Nat) /\ Distinct(k)
  <2>1. DOMAIN k = DOMAIN w \cup {id} /\ k[id] = 0 /\ \A i \in DOMAIN w : k[i] = w[i] + 1
    BY <1>3, <1>6
  <2> QED BY <1>6, <2>1, Marking
<1>8. /\ marks' \in [DOMAIN marks' -> 0 .. MarkLimit - 1] /\ Distinct(marks')
      /\ DOMAIN marks' = DOMAIN k \ Task!Forgotten(id)
  <2>1. DOMAIN marks' = DOMAIN k \ Task!Forgotten(id)
    BY <1>5
  <2>2. \A i \in DOMAIN marks' : /\ i \in DOMAIN k /\ k[i] < MarkLimit /\ k[i] \in Nat
                                 /\ marks'[i] = k[i]
    BY <1>4, <1>5, <1>7
  <2>3. marks' \in [DOMAIN marks' -> 0 .. MarkLimit - 1]
    BY <1>5, <2>1, <2>2
  <2> QED BY <1>7, <2>1, <2>2, <2>3 DEF Distinct
<1>9. k[id] = 0 /\ id \notin Task!Forgotten(id)
  BY <1>3, <1>4
<1>10. DOMAIN marks' = (DOMAIN marks \cup {id}) \ Task!Forgotten(id)
  BY <1>4, <1>7, <1>8
<1>11. Cardinality(DOMAIN marks') <= MarkLimit
  BY <1>8, FewMarks
<1> QED BY <1>5, <1>8, <1>9, <1>10, <1>11 DEF Task!RegistryTypes


(* The registry and the calls that are in it.                                  *)
Registered ==
  /\ Task!RegistryTypes /\ Distinct(marks)
  /\ name \in [Calls -> Ids \cup {NoId}]
  /\ Task!RegistryIsExact /\ IdsHaveOneCall

TaskPlaces == {"idle", "profile", "waiting", "grace", "chat", "answered", "panicked", "dropped"}

(* An entry of the registry is of a call in progress.                          *)
LEMMA EntriesAreCalls ==
  ASSUME Registered
  PROVE  /\ \A id \in Ids, c \in Calls :
              [id |-> id, call |-> c] \in active <=> Task!InProgress(c) /\ name[c] = id
         /\ \A e \in active : /\ e.id \in Ids /\ e.call \in Calls
                              /\ e = [id |-> e.id, call |-> e.call]
                              /\ Task!InProgress(e.call) /\ name[e.call] = e.id
         /\ \A id \in Ids : Task!IsActive(id) <=> \E c \in Calls : Task!InProgress(c) /\ name[c] = id
<1>1. ASSUME NEW id \in Ids, NEW c \in Calls
      PROVE  [id |-> id, call |-> c] \in active <=> Task!InProgress(c) /\ name[c] = id
  <2>1. \A d : [id |-> id, call |-> c] = [id |-> name[d], call |-> d] <=> d = c /\ id = name[c]
    OBVIOUS
  <2> QED BY <2>1 DEF Registered, Task!RegistryIsExact
<1>2. ASSUME NEW e \in active
      PROVE  /\ e.id \in Ids /\ e.call \in Calls /\ e = [id |-> e.id, call |-> e.call]
             /\ Task!InProgress(e.call) /\ name[e.call] = e.id
  <2>1. PICK d \in Calls : /\ Task!InProgress(d) /\ name[d] # NoId
                           /\ e = [id |-> name[d], call |-> d]
    BY DEF Registered, Task!RegistryIsExact
  <2>2. name[d] \in Ids
    BY <2>1 DEF Registered
  <2> QED BY <2>1, <2>2
<1>3. ASSUME NEW id \in Ids
      PROVE  Task!IsActive(id) <=> \E c \in Calls : Task!InProgress(c) /\ name[c] = id
  <2>1. ASSUME Task!IsActive(id)
        PROVE  \E c \in Calls : Task!InProgress(c) /\ name[c] = id
    BY <1>2, <2>1 DEF Task!IsActive
  <2>2. ASSUME NEW c \in Calls, Task!InProgress(c), name[c] = id
        PROVE  Task!IsActive(id)
    <3>1. [id |-> id, call |-> c] \in active
      BY <1>1, <2>2
    <3>2. [id |-> id, call |-> c].id = id
      OBVIOUS
    <3> QED BY <3>1, <3>2 DEF Task!IsActive
  <2> QED BY <2>1, <2>2
<1> QED BY <1>1, <1>2, <1>3

(* As the entries are pairs, the registry is exact if it has the right pairs.   *)
LEMMA RightPairs ==
  ASSUME active' \subseteq [id : Ids, call : Calls], name' \in [Calls -> Ids \cup {NoId}],
         \A id \in Ids, c \in Calls :
           [id |-> id, call |-> c] \in active' <=> Task!InProgress(c)' /\ name'[c] = id
  PROVE  Task!RegistryIsExact'
<1>1. ASSUME NEW e \in active'
      PROVE  \E d \in Calls : /\ Task!InProgress(d)' /\ name'[d] # NoId
                              /\ e = [id |-> name'[d], call |-> d]
  <2>1. e \in [id : Ids, call : Calls]
    OBVIOUS
  <2>2. e.id \in Ids /\ e.call \in Calls /\ e = [id |-> e.id, call |-> e.call]
    BY <2>1
  <2>3. [id |-> e.id, call |-> e.call] \in active'
    BY <2>2
  <2>4. Task!InProgress(e.call)' /\ name'[e.call] = e.id
    BY <2>2, <2>3
  <2> QED BY <2>2, <2>4
<1>2. ASSUME NEW d \in Calls, Task!InProgress(d)', name'[d] # NoId
      PROVE  [id |-> name'[d], call |-> d] \in active'
  <2>1. name'[d] \in Ids
    BY <1>2
  <2> QED BY <1>2, <2>1
<1> QED BY <1>1, <1>2 DEF Task!RegistryIsExact

(* A call begins.                                                             *)
LEMMA CallEnters ==
  ASSUME Registered, CancelsAreKept, NEW c \in Calls, NEW id \in Ids \cup {NoId},
         NEW place \in {"profile", "chat"}, pc \in [Calls -> TaskPlaces], pc[c] = "idle",
         told \in [Calls -> BOOLEAN],
         Task!Begin(c, id), pc' = [pc EXCEPT ![c] = place]
  PROVE  Registered' /\ CancelsAreKept'
<1>1. /\ ~Task!IsActive(id)
      /\ active' = active \cup {[id |-> i, call |-> c] : i \in {id} \ {NoId}}
      /\ token' = [token EXCEPT ![c] = Task!IsMarked(id)]
      /\ marks' = Task!Without(id)
      /\ name' = [name EXCEPT ![c] = id]
      /\ told' = [told EXCEPT ![c] = id \in early]
      /\ early' = early \ {id}
  BY DEF Task!Begin, Task!Enter
<1>2. /\ DOMAIN marks' = DOMAIN marks \ {id} /\ marks' \in [DOMAIN marks' -> 0 .. MarkLimit - 1]
      /\ Distinct(marks)' /\ DOMAIN marks' \subseteq Ids /\ Cardinality(DOMAIN marks') <= MarkLimit
  BY <1>1, TaskUnmarks DEF Registered, Distinct
<1>3. \A d \in Calls : Task!InProgress(d)' <=> d = c \/ Task!InProgress(d)
  BY DEF Task!InProgress
<1>4. name' \in [Calls -> Ids \cup {NoId}] /\ \A d \in Calls : name'[d] = IF d = c THEN id ELSE name[d]
  BY <1>1 DEF Registered
<1>5. ~Task!InProgress(c)
  BY DEF Task!InProgress
<1>6. active' \subseteq [id : Ids, call : Calls]
  BY <1>1 DEF Registered, Task!RegistryTypes
<1>7. token' \in [Calls -> BOOLEAN]
  BY <1>1 DEF Registered, Task!RegistryTypes, Task!IsMarked
<1>8. ASSUME NEW i \in Ids, NEW d \in Calls
      PROVE  [id |-> i, call |-> d] \in active' <=> Task!InProgress(d)' /\ name'[d] = i
  <2>1. [id |-> i, call |-> d] \in active' <=>
          [id |-> i, call |-> d] \in active \/ (d = c /\ i = id)
    <3>1. \A j : [id |-> i, call |-> d] = [id |-> j, call |-> c] <=> d = c /\ i = j
      OBVIOUS
    <3> QED BY <1>1, <3>1
  <2>2. [id |-> i, call |-> d] \in active <=> Task!InProgress(d) /\ name[d] = i
    BY EntriesAreCalls
  <2> QED BY <1>3, <1>4, <1>5, <2>1, <2>2
<1>9. Task!RegistryIsExact'
  BY <1>4, <1>6, <1>8, RightPairs
<1>10. IdsHaveOneCall'
  <2>1. id \in Ids => \A d \in Calls : Task!InProgress(d) => name[d] # id
    BY <1>1, EntriesAreCalls
  <2>2. \A d, e \in Calls : Task!InProgress(d)' /\ Task!InProgress(e)' /\ name'[d] = name'[e]
                            /\ name'[d] # NoId => d = e
    BY <1>3, <1>4, <2>1 DEF Registered, IdsHaveOneCall
  <2> QED BY <2>2 DEF IdsHaveOneCall
<1>11. CancelsAreKept'
  BY <1>1, <1>2 DEF CancelsAreKept, Task!IsMarked, Registered, Task!RegistryTypes
<1>12. Task!RegistryTypes'
  BY <1>2, <1>6, <1>7, TaskCounts DEF Task!RegistryTypes
<1> QED BY <1>2, <1>4, <1>9, <1>10, <1>11, <1>12 DEF Registered

(* A call ends and its registration is dropped.                                *)
LEMMA CallLeaves ==
  ASSUME Registered, CancelsAreKept, NEW c \in Calls, NEW how \in {"answered", "panicked", "dropped"},
         NEW a, pc \in [Calls -> TaskPlaces], Task!InProgress(c),
         Task!End(c, how, a), UNCHANGED name
  PROVE  /\ Registered' /\ token'[c] = TRUE /\ marks' = marks
         /\ \A d \in Calls : token[d] => token'[d]
<1>1. /\ pc' = [pc EXCEPT ![c] = how]
      /\ token' = [token EXCEPT ![c] = TRUE]
      /\ active' = {e \in active : e.call # c}
      /\ marks' = marks
  BY DEF Task!End, Task!Leave
<1>2. \A d \in Calls : Task!InProgress(d)' <=> d # c /\ Task!InProgress(d)
  BY <1>1 DEF Task!InProgress
<1>3. token' \in [Calls -> BOOLEAN] /\ token'[c] = TRUE /\ \A d \in Calls : token[d] => token'[d]
  BY <1>1 DEF Registered, Task!RegistryTypes
<1>4. active' \subseteq [id : Ids, call : Calls]
  BY <1>1 DEF Registered, Task!RegistryTypes
<1>5. ASSUME NEW i \in Ids, NEW d \in Calls
      PROVE  [id |-> i, call |-> d] \in active' <=> Task!InProgress(d)' /\ name'[d] = i
  <2>1. [id |-> i, call |-> d] \in active' <=> [id |-> i, call |-> d] \in active /\ d # c
    BY <1>1
  <2>2. [id |-> i, call |-> d] \in active <=> Task!InProgress(d) /\ name[d] = i
    BY EntriesAreCalls
  <2> QED BY <1>2, <2>1, <2>2
<1>6. name' \in [Calls -> Ids \cup {NoId}]
  BY DEF Registered
<1>7. Task!RegistryIsExact'
  BY <1>4, <1>5, <1>6, RightPairs
<1>8. IdsHaveOneCall'
  BY <1>2 DEF IdsHaveOneCall, Registered
<1>9. Task!RegistryTypes' /\ Distinct(marks)'
  BY <1>1, <1>3, <1>4 DEF Registered, Task!RegistryTypes, Distinct
<1> QED BY <1>1, <1>3, <1>6, <1>7, <1>8, <1>9 DEF Registered

(* A chat finishes: what was active under its id is its own entry.              *)
LEMMA ChatFinishes ==
  ASSUME Registered, NEW c \in Calls, name[c] # NoId,
         pc \in [Calls -> TaskPlaces], pc[c] = "chat", pc' = [pc EXCEPT ![c] = "answered"],
         Task!Finish(name[c]), UNCHANGED name
  PROVE  Registered' /\ UNCHANGED <<marks, token>>
<1>1. active' = {e \in active : e.id # name[c]} /\ UNCHANGED <<marks, token>>
  BY DEF Task!Finish
<1>2. \A d \in Calls : Task!InProgress(d)' <=> d # c /\ Task!InProgress(d)
  BY DEF Task!InProgress
<1>3. Task!InProgress(c)
  BY DEF Task!InProgress
<1>4. active' \subseteq [id : Ids, call : Calls]
  BY <1>1 DEF Registered, Task!RegistryTypes
<1>5. ASSUME NEW i \in Ids, NEW d \in Calls
      PROVE  [id |-> i, call |-> d] \in active' <=> Task!InProgress(d)' /\ name'[d] = i
  <2>1. [id |-> i, call |-> d] \in active' <=> [id |-> i, call |-> d] \in active /\ i # name[c]
    BY <1>1
  <2>2. [id |-> i, call |-> d] \in active <=> Task!InProgress(d) /\ name[d] = i
    BY EntriesAreCalls
  <2>3. Task!InProgress(d) /\ name[d] = name[c] => d = c
    BY <1>3 DEF Registered, IdsHaveOneCall
  <2> QED BY <1>2, <2>1, <2>2, <2>3
<1>6. name' \in [Calls -> Ids \cup {NoId}]
  BY DEF Registered
<1>7. Task!RegistryIsExact'
  BY <1>4, <1>5, <1>6, RightPairs
<1>8. IdsHaveOneCall'
  BY <1>2 DEF IdsHaveOneCall, Registered
<1>9. Task!RegistryTypes' /\ Distinct(marks)'
  BY <1>1, <1>4 DEF Registered, Task!RegistryTypes, Distinct
<1> QED BY <1>1, <1>6, <1>7, <1>8, <1>9 DEF Registered

(* A step within a call leaves the registry as it is.                          *)
LEMMA CallGoesOn ==
  ASSUME Registered, UNCHANGED <<active, marks, name>>,
         token' \in [Calls -> BOOLEAN],
         \A d \in Calls : Task!InProgress(d)' <=> Task!InProgress(d)
  PROVE  Registered'
<1>1. Task!RegistryTypes' /\ Distinct(marks)' /\ name' \in [Calls -> Ids \cup {NoId}]
  BY DEF Registered, Task!RegistryTypes, Distinct
<1>2. IdsHaveOneCall'
  BY DEF IdsHaveOneCall, Registered
<1>3. ASSUME NEW i \in Ids, NEW d \in Calls
      PROVE  [id |-> i, call |-> d] \in active' <=> Task!InProgress(d)' /\ name'[d] = i
  BY EntriesAreCalls
<1>4. active' \subseteq [id : Ids, call : Calls]
  BY <1>1 DEF Task!RegistryTypes
<1>5. Task!RegistryIsExact'
  BY <1>1, <1>3, <1>4, RightPairs
<1> QED BY <1>1, <1>2, <1>5 DEF Registered

(* cancel_task sets the token of the call that has the id, or marks the id.      *)
LEMMA CancelsCall ==
  ASSUME Registered, CancelsAreKept, told \in [Calls -> BOOLEAN],
         NEW id \in Ids, Task!CancelTask(id)
  PROVE  /\ Registered' /\ CancelsAreKept' /\ early' \subseteq Ids /\ told' \in [Calls -> BOOLEAN]
         /\ \A d \in Calls : token[d] => token'[d]
         /\ \A d \in Calls : told'[d] <=> told[d] \/ (Task!InProgress(d) /\ name[d] = id)
<1> DEFINE mine == {d \in Calls : name[d] = id /\ Task!InProgress(d)}
<1>1. /\ Task!Cancel(id)
      /\ told' = [d \in Calls |-> told[d] \/ d \in mine]
      /\ early' = (IF mine = {} THEN early \cup {id} ELSE early)
                    \ (IF Task!IsActive(id) THEN {} ELSE Task!Forgotten(id))
      /\ UNCHANGED <<pc, name>>
  BY DEF Task!CancelTask, Task!calls
<1>2. Task!IsActive(id) <=> mine # {}
  BY EntriesAreCalls
<1>3. \A d \in Calls : d \in mine <=> Task!InProgress(d) /\ name[d] = id
  OBVIOUS
<1>4. told' \in [Calls -> BOOLEAN] /\ \A d \in Calls : told'[d] <=> told[d] \/ d \in mine
  <2>1. \A d \in Calls : told'[d] = (told[d] \/ d \in mine)
    BY <1>1, Zenon
  <2>2. \A d \in Calls : (told[d] \/ d \in mine) \in BOOLEAN
    OBVIOUS
  <2> QED BY <1>1, <2>1, <2>2
<1> HIDE DEF mine
<1>5. CASE Task!IsActive(id)
  <2>1. UNCHANGED <<active, marks>> /\ token' = [d \in Calls |-> token[d] \/ [id |-> id, call |-> d] \in active]
    BY <1>1, <1>5 DEF Task!Cancel
  <2>2. early' = early
    BY <1>1, <1>2, <1>5
  <2>3. \A d \in Calls : [id |-> id, call |-> d] \in active <=> d \in mine
    BY <1>3, EntriesAreCalls
  <2>4. token' = [d \in Calls |-> token[d] \/ d \in mine]
    BY <2>1, <2>3
  <2>5. token \in [Calls -> BOOLEAN]
    BY DEF Registered, Task!RegistryTypes
  <2>6. token' \in [Calls -> BOOLEAN] /\ \A d \in Calls : token'[d] <=> token[d] \/ d \in mine
    <3>1. \A d \in Calls : token'[d] = (token[d] \/ d \in mine)
      BY <2>4, Zenon
    <3>2. \A d \in Calls : (token[d] \/ d \in mine) \in BOOLEAN
      OBVIOUS
    <3> QED BY <2>4, <3>1, <3>2
  <2>7. Registered'
    <3>1. \A d \in Calls : Task!InProgress(d)' <=> Task!InProgress(d)
      BY <1>1 DEF Task!InProgress
    <3> QED BY <1>1, <2>1, <2>6, <3>1, CallGoesOn
  <2>8. CancelsAreKept' /\ early' \subseteq Ids
    BY <1>4, <2>1, <2>2, <2>6 DEF CancelsAreKept, Registered, Task!RegistryTypes
  <2> QED BY <1>3, <1>4, <2>6, <2>7, <2>8
<1>6. CASE ~Task!IsActive(id)
  <2>1. /\ UNCHANGED <<active, token>>
        /\ DOMAIN marks' = (DOMAIN marks \cup {id}) \ Task!Forgotten(id)
        /\ marks' \in [DOMAIN marks' -> 0 .. MarkLimit - 1]
        /\ Distinct(marks') /\ DOMAIN marks' \subseteq Ids /\ Cardinality(DOMAIN marks') <= MarkLimit
    BY <1>1, <1>6, TaskMarks DEF Registered
  <2>2. early' = (early \cup {id}) \ Task!Forgotten(id)
    BY <1>1, <1>2, <1>6
  <2>3. CancelsAreKept' /\ early' \subseteq Ids
    BY <1>2, <1>4, <1>6, <2>1, <2>2 DEF CancelsAreKept, Registered, Task!RegistryTypes
  <2>4. Task!RegistryTypes' /\ Distinct(marks)'
    BY <2>1, TaskCounts DEF Registered, Task!RegistryTypes, Distinct
  <2>5. \A d \in Calls : Task!InProgress(d)' <=> Task!InProgress(d)
    BY <1>1 DEF Task!InProgress
  <2>6. IdsHaveOneCall' /\ name' \in [Calls -> Ids \cup {NoId}]
    BY <1>1, <2>5 DEF IdsHaveOneCall, Registered
  <2>7. \A i \in Ids, d \in Calls :
          [id |-> i, call |-> d] \in active' <=> Task!InProgress(d)' /\ name'[d] = i
    BY <1>1, <2>1, <2>5, EntriesAreCalls
  <2>8. Task!RegistryIsExact'
    BY <2>4, <2>6, <2>7, RightPairs DEF Task!RegistryTypes
  <2> QED BY <1>3, <1>4, <2>1, <2>3, <2>4, <2>6, <2>8 DEF Registered
<1> QED BY <1>5, <1>6

(* Every step of a command keeps the invariant.                                *)
LEMMA TaskStep ==
  ASSUME TaskInvariant, Task!Next
  PROVE  TaskInvariant'
<1>1. Registered /\ CancelsAreKept /\ WorkersHaveCalls /\ Task!OrphansAreTold
  BY DEF TaskInvariant, Registered, Task!TypeOK
<1>2. /\ pc \in [Calls -> TaskPlaces]
      /\ idle \in [Calls -> BOOLEAN] /\ taken \in [Calls -> BOOLEAN] /\ told \in [Calls -> BOOLEAN]
      /\ left \in [Calls -> 0..Budget] /\ early \subseteq Ids
      /\ worker \in [Calls -> {"none", "queued", "running", "ended", "aborted"}]
      /\ answer \in [Calls -> {"none", "ok", "error"}]
      /\ token \in [Calls -> BOOLEAN]
  BY DEF TaskInvariant, Task!TypeOK, Task!RegistryTypes, TaskPlaces
<1>3. ASSUME Registered', CancelsAreKept', WorkersHaveCalls', Task!OrphansAreTold',
             pc' \in [Calls -> TaskPlaces],
             idle' \in [Calls -> BOOLEAN], taken' \in [Calls -> BOOLEAN], told' \in [Calls -> BOOLEAN],
             left' \in [Calls -> 0..Budget], early' \subseteq Ids,
             worker' \in [Calls -> {"none", "queued", "running", "ended", "aborted"}],
             answer' \in [Calls -> {"none", "ok", "error"}]
      PROVE  TaskInvariant'
  BY <1>3 DEF TaskInvariant, Registered, Task!TypeOK, TaskPlaces
<1>4. ASSUME NEW c \in Calls, NEW id \in Ids \cup {NoId}, NEW transfer \in BOOLEAN,
             Task!Start(c, id, transfer)
      PROVE  TaskInvariant'
  <2>1. /\ Task!Begin(c, id) /\ pc[c] = "idle"
        /\ pc' = [pc EXCEPT ![c] = "profile"] /\ idle' = [idle EXCEPT ![c] = transfer]
        /\ UNCHANGED <<left, taken, worker, answer>>
        /\ told' = [told EXCEPT ![c] = id \in early] /\ early' = early \ {id}
        /\ token' = [token EXCEPT ![c] = Task!IsMarked(id)]
    BY <1>4 DEF Task!Start, Task!Begin, Task!Enter
  <2>2. Registered' /\ CancelsAreKept'
    BY <1>1, <1>2, <2>1, CallEnters
  <2>3. /\ pc' \in [Calls -> TaskPlaces] /\ idle' \in [Calls -> BOOLEAN]
        /\ told' \in [Calls -> BOOLEAN] /\ early' \subseteq Ids
    BY <1>2, <2>1 DEF TaskPlaces
  <2>4. WorkersHaveCalls'
    <3>1. ASSUME NEW d \in Calls
          PROVE  /\ pc'[d] \in {"idle", "profile", "chat"} => worker'[d] = "none"
                 /\ pc'[d] = "chat" => name'[d] # NoId
                 /\ worker'[d] = "queued" /\ ~Task!InProgress(d)' => token'[d]
      <4>1. CASE d = c
        BY <1>1, <1>2, <2>1, <4>1 DEF WorkersHaveCalls, Task!InProgress
      <4>2. CASE d # c
        <5>1. name'[d] = name[d] /\ token'[d] = token[d] /\ pc'[d] = pc[d]
          BY <1>1, <1>2, <2>1, <4>2 DEF Task!Begin, Registered
        <5> QED BY <1>1, <2>1, <5>1 DEF WorkersHaveCalls, Task!InProgress
      <4> QED BY <4>1, <4>2
    <3> QED BY <3>1 DEF WorkersHaveCalls
  <2>5. Task!OrphansAreTold'
    <3>1. ASSUME NEW d \in Calls, worker'[d] = "running", ~Task!InProgress(d)'
          PROVE  token'[d]
      <4>1. d # c
        BY <1>2, <2>1, <3>1 DEF Task!InProgress
      <4> QED BY <1>1, <1>2, <2>1, <3>1, <4>1 DEF Task!InProgress, Task!OrphansAreTold
    <3> QED BY <3>1 DEF Task!OrphansAreTold
  <2> QED BY <1>2, <1>3, <2>1, <2>2, <2>3, <2>4, <2>5
<1>5. ASSUME NEW c \in Calls, NEW id \in Ids, Task!Refuse(c, id)
      PROVE  TaskInvariant'
  <2>1. /\ pc[c] = "idle" /\ pc' = [pc EXCEPT ![c] = "answered"]
        /\ answer' = [answer EXCEPT ![c] = "error"]
        /\ UNCHANGED <<active, marks, token, name, idle, left, taken, worker, told, early>>
    BY <1>5 DEF Task!Refuse, Task!registry
  <2>2. \A d \in Calls : Task!InProgress(d)' <=> Task!InProgress(d)
    BY <1>2, <2>1 DEF Task!InProgress
  <2>3. Registered'
    BY <1>2, <1>1, <2>1, <2>2, CallGoesOn
  <2>4. CancelsAreKept'
    BY <1>1, <2>1 DEF CancelsAreKept
  <2>5. WorkersHaveCalls' /\ Task!OrphansAreTold'
    BY <1>1, <1>2, <2>1, <2>2 DEF WorkersHaveCalls, Task!OrphansAreTold
  <2>6. pc' \in [Calls -> TaskPlaces] /\ answer' \in [Calls -> {"none", "ok", "error"}]
    BY <1>2, <2>1 DEF TaskPlaces
  <2> QED BY <1>2, <1>3, <2>1, <2>3, <2>4, <2>5, <2>6
<1>6. ASSUME NEW c \in Calls, NEW id \in Ids, Task!StartChat(c, id)
      PROVE  TaskInvariant'
  <2>1. /\ Task!Begin(c, id) /\ pc[c] = "idle" /\ id # NoId
        /\ pc' = [pc EXCEPT ![c] = "chat"]
        /\ UNCHANGED <<idle, left, taken, worker, answer>>
        /\ told' = [told EXCEPT ![c] = id \in early] /\ early' = early \ {id}
        /\ token' = [token EXCEPT ![c] = Task!IsMarked(id)]
    BY <1>6 DEF Task!StartChat, Task!Begin, Task!Enter
  <2>2. Registered' /\ CancelsAreKept'
    BY <1>1, <1>2, <2>1, CallEnters
  <2>3. pc' \in [Calls -> TaskPlaces] /\ told' \in [Calls -> BOOLEAN] /\ early' \subseteq Ids
    BY <1>2, <2>1 DEF TaskPlaces
  <2>4. WorkersHaveCalls'
    <3>1. ASSUME NEW d \in Calls
          PROVE  /\ pc'[d] \in {"idle", "profile", "chat"} => worker'[d] = "none"
                 /\ pc'[d] = "chat" => name'[d] # NoId
                 /\ worker'[d] = "queued" /\ ~Task!InProgress(d)' => token'[d]
      <4>1. name'[d] = IF d = c THEN id ELSE name[d]
        BY <1>1, <2>1 DEF Task!Begin, Registered
      <4>2. CASE d = c
        BY <1>1, <1>2, <2>1, <4>1, <4>2 DEF WorkersHaveCalls, Task!InProgress
      <4>3. CASE d # c
        <5>1. name'[d] = name[d] /\ token'[d] = token[d] /\ pc'[d] = pc[d]
          BY <1>2, <2>1, <4>1, <4>3
        <5> QED BY <1>1, <2>1, <5>1 DEF WorkersHaveCalls, Task!InProgress
      <4> QED BY <4>2, <4>3
    <3> QED BY <3>1 DEF WorkersHaveCalls
  <2>5. Task!OrphansAreTold'
    <3>1. ASSUME NEW d \in Calls, worker'[d] = "running", ~Task!InProgress(d)'
          PROVE  token'[d]
      <4>1. d # c
        BY <1>2, <2>1, <3>1 DEF Task!InProgress
      <4> QED BY <1>1, <1>2, <2>1, <3>1, <4>1 DEF Task!InProgress, Task!OrphansAreTold
    <3> QED BY <3>1 DEF Task!OrphansAreTold
  <2> QED BY <1>2, <1>3, <2>1, <2>2, <2>3, <2>4, <2>5
<1>7. ASSUME NEW c \in Calls, NEW how \in {"answered", "panicked", "dropped"},
             NEW a \in {"none", "ok", "error"}, Task!InProgress(c), Task!End(c, how, a),
             UNCHANGED <<name, idle, left, taken, worker, early>>,
             told' \in {told, [told EXCEPT ![c] = TRUE]}
      PROVE  TaskInvariant'
  <2>1. /\ Registered' /\ token'[c] = TRUE /\ marks' = marks
        /\ \A d \in Calls : token[d] => token'[d]
    BY <1>1, <1>2, <1>7, CallLeaves
  <2>2. pc' = [pc EXCEPT ![c] = how] /\ answer' = [answer EXCEPT ![c] = a]
    BY <1>7 DEF Task!End
  <2>3. pc' \in [Calls -> TaskPlaces] /\ answer' \in [Calls -> {"none", "ok", "error"}]
    BY <1>2, <2>2 DEF TaskPlaces
  <2>4. told' \in [Calls -> BOOLEAN] /\ \A d \in Calls : told'[d] => told[d] \/ d = c
    BY <1>2, <1>7
  <2>5. CancelsAreKept'
    BY <1>1, <1>7, <2>1, <2>4 DEF CancelsAreKept
  <2>6. \A d \in Calls : d # c => pc'[d] = pc[d] /\ (Task!InProgress(d)' <=> Task!InProgress(d))
    BY <1>2, <2>2 DEF Task!InProgress
  <2>7. WorkersHaveCalls' /\ Task!OrphansAreTold'
    <3>1. ASSUME NEW d \in Calls
          PROVE  /\ pc'[d] \in {"idle", "profile", "chat"} => worker'[d] = "none"
                 /\ pc'[d] = "chat" => name'[d] # NoId
                 /\ worker'[d] \in {"queued", "running"} /\ ~Task!InProgress(d)' => token'[d]
      <4>1. CASE d = c
        BY <1>2, <2>1, <2>2, <4>1
      <4>2. CASE d # c
        BY <1>1, <1>7, <2>1, <2>6, <4>2 DEF WorkersHaveCalls, Task!OrphansAreTold
      <4> QED BY <4>1, <4>2
    <3> QED BY <3>1 DEF WorkersHaveCalls, Task!OrphansAreTold
  <2> QED BY <1>2, <1>3, <1>7, <2>1, <2>3, <2>4, <2>5, <2>7
<1>8. ASSUME UNCHANGED <<active, marks, name, told, early>>,
             token' \in [Calls -> BOOLEAN], \A d \in Calls : token[d] => token'[d],
             pc' \in [Calls -> TaskPlaces], \A d \in Calls : Task!InProgress(d)' <=> Task!InProgress(d),
             idle' \in [Calls -> BOOLEAN], taken' \in [Calls -> BOOLEAN],
             left' \in [Calls -> 0..Budget],
             worker' \in [Calls -> {"none", "queued", "running", "ended", "aborted"}],
             answer' \in [Calls -> {"none", "ok", "error"}],
             \A d \in Calls :
               /\ pc'[d] \in {"idle", "profile", "chat"} => pc'[d] = pc[d] /\ worker'[d] = worker[d]
               /\ worker'[d] = "queued" => worker[d] = "queued" \/ Task!InProgress(d)
               /\ worker'[d] = "running" =>
                    worker[d] = "running" \/ (worker[d] = "queued" /\ ~token[d])
      PROVE  TaskInvariant'
  <2>1. Registered'
    BY <1>1, <1>8, CallGoesOn
  <2>2. CancelsAreKept'
    BY <1>1, <1>8 DEF CancelsAreKept
  <2>3. WorkersHaveCalls'
    BY <1>1, <1>8 DEF WorkersHaveCalls
  <2>4. Task!OrphansAreTold'
    BY <1>1, <1>8 DEF WorkersHaveCalls, Task!OrphansAreTold
  <2> QED BY <1>2, <1>3, <1>8, <2>1, <2>2, <2>3, <2>4
<1>9. ASSUME NEW c \in Calls, NEW ok \in BOOLEAN, Task!ProfileDone(c, ok)
      PROVE  TaskInvariant'
  <2>1. CASE ok
    <3>1. /\ pc[c] = "profile" /\ pc' = [pc EXCEPT ![c] = "waiting"]
          /\ worker' = [worker EXCEPT ![c] = "queued"]
          /\ UNCHANGED <<active, marks, token, answer, name, idle, left, taken, told, early>>
      BY <1>9, <2>1 DEF Task!ProfileDone, Task!registry
    <3>2. pc' \in [Calls -> TaskPlaces] /\ \A d \in Calls : Task!InProgress(d)' <=> Task!InProgress(d)
      BY <1>2, <3>1 DEF TaskPlaces, Task!InProgress
    <3>3. /\ worker' \in [Calls -> {"none", "queued", "running", "ended", "aborted"}]
          /\ \A d \in Calls : worker'[d] = IF d = c THEN "queued" ELSE worker[d]
          /\ \A d \in Calls : pc'[d] = IF d = c THEN "waiting" ELSE pc[d]
      BY <1>2, <3>1
    <3>4. Task!InProgress(c)
      BY <3>1 DEF Task!InProgress
    <3> QED BY <1>2, <1>8, <3>1, <3>2, <3>3, <3>4
  <2>2. CASE ~ok
    BY <1>7, <1>9, <2>2 DEF Task!ProfileDone, Task!InProgress
  <2> QED BY <2>1, <2>2
<1>10. ASSUME NEW c \in Calls, Task!ProfileStop(c)
       PROVE  TaskInvariant'
  BY <1>7, <1>10 DEF Task!ProfileStop, Task!InProgress
<1>11. ASSUME NEW c \in Calls, Task!GraceEnd(c)
       PROVE  TaskInvariant'
  BY <1>7, <1>11 DEF Task!GraceEnd, Task!InProgress
<1>12. ASSUME NEW c \in Calls, Task!DropFuture(c)
       PROVE  TaskInvariant'
  BY <1>7, <1>12 DEF Task!DropFuture, Task!InProgress
<1>13. ASSUME NEW c \in Calls, NEW ok \in BOOLEAN, Task!CallResult(c, ok)
       PROVE  TaskInvariant'
  <2>1. CASE Task!Stopped(c)
    <3>1. /\ pc[c] = "waiting" /\ pc' = [pc EXCEPT ![c] = "grace"]
          /\ token' = [token EXCEPT ![c] = TRUE] /\ taken' = [taken EXCEPT ![c] = TRUE]
          /\ UNCHANGED <<active, marks, answer, name, idle, left, worker, told, early>>
      BY <1>13, <2>1 DEF Task!CallResult
    <3>2. pc' \in [Calls -> TaskPlaces] /\ \A d \in Calls : Task!InProgress(d)' <=> Task!InProgress(d)
      BY <1>2, <3>1 DEF TaskPlaces, Task!InProgress
    <3>3. /\ token' \in [Calls -> BOOLEAN] /\ \A d \in Calls : token[d] => token'[d]
          /\ taken' \in [Calls -> BOOLEAN]
          /\ \A d \in Calls : pc'[d] = IF d = c THEN "grace" ELSE pc[d]
      BY <1>2, <3>1
    <3> QED BY <1>2, <1>8, <3>1, <3>2, <3>3
  <2>2. CASE ~Task!Stopped(c)
    BY <1>7, <1>13, <2>2 DEF Task!CallResult, Task!InProgress
  <2> QED BY <2>1, <2>2
<1>14. ASSUME NEW c \in Calls, Task!CallStop(c)
       PROVE  TaskInvariant'
  <2>1. /\ pc[c] = "waiting" /\ pc' = [pc EXCEPT ![c] = "grace"]
        /\ token' = [token EXCEPT ![c] = TRUE]
        /\ worker' = [worker EXCEPT ![c] = IF worker[c] = "queued" THEN "aborted" ELSE worker[c]]
        /\ UNCHANGED <<active, marks, answer, name, idle, left, taken, told, early>>
    BY <1>14 DEF Task!CallStop
  <2>2. pc' \in [Calls -> TaskPlaces] /\ \A d \in Calls : Task!InProgress(d)' <=> Task!InProgress(d)
    BY <1>2, <2>1 DEF TaskPlaces, Task!InProgress
  <2>3. /\ token' \in [Calls -> BOOLEAN] /\ \A d \in Calls : token[d] => token'[d]
        /\ \A d \in Calls : pc'[d] = IF d = c THEN "grace" ELSE pc[d]
    BY <1>2, <2>1
  <2>4. /\ worker' \in [Calls -> {"none", "queued", "running", "ended", "aborted"}]
        /\ \A d \in Calls : worker'[d] = worker[d] \/ (d = c /\ worker'[d] = "aborted")
    BY <1>2, <2>1
  <2> QED BY <1>2, <1>8, <2>1, <2>2, <2>3, <2>4
<1>15. ASSUME NEW c \in Calls, Task!WorkerStart(c) \/ Task!WorkerEnd(c)
       PROVE  TaskInvariant'
  <2>1. \E w \in {"running", "ended"} :
          /\ worker' = [worker EXCEPT ![c] = w] /\ worker[c] \in {"queued", "running"}
          /\ w = "running" => worker[c] = "queued" /\ ~token[c]
    BY <1>15 DEF Task!WorkerStart, Task!WorkerEnd
  <2>2. UNCHANGED <<active, marks, token, pc, name, idle, left, taken, answer, told, early>>
    BY <1>15 DEF Task!WorkerStart, Task!WorkerEnd, Task!registry
  <2>3. /\ worker' \in [Calls -> {"none", "queued", "running", "ended", "aborted"}]
        /\ \A d \in Calls : d # c => worker'[d] = worker[d]
        /\ worker'[c] \in {"running", "ended"}
        /\ worker'[c] = "running" => worker[c] = "queued" /\ ~token[c]
    BY <1>2, <2>1
  <2>4. pc[c] \notin {"idle", "profile", "chat"}
    BY <1>1, <2>1 DEF WorkersHaveCalls
  <2>5. \A d \in Calls : Task!InProgress(d)' <=> Task!InProgress(d)
    BY <2>2 DEF Task!InProgress
  <2> QED BY <1>2, <1>8, <2>2, <2>3, <2>4, <2>5
<1>16. ASSUME NEW c \in Calls, Task!Touch(c) \/ Task!TimePasses(c)
       PROVE  TaskInvariant'
  <2>1. left' \in [Calls -> 0..Budget]
    <3>1. CASE Task!Touch(c)
      BY <1>2, <3>1 DEF Task!Touch
    <3>2. CASE Task!TimePasses(c)
      BY <1>2, <3>2 DEF Task!TimePasses
    <3> QED BY <1>16, <3>1, <3>2
  <2>2. UNCHANGED <<active, marks, token, pc, name, idle, taken, worker, answer, told, early>>
    BY <1>16 DEF Task!Touch, Task!TimePasses, Task!registry
  <2>3. \A d \in Calls : Task!InProgress(d)' <=> Task!InProgress(d)
    BY <2>2 DEF Task!InProgress
  <2> QED BY <1>2, <1>8, <2>1, <2>2, <2>3
<1>17. ASSUME NEW c \in Calls, NEW r \in {"ok", "error"}, Task!FinishChat(c, r)
       PROVE  TaskInvariant'
  <2>1. /\ pc[c] = "chat" /\ pc' = [pc EXCEPT ![c] = "answered"] /\ Task!Finish(name[c])
        /\ answer' = [answer EXCEPT ![c] = r]
        /\ UNCHANGED <<name, idle, left, taken, worker, told, early>>
    BY <1>17 DEF Task!FinishChat
  <2>2. worker[c] = "none" /\ name[c] # NoId
    BY <1>1, <2>1 DEF WorkersHaveCalls
  <2>3. Registered' /\ UNCHANGED <<marks, token>>
    BY <1>1, <1>2, <2>1, <2>2, ChatFinishes
  <2>4. pc' \in [Calls -> TaskPlaces] /\ answer' \in [Calls -> {"none", "ok", "error"}]
    BY <1>2, <2>1 DEF TaskPlaces
  <2>5. \A d \in Calls : d # c => pc'[d] = pc[d] /\ (Task!InProgress(d)' <=> Task!InProgress(d))
    BY <1>2, <2>1 DEF Task!InProgress
  <2>6. CancelsAreKept'
    BY <1>1, <2>1, <2>3 DEF CancelsAreKept
  <2>7. WorkersHaveCalls' /\ Task!OrphansAreTold'
    <3>1. ASSUME NEW d \in Calls
          PROVE  /\ pc'[d] \in {"idle", "profile", "chat"} => worker'[d] = "none"
                 /\ pc'[d] = "chat" => name'[d] # NoId
                 /\ worker'[d] \in {"queued", "running"} /\ ~Task!InProgress(d)' => token'[d]
      <4>1. CASE d = c
        BY <1>2, <2>1, <2>2, <4>1
      <4>2. CASE d # c
        BY <1>1, <2>1, <2>3, <2>5, <4>2 DEF WorkersHaveCalls, Task!OrphansAreTold
      <4> QED BY <4>1, <4>2
    <3> QED BY <3>1 DEF WorkersHaveCalls, Task!OrphansAreTold
  <2> QED BY <1>2, <1>3, <2>1, <2>3, <2>4, <2>6, <2>7
<1>18. ASSUME NEW id \in Ids, Task!CancelTask(id)
       PROVE  TaskInvariant'
  <2>1. /\ Registered' /\ CancelsAreKept' /\ early' \subseteq Ids /\ told' \in [Calls -> BOOLEAN]
        /\ \A d \in Calls : token[d] => token'[d]
    BY <1>1, <1>2, <1>18, CancelsCall
  <2>2. UNCHANGED <<pc, name, idle, left, taken, worker, answer>>
    BY <1>18 DEF Task!CancelTask, Task!calls
  <2>3. \A d \in Calls : Task!InProgress(d)' <=> Task!InProgress(d)
    BY <2>2 DEF Task!InProgress
  <2>4. WorkersHaveCalls' /\ Task!OrphansAreTold'
    BY <1>1, <2>1, <2>2, <2>3 DEF WorkersHaveCalls, Task!OrphansAreTold
  <2> QED BY <1>2, <1>3, <2>1, <2>2, <2>4
<1>19. ASSUME NEW id \in Ids, Task!ForgetMark(id)
       PROVE  TaskInvariant'
  <2>1. /\ marks' = Task!Without(id) /\ early' = early \ {id}
        /\ UNCHANGED <<active, token, pc, name, idle, left, taken, worker, answer, told>>
    BY <1>19 DEF Task!ForgetMark, Task!MarkExpires, Task!calls
  <2>2. /\ DOMAIN marks' = DOMAIN marks \ {id} /\ marks' \in [DOMAIN marks' -> 0 .. MarkLimit - 1]
        /\ Distinct(marks)' /\ DOMAIN marks' \subseteq Ids /\ Cardinality(DOMAIN marks') <= MarkLimit
    BY <1>1, <2>1, TaskUnmarks DEF Registered, Distinct
  <2>3. \A d \in Calls : Task!InProgress(d)' <=> Task!InProgress(d)
    BY <2>1 DEF Task!InProgress
  <2>4. Task!RegistryTypes'
    BY <1>1, <2>1, <2>2, TaskCounts DEF Registered, Task!RegistryTypes
  <2>5. Task!RegistryIsExact' /\ IdsHaveOneCall'
    BY <1>1, <2>1, <2>3 DEF Registered, Task!RegistryIsExact, IdsHaveOneCall
  <2>6. Registered'
    BY <1>1, <2>1, <2>2, <2>4, <2>5 DEF Registered
  <2>7. CancelsAreKept' /\ early' \subseteq Ids
    BY <1>1, <1>2, <2>1, <2>2 DEF CancelsAreKept
  <2>8. WorkersHaveCalls' /\ Task!OrphansAreTold'
    BY <1>1, <2>1, <2>3 DEF WorkersHaveCalls, Task!OrphansAreTold
  <2> QED BY <1>2, <1>3, <2>1, <2>6, <2>7, <2>8
<1> QED
  BY <1>4, <1>5, <1>6, <1>9, <1>10, <1>11, <1>12, <1>13, <1>14, <1>15, <1>16, <1>17, <1>18,
     <1>19
     DEF Task!Next, Task!CallStep, Task!EndChat, Task!StopChat

(* A behaviour begins with no command and an empty registry.                    *)
LEMMA TaskBegins ==
  ASSUME Task!Init
  PROVE  TaskInvariant
<1>1. /\ active = {} /\ marks = [i \in {} |-> 0] /\ token = [c \in Calls |-> FALSE]
      /\ pc = [c \in Calls |-> "idle"] /\ name = [c \in Calls |-> NoId]
      /\ idle = [c \in Calls |-> FALSE] /\ left = [c \in Calls |-> Budget]
      /\ taken = [c \in Calls |-> FALSE] /\ worker = [c \in Calls |-> "none"]
      /\ answer = [c \in Calls |-> "none"] /\ told = [c \in Calls |-> FALSE] /\ early = {}
  BY DEF Task!Init, Task!RegistryInit
<1>2. DOMAIN marks = {} /\ marks \in [DOMAIN marks -> 0 .. MarkLimit - 1] /\ Distinct(marks)
  BY <1>1 DEF Distinct
<1>3. Cardinality(DOMAIN marks) <= MarkLimit
  BY <1>2, FewMarks
<1>4. Task!RegistryTypes
  BY <1>1, <1>2, <1>3, TaskCounts DEF Task!RegistryTypes
<1>5. Task!TypeOK
  BY <1>1, <1>4 DEF Task!TypeOK
<1>6. \A c \in Calls : ~Task!InProgress(c)
  BY <1>1 DEF Task!InProgress
<1>7. Task!RegistryIsExact /\ Task!OrphansAreTold /\ IdsHaveOneCall /\ CancelsAreKept /\ WorkersHaveCalls
  BY <1>1, <1>6 DEF Task!RegistryIsExact, Task!OrphansAreTold, IdsHaveOneCall, CancelsAreKept,
     WorkersHaveCalls
<1> QED BY <1>2, <1>5, <1>7 DEF TaskInvariant

(* A call that was cancelled has its token set, so that it neither begins its   *)
(* work nor answers as if nothing had happened.                                *)
LEMMA TaskCancelsFinally ==
  ASSUME TaskInvariant, Task!Next \/ UNCHANGED task
  PROVE  Task!CancelledNeverStarts /\ Task!StaleNeverPublished
<1>1. /\ \A c \in Calls : told[c] => token[c]
      /\ \A c \in Calls : pc[c] \in {"idle", "profile", "chat"} => worker[c] = "none"
      /\ worker \in [Calls -> {"none", "queued", "running", "ended", "aborted"}]
      /\ answer \in [Calls -> {"none", "ok", "error"}] /\ left \in [Calls -> 0..Budget]
  BY DEF TaskInvariant, CancelsAreKept, WorkersHaveCalls, Task!TypeOK
<1>2. \A c \in Calls : worker[c] # "running" /\ worker'[c] = "running" => ~token[c]
  <2>1. CASE UNCHANGED worker
    BY <2>1
  <2>2. ASSUME NEW c \in Calls, Task!ProfileDone(c, TRUE) \/ Task!CallStop(c) \/ Task!WorkerEnd(c)
        PROVE  \A d \in Calls : worker[d] # "running" => worker'[d] # "running"
    <3>1. \E w \in {"queued", "aborted", worker[c], "ended"} : worker' = [worker EXCEPT ![c] = w]
      BY <2>2 DEF Task!ProfileDone, Task!CallStop, Task!WorkerEnd
    <3> QED BY <1>1, <3>1
  <2>3. ASSUME NEW c \in Calls, Task!WorkerStart(c)
        PROVE  \A d \in Calls : worker[d] # "running" /\ worker'[d] = "running" => ~token[d]
    BY <1>1, <2>3 DEF Task!WorkerStart
  <2> QED
    BY <2>1, <2>2, <2>3
       DEF Task!Next, Task!CallStep, Task!Start, Task!Refuse, Task!StartChat, Task!ProfileDone,
           Task!CallResult, Task!EndChat, Task!StopChat, Task!FinishChat, Task!ProfileStop,
           Task!GraceEnd, Task!DropFuture, Task!Touch, Task!TimePasses, Task!CancelTask,
           Task!ForgetMark, Task!calls, task
<1>3. \A c \in Calls :
        worker[c] # "none" /\ answer[c] # "ok" /\ answer'[c] = "ok" => ~token[c] /\ left[c] > 0
  <2>1. CASE UNCHANGED answer
    BY <2>1
  <2>2. ASSUME NEW c \in Calls, NEW ok \in BOOLEAN, Task!CallResult(c, ok), answer' # answer
        PROVE  \A d \in Calls : answer[d] # "ok" /\ answer'[d] = "ok" => ~token[d] /\ left[d] > 0
    <3>1. ~Task!Stopped(c) /\ \E a \in {"ok", "error"} : answer' = [answer EXCEPT ![c] = a]
      BY <2>2 DEF Task!CallResult, Task!End
    <3>2. ~token[c] /\ left[c] > 0
      BY <1>1, <3>1 DEF Task!Stopped
    <3> QED BY <1>1, <3>1, <3>2
  <2>3. ASSUME NEW c \in Calls, NEW a \in {"none", "error"}, answer' = [answer EXCEPT ![c] = a]
        PROVE  \A d \in Calls : answer[d] # "ok" => answer'[d] # "ok"
    BY <1>1, <2>3
  <2>4. ASSUME NEW c \in Calls, NEW a \in {"ok", "error"}, Task!FinishChat(c, a)
        PROVE  \A d \in Calls : worker[d] # "none" /\ answer[d] # "ok" => answer'[d] # "ok"
    BY <1>1, <2>4 DEF Task!FinishChat
  <2>5. ASSUME NEW c \in Calls,
               \/ \E ok \in BOOLEAN : Task!ProfileDone(c, ok)
               \/ \E id \in Ids : Task!Refuse(c, id)
               \/ Task!ProfileStop(c) \/ Task!GraceEnd(c) \/ Task!DropFuture(c)
        PROVE  UNCHANGED answer \/ \E a \in {"none", "error"} : answer' = [answer EXCEPT ![c] = a]
    BY <2>5 DEF Task!ProfileDone, Task!Refuse, Task!ProfileStop, Task!GraceEnd,
       Task!DropFuture, Task!End
  <2>6. \/ UNCHANGED answer
        \/ \E c \in Calls, ok \in BOOLEAN : Task!CallResult(c, ok)
        \/ \E c \in Calls, a \in {"ok", "error"} : Task!FinishChat(c, a)
        \/ \E c \in Calls :
             \/ \E ok \in BOOLEAN : Task!ProfileDone(c, ok)
             \/ \E id \in Ids : Task!Refuse(c, id)
             \/ Task!ProfileStop(c) \/ Task!GraceEnd(c) \/ Task!DropFuture(c)
    <3>1. ASSUME NEW c \in Calls
          PROVE  /\ \A id \in Ids \cup {NoId}, t \in BOOLEAN : Task!Start(c, id, t) => UNCHANGED answer
                 /\ \A id \in Ids : Task!StartChat(c, id) => UNCHANGED answer
                 /\ Task!CallStop(c) => UNCHANGED answer
                 /\ Task!WorkerStart(c) \/ Task!WorkerEnd(c) => UNCHANGED answer
                 /\ Task!Touch(c) \/ Task!TimePasses(c) => UNCHANGED answer
      BY DEF Task!Start, Task!StartChat, Task!CallStop, Task!WorkerStart, Task!WorkerEnd,
         Task!Touch, Task!TimePasses
    <3>2. ASSUME NEW id \in Ids, Task!CancelTask(id) \/ Task!ForgetMark(id)
          PROVE  UNCHANGED answer
      BY <3>2 DEF Task!CancelTask, Task!ForgetMark, Task!calls
    <3>3. CASE UNCHANGED task
      BY <3>3 DEF task
    <3>4. ASSUME NEW c \in Calls, Task!CallStep(c)
          PROVE  \/ UNCHANGED answer
                 \/ \E ok \in BOOLEAN : Task!CallResult(c, ok)
                 \/ \E a \in {"ok", "error"} : Task!FinishChat(c, a)
                 \/ \E ok \in BOOLEAN : Task!ProfileDone(c, ok)
                 \/ \E id \in Ids : Task!Refuse(c, id)
                 \/ Task!ProfileStop(c) \/ Task!GraceEnd(c) \/ Task!DropFuture(c)
      <4>1. CASE \E id \in Ids \cup {NoId}, t \in BOOLEAN : Task!Start(c, id, t)
        BY <3>1, <4>1
      <4>2. CASE \E id \in Ids : Task!Refuse(c, id) \/ Task!StartChat(c, id)
        BY <3>1, <4>2
      <4>3. CASE \E ok \in BOOLEAN : Task!ProfileDone(c, ok) \/ Task!CallResult(c, ok)
        BY <4>3
      <4>4. CASE Task!EndChat(c) \/ Task!StopChat(c)
        <5>1. \E a \in {"ok", "error"} : Task!FinishChat(c, a)
          BY <4>4 DEF Task!EndChat, Task!StopChat
        <5> QED BY <5>1
      <4>5. CASE Task!ProfileStop(c) \/ Task!GraceEnd(c) \/ Task!DropFuture(c)
        BY <4>5
      <4>6. CASE \/ Task!CallStop(c) \/ Task!WorkerStart(c) \/ Task!WorkerEnd(c)
                 \/ Task!Touch(c) \/ Task!TimePasses(c)
        BY <3>1, <4>6
      <4> QED BY <3>4, <4>1, <4>2, <4>3, <4>4, <4>5, <4>6 DEF Task!CallStep
    <3>5. CASE \E c \in Calls : Task!CallStep(c)
      <4>1. PICK c \in Calls : Task!CallStep(c)
        BY <3>5
      <4> HIDE DEF Task!CallStep
      <4> QED BY <3>4, <4>1, Zenon
    <3> QED BY <3>2, <3>3, <3>5 DEF Task!Next
  <2> QED BY <2>1, <2>2, <2>3, <2>4, <2>5, <2>6
<1> QED BY <1>1, <1>2, <1>3 DEF Task!CancelledNeverStarts, Task!StaleNeverPublished

-----------------------------------------------------------------------------
(* The queue of transfers.                                                    *)

(* The ages of the marks are the places of the marks in their order, so that    *)
(* with fewer jobs than the limit none is forgotten.                          *)
Ranked(m) == \A i \in DOMAIN m : m[i] < Cardinality(DOMAIN m)

(* The registry has the commands that work, each under the id of its own job.   *)
ActiveJobsWork ==
  \A i, j \in Jobs : [id |-> i, call |-> j] \in jobActive <=> i = j /\ work[j] = "running"

(* A job calls the backend once, when it has its listener, and is answered       *)
(* after the command is over; a listener is only kept while the job executes.    *)
CallsFollow ==
  \A j \in Jobs :
    /\ "start" \in net[j] => work[j] = "none"
    /\ reply[j] # "none" => work[j] = "over"
    /\ stage[j] = "subscribing" \/ status[j] \in {"none", "queued"} \/ ~Queue!Sftp(j) =>
         work[j] = "none" /\ "start" \notin net[j]
    /\ stage[j] = "subscribing" => Queue!Sftp(j)
    /\ listener[j] = "on" => stage[j] = "executing"

QueueInvariant ==
  /\ Queue!TypeOK /\ Distinct(jobMarks) /\ Ranked(jobMarks)
  /\ ActiveJobsWork /\ CallsFollow
  /\ Queue!EndedLeavesNothing /\ Queue!WaitsForARunningJob

Statuses == {"none", "queued", "running", "done", "error", "cancelled"}
Places == Servers \cup Panes \cup {"nowhere"}

(* What pump leaves: no more than the limit run, never two on one server or       *)
(* terminal, and what waits waits for one of them.                            *)
LEMMA PumpFills ==
  ASSUME NEW st \in [Jobs -> Statuses], NEW k \in [Jobs -> Places], NEW running \in SUBSET Jobs,
         Queue!Pumped(running, st, k),
         NEW old \in SUBSET Jobs, \A j \in Jobs : j \in old <=> st[j] = "running",
         Cardinality(old) <= MaxRunning,
         \A i, j \in Jobs : st[i] = "running" /\ st[j] = "running" /\ k[i] = k[j] => i = j
  PROVE  /\ Cardinality(running) <= MaxRunning
         /\ \A i, j \in running : k[i] = k[j] => i = j
         /\ \A j \in Jobs \ running : st[j] = "queued" =>
              Cardinality(running) = MaxRunning \/ \E i \in running : k[i] = k[j]
<1> DEFINE new == {j \in running : st[j] = "queued"}
           met(j) == {i \in running : st[i] = "running" \/ i < j}
<1>1. /\ old \subseteq running /\ running = old \cup new
      /\ \A j \in new : /\ Cardinality(met(j)) < MaxRunning \/ ~(Cardinality(met(j)) >= MaxRunning)
                        /\ \A i \in met(j) : k[i] # k[j]
      /\ \A j \in Jobs \ running : st[j] = "queued" =>
           Cardinality(met(j)) >= MaxRunning \/ \E i \in met(j) : k[i] = k[j]
  <2>1. /\ old \subseteq running /\ \A j \in running : st[j] \in {"running", "queued"}
        /\ \A j \in Jobs : st[j] = "queued" =>
             (j \in running <=> ~(Queue!Full(running, st, j) \/ Queue!Occupied(running, st, k, j)))
    BY DEF Queue!Pumped
  <2>2. \A j \in Jobs : /\ Queue!Full(running, st, j) <=> Cardinality(met(j)) >= MaxRunning
                        /\ Queue!Occupied(running, st, k, j) <=> \E i \in met(j) : k[i] = k[j]
    BY QueueCounts DEF Queue!Full, Queue!Occupied, Queue!Met
  <2>3. running = old \cup new
    BY <2>1
  <2> QED BY <2>1, <2>2, <2>3
<1>2. IsFiniteSet(running) /\ Cardinality(running) \in Nat /\ Cardinality(running) <= Cardinality(Jobs)
  BY FS_Subset, FS_CardinalityType
<1>3. Cardinality(running) <= MaxRunning
  <2>1. CASE new = {}
    <3>1. running = old
      BY <1>1, <2>1
    <3> QED BY <3>1
  <2>2. CASE new # {}
    <3>1. IsFiniteSet(new) /\ new \subseteq Nat
      BY <1>2, FS_Subset, FS_CardinalityType
    <3>2. PICK m \in new : \A i \in new : i <= m
      BY <2>2, <3>1, LastOfMany
    <3>3. m \in Nat /\ \A i \in new : i \in Nat
      BY <3>1
    <3>4. \A i \in new : i = m \/ i < m
      BY <3>2, <3>3
    <3>5. running = met(m) \cup {m}
      BY <1>1, <3>4
    <3>6. met(m) \subseteq running /\ m \notin met(m)
      BY <3>3
    <3>7. IsFiniteSet(met(m)) /\ Cardinality(met(m)) \in Nat
      BY <1>2, <3>6, FS_Subset, FS_CardinalityType
    <3>8. Cardinality(running) = Cardinality(met(m)) + 1
      BY <3>5, <3>6, <3>7, FS_AddElement, ZenonT(40)
    <3> QED BY <1>1, <3>7, <3>8
  <2> QED BY <2>1, <2>2
<1>4. ASSUME NEW i \in running, NEW j \in running, k[i] = k[j], i # j
      PROVE  FALSE
  <2>1. i \in Nat /\ j \in Nat
    BY FS_CardinalityType
  <2>2. i \in old /\ j \in old => FALSE
    BY <1>4
  <2>3. j \in new => i \notin met(j)
    BY <1>1, <1>4
  <2>4. i \in new => j \notin met(i)
    <3>1. k[j] = k[i]
      BY <1>4
    <3> QED BY <1>1, <3>1
  <2>5. j \in new => i \notin old /\ ~(i < j)
    BY <1>4, <2>3
  <2>6. i \in new => j \notin old /\ ~(j < i)
    BY <1>4, <2>4
  <2>7. i < j \/ j < i
    BY <1>4, <2>1
  <2> QED BY <1>1, <2>2, <2>5, <2>6, <2>7
<1>5. ASSUME NEW j \in Jobs \ running, st[j] = "queued", Cardinality(met(j)) >= MaxRunning
      PROVE  Cardinality(running) = MaxRunning
  <2>1. met(j) \subseteq running
    OBVIOUS
  <2>2. Cardinality(met(j)) <= Cardinality(running) /\ Cardinality(met(j)) \in Nat
    BY <1>2, <2>1, FS_Subset, FS_CardinalityType
  <2> QED BY <1>2, <1>3, <1>5, <2>2
<1>6. \A j \in Jobs : met(j) \subseteq running
  OBVIOUS
<1> QED BY <1>1, <1>3, <1>4, <1>5, <1>6

Stages == {"none", "subscribing", "executing"}
Listeners == {"none", "asked", "on", "off"}

(* What the window does next, for statuses of which those that run are among    *)
(* the running ones so far.                                                   *)
LEMMA WindowGoesOn ==
  ASSUME NEW st \in [Jobs -> Statuses], NEW k \in [Jobs -> Places], NEW ls \in [Jobs -> Listeners],
         Queue!GoesOn(st, k, ls),
         stage \in [Jobs -> Stages], \A i \in Jobs : st[i] = "running" => stage[i] # "none",
         Cardinality({i \in Jobs : st[i] = "running"}) <= MaxRunning,
         \A i, j \in Jobs : st[i] = "running" /\ st[j] = "running" /\ k[i] = k[j] => i = j
  PROVE  /\ key' = k /\ status' \in [Jobs -> Statuses] /\ stage' \in [Jobs -> Stages]
         /\ listener' \in [Jobs -> Listeners]
         /\ \A i \in Jobs : /\ st[i] # "queued" => status'[i] = st[i]
                            /\ st[i] = "queued" => status'[i] \in {"queued", "running"}
                            /\ stage'[i] # "none" <=> status'[i] = "running"
                            /\ st[i] = "running" => stage'[i] = stage[i]
                            /\ st[i] # "queued" \/ status'[i] = "queued" => listener'[i] = ls[i]
                            /\ st[i] = "queued" /\ status'[i] = "running" =>
                                 IF k[i] \in Servers
                                   THEN stage'[i] = "subscribing" /\ listener'[i] = "asked"
                                   ELSE stage'[i] = "executing" /\ listener'[i] = ls[i]
         /\ Queue!WaitsForARunningJob' /\ (Cardinality(Queue!Running) <= MaxRunning)'
<1>1. PICK running \in SUBSET Jobs :
        /\ Queue!Pumped(running, st, k)
        /\ key' = k
        /\ status' = [j \in Jobs |-> IF j \in Queue!Started(running, st) THEN "running" ELSE st[j]]
        /\ stage' = [j \in Jobs |->
             CASE j \notin running -> "none"
               [] j \in Queue!Started(running, st) /\ k[j] \in Servers -> "subscribing"
               [] j \in Queue!Started(running, st) /\ k[j] \notin Servers -> "executing"
               [] OTHER -> stage[j]]
        /\ listener' = [j \in Jobs |-> IF j \in Queue!Started(running, st) /\ k[j] \in Servers
                                         THEN "asked" ELSE ls[j]]
  BY DEF Queue!GoesOn
<1> DEFINE new(j) == j \in running /\ st[j] = "queued"
<1>2. \A j \in Jobs : j \in Queue!Started(running, st) <=> new(j)
  BY DEF Queue!Started
<1>3. \A j \in Jobs : /\ st[j] = "running" => j \in running
                      /\ j \in running => st[j] \in {"running", "queued"}
  BY <1>1 DEF Queue!Pumped
<1>4. /\ Cardinality(running) <= MaxRunning
      /\ \A i, j \in running : k[i] = k[j] => i = j
      /\ \A j \in Jobs \ running : st[j] = "queued" =>
           Cardinality(running) = MaxRunning \/ \E i \in running : k[i] = k[j]
  <2> DEFINE old == {i \in Jobs : st[i] = "running"}
  <2>1. /\ Queue!Pumped(running, st, k) /\ Cardinality(old) <= MaxRunning
        /\ old \in SUBSET Jobs /\ \A j \in Jobs : j \in old <=> st[j] = "running"
    BY <1>1
  <2> HIDE DEF old
  <2> QED BY <2>1, PumpFills
<1>5. \A j \in Jobs : status'[j] = IF new(j) THEN "running" ELSE st[j]
  BY <1>1, <1>2
<1>6. \A j \in Jobs : listener'[j] = IF new(j) /\ k[j] \in Servers THEN "asked" ELSE ls[j]
  BY <1>1, <1>2
<1>7. \A j \in Jobs : stage'[j] = IF j \notin running THEN "none"
                                  ELSE IF new(j) THEN IF k[j] \in Servers THEN "subscribing" ELSE "executing"
                                  ELSE stage[j]
  BY <1>1, <1>2
<1>8. /\ status' \in [Jobs -> Statuses] /\ stage' \in [Jobs -> Stages]
      /\ listener' \in [Jobs -> Listeners]
  BY <1>1, <1>5, <1>6, <1>7 DEF Statuses, Stages, Listeners
<1>9. \A j \in Jobs : status'[j] = "running" <=> j \in running
  BY <1>3, <1>5
<1>10. Queue!Running' = running
  BY <1>9 DEF Queue!Running
<1>11. (Cardinality(Queue!Running) <= MaxRunning)'
  BY <1>4, <1>10
<1>12. Queue!WaitsForARunningJob'
  <2>1. \A i, j \in Queue!Running' : key'[i] = key'[j] => i = j
    BY <1>1, <1>4, <1>10
  <2>2. ASSUME NEW j \in Jobs, status'[j] = "queued"
        PROVE  Cardinality(Queue!Running') = MaxRunning \/ \E i \in Queue!Running' : key'[i] = key'[j]
    <3>1. st[j] = "queued" /\ j \notin running
      BY <1>5, <1>9, <2>2
    <3> QED BY <1>1, <1>4, <1>10, <3>1
  <2> QED BY <2>1, <2>2, QueueCounts DEF Queue!WaitsForARunningJob
<1>13. ASSUME NEW i \in Jobs
       PROVE  /\ st[i] # "queued" => status'[i] = st[i]
              /\ st[i] = "queued" => status'[i] \in {"queued", "running"}
              /\ stage'[i] # "none" <=> status'[i] = "running"
              /\ st[i] = "running" => stage'[i] = stage[i]
              /\ st[i] # "queued" \/ status'[i] = "queued" => listener'[i] = ls[i]
              /\ st[i] = "queued" /\ status'[i] = "running" =>
                   IF k[i] \in Servers
                     THEN stage'[i] = "subscribing" /\ listener'[i] = "asked"
                     ELSE stage'[i] = "executing" /\ listener'[i] = ls[i]
  <2>1. st[i] # "queued" => status'[i] = st[i]
    BY <1>5
  <2>2. st[i] = "queued" => status'[i] \in {"queued", "running"}
    BY <1>5
  <2>3. stage'[i] # "none" <=> status'[i] = "running"
    BY <1>3, <1>7, <1>9
  <2>4. st[i] = "running" => stage'[i] = stage[i]
    BY <1>3, <1>7
  <2>5. st[i] # "queued" \/ status'[i] = "queued" => listener'[i] = ls[i]
    BY <1>5, <1>6
  <2>6. st[i] = "queued" /\ status'[i] = "running" => new(i)
    BY <1>9
  <2> QED BY <1>6, <1>7, <2>1, <2>2, <2>3, <2>4, <2>5, <2>6
<1> QED BY <1>1, <1>8, <1>11, <1>12, <1>13

(* The facts about jobs that the steps of the queue use.                        *)
LEMMA QueueFacts ==
  ASSUME QueueInvariant
  PROVE  /\ key \in [Jobs -> Places] /\ status \in [Jobs -> Statuses] /\ stage \in [Jobs -> Stages]
         /\ listener \in [Jobs -> Listeners] /\ net \in [Jobs -> SUBSET {"start", "cancel"}]
         /\ work \in [Jobs -> {"none", "running", "over"}] /\ reply \in [Jobs -> {"none", "ok", "error"}]
         /\ jobToken \in [Jobs -> BOOLEAN]
         /\ \A j \in Jobs : stage[j] # "none" <=> status[j] = "running"
         /\ Cardinality(Queue!Running) <= MaxRunning
         /\ \A i, j \in Jobs : status[i] = "running" /\ status[j] = "running" /\ key[i] = key[j] => i = j
         /\ Queue!RegistryTypes /\ Distinct(jobMarks) /\ Ranked(jobMarks)
         /\ ActiveJobsWork /\ CallsFollow
<1>1. Queue!Ended = {"done", "error", "cancelled"}
  BY DEF Queue!Ended
<1>2. status \in [Jobs -> Statuses]
  BY <1>1 DEF QueueInvariant, Queue!TypeOK, Statuses
<1>3. \A i, j \in Jobs : status[i] = "running" /\ status[j] = "running" /\ key[i] = key[j] => i = j
  BY DEF QueueInvariant, Queue!WaitsForARunningJob, Queue!Running
<1> QED BY <1>2, <1>3, QueueCounts
       DEF QueueInvariant, Queue!TypeOK, Queue!RegistryTypes, Places, Stages, Listeners

(* What makes up the invariant after a step.                                    *)
LEMMA QueueKept ==
  ASSUME key' \in [Jobs -> Places], status' \in [Jobs -> Statuses], stage' \in [Jobs -> Stages],
         listener' \in [Jobs -> Listeners], net' \in [Jobs -> SUBSET {"start", "cancel"}],
         work' \in [Jobs -> {"none", "running", "over"}], reply' \in [Jobs -> {"none", "ok", "error"}],
         \A j \in Jobs : stage'[j] # "none" <=> status'[j] = "running",
         (Cardinality(Queue!Running) <= MaxRunning)', Queue!WaitsForARunningJob',
         Queue!RegistryTypes', Distinct(jobMarks)', Ranked(jobMarks)',
         ActiveJobsWork', CallsFollow', Queue!EndedLeavesNothing'
  PROVE  QueueInvariant'
<1>1. Queue!Ended = {"done", "error", "cancelled"}
  BY DEF Queue!Ended
<1>2. status' \in [Jobs -> {"none", "queued", "running"} \cup Queue!Ended]
  BY <1>1 DEF Statuses
<1>3. (Queue!Cardinality(Queue!Running) <= MaxRunning)'
  BY QueueCounts
<1>4. Queue!TypeOK'
  BY <1>2, <1>3 DEF Queue!TypeOK, Places, Stages, Listeners
<1> QED BY <1>4 DEF QueueInvariant

(* A job that ran ends: a command it has, or may yet have, is cancelled.          *)
LEMMA JobEnds ==
  ASSUME QueueInvariant, NEW j \in Jobs, status[j] = "running",
         NEW how \in {"done", "error", "cancelled"}, NEW ls \in [Jobs -> Listeners],
         ls[j] # "on", \A i \in Jobs \ {j} : ls[i] = listener[i],
         Queue!GoesOn([status EXCEPT ![j] = how], key, ls),
         UNCHANGED <<jobActive, jobMarks, jobToken, work>>,
         net' \in {net, Queue!Told(j)}, reply' \in {reply, [reply EXCEPT ![j] = "none"]},
         work[j] = "running" \/ "start" \in net[j] => net' = Queue!Told(j)
  PROVE  QueueInvariant'
<1> DEFINE st == [status EXCEPT ![j] = how]
<1>1. /\ key \in [Jobs -> Places] /\ status \in [Jobs -> Statuses] /\ stage \in [Jobs -> Stages]
      /\ listener \in [Jobs -> Listeners] /\ net \in [Jobs -> SUBSET {"start", "cancel"}]
      /\ work \in [Jobs -> {"none", "running", "over"}] /\ reply \in [Jobs -> {"none", "ok", "error"}]
      /\ jobToken \in [Jobs -> BOOLEAN]
      /\ \A i \in Jobs : stage[i] # "none" <=> status[i] = "running"
      /\ Cardinality(Queue!Running) <= MaxRunning
      /\ \A i, k \in Jobs : status[i] = "running" /\ status[k] = "running" /\ key[i] = key[k] => i = k
      /\ Queue!RegistryTypes /\ Distinct(jobMarks) /\ Ranked(jobMarks)
      /\ ActiveJobsWork /\ CallsFollow
  BY QueueFacts
<1>2. /\ st \in [Jobs -> Statuses] /\ \A i \in Jobs : st[i] = IF i = j THEN how ELSE status[i]
      /\ how # "running" /\ how # "queued" /\ how # "none"
  BY <1>1 DEF Statuses
<1> HIDE DEF st
<1>3. Cardinality({i \in Jobs : st[i] = "running"}) <= MaxRunning
  <2>1. {i \in Jobs : st[i] = "running"} \subseteq Queue!Running
    BY <1>2 DEF Queue!Running
  <2>2. IsFiniteSet(Queue!Running)
    BY FS_Subset DEF Queue!Running
  <2>3. /\ Cardinality({i \in Jobs : st[i] = "running"}) \in Nat
        /\ Cardinality({i \in Jobs : st[i] = "running"}) <= Cardinality(Queue!Running)
        /\ Cardinality(Queue!Running) \in Nat
    BY <2>1, <2>2, FS_Subset, FS_CardinalityType
  <2> QED BY <1>1, <2>3
<1>4. Queue!GoesOn(st, key, ls)
  BY DEF st
<1>5. /\ key' = key /\ status' \in [Jobs -> Statuses] /\ stage' \in [Jobs -> Stages]
      /\ listener' \in [Jobs -> Listeners]
      /\ \A i \in Jobs : /\ st[i] # "queued" => status'[i] = st[i]
                         /\ st[i] = "queued" => status'[i] \in {"queued", "running"}
                         /\ stage'[i] # "none" <=> status'[i] = "running"
                         /\ st[i] = "running" => stage'[i] = stage[i]
                         /\ st[i] # "queued" \/ status'[i] = "queued" => listener'[i] = ls[i]
                         /\ st[i] = "queued" /\ status'[i] = "running" =>
                              IF key[i] \in Servers
                                THEN stage'[i] = "subscribing" /\ listener'[i] = "asked"
                                ELSE stage'[i] = "executing" /\ listener'[i] = ls[i]
      /\ Queue!WaitsForARunningJob' /\ (Cardinality(Queue!Running) <= MaxRunning)'
  <2>1. /\ \A i \in Jobs : st[i] = "running" => stage[i] # "none"
        /\ \A i, k \in Jobs : st[i] = "running" /\ st[k] = "running" /\ key[i] = key[k] => i = k
    BY <1>1, <1>2
  <2> QED BY <1>1, <1>2, <1>3, <1>4, <2>1, WindowGoesOn
<1>6. /\ net' \in [Jobs -> SUBSET {"start", "cancel"}] /\ reply' \in [Jobs -> {"none", "ok", "error"}]
      /\ \A i \in Jobs : /\ "start" \in net'[i] <=> "start" \in net[i]
                         /\ "cancel" \in net[i] => "cancel" \in net'[i]
                         /\ reply'[i] # "none" => reply[i] # "none"
      /\ (work[j] = "running" \/ "start" \in net[j]) /\ Queue!Sftp(j) => "cancel" \in net'[j]
  <2>1. Queue!Told(j) = [net EXCEPT ![j] = net[j] \cup (IF Queue!Sftp(j) THEN {"cancel"} ELSE {})]
    BY DEF Queue!Told
  <2>2. /\ Queue!Told(j) \in [Jobs -> SUBSET {"start", "cancel"}]
        /\ \A i \in Jobs : /\ "start" \in Queue!Told(j)[i] <=> "start" \in net[i]
                           /\ "cancel" \in net[i] => "cancel" \in Queue!Told(j)[i]
        /\ Queue!Sftp(j) => "cancel" \in Queue!Told(j)[j]
    BY <1>1, <2>1
  <2> QED BY <1>1, <2>2
<1>7. \A i \in Jobs : (Queue!Sftp(i))' <=> Queue!Sftp(i)
  BY <1>5 DEF Queue!Sftp
<1>8. CallsFollow'
  <2>1. ASSUME NEW i \in Jobs
        PROVE  /\ "start" \in net'[i] => work'[i] = "none"
               /\ reply'[i] # "none" => work'[i] = "over"
               /\ stage'[i] = "subscribing" \/ status'[i] \in {"none", "queued"} \/ ~Queue!Sftp(i)' =>
                    work'[i] = "none" /\ "start" \notin net'[i]
               /\ stage'[i] = "subscribing" => Queue!Sftp(i)'
               /\ listener'[i] = "on" => stage'[i] = "executing"
    <3>1. /\ "start" \in net'[i] => work'[i] = "none"
          /\ reply'[i] # "none" => work'[i] = "over"
      BY <1>1, <1>6 DEF CallsFollow
    <3>2. stage'[i] = "subscribing" => stage[i] = "subscribing" \/ (status[i] = "queued" /\ key[i] \in Servers)
      BY <1>1, <1>2, <1>5 DEF Statuses
    <3>3. status'[i] \in {"none", "queued"} => status'[i] = status[i]
      BY <1>2, <1>5
    <3>4. stage'[i] = "subscribing" \/ status'[i] \in {"none", "queued"} \/ ~Queue!Sftp(i)' =>
            work'[i] = "none" /\ "start" \notin net'[i]
      BY <1>1, <1>6, <1>7, <3>2, <3>3 DEF CallsFollow
    <3>5. stage'[i] = "subscribing" => Queue!Sftp(i)'
      BY <1>1, <1>7, <3>2 DEF CallsFollow, Queue!Sftp
    <3>6. listener'[i] = "on" => stage'[i] = "executing"
      <4>1. CASE i = j
        BY <1>2, <1>5, <4>1
      <4>2. CASE i # j
        <5>1. ls[i] = listener[i] /\ st[i] = status[i]
          BY <1>2, <4>2
        <5>2. listener[i] = "on" => stage[i] = "executing" /\ status[i] = "running"
          BY <1>1 DEF CallsFollow
        <5> QED BY <1>5, <5>1, <5>2
      <4> QED BY <4>1, <4>2
    <3> QED BY <3>1, <3>4, <3>5, <3>6
  <2> QED BY <2>1 DEF CallsFollow
<1>9. Queue!EndedLeavesNothing'
  <2>1. ASSUME NEW i \in Jobs, status'[i] \in {"done", "error", "cancelled"}
        PROVE  /\ listener'[i] # "on"
               /\ work'[i] = "running" => jobToken'[i] \/ "cancel" \in net'[i]
               /\ "start" \in net'[i] => i \in DOMAIN jobMarks' \/ "cancel" \in net'[i]
    <3>1. listener'[i] # "on"
      BY <1>5, <1>8, <2>1 DEF CallsFollow
    <3>2. CASE i = j
      BY <1>1, <1>6, <3>1, <3>2 DEF CallsFollow
    <3>3. CASE i # j
      <4>1. status[i] = status'[i]
        BY <1>2, <1>5, <2>1, <3>3
      <4>2. /\ work[i] = "running" => jobToken[i] \/ "cancel" \in net[i]
            /\ "start" \in net[i] => i \in DOMAIN jobMarks \/ "cancel" \in net[i]
        BY <2>1, <4>1 DEF QueueInvariant, Queue!EndedLeavesNothing, Queue!Ended, Queue!IsMarked
      <4> QED BY <1>6, <3>1, <4>2
    <3> QED BY <3>2, <3>3
  <2> QED BY <2>1 DEF Queue!EndedLeavesNothing, Queue!Ended, Queue!IsMarked
<1>10. Queue!RegistryTypes' /\ Distinct(jobMarks)' /\ Ranked(jobMarks)' /\ ActiveJobsWork'
  BY <1>1 DEF Queue!RegistryTypes, Distinct, Ranked, ActiveJobsWork
<1> QED BY <1>1, <1>5, <1>6, <1>8, <1>9, <1>10, QueueKept

(* A job joins the list.                                                       *)
LEMMA JobIsQueued ==
  ASSUME QueueInvariant, NEW k \in Servers \cup Panes, Queue!Enqueue(k)
  PROVE  QueueInvariant'
<1>1. /\ key \in [Jobs -> Places] /\ status \in [Jobs -> Statuses] /\ stage \in [Jobs -> Stages]
      /\ listener \in [Jobs -> Listeners] /\ net \in [Jobs -> SUBSET {"start", "cancel"}]
      /\ work \in [Jobs -> {"none", "running", "over"}] /\ reply \in [Jobs -> {"none", "ok", "error"}]
      /\ jobToken \in [Jobs -> BOOLEAN]
      /\ \A i \in Jobs : stage[i] # "none" <=> status[i] = "running"
      /\ Cardinality(Queue!Running) <= MaxRunning
      /\ \A i, m \in Jobs : status[i] = "running" /\ status[m] = "running" /\ key[i] = key[m] => i = m
      /\ Queue!RegistryTypes /\ Distinct(jobMarks) /\ Ranked(jobMarks)
      /\ ActiveJobsWork /\ CallsFollow
  BY QueueFacts
<1>2. PICK j \in Jobs : /\ status[j] = "none"
                        /\ Queue!GoesOn([status EXCEPT ![j] = "queued"], [key EXCEPT ![j] = k], listener)
                        /\ UNCHANGED <<jobActive, jobMarks, jobToken, work, net, reply>>
  BY DEF Queue!Enqueue, Queue!Enqueued, Queue!backend, Queue!registry
<1> DEFINE st == [status EXCEPT ![j] = "queued"]
           ks == [key EXCEPT ![j] = k]
<1>3. /\ st \in [Jobs -> Statuses] /\ \A i \in Jobs : st[i] = IF i = j THEN "queued" ELSE status[i]
      /\ ks \in [Jobs -> Places] /\ \A i \in Jobs : ks[i] = IF i = j THEN k ELSE key[i]
  BY <1>1 DEF Statuses, Places
<1>4. Queue!GoesOn(st, ks, listener)
  BY <1>2
<1> HIDE DEF st, ks
<1>5. Cardinality({i \in Jobs : st[i] = "running"}) <= MaxRunning
  <2>1. {i \in Jobs : st[i] = "running"} = Queue!Running
    BY <1>2, <1>3 DEF Queue!Running
  <2> QED BY <1>1, <2>1
<1>6. /\ key' = ks /\ status' \in [Jobs -> Statuses] /\ stage' \in [Jobs -> Stages]
      /\ listener' \in [Jobs -> Listeners]
      /\ \A i \in Jobs : /\ st[i] # "queued" => status'[i] = st[i]
                         /\ st[i] = "queued" => status'[i] \in {"queued", "running"}
                         /\ stage'[i] # "none" <=> status'[i] = "running"
                         /\ st[i] = "running" => stage'[i] = stage[i]
                         /\ st[i] # "queued" \/ status'[i] = "queued" => listener'[i] = listener[i]
                         /\ st[i] = "queued" /\ status'[i] = "running" =>
                              IF ks[i] \in Servers
                                THEN stage'[i] = "subscribing" /\ listener'[i] = "asked"
                                ELSE stage'[i] = "executing" /\ listener'[i] = listener[i]
      /\ Queue!WaitsForARunningJob' /\ (Cardinality(Queue!Running) <= MaxRunning)'
  <2>1. /\ \A i \in Jobs : st[i] = "running" => stage[i] # "none"
        /\ \A i, m \in Jobs : st[i] = "running" /\ st[m] = "running" /\ ks[i] = ks[m] => i = m
    BY <1>1, <1>2, <1>3
  <2> QED BY <1>1, <1>3, <1>4, <1>5, <2>1, WindowGoesOn
<1>7. CallsFollow'
  <2>1. ASSUME NEW i \in Jobs
        PROVE  /\ "start" \in net'[i] => work'[i] = "none"
               /\ reply'[i] # "none" => work'[i] = "over"
               /\ stage'[i] = "subscribing" \/ status'[i] \in {"none", "queued"} \/ ~Queue!Sftp(i)' =>
                    work'[i] = "none" /\ "start" \notin net'[i]
               /\ stage'[i] = "subscribing" => Queue!Sftp(i)'
               /\ listener'[i] = "on" => stage'[i] = "executing"
    <3>1. /\ "start" \in net'[i] => work'[i] = "none"
          /\ reply'[i] # "none" => work'[i] = "over"
      BY <1>1, <1>2 DEF CallsFollow
    <3>2. Queue!Sftp(i)' <=> ks[i] \in Servers
      BY <1>6 DEF Queue!Sftp
    <3>3. CASE st[i] = "queued"
      <4>1. status[i] \in {"none", "queued"}
        BY <1>2, <1>3, <3>3
      <4>2. work[i] = "none" /\ "start" \notin net[i] /\ (listener[i] = "on" => FALSE)
        BY <1>1, <4>1 DEF CallsFollow
      <4>3. stage'[i] = "subscribing" => Queue!Sftp(i)'
        BY <1>6, <3>2, <3>3
      <4>4. listener'[i] = "on" => FALSE
        BY <1>6, <3>3, <4>2
      <4> QED BY <1>2, <3>1, <4>2, <4>3, <4>4
    <3>4. CASE st[i] # "queued"
      <4>1. /\ i # j /\ status'[i] = status[i] /\ listener'[i] = listener[i] /\ ks[i] = key[i]
            /\ st[i] = status[i]
        BY <1>3, <1>6, <3>4
      <4>2. stage'[i] # "none" => stage'[i] = stage[i]
        BY <1>6, <4>1
      <4>3. listener[i] = "on" => stage[i] = "executing" /\ status[i] = "running"
        BY <1>1 DEF CallsFollow
      <4>4. listener'[i] = "on" => stage'[i] = "executing"
        BY <1>6, <4>1, <4>3
      <4> QED BY <1>1, <1>2, <3>1, <3>2, <4>1, <4>2, <4>4 DEF CallsFollow, Queue!Sftp
    <3> QED BY <3>3, <3>4
  <2> QED BY <2>1 DEF CallsFollow
<1>8. Queue!EndedLeavesNothing'
  <2>1. ASSUME NEW i \in Jobs, status'[i] \in {"done", "error", "cancelled"}
        PROVE  /\ listener'[i] # "on"
               /\ work'[i] = "running" => jobToken'[i] \/ "cancel" \in net'[i]
               /\ "start" \in net'[i] => i \in DOMAIN jobMarks' \/ "cancel" \in net'[i]
    <3>1. listener'[i] # "on"
      BY <1>6, <1>7, <2>1 DEF CallsFollow
    <3>2. status[i] = status'[i]
      BY <1>3, <1>6, <2>1
    <3>3. /\ work[i] = "running" => jobToken[i] \/ "cancel" \in net[i]
          /\ "start" \in net[i] => i \in DOMAIN jobMarks \/ "cancel" \in net[i]
      BY <2>1, <3>2 DEF QueueInvariant, Queue!EndedLeavesNothing, Queue!Ended, Queue!IsMarked
    <3> QED BY <1>2, <3>1, <3>3
  <2> QED BY <2>1 DEF Queue!EndedLeavesNothing, Queue!Ended, Queue!IsMarked
<1>9. Queue!RegistryTypes' /\ Distinct(jobMarks)' /\ Ranked(jobMarks)' /\ ActiveJobsWork'
  BY <1>1, <1>2 DEF Queue!RegistryTypes, Distinct, Ranked, ActiveJobsWork
<1>10. /\ key' \in [Jobs -> Places] /\ net' \in [Jobs -> SUBSET {"start", "cancel"}]
       /\ work' \in [Jobs -> {"none", "running", "over"}] /\ reply' \in [Jobs -> {"none", "ok", "error"}]
  BY <1>1, <1>2, <1>3, <1>6
<1> QED BY <1>6, <1>7, <1>8, <1>9, <1>10, QueueKept

(* The steps of the backend and of the window that start nothing.                *)
LEMMA WindowStays ==
  ASSUME QueueInvariant, UNCHANGED <<key, jobActive, jobMarks, jobToken, work>>,
         NEW j \in Jobs,
         \/ /\ status[j] = "queued" /\ status' = [status EXCEPT ![j] = "cancelled"]
            /\ UNCHANGED <<stage, listener, net, reply>>
         \/ /\ stage[j] = "subscribing"
            /\ listener' = [listener EXCEPT ![j] = "on"] /\ stage' = [stage EXCEPT ![j] = "executing"]
            /\ net' = [net EXCEPT ![j] = net[j] \cup {"start"}] /\ UNCHANGED <<status, reply>>
         \/ listener' = [listener EXCEPT ![j] = "off"] /\ UNCHANGED <<status, stage, net, reply>>
         \/ reply' = [reply EXCEPT ![j] = "none"] /\ UNCHANGED <<status, stage, listener, net>>
  PROVE  QueueInvariant'
<1>1. /\ key \in [Jobs -> Places] /\ status \in [Jobs -> Statuses] /\ stage \in [Jobs -> Stages]
      /\ listener \in [Jobs -> Listeners] /\ net \in [Jobs -> SUBSET {"start", "cancel"}]
      /\ work \in [Jobs -> {"none", "running", "over"}] /\ reply \in [Jobs -> {"none", "ok", "error"}]
      /\ jobToken \in [Jobs -> BOOLEAN]
      /\ \A i \in Jobs : stage[i] # "none" <=> status[i] = "running"
      /\ Cardinality(Queue!Running) <= MaxRunning
      /\ Queue!RegistryTypes /\ Distinct(jobMarks) /\ Ranked(jobMarks)
      /\ ActiveJobsWork /\ CallsFollow
  BY QueueFacts
<1>2. Queue!WaitsForARunningJob /\ Queue!EndedLeavesNothing
  BY DEF QueueInvariant
<1>3. \A i \in Jobs : status'[i] = status[i] \/ (status[i] = "queued" /\ status'[i] = "cancelled")
  BY <1>1
<1>4. Queue!Running' = Queue!Running
  BY <1>3 DEF Queue!Running
<1>5. Queue!WaitsForARunningJob' /\ (Cardinality(Queue!Running) <= MaxRunning)'
  BY <1>1, <1>2, <1>3, <1>4, QueueCounts DEF Queue!WaitsForARunningJob
<1>6. /\ status' \in [Jobs -> Statuses] /\ stage' \in [Jobs -> Stages]
      /\ listener' \in [Jobs -> Listeners] /\ net' \in [Jobs -> SUBSET {"start", "cancel"}]
      /\ reply' \in [Jobs -> {"none", "ok", "error"}]
      /\ \A i \in Jobs : stage'[i] # "none" <=> status'[i] = "running"
  BY <1>1 DEF Statuses, Stages, Listeners
<1>7. \A i \in Jobs : Queue!Sftp(i)' <=> Queue!Sftp(i)
  BY DEF Queue!Sftp
<1>8. ASSUME NEW i \in Jobs
      PROVE  /\ i # j => /\ status'[i] = status[i] /\ stage'[i] = stage[i] /\ listener'[i] = listener[i]
                         /\ net'[i] = net[i] /\ reply'[i] = reply[i]
             /\ "start" \in net'[i] => "start" \in net[i] \/ stage[i] = "subscribing"
             /\ stage[i] = "subscribing" => work[i] = "none" /\ "start" \notin net[i] /\ Queue!Sftp(i)
             /\ reply'[i] # "none" => reply[i] # "none"
             /\ "cancel" \in net[i] => "cancel" \in net'[i]
             /\ status'[i] \in {"none", "queued"} => status[i] = status'[i] /\ "start" \notin net'[i]
             /\ stage'[i] = "subscribing" => stage[i] = "subscribing" /\ net'[i] = net[i]
             /\ listener'[i] = "on" => stage'[i] = "executing"
  BY <1>1 DEF CallsFollow
<1>9. CallsFollow'
  <2>1. ASSUME NEW i \in Jobs
        PROVE  /\ "start" \in net'[i] => work'[i] = "none"
               /\ reply'[i] # "none" => work'[i] = "over"
               /\ stage'[i] = "subscribing" \/ status'[i] \in {"none", "queued"} \/ ~Queue!Sftp(i)' =>
                    work'[i] = "none" /\ "start" \notin net'[i]
               /\ stage'[i] = "subscribing" => Queue!Sftp(i)'
               /\ listener'[i] = "on" => stage'[i] = "executing"
    BY <1>1, <1>7, <1>8 DEF CallsFollow
  <2> QED BY <2>1 DEF CallsFollow
<1>10. Queue!EndedLeavesNothing'
  <2>1. ASSUME NEW i \in Jobs, status'[i] \in {"done", "error", "cancelled"}
        PROVE  /\ listener'[i] # "on"
               /\ work'[i] = "running" => jobToken'[i] \/ "cancel" \in net'[i]
               /\ "start" \in net'[i] => i \in DOMAIN jobMarks' \/ "cancel" \in net'[i]
    <3>1. listener'[i] # "on"
      BY <1>6, <1>8, <2>1
    <3>2. CASE status[i] = "queued"
      BY <1>1, <1>8, <2>1, <3>1, <3>2 DEF CallsFollow
    <3>3. CASE status[i] = status'[i]
      <4>1. stage[i] # "subscribing"
        BY <1>1, <2>1, <3>3
      <4>2. /\ work[i] = "running" => jobToken[i] \/ "cancel" \in net[i]
            /\ "start" \in net[i] => i \in DOMAIN jobMarks \/ "cancel" \in net[i]
        BY <1>2, <2>1, <3>3 DEF Queue!EndedLeavesNothing, Queue!Ended, Queue!IsMarked
      <4> QED BY <1>8, <3>1, <4>1, <4>2
    <3> QED BY <1>3, <3>2, <3>3
  <2> QED BY <2>1 DEF Queue!EndedLeavesNothing, Queue!Ended, Queue!IsMarked
<1>11. Queue!RegistryTypes' /\ Distinct(jobMarks)' /\ Ranked(jobMarks)' /\ ActiveJobsWork'
  BY <1>1 DEF Queue!RegistryTypes, Distinct, Ranked, ActiveJobsWork
<1> QED BY <1>1, <1>5, <1>6, <1>9, <1>10, <1>11, QueueKept

(* The marks that are left have as many newer ones at most as there are others.     *)
LEMMA StaysRanked ==
  ASSUME NEW m, m \in [DOMAIN m -> Nat], Distinct(m), Ranked(m), IsFiniteSet(DOMAIN m), NEW id, NEW w,
         w = [i \in DOMAIN m \ {id} |->
                IF id \in DOMAIN m /\ m[i] > m[id] THEN m[i] - 1 ELSE m[i]]
  PROVE  Ranked(w)
<1>1. DOMAIN w = DOMAIN m \ {id}
  OBVIOUS
<1>2. Cardinality(DOMAIN m) \in Nat
  BY FS_CardinalityType
<1>3. CASE id \in DOMAIN m
  <2>1. Cardinality(DOMAIN m \ {id}) = Cardinality(DOMAIN m) - 1
    BY <1>3, FS_RemoveElement
  <2>2. \A i \in DOMAIN w : /\ m[i] \in Nat /\ m[i] # m[id] /\ m[id] \in Nat
                            /\ w[i] = IF m[i] > m[id] THEN m[i] - 1 ELSE m[i]
                            /\ m[i] < Cardinality(DOMAIN m) /\ m[id] < Cardinality(DOMAIN m)
    BY <1>1, <1>3 DEF Distinct, Ranked
  <2>3. \A i \in DOMAIN w : w[i] < Cardinality(DOMAIN m) - 1
    BY <1>2, <2>2
  <2> QED BY <1>1, <2>1, <2>3 DEF Ranked
<1>4. CASE id \notin DOMAIN m
  <2>1. w = m
    BY <1>4
  <2> QED BY <2>1
<1> QED BY <1>3, <1>4

(* The marks of the backend's registry, when a command of a job takes its own.    *)
LEMMA JobUnmarks ==
  ASSUME Queue!RegistryTypes, Distinct(jobMarks), Ranked(jobMarks), NEW j, jobMarks' = Queue!Without(j)
  PROVE  /\ DOMAIN jobMarks' = DOMAIN jobMarks \ {j} /\ DOMAIN jobMarks' \subseteq Jobs
         /\ jobMarks' \in [DOMAIN jobMarks' -> 0 .. JobMarks - 1]
         /\ Cardinality(DOMAIN jobMarks') <= JobMarks
         /\ Distinct(jobMarks') /\ Ranked(jobMarks')
<1> DEFINE w == Queue!Without(j)
<1>1. jobMarks \in [DOMAIN jobMarks -> Nat]
  BY DEF Queue!RegistryTypes
<1>2. (\A i \in DOMAIN jobMarks : jobMarks[i] < JobMarks) /\ DOMAIN jobMarks \subseteq Jobs
  BY DEF Queue!RegistryTypes
<1>3. w = [i \in DOMAIN jobMarks \ {j} |->
             IF j \in DOMAIN jobMarks /\ jobMarks[i] > jobMarks[j] THEN jobMarks[i] - 1 ELSE jobMarks[i]]
  BY DEF Queue!Without, Queue!IsMarked
<1> HIDE DEF w
<1>4. /\ DOMAIN w = DOMAIN jobMarks \ {j} /\ w \in [DOMAIN w -> Nat] /\ Distinct(w)
      /\ \A i \in DOMAIN w : w[i] <= jobMarks[i]
  BY <1>1, <1>3, Removing
<1>5. w \in [DOMAIN w -> 0 .. JobMarks - 1]
  BY <1>1, <1>2, <1>4
<1>6. Cardinality(DOMAIN w) <= JobMarks
  BY <1>4, <1>5, FewMarks
<1>7. IsFiniteSet(DOMAIN jobMarks)
  BY <1>2, FS_Subset
<1>8. Ranked(w)
  BY <1>1, <1>3, <1>7, StaysRanked
<1>9. jobMarks' = w
  BY DEF w
<1> QED BY <1>2, <1>4, <1>5, <1>6, <1>8, <1>9

(* A cancel that finds no command marks the job, and forgets nothing.              *)
LEMMA JobMarked ==
  ASSUME Queue!RegistryTypes, Distinct(jobMarks), Ranked(jobMarks), NEW j \in Jobs,
         ~Queue!IsActive(j), Queue!Cancel(j)
  PROVE  /\ UNCHANGED <<jobActive, jobToken>>
         /\ DOMAIN jobMarks' = DOMAIN jobMarks \cup {j} /\ DOMAIN jobMarks' \subseteq Jobs
         /\ jobMarks' \in [DOMAIN jobMarks' -> 0 .. JobMarks - 1]
         /\ Cardinality(DOMAIN jobMarks') <= JobMarks
         /\ Distinct(jobMarks') /\ Ranked(jobMarks')
<1> DEFINE w == Queue!Without(j)
           k == Queue!Marked(j)
<1>1. jobMarks \in [DOMAIN jobMarks -> Nat]
  BY DEF Queue!RegistryTypes
<1>2. DOMAIN jobMarks \subseteq Jobs
  BY DEF Queue!RegistryTypes
<1>3. w = [i \in DOMAIN jobMarks \ {j} |->
             IF j \in DOMAIN jobMarks /\ jobMarks[i] > jobMarks[j] THEN jobMarks[i] - 1 ELSE jobMarks[i]]
  BY DEF Queue!Without, Queue!IsMarked
<1>4. k = [i \in DOMAIN jobMarks \cup {j} |-> IF i = j THEN 0 ELSE w[i] + 1]
  BY DEF Queue!Marked
<1>5. Queue!Forgotten(j) = {i \in DOMAIN k : k[i] >= JobMarks}
  BY DEF Queue!Forgotten
<1>6. jobMarks' = [i \in DOMAIN k \ Queue!Forgotten(j) |-> k[i]] /\ UNCHANGED <<jobActive, jobToken>>
  BY DEF Queue!Cancel
<1> HIDE DEF w, k
<1>7. DOMAIN w = DOMAIN jobMarks \ {j} /\ w \in [DOMAIN w -> Nat] /\ Distinct(w)
  BY <1>1, <1>3, Removing
<1>8. IsFiniteSet(DOMAIN jobMarks)
  BY <1>2, FS_Subset
<1>9. Ranked(w)
  BY <1>1, <1>3, <1>8, StaysRanked
<1>10. DOMAIN k = DOMAIN w \cup {j} /\ k[j] = 0 /\ \A i \in DOMAIN w : k[i] = w[i] + 1
  BY <1>4, <1>7
<1>11. j \notin DOMAIN w
  BY <1>7
<1>12. (\A i \in DOMAIN k : k[i] \in Nat) /\ Distinct(k)
  BY <1>7, <1>10, <1>11, Marking
<1>13. IsFiniteSet(DOMAIN w) /\ Cardinality(DOMAIN w) \in Nat
  <2>1. IsFiniteSet(DOMAIN jobMarks \ {j})
    BY <1>8, FS_Subset
  <2> QED BY <1>7, <2>1, FS_CardinalityType
<1>14. Cardinality(DOMAIN k) = Cardinality(DOMAIN w) + 1
  <2>1. Cardinality(DOMAIN w \cup {j}) = Cardinality(DOMAIN w) + 1
    BY <1>11, <1>13, FS_AddElement
  <2> QED BY <1>10, <2>1
<1>15. DOMAIN k \subseteq Jobs
  BY <1>2, <1>7, <1>10
<1>16. Cardinality(DOMAIN k) <= JobMarks
  <2>1. Cardinality(DOMAIN k) <= Cardinality(Jobs) /\ Cardinality(DOMAIN k) \in Nat /\ Cardinality(Jobs) \in Nat
    BY <1>15, FS_Subset, FS_CardinalityType
  <2> QED BY <2>1
<1>17. \A i \in DOMAIN k : k[i] < Cardinality(DOMAIN k)
  <2>1. \A i \in DOMAIN w : w[i] \in Nat /\ w[i] < Cardinality(DOMAIN w)
    BY <1>7, <1>9 DEF Ranked
  <2>2. \A i \in DOMAIN w : k[i] < Cardinality(DOMAIN w) + 1
    BY <1>10, <1>13, <2>1
  <2>3. k[j] < Cardinality(DOMAIN w) + 1
    BY <1>10, <1>13
  <2> QED BY <1>10, <1>14, <2>2, <2>3
<1>18. \A i \in DOMAIN k : k[i] < JobMarks
  BY <1>12, <1>13, <1>14, <1>16, <1>17
<1>19. Queue!Forgotten(j) = {}
  BY <1>5, <1>12, <1>18
<1>20. DOMAIN jobMarks' = DOMAIN k /\ \A i \in DOMAIN k : jobMarks'[i] = k[i]
  BY <1>6, <1>19
<1>21. jobMarks' \in [DOMAIN jobMarks' -> 0 .. JobMarks - 1]
  <2>1. \A i \in DOMAIN k : k[i] \in 0 .. JobMarks - 1
    BY <1>12, <1>18
  <2> QED BY <1>6, <1>20, <2>1
<1>22. Distinct(jobMarks') /\ Ranked(jobMarks')
  BY <1>12, <1>17, <1>20 DEF Distinct, Ranked
<1>23. DOMAIN k = DOMAIN jobMarks \cup {j}
  BY <1>7, <1>10
<1> QED BY <1>6, <1>15, <1>16, <1>20, <1>21, <1>22, <1>23

(* The backend serves a call of a job, or its command is over.                    *)
LEMMA BackendServes ==
  ASSUME QueueInvariant, NEW j \in Jobs,
         Queue!ServeStart(j) \/ Queue!ServeCancel(j) \/ Queue!WorkEnds(j)
  PROVE  QueueInvariant'
<1>1. /\ key \in [Jobs -> Places] /\ status \in [Jobs -> Statuses] /\ stage \in [Jobs -> Stages]
      /\ listener \in [Jobs -> Listeners] /\ net \in [Jobs -> SUBSET {"start", "cancel"}]
      /\ work \in [Jobs -> {"none", "running", "over"}] /\ reply \in [Jobs -> {"none", "ok", "error"}]
      /\ jobToken \in [Jobs -> BOOLEAN]
      /\ \A i \in Jobs : stage[i] # "none" <=> status[i] = "running"
      /\ Cardinality(Queue!Running) <= MaxRunning
      /\ Queue!RegistryTypes /\ Distinct(jobMarks) /\ Ranked(jobMarks)
      /\ ActiveJobsWork /\ CallsFollow
  BY QueueFacts
<1>2. Queue!WaitsForARunningJob /\ Queue!EndedLeavesNothing
  BY DEF QueueInvariant
<1>3. UNCHANGED <<key, status, stage, listener>>
  BY DEF Queue!ServeStart, Queue!ServeCancel, Queue!WorkEnds, Queue!window
<1>4. /\ Queue!WaitsForARunningJob' /\ (Cardinality(Queue!Running) <= MaxRunning)'
      /\ \A i \in Jobs : Queue!Sftp(i)' <=> Queue!Sftp(i)
  BY <1>1, <1>2, <1>3 DEF Queue!WaitsForARunningJob, Queue!Running, Queue!Sftp
<1>5. \A i \in Jobs : status[i] \in {"done", "error", "cancelled"} =>
        /\ listener[i] # "on"
        /\ work[i] = "running" => jobToken[i] \/ "cancel" \in net[i]
        /\ "start" \in net[i] => i \in DOMAIN jobMarks \/ "cancel" \in net[i]
  BY <1>2 DEF Queue!EndedLeavesNothing, Queue!Ended, Queue!IsMarked
<1>6. jobActive \subseteq [id : Jobs, call : Jobs]
  BY <1>1 DEF Queue!RegistryTypes
<1>7. \A i \in Jobs : Queue!IsActive(i) <=> work[i] = "running"
  <2>1. ASSUME NEW i \in Jobs, Queue!IsActive(i)
        PROVE  work[i] = "running"
    <3>1. PICK e \in jobActive : e.id = i
      BY <2>1 DEF Queue!IsActive
    <3>2. e.call \in Jobs /\ e = [id |-> i, call |-> e.call]
      BY <1>6, <3>1
    <3> QED BY <1>1, <3>1, <3>2 DEF ActiveJobsWork
  <2>2. ASSUME NEW i \in Jobs, work[i] = "running"
        PROVE  Queue!IsActive(i)
    <3>1. [id |-> i, call |-> i] \in jobActive /\ [id |-> i, call |-> i].id = i
      BY <1>1, <2>2 DEF ActiveJobsWork
    <3> QED BY <3>1 DEF Queue!IsActive
  <2> QED BY <2>1, <2>2
<1>8. CASE Queue!ServeStart(j)
  <2>1. /\ "start" \in net[j] /\ ~Queue!IsActive(j)
        /\ jobActive' = jobActive \cup {[id |-> i, call |-> j] : i \in {j} \ {0}}
        /\ jobToken' = [jobToken EXCEPT ![j] = Queue!IsMarked(j)]
        /\ jobMarks' = Queue!Without(j)
        /\ net' = [net EXCEPT ![j] = net[j] \ {"start"}]
        /\ work' = [work EXCEPT ![j] = "running"] /\ reply' = reply
    BY <1>8 DEF Queue!ServeStart, Queue!Enter
  <2>2. /\ DOMAIN jobMarks' = DOMAIN jobMarks \ {j} /\ DOMAIN jobMarks' \subseteq Jobs
        /\ jobMarks' \in [DOMAIN jobMarks' -> 0 .. JobMarks - 1]
        /\ Cardinality(DOMAIN jobMarks') <= JobMarks
        /\ Distinct(jobMarks)' /\ Ranked(jobMarks)'
    BY <1>1, <2>1, JobUnmarks DEF Distinct, Ranked
  <2>3. j # 0 /\ jobActive' = jobActive \cup {[id |-> j, call |-> j]}
    BY <2>1, FS_CardinalityType
  <2>4. jobToken' \in [Jobs -> BOOLEAN] /\ \A i \in Jobs : i # j => jobToken'[i] = jobToken[i]
    BY <1>1, <2>1 DEF Queue!IsMarked
  <2>5. jobToken'[j] <=> j \in DOMAIN jobMarks
    BY <1>1, <2>1 DEF Queue!IsMarked
  <2>6. /\ net' \in [Jobs -> SUBSET {"start", "cancel"}] /\ work' \in [Jobs -> {"none", "running", "over"}]
        /\ \A i \in Jobs : i # j => net'[i] = net[i] /\ work'[i] = work[i]
        /\ "start" \notin net'[j] /\ work'[j] = "running"
        /\ "cancel" \in net'[j] <=> "cancel" \in net[j]
    BY <1>1, <2>1
  <2>7. Queue!RegistryTypes'
    <3>1. jobActive' \subseteq [id : Jobs, call : Jobs]
      BY <1>6, <2>3
    <3> QED BY <2>2, <2>4, <3>1, QueueCounts DEF Queue!RegistryTypes
  <2>8. ActiveJobsWork'
    <3>1. \A i, m \in Jobs : [id |-> i, call |-> m] = [id |-> j, call |-> j] <=> i = j /\ m = j
      OBVIOUS
    <3>2. \A i, m \in Jobs : [id |-> i, call |-> m] \in jobActive <=> i = m /\ work[m] = "running"
      BY <1>1 DEF ActiveJobsWork
    <3>3. \A i, m \in Jobs : [id |-> i, call |-> m] \in jobActive' <=>
                                [id |-> i, call |-> m] \in jobActive \/ (i = j /\ m = j)
      BY <2>3, <3>1
    <3>4. \A i, m \in Jobs : [id |-> i, call |-> m] \in jobActive' <=> i = m /\ work'[m] = "running"
      BY <2>6, <3>2, <3>3
    <3> QED BY <3>4 DEF ActiveJobsWork
  <2>9. work[j] = "none" /\ reply[j] = "none" /\ Queue!Sftp(j) /\ stage[j] # "subscribing"
        /\ status[j] \notin {"none", "queued"}
    BY <1>1, <2>1 DEF CallsFollow
  <2>10. CallsFollow'
    <3>1. ASSUME NEW i \in Jobs
          PROVE  /\ "start" \in net'[i] => work'[i] = "none"
                 /\ reply'[i] # "none" => work'[i] = "over"
                 /\ stage'[i] = "subscribing" \/ status'[i] \in {"none", "queued"} \/ ~Queue!Sftp(i)' =>
                      work'[i] = "none" /\ "start" \notin net'[i]
                 /\ stage'[i] = "subscribing" => Queue!Sftp(i)'
                 /\ listener'[i] = "on" => stage'[i] = "executing"
      <4>1. CASE i = j
        BY <1>1, <1>3, <1>4, <2>1, <2>6, <2>9, <4>1 DEF CallsFollow
      <4>2. CASE i # j
        BY <1>1, <1>3, <1>4, <2>1, <2>6, <4>2 DEF CallsFollow
      <4> QED BY <4>1, <4>2
    <3> QED BY <3>1 DEF CallsFollow
  <2>11. Queue!EndedLeavesNothing'
    <3>1. ASSUME NEW i \in Jobs, status'[i] \in {"done", "error", "cancelled"}
          PROVE  /\ listener'[i] # "on"
                 /\ work'[i] = "running" => jobToken'[i] \/ "cancel" \in net'[i]
                 /\ "start" \in net'[i] => i \in DOMAIN jobMarks' \/ "cancel" \in net'[i]
      <4>1. CASE i = j
        BY <1>3, <1>5, <2>1, <2>5, <2>6, <3>1, <4>1
      <4>2. CASE i # j
        BY <1>3, <1>5, <2>2, <2>4, <2>6, <3>1, <4>2
      <4> QED BY <4>1, <4>2
    <3> QED BY <3>1 DEF Queue!EndedLeavesNothing, Queue!Ended, Queue!IsMarked
  <2> QED BY <1>1, <1>3, <1>4, <2>1, <2>2, <2>6, <2>7, <2>8, <2>10, <2>11, QueueKept
<1>9. CASE Queue!ServeCancel(j)
  <2>1. /\ "cancel" \in net[j] /\ Queue!Cancel(j) /\ UNCHANGED <<work, reply>>
        /\ net' = [net EXCEPT ![j] = net[j] \ {"cancel"}]
    BY <1>9 DEF Queue!ServeCancel
  <2>2. /\ net' \in [Jobs -> SUBSET {"start", "cancel"}]
        /\ \A i \in Jobs : i # j => net'[i] = net[i]
        /\ "start" \in net'[j] <=> "start" \in net[j]
    BY <1>1, <2>1
  <2>3. CallsFollow'
    <3>1. \A i \in Jobs : "start" \in net'[i] <=> "start" \in net[i]
      BY <2>2
    <3> QED BY <1>1, <1>3, <1>4, <2>1, <3>1 DEF CallsFollow
  <2>4. CASE Queue!IsActive(j)
    <3>1. /\ jobToken' = [i \in Jobs |-> jobToken[i] \/ [id |-> j, call |-> i] \in jobActive]
          /\ UNCHANGED <<jobActive, jobMarks>>
      BY <2>1, <2>4 DEF Queue!Cancel
    <3>2. work[j] = "running" /\ \A i \in Jobs : [id |-> j, call |-> i] \in jobActive <=> i = j
      BY <1>1, <1>7, <2>4 DEF ActiveJobsWork
    <3>3. jobToken' = [i \in Jobs |-> jobToken[i] \/ i = j]
      BY <3>1, <3>2
    <3>4. jobToken' \in [Jobs -> BOOLEAN] /\ \A i \in Jobs : jobToken'[i] <=> jobToken[i] \/ i = j
      BY <1>1, <3>3
    <3>5. Queue!RegistryTypes' /\ Distinct(jobMarks)' /\ Ranked(jobMarks)' /\ ActiveJobsWork'
      BY <1>1, <2>1, <3>1, <3>4 DEF Queue!RegistryTypes, Distinct, Ranked, ActiveJobsWork
    <3>6. "start" \notin net[j]
      BY <1>1, <3>2 DEF CallsFollow
    <3>7. ASSUME NEW i \in Jobs, status'[i] \in {"done", "error", "cancelled"}
          PROVE  /\ listener'[i] # "on"
                 /\ work'[i] = "running" => jobToken'[i] \/ "cancel" \in net'[i]
                 /\ "start" \in net'[i] => i \in DOMAIN jobMarks' \/ "cancel" \in net'[i]
      BY <1>3, <1>5, <2>1, <2>2, <3>1, <3>4, <3>6, <3>7
    <3>8. Queue!EndedLeavesNothing'
      BY <3>7 DEF Queue!EndedLeavesNothing, Queue!Ended, Queue!IsMarked
    <3> QED BY <1>1, <1>3, <1>4, <2>1, <2>2, <2>3, <3>5, <3>8, QueueKept
  <2>5. CASE ~Queue!IsActive(j)
    <3>1. /\ UNCHANGED <<jobActive, jobToken>>
          /\ DOMAIN jobMarks' = DOMAIN jobMarks \cup {j} /\ DOMAIN jobMarks' \subseteq Jobs
          /\ jobMarks' \in [DOMAIN jobMarks' -> 0 .. JobMarks - 1]
          /\ Cardinality(DOMAIN jobMarks') <= JobMarks
          /\ Distinct(jobMarks') /\ Ranked(jobMarks')
      BY <1>1, <2>1, <2>5, JobMarked
    <3>2. Queue!RegistryTypes' /\ Distinct(jobMarks)' /\ Ranked(jobMarks)' /\ ActiveJobsWork'
      BY <1>1, <2>1, <3>1, QueueCounts DEF Queue!RegistryTypes, Distinct, Ranked, ActiveJobsWork
    <3>3. work[j] # "running"
      BY <1>7, <2>5
    <3>4. ASSUME NEW i \in Jobs, status'[i] \in {"done", "error", "cancelled"}
          PROVE  /\ listener'[i] # "on"
                 /\ work'[i] = "running" => jobToken'[i] \/ "cancel" \in net'[i]
                 /\ "start" \in net'[i] => i \in DOMAIN jobMarks' \/ "cancel" \in net'[i]
      BY <1>3, <1>5, <2>1, <2>2, <3>1, <3>3, <3>4
    <3>5. Queue!EndedLeavesNothing'
      BY <3>4 DEF Queue!EndedLeavesNothing, Queue!Ended, Queue!IsMarked
    <3> QED BY <1>1, <1>3, <1>4, <2>1, <2>2, <2>3, <3>2, <3>5, QueueKept
  <2> QED BY <2>4, <2>5
<1>10. CASE Queue!WorkEnds(j)
  <2>1. PICK answer_ \in {"ok", "error"} :
          /\ work[j] = "running" /\ work' = [work EXCEPT ![j] = "over"]
          /\ jobToken' = [jobToken EXCEPT ![j] = TRUE]
          /\ jobActive' = {e \in jobActive : e.call # j}
          /\ reply' = [reply EXCEPT ![j] = answer_] /\ UNCHANGED <<jobMarks, net>>
    BY <1>10 DEF Queue!WorkEnds, Queue!Leave
  <2>2. /\ work' \in [Jobs -> {"none", "running", "over"}] /\ reply' \in [Jobs -> {"none", "ok", "error"}]
        /\ jobToken' \in [Jobs -> BOOLEAN]
        /\ \A i \in Jobs : i # j => work'[i] = work[i] /\ reply'[i] = reply[i] /\ jobToken'[i] = jobToken[i]
        /\ work'[j] = "over"
    BY <1>1, <2>1
  <2>3. ActiveJobsWork'
    <3>1. \A i, m \in Jobs : [id |-> i, call |-> m] \in jobActive' <=> [id |-> i, call |-> m] \in jobActive /\ m # j
      BY <2>1
    <3> QED BY <1>1, <2>2, <3>1 DEF ActiveJobsWork
  <2>4. Queue!RegistryTypes' /\ Distinct(jobMarks)' /\ Ranked(jobMarks)'
    BY <1>1, <2>1, <2>2 DEF Queue!RegistryTypes, Distinct, Ranked
  <2>5. "start" \notin net[j] /\ Queue!Sftp(j) /\ stage[j] # "subscribing" /\ status[j] \notin {"none", "queued"}
    BY <1>1, <2>1 DEF CallsFollow
  <2>6. CallsFollow'
    <3>1. ASSUME NEW i \in Jobs
          PROVE  /\ "start" \in net'[i] => work'[i] = "none"
                 /\ reply'[i] # "none" => work'[i] = "over"
                 /\ stage'[i] = "subscribing" \/ status'[i] \in {"none", "queued"} \/ ~Queue!Sftp(i)' =>
                      work'[i] = "none" /\ "start" \notin net'[i]
                 /\ stage'[i] = "subscribing" => Queue!Sftp(i)'
                 /\ listener'[i] = "on" => stage'[i] = "executing"
      <4>1. CASE i = j
        BY <1>1, <1>3, <1>4, <2>1, <2>2, <2>5, <4>1 DEF CallsFollow
      <4>2. CASE i # j
        BY <1>1, <1>3, <1>4, <2>1, <2>2, <4>2 DEF CallsFollow
      <4> QED BY <4>1, <4>2
    <3> QED BY <3>1 DEF CallsFollow
  <2>7. ASSUME NEW i \in Jobs, status'[i] \in {"done", "error", "cancelled"}
        PROVE  /\ listener'[i] # "on"
               /\ work'[i] = "running" => jobToken'[i] \/ "cancel" \in net'[i]
               /\ "start" \in net'[i] => i \in DOMAIN jobMarks' \/ "cancel" \in net'[i]
    BY <1>3, <1>5, <2>1, <2>2, <2>5, <2>7
  <2>8. Queue!EndedLeavesNothing'
    BY <2>7 DEF Queue!EndedLeavesNothing, Queue!Ended, Queue!IsMarked
  <2> QED BY <1>1, <1>3, <1>4, <2>1, <2>2, <2>3, <2>4, <2>6, <2>8, QueueKept
<1> QED BY <1>8, <1>9, <1>10

(* Every turn of the window and every call the backend serves.                    *)
LEMMA QueueStep ==
  ASSUME QueueInvariant, Queue!Next
  PROVE  QueueInvariant'
<1>1. /\ key \in [Jobs -> Places] /\ status \in [Jobs -> Statuses] /\ stage \in [Jobs -> Stages]
      /\ listener \in [Jobs -> Listeners] /\ net \in [Jobs -> SUBSET {"start", "cancel"}]
      /\ work \in [Jobs -> {"none", "running", "over"}] /\ reply \in [Jobs -> {"none", "ok", "error"}]
      /\ \A i \in Jobs : stage[i] # "none" <=> status[i] = "running"
      /\ CallsFollow
  BY QueueFacts
<1>2. ASSUME NEW j \in Jobs, NEW how \in {"done", "error", "cancelled"}, stage[j] # "none",
             Queue!Ends(j, how), UNCHANGED <<jobActive, jobMarks, jobToken, work>>,
             net' \in {net, Queue!Told(j)}, reply' \in {reply, [reply EXCEPT ![j] = "none"]},
             work[j] = "running" \/ "start" \in net[j] => net' = Queue!Told(j)
      PROVE  QueueInvariant'
  <2> DEFINE ls == [listener EXCEPT ![j] = IF listener[j] = "on" THEN "off" ELSE listener[j]]
  <2>1. ls \in [Jobs -> Listeners] /\ ls[j] # "on" /\ \A i \in Jobs \ {j} : ls[i] = listener[i]
    BY <1>1 DEF Listeners
  <2>2. Queue!GoesOn([status EXCEPT ![j] = how], key, ls) /\ status[j] = "running"
    BY <1>1, <1>2 DEF Queue!Ends
  <2> HIDE DEF ls
  <2> QED BY <1>2, <2>1, <2>2, JobEnds
<1>3. ASSUME NEW k \in Servers \cup Panes, Queue!Enqueue(k)
      PROVE  QueueInvariant'
  BY <1>3, JobIsQueued
<1>4. ASSUME NEW j \in Jobs, Queue!ListenAnswers(j)
      PROVE  QueueInvariant'
  <2>1. UNCHANGED <<key, jobActive, jobMarks, jobToken, work>> /\ UNCHANGED <<status, reply>>
    BY <1>4 DEF Queue!ListenAnswers, Queue!backend, Queue!registry
  <2>2. \/ /\ stage[j] = "subscribing"
           /\ listener' = [listener EXCEPT ![j] = "on"] /\ stage' = [stage EXCEPT ![j] = "executing"]
           /\ net' = [net EXCEPT ![j] = net[j] \cup {"start"}]
        \/ listener' = [listener EXCEPT ![j] = "off"] /\ UNCHANGED <<stage, net>>
    BY <1>4 DEF Queue!ListenAnswers, Queue!Answered
  <2> QED BY <2>1, <2>2, WindowStays
<1>5. ASSUME NEW j \in Jobs, Queue!ListenFails(j)
      PROVE  QueueInvariant'
  <2>1. UNCHANGED <<jobActive, jobMarks, jobToken, work>> /\ UNCHANGED <<net, reply>>
    BY <1>5 DEF Queue!ListenFails, Queue!backend, Queue!registry
  <2>2. CASE stage[j] = "subscribing"
    <3> DEFINE ls == [listener EXCEPT ![j] = "off"]
    <3>1. ls \in [Jobs -> Listeners] /\ ls[j] # "on" /\ \A i \in Jobs \ {j} : ls[i] = listener[i]
      BY <1>1 DEF Listeners
    <3>2. Queue!GoesOn([status EXCEPT ![j] = "error"], key, ls) /\ status[j] = "running"
      BY <1>1, <1>5, <2>2 DEF Queue!ListenFails
    <3>3. work[j] # "running" /\ "start" \notin net[j]
      BY <1>1, <2>2 DEF CallsFollow
    <3>4. net' \in {net, Queue!Told(j)} /\ reply' \in {reply, [reply EXCEPT ![j] = "none"]}
      BY <2>1
    <3> HIDE DEF ls
    <3> QED BY <2>1, <3>1, <3>2, <3>3, <3>4, JobEnds
  <2>3. CASE stage[j] # "subscribing"
    <3>1. listener' = [listener EXCEPT ![j] = "off"] /\ UNCHANGED <<key, status, stage>>
      BY <1>5, <2>3 DEF Queue!ListenFails
    <3> QED BY <2>1, <3>1, WindowStays
  <2> QED BY <2>2, <2>3
<1>6. ASSUME NEW j \in Jobs, Queue!CancelQueued(j)
      PROVE  QueueInvariant'
  <2>1. /\ UNCHANGED <<key, jobActive, jobMarks, jobToken, work>>
        /\ status[j] = "queued" /\ status' = [status EXCEPT ![j] = "cancelled"]
        /\ UNCHANGED <<stage, listener, net, reply>>
    BY <1>6 DEF Queue!CancelQueued, Queue!backend, Queue!registry
  <2> QED BY <2>1, WindowStays
<1>7. ASSUME NEW j \in Jobs, Queue!CancelRunning(j)
      PROVE  QueueInvariant'
  <2>1. /\ stage[j] # "none" /\ Queue!Ends(j, "cancelled")
        /\ UNCHANGED <<jobActive, jobMarks, jobToken, work>> /\ net' = Queue!Told(j) /\ reply' = reply
    BY <1>1, <1>7 DEF Queue!CancelRunning, Queue!backend, Queue!registry
  <2> QED BY <1>2, <2>1
<1>8. ASSUME NEW j \in Jobs, Queue!TimesOut(j)
      PROVE  QueueInvariant'
  <2>1. /\ stage[j] # "none" /\ Queue!Ends(j, "error")
        /\ UNCHANGED <<jobActive, jobMarks, jobToken, work>> /\ reply' = reply
        /\ net' = IF stage[j] = "executing" THEN Queue!Told(j) ELSE net
    BY <1>8 DEF Queue!TimesOut, Queue!backend, Queue!registry
  <2>2. work[j] = "running" \/ "start" \in net[j] => net' = Queue!Told(j)
    <3>1. stage[j] = "subscribing" => work[j] # "running" /\ "start" \notin net[j]
      BY <1>1 DEF CallsFollow
    <3>2. stage[j] \in {"none", "subscribing", "executing"}
      BY <1>1 DEF Stages
    <3> QED BY <2>1, <3>1, <3>2
  <2>3. net' \in {net, Queue!Told(j)}
    BY <2>1
  <2> QED BY <1>2, <2>1, <2>2, <2>3
<1>9. ASSUME NEW j \in Jobs, Queue!Replies(j)
      PROVE  QueueInvariant'
  <2>1. /\ reply[j] # "none" /\ reply' = [reply EXCEPT ![j] = "none"]
        /\ UNCHANGED <<jobActive, jobMarks, jobToken, work>> /\ net' = net
    BY <1>9 DEF Queue!Replies, Queue!backend, Queue!registry
  <2>2. CASE stage[j] = "executing"
    <3>1. PICK how \in {"done", "error", "cancelled"} : Queue!Ends(j, how)
      BY <1>9, <2>2 DEF Queue!Replies
    <3>2. work[j] # "running" /\ "start" \notin net[j]
      BY <1>1, <2>1 DEF CallsFollow
    <3>3. net' \in {net, Queue!Told(j)} /\ reply' \in {reply, [reply EXCEPT ![j] = "none"]}
      BY <2>1
    <3>4. stage[j] # "none"
      BY <2>2
    <3> QED BY <1>2, <2>1, <3>1, <3>2, <3>3, <3>4
  <2>3. CASE stage[j] # "executing"
    <3>1. UNCHANGED <<key, status, stage, listener>>
      BY <1>9, <2>3 DEF Queue!Replies, Queue!window
    <3> QED BY <2>1, <3>1, WindowStays
  <2> QED BY <2>2, <2>3
<1>10. ASSUME NEW j \in Jobs, Queue!TerminalEnds(j)
       PROVE  QueueInvariant'
  <2>1. /\ stage[j] = "executing" /\ ~Queue!Sftp(j)
        /\ \E how \in Queue!Ended : Queue!Ends(j, how)
        /\ UNCHANGED <<jobActive, jobMarks, jobToken, work>> /\ UNCHANGED <<net, reply>>
    BY <1>10 DEF Queue!TerminalEnds, Queue!backend, Queue!registry
  <2>2. PICK how \in {"done", "error", "cancelled"} : Queue!Ends(j, how)
    BY <2>1 DEF Queue!Ended
  <2>3. work[j] # "running" /\ "start" \notin net[j]
    BY <1>1, <2>1 DEF CallsFollow
  <2>4. net' \in {net, Queue!Told(j)} /\ reply' \in {reply, [reply EXCEPT ![j] = "none"]}
    BY <2>1
  <2>5. stage[j] # "none"
    BY <2>1
  <2> QED BY <1>2, <2>1, <2>2, <2>3, <2>4, <2>5
<1>11. ASSUME NEW j \in Jobs, Queue!ServeStart(j) \/ Queue!ServeCancel(j) \/ Queue!WorkEnds(j)
       PROVE  QueueInvariant'
  BY <1>11, BackendServes
<1> QED BY <1>3, <1>4, <1>5, <1>6, <1>7, <1>8, <1>9, <1>10, <1>11 DEF Queue!Next

(* Nothing is queued at first.                                                *)
LEMMA QueueBegins ==
  ASSUME Queue!Init
  PROVE  QueueInvariant
<1>1. /\ jobActive = {} /\ jobMarks = [j \in {} |-> 0] /\ jobToken = [j \in Jobs |-> FALSE]
      /\ key = [j \in Jobs |-> "nowhere"] /\ status = [j \in Jobs |-> "none"]
      /\ stage = [j \in Jobs |-> "none"] /\ listener = [j \in Jobs |-> "none"]
      /\ net = [j \in Jobs |-> {}] /\ work = [j \in Jobs |-> "none"] /\ reply = [j \in Jobs |-> "none"]
  BY DEF Queue!Init, Queue!RegistryInit
<1>2. DOMAIN jobMarks = {}
  BY <1>1
<1>3. Queue!Running = {} /\ Cardinality({}) = 0
  BY <1>1, FS_EmptySet DEF Queue!Running
<1>4. Queue!RegistryTypes
  <2>1. jobMarks \in [DOMAIN jobMarks -> 0 .. JobMarks - 1]
    BY <1>1, <1>2
  <2>2. Queue!Cardinality(DOMAIN jobMarks) <= JobMarks
    BY <1>2, <1>3, QueueCounts
  <2> QED BY <1>1, <1>2, <2>1, <2>2 DEF Queue!RegistryTypes
<1>5. Queue!TypeOK
  <2>1. Queue!Cardinality(Queue!Running) <= MaxRunning
    BY <1>3, QueueCounts
  <2> QED BY <1>1, <1>4, <2>1 DEF Queue!TypeOK
<1>6. Distinct(jobMarks) /\ Ranked(jobMarks)
  BY <1>2 DEF Distinct, Ranked
<1>7. ActiveJobsWork /\ CallsFollow
  BY <1>1 DEF ActiveJobsWork, CallsFollow
<1>8. Queue!EndedLeavesNothing /\ Queue!WaitsForARunningJob
  BY <1>1, <1>3 DEF Queue!EndedLeavesNothing, Queue!WaitsForARunningJob, Queue!Ended
<1> QED BY <1>5, <1>6, <1>7, <1>8 DEF QueueInvariant

-----------------------------------------------------------------------------
(* Operations over pooled connections.                                        *)

InHand == {"ready", "acting", "acted", "left"}
OpPlaces == {"idle", "take", "connect", "program", "done"} \cup InHand
OpResults == {"none", "ok", "final", "transport", "cancelled"}

EngineTypes ==
  /\ asked \in OpsAsked
  /\ at \in [Ops -> OpPlaces] /\ route \in [Ops -> 1 .. 2] /\ conn \in [Ops -> Nat]
  /\ pooled \in [Ops -> BOOLEAN] /\ result \in [Ops -> OpResults] /\ opAnswer \in [Ops -> OpResults]
  /\ began \in [Ops -> BOOLEAN] /\ effects \in [Ops -> Nat] /\ opToken \in [Ops -> BOOLEAN]
  /\ pool \in [Engine!Routes -> Nat] /\ stale \subseteq 1 .. MaxConns

(* An operation has a connection while it works on one and at no other time; the *)
(* route it is on is one of those it has there; it has answered when it is done; *)
(* a change was made at most once, and not before it was begun.                  *)
OpFits(o) ==
  /\ conn[o] # 0 <=> at[o] \in InHand
  /\ at[o] \in {"idle", "program"} => route[o] <= Len(Engine!Systems)
  /\ at[o] \in {"take", "connect"} \cup InHand => route[o] <= Len(Engine!Natives)
  /\ at[o] = "idle" => route[o] = 1
  /\ at[o] # "done" => opAnswer[o] = "none"
  /\ at[o] \in {"acted", "left"} => result[o] # "none"
  /\ Engine!Changes(o) =>
       /\ at[o] \notin {"acted", "left", "done"} => effects[o] = 0
       /\ at[o] \in {"acted", "left"} => /\ effects[o] <= 1
                                         /\ result[o] = "ok" => effects[o] = 1
                                         /\ result[o] = "final" => effects[o] = 0
       /\ at[o] = "done" => /\ effects[o] <= 1
                            /\ opAnswer[o] = "ok" => effects[o] = 1
                            /\ opAnswer[o] \in {"transport", "final"} /\ ~began[o] => effects[o] = 0

(* Every connection is one that was made, and is either one operation's or one    *)
(* route's; a watcher shuts those of cancelled operations only.                  *)
ConnsFit ==
  /\ made \in 0 .. MaxConns /\ shut \subseteq 1 .. made
  /\ \A o \in Ops : conn[o] <= made /\ (conn[o] \in shut => opToken[o])
  /\ \A r \in Engine!Routes : pool[r] <= made /\ pool[r] \notin shut
  /\ \A o, p \in Ops : conn[o] = conn[p] /\ conn[o] # 0 => o = p
  /\ \A r, s \in Engine!Routes : pool[r] = pool[s] /\ pool[r] # 0 => r = s
  /\ \A o \in Ops, r \in Engine!Routes : conn[o] = pool[r] => conn[o] = 0

EngineInvariant == EngineTypes /\ (\A o \in Ops : OpFits(o)) /\ ConnsFit

SftpInvariant == TaskInvariant /\ QueueInvariant /\ EngineInvariant

(* There is one route or there are two, and the pool knows them.                 *)
LEMMA RoutesAreFew ==
  ASSUME NEW a \in OpsAsked
  PROVE  /\ Len(Engine!AllRoutes(a[1], a[2])) \in 1 .. 2
         /\ \A i \in 1 .. Len(Engine!AllRoutes(a[1], a[2])) :
              Engine!AllRoutes(a[1], a[2])[i] \in Engine!Routes
         /\ Engine!NativeRoutes(a[1], a[2]) \in {Engine!AllRoutes(a[1], a[2]), <<>>}
<1> DEFINE c == Engine!Composite(a[1], a[2])
           e == Engine!Effective(a[1], a[2])
           all == Engine!AllRoutes(a[1], a[2])
<1>1. all = <<e>> \/ all = <<c, e>> \/ all = <<e, c>>
  BY DEF Engine!AllRoutes
<1>2. Engine!NativeRoutes(a[1], a[2]) \in {all, <<>>}
  BY DEF Engine!NativeRoutes
<1>3. Engine!ToSet(all) \subseteq Engine!Routes
  BY DEF Engine!Routes
<1>4. Engine!ToSet(all) = {all[i] : i \in DOMAIN all}
  BY DEF Engine!ToSet
<1> HIDE DEF all, c, e
<1>5. Len(all) \in 1 .. 2 /\ DOMAIN all = 1 .. Len(all)
  BY <1>1
<1>6. \A i \in 1 .. Len(all) : all[i] \in Engine!Routes
  BY <1>3, <1>4, <1>5
<1> QED BY <1>2, <1>5, <1>6 DEF all

(* The routes of the profile that is asked for.                                  *)
LEMMA RoutesHere ==
  ASSUME EngineTypes
  PROVE  /\ Len(Engine!Systems) \in 1 .. 2
         /\ Engine!Natives = <<>> \/ Engine!Natives = Engine!Systems
         /\ Len(Engine!Natives) \in 0 .. 2 /\ Len(Engine!Natives) <= Len(Engine!Systems)
         /\ \A i \in 1 .. Len(Engine!Natives) : Engine!Natives[i] \in Engine!Routes
         /\ Engine!Natives # <<>> => Len(Engine!Natives) \in 1 .. 2
<1>1. /\ Len(Engine!Systems) \in 1 .. 2
      /\ \A i \in 1 .. Len(Engine!Systems) : Engine!Systems[i] \in Engine!Routes
      /\ Engine!Natives = <<>> \/ Engine!Natives = Engine!Systems
  BY RoutesAreFew DEF Engine!Systems, Engine!Natives, EngineTypes
<1>2. Len(<<>>) = 0
  OBVIOUS
<1> QED BY <1>1, <1>2

(* What changes for one operation and for no other.                             *)
Only(o) ==
  \A p \in Ops \ {o} :
    /\ at'[p] = at[p] /\ route'[p] = route[p] /\ conn'[p] = conn[p] /\ result'[p] = result[p]
    /\ opAnswer'[p] = opAnswer[p] /\ began'[p] = began[p] /\ effects'[p] = effects[p]

(* What changes for one operation leaves the others as they were.                *)
LEMMA OthersFit ==
  ASSUME NEW o \in Ops, \A p \in Ops : OpFits(p), asked' = asked, Only(o), OpFits(o)'
  PROVE  (\A p \in Ops : OpFits(p))'
<1>1. /\ Len(Engine!Systems)' = Len(Engine!Systems) /\ Len(Engine!Natives)' = Len(Engine!Natives)
      /\ \A p : Engine!Changes(p)' <=> Engine!Changes(p)
  BY DEF Engine!Systems, Engine!Natives, Engine!Changes
<1>2. ASSUME NEW p \in Ops, p # o
      PROVE  OpFits(p)'
  BY <1>1, <1>2 DEF OpFits, Only
<1> QED BY <1>2

(* An attempt that failed.                                                      *)
LEMMA AttemptFails ==
  ASSUME EngineTypes, NEW o \in Ops, NEW class, NEW started \in BOOLEAN, class \in OpResults,
         Engine!Failed(o, class, started), at[o] \in InHand \cup {"connect"},
         route[o] <= Len(Engine!Natives)
  PROVE  /\ at' \in [Ops -> OpPlaces] /\ route' \in [Ops -> 1 .. 2] /\ conn' \in [Ops -> Nat]
         /\ opAnswer' \in [Ops -> OpResults] /\ began' \in [Ops -> BOOLEAN]
         /\ \A p \in Ops \ {o} : /\ at'[p] = at[p] /\ route'[p] = route[p] /\ conn'[p] = conn[p]
                                 /\ opAnswer'[p] = opAnswer[p] /\ began'[p] = began[p]
         /\ conn'[o] = 0
         /\ IF class = "transport" /\ ~started
              THEN /\ opAnswer'[o] = opAnswer[o] /\ began'[o] = began[o]
                   /\ \/ at'[o] = "take" /\ route'[o] <= Len(Engine!Natives)
                      \/ at'[o] = "program" /\ route'[o] = 1
              ELSE at'[o] = "done" /\ opAnswer'[o] = class /\ began'[o] = started
<1>1. /\ at \in [Ops -> OpPlaces] /\ route \in [Ops -> 1 .. 2] /\ conn \in [Ops -> Nat]
      /\ opAnswer \in [Ops -> OpResults] /\ began \in [Ops -> BOOLEAN]
  BY DEF EngineTypes
<1>2. Len(Engine!Natives) \in 0 .. 2
  BY RoutesHere
<1>3. CASE class = "transport" /\ ~started
  <2>1. conn' = [conn EXCEPT ![o] = 0] /\ opAnswer' = opAnswer /\ began' = began
    BY <1>3 DEF Engine!Failed, Engine!Elsewhere, Engine!NoConn
  <2>2. CASE route[o] < Len(Engine!Natives)
    <3>1. route' = [route EXCEPT ![o] = route[o] + 1] /\ at' = [at EXCEPT ![o] = "take"]
      BY <1>3, <2>2 DEF Engine!Failed, Engine!Elsewhere, Engine!Goto
    <3>2. route[o] + 1 \in 1 .. 2 /\ route[o] + 1 <= Len(Engine!Natives)
      <4>1. route[o] \in 1 .. 2
        BY <1>1
      <4>2. \A x \in 1 .. 2, n \in 0 .. 2 : x < n => x + 1 \in 1 .. 2 /\ x + 1 <= n
        OBVIOUS
      <4> QED BY <1>2, <2>2, <4>1, <4>2
    <3> QED BY <1>1, <1>3, <2>1, <3>1, <3>2 DEF OpPlaces
  <2>3. CASE ~(route[o] < Len(Engine!Natives))
    <3>1. route' = [route EXCEPT ![o] = 1] /\ at' = [at EXCEPT ![o] = "program"]
      BY <1>3, <2>3 DEF Engine!Failed, Engine!Elsewhere, Engine!Goto
    <3> QED BY <1>1, <1>3, <2>1, <3>1 DEF OpPlaces
  <2> QED BY <2>2, <2>3
<1>4. CASE ~(class = "transport" /\ ~started)
  <2>1. /\ at' = [at EXCEPT ![o] = "done"] /\ opAnswer' = [opAnswer EXCEPT ![o] = class]
        /\ conn' = [conn EXCEPT ![o] = 0] /\ began' = [began EXCEPT ![o] = started] /\ route' = route
    BY <1>4 DEF Engine!Failed, Engine!Elsewhere, Engine!Answer, Engine!Goto, Engine!NoConn
  <2> QED BY <1>1, <1>4, <2>1 DEF OpPlaces
<1> QED BY <1>3, <1>4

(* Connections that are given up, and tokens that are set.                       *)
LEMMA ConnsStay ==
  ASSUME EngineTypes, ConnsFit, made' = made, shut' = shut,
         \A p \in Ops : conn'[p] \in {0, conn[p]} /\ (opToken[p] => opToken'[p]),
         \A r \in Engine!Routes : pool'[r] \in {0, pool[r]}
  PROVE  ConnsFit'
<1>1. /\ made \in Nat /\ 0 \notin shut
      /\ \A p \in Ops : conn[p] \in Nat /\ \A r \in Engine!Routes : pool[r] \in Nat
  BY DEF EngineTypes, ConnsFit
<1> QED BY <1>1 DEF ConnsFit

(* The steps of an operation.                                                   *)
LEMMA OpMoves ==
  ASSUME EngineInvariant, NEW o \in Ops,
         \/ Engine!Begin(o) \/ Engine!Take(o) \/ Engine!Connect(o) \/ Engine!Start(o)
  PROVE  EngineInvariant'
<1>1. EngineTypes /\ OpFits(o) /\ ConnsFit /\ \A p \in Ops : OpFits(p)
  BY DEF EngineInvariant
<1>2. /\ asked \in OpsAsked
      /\ at \in [Ops -> OpPlaces] /\ route \in [Ops -> 1 .. 2] /\ conn \in [Ops -> Nat]
      /\ pooled \in [Ops -> BOOLEAN] /\ result \in [Ops -> OpResults] /\ opAnswer \in [Ops -> OpResults]
      /\ began \in [Ops -> BOOLEAN] /\ effects \in [Ops -> Nat] /\ opToken \in [Ops -> BOOLEAN]
      /\ pool \in [Engine!Routes -> Nat] /\ stale \subseteq 1 .. MaxConns
  BY <1>1 DEF EngineTypes
<1>3. /\ Len(Engine!Systems) \in 1 .. 2 /\ Len(Engine!Natives) \in 0 .. 2
      /\ Len(Engine!Natives) <= Len(Engine!Systems)
      /\ Engine!Natives # <<>> => Len(Engine!Natives) \in 1 .. 2
      /\ \A i \in 1 .. Len(Engine!Natives) : Engine!Natives[i] \in Engine!Routes
  BY <1>1, RoutesHere
<1>4. ASSUME asked' = asked, Only(o), OpFits(o)', EngineTypes', ConnsFit'
      PROVE  EngineInvariant'
  BY <1>1, <1>4, OthersFit DEF EngineInvariant
<1>5. asked' = asked => /\ Len(Engine!Systems)' = Len(Engine!Systems)
                        /\ Len(Engine!Natives)' = Len(Engine!Natives)
                        /\ Engine!Changes(o)' <=> Engine!Changes(o)
  BY DEF Engine!Systems, Engine!Natives, Engine!Changes
<1>6. CASE Engine!Begin(o)
  <2>1. /\ at[o] = "idle"
        /\ at' = [at EXCEPT ![o] = IF Engine!Natives = <<>> THEN "program" ELSE "take"]
        /\ UNCHANGED <<asked, route, conn, pooled, result, opAnswer, began, effects, opToken>>
        /\ UNCHANGED <<stale, shut, made>>
    BY <1>6 DEF Engine!Begin, Engine!Goto
  <2>2. pool' \in [Engine!Routes -> Nat] /\ \A r \in Engine!Routes : pool'[r] \in {0, pool[r]}
    <3>1. CASE pool' = pool
      BY <1>2, <3>1
    <3>2. CASE pool' = [r \in Engine!Routes |-> IF Engine!Contains(Engine!Natives, r) THEN 0 ELSE pool[r]]
      BY <1>2, <3>2
    <3> QED BY <1>6, <3>1, <3>2 DEF Engine!Begin, Engine!NoConn
  <2>3. EngineTypes'
    BY <1>2, <2>1, <2>2 DEF EngineTypes, OpPlaces
  <2>4. Only(o)
    BY <1>2, <2>1 DEF Only
  <2>5. ConnsFit'
    BY <1>1, <1>2, <2>1, <2>2, ConnsStay
  <2>6. OpFits(o)'
    <3>1. at'[o] = IF Engine!Natives = <<>> THEN "program" ELSE "take"
      BY <1>2, <2>1
    <3>2. route[o] = 1 /\ conn[o] = 0 /\ opAnswer[o] = "none" /\ (Engine!Changes(o) => effects[o] = 0)
      BY <1>1, <2>1 DEF OpFits, InHand
    <3>3. /\ at'[o] = "program" => 1 <= Len(Engine!Systems)
          /\ at'[o] = "take" => 1 <= Len(Engine!Natives)
      BY <1>3, <3>1
    <3> QED BY <1>5, <2>1, <3>1, <3>2, <3>3 DEF OpFits, InHand
  <2> QED BY <1>4, <2>1, <2>3, <2>4, <2>5, <2>6
<1>7. CASE Engine!Take(o)
  <2> DEFINE R == Engine!RouteOf(o)
  <2>1. /\ at[o] = "take" /\ conn' = [conn EXCEPT ![o] = pool[R]]
        /\ pool' = [pool EXCEPT ![R] = 0]
        /\ pooled' = [pooled EXCEPT ![o] = pool[R] # 0]
        /\ at' = [at EXCEPT ![o] = IF pool[R] = 0 THEN "connect" ELSE "ready"]
        /\ UNCHANGED <<asked, route, result, opAnswer, began, effects, opToken, stale, shut, made>>
    BY <1>7 DEF Engine!Take, Engine!Goto, Engine!NoConn
  <2>2. R \in Engine!Routes /\ conn[o] = 0 /\ route[o] <= Len(Engine!Natives)
    <3>1. route[o] <= Len(Engine!Natives) /\ conn[o] = 0
      BY <1>1, <2>1 DEF OpFits, InHand
    <3>2. route[o] \in 1 .. Len(Engine!Natives)
      <4>1. route[o] \in 1 .. 2
        BY <1>2
      <4> QED BY <1>3, <3>1, <4>1
    <3> QED BY <1>3, <3>1, <3>2 DEF Engine!RouteOf
  <2> HIDE DEF R
  <2>3. /\ at' \in [Ops -> OpPlaces] /\ conn' \in [Ops -> Nat] /\ pooled' \in [Ops -> BOOLEAN]
        /\ pool' \in [Engine!Routes -> Nat]
        /\ at'[o] = (IF pool[R] = 0 THEN "connect" ELSE "ready") /\ conn'[o] = pool[R] /\ pool'[R] = 0
        /\ \A p \in Ops \ {o} : at'[p] = at[p] /\ conn'[p] = conn[p]
        /\ \A r \in Engine!Routes \ {R} : pool'[r] = pool[r]
    BY <1>2, <2>1, <2>2 DEF OpPlaces, InHand
  <2>4. EngineTypes'
    BY <1>2, <2>1, <2>3 DEF EngineTypes
  <2>5. Only(o)
    BY <2>1, <2>3 DEF Only
  <2>6. OpFits(o)'
    BY <1>1, <1>5, <2>1, <2>3 DEF OpFits, InHand
  <2>7. ConnsFit'
    <3>1. made \in Nat /\ 0 \notin shut /\ \A r \in Engine!Routes : pool[r] \in Nat
      BY <1>1, <1>2 DEF ConnsFit
    <3>2. \A p \in Ops : conn'[p] <= made /\ (conn'[p] \in shut => opToken[p])
      BY <1>1, <2>2, <2>3 DEF ConnsFit
    <3>3. \A r \in Engine!Routes : pool'[r] <= made /\ pool'[r] \notin shut
      BY <1>1, <2>3, <3>1 DEF ConnsFit
    <3>4. \A p, q \in Ops : conn'[p] = conn'[q] /\ conn'[p] # 0 => p = q
      BY <1>1, <2>2, <2>3 DEF ConnsFit
    <3>5. \A r, s \in Engine!Routes : pool'[r] = pool'[s] /\ pool'[r] # 0 => r = s
      BY <1>1, <2>2, <2>3 DEF ConnsFit
    <3>6. \A p \in Ops, r \in Engine!Routes : conn'[p] = pool'[r] => conn'[p] = 0
      BY <1>1, <2>2, <2>3 DEF ConnsFit
    <3> QED BY <1>1, <2>1, <3>2, <3>3, <3>4, <3>5, <3>6 DEF ConnsFit
  <2> QED BY <1>4, <2>1, <2>4, <2>5, <2>6, <2>7
<1>8. CASE Engine!Connect(o)
  <2>1. at[o] = "connect" /\ UNCHANGED <<asked, result, effects, opToken, pool, stale, shut>>
    BY <1>8 DEF Engine!Connect
  <2>2. conn[o] = 0 /\ route[o] <= Len(Engine!Natives) /\ opAnswer[o] = "none"
        /\ (Engine!Changes(o) => effects[o] = 0)
    BY <1>1, <2>1 DEF OpFits, InHand
  <2>3. CASE /\ made < MaxConns /\ made' = made + 1 /\ conn' = [conn EXCEPT ![o] = made + 1]
             /\ pooled' = [pooled EXCEPT ![o] = FALSE] /\ at' = [at EXCEPT ![o] = "ready"]
             /\ UNCHANGED <<route, opAnswer, began>>
    <3>1. made \in Nat
      BY <1>1 DEF ConnsFit
    <3>2. /\ at' \in [Ops -> OpPlaces] /\ conn' \in [Ops -> Nat] /\ pooled' \in [Ops -> BOOLEAN]
          /\ at'[o] = "ready" /\ conn'[o] = made + 1
          /\ \A p \in Ops \ {o} : at'[p] = at[p] /\ conn'[p] = conn[p]
      BY <1>2, <2>3, <3>1 DEF OpPlaces, InHand
    <3>3. EngineTypes'
      BY <1>2, <2>1, <2>3, <3>2 DEF EngineTypes
    <3>4. Only(o)
      BY <2>1, <2>3, <3>2 DEF Only
    <3>5. OpFits(o)'
      <4>1. conn'[o] # 0
        BY <3>1, <3>2
      <4> QED BY <1>5, <2>1, <2>2, <2>3, <3>2, <4>1 DEF OpFits, InHand
    <3>6. ConnsFit'
      <4>1. \A n \in Nat : n <= made => n <= made + 1 /\ n # made + 1
        BY <3>1
      <4>2. /\ \A p \in Ops : conn[p] \in Nat /\ conn[p] <= made
            /\ \A r \in Engine!Routes : pool[r] \in Nat /\ pool[r] <= made
            /\ made + 1 \notin shut /\ made + 1 \in 0 .. MaxConns /\ shut \subseteq 1 .. made + 1
            /\ made + 1 <= made + 1
        BY <1>1, <1>2, <2>3, <3>1 DEF ConnsFit
      <4>3. \A p \in Ops : conn'[p] <= made + 1 /\ (conn'[p] \in shut => opToken[p])
        BY <1>1, <3>2, <4>1, <4>2 DEF ConnsFit
      <4>4. \A r \in Engine!Routes : pool[r] <= made + 1
        BY <4>1, <4>2
      <4>5. \A p, q \in Ops : conn'[p] = conn'[q] /\ conn'[p] # 0 => p = q
        BY <1>1, <3>2, <4>1, <4>2 DEF ConnsFit
      <4>6. \A p \in Ops, r \in Engine!Routes : conn'[p] = pool[r] => conn'[p] = 0
        BY <1>1, <3>2, <4>1, <4>2 DEF ConnsFit
      <4> QED BY <1>1, <2>1, <2>3, <4>2, <4>3, <4>4, <4>5, <4>6 DEF ConnsFit
    <3> QED BY <1>4, <2>1, <3>3, <3>4, <3>5, <3>6
  <2>4. ASSUME NEW class \in {"transport", "final", "cancelled"}, Engine!Failed(o, class, FALSE),
               UNCHANGED <<pooled, made>>
        PROVE  EngineInvariant'
    <3>1. /\ at' \in [Ops -> OpPlaces] /\ route' \in [Ops -> 1 .. 2] /\ conn' \in [Ops -> Nat]
          /\ opAnswer' \in [Ops -> OpResults] /\ began' \in [Ops -> BOOLEAN]
          /\ \A p \in Ops \ {o} : /\ at'[p] = at[p] /\ route'[p] = route[p] /\ conn'[p] = conn[p]
                                  /\ opAnswer'[p] = opAnswer[p] /\ began'[p] = began[p]
          /\ conn'[o] = 0
          /\ IF class = "transport"
               THEN /\ opAnswer'[o] = opAnswer[o] /\ began'[o] = began[o]
                    /\ \/ at'[o] = "take" /\ route'[o] <= Len(Engine!Natives)
                       \/ at'[o] = "program" /\ route'[o] = 1
               ELSE at'[o] = "done" /\ opAnswer'[o] = class /\ began'[o] = FALSE
      <4>1. class \in OpResults
        BY DEF OpResults
      <4> QED BY <1>1, <2>1, <2>2, <2>4, <4>1, AttemptFails
    <3>2. EngineTypes' /\ Only(o)
      BY <1>2, <2>1, <2>4, <3>1 DEF EngineTypes, Only
    <3>3. OpFits(o)'
      <4>1. 1 <= Len(Engine!Systems)
        BY <1>3
      <4> QED BY <1>5, <2>1, <2>2, <3>1, <4>1 DEF OpFits, InHand
    <3>4. ConnsFit'
      <4>1. \A p \in Ops : conn'[p] \in {0, conn[p]}
        BY <3>1
      <4> QED BY <1>1, <2>1, <2>4, <4>1, ConnsStay
    <3> QED BY <1>4, <2>1, <3>2, <3>3, <3>4
  <2> QED BY <1>8, <2>3, <2>4 DEF Engine!Connect, Engine!Goto
<1>9. CASE Engine!Start(o)
  <2>1. /\ at[o] = "ready" /\ UNCHANGED <<asked, pooled, effects, opToken>>
        /\ UNCHANGED <<pool, stale, shut, made>>
    BY <1>9 DEF Engine!Start, Engine!net
  <2>2. /\ route[o] <= Len(Engine!Natives) /\ opAnswer[o] = "none" /\ conn[o] # 0
        /\ Engine!Changes(o) => effects[o] = 0
    BY <1>1, <2>1 DEF OpFits, InHand
  <2>3. CASE opToken[o]
    <3>1. Engine!Failed(o, "cancelled", Engine!Changes(o)) /\ UNCHANGED result
      BY <1>9, <2>3 DEF Engine!Start
    <3>2. /\ at' \in [Ops -> OpPlaces] /\ route' \in [Ops -> 1 .. 2] /\ conn' \in [Ops -> Nat]
          /\ opAnswer' \in [Ops -> OpResults] /\ began' \in [Ops -> BOOLEAN]
          /\ \A p \in Ops \ {o} : /\ at'[p] = at[p] /\ route'[p] = route[p] /\ conn'[p] = conn[p]
                                  /\ opAnswer'[p] = opAnswer[p] /\ began'[p] = began[p]
          /\ conn'[o] = 0 /\ at'[o] = "done" /\ opAnswer'[o] = "cancelled"
      <4>1. "cancelled" \in OpResults /\ Engine!Changes(o) \in BOOLEAN
        BY DEF OpResults, Engine!Changes
      <4>2. at[o] \in InHand \cup {"connect"}
        BY <2>1 DEF InHand
      <4> QED BY <1>1, <2>2, <3>1, <4>1, <4>2, AttemptFails
    <3>3. EngineTypes' /\ Only(o)
      BY <1>2, <2>1, <3>1, <3>2 DEF EngineTypes, Only
    <3>4. OpFits(o)'
      BY <1>5, <2>1, <2>2, <3>1, <3>2 DEF OpFits, InHand
    <3>5. ConnsFit'
      <4>1. \A p \in Ops : conn'[p] \in {0, conn[p]}
        BY <3>2
      <4> QED BY <1>1, <2>1, <4>1, ConnsStay
    <3> QED BY <1>4, <2>1, <3>3, <3>4, <3>5
  <2>4. CASE ~opToken[o]
    <3>1. /\ at' = [at EXCEPT ![o] = "acting"] /\ result' = [result EXCEPT ![o] = "none"]
          /\ UNCHANGED <<conn, route, opAnswer, began>>
      BY <1>9, <2>4 DEF Engine!Start, Engine!Goto
    <3>2. /\ at' \in [Ops -> OpPlaces] /\ result' \in [Ops -> OpResults] /\ at'[o] = "acting"
          /\ \A p \in Ops \ {o} : at'[p] = at[p] /\ result'[p] = result[p]
      BY <1>2, <3>1 DEF OpPlaces, OpResults, InHand
    <3>3. EngineTypes' /\ Only(o)
      BY <1>2, <2>1, <3>1, <3>2 DEF EngineTypes, Only
    <3>4. OpFits(o)'
      BY <1>5, <2>1, <2>2, <3>1, <3>2 DEF OpFits, InHand
    <3>5. ConnsFit'
      BY <1>1, <2>1, <3>1, ConnsStay
    <3> QED BY <1>4, <2>1, <3>3, <3>4, <3>5
  <2> QED BY <2>3, <2>4
<1> QED BY <1>6, <1>7, <1>8, <1>9

(* An operation acts, is woken, leaves, is cancelled, watched, or sees that it is. *)
LEMMA OpActs ==
  ASSUME EngineInvariant, NEW o \in Ops,
         \/ Engine!Act(o) \/ Engine!Woken(o) \/ Engine!Leave(o) \/ Engine!Watch(o) \/ Engine!Cancel(o)
         \/ Engine!Sees(o)
  PROVE  EngineInvariant'
<1>1. EngineTypes /\ OpFits(o) /\ ConnsFit /\ \A p \in Ops : OpFits(p)
  BY DEF EngineInvariant
<1>2. /\ asked \in OpsAsked
      /\ at \in [Ops -> OpPlaces] /\ route \in [Ops -> 1 .. 2] /\ conn \in [Ops -> Nat]
      /\ pooled \in [Ops -> BOOLEAN] /\ result \in [Ops -> OpResults] /\ opAnswer \in [Ops -> OpResults]
      /\ began \in [Ops -> BOOLEAN] /\ effects \in [Ops -> Nat] /\ opToken \in [Ops -> BOOLEAN]
      /\ pool \in [Engine!Routes -> Nat] /\ stale \subseteq 1 .. MaxConns
  BY <1>1 DEF EngineTypes
<1>3. ASSUME asked' = asked, Only(o), OpFits(o)', EngineTypes', ConnsFit'
      PROVE  EngineInvariant'
  BY <1>1, <1>3, OthersFit DEF EngineInvariant
<1>4. asked' = asked => /\ Len(Engine!Systems)' = Len(Engine!Systems)
                        /\ Len(Engine!Natives)' = Len(Engine!Natives)
                        /\ Engine!Changes(o)' <=> Engine!Changes(o)
  BY DEF Engine!Systems, Engine!Natives, Engine!Changes
<1>5. CASE Engine!Act(o)
  <2>1. PICK r \in {"ok", "final", "transport"} :
          /\ result' = [result EXCEPT ![o] = r]
          /\ effects' \in {[effects EXCEPT ![o] = IF Engine!Changes(o) THEN effects[o] + n ELSE 0] :
                             n \in IF r = "ok" THEN {1} ELSE IF r = "final" THEN {0} ELSE {0, 1}}
    BY <1>5 DEF Engine!Act
  <2>2. PICK n \in IF r = "ok" THEN {1} ELSE IF r = "final" THEN {0} ELSE {0, 1} :
          effects' = [effects EXCEPT ![o] = IF Engine!Changes(o) THEN effects[o] + n ELSE 0]
    BY <2>1
  <2>3. /\ at[o] = "acting" /\ at' = [at EXCEPT ![o] = "acted"]
        /\ UNCHANGED <<asked, route, conn, pooled, opAnswer, began, opToken>>
        /\ UNCHANGED <<pool, stale, shut, made>>
    BY <1>5 DEF Engine!Act, Engine!Goto, Engine!net
  <2>4. n \in {0, 1} /\ (r = "ok" => n = 1) /\ (r = "final" => n = 0)
    OBVIOUS
  <2>5. effects[o] \in Nat /\ effects[o] + n \in Nat /\ 0 + n = n /\ 0 <= 1
    BY <1>2, <2>4
  <2>6. /\ at' \in [Ops -> OpPlaces] /\ result' \in [Ops -> OpResults] /\ effects' \in [Ops -> Nat]
        /\ at'[o] = "acted" /\ result'[o] = r
        /\ effects'[o] = (IF Engine!Changes(o) THEN effects[o] + n ELSE 0)
        /\ \A p \in Ops \ {o} : at'[p] = at[p] /\ result'[p] = result[p] /\ effects'[p] = effects[p]
    <3>1. at' \in [Ops -> OpPlaces] /\ at'[o] = "acted" /\ \A p \in Ops \ {o} : at'[p] = at[p]
      BY <1>2, <2>3 DEF OpPlaces, InHand
    <3>2. result' \in [Ops -> OpResults] /\ result'[o] = r /\ \A p \in Ops \ {o} : result'[p] = result[p]
      BY <1>2, <2>1 DEF OpResults
    <3>3. /\ effects' \in [Ops -> Nat] /\ effects'[o] = (IF Engine!Changes(o) THEN effects[o] + n ELSE 0)
          /\ \A p \in Ops \ {o} : effects'[p] = effects[p]
      BY <1>2, <2>2, <2>5
    <3> QED BY <3>1, <3>2, <3>3
  <2>7. EngineTypes' /\ Only(o)
    BY <1>2, <2>3, <2>6 DEF EngineTypes, Only
  <2>8. OpFits(o)'
    <3>1. conn[o] # 0 /\ route[o] <= Len(Engine!Natives) /\ opAnswer[o] = "none"
          /\ (Engine!Changes(o) => effects[o] = 0)
      BY <1>1, <2>3 DEF OpFits, InHand
    <3>2. Engine!Changes(o) => effects'[o] = n
      BY <2>5, <2>6, <3>1
    <3>3. Engine!Changes(o) => /\ effects'[o] <= 1
                               /\ r = "ok" => effects'[o] = 1
                               /\ r = "final" => effects'[o] = 0
      BY <2>4, <3>2
    <3> QED BY <1>4, <2>3, <2>6, <3>1, <3>3 DEF OpFits, InHand
  <2>9. ConnsFit'
    BY <1>1, <2>3, ConnsStay
  <2> QED BY <1>3, <2>3, <2>7, <2>8, <2>9
<1>6. CASE Engine!Woken(o)
  <2>1. /\ at[o] = "acting" /\ at' = [at EXCEPT ![o] = "acted"]
        /\ result' = [result EXCEPT ![o] = "transport"]
        /\ UNCHANGED <<asked, route, conn, pooled, opAnswer, began, effects, opToken>>
        /\ UNCHANGED <<pool, stale, shut, made>>
    BY <1>6 DEF Engine!Woken, Engine!Goto, Engine!net
  <2>2. /\ at' \in [Ops -> OpPlaces] /\ result' \in [Ops -> OpResults]
        /\ at'[o] = "acted" /\ result'[o] = "transport"
        /\ \A p \in Ops \ {o} : at'[p] = at[p] /\ result'[p] = result[p]
    BY <1>2, <2>1 DEF OpPlaces, OpResults, InHand
  <2>3. EngineTypes' /\ Only(o)
    BY <1>2, <2>1, <2>2 DEF EngineTypes, Only
  <2>4. OpFits(o)'
    <3>1. conn[o] # 0 /\ route[o] <= Len(Engine!Natives) /\ opAnswer[o] = "none"
          /\ (Engine!Changes(o) => effects[o] = 0)
      BY <1>1, <2>1 DEF OpFits, InHand
    <3> QED BY <1>4, <2>1, <2>2, <3>1 DEF OpFits, InHand
  <2>5. ConnsFit'
    BY <1>1, <2>1, ConnsStay
  <2> QED BY <1>3, <2>1, <2>3, <2>4, <2>5
<1>7. CASE Engine!Leave(o)
  <2>1. /\ at[o] = "acted" /\ at' = [at EXCEPT ![o] = "left"]
        /\ result' = [result EXCEPT ![o] = IF opToken[o] THEN "cancelled" ELSE result[o]]
        /\ UNCHANGED <<asked, route, conn, pooled, opAnswer, began, effects, opToken>>
        /\ UNCHANGED <<pool, stale, shut, made>>
    BY <1>7 DEF Engine!Leave, Engine!Goto, Engine!net
  <2>2. /\ at' \in [Ops -> OpPlaces] /\ result' \in [Ops -> OpResults]
        /\ at'[o] = "left" /\ result'[o] \in {"cancelled", result[o]}
        /\ \A p \in Ops \ {o} : at'[p] = at[p] /\ result'[p] = result[p]
    BY <1>2, <2>1 DEF OpPlaces, OpResults, InHand
  <2>3. EngineTypes' /\ Only(o)
    BY <1>2, <2>1, <2>2 DEF EngineTypes, Only
  <2>4. OpFits(o)'
    BY <1>1, <1>4, <2>1, <2>2 DEF OpFits, InHand
  <2>5. ConnsFit'
    BY <1>1, <2>1, ConnsStay
  <2> QED BY <1>3, <2>1, <2>3, <2>4, <2>5
<1>8. CASE Engine!Watch(o)
  <2>1. /\ at[o] \in {"acting", "acted", "left"} /\ opToken[o] /\ shut' = shut \cup {conn[o]}
        /\ UNCHANGED <<asked, at, route, conn, pooled, result, opAnswer, began, effects, opToken>>
        /\ UNCHANGED <<pool, stale, made>>
    BY <1>8 DEF Engine!Watch, Engine!op
  <2>2. conn[o] # 0 /\ conn[o] \in Nat /\ conn[o] <= made /\ made \in Nat
    BY <1>1, <1>2, <2>1 DEF OpFits, InHand, ConnsFit
  <2>3. shut' \subseteq 1 .. made
    <3>1. conn[o] \in 1 .. made
      BY <2>2
    <3>2. shut \subseteq 1 .. made
      BY <1>1 DEF ConnsFit
    <3> QED BY <2>1, <3>1, <3>2
  <2>4. \A p \in Ops : conn[p] \in shut' => opToken[p]
    BY <1>1, <2>1, <2>2 DEF ConnsFit
  <2>5. \A r \in Engine!Routes : pool[r] \notin shut'
    BY <1>1, <2>1, <2>2 DEF ConnsFit
  <2>6. ConnsFit'
    BY <1>1, <2>1, <2>3, <2>4, <2>5 DEF ConnsFit
  <2>7. EngineTypes' /\ Only(o)
    BY <1>2, <2>1 DEF EngineTypes, Only
  <2>8. OpFits(o)'
    BY <1>1, <1>4, <2>1 DEF OpFits
  <2> QED BY <1>3, <2>1, <2>6, <2>7, <2>8
<1>9. CASE Engine!Cancel(o)
  <2>1. /\ opToken' = [opToken EXCEPT ![o] = TRUE]
        /\ UNCHANGED <<asked, at, route, conn, pooled, result, opAnswer, began, effects>>
        /\ UNCHANGED <<pool, stale, shut, made>>
    BY <1>9 DEF Engine!Cancel, Engine!op, Engine!net
  <2>2. opToken' \in [Ops -> BOOLEAN] /\ \A p \in Ops : opToken[p] => opToken'[p]
    BY <1>2, <2>1
  <2>3. EngineTypes' /\ Only(o)
    BY <1>2, <2>1, <2>2 DEF EngineTypes, Only
  <2>4. OpFits(o)'
    BY <1>1, <1>4, <2>1 DEF OpFits
  <2>5. ConnsFit'
    BY <1>1, <2>1, <2>2, ConnsStay
  <2> QED BY <1>3, <2>1, <2>3, <2>4, <2>5
<1>10. CASE Engine!Sees(o)
  <2>1. /\ at[o] \in {"take", "connect", "program"}
        /\ at' = [at EXCEPT ![o] = "done"] /\ opAnswer' = [opAnswer EXCEPT ![o] = "cancelled"]
        /\ conn' = [conn EXCEPT ![o] = 0]
        /\ UNCHANGED <<asked, route, pooled, result, began, effects, opToken>>
        /\ UNCHANGED <<pool, stale, shut, made>>
    BY <1>10 DEF Engine!Sees, Engine!Answer, Engine!Goto, Engine!net, Engine!NoConn
  <2>2. /\ at' \in [Ops -> OpPlaces] /\ opAnswer' \in [Ops -> OpResults] /\ conn' \in [Ops -> Nat]
        /\ at'[o] = "done" /\ opAnswer'[o] = "cancelled" /\ conn'[o] = 0
        /\ \A p \in Ops \ {o} : at'[p] = at[p] /\ opAnswer'[p] = opAnswer[p] /\ conn'[p] = conn[p]
    BY <1>2, <2>1 DEF OpPlaces, OpResults
  <2>3. EngineTypes' /\ Only(o)
    BY <1>2, <2>1, <2>2 DEF EngineTypes, Only
  <2>4. OpFits(o)'
    BY <1>1, <1>4, <2>1, <2>2 DEF OpFits, InHand
  <2>5. ConnsFit'
    <3>1. \A p \in Ops : conn'[p] \in {0, conn[p]}
      BY <2>2
    <3> QED BY <1>1, <2>1, <3>1, ConnsStay
  <2> QED BY <1>3, <2>1, <2>3, <2>4, <2>5
<1> QED BY <1>5, <1>6, <1>7, <1>8, <1>9, <1>10

(* An operation keeps its connection, goes elsewhere or uses the program.         *)
LEMMA OpEnds ==
  ASSUME EngineInvariant, NEW o \in Ops, Engine!Store(o) \/ Engine!Program(o)
  PROVE  EngineInvariant'
<1>1. EngineTypes /\ OpFits(o) /\ ConnsFit /\ \A p \in Ops : OpFits(p)
  BY DEF EngineInvariant
<1>2. /\ asked \in OpsAsked
      /\ at \in [Ops -> OpPlaces] /\ route \in [Ops -> 1 .. 2] /\ conn \in [Ops -> Nat]
      /\ pooled \in [Ops -> BOOLEAN] /\ result \in [Ops -> OpResults] /\ opAnswer \in [Ops -> OpResults]
      /\ began \in [Ops -> BOOLEAN] /\ effects \in [Ops -> Nat] /\ opToken \in [Ops -> BOOLEAN]
      /\ pool \in [Engine!Routes -> Nat] /\ stale \subseteq 1 .. MaxConns
  BY <1>1 DEF EngineTypes
<1>3. /\ Len(Engine!Systems) \in 1 .. 2 /\ Len(Engine!Natives) \in 0 .. 2
      /\ Len(Engine!Natives) <= Len(Engine!Systems)
      /\ \A i \in 1 .. Len(Engine!Natives) : Engine!Natives[i] \in Engine!Routes
  BY <1>1, RoutesHere
<1>4. ASSUME asked' = asked, Only(o), OpFits(o)', EngineTypes', ConnsFit'
      PROVE  EngineInvariant'
  BY <1>1, <1>4, OthersFit DEF EngineInvariant
<1>5. asked' = asked => /\ Len(Engine!Systems)' = Len(Engine!Systems)
                        /\ Len(Engine!Natives)' = Len(Engine!Natives)
                        /\ Engine!Changes(o)' <=> Engine!Changes(o)
  BY DEF Engine!Systems, Engine!Natives, Engine!Changes
<1>6. CASE Engine!Store(o)
  <2>1. at[o] = "left" /\ UNCHANGED <<asked, pooled, result, effects, opToken, stale, shut, made>>
    BY <1>6 DEF Engine!Store
  <2>2. /\ conn[o] # 0 /\ route[o] <= Len(Engine!Natives) /\ opAnswer[o] = "none" /\ result[o] # "none"
        /\ Engine!Changes(o) => /\ effects[o] <= 1
                                /\ result[o] = "ok" => effects[o] = 1
                                /\ result[o] = "final" => effects[o] = 0
    BY <1>1, <2>1 DEF OpFits, InHand
  <2>3. CASE result[o] = "ok"
    <3>1. Engine!Keeps(o) /\ UNCHANGED <<route, began>>
      BY <1>6, <2>3 DEF Engine!Store
    <3>2. PICK a \in {"ok", "cancelled"} :
            /\ at' = [at EXCEPT ![o] = "done"] /\ opAnswer' = [opAnswer EXCEPT ![o] = a]
            /\ conn' = [conn EXCEPT ![o] = 0]
      BY <3>1 DEF Engine!Keeps, Engine!Answer, Engine!Goto, Engine!NoConn
    <3>3. /\ at' \in [Ops -> OpPlaces] /\ opAnswer' \in [Ops -> OpResults] /\ conn' \in [Ops -> Nat]
          /\ at'[o] = "done" /\ opAnswer'[o] = a /\ conn'[o] = 0
          /\ \A p \in Ops \ {o} : at'[p] = at[p] /\ opAnswer'[p] = opAnswer[p] /\ conn'[p] = conn[p]
      BY <1>2, <3>2 DEF OpPlaces, OpResults
    <3>4. Only(o)
      BY <2>1, <3>1, <3>3 DEF Only
    <3>5. OpFits(o)'
      BY <1>5, <2>1, <2>2, <2>3, <3>1, <3>3 DEF OpFits, InHand
    <3>6. CASE opToken[o]
      <4>1. pool' = pool
        BY <3>1, <3>6 DEF Engine!Keeps
      <4>2. ConnsFit'
        <5>1. \A p \in Ops : conn'[p] \in {0, conn[p]}
          BY <3>3
        <5> QED BY <1>1, <2>1, <4>1, <5>1, ConnsStay
      <4>3. EngineTypes'
        BY <1>2, <2>1, <3>1, <3>3, <4>1 DEF EngineTypes
      <4> QED BY <1>4, <2>1, <3>4, <3>5, <4>2, <4>3
    <3>7. CASE ~opToken[o]
      <4> DEFINE R == Engine!RouteOf(o)
      <4>1. pool' = [pool EXCEPT ![R] = conn[o]]
        BY <3>1, <3>7 DEF Engine!Keeps
      <4>2. R \in Engine!Routes
        <5>1. route[o] \in 1 .. Len(Engine!Natives)
          <6>1. route[o] \in 1 .. 2
            BY <1>2
          <6> QED BY <1>3, <2>2, <6>1
        <5> QED BY <1>3, <5>1 DEF Engine!RouteOf
      <4> HIDE DEF R
      <4>3. /\ pool' \in [Engine!Routes -> Nat] /\ pool'[R] = conn[o]
            /\ \A r \in Engine!Routes \ {R} : pool'[r] = pool[r]
        BY <1>2, <4>1, <4>2
      <4>4. EngineTypes'
        BY <1>2, <2>1, <3>1, <3>3, <4>3 DEF EngineTypes
      <4>5. ConnsFit'
        <5>1. made \in Nat /\ 0 \notin shut /\ conn[o] \notin shut
          BY <1>1, <3>7 DEF ConnsFit
        <5>2. \A p \in Ops : conn'[p] <= made /\ (conn'[p] \in shut => opToken[p])
          BY <1>1, <3>3, <5>1 DEF ConnsFit
        <5>3. \A r \in Engine!Routes : pool'[r] <= made /\ pool'[r] \notin shut
          BY <1>1, <4>3, <5>1 DEF ConnsFit
        <5>4. \A p, q \in Ops : conn'[p] = conn'[q] /\ conn'[p] # 0 => p = q
          BY <1>1, <3>3 DEF ConnsFit
        <5>5. \A r, s \in Engine!Routes : pool'[r] = pool'[s] /\ pool'[r] # 0 => r = s
          BY <1>1, <4>3, <2>2 DEF ConnsFit
        <5>6. \A p \in Ops, r \in Engine!Routes : conn'[p] = pool'[r] => conn'[p] = 0
          BY <1>1, <3>3, <4>3 DEF ConnsFit
        <5> QED BY <1>1, <2>1, <5>2, <5>3, <5>4, <5>5, <5>6 DEF ConnsFit
      <4> QED BY <1>4, <2>1, <3>4, <3>5, <4>4, <4>5
    <3> QED BY <3>6, <3>7
  <2>4. CASE Engine!Repeats(o) /\ result[o] # "ok"
    <3>1. /\ conn' = [conn EXCEPT ![o] = 0] /\ at' = [at EXCEPT ![o] = "connect"]
          /\ UNCHANGED <<pool, route, opAnswer, began>>
      BY <1>6, <2>4 DEF Engine!Store, Engine!Goto, Engine!NoConn
    <3>2. ~Engine!Changes(o)
      BY <2>4 DEF Engine!Repeats
    <3>3. /\ at' \in [Ops -> OpPlaces] /\ conn' \in [Ops -> Nat] /\ at'[o] = "connect" /\ conn'[o] = 0
          /\ \A p \in Ops \ {o} : at'[p] = at[p] /\ conn'[p] = conn[p]
      BY <1>2, <3>1 DEF OpPlaces
    <3>4. EngineTypes' /\ Only(o)
      BY <1>2, <2>1, <3>1, <3>3 DEF EngineTypes, Only
    <3>5. OpFits(o)'
      BY <1>5, <2>1, <2>2, <3>1, <3>2, <3>3 DEF OpFits, InHand
    <3>6. ConnsFit'
      <4>1. \A p \in Ops : conn'[p] \in {0, conn[p]}
        BY <3>3
      <4> QED BY <1>1, <2>1, <3>1, <4>1, ConnsStay
    <3> QED BY <1>4, <2>1, <3>4, <3>5, <3>6
  <2>5. CASE result[o] # "ok" /\ ~Engine!Repeats(o)
    <3>1. Engine!Failed(o, result[o], Engine!Changes(o)) /\ UNCHANGED pool
      BY <1>6, <2>5 DEF Engine!Store
    <3>2. result[o] \in OpResults /\ Engine!Changes(o) \in BOOLEAN /\ at[o] \in InHand \cup {"connect"}
      BY <1>2, <2>1 DEF Engine!Changes, InHand
    <3>3. /\ at' \in [Ops -> OpPlaces] /\ route' \in [Ops -> 1 .. 2] /\ conn' \in [Ops -> Nat]
          /\ opAnswer' \in [Ops -> OpResults] /\ began' \in [Ops -> BOOLEAN]
          /\ \A p \in Ops \ {o} : /\ at'[p] = at[p] /\ route'[p] = route[p] /\ conn'[p] = conn[p]
                                  /\ opAnswer'[p] = opAnswer[p] /\ began'[p] = began[p]
          /\ conn'[o] = 0
          /\ IF result[o] = "transport" /\ ~Engine!Changes(o)
               THEN /\ opAnswer'[o] = opAnswer[o] /\ began'[o] = began[o]
                    /\ \/ at'[o] = "take" /\ route'[o] <= Len(Engine!Natives)
                       \/ at'[o] = "program" /\ route'[o] = 1
               ELSE at'[o] = "done" /\ opAnswer'[o] = result[o] /\ began'[o] = Engine!Changes(o)
      BY <1>1, <2>2, <3>1, <3>2, AttemptFails
    <3>4. EngineTypes' /\ Only(o)
      BY <1>2, <2>1, <3>1, <3>3 DEF EngineTypes, Only
    <3>5. OpFits(o)'
      <4>1. 1 <= Len(Engine!Systems)
        BY <1>3
      <4>2. CASE result[o] = "transport" /\ ~Engine!Changes(o)
        BY <1>5, <2>1, <2>2, <3>3, <4>1, <4>2 DEF OpFits, InHand
      <4>3. CASE ~(result[o] = "transport" /\ ~Engine!Changes(o))
        BY <1>5, <2>1, <2>2, <2>5, <3>3, <4>3 DEF OpFits, InHand
      <4> QED BY <4>2, <4>3
    <3>6. ConnsFit'
      <4>1. \A p \in Ops : conn'[p] \in {0, conn[p]}
        BY <3>3
      <4> QED BY <1>1, <2>1, <3>1, <4>1, ConnsStay
    <3> QED BY <1>4, <2>1, <3>4, <3>5, <3>6
  <2> QED BY <2>3, <2>4, <2>5
<1>7. CASE Engine!Program(o)
  <2>1. /\ at[o] = "program" /\ UNCHANGED <<asked, pooled, result, opToken>>
        /\ UNCHANGED <<pool, stale, shut, made>>
    BY <1>7 DEF Engine!Program, Engine!net
  <2>2. /\ conn[o] = 0 /\ route[o] <= Len(Engine!Systems) /\ opAnswer[o] = "none"
        /\ Engine!Changes(o) => effects[o] = 0
    BY <1>1, <2>1 DEF OpFits, InHand
  <2>3. ASSUME NEW a \in {"ok", "transport", "final", "cancelled"}, NEW n \in 0 .. 1,
               \/ effects' = [effects EXCEPT ![o] = effects[o] + n]
               \/ ~Engine!Changes(o) /\ effects' = [effects EXCEPT ![o] = 0],
               \/ a \in {"ok", "cancelled"} /\ UNCHANGED began
               \/ \E started \in BOOLEAN : began' = [began EXCEPT ![o] = started] /\ (n = 1 => started),
               a = "ok" => n = 1 /\ UNCHANGED began,
               Engine!Answer(o, a), UNCHANGED route
        PROVE  EngineInvariant'
    <3>1. /\ at' = [at EXCEPT ![o] = "done"] /\ opAnswer' = [opAnswer EXCEPT ![o] = a]
          /\ conn' = [conn EXCEPT ![o] = 0]
      BY <2>3 DEF Engine!Answer, Engine!Goto, Engine!NoConn
    <3>2. /\ at' \in [Ops -> OpPlaces] /\ opAnswer' \in [Ops -> OpResults] /\ conn' \in [Ops -> Nat]
          /\ at'[o] = "done" /\ opAnswer'[o] = a /\ conn'[o] = 0
          /\ \A p \in Ops \ {o} : at'[p] = at[p] /\ opAnswer'[p] = opAnswer[p] /\ conn'[p] = conn[p]
      BY <1>2, <3>1 DEF OpPlaces, OpResults
    <3>3. /\ effects' \in [Ops -> Nat] /\ \A p \in Ops \ {o} : effects'[p] = effects[p]
          /\ Engine!Changes(o) => effects'[o] = n
      <4>1. effects[o] \in Nat /\ effects[o] + n \in Nat /\ 0 + n = n
        BY <1>2
      <4>2. CASE effects' = [effects EXCEPT ![o] = effects[o] + n]
        <5>1. effects'[o] = effects[o] + n
          BY <1>2, <4>2
        <5> QED BY <1>2, <2>2, <4>1, <4>2, <5>1
      <4>3. CASE ~Engine!Changes(o) /\ effects' = [effects EXCEPT ![o] = 0]
        BY <1>2, <4>3
      <4> QED BY <2>3, <4>2, <4>3
    <3>4. /\ began' \in [Ops -> BOOLEAN] /\ \A p \in Ops \ {o} : began'[p] = began[p]
          /\ a \in {"transport", "final"} /\ n = 1 => began'[o]
      BY <1>2, <2>3
    <3>5. EngineTypes' /\ Only(o)
      BY <1>2, <2>1, <2>3, <3>2, <3>3, <3>4 DEF EngineTypes, Only
    <3>6. OpFits(o)'
      <4>1. n <= 1 /\ (n # 1 => n = 0)
        OBVIOUS
      <4> QED BY <1>5, <2>1, <2>3, <3>2, <3>3, <3>4, <4>1 DEF OpFits, InHand
    <3>7. ConnsFit'
      <4>1. \A p \in Ops : conn'[p] \in {0, conn[p]}
        BY <3>2
      <4> QED BY <1>1, <2>1, <4>1, ConnsStay
    <3> QED BY <1>4, <2>1, <3>5, <3>6, <3>7
  <2>4. CASE Engine!ProgramDoes(o)
    <3>1. PICK a \in {"ok", "cancelled"} : Engine!Answer(o, a)
      BY <2>4 DEF Engine!ProgramDoes
    <3>2. /\ effects' = [effects EXCEPT ![o] = IF Engine!Changes(o) THEN effects[o] + 1 ELSE 0]
          /\ UNCHANGED <<route, began>>
      BY <2>4 DEF Engine!ProgramDoes
    <3>3. \/ effects' = [effects EXCEPT ![o] = effects[o] + 1]
          \/ ~Engine!Changes(o) /\ effects' = [effects EXCEPT ![o] = 0]
      BY <3>2
    <3>4. 1 \in 0 .. 1 /\ a \in {"ok", "transport", "final", "cancelled"}
      OBVIOUS
    <3> QED BY <2>3, <3>1, <3>2, <3>3, <3>4
  <2>5. CASE Engine!ProgramFails(o)
    <3>1. PICK class \in {"transport", "final"}, started \in {FALSE} \cup ({Engine!Changes(o)} \ {FALSE}),
               n \in 0 .. 1 :
            /\ n = 1 => started
            /\ effects' = [effects EXCEPT ![o] = effects[o] + n]
            /\ LET c == IF opToken[o] THEN "cancelled" ELSE class
               IN IF Engine!Elsewhere(o, c, started) /\ route[o] < Len(Engine!Systems)
                    THEN /\ route' = [route EXCEPT ![o] = route[o] + 1]
                         /\ UNCHANGED <<at, opAnswer, conn, began>>
                    ELSE /\ Engine!Answer(o, c)
                         /\ began' = [began EXCEPT ![o] = started]
                         /\ UNCHANGED route
      BY <2>5 DEF Engine!ProgramFails
    <3> DEFINE c == IF opToken[o] THEN "cancelled" ELSE class
    <3>2. started \in BOOLEAN /\ c \in {"ok", "transport", "final", "cancelled"} /\ c # "ok"
      BY DEF Engine!Changes
    <3>3. CASE Engine!Elsewhere(o, c, started) /\ route[o] < Len(Engine!Systems)
      <4>1. /\ route' = [route EXCEPT ![o] = route[o] + 1] /\ UNCHANGED <<at, opAnswer, conn, began>>
            /\ ~started
        BY <3>1, <3>3 DEF Engine!Elsewhere
      <4>2. n = 0
        BY <3>1, <4>1
      <4>3. route[o] + 1 \in 1 .. 2 /\ route[o] + 1 <= Len(Engine!Systems)
        <5>1. route[o] \in 1 .. 2
          BY <1>2
        <5>2. \A x, m \in 1 .. 2 : x < m => x + 1 \in 1 .. 2 /\ x + 1 <= m
          OBVIOUS
        <5> QED BY <1>3, <3>3, <5>1, <5>2
      <4>4. /\ route' \in [Ops -> 1 .. 2] /\ route'[o] = route[o] + 1
            /\ \A p \in Ops \ {o} : route'[p] = route[p]
        BY <1>2, <4>1, <4>3
      <4>5. effects' = effects
        <5>1. effects[o] + 0 = effects[o]
          BY <1>2
        <5> QED BY <1>2, <3>1, <4>2, <5>1
      <4>6. EngineTypes' /\ Only(o)
        BY <1>2, <2>1, <4>1, <4>4, <4>5 DEF EngineTypes, Only
      <4>7. OpFits(o)'
        BY <1>5, <2>1, <2>2, <4>1, <4>3, <4>4, <4>5 DEF OpFits, InHand
      <4>8. ConnsFit'
        BY <1>1, <2>1, <4>1, ConnsStay
      <4> QED BY <1>4, <2>1, <4>6, <4>7, <4>8
    <3>4. CASE ~(Engine!Elsewhere(o, c, started) /\ route[o] < Len(Engine!Systems))
      <4>1. Engine!Answer(o, c) /\ began' = [began EXCEPT ![o] = started] /\ UNCHANGED route
        BY <3>1, <3>4
      <4> HIDE DEF c
      <4> QED BY <2>3, <3>1, <3>2, <4>1
    <3> QED BY <3>3, <3>4
  <2> QED BY <1>7, <2>4, <2>5 DEF Engine!Program
<1> QED BY <1>6, <1>7

(* Every step of the operations, of the pool and of the network.                 *)
LEMMA EngineStep ==
  ASSUME EngineInvariant, Engine!Next
  PROVE  EngineInvariant'
<1>1. EngineTypes /\ ConnsFit /\ \A p \in Ops : OpFits(p)
  BY DEF EngineInvariant
<1>2. ASSUME NEW o \in Ops,
             Engine!Moves(o) \/ Engine!Connect(o) \/ Engine!Act(o) \/ Engine!Program(o) \/ Engine!Watch(o)
             \/ Engine!Cancel(o)
      PROVE  EngineInvariant'
  BY <1>2, OpMoves, OpActs, OpEnds DEF Engine!Moves
<1>3. ASSUME UNCHANGED <<asked, at, route, conn, pooled, result, opAnswer, began, effects, opToken>>,
             UNCHANGED <<shut, made>>, pool' \in [Engine!Routes -> Nat], stale' \subseteq 1 .. MaxConns,
             \A r \in Engine!Routes : pool'[r] \in {0, pool[r]}
      PROVE  EngineInvariant'
  <2>1. EngineTypes'
    BY <1>1, <1>3 DEF EngineTypes
  <2>2. ConnsFit'
    BY <1>1, <1>3, ConnsStay
  <2>3. \A p \in Ops : OpFits(p)'
    BY <1>1, <1>3 DEF OpFits, Engine!Systems, Engine!Natives, Engine!Changes
  <2> QED BY <2>1, <2>2, <2>3 DEF EngineInvariant
<1>4. pool \in [Engine!Routes -> Nat] /\ stale \subseteq 1 .. MaxConns
  BY <1>1 DEF EngineTypes
<1>5. ASSUME NEW r \in Engine!Routes, Engine!Prune(r)
      PROVE  EngineInvariant'
  <2>1. /\ UNCHANGED <<asked, at, route, conn, pooled, result, opAnswer, began, effects, opToken>>
        /\ UNCHANGED <<stale, shut, made>> /\ pool' = [pool EXCEPT ![r] = 0]
    BY <1>5 DEF Engine!Prune, Engine!op, Engine!NoConn
  <2>2. pool' \in [Engine!Routes -> Nat] /\ \A s \in Engine!Routes : pool'[s] \in {0, pool[s]}
    BY <1>4, <2>1
  <2> QED BY <1>3, <1>4, <2>1, <2>2
<1>6. ASSUME NEW c \in Engine!ConnIds, Engine!Breaks(c)
      PROVE  EngineInvariant'
  <2>1. /\ UNCHANGED <<asked, at, route, conn, pooled, result, opAnswer, began, effects, opToken>>
        /\ UNCHANGED <<pool, shut, made>> /\ stale' = stale \cup {c} /\ c \in 1 .. MaxConns
    BY <1>6 DEF Engine!Breaks, Engine!op, Engine!ConnIds
  <2>2. stale' \subseteq 1 .. MaxConns
    BY <1>4, <2>1
  <2> QED BY <1>3, <1>4, <2>1, <2>2
<1> QED BY <1>2, <1>5, <1>6 DEF Engine!Next

(* No operation has begun at first, and no connection was made.                  *)
LEMMA EngineBegins ==
  ASSUME Engine!Init
  PROVE  EngineInvariant
<1>1. /\ asked \in OpsAsked
      /\ at = [o \in Ops |-> "idle"] /\ route = [o \in Ops |-> 1] /\ conn = [o \in Ops |-> 0]
      /\ pooled = [o \in Ops |-> FALSE] /\ result = [o \in Ops |-> "none"]
      /\ opAnswer = [o \in Ops |-> "none"] /\ began = [o \in Ops |-> FALSE]
      /\ effects = [o \in Ops |-> 0] /\ opToken = [o \in Ops |-> FALSE]
      /\ pool = [r \in Engine!Routes |-> 0] /\ stale = {} /\ shut = {} /\ made = 0
  BY DEF Engine!Init, Engine!NoConn
<1>2. EngineTypes
  BY <1>1 DEF EngineTypes, OpPlaces, OpResults
<1>3. Len(Engine!Systems) \in 1 .. 2
  BY <1>2, RoutesHere
<1>4. ConnsFit
  BY <1>1 DEF ConnsFit
<1>5. \A o \in Ops : OpFits(o)
  <2>1. 1 <= Len(Engine!Systems)
    BY <1>3
  <2> QED BY <1>1, <2>1 DEF OpFits, InHand
<1> QED BY <1>2, <1>4, <1>5 DEF EngineInvariant

(* What the run checks of the operations.                                       *)
LEMMA EngineKeeps ==
  ASSUME EngineInvariant
  PROVE  Engine!TypeOK /\ Engine!ChangesHappenOnce /\ Engine!PooledConnectionsAreFree
<1>1. EngineTypes /\ ConnsFit /\ \A p \in Ops : OpFits(p)
  BY DEF EngineInvariant
<1>2. /\ at \in [Ops -> OpPlaces] /\ route \in [Ops -> 1 .. 2] /\ conn \in [Ops -> Nat]
      /\ opAnswer \in [Ops -> OpResults] /\ effects \in [Ops -> Nat]
      /\ pool \in [Engine!Routes -> Nat] /\ stale \subseteq 1 .. MaxConns
  BY <1>1 DEF EngineTypes
<1>3. made \in 0 .. MaxConns /\ shut \subseteq 1 .. made
  BY <1>1 DEF ConnsFit
<1>4. Engine!TypeOK
  <2>1. \A n \in Nat : n <= made => n \in 1 .. MaxConns \cup {0}
    BY <1>3
  <2>2. conn \in [Ops -> 1 .. MaxConns \cup {0}]
    BY <1>1, <1>2, <2>1 DEF ConnsFit
  <2>3. pool \in [Engine!Routes -> 1 .. MaxConns \cup {0}]
    BY <1>1, <1>2, <2>1 DEF ConnsFit
  <2>4. shut \subseteq 1 .. MaxConns
    BY <1>3
  <2>5. OpPlaces = {"idle", "take", "connect", "ready", "acting", "acted", "left", "program", "done"}
    BY DEF OpPlaces, InHand
  <2>6. OpResults = {"none", "ok", "transport", "final", "cancelled"}
    BY DEF OpResults
  <2> QED BY <1>2, <2>2, <2>3, <2>4, <2>5, <2>6 DEF Engine!TypeOK, Engine!ConnIds, Engine!NoConn
<1>5. Engine!ChangesHappenOnce
  <2>1. ASSUME NEW o \in Ops, Engine!Changes(o)
        PROVE  /\ effects[o] <= 1
               /\ opAnswer[o] = "ok" => effects[o] = 1
               /\ opAnswer[o] \in {"transport", "final"} /\ ~began[o] => effects[o] = 0
    <3>1. OpFits(o) /\ 0 <= 1
      BY <1>1
    <3>2. CASE at[o] = "done"
      BY <2>1, <3>1, <3>2 DEF OpFits
    <3>3. CASE at[o] # "done"
      <4>1. opAnswer[o] = "none"
        BY <3>1, <3>3 DEF OpFits
      <4> QED BY <2>1, <3>1, <3>3, <4>1 DEF OpFits
    <3> QED BY <3>2, <3>3
  <2> QED BY <2>1 DEF Engine!ChangesHappenOnce
<1>6. Engine!PooledConnectionsAreFree
  BY <1>1 DEF Engine!PooledConnectionsAreFree, ConnsFit, Engine!NoConn
<1> QED BY <1>4, <1>5, <1>6

-----------------------------------------------------------------------------
(* All parts.                                                                 *)
LEMMA SftpBegins ==
  ASSUME Init
  PROVE  SftpInvariant
BY TaskBegins, QueueBegins, EngineBegins DEF Init, SftpInvariant

(* A step of one part leaves the others alone.                                   *)
LEMMA SftpStep ==
  ASSUME SftpInvariant, [Next]_vars
  PROVE  SftpInvariant'
<1>1. TaskInvariant /\ QueueInvariant /\ EngineInvariant
  BY DEF SftpInvariant
<1>2. UNCHANGED task => TaskInvariant'
  <2>1. UNCHANGED task => /\ Task!TypeOK' /\ Distinct(marks)'
                          /\ Task!RegistryIsExact' /\ Task!OrphansAreTold'
    BY <1>1 DEF task, TaskInvariant, Task!TypeOK, Task!RegistryTypes, Distinct,
       Task!RegistryIsExact,
                Task!OrphansAreTold, Task!InProgress, Task!Cardinality
  <2>2. UNCHANGED task => IdsHaveOneCall' /\ CancelsAreKept' /\ WorkersHaveCalls'
    BY <1>1 DEF task, TaskInvariant, IdsHaveOneCall, CancelsAreKept, WorkersHaveCalls,
       Task!InProgress
  <2> QED BY <2>1, <2>2 DEF TaskInvariant
<1>3. UNCHANGED queue => QueueInvariant'
  <2>1. UNCHANGED queue => /\ Queue!TypeOK' /\ Distinct(jobMarks)' /\ Ranked(jobMarks)'
    BY <1>1 DEF queue, QueueInvariant, Queue!TypeOK, Queue!RegistryTypes, Distinct, Ranked,
       Queue!Ended,
                Queue!Running, Queue!Cardinality
  <2>2. UNCHANGED queue => ActiveJobsWork' /\ CallsFollow' /\ Queue!EndedLeavesNothing'
    BY <1>1 DEF queue, QueueInvariant, ActiveJobsWork, CallsFollow, Queue!Sftp,
                Queue!EndedLeavesNothing, Queue!Ended, Queue!IsMarked
  <2>3. UNCHANGED queue => Queue!WaitsForARunningJob'
    <3>1. UNCHANGED queue => Queue!Running' = Queue!Running /\ key' = key /\ status' = status
      BY DEF queue, Queue!Running
    <3>2. UNCHANGED queue => Cardinality(Queue!Running)' = Cardinality(Queue!Running)
      BY <3>1
    <3> QED BY <1>1, <3>1, <3>2, QueueCounts DEF QueueInvariant, Queue!WaitsForARunningJob
  <2> QED BY <2>1, <2>2, <2>3 DEF QueueInvariant
<1>4. UNCHANGED engine => EngineInvariant'
  BY <1>1 DEF engine, EngineInvariant, EngineTypes, ConnsFit, OpFits, Engine!Systems,
     Engine!Natives,
              Engine!Changes
<1>5. CASE part = "task" /\ Task!Next /\ UNCHANGED <<part, queue, engine>>
  BY <1>1, <1>3, <1>4, <1>5, TaskStep DEF SftpInvariant
<1>6. CASE part = "queue" /\ Queue!Next /\ UNCHANGED <<part, task, engine>>
  BY <1>1, <1>2, <1>4, <1>6, QueueStep DEF SftpInvariant
<1>7. CASE part = "engine" /\ Engine!Next /\ UNCHANGED <<part, task, queue>>
  BY <1>1, <1>2, <1>3, <1>7, EngineStep DEF SftpInvariant
<1>8. CASE UNCHANGED vars
  BY <1>2, <1>3, <1>4, <1>8 DEF vars, SftpInvariant
<1> QED BY <1>5, <1>6, <1>7, <1>8 DEF Next

(* Commands, transfers and operations: the invariant holds throughout.           *)
THEOREM SftpHolds == Spec => []SftpInvariant
<1>1. Init => SftpInvariant
  BY SftpBegins
<1>2. SftpInvariant /\ [Next]_vars => SftpInvariant'
  BY SftpStep
<1> QED BY <1>1, <1>2, PTL DEF Spec

(* Whatever the interleaving of commands, answers and cancels, every variable has  *)
(* the type its declaration says.                                              *)
THEOREM SftpIsTyped == Spec => []TypesOK
<1>1. SftpInvariant => TypesOK
  BY EngineKeeps DEF SftpInvariant, TaskInvariant, QueueInvariant, TypesOK
<1> QED BY <1>1, SftpHolds, PTL

(* The registry has exactly the calls in progress, orphaned workers were told, and *)
(* a transfer that ended leaves neither a listener nor an uncancelled command.   *)
THEOREM EndedIsGone == Spec => []NothingIsLeft
<1>1. SftpInvariant => NothingIsLeft
  BY DEF SftpInvariant, TaskInvariant, QueueInvariant, NothingIsLeft
<1> QED BY <1>1, SftpHolds, PTL

(* However often routes, connections and the program are tried, a change is made   *)
(* at most once and answered as what it was, on a connection of one's own.        *)
THEOREM ChangesAreMadeOnce == Spec => []ChangesHappenOnce
<1>1. SftpInvariant => ChangesHappenOnce
  BY EngineKeeps DEF SftpInvariant, ChangesHappenOnce
<1> QED BY <1>1, SftpHolds, PTL

(* No step begins the work of a cancelled call or publishes what came of it.       *)
THEOREM CancelledStaysCancelled == Spec => CancelledIsFinal
<1>1. SftpInvariant /\ [Next]_vars => [Task!CancelledNeverStarts /\ Task!StaleNeverPublished]_vars
  <2>1. ASSUME SftpInvariant, Next
        PROVE  Task!CancelledNeverStarts /\ Task!StaleNeverPublished
    <3>1. TaskInvariant
      BY <2>1 DEF SftpInvariant
    <3>2. Task!Next \/ UNCHANGED task
      BY <2>1 DEF Next
    <3> QED BY <3>1, <3>2, TaskCancelsFinally
  <2> QED BY <2>1
<1> QED BY <1>1, SftpHolds, PTL DEF Spec, CancelledIsFinal
=============================================================================
