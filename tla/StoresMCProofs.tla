---------------------------- MODULE StoresMCProofs ----------------------------
(***************************************************************************)
(* The file of host keys, the store of secrets, a text in the editor, the     *)
(* output of the sftp program and the routes, for any number of connections,   *)
(* owners, secrets, targets and texts; and of the analysis of a command that    *)
(* what it leaves out it does not leave out unnoticed, and that the rules       *)
(* answer of any command.  Each part has an inductive invariant of its own: a   *)
(* step is one of one part, and leaves the others as they are.                 *)
(***************************************************************************)
EXTENDS StoresMC, SequenceTheorems, FiniteSetTheorems, WellFoundedInduction, TLAPS

-----------------------------------------------------------------------------
(* The file of host keys.                                                     *)

Entered == [Hosts -> HostKeys \cup {Keys!None}]

KeysTyped ==
  /\ file \in Entered /\ trusted \in Entered /\ seen \in [Conns -> Entered]
  /\ server \in [Hosts -> HostKeys]
  /\ step \in [Conns -> {"idle", "shown", "read", "writing", "verified", "refused"}]
  /\ host \in [Conns -> Hosts] /\ key \in [Conns -> HostKeys \cup {Keys!None}]
  /\ forget \in [host : Hosts \cup {Keys!None}, seen : Entered, at : {"none", "read", "writing"}]
  /\ raced \in BOOLEAN /\ changes \in 0 .. Changes

(* While accesses do not overlap, who writes the file is alone with it.         *)
WritersAreAlone ==
  ~raced =>
    /\ \A c \in Conns : step[c] = "writing" =>
         forget.at = "none" /\ \A d \in Conns \ {c} : step[d] \notin {"read", "writing"}
    /\ forget.at = "writing" => \A c \in Conns : step[c] \notin {"read", "writing"}

(* What was read of it is what was entered, and whoever adds an entry found none. *)
ReadIsEntered ==
  ~raced =>
    /\ \A c \in Conns : step[c] \in {"read", "writing"} => seen[c] = trusted
    /\ \A c \in Conns : step[c] = "writing" => trusted[host[c]] = Keys!None
    /\ forget.at # "none" => forget.seen = trusted

KeysInvariant == KeysTyped /\ WritersAreAlone /\ ReadIsEntered /\ Keys!EnteredKeysHold

(* The file is empty, and nobody is at it.                                     *)
LEMMA KeysInit == Init => KeysInvariant
<1> SUFFICES ASSUME Keys!Init PROVE KeysInvariant
  BY DEF Init
<1> USE DEF Keys!Init, Keys!Empty, Keys!NoForget
<1>1. KeysTyped
  <2>1. (CHOOSE k \in HostKeys : TRUE) \in HostKeys /\ (CHOOSE h \in Hosts : TRUE) \in Hosts
    BY Names
  <2>2. file \in Entered /\ trusted \in Entered /\ seen \in [Conns -> Entered]
    BY DEF Entered
  <2>3. server \in [Hosts -> HostKeys] /\ host \in [Conns -> Hosts]
    BY <2>1
  <2>4. forget \in [host : Hosts \cup {Keys!None}, seen : Entered, at : {"none", "read", "writing"}]
    BY DEF Entered
  <2>5. step \in [Conns -> {"idle", "shown", "read", "writing", "verified", "refused"}]
    OBVIOUS
  <2>6. key \in [Conns -> HostKeys \cup {Keys!None}]
    OBVIOUS
  <2>7. raced \in BOOLEAN /\ changes \in 0 .. Changes
    <3>1. 0 \in 0 .. Changes
      BY Bounds
    <3>2. raced = FALSE /\ changes = 0
      OBVIOUS
    <3> QED BY <3>1, <3>2
  <2> QED BY <2>2, <2>3, <2>4, <2>5, <2>6, <2>7 DEF KeysTyped
<1> QED BY <1>1 DEF KeysInvariant, WritersAreAlone, ReadIsEntered, Keys!EnteredKeysHold

(* The parts of a connection's own steps keep their types.                     *)
LEMMA KeysKeepTypes == KeysInvariant /\ Keys!Next => KeysTyped'
<1> SUFFICES ASSUME KeysInvariant, Keys!Next PROVE KeysTyped'
  OBVIOUS
<1> USE DEF KeysInvariant, KeysTyped, Entered, Keys!conns
<1>1. ASSUME NEW c \in Conns, Keys!Connect(c)
      PROVE  KeysTyped'
  BY <1>1 DEF Keys!Connect
<1>2. ASSUME NEW c \in Conns, Keys!ReadFile(c)
      PROVE  KeysTyped'
  BY <1>2 DEF Keys!ReadFile
<1>3. ASSUME NEW c \in Conns, Keys!Check(c)
      PROVE  KeysTyped'
  BY <1>3 DEF Keys!Check
<1>4. ASSUME NEW c \in Conns, Keys!Truncate(c)
      PROVE  KeysTyped'
  BY <1>4 DEF Keys!Truncate, Keys!Empty
<1>5. ASSUME NEW c \in Conns, Keys!WriteFile(c)
      PROVE  KeysTyped'
  BY <1>5 DEF Keys!WriteFile, Keys!Entries
<1>6. ASSUME NEW h \in Hosts, Keys!Forget(h)
      PROVE  KeysTyped'
  BY <1>6 DEF Keys!Forget
<1>7. ASSUME NEW h \in Hosts, Keys!NewKey(h)
      PROVE  KeysTyped'
  BY <1>7, Bounds DEF Keys!NewKey
<1>8. CASE Keys!Forgets
  BY <1>8 DEF Keys!Forgets, Keys!Empty
<1>9. CASE Keys!Forgotten
  BY <1>9 DEF Keys!Forgotten, Keys!Without, Keys!NoForget, Keys!Empty
<1> QED BY <1>1, <1>2, <1>3, <1>4, <1>5, <1>6, <1>7, <1>8, <1>9 DEF Keys!Next

(* One access after the other leaves the file as it was entered.               *)
LEMMA KeysKeepEntries ==
  KeysInvariant /\ Keys!Next => (WritersAreAlone /\ ReadIsEntered /\ Keys!EnteredKeysHold)'
<1> DEFINE Kept == WritersAreAlone /\ ReadIsEntered /\ Keys!EnteredKeysHold
<1> SUFFICES ASSUME KeysInvariant, Keys!Next PROVE Kept'
  OBVIOUS
<1> USE DEF KeysInvariant, KeysTyped, Entered, WritersAreAlone, ReadIsEntered, Keys!EnteredKeysHold,
            Keys!conns, Keys!Writing, Keys!Holding
<1>1. ASSUME NEW c \in Conns, Keys!Connect(c)
      PROVE  Kept'
  BY <1>1 DEF Keys!Connect
<1>2. ASSUME NEW c \in Conns, Keys!ReadFile(c)
      PROVE  Kept'
  BY <1>2 DEF Keys!ReadFile
<1>3. ASSUME NEW c \in Conns, Keys!Check(c)
      PROVE  Kept'
  BY <1>3 DEF Keys!Check
<1>4. ASSUME NEW c \in Conns, Keys!Truncate(c)
      PROVE  Kept'
  BY <1>4 DEF Keys!Truncate, Keys!Found
<1>5. ASSUME NEW c \in Conns, Keys!WriteFile(c)
      PROVE  Kept'
  <2>1. /\ step[c] = "writing" /\ file' = Keys!Entries(c)
        /\ trusted' = [trusted EXCEPT ![host[c]] = key[c]]
        /\ step' = [step EXCEPT ![c] = "verified"]
        /\ UNCHANGED <<host, seen, key, forget, raced>>
    BY <1>5 DEF Keys!WriteFile
  <2>2. WritersAreAlone'
    BY <2>1
  <2>3. ReadIsEntered'
    BY <2>1 DEF Keys!Entries
  <2>4. Keys!EnteredKeysHold'
    BY <2>1 DEF Keys!Entries
  <2> QED BY <2>2, <2>3, <2>4
<1>6. ASSUME NEW h \in Hosts, Keys!Forget(h)
      PROVE  Kept'
  BY <1>6 DEF Keys!Forget
<1>7. ASSUME NEW h \in Hosts, Keys!NewKey(h)
      PROVE  Kept'
  BY <1>7 DEF Keys!NewKey
<1>8. CASE Keys!Forgets
  BY <1>8 DEF Keys!Forgets
<1>9. CASE Keys!Forgotten
  BY <1>9 DEF Keys!Forgotten, Keys!Without, Keys!NoForget
<1> QED BY <1>1, <1>2, <1>3, <1>4, <1>5, <1>6, <1>7, <1>8, <1>9 DEF Keys!Next

(* A step of the keys keeps their invariant; a step of another part leaves them. *)
LEMMA KeysStep == KeysInvariant /\ [Next]_vars => KeysInvariant'
<1> SUFFICES ASSUME KeysInvariant, [Next]_vars PROVE KeysInvariant'
  OBVIOUS
<1>1. CASE Keys!Next
  BY <1>1, KeysKeepTypes, KeysKeepEntries DEF KeysInvariant
<1>2. CASE UNCHANGED keys
  BY <1>2 DEF keys, KeysInvariant, KeysTyped, Entered, WritersAreAlone, ReadIsEntered,
              Keys!EnteredKeysHold
<1> QED BY <1>1, <1>2 DEF Next, vars

(* A connection is verified under the key that was entered for its host, or     *)
(* enters the first one.                                                     *)
LEMMA VerifiedAsEntered == KeysInvariant /\ [Next]_vars => Keys!ChangedKeysAreRefused
<1> SUFFICES ASSUME KeysInvariant, [Next]_vars,
                    NEW c \in Conns, step[c] # "verified", step'[c] = "verified", ~raced
             PROVE  trusted[host[c]] \in {Keys!None, key[c]}
  BY DEF Keys!ChangedKeysAreRefused
<1> USE DEF KeysInvariant, KeysTyped, ReadIsEntered
<1>1. PICK d \in Conns : Keys!Connect(d) \/ Keys!ReadFile(d) \/ Keys!Check(d) \/ Keys!Truncate(d)
                         \/ Keys!WriteFile(d)
  BY DEF Next, vars, keys, Keys!Next, Keys!Forget, Keys!NewKey, Keys!Forgets, Keys!Forgotten, Keys!conns
<1>2. CASE Keys!Connect(d) \/ Keys!ReadFile(d) \/ Keys!Truncate(d)
  BY <1>2 DEF Keys!Connect, Keys!ReadFile, Keys!Truncate
<1>3. CASE Keys!Check(d)
  BY <1>3 DEF Keys!Check, Keys!Found
<1>4. CASE Keys!WriteFile(d)
  BY <1>4 DEF Keys!WriteFile
<1> QED BY <1>1, <1>2, <1>3, <1>4

(* KeysInvariant: in a run of any connections and users at the file.            *)
THEOREM KeysHold == Spec => []KeysInvariant
<1> QED BY KeysInit, KeysStep, PTL DEF Spec

(* A server whose host key has changed is refused until the user forgets it,    *)
(* unless two accesses to the file overlap (verify_known_host): the property of  *)
(* the run, for any number of connections, hosts and keys.                     *)
THEOREM ChangedKeysStayRefused == Spec => ChangedKeysAreRefused
<1>1. KeysInvariant /\ KeysInvariant' /\ [Next]_vars
        => [Keys!EnteredKeysHold' /\ Keys!ChangedKeysAreRefused]_vars
  BY VerifiedAsEntered DEF KeysInvariant
<1> QED BY <1>1, KeysHold, PTL DEF Spec, ChangedKeysAreRefused

-----------------------------------------------------------------------------
(* The store of secrets.                                                      *)

Calls == [call : {"save", "read", "delete"}, owner : Store!Owners, secret : Passwords,
          key : Store!Owners]

StoreTyped ==
  /\ rows \in [Store!Owners -> [ref : Store!Owners \cup {Store!NoRef, "nowhere"},
                                column : Passwords \cup {Store!NoSecret}]]
  /\ stored \in [Store!Owners -> Passwords \cup {Store!Absent, Store!Empty}]
  /\ keyring \in [Store!Owners -> Passwords \cup {Store!NoSecret}]
  /\ reachable \in BOOLEAN
  /\ held \in {Store!NoCall} \cup Calls
  /\ deleting \in [step : {"no", "erase", "row"}, owner : Store!Owners \cup {"nobody"},
                   key : Store!Owners \cup {Store!NoRef}]
  /\ told \in [owner : Store!Owners \cup {"nobody"}, secret : Passwords \cup {Store!NoSecret}]
  /\ due \in [Store!Owners -> SUBSET Passwords]
  /\ saves \in 0 .. MaxSaves

(* Nobody's row refers to another's entry, and a secret that is in its row still *)
(* is the one its owner has.                                                  *)
RefersToOwn(o) ==
  /\ rows[o].ref \in {o, Store!NoRef, "nowhere"}
  /\ rows[o].column # Store!NoSecret => rows[o].ref = Store!NoRef /\ due[o] = {rows[o].column}

(* The call between its two writes: what it stored is still there, unless it was *)
(* erased, and what it moves is also still in the row.                         *)
HeldIsOwn ==
  held # Store!NoCall =>
    /\ held.key = held.owner
    /\ held.call = "save" => stored[held.owner] \in {held.secret, Store!Empty}
    /\ held.call # "save" => /\ held.secret = rows[held.owner].column
                             /\ stored[held.owner] = held.secret
    /\ held.call = "delete" => deleting = Store!Idle

(* What is deleted was moved out of its row before.                            *)
DeletesOwn ==
  deleting # Store!Idle =>
    /\ deleting.owner \in Store!Owners /\ rows[deleting.owner].column = Store!NoSecret
    /\ deleting.step = "erase" => deleting.key = deleting.owner

(* What a read of the row would find is what its owner is due, or lies in the    *)
(* keyring.                                                                   *)
EntryIsDue(o) ==
  /\ rows[o].ref = o =>
       /\ stored[o] \in Passwords => stored[o] \in due[o]
       /\ stored[o] = Store!Empty => due[o] = {}
       /\ stored[o] = Store!Absent => keyring[o] \in due[o]
  /\ rows[o].ref = Store!NoRef /\ rows[o].column = Store!NoSecret => due[o] = {}

StoreInvariant ==
  /\ StoreTyped /\ HeldIsOwn /\ DeletesOwn
  /\ \A o \in Store!Owners : RefersToOwn(o) /\ EntryIsDue(o)
  /\ Store!OnlyDueSecrets /\ Store!SecretsAreKept

(* What no owner and no secret is called.                                      *)
LEMMA NamesAreApart ==
  /\ \A o \in Store!Owners : o # Store!NoRef /\ o # "nowhere" /\ o # "nobody"
  /\ \A s \in Passwords : s # Store!NoSecret /\ s # Store!Absent /\ s # Store!Empty
  /\ Store!NoRef # "nowhere" /\ Store!Absent # Store!Empty
<1>1. Store!Absent # Store!Empty
  BY DEF Store!Absent, Store!Empty
<1>2. Store!NoRef # "nowhere"
  BY Zenon DEF Store!NoRef
<1> QED BY <1>1, <1>2, Names DEF Store!NoRow, Store!Nothing

(* A secret goes to the entry that is named after its owner, whatever reference *)
(* a draft came with (prepare_endpoint_for_storage).                           *)
LEMMA KeyIsOwn ==
  ASSUME NEW o \in Store!Owners, NEW r, NEW s, RefersToOwn(o), r \in Store!Refs(o, s) \cup {rows[o].ref},
         rows[o].ref # "nowhere" \/ r \in Store!Refs(o, s)
  PROVE  Store!KeyFor(o, r) = o
<1> USE NamesAreApart
<1>1. CASE o \in Connections
  BY <1>1 DEF Store!KeyFor
<1>2. CASE o \notin Connections
  <2>1. r \in {Store!NoRef, o}
    BY <1>2 DEF Store!Refs, RefersToOwn
  <2> QED BY <2>1 DEF Store!KeyFor
<1> QED BY <1>1, <1>2

(* What an older version left is with its owner, in one place.                  *)
LEMMA StoreInit == Init => StoreInvariant
<1> SUFFICES ASSUME Store!Init PROVE StoreInvariant
  BY DEF Init
<1> PICK left \in [Store!Owners -> {"none", "column", "keyring"}], old \in Passwords :
      /\ rows = [o \in Store!Owners |-> CASE left[o] = "none" -> Store!NoRow
                                    [] left[o] = "column" -> Store!Row(Store!NoRef, old)
                                    [] OTHER -> Store!Row(o, Store!NoSecret)]
      /\ stored = [o \in Store!Owners |-> Store!Absent]
      /\ keyring = [o \in Store!Owners |-> IF left[o] = "keyring" THEN old ELSE Store!NoSecret]
      /\ due = [o \in Store!Owners |-> IF left[o] = "none" THEN {} ELSE {old}]
      /\ reachable \in BOOLEAN
      /\ held = Store!NoCall
      /\ deleting = Store!Idle
      /\ told = Store!Nothing
      /\ saves = 0
  BY DEF Store!Init
<1> USE NamesAreApart DEF Store!NoRow, Store!Row, Store!Nothing, Store!Idle
<1>1. StoreTyped
  <2>1. rows \in [Store!Owners -> [ref : Store!Owners \cup {Store!NoRef, "nowhere"},
                                   column : Passwords \cup {Store!NoSecret}]]
    OBVIOUS
  <2>2. /\ stored \in [Store!Owners -> Passwords \cup {Store!Absent, Store!Empty}]
        /\ keyring \in [Store!Owners -> Passwords \cup {Store!NoSecret}]
        /\ due \in [Store!Owners -> SUBSET Passwords]
    OBVIOUS
  <2>3. saves \in 0 .. MaxSaves
    <3>1. 0 \in 0 .. MaxSaves
      BY Bounds
    <3> QED BY <3>1
  <2> QED BY <2>1, <2>2, <2>3 DEF StoreTyped
<1>2. \A o \in Store!Owners : RefersToOwn(o) /\ EntryIsDue(o)
  BY DEF RefersToOwn, EntryIsDue
<1> QED BY <1>1, <1>2 DEF StoreInvariant, HeldIsOwn, DeletesOwn, Store!OnlyDueSecrets, Store!SecretsAreKept

(* A save puts the secret in place, and the row refers to it or will.           *)
LEMMA SaveSecretKeeps ==
  ASSUME StoreInvariant, NEW o \in Store!Owners, NEW r, NEW s, Store!SaveSecret(o, r, s)
  PROVE  StoreInvariant'
<1> USE NamesAreApart DEF StoreInvariant
<1>1. Store!KeyFor(o, r) = o
  BY KeyIsOwn DEF Store!SaveSecret
<1>2. /\ s \in Passwords /\ held = Store!NoCall
      /\ stored' = [stored EXCEPT ![o] = s]
      /\ held' = [call |-> "save", owner |-> o, secret |-> s, key |-> o]
      /\ due' = [due EXCEPT ![o] = IF o = rows[o].ref THEN @ \cup {s} ELSE @]
      /\ told' = Store!Nothing
      /\ UNCHANGED <<rows, keyring, reachable, deleting>>
  BY <1>1 DEF Store!SaveSecret
<1>3. saves' \in 0 .. MaxSaves
  BY Bounds DEF Store!SaveSecret, StoreTyped
<1>4. StoreTyped'
  BY <1>2, <1>3 DEF StoreTyped, Calls, Store!Nothing
<1>5. \A p \in Store!Owners : (RefersToOwn(p) /\ EntryIsDue(p))'
  BY <1>2 DEF RefersToOwn, EntryIsDue, StoreTyped
<1>6. HeldIsOwn' /\ DeletesOwn'
  BY <1>2 DEF HeldIsOwn, DeletesOwn, StoreTyped, Store!NoCall
<1> QED BY <1>2, <1>4, <1>5, <1>6 DEF Store!OnlyDueSecrets, Store!SecretsAreKept, Store!Nothing

(* The row refers to what was stored, or to what is left of it if it was erased. *)
LEMMA SaveRowKeeps ==
  ASSUME StoreInvariant, Store!SaveRow
  PROVE  StoreInvariant'
<1> USE NamesAreApart DEF StoreInvariant
<1> DEFINE o == held.owner
<1>1. /\ held \in Calls /\ o \in Store!Owners /\ held.key = o
      /\ stored[o] \in {held.secret, Store!Empty}
  BY DEF Store!SaveRow, HeldIsOwn, StoreTyped, Calls, Store!NoCall
<1>2. /\ rows' = [rows EXCEPT ![o] = Store!Row(o, Store!NoSecret)]
      /\ due' = [due EXCEPT ![o] = {held.secret} \cap {stored[o]}]
      /\ held' = Store!NoCall /\ told' = Store!Nothing
      /\ UNCHANGED <<stored, keyring, reachable, deleting, saves>>
  BY <1>1 DEF Store!SaveRow
<1>3. StoreTyped'
  BY <1>1, <1>2 DEF StoreTyped, Calls, Store!Nothing, Store!Row
<1>4. \A p \in Store!Owners : (RefersToOwn(p) /\ EntryIsDue(p))'
  <2> TAKE p \in Store!Owners
  <2>1. CASE p # o
    BY <1>1, <1>2, <2>1 DEF RefersToOwn, EntryIsDue, StoreTyped
  <2>2. CASE p = o
    <3>1. held.secret \in Passwords
      BY <1>1 DEF Calls
    <3>2. rows'[o] = Store!Row(o, Store!NoSecret) /\ due'[o] = {held.secret} \cap {stored[o]}
      BY <1>1, <1>2 DEF StoreTyped
    <3>3. rows'[o].ref = o /\ rows'[o].column = Store!NoSecret
      BY <3>2 DEF Store!Row
    <3>4. (stored[o] \in Passwords => stored[o] \in due'[o]) /\ (stored[o] = Store!Empty => due'[o] = {})
      BY <1>1, <3>1, <3>2
    <3>5. stored' = stored /\ stored[o] # Store!Absent
      BY <1>1, <1>2, <3>1
    <3> QED BY <1>1, <2>2, <3>3, <3>4, <3>5 DEF RefersToOwn, EntryIsDue
  <2> QED BY <2>1, <2>2
<1>5. HeldIsOwn' /\ DeletesOwn'
  BY <1>1, <1>2 DEF HeldIsOwn, DeletesOwn, StoreTyped, Store!Row
<1> QED BY <1>2, <1>3, <1>4, <1>5 DEF Store!OnlyDueSecrets, Store!SecretsAreKept, Store!Nothing

(* A row that is saved without a password keeps its own reference or has none.  *)
LEMMA SaveWithoutKeeps ==
  ASSUME StoreInvariant, NEW o \in Store!Owners, NEW r, Store!SaveWithout(o, r)
  PROVE  StoreInvariant'
<1> USE NamesAreApart DEF StoreInvariant
<1>1. r \in {Store!NoRef} \cup {rows[o].ref} /\ r # "nowhere"
  BY DEF Store!SaveWithout, Store!Refs
<1>2. /\ held = Store!NoCall /\ rows[o].column = Store!NoSecret
      /\ rows' = [rows EXCEPT ![o] = Store!Row(r, Store!NoSecret)]
      /\ due' = [due EXCEPT ![o] = IF r = Store!NoRef THEN {} ELSE @]
      /\ told' = Store!Nothing
      /\ UNCHANGED <<stored, keyring, reachable, held, deleting, saves>>
  BY DEF Store!SaveWithout
<1>3. StoreTyped'
  BY <1>1, <1>2 DEF StoreTyped, Store!Nothing, Store!Row
<1>4. \A p \in Store!Owners : (RefersToOwn(p) /\ EntryIsDue(p))'
  BY <1>1, <1>2 DEF RefersToOwn, EntryIsDue, StoreTyped, Store!Row
<1>5. HeldIsOwn' /\ DeletesOwn'
  BY <1>2 DEF HeldIsOwn, DeletesOwn, StoreTyped, Store!Row
<1> QED BY <1>2, <1>3, <1>4, <1>5 DEF Store!OnlyDueSecrets, Store!SecretsAreKept, Store!Nothing

(* A read that finds its secret in the keyring only stores it.                  *)
LEMMA FetchKeeps ==
  ASSUME StoreInvariant, NEW o \in Store!Owners, rows[o] # Store!NoRow, rows[o].column = Store!NoSecret,
         held = Store!NoCall, Store!Fetch(rows[o].ref), UNCHANGED <<rows, due>>
  PROVE  /\ stored' \in [Store!Owners -> Passwords \cup {Store!Absent, Store!Empty}]
         /\ keyring' \in [Store!Owners -> Passwords \cup {Store!NoSecret}]
         /\ \A p \in Store!Owners : (RefersToOwn(p) /\ EntryIsDue(p))'
<1> USE NamesAreApart DEF StoreInvariant
<1>1. CASE rows[o].ref # Store!NoRef /\ Store!Imports(rows[o].ref)
  <2>1. rows[o].ref = o \/ rows[o].ref = "nowhere"
    BY <1>1 DEF RefersToOwn
  <2>2. rows[o].ref = o
    <3>1. rows[o] = [ref |-> rows[o].ref, column |-> rows[o].column]
      BY DEF StoreTyped
    <3> QED BY <2>1, <3>1 DEF Store!NoRow
  <2>3. stored[o] = Store!Absent /\ keyring[o] \in due[o] /\ keyring[o] \in Passwords
    BY <1>1, <2>2 DEF Store!Imports, EntryIsDue, StoreTyped
  <2>4. /\ stored' = [stored EXCEPT ![o] = keyring[o]]
        /\ keyring' \in {keyring, [keyring EXCEPT ![o] = Store!NoSecret]}
    BY <1>1, <2>2 DEF Store!Fetch
  <2>5. /\ stored' \in [Store!Owners -> Passwords \cup {Store!Absent, Store!Empty}]
        /\ keyring' \in [Store!Owners -> Passwords \cup {Store!NoSecret}]
    BY <2>3, <2>4 DEF StoreTyped
  <2>6. /\ stored'[o] = keyring[o] /\ keyring'[o] \in {keyring[o], Store!NoSecret}
        /\ \A p \in Store!Owners : p # o => stored'[p] = stored[p] /\ keyring'[p] = keyring[p]
    BY <2>4 DEF StoreTyped
  <2>7. ASSUME NEW p \in Store!Owners PROVE (RefersToOwn(p) /\ EntryIsDue(p))'
    <3>1. CASE p = o
      BY <2>3, <2>6, <3>1 DEF RefersToOwn, EntryIsDue, StoreTyped
    <3>2. CASE p # o
      BY <2>6, <3>2 DEF RefersToOwn, EntryIsDue
    <3> QED BY <3>1, <3>2
  <2> QED BY <2>5, <2>7
<1>2. CASE ~(rows[o].ref # Store!NoRef /\ Store!Imports(rows[o].ref))
  BY <1>2 DEF Store!Fetch, RefersToOwn, EntryIsDue, StoreTyped
<1> QED BY <1>1, <1>2

(* What a read answers is what its owner is due.                                *)
LEMMA ReadKeeps ==
  ASSUME StoreInvariant, NEW o \in Store!Owners, Store!Read(o)
  PROVE  StoreInvariant'
<1> USE NamesAreApart DEF StoreInvariant
<1>1. /\ held = Store!NoCall /\ rows[o] # Store!NoRow /\ rows[o].column = Store!NoSecret
      /\ Store!Fetch(rows[o].ref) /\ told' = Store!Answer(o)
      /\ UNCHANGED <<rows, reachable, held, deleting, due, saves>>
  BY DEF Store!Read
<1>2. /\ stored' \in [Store!Owners -> Passwords \cup {Store!Absent, Store!Empty}]
      /\ keyring' \in [Store!Owners -> Passwords \cup {Store!NoSecret}]
      /\ \A p \in Store!Owners : (RefersToOwn(p) /\ EntryIsDue(p))'
  BY <1>1, FetchKeeps
<1>3. rows[o].ref \in {o, Store!NoRef}
  <2>1. rows[o] = [ref |-> rows[o].ref, column |-> rows[o].column]
    BY DEF StoreTyped
  <2> QED BY <1>1, <2>1 DEF Store!NoRow, RefersToOwn
<1>4. CASE rows[o].ref = Store!NoRef
  <2>1. told' = [owner |-> o, secret |-> Store!NoSecret] /\ due[o] = {}
    BY <1>1, <1>4 DEF Store!Answer, EntryIsDue
  <2> QED BY <1>1, <1>2, <2>1
       DEF StoreTyped, HeldIsOwn, DeletesOwn, Store!OnlyDueSecrets, Store!SecretsAreKept
<1>5. CASE rows[o].ref = o
  <2>1. told' = [owner |-> o, secret |-> Store!Entry(o)]
    BY <1>1, <1>5 DEF Store!Answer
  <2>2. CASE stored[o] \in Passwords
    <3>1. told' = [owner |-> o, secret |-> stored[o]] /\ stored[o] \in due[o]
      BY <1>5, <2>1, <2>2 DEF Store!Entry, EntryIsDue
    <3> QED BY <1>1, <1>2, <2>2, <3>1
         DEF StoreTyped, HeldIsOwn, DeletesOwn, Store!OnlyDueSecrets, Store!SecretsAreKept
  <2>3. CASE stored[o] = Store!Empty
    <3>1. told' = [owner |-> o, secret |-> Store!NoSecret] /\ due[o] = {}
      BY <1>5, <2>1, <2>3 DEF Store!Entry, Store!Imports, EntryIsDue
    <3> QED BY <1>1, <1>2, <3>1
         DEF StoreTyped, HeldIsOwn, DeletesOwn, Store!OnlyDueSecrets, Store!SecretsAreKept
  <2>4. CASE stored[o] = Store!Absent
    <3>1. keyring[o] \in due[o] /\ keyring[o] \in Passwords
      BY <1>5, <2>4 DEF EntryIsDue, StoreTyped
    <3>2. CASE reachable
      <4>1. told' = [owner |-> o, secret |-> keyring[o]]
        BY <2>1, <2>4, <3>1, <3>2 DEF Store!Entry, Store!Imports
      <4> QED BY <1>1, <1>2, <3>1, <4>1
           DEF StoreTyped, HeldIsOwn, DeletesOwn, Store!OnlyDueSecrets, Store!SecretsAreKept
    <3>3. CASE ~reachable
      <4>1. told' = [owner |-> o, secret |-> Store!NoSecret] /\ keyring' = keyring
        BY <1>1, <2>1, <2>4, <3>1, <3>3 DEF Store!Entry, Store!Imports, Store!Fetch
      <4> QED BY <1>1, <1>2, <1>5, <3>1, <3>3, <4>1
           DEF StoreTyped, HeldIsOwn, DeletesOwn, Store!OnlyDueSecrets, Store!SecretsAreKept
    <3> QED BY <3>2, <3>3
  <2> QED BY <2>2, <2>3, <2>4 DEF StoreTyped
<1> QED BY <1>3, <1>4, <1>5

(* A secret that moves is in both places until its row is written.              *)
LEMMA MoveSecretKeeps ==
  ASSUME StoreInvariant, NEW o \in Store!Owners, NEW c \in {"read", "delete"}, Store!MoveSecret(o, c)
  PROVE  StoreInvariant'
<1> USE NamesAreApart DEF StoreInvariant
<1>1. rows[o].ref = Store!NoRef /\ Store!KeyFor(o, rows[o].ref) = o
  BY DEF Store!MoveSecret, RefersToOwn, Store!KeyFor
<1>2. /\ rows[o].column \in Passwords /\ held = Store!NoCall /\ (c = "delete" => deleting = Store!Idle)
      /\ stored' = [stored EXCEPT ![o] = rows[o].column]
      /\ held' = [call |-> c, owner |-> o, secret |-> rows[o].column, key |-> o]
      /\ told' = Store!Nothing
      /\ UNCHANGED <<rows, keyring, reachable, deleting, due, saves>>
  BY <1>1 DEF Store!MoveSecret, StoreTyped
<1>3. StoreTyped'
  BY <1>2 DEF StoreTyped, Calls, Store!Nothing
<1>4. \A p \in Store!Owners : (RefersToOwn(p) /\ EntryIsDue(p))'
  BY <1>1, <1>2 DEF RefersToOwn, EntryIsDue, StoreTyped
<1>5. HeldIsOwn' /\ DeletesOwn'
  BY <1>2 DEF HeldIsOwn, DeletesOwn, StoreTyped
<1> QED BY <1>2, <1>3, <1>4, <1>5 DEF Store!OnlyDueSecrets, Store!SecretsAreKept, Store!Nothing

(* Then the row refers to it, and it is handed out.                             *)
LEMMA MoveRowKeeps ==
  ASSUME StoreInvariant, Store!MoveRow
  PROVE  StoreInvariant'
<1> USE NamesAreApart DEF StoreInvariant
<1> DEFINE o == held.owner
<1>1. /\ held \in Calls /\ o \in Store!Owners /\ held.key = o /\ held.secret \in Passwords
      /\ held.secret = rows[o].column /\ stored[o] = held.secret /\ due[o] = {held.secret}
  BY DEF Store!MoveRow, HeldIsOwn, StoreTyped, Calls, Store!NoCall, RefersToOwn
<1>2. /\ rows' = [rows EXCEPT ![o] = Store!Row(o, Store!NoSecret)]
      /\ deleting' \in {deleting, [step |-> "erase", owner |-> o, key |-> o]}
      /\ told' = [owner |-> o, secret |-> held.secret]
      /\ held' = Store!NoCall
      /\ UNCHANGED <<stored, keyring, reachable, due, saves>>
  BY <1>1 DEF Store!MoveRow
<1>3. StoreTyped'
  BY <1>1, <1>2 DEF StoreTyped, Store!Row
<1>4. \A p \in Store!Owners : (RefersToOwn(p) /\ EntryIsDue(p))'
  BY <1>1, <1>2 DEF RefersToOwn, EntryIsDue, StoreTyped, Store!Row
<1>5. HeldIsOwn' /\ DeletesOwn'
  BY <1>1, <1>2 DEF HeldIsOwn, DeletesOwn, StoreTyped, Store!Row
<1> QED BY <1>1, <1>2, <1>3, <1>4, <1>5 DEF Store!OnlyDueSecrets, Store!SecretsAreKept

(* A delete reads its row first.                                                *)
LEMMA DeleteReadKeeps ==
  ASSUME StoreInvariant, NEW o \in Store!Owners, Store!DeleteRead(o)
  PROVE  StoreInvariant'
<1> USE NamesAreApart DEF StoreInvariant
<1>1. /\ held = Store!NoCall /\ rows[o] # Store!NoRow /\ rows[o].column = Store!NoSecret
      /\ Store!Fetch(rows[o].ref) /\ told' = Store!Nothing
      /\ deleting' = [step |-> IF rows[o].ref = Store!NoRef THEN "row" ELSE "erase",
                      owner |-> o, key |-> rows[o].ref]
      /\ UNCHANGED <<rows, reachable, held, due, saves>>
  BY DEF Store!DeleteRead
<1>2. /\ stored' \in [Store!Owners -> Passwords \cup {Store!Absent, Store!Empty}]
      /\ keyring' \in [Store!Owners -> Passwords \cup {Store!NoSecret}]
      /\ \A p \in Store!Owners : (RefersToOwn(p) /\ EntryIsDue(p))'
  BY <1>1, FetchKeeps
<1>3. rows[o].ref \in {o, Store!NoRef}
  <2>1. rows[o] = [ref |-> rows[o].ref, column |-> rows[o].column]
    BY DEF StoreTyped
  <2> QED BY <1>1, <2>1 DEF Store!NoRow, RefersToOwn
<1>4. StoreTyped'
  BY <1>1, <1>2, <1>3 DEF StoreTyped, Store!Nothing
<1>5. HeldIsOwn' /\ DeletesOwn'
  BY <1>1, <1>3 DEF HeldIsOwn, DeletesOwn
<1> QED BY <1>1, <1>2, <1>4, <1>5 DEF Store!OnlyDueSecrets, Store!SecretsAreKept, Store!Nothing

(* An erased entry stays, without a value, so that nothing is asked of the       *)
(* keyring any more (delete_secret).                                           *)
LEMMA EraseKeeps ==
  ASSUME StoreInvariant, Store!Erase
  PROVE  StoreInvariant'
<1> USE NamesAreApart DEF StoreInvariant
<1> DEFINE o == deleting.owner
<1>1. deleting.key = o /\ o \in Store!Owners /\ rows[o].column = Store!NoSecret
  BY DEF Store!Erase, DeletesOwn, Store!Idle
<1>2. /\ stored' = [stored EXCEPT ![o] = Store!Empty]
      /\ keyring' \in {keyring, [keyring EXCEPT ![o] = Store!NoSecret]}
      /\ deleting' = [deleting EXCEPT !.step = "row"]
      /\ due' = [due EXCEPT ![o] = {}]
      /\ told' = Store!Nothing
      /\ UNCHANGED <<rows, reachable, held, saves>>
  BY <1>1 DEF Store!Erase, Store!Erased
<1>3. StoreTyped'
  BY <1>1, <1>2 DEF StoreTyped, Store!Nothing
<1>4. \A p \in Store!Owners : (RefersToOwn(p) /\ EntryIsDue(p))'
  BY <1>1, <1>2 DEF RefersToOwn, EntryIsDue, StoreTyped
<1>5. HeldIsOwn'
  <2>1. held # Store!NoCall => held \in Calls /\ held.secret \in Passwords
    BY DEF StoreTyped, Calls
  <2>2. held # Store!NoCall /\ held.call # "save" => held.owner # o
    BY <1>1, <2>1 DEF HeldIsOwn
  <2>3. held.call = "delete" /\ held # Store!NoCall => FALSE
    BY DEF HeldIsOwn, Store!Erase, Store!Idle
  <2> QED BY <1>1, <1>2, <2>1, <2>2, <2>3 DEF HeldIsOwn, StoreTyped, Calls
<1>6. DeletesOwn'
  BY <1>1, <1>2 DEF DeletesOwn, StoreTyped
<1> QED BY <1>2, <1>3, <1>4, <1>5, <1>6 DEF Store!OnlyDueSecrets, Store!SecretsAreKept, Store!Nothing

(* The row goes; what is interrupted stays where it is; the keyring comes and goes. *)
LEMMA OthersKeep ==
  ASSUME StoreInvariant, Store!DeleteRow \/ Store!Interrupt \/ Store!ServiceChanges
  PROVE  StoreInvariant'
<1> USE NamesAreApart DEF StoreInvariant
<1>1. CASE Store!DeleteRow
  <2>1. deleting.owner \in Store!Owners
    BY <1>1 DEF Store!DeleteRow, DeletesOwn, Store!Idle
  <2>2. StoreTyped'
    BY <1>1, <2>1 DEF Store!DeleteRow, StoreTyped, Store!Nothing, Store!NoRow, Store!Idle
  <2>3. \A p \in Store!Owners : (RefersToOwn(p) /\ EntryIsDue(p))'
    BY <1>1, <2>1 DEF Store!DeleteRow, RefersToOwn, EntryIsDue, StoreTyped, Store!NoRow
  <2> QED BY <1>1, <2>2, <2>3
       DEF Store!DeleteRow, HeldIsOwn, DeletesOwn, Store!OnlyDueSecrets, Store!SecretsAreKept, Store!Nothing
<1>2. CASE Store!Interrupt
  <2>1. StoreTyped'
    BY <1>2 DEF Store!Interrupt, StoreTyped, Store!Nothing, Store!Idle
  <2>2. \A p \in Store!Owners : (RefersToOwn(p) /\ EntryIsDue(p))'
    BY <1>2 DEF Store!Interrupt, RefersToOwn, EntryIsDue
  <2> QED BY <1>2, <2>1, <2>2
       DEF Store!Interrupt, HeldIsOwn, DeletesOwn, Store!OnlyDueSecrets, Store!SecretsAreKept, Store!Nothing
<1>3. CASE Store!ServiceChanges
  <2>1. StoreTyped'
    BY <1>3 DEF Store!ServiceChanges, StoreTyped, Store!Nothing
  <2>2. \A p \in Store!Owners : (RefersToOwn(p) /\ EntryIsDue(p))'
    BY <1>3 DEF Store!ServiceChanges, RefersToOwn, EntryIsDue
  <2> QED BY <1>3, <2>1, <2>2
       DEF Store!ServiceChanges, HeldIsOwn, DeletesOwn, Store!OnlyDueSecrets, Store!SecretsAreKept, Store!Nothing
<1> QED BY <1>1, <1>2, <1>3

(* A step of the store keeps its invariant; a step of another part leaves it.    *)
LEMMA StoreStep == StoreInvariant /\ [Next]_vars => StoreInvariant'
<1> SUFFICES ASSUME StoreInvariant, [Next]_vars PROVE StoreInvariant'
  OBVIOUS
<1>1. CASE Store!Next
  BY <1>1, SaveSecretKeeps, SaveRowKeeps, SaveWithoutKeeps, ReadKeeps, MoveSecretKeeps, MoveRowKeeps,
     DeleteReadKeeps, EraseKeeps, OthersKeep
     DEF Store!Next
<1>2. CASE UNCHANGED store
  BY <1>2 DEF store, StoreInvariant, StoreTyped, HeldIsOwn, DeletesOwn, RefersToOwn, EntryIsDue,
              Store!OnlyDueSecrets, Store!SecretsAreKept
<1> QED BY <1>1, <1>2 DEF Next, vars

(* StoreInvariant: in a run of any owners, secrets, saves, deletes and failures. *)
THEOREM StoreHolds == Spec => []StoreInvariant
<1> QED BY StoreInit, StoreStep, PTL DEF Spec

(* A secret is handed out only to whom it is due, and is not lost when a write   *)
(* fails while it moves (get_secret, delete_secret,                           *)
(* prepare_endpoint_for_storage): the property of the run.                     *)
THEOREM SecretsStayDue == Spec => []SecretsAreDue
<1>1. StoreInvariant => SecretsAreDue
  BY DEF StoreInvariant, SecretsAreDue
<1> QED BY <1>1, StoreHolds, PTL

-----------------------------------------------------------------------------
(* A remote text in the editor.                                               *)

TextTyped == /\ Text!TypeOK
             /\ force \in BOOLEAN /\ token \in BOOLEAN /\ asked \in BOOLEAN /\ late \in BOOLEAN

(* What was checked is what the editor has read, until somebody writes it again. *)
CheckedIsRead == command = "write" /\ ~force /\ ~late => remote[editor.target] = editor.revision

TextInvariant == TextTyped /\ CheckedIsRead /\ Text!OthersTextIsKept

(* At first nothing is open and nobody has written.                            *)
LEMMA TextInit == Init => TextInvariant
<1> SUFFICES ASSUME Text!Init PROVE TextInvariant
  BY DEF Init
<1>1. Text!NoEditor \in [target : Targets, content : Text!Texts, saved : Text!Texts, revision : Text!Texts]
  <2>1. (CHOOSE t \in Targets : TRUE) \in Targets
    BY DEF Text!Init
  <2> QED BY <2>1 DEF Text!NoEditor, Text!Texts
<1>2. Text!TypeOK
  BY <1>1 DEF Text!Init, Text!TypeOK, Text!Texts
<1> QED BY <1>2 DEF Text!Init, TextInvariant, TextTyped, CheckedIsRead, Text!OthersTextIsKept

(* The window reads, types and saves texts.                                    *)
LEMMA WindowKeepsText ==
  ASSUME TextInvariant,
         \/ \E t \in Targets : Text!Turn(t)
         \/ \E d \in Drafts : Text!Type(d)
         \/ \E o \in BOOLEAN : Text!Save(o)
         \/ Text!OpenFile \/ Text!Close \/ Text!Decline \/ Text!Settle
  PROVE  TextInvariant'
<1> USE DEF TextInvariant, TextTyped, Text!TypeOK, CheckedIsRead, Text!OthersTextIsKept, Text!window,
            Text!command, Text!ghosts
<1>1. ASSUME NEW t \in Targets, Text!Turn(t)
      PROVE  TextInvariant'
  BY <1>1 DEF Text!Turn
<1>2. ASSUME NEW d \in Drafts, Text!Type(d)
      PROVE  TextInvariant'
  <2>1. d \in Text!Texts
    BY DEF Text!Texts
  <2> QED BY <1>2, <2>1 DEF Text!Type
<1>3. ASSUME NEW o \in BOOLEAN, Text!Save(o)
      PROVE  TextInvariant'
  BY <1>3 DEF Text!Save, Text!Ask
<1>4. CASE Text!OpenFile
  <2>1. editor' \in [target : Targets, content : Text!Texts, saved : Text!Texts, revision : Text!Texts]
    BY <1>4 DEF Text!OpenFile, Text!NoEditor, Text!Texts
  <2> QED BY <1>4, <2>1 DEF Text!OpenFile, Text!Ask
<1>5. CASE Text!Close
  BY <1>5 DEF Text!Close
<1>6. CASE Text!Settle
  <2>1. editor' \in [target : Targets, content : Text!Texts, saved : Text!Texts, revision : Text!Texts]
    BY <1>6 DEF Text!Settle
  <2> QED BY <1>6, <2>1 DEF Text!Settle
<1>7. CASE Text!Decline
  BY <1>7 DEF Text!Decline
<1> QED BY <1>1, <1>2, <1>3, <1>4, <1>5, <1>6, <1>7

(* The command compares what is there with what was read before it writes; others *)
(* write at any time.                                                        *)
LEMMA CommandKeepsText ==
  ASSUME TextInvariant,
         \/ \E t \in Targets : \E x \in Others : Text!OthersWrite(t, x)
         \/ Text!Read \/ Text!Check \/ Text!Truncate \/ Text!Write \/ Text!CancelIt
  PROVE  TextInvariant'
<1> USE DEF TextInvariant, TextTyped, Text!TypeOK, CheckedIsRead, Text!OthersTextIsKept, Text!window,
            Text!ghosts, Text!Ends, Text!SaveTarget
<1>1. ASSUME NEW t \in Targets, NEW x \in Others, Text!OthersWrite(t, x)
      PROVE  TextInvariant'
  <2>1. x \in Text!Texts
    BY DEF Text!Texts
  <2> QED BY <1>1, <2>1 DEF Text!OthersWrite, Text!command
<1>2. CASE Text!Read
  BY <1>2 DEF Text!Read
<1>3. CASE Text!Check
  BY <1>3 DEF Text!Check, Text!SameRevision
<1>4. CASE Text!Truncate
  <2>1. Text!Broken \in Text!Texts
    BY DEF Text!Texts
  <2> QED BY <1>4, <2>1 DEF Text!Truncate
<1>5. CASE Text!Write
  BY <1>5 DEF Text!Write
<1>6. CASE Text!CancelIt
  BY <1>6 DEF Text!CancelIt
<1> QED BY <1>1, <1>2, <1>3, <1>4, <1>5, <1>6

(* A step of the editor, a command or others keeps the invariant of the text.    *)
LEMMA TextStep == TextInvariant /\ [Next]_vars => TextInvariant'
<1> SUFFICES ASSUME TextInvariant, [Next]_vars PROVE TextInvariant'
  OBVIOUS
<1>1. CASE Text!Next
  BY <1>1, WindowKeepsText, CommandKeepsText DEF Text!Next
<1>2. CASE UNCHANGED text
  BY <1>2 DEF text, TextInvariant, TextTyped, Text!TypeOK, CheckedIsRead, Text!OthersTextIsKept
<1> QED BY <1>1, <1>2 DEF Next, vars

(* An upload changes the file that was read and no other.                      *)
LEMMA SavesGoBack == TextInvariant /\ [Next]_vars => Text!SavesStayThere
<1> SUFFICES ASSUME TextInvariant, [Next]_vars, NEW t \in Targets,
                    command \in {"write", "truncated"}, remote'[t] # remote[t], command' # command
             PROVE  t = editor.target
  BY DEF Text!SavesStayThere
<1>1. Text!Truncate \/ Text!Write
  <2>1. Text!Next
    BY DEF Next, vars, text
  <2>2. ASSUME NEW u \in Targets, NEW x \in Others, Text!OthersWrite(u, x)
        PROVE  command' = command
    BY <2>2 DEF Text!OthersWrite, Text!command
  <2>3. CASE \/ \E u \in Targets : Text!Turn(u)
             \/ \E d \in Drafts : Text!Type(d)
             \/ \E o \in BOOLEAN : Text!Save(o)
             \/ Text!OpenFile \/ Text!Close \/ Text!Decline \/ Text!Settle
             \/ Text!Read \/ Text!Check \/ Text!CancelIt
    BY <2>3 DEF Text!Turn, Text!Type, Text!Save, Text!OpenFile, Text!Close, Text!Decline, Text!Settle,
                Text!Read, Text!Check, Text!CancelIt
  <2> QED BY <2>1, <2>2, <2>3 DEF Text!Next
<1> QED BY <1>1 DEF Text!Truncate, Text!Write, Text!SaveTarget, TextInvariant, TextTyped, Text!TypeOK

(* TextInvariant: in a run of any window, command and others at the text.       *)
THEOREM TextHolds == Spec => []TextInvariant
<1> QED BY TextInit, TextStep, PTL DEF Spec

(* What others wrote since the editor read a text is overwritten only when the   *)
(* user says so or when it came after the check                               *)
(* (save_remote_text_file_with_cancel): the property of the run.                *)
THEOREM OthersTextStays == Spec => OthersTextIsKept
<1>1. TextInvariant /\ TextInvariant' /\ [Next]_vars
        => [Text!OthersTextIsKept' /\ Text!SavesStayThere]_vars
  BY SavesGoBack DEF TextInvariant
<1> QED BY <1>1, TextHolds, PTL DEF Spec, OthersTextIsKept

-----------------------------------------------------------------------------
(* The routes of an SFTP operation.                                           *)

RoutesInvariant == /\ profile \in Routes!AnyProfiles /\ queued \in Routes!AnyProfiles
                   /\ override \in Routes!Overrides

(* An endpoint of a profile is what its host and its account say.               *)
LEMMA EndpointsAreKnown ==
  ASSUME NEW e \in Routes!Endpoints
  PROVE  e = [host |-> e.host, account |-> e.account, port |-> Routes!OwnPort, secret |-> e.host]
<1>1. PICK h \in Hosts \cup {Routes!NoHost}, a \in Routes!Accounts : e = Routes!Endpoint(h, a)
  BY DEF Routes!Endpoints
<1>2. Routes!Endpoint(h, a) = [host |-> h, account |-> a, port |-> Routes!OwnPort, secret |-> h]
  BY DEF Routes!Endpoint
<1> HIDE DEF Routes!Endpoint
<1> QED BY <1>1, <1>2

(* Whatever a window has found itself at, a saved secret goes to the host it was *)
(* saved for (apply_target_override).                                         *)
LEMMA SecretsGoHome ==
  ASSUME NEW p \in Routes!AnyProfiles, NEW o \in Routes!Overrides
  PROVE  Routes!SecretsGoHome(p, o)
<1> DEFINE Home(e) == e.secret \in {Routes!NoSecret, e.host}
<1>1. p.target \in Routes!Endpoints /\ p.gateway \in Routes!Endpoints
  BY DEF Routes!AnyProfiles
<1>2. Home(p.target) /\ Home(p.gateway)
  <2>1. p.target.secret = p.target.host /\ p.gateway.secret = p.gateway.host
    BY <1>1, EndpointsAreKnown
  <2> QED BY <2>1
<1>3. Home(Routes!NoEndpoint)
  BY DEF Routes!NoEndpoint, Routes!Endpoint
<1>4. Home(Routes!Overridden(p.target, o))
  <2> DEFINE t == Routes!Overridden(p.target, o)
             changed == o.host # Routes!NoHost /\ o.host # p.target.host
  <2>1. t.secret = Routes!SecretFor(p.target, changed) /\ t.host = IF o.host = Routes!NoHost THEN p.target.host ELSE o.host
    BY DEF Routes!Overridden
  <2>2. p.target.secret = p.target.host
    BY <1>1, EndpointsAreKnown
  <2>3. CASE changed
    <3>1. t.secret = Routes!NoSecret
      BY <2>1, <2>3 DEF Routes!SecretFor
    <3> QED BY <3>1
  <2>4. CASE ~changed
    <3>1. t.secret = p.target.secret
      BY <2>1, <2>4 DEF Routes!SecretFor
    <3>2. t.host = p.target.host
      BY <2>1, <2>4
    <3> QED BY <2>2, <3>1, <3>2
  <2> QED BY <2>3, <2>4
<1>5. Home(Routes!InferredProxy(p, o, Routes!Overridden(p.target, o)))
  BY <1>2, <1>3 DEF Routes!InferredProxy
<1>6. Home(Routes!Effective(p, o).target) /\ Home(Routes!Effective(p, o).proxy)
  BY <1>2, <1>4, <1>5 DEF Routes!Effective, Routes!Route
<1>7. Home(Routes!Composite(p, o).target) /\ Home(Routes!Composite(p, o).proxy)
  <2> DEFINE full == <<Routes!Head(p.target.account), o.host>> \o o.account
  <2>1. Home([p.target EXCEPT !.account = full])
    <3>1. p.target = [host |-> p.target.host, account |-> p.target.account, port |-> Routes!OwnPort,
                      secret |-> p.target.host]
      BY <1>1, EndpointsAreKnown
    <3> HIDE DEF full
    <3> QED BY <3>1
  <2> QED BY <1>3, <2>1 DEF Routes!Composite, Routes!Route, Routes!NoRoute
<1>8. \A i \in DOMAIN Routes!AllRoutes(p, o) :
        Routes!AllRoutes(p, o)[i] \in {Routes!Effective(p, o), Routes!Composite(p, o)}
  BY DEF Routes!AllRoutes
<1> HIDE DEF Home
<1>9. \A i \in DOMAIN Routes!AllRoutes(p, o) :
        Home(Routes!AllRoutes(p, o)[i].target) /\ Home(Routes!AllRoutes(p, o)[i].proxy)
  BY <1>6, <1>7, <1>8
<1> QED BY <1>9 DEF Home, Routes!SecretsGoHome

(* A profile is determined by what a task is bound to                          *)
(* (sftp_profile_route).                                                      *)
LEMMA BindingTellsAll ==
  ASSUME NEW p \in Routes!AnyProfiles, NEW q \in Routes!AnyProfiles, Routes!Accepted(p, q)
  PROVE  p = q
<1>1. /\ p.role = q.role /\ p.jump = q.jump /\ p.mode = q.mode
      /\ p.target.host = q.target.host /\ p.target.account = q.target.account
      /\ p.gateway.host = q.gateway.host /\ p.gateway.account = q.gateway.account
  BY DEF Routes!Accepted, Routes!Binding
<1>2. /\ p.target \in Routes!Endpoints /\ p.gateway \in Routes!Endpoints
      /\ q.target \in Routes!Endpoints /\ q.gateway \in Routes!Endpoints
  BY DEF Routes!AnyProfiles
<1>3. p.target = q.target /\ p.gateway = q.gateway
  <2>1. p.target = q.target
    BY <1>1, <1>2, EndpointsAreKnown
  <2>2. p.gateway = q.gateway
    BY <1>1, <1>2, EndpointsAreKnown
  <2> QED BY <2>1, <2>2
<1> QED BY <1>1, <1>3 DEF Routes!AnyProfiles

(* At first the task has the profile of its connection.                        *)
LEMMA RoutesInit == Init => RoutesInvariant
<1> SUFFICES ASSUME Init PROVE RoutesInvariant
  OBVIOUS
<1>1. Fixed("routes", profile, Routes!AnyProfiles) /\ Fixed("routes", override, Routes!Overrides)
      /\ queued = profile
  BY DEF Init
<1>2. Routes!AnyProfiles # {} /\ Routes!Overrides # {}
  <2>1. Routes!Endpoint(Routes!NoHost, <<>>) \in Routes!Endpoints
    BY DEF Routes!Endpoints, Routes!Accounts
  <2>2. "Server" \in Routes!Roles /\ "Auto" \in Routes!Modes /\ "Direct" \in Routes!Jumps
    BY DEF Routes!Roles, Routes!Modes, Routes!Jumps
  <2>3. [role |-> "Server", mode |-> "Auto", jump |-> "Direct", target |-> Routes!Endpoint(Routes!NoHost, <<>>),
         gateway |-> Routes!Endpoint(Routes!NoHost, <<>>)] \in Routes!AnyProfiles
    BY <2>1, <2>2 DEF Routes!AnyProfiles
  <2>4. [host |-> Routes!NoHost, account |-> <<>>] \in Routes!Overrides
    BY DEF Routes!Overrides, Routes!Accounts
  <2> QED BY <2>3, <2>4
<1>3. profile \in Routes!AnyProfiles
  BY <1>1, <1>2 DEF Fixed
<1>4. override \in Routes!Overrides
  BY <1>1, <1>2 DEF Fixed
<1> QED BY <1>1, <1>3, <1>4 DEF RoutesInvariant

(* A changed profile is a profile.                                            *)
LEMMA RoutesStep == RoutesInvariant /\ [Next]_vars => RoutesInvariant'
<1> SUFFICES ASSUME RoutesInvariant, [Next]_vars PROVE RoutesInvariant'
  OBVIOUS
<1>1. CASE ChangeProfile
  BY <1>1 DEF ChangeProfile, RoutesInvariant, Routes!AnyProfiles
<1>2. CASE UNCHANGED routes
  BY <1>2 DEF routes, RoutesInvariant
<1> QED BY <1>1, <1>2 DEF Next, vars

(* A saved secret goes only to the host it was saved for, and a task whose       *)
(* profile was changed is refused or goes where it was bound                   *)
(* (validate_sftp_profile_route): the property of the run.                      *)
THEOREM RoutesStayBound == Spec => []RoutesAreBound
<1>1. RoutesInvariant => RoutesAreBound
  <2> SUFFICES ASSUME RoutesInvariant PROVE RoutesAreBound
    OBVIOUS
  <2>1. Routes!SecretsGoHome(profile, override)
    BY SecretsGoHome DEF RoutesInvariant
  <2>2. Routes!BoundTasksStay(profile, queued, override)
    BY BindingTellsAll DEF RoutesInvariant, Routes!BoundTasksStay
  <2> QED BY <2>1, <2>2 DEF RoutesAreBound
<1> QED BY <1>1, RoutesInit, RoutesStep, PTL DEF Spec

-----------------------------------------------------------------------------
(* The output of the sftp program.                                            *)

Redraws == [step : 1..Steps, length : 1..Output!Whole]

OutputInvariant == /\ Output!TypeOK /\ window \in Seq(Redraws)
                   /\ \A i \in DOMAIN window : window[i].step <= done
                   /\ Output!ProgressIsShown /\ Output!ListingIsTrue

(* Of finitely many numbers one is the last.                                   *)
LEMMA LastOfMany ==
  ASSUME NEW S, S \subseteq Nat, IsFiniteSet(S), S # {}
  PROVE  \E m \in S : \A i \in S : i <= m
<1> DEFINE Later(j) == {i \in S : i > j}
           T == {Later(j) : j \in S}
<1>1. IsWellFoundedOn(StrictSubsetOrdering(S), FiniteSubsetsOf(S))
  BY FS_StrictSubsetOrderingWellFounded
<1>2. T \subseteq FiniteSubsetsOf(S) /\ T # {}
  <2>1. T \subseteq SUBSET S /\ T # {}
    OBVIOUS
  <2>2. FiniteSubsetsOf(S) = SUBSET S
    BY FS_FiniteSubsetsOfFinite
  <2> QED BY <2>1, <2>2
<1>3. PICK x \in T : \A y \in T : ~(<<y, x>> \in StrictSubsetOrdering(S))
  <2> HIDE DEF T
  <2> QED BY <1>1, <1>2, WFMin
<1>4. PICK m \in S : x = Later(m)
  OBVIOUS
<1>5. ASSUME NEW i \in S, i > m
      PROVE  FALSE
  <2>1. Later(i) \in T /\ Later(i) \subseteq S /\ Later(m) \subseteq S
    OBVIOUS
  <2>2. i \in Nat /\ m \in Nat /\ \A j \in S : j \in Nat
    OBVIOUS
  <2>3. Later(i) \subseteq Later(m) /\ i \in Later(m) /\ i \notin Later(i)
    <3>1. ~(i > i) /\ \A j \in S : j > i => j > m
      BY <1>5, <2>2
    <3> QED BY <1>5, <3>1
  <2>4. <<Later(i), Later(m)>> \in StrictSubsetOrdering(S)
    BY <2>1, <2>3 DEF StrictSubsetOrdering
  <2> QED BY <1>3, <1>4, <2>1, <2>4
<1>6. \A j \in S : j \in Nat
  OBVIOUS
<1> QED BY <1>5, <1>6

(* A line with a speed says how many bytes came, for its number is complete.    *)
LEMMA CompleteLinesCount ==
  ASSUME NEW line \in Redraws, Output!Complete(line)
  PROVE  Output!BytesOf(line) = Output!Bytes(line.step)
BY DEF Redraws, Output!Whole, Output!Complete, Output!Tokens, Output!BytesOf

(* What a window emits, the program has shown.                                 *)
LEMMA EmitsAreShown ==
  ASSUME NEW d \in Nat, NEW w \in Seq(Redraws), \A i \in DOMAIN w : w[i].step <= d
  PROVE  Output!Emits(w) \subseteq {<<Output!Percent(k), Output!Bytes(k)>> : k \in 1..d}
<1> DEFINE S == Output!WithPercent(w)
           last == Output!Max(S)
<1>1. CASE S = {}
  BY <1>1 DEF Output!Emits
<1>2. CASE S # {}
  <2>1. S \subseteq DOMAIN w /\ DOMAIN w = 1..Len(w) /\ Len(w) \in Nat
    BY DEF Output!WithPercent
  <2>2. IsFiniteSet(S)
    <3>1. 1 \in Int /\ Len(w) \in Int
      BY <2>1
    <3>2. IsFiniteSet(1..Len(w))
      BY <3>1, FS_Interval
    <3> QED BY <2>1, <3>2, FS_Subset
  <2>3. last \in S
    <3>1. S \subseteq Nat
      BY <2>1
    <3>2. \E m \in S : \A i \in S : i <= m
      <4> HIDE DEF S
      <4> QED BY <1>2, <2>2, <3>1, LastOfMany
    <3>3. \E m \in S : \A i \in S : m >= i
      <4> HIDE DEF S
      <4> QED BY <3>1, <3>2
    <3> QED BY <3>3 DEF Output!Max
  <2> DEFINE line == w[last]
  <2>4. line \in Redraws /\ line.step \in 1..d
    <3>1. last \in DOMAIN w
      BY <2>1, <2>3
    <3>2. line \in Redraws
      BY <3>1
    <3>3. line.step <= d /\ line.step \in 1..Steps
      <4> HIDE DEF last
      <4> QED BY <3>1, <3>2 DEF Redraws
    <3> QED BY <3>2, <3>3
  <2>5. Output!Emits(w) \subseteq {<<Output!Percent(line.step), Output!BytesOf(line)>>}
    BY DEF Output!Emits
  <2>6. Output!Emits(w) # {} => Output!Complete(line)
    BY <1>2 DEF Output!Emits
  <2> HIDE DEF line
  <2> QED BY <2>4, <2>5, <2>6, CompleteLinesCount
<1> QED BY <1>1, <1>2

-----------------------------------------------------------------------------
(* A listing.                                                                *)

Words == {"a", "b", "denied", ".", "->", "x"}

(* No file has an arrow in its name, and none is the folder above.             *)
LEMMA NamesAreWords ==
  ASSUME NEW n \in Output!Names
  PROVE  n \in Seq(Words) /\ n # <<"..">> /\ \A i \in DOMAIN n : n[i] # "->"
<1>1. CASE n = <<"a">>
  BY <1>1 DEF Words
<1>2. CASE n = <<"a", "b">>
  BY <1>2 DEF Words
<1>3. CASE n = <<"denied">>
  BY <1>3 DEF Words
<1>4. CASE n = <<".">>
  BY <1>4 DEF Words
<1> QED BY <1>1, <1>2, <1>3, <1>4 DEF Output!Names

(* What is before the first of two words is what they were put after.           *)
LEMMA CutWhereAdded ==
  ASSUME NEW W, NEW n \in Seq(W), NEW a \in W, NEW x \in W, x # a,
         \A i \in DOMAIN n : n[i] # a
  PROVE  LET words == n \o <<a, x>>
             arrows == {i \in DOMAIN words : words[i] = a}
         IN arrows = {Len(n) + 1} /\ SubSeq(words, 1, Len(n)) = n
<1> DEFINE words == n \o <<a, x>>
<1>1. Len(n) \in Nat /\ DOMAIN n = 1..Len(n)
  OBVIOUS
<1>2. words \in Seq(W) /\ Len(words) = Len(n) + 2 /\ DOMAIN words = 1..Len(n) + 2
  OBVIOUS
<1>3. \A i \in 1..Len(n) : words[i] = n[i]
  OBVIOUS
<1>4. words[Len(n) + 1] = a /\ words[Len(n) + 2] = x
  OBVIOUS
<1> HIDE DEF words
<1>5. {i \in DOMAIN words : words[i] = a} = {Len(n) + 1}
  <2>1. ASSUME NEW i \in 1..Len(n) + 2
        PROVE  i \in 1..Len(n) \/ i = Len(n) + 1 \/ i = Len(n) + 2
    BY <1>1
  <2>2. Len(n) + 1 \in 1..Len(n) + 2
    BY <1>1
  <2> QED BY <1>1, <1>2, <1>3, <1>4, <2>1, <2>2
<1>6. SubSeq(words, 1, Len(n)) = n
  <2>1. SubSeq(words, 1, Len(n)) = [i \in 1..Len(n) |-> words[i]]
    BY <1>1, <1>2
  <2>2. n = [i \in 1..Len(n) |-> n[i]]
    BY <1>1
  <2> QED BY <1>3, <2>1, <2>2
<1> QED BY <1>5, <1>6 DEF words

(* The record of a file has its name, though an arrow and what it leads to       *)
(* follow the name of a link.                                                 *)
LEMMA RecordsHaveNames ==
  ASSUME NEW f \in Output!ServerFiles, NEW s \in Output!Styles, NEW p \in BOOLEAN
  PROVE  Output!NameOf(Output!Record(f, s, p)) = f.name
<1> DEFINE r == Output!Record(f, s, p)
           arrows == {i \in DOMAIN r.words : r.words[i] = "->"}
<1>1. f.name \in Output!Names
  BY DEF Output!ServerFiles
<1>2. f.name \in Seq(Words) /\ \A i \in DOMAIN f.name : f.name[i] # "->"
  BY <1>1, NamesAreWords
<1>3. /\ r.style = s
      /\ r.words = IF f.kind = "l" /\ s = "unix" THEN f.name \o <<"->", "x">> ELSE f.name
  BY DEF Output!Record
<1>4. Output!NameOf(r) = IF r.style = "windows" \/ arrows = {} THEN r.words
                         ELSE SubSeq(r.words, 1, Output!Min(arrows) - 1)
  BY DEF Output!NameOf
<1>5. CASE f.kind = "l" /\ s = "unix"
  <2>1. r.words = f.name \o <<"->", "x">> /\ r.style # "windows"
    BY <1>3, <1>5
  <2>2. arrows = {Len(f.name) + 1} /\ SubSeq(r.words, 1, Len(f.name)) = f.name
    <3>1. "->" \in Words /\ "x" \in Words /\ "x" # "->"
      BY DEF Words
    <3> HIDE DEF r
    <3> QED BY <1>2, <2>1, <3>1, CutWhereAdded
  <2>3. Len(f.name) \in Nat
    BY <1>2
  <2> HIDE DEF r, arrows
  <2>4. Output!Min(arrows) = Len(f.name) + 1
    BY <2>2, <2>3 DEF Output!Min
  <2>5. Output!NameOf(r) = SubSeq(r.words, 1, Output!Min(arrows) - 1)
    <3>1. arrows # {}
      BY <2>2
    <3> QED BY <1>4, <2>1, <3>1
  <2>6. Output!Min(arrows) - 1 = Len(f.name)
    BY <2>3, <2>4
  <2> QED BY <2>2, <2>5, <2>6 DEF r
<1>6. CASE ~(f.kind = "l" /\ s = "unix")
  <2>1. r.words = f.name
    BY <1>3, <1>6
  <2>2. arrows = {}
    <3> HIDE DEF r
    <3> QED BY <1>2, <2>1
  <2> HIDE DEF r, arrows
  <2> QED BY <1>4, <2>1, <2>2 DEF r
<1> QED BY <1>5, <1>6

(* A listing tells of the files of the directory, however it is laid out, and    *)
(* is not refused, whatever they are called.                                  *)
LEMMA ListingsTellFiles ==
  ASSUME NEW files \in Seq(Output!ServerFiles), NEW s \in Output!Styles,
         NEW ls \in Output!Listings(files, s)
  PROVE  /\ ls \notin Output!Refusals /\ ~Output!Refused(ls)
         /\ Output!Entries(ls) = {[name |-> f.name, isDir |-> f.kind = "d"] :
                                    f \in {g \in Output!ToSet(files) : g.name # <<".">>}}
<1>1. PICK p \in BOOLEAN :
        ls = <<Output!Plain("cd"), Output!Plain("directory")>>
               \o [i \in 1..Len(files) |-> Output!Record(files[i], s, i = 1 /\ p)]
  BY DEF Output!Listings
<1> DEFINE heads == <<Output!Plain("cd"), Output!Plain("directory")>>
           records == [i \in 1..Len(files) |-> Output!Record(files[i], s, i = 1 /\ p)]
           entries == {[name |-> f.name, isDir |-> f.kind = "d"] :
                      f \in {g \in Output!ToSet(files) : g.name # <<".">>}}
<1>2. Len(files) \in Nat /\ DOMAIN files = 1..Len(files)
      /\ \A i \in 1..Len(files) : files[i] \in Output!ServerFiles
  OBVIOUS
<1>3. /\ DOMAIN ls = 1..Len(files) + 2
      /\ ls[1] = Output!Plain("cd") /\ ls[2] = Output!Plain("directory")
      /\ \A i \in 1..Len(files) : ls[i + 2] = Output!Record(files[i], s, i = 1 /\ p)
  <2> DEFINE T == {heads[1], heads[2]} \cup {records[i] : i \in 1..Len(files)}
  <2>1. heads \in Seq(T) /\ Len(heads) = 2 /\ heads[1] = Output!Plain("cd")
        /\ heads[2] = Output!Plain("directory")
    OBVIOUS
  <2>2. records \in Seq(T) /\ Len(records) = Len(files)
    BY <1>2
  <2>3. /\ ls \in Seq(T) /\ Len(ls) = Len(heads) + Len(records)
        /\ \A i \in 1..Len(heads) + Len(records) :
             ls[i] = IF i <= Len(heads) THEN heads[i] ELSE records[i - Len(heads)]
    <3>1. ls = heads \o records
      BY <1>1
    <3> HIDE DEF heads, records, T
    <3>2. /\ heads \o records \in Seq(T) /\ Len(heads \o records) = Len(heads) + Len(records)
          /\ \A i \in 1..Len(heads) + Len(records) :
               (heads \o records)[i] = IF i <= Len(heads) THEN heads[i] ELSE records[i - Len(heads)]
      <4>1. heads \in Seq(T) /\ records \in Seq(T)
        BY <2>1, <2>2
      <4> QED BY <4>1, ConcatProperties
    <3> QED BY <3>1, <3>2
  <2>4. \A i \in 1..Len(files) : records[i] = Output!Record(files[i], s, i = 1 /\ p)
    OBVIOUS
  <2> HIDE DEF heads, records, T
  <2>5. DOMAIN ls = 1..Len(files) + 2
    BY <1>2, <2>1, <2>2, <2>3
  <2>6. ls[1] = heads[1] /\ ls[2] = heads[2]
    BY <1>2, <2>1, <2>2, <2>3
  <2>7. ASSUME NEW i \in 1..Len(files)
        PROVE  ls[i + 2] = records[i]
    <3>1. i + 2 \in 1..Len(heads) + Len(records) /\ ~(i + 2 <= Len(heads)) /\ i + 2 - Len(heads) = i
      BY <1>2, <2>1, <2>2
    <3> QED BY <2>3, <3>1
  <2> QED BY <2>1, <2>4, <2>5, <2>6, <2>7
<1> HIDE DEF heads, records
<1>4. ls[1].text = "cd" /\ ls[2].text = "directory"
  BY <1>3 DEF Output!Plain
<1>5. ASSUME NEW i \in 1..Len(files)
      PROVE  /\ ls[i + 2].text = "record" /\ ls[i + 2].kind = files[i].kind
             /\ Output!NameOf(ls[i + 2]) = files[i].name
  <2>1. ls[i + 2] = Output!Record(files[i], s, i = 1 /\ p)
    BY <1>3
  <2>2. Output!NameOf(ls[i + 2]) = files[i].name
    BY <1>2, <2>1, RecordsHaveNames
  <2> QED BY <2>1, <2>2 DEF Output!Record
<1>6. ASSUME NEW i \in DOMAIN ls
      PROVE  i = 1 \/ i = 2 \/ (i - 2 \in 1..Len(files) /\ i = (i - 2) + 2)
  BY <1>2, <1>3
<1>7. ls \notin Output!Refusals
  BY <1>4 DEF Output!Refusals, Output!Plain
<1>8. ~Output!Refused(ls)
  <2> SUFFICES ASSUME NEW i \in DOMAIN ls PROVE ls[i].text # "refusal"
    BY DEF Output!Refused, Output!IsError
  <2>1. CASE i - 2 \in 1..Len(files) /\ i = (i - 2) + 2
    <3>1. ls[(i - 2) + 2].text = "record"
      BY <1>5, <2>1
    <3> QED BY <2>1, <3>1
  <2> QED BY <1>4, <1>6, <2>1
<1>9. Output!Entries(ls) \subseteq entries
  <2> SUFFICES ASSUME NEW i \in DOMAIN ls, ls[i].text = "record",
                      Output!NameOf(ls[i]) \notin {<<".">>, <<"..">>}
               PROVE  [name |-> Output!NameOf(ls[i]), isDir |-> ls[i].kind = "d"] \in entries
    BY DEF Output!Entries
  <2>1. i - 2 \in 1..Len(files) /\ i = (i - 2) + 2
    BY <1>4, <1>6
  <2>2. PICK j \in 1..Len(files) : i = j + 2
    BY <2>1
  <2>3. Output!NameOf(ls[i]) = files[j].name /\ ls[i].kind = files[j].kind
    BY <1>5, <2>2
  <2>4. files[j] \in Output!ToSet(files)
    BY <1>2 DEF Output!ToSet
  <2>5. files[j].name # <<".">>
    BY <2>3
  <2> QED BY <2>3, <2>4, <2>5
<1>10. entries \subseteq Output!Entries(ls)
  <2> SUFFICES ASSUME NEW f \in Output!ToSet(files), f.name # <<".">>
               PROVE  [name |-> f.name, isDir |-> f.kind = "d"] \in Output!Entries(ls)
    OBVIOUS
  <2>1. PICK j \in 1..Len(files) : f = files[j]
    BY <1>2 DEF Output!ToSet
  <2>2. f.name # <<"..">>
    <3>1. f.name \in Output!Names
      BY <1>2, <2>1 DEF Output!ServerFiles
    <3> QED BY <3>1, NamesAreWords
  <2>3. ls[j + 2].text = "record" /\ ls[j + 2].kind = f.kind /\ Output!NameOf(ls[j + 2]) = f.name
    BY <1>5, <2>1
  <2>4. j + 2 \in DOMAIN ls
    BY <1>2, <1>3
  <2>5. Output!NameOf(ls[j + 2]) \notin {<<".">>, <<"..">>}
    BY <2>2, <2>3
  <2> QED BY <2>3, <2>4, <2>5 DEF Output!Entries
<1> QED BY <1>7, <1>8, <1>9, <1>10

(* The directory of a run has at most two files.                                *)
LEMMA DirectoriesAreShort ==
  Output!Init => directory \in Seq(Output!ServerFiles) /\ Len(directory) <= 2
<1> SUFFICES ASSUME Output!Init PROVE directory \in Seq(Output!ServerFiles) /\ Len(directory) <= 2
  OBVIOUS
<1>1. CASE directory = <<>>
  BY <1>1
<1>2. CASE directory \in {<<f>> : f \in Output!ServerFiles}
  <2>1. PICK f \in Output!ServerFiles : directory = <<f>>
    BY <1>2
  <2> QED BY <2>1
<1>3. CASE directory \in {<<f, g>> : f, g \in Output!ServerFiles}
  <2>1. PICK f \in Output!ServerFiles, g \in Output!ServerFiles : directory = <<f, g>>
    BY <1>3
  <2> QED BY <2>1
<1> QED BY <1>1, <1>2, <1>3 DEF Output!Init

(* What is shown of the directory, the program has not refused.                  *)
LEMMA ListingHolds == Output!Init => Output!ListingIsTrue
<1> SUFFICES ASSUME Output!Init, lines # <<>> PROVE Output!ListingIsTrue
  BY DEF Output!ListingIsTrue
<1>1. directory \in Seq(Output!ServerFiles)
  BY DirectoriesAreShort
<1>2. CASE lines \in Output!Refusals
  <2>1. lines = <<Output!Plain("ls"), Output!Plain("refusal")>>
    BY <1>2 DEF Output!Refusals
  <2>2. 2 \in DOMAIN lines /\ lines[2] = Output!Plain("refusal")
    BY <2>1
  <2>3. Output!Refused(lines)
    BY <2>2 DEF Output!Refused, Output!IsError, Output!Plain
  <2> QED BY <1>2, <2>3 DEF Output!ListingIsTrue
<1>3. CASE \E s \in Output!Styles : lines \in Output!Listings(directory, s)
  BY <1>1, <1>3, ListingsTellFiles DEF Output!ListingIsTrue
<1> QED BY <1>2, <1>3 DEF Output!Init

(* At first nothing has been received of a transfer, and a listing is true.       *)
LEMMA OutputInit == Init => OutputInvariant
<1> SUFFICES ASSUME Output!Init PROVE OutputInvariant
  BY DEF Init
<1>1. Steps \in Nat /\ Window \in Nat
  BY Bounds
<1>2. done \in 0..Steps /\ window = <<>> /\ updates = {}
  BY <1>1 DEF Output!Init
<1>3. Len(directory) <= 2
  BY DirectoriesAreShort
<1>4. Output!ListingIsTrue
  BY ListingHolds
<1>5. window \in Seq(Redraws) /\ Len(window) <= Window /\ DOMAIN window = {}
  BY <1>1, <1>2
<1> QED BY <1>2, <1>3, <1>4, <1>5 DEF OutputInvariant, Output!TypeOK, Output!ProgressIsShown

(* A piece ends a redraw or begins one; what the window then emits was shown.     *)
LEMMA PieceKeepsOutput == OutputInvariant /\ Output!Piece => OutputInvariant'
<1> SUFFICES ASSUME OutputInvariant, Output!Piece PROVE OutputInvariant'
  OBVIOUS
<1>1. Steps \in Nat /\ Window \in Nat \ {0} /\ done \in 0..Steps /\ done \in Nat
  <2>1. Steps \in Nat /\ Window \in Nat \ {0}
    BY Bounds
  <2>2. done \in 0..Steps
    BY DEF OutputInvariant, Output!TypeOK
  <2> QED BY <2>1, <2>2
<1>2. window \in Seq(Redraws) /\ Len(window) <= Window /\ \A i \in DOMAIN window : window[i].step <= done
  BY DEF OutputInvariant, Output!TypeOK
<1>3. /\ done' \in 0..Steps /\ done <= done'
      /\ window' \in Seq(Redraws) /\ Len(window') <= Window
      /\ \A i \in DOMAIN window' : window'[i].step <= done'
  <2>1. PICK n \in 1..Output!Whole :
          IF window # <<>> /\ Output!Last(window).length < Output!Whole
            THEN /\ window' = [window EXCEPT ![Len(window)].length = n]
                 /\ done' = done
            ELSE \E k \in done..Steps :
                   /\ k > 0
                   /\ window' = Output!Keep(Append(window, [step |-> k, length |-> n]))
                   /\ done' = k
    BY DEF Output!Piece
  <2>2. CASE window # <<>> /\ Output!Last(window).length < Output!Whole
    <3>1. window' = [window EXCEPT ![Len(window)].length = n] /\ done' = done
      BY <2>1, <2>2
    <3>2. Len(window) \in DOMAIN window /\ window[Len(window)] \in Redraws
      BY <1>2, <2>2
    <3>3. [window[Len(window)] EXCEPT !.length = n] \in Redraws
          /\ [window[Len(window)] EXCEPT !.length = n].step = window[Len(window)].step
      BY <3>2 DEF Redraws
    <3>4. window' \in Seq(Redraws) /\ Len(window') = Len(window) /\ DOMAIN window' = DOMAIN window
      BY <1>2, <3>1, <3>2, <3>3
    <3>5. \A i \in DOMAIN window' : window'[i].step = window[i].step
      BY <1>2, <3>1, <3>2, <3>3, <3>4
    <3> QED BY <1>1, <1>2, <3>1, <3>4, <3>5
  <2>3. CASE ~(window # <<>> /\ Output!Last(window).length < Output!Whole)
    <3>1. PICK k \in done..Steps : /\ k > 0
                                   /\ window' = Output!Keep(Append(window, [step |-> k, length |-> n]))
                                   /\ done' = k
      BY <2>1, <2>3
    <3> DEFINE longer == Append(window, [step |-> k, length |-> n])
    <3>2. k \in 1..Steps /\ k \in Nat /\ done <= k
      BY <1>1, <3>1
    <3>3. [step |-> k, length |-> n] \in Redraws
      BY <3>2 DEF Redraws
    <3>4. /\ longer \in Seq(Redraws) /\ Len(longer) = Len(window) + 1
          /\ \A i \in 1..Len(longer) : longer[i].step <= k
      <4>1. longer \in Seq(Redraws) /\ Len(longer) = Len(window) + 1 /\ Len(window) \in Nat
        BY <1>2, <3>3
      <4>2. \A i \in 1..Len(window) : longer[i] = window[i] /\ i \in DOMAIN window
        BY <1>2, <3>3
      <4>3. longer[Len(window) + 1].step = k
        BY <1>2, <3>3
      <4>4. ASSUME NEW i \in DOMAIN window
            PROVE  window[i].step <= k
        <5>1. window[i] \in Redraws
          BY <1>2
        <5>2. window[i].step \in Nat /\ window[i].step <= done
          BY <1>1, <1>2, <5>1 DEF Redraws
        <5> QED BY <1>1, <3>2, <5>2
      <4> HIDE DEF longer
      <4>5. ASSUME NEW i \in 1..Len(longer)
            PROVE  i \in 1..Len(window) \/ i = Len(window) + 1
        BY <4>1
      <4> QED BY <3>2, <4>1, <4>2, <4>3, <4>4, <4>5
    <3> HIDE DEF longer
    <3>5. CASE Len(longer) > Window
      <4>1. window' = Tail(longer)
        BY <3>1, <3>5 DEF Output!Keep, longer
      <4>2. longer # <<>> /\ Len(longer) \in Nat
        BY <1>1, <3>4, <3>5
      <4>3. window' \in Seq(Redraws) /\ Len(window') = Len(longer) - 1
        BY <3>4, <4>1, <4>2
      <4>4. \A i \in 1..Len(window') : window'[i] = longer[i + 1] /\ i + 1 \in 1..Len(longer)
        BY <3>4, <4>1, <4>2, <4>3
      <4>5. Len(window') <= Window
        <5>1. Len(window) \in Nat
          BY <1>2
        <5> QED BY <1>1, <1>2, <3>4, <4>3, <5>1
      <4>6. DOMAIN window' = 1..Len(window')
        BY <4>3
      <4> QED BY <3>1, <3>2, <3>4, <4>3, <4>4, <4>5, <4>6, <1>1, SMTT(20)
    <3>6. CASE ~(Len(longer) > Window)
      <4>1. window' = longer
        BY <3>1, <3>6 DEF Output!Keep, longer
      <4>2. Len(longer) \in Nat /\ DOMAIN longer = 1..Len(longer)
        BY <3>4
      <4>3. Len(longer) <= Window
        BY <1>1, <3>6, <4>2
      <4>4. \A i \in DOMAIN longer : longer[i].step <= k
        BY <3>4, <4>2
      <4>5. done' = k
        BY <3>1
      <4> QED BY <3>2, <3>4, <4>1, <4>3, <4>4, <4>5, <1>1
    <3> QED BY <3>5, <3>6
  <2> QED BY <2>2, <2>3
<1>4. done' \in Nat
  BY <1>1, <1>3
<1>5. Output!Emits(window') \subseteq {<<Output!Percent(k), Output!Bytes(k)>> : k \in 1..done'}
  BY <1>3, <1>4, EmitsAreShown
<1>6. Output!ProgressIsShown'
  <2>1. updates \subseteq {<<Output!Percent(k), Output!Bytes(k)>> : k \in 1..done}
    BY DEF OutputInvariant, Output!ProgressIsShown
  <2>2. updates' = updates \cup Output!Emits(window')
    BY DEF Output!Piece
  <2>3. 1..done \subseteq 1..done'
    BY <1>1, <1>3, <1>4
  <2>4. updates' \subseteq {<<Output!Percent(k), Output!Bytes(k)>> : k \in 1..done'}
    BY <1>5, <2>1, <2>2, <2>3
  <2> QED BY <2>4 DEF Output!ProgressIsShown, Output!Percent, Output!Bytes
<1>7. directory' = directory /\ lines' = lines
  BY DEF Output!Piece
<1>8. Output!TypeOK'
  <2>1. \A i \in DOMAIN window' : window'[i] \in Redraws
    BY <1>3
  <2>2. Len(directory') <= 2
    BY <1>7 DEF OutputInvariant, Output!TypeOK
  <2> QED BY <1>3, <2>1, <2>2 DEF Output!TypeOK, Redraws
<1>9. Output!ListingIsTrue'
  BY <1>7 DEF OutputInvariant, Output!ListingIsTrue
<1> QED BY <1>3, <1>6, <1>8, <1>9 DEF OutputInvariant

(* A piece keeps the invariant of the output; a step of another part leaves it.   *)
LEMMA OutputStep == OutputInvariant /\ [Next]_vars => OutputInvariant'
<1> SUFFICES ASSUME OutputInvariant, [Next]_vars PROVE OutputInvariant'
  OBVIOUS
<1>1. CASE Output!Next
  BY <1>1, PieceKeepsOutput DEF Output!Next
<1>2. CASE UNCHANGED output
  BY <1>2 DEF output, OutputInvariant, Output!TypeOK, Output!ProgressIsShown, Output!ListingIsTrue
<1> QED BY <1>1, <1>2 DEF Next, vars

(* Progress is what the program has shown, wherever a piece of its output ended   *)
(* (emit_sftp_progress), and a listing is what the directory has, whatever its   *)
(* files are called (parse_list_output): the property of the run.               *)
THEOREM OutputStaysRead == Spec => []OutputIsRead
<1>1. OutputInvariant => OutputIsRead
  BY DEF OutputInvariant, OutputIsRead
<1> QED BY <1>1, OutputInit, OutputStep, PTL DEF Spec

-----------------------------------------------------------------------------
(* The analysis of a command.  What the rules find of a command is arbitrary here. *)

(* The walk that left something out says so, and a finding has an answer: what     *)
(* was neither denied nor found is allowed.                                     *)
PolicyInvariant ==
  /\ nodes \in Nat /\ overdue \in BOOLEAN
  /\ status \in {"complete", "unknown"} /\ decision \in {"allow", "ask", "deny"}
  /\ status = "complete" => nodes <= MaxNodes
  /\ status = "complete" /\ phase = "done" => ~overdue
  /\ decision = "deny" \/ (decision = "allow" <=> kinds = {} /\ status = "complete")

(* At first nothing is found and nothing left out.                              *)
LEMMA PolicyInit == Init => PolicyInvariant
<1> SUFFICES ASSUME Policy!Init PROVE PolicyInvariant
  BY DEF Init
<1>1. MaxNodes \in Nat
  BY Bounds
<1>2. nodes = 0 /\ overdue = FALSE /\ kinds = {} /\ status = "complete" /\ decision = "allow" /\ phase = "start"
  BY DEF Policy!Init
<1>3. 0 \in Nat /\ 0 <= MaxNodes
  BY <1>1
<1> QED BY <1>2, <1>3 DEF PolicyInvariant

(* What a finding does to the answer.                                            *)
LEMMA NotesAnswer ==
  ASSUME PolicyInvariant, NEW f, Policy!Note(f)
  PROVE  /\ status' \in {"complete", "unknown"} /\ decision' \in {"allow", "ask", "deny"}
         /\ decision' = "deny" \/ (decision' = "allow" <=> kinds' = {} /\ status' = "complete")
         /\ status' = "complete" => status = "complete" /\ ~f.unknown
         /\ decision = "deny" => decision' = "deny"
<1>1. kinds' = kinds \cup f.kinds /\ status' = (IF f.unknown THEN "unknown" ELSE status)
  BY DEF Policy!Note
<1>2. CASE f.deny
  <2>1. decision' = "deny"
    BY <1>2 DEF Policy!Note
  <2> QED BY <1>1, <2>1 DEF PolicyInvariant
<1>3. CASE ~f.deny /\ (f.kinds # {} \/ f.unknown)
  <2>1. decision' = IF decision = "deny" THEN decision ELSE "ask"
    BY <1>3 DEF Policy!Note, Policy!Ask
  <2>2. ~(kinds' = {} /\ status' = "complete")
    BY <1>1, <1>3
  <2> QED BY <1>1, <2>1, <2>2 DEF PolicyInvariant
<1>4. CASE ~f.deny /\ ~(f.kinds # {} \/ f.unknown)
  <2>1. decision' = decision
    BY <1>4 DEF Policy!Note
  <2>2. kinds' = kinds /\ status' = status
    BY <1>1, <1>4
  <2> QED BY <1>4, <2>1, <2>2 DEF PolicyInvariant
<1> QED BY <1>2, <1>3, <1>4

(* What is unknown is so when it is denied as well.                              *)
LEMMA UnknownIsUnknown == Policy!Unknown.unknown /\ [Policy!Unknown EXCEPT !.deny = TRUE].unknown
BY DEF Policy!Unknown, Policy!Finding

(* A walk over its budget or its deadline notes it, and takes no denial back.     *)
LEMMA OverrunKeepsPolicy ==
  ASSUME PolicyInvariant, NEW d, Policy!Overrun(d), UNCHANGED <<overdue, phase>>
  PROVE  PolicyInvariant' /\ (decision = "deny" => decision' = "deny")
<1>1. Policy!Note(Policy!Unknown) /\ nodes' = nodes + 1
  BY DEF Policy!Overrun
<1>2. status' # "complete"
  BY <1>1, NotesAnswer, UnknownIsUnknown
<1> QED BY <1>1, <1>2, NotesAnswer DEF PolicyInvariant

(* Every step of the analysis keeps its invariant and a denial.                  *)
LEMMA PolicyKeeps ==
  ASSUME PolicyInvariant, Policy!Next
  PROVE  PolicyInvariant' /\ (decision = "deny" => decision' = "deny")
<1>1. CASE Policy!Start
  <2>1. UNCHANGED <<nodes, overdue>>
    BY <1>1 DEF Policy!Start
  <2>2. \/ Policy!Note([Policy!Unknown EXCEPT !.deny = TRUE])
        \/ Policy!Note(Policy!Unknown)
        \/ UNCHANGED <<kinds, status, decision>> /\ phase' = "walk"
    BY <1>1 DEF Policy!Start
  <2>3. CASE UNCHANGED <<kinds, status, decision>> /\ phase' = "walk"
    BY <2>1, <2>3 DEF PolicyInvariant
  <2>4. CASE Policy!Note([Policy!Unknown EXCEPT !.deny = TRUE])
    <3>1. status' # "complete"
      BY <2>4, NotesAnswer, UnknownIsUnknown
    <3> QED BY <2>1, <2>4, <3>1, NotesAnswer DEF PolicyInvariant
  <2>5. CASE Policy!Note(Policy!Unknown)
    <3>1. status' # "complete"
      BY <2>5, NotesAnswer, UnknownIsUnknown
    <3> QED BY <2>1, <2>5, <3>1, NotesAnswer DEF PolicyInvariant
  <2> QED BY <2>2, <2>3, <2>4, <2>5, Zenon
<1>2. CASE Policy!ParseSource
  <2>1. UNCHANGED <<overdue, phase>> /\ phase = "walk"
    BY <1>2 DEF Policy!ParseSource
  <2>2. \/ Policy!Overrun(todo[1].depth)
        \/ /\ Policy!WithinBudget(todo[1].depth)
           /\ nodes' = nodes + 1 /\ UNCHANGED <<kinds, status, decision>>
    BY <1>2 DEF Policy!ParseSource
  <2>3. CASE Policy!Overrun(todo[1].depth)
    BY <2>1, <2>3, OverrunKeepsPolicy
  <2>4. CASE /\ Policy!WithinBudget(todo[1].depth)
             /\ nodes' = nodes + 1 /\ UNCHANGED <<kinds, status, decision>>
    BY <2>1, <2>4 DEF PolicyInvariant, Policy!WithinBudget
  <2> QED BY <2>2, <2>3, <2>4
<1>3. CASE Policy!VisitNode
  <2> DEFINE found == Policy!NodeRules(todo[1].trees[1], todo[1].depth)
  <2>1. overdue' = overdue /\ phase' = phase /\ phase = "walk"
    <3>1. phase = "walk"
      BY <1>3, Zenon DEF Policy!VisitNode
    <3>2. UNCHANGED <<input, overdue, phase>>
      BY <1>3, Zenon DEF Policy!VisitNode
    <3> QED BY <3>1, <3>2
  <2>2. \/ UNCHANGED <<nodes, kinds, status, decision>>
        \/ Policy!Overrun(todo[1].depth)
        \/ Policy!WithinBudget(todo[1].depth) /\ nodes' = nodes + 1 /\ Policy!Note(found)
    BY <1>3, Zenon DEF Policy!VisitNode
  <2> HIDE DEF found
  <2>3. CASE UNCHANGED <<nodes, kinds, status, decision>>
    BY <2>1, <2>3 DEF PolicyInvariant
  <2>4. CASE Policy!Overrun(todo[1].depth)
    BY <2>1, <2>4, OverrunKeepsPolicy
  <2>5. CASE Policy!WithinBudget(todo[1].depth) /\ nodes' = nodes + 1 /\ Policy!Note(found)
    <3>1. nodes' \in Nat /\ nodes' <= MaxNodes
      BY <2>5 DEF PolicyInvariant, Policy!WithinBudget
    <3> QED BY <2>1, <2>5, <3>1, NotesAnswer DEF PolicyInvariant
  <2> QED BY <2>2, <2>3, <2>4, <2>5, Zenon
<1>4. CASE Policy!Finish
  <2>1. UNCHANGED <<nodes, overdue>> /\ Policy!Note(Policy!LastLook)
    BY <1>4 DEF Policy!Finish
  <2>2. overdue => Policy!LastLook.unknown
    BY UnknownIsUnknown DEF Policy!LastLook, Policy!If
  <2>3. status' = "complete" => ~overdue
    BY <2>1, <2>2, NotesAnswer
  <2> QED BY <2>1, <2>3, NotesAnswer DEF PolicyInvariant
<1>5. CASE Policy!TimePasses
  BY <1>5 DEF Policy!TimePasses, PolicyInvariant
<1> QED BY <1>1, <1>2, <1>3, <1>4, <1>5 DEF Policy!Next

(* So does a step of the run.                                                  *)
LEMMA PolicyStep ==
  PolicyInvariant /\ [Next]_vars => PolicyInvariant' /\ (decision = "deny" => decision' = "deny")
<1> SUFFICES ASSUME PolicyInvariant, [Next]_vars
             PROVE  PolicyInvariant' /\ (decision = "deny" => decision' = "deny")
  OBVIOUS
<1>1. CASE Policy!Next
  BY <1>1, PolicyKeeps
<1>2. CASE UNCHANGED policy
  BY <1>2 DEF policy, PolicyInvariant
<1> QED BY <1>1, <1>2 DEF Next, vars

(* A walk that ends without a reservation has left nothing out: neither the budget *)
(* nor the deadline ended it (walk, analyze).                                    *)
NothingIsLeftOut ==
  phase = "done" /\ status = "complete" => nodes <= MaxNodes /\ ~overdue

(* NothingIsLeftOut, and only what nothing was found of is allowed: for any rules,  *)
(* any command, budget and deadline.                                            *)
THEOREM AllowedIsUnobjected ==
  Spec => []/\ NothingIsLeftOut
            /\ decision = "allow" => kinds = {} /\ status = "complete"
<1>1. PolicyInvariant => /\ NothingIsLeftOut
                         /\ decision = "allow" => kinds = {} /\ status = "complete"
  BY DEF PolicyInvariant, NothingIsLeftOut
<1> QED BY <1>1, PolicyInit, PolicyStep, PTL DEF Spec

(* A denial is never taken back, whatever is found after it (unknown, risk).      *)
DenialsStay == [][decision = "deny" => decision' = "deny"]_vars

(* DenialsStay, for any rules and any command.                                 *)
THEOREM DeniedStaysDenied == Spec => DenialsStay
<1>1. PolicyInvariant /\ [Next]_vars => [decision = "deny" => decision' = "deny"]_vars
  BY PolicyStep
<1> QED BY <1>1, PolicyInit, PolicyStep, PTL DEF Spec, DenialsStay

-----------------------------------------------------------------------------
(* The types of the run, but for those of the analysis of commands.            *)

StoresAreTyped ==
  /\ Keys!TypeOK /\ Store!TypeOK /\ Text!TypeOK /\ Output!TypeOK
  /\ profile \in Routes!AnyProfiles /\ queued \in Routes!AnyProfiles

(* StoresAreTyped, with the bound on what is kept of the program's output, for   *)
(* any connections, owners, secrets, targets and steps: TypesOK of the run       *)
(* without the part about Policy.                                             *)
LEMMA StoresStayTyped == Spec => []StoresAreTyped
<1>1. KeysInvariant => Keys!TypeOK
  BY DEF KeysInvariant, KeysTyped, Entered, Keys!TypeOK
<1>2. StoreInvariant => Store!TypeOK
  <2>1. Store!NoCall.call = "none"
    BY DEF Store!NoCall
  <2>2. \A c \in Calls : c.call \in {"save", "read", "delete"}
    BY DEF Calls
  <2> QED BY <2>1, <2>2 DEF StoreInvariant, StoreTyped, Store!TypeOK
<1>3. TextInvariant => Text!TypeOK
  BY DEF TextInvariant, TextTyped
<1>4. OutputInvariant => Output!TypeOK
  BY DEF OutputInvariant
<1>5. RoutesInvariant => profile \in Routes!AnyProfiles /\ queued \in Routes!AnyProfiles
  BY DEF RoutesInvariant
<1> QED BY <1>1, <1>2, <1>3, <1>4, <1>5, KeysHold, StoreHolds, TextHolds, RoutesInit, RoutesStep,
           OutputInit, OutputStep, PTL DEF Spec, StoresAreTyped

-----------------------------------------------------------------------------
(* Recursion.  The rules of a command call themselves for the command in it: what   *)
(* a rule finds of every command is well defined because each call ranks below, by  *)
(* the distance to the end of the words or by the depth.                          *)

(* Of numbers one is the least.                                               *)
LEMMA LeastNumber ==
  ASSUME NEW S, S \subseteq Nat, S # {}
  PROVE  \E m \in S : \A i \in S : m <= i
<1>1. PICK m \in S : \A i \in S : ~(<<i, m>> \in OpToRel(<, Nat))
  BY NatLessThanWellFounded, WFMin
<1>2. \A i \in S : i \in Nat /\ (i < m => <<i, m>> \in OpToRel(<, Nat))
  BY DEF OpToRel
<1>3. \A i \in S : i \in Nat /\ m \in Nat /\ ~(i < m)
  BY <1>1, <1>2
<1> QED BY <1>3

(* What is of a kind wherever all that ranks below is of it, is of it everywhere. *)
Ranked(D, N, rank) == N \in Nat /\ rank \in [D -> 0 .. N]

Inherited(D, R, rank, h) ==
  \A x \in D : (\A y \in D : rank[y] < rank[x] => h[y] \in R) => h[x] \in R

OfKind(D, R, h) == \A x \in D : h[x] \in R

(* By induction on the rank.                                                   *)
LEMMA AllAreOfKind ==
  ASSUME NEW D, NEW R, NEW N, NEW rank, NEW h, Ranked(D, N, rank), Inherited(D, R, rank, h)
  PROVE  OfKind(D, R, h)
<1> USE DEF Ranked, Inherited, OfKind
<1> DEFINE Bad == {n \in Nat : \E x \in D : rank[x] = n /\ h[x] \notin R}
<1>1. SUFFICES ASSUME NEW z \in D, h[z] \notin R PROVE FALSE
  OBVIOUS
<1>2. rank[z] \in Bad /\ Bad \subseteq Nat
  <2>1. rank[z] \in Nat
    OBVIOUS
  <2> QED BY <1>1, <2>1
<1>3. PICK m \in Bad : \A i \in Bad : m <= i
  <2> HIDE DEF Bad
  <2> QED BY <1>2, LeastNumber
<1>4. PICK x \in D : rank[x] = m /\ h[x] \notin R
  BY <1>3
<1>5. ASSUME NEW y \in D, rank[y] < rank[x], h[y] \notin R PROVE FALSE
  <2>1. rank[y] \in Bad /\ rank[y] \in Nat /\ m \in Nat
    BY <1>5
  <2> HIDE DEF Bad
  <2> QED BY <2>1, <1>3, <1>4, <1>5
<1> QED BY <1>4, <1>5

(* A definition that looks only at what ranks below has a solution.             *)
Local(D, R, rank, G) ==
  \A f \in [D -> R] : \A g \in [D -> R] : \A x \in D :
    (\A y \in D : rank[y] < rank[x] => f[y] = g[y]) => G[f][x] = G[g][x]

Keeps(D, R, G) == \A f \in [D -> R] : OfKind(D, R, G[f])

Solved(D, R, G) == \E f \in [D -> R] : \A x \in D : f[x] = G[f][x]

(* By induction on the rank: what ranks below a bound has one.                 *)
LEMMA RecursionEnds ==
  ASSUME NEW D, NEW R, NEW N, NEW rank, NEW G,
         R # {}, Ranked(D, N, rank), Keeps(D, R, G), Local(D, R, rank, G)
  PROVE  Solved(D, R, G)
<1> USE DEF Ranked, Keeps, Local, OfKind, Solved
<1> DEFINE Good(n) == \E f \in [D -> R] : \A x \in D : rank[x] < n => f[x] = G[f][x]
           Bad == {n \in Nat : ~Good(n)}
<1>1. ASSUME Bad # {} PROVE FALSE
  <2>1. PICK m \in Bad : \A i \in Bad : m <= i
    <3>1. Bad \subseteq Nat
      OBVIOUS
    <3> HIDE DEF Bad
    <3> QED BY <1>1, <3>1, LeastNumber
  <2>2. m \in Nat /\ ~Good(m)
    OBVIOUS
  <2>3. m # 0
    <3>1. PICK r \in R : TRUE
      OBVIOUS
    <3>2. [x \in D |-> r] \in [D -> R] /\ \A x \in D : ~(rank[x] < 0)
      OBVIOUS
    <3>3. Good(0)
      BY <3>2
    <3> QED BY <2>2, <3>3
  <2>4. Good(m - 1)
    <3>1. m - 1 \in Nat /\ ~(m <= m - 1)
      BY <2>2, <2>3
    <3>2. m - 1 \notin Bad
      <4> HIDE DEF Bad
      <4> QED BY <2>1, <3>1
    <3> HIDE DEF Good
    <3> QED BY <3>1, <3>2
  <2>5. PICK f \in [D -> R] : \A x \in D : rank[x] < m - 1 => f[x] = G[f][x]
    BY <2>4
  <2> DEFINE k == [x \in D |-> G[f][x]]
  <2>6. k \in [D -> R]
    OBVIOUS
  <2>7. ASSUME NEW x \in D, rank[x] < m PROVE k[x] = G[k][x]
    <3>1. ASSUME NEW y \in D, rank[y] < rank[x] PROVE k[y] = f[y]
      <4>1. rank[y] < m - 1
        <5>1. rank[x] \in Nat /\ rank[y] \in Nat
          OBVIOUS
        <5> QED BY <5>1, <2>2, <2>7, <3>1
      <4> QED BY <4>1, <2>5
    <3>2. k[x] = G[f][x]
      OBVIOUS
    <3> HIDE DEF k
    <3> QED BY <3>1, <3>2, <2>6
  <2>8. Good(m)
    <3> HIDE DEF k
    <3> QED BY <2>6, <2>7
  <2> HIDE DEF Good
  <2> QED BY <2>2, <2>8
<1>2. Good(N + 1)
  <2>1. N + 1 \in Nat
    OBVIOUS
  <2> HIDE DEF Good
  <2> QED BY <1>1, <2>1
<1>3. PICK f \in [D -> R] : \A x \in D : rank[x] < N + 1 => f[x] = G[f][x]
  BY <1>2
<1>4. \A x \in D : rank[x] < N + 1
  <2>1. \A x \in D : rank[x] \in 0 .. N
    OBVIOUS
  <2> QED BY <2>1
<1> QED BY <1>3, <1>4

-----------------------------------------------------------------------------
(* What the rules find of a command.                                            *)

(* Trees of commands: a set of them that has all that is in them, with the words  *)
(* of their commands.                                                          *)
CommandOf(words) == [kind |-> "command", words |-> words, children |-> <<>>]

Closed(T, W) ==
  /\ \A w \in W : w.code \in Seq(T)
  /\ \A t \in T : /\ t = [kind |-> t.kind, words |-> t.words, children |-> t.children]
                  /\ t.words \in Seq(W) /\ t.children \in Seq(T)
                  /\ \A p \in Policy!Parts(t.words) : CommandOf(p) \in T

Kinds == {"delete", "edit", "reboot", "upgrade", "service", "network", "permission", "disk",
          "execution"}
Sources(T)  == [source : Seq(T), depth : Nat]
Findings(T) == [kinds : SUBSET Kinds, unknown : BOOLEAN, deny : BOOLEAN, code : Seq(Sources(T))]

(* What is found is of a kind that is known.                                   *)
LEMMA FoundIs ==
  ASSUME NEW T
  PROVE  /\ Policy!Nothing \in Findings(T) /\ Policy!Unknown \in Findings(T)
         /\ \A k \in Kinds : Policy!Risk(k) \in Findings(T)
<1>1. <<>> \in Seq(Sources(T))
  OBVIOUS
<1> QED BY <1>1 DEF Findings, Policy!Nothing, Policy!Unknown, Policy!Risk, Policy!Finding

(* What two rules find together.                                               *)
LEMMA BothAre ==
  ASSUME NEW T, NEW a \in Findings(T), NEW b \in Findings(T)
  PROVE  Policy!Both(a, b) \in Findings(T)
<1>1. a.code \o b.code \in Seq(Sources(T))
  <2>1. a.code \in Seq(Sources(T)) /\ b.code \in Seq(Sources(T))
    BY DEF Findings
  <2> QED BY <2>1, ConcatProperties
<1>2. a.kinds \cup b.kinds \in SUBSET Kinds
  BY DEF Findings
<1>3. (a.unknown \/ b.unknown) \in BOOLEAN /\ (a.deny \/ b.deny) \in BOOLEAN
  OBVIOUS
<1> QED BY <1>1, <1>2, <1>3 DEF Findings, Policy!Both

(* A rule with a condition.                                                    *)
LEMMA IfIs ==
  ASSUME NEW T, NEW c, NEW a \in Findings(T)
  PROVE  Policy!If(c, a) \in Findings(T)
BY FoundIs DEF Policy!If

(* The rules of files, of the system and of tools, and those of the words.     *)
LEMMA FileRulesAre ==
  ASSUME NEW T, NEW head, NEW args, NEW options
  PROVE  Policy!FileRules(head, args, options) \in Findings(T)
<1> DEFINE F == Findings(T)
<1>1. /\ Policy!Risk("delete") \in F /\ Policy!Risk("edit") \in F /\ Policy!Risk("permission") \in F
      /\ Policy!Unknown \in F
  BY FoundIs DEF Kinds
<1>2. \A d \in BOOLEAN : [Policy!Risk("delete") EXCEPT !.deny = d] \in F
  BY <1>1 DEF Findings
<1> HIDE DEF F
<1>3. /\ \A c : Policy!If(c, Policy!Risk("edit")) \in F
      /\ \A c : Policy!Both(Policy!Unknown, Policy!If(c, Policy!Risk("edit"))) \in F
  BY <1>1, IfIs, BothAre DEF F
<1> QED BY <1>1, <1>2, <1>3 DEF Policy!FileRules, F

(* The rules of the system.                                                    *)
LEMMA SystemRulesAre ==
  ASSUME NEW T, NEW head, NEW args
  PROVE  Policy!SystemRules(head, args) \in Findings(T)
<1> DEFINE F == Findings(T)
<1>1. /\ Policy!Risk("reboot") \in F /\ Policy!Risk("disk") \in F /\ Policy!Risk("network") \in F
      /\ Policy!Risk("service") \in F /\ Policy!Risk("upgrade") \in F
  BY FoundIs DEF Kinds
<1> HIDE DEF F
<1>2. \A c : Policy!If(c, Policy!Risk("network")) \in F /\ Policy!If(c, Policy!Risk("service")) \in F
  BY <1>1, IfIs DEF F
<1> QED BY <1>1, <1>2 DEF Policy!SystemRules, F

(* The rules of tools.                                                         *)
LEMMA ToolRulesAre ==
  ASSUME NEW T, NEW head, NEW args, NEW options
  PROVE  Policy!ToolRules(head, args, options) \in Findings(T)
<1> DEFINE F == Findings(T)
<1>1. /\ Policy!Risk("delete") \in F /\ Policy!Risk("edit") \in F /\ Policy!Risk("execution") \in F
      /\ Policy!Unknown \in F
  BY FoundIs DEF Kinds
<1> HIDE DEF F
<1>2. Policy!Both(Policy!Risk("execution"), Policy!Unknown) \in F
  BY <1>1, BothAre DEF F
<1>3. \A c : /\ Policy!If(c, Policy!Unknown) \in F
             /\ Policy!If(c, Policy!Both(Policy!Risk("execution"), Policy!Unknown)) \in F
  BY <1>1, <1>2, IfIs DEF F
<1> QED BY <1>1, <1>2, <1>3 DEF Policy!ToolRules, F

(* The rules that look at every word.                                          *)
LEMMA WordRulesAre ==
  ASSUME NEW T, NEW words
  PROVE  Policy!WordRules(words) \in Findings(T)
<1>1. Policy!Risk("permission") \in Findings(T) /\ Policy!Unknown \in Findings(T)
  BY FoundIs DEF Kinds
<1> QED BY <1>1, IfIs, BothAre DEF Policy!WordRules

-----------------------------------------------------------------------------

(* A part of a command is a sequence of its words.                              *)
LEMMA PartIs ==
  ASSUME NEW W, NEW w \in Seq(W), NEW p \in Policy!Parts(w)
  PROVE  p \in Seq(W) /\ Len(p) \in Nat
<1>1. PICK a \in 1 .. Len(w) + 1, b \in 0 .. Len(w) : p = SubSeq(w, a, b)
  BY DEF Policy!Parts
<1>2. Len(w) \in Nat /\ a \in Int /\ b \in Int /\ a >= 1 /\ b <= Len(w)
  BY <1>1, LenProperties
<1>3. \A i \in a .. b : w[i] \in W
  BY <1>2, ElementOfSeq
<1>4. p \in Seq(W)
  BY <1>1, <1>2, <1>3, SubSeqProperties
<1> QED BY <1>4, LenProperties

(* The whole of a command is a part of it, and so is a part of a part.            *)
LEMMA PartsAre ==
  ASSUME NEW w, NEW a \in 1 .. Len(w) + 1, NEW b \in 0 .. Len(w)
  PROVE  SubSeq(w, a, b) \in Policy!Parts(w)
BY DEF Policy!Parts

(* The whole of a command is a part of it.                                     *)
LEMMA WholeIsPart ==
  ASSUME NEW W, NEW w \in Seq(W)
  PROVE  w \in Policy!Parts(w)
<1>1. Len(w) \in Nat /\ SubSeq(w, 1, Len(w)) = w
  BY LenProperties, SubSeqFull
<1>2. 1 \in 1 .. Len(w) + 1 /\ Len(w) \in 0 .. Len(w)
  BY <1>1
<1> QED BY <1>1, <1>2, PartsAre

(* A part of a part is one of the whole.                                       *)
LEMMA PartOfPart ==
  ASSUME NEW W, NEW w \in Seq(W), NEW p \in Policy!Parts(w), NEW i \in Nat \ {0}, NEW j \in 0 .. Len(p)
  PROVE  SubSeq(p, i, j) \in Policy!Parts(w)
<1>1. PICK a \in 1 .. Len(w) + 1, b \in 0 .. Len(w) : p = SubSeq(w, a, b)
  BY DEF Policy!Parts
<1>2. Len(w) \in Nat /\ a \in Int /\ b \in Int /\ a >= 1 /\ b <= Len(w)
  BY <1>1, LenProperties
<1>3. \A k \in a .. b : w[k] \in W
  BY <1>2, ElementOfSeq
<1>4. Len(p) = IF a <= b THEN b - a + 1 ELSE 0
  BY <1>1, <1>2, <1>3, SubSeqProperties
<1>5. j \in Int /\ i \in Int /\ j <= Len(p)
  BY <1>4, PartIs
<1>6. CASE j < i
  <2>1. SubSeq(p, i, j) = <<>> /\ SubSeq(w, 1, 0) = <<>>
    BY <1>5, <1>6, SubSeqEmpty
  <2>2. 1 \in 1 .. Len(w) + 1 /\ 0 \in 0 .. Len(w)
    BY <1>2
  <2> QED BY <2>1, <2>2, PartsAre
<1>7. CASE i <= j
  <2>1. a \in 1 .. Len(w) /\ b \in 1 .. Len(w) /\ i \in 1 .. b - a + 1 /\ j \in 1 .. b - a + 1
    BY <1>2, <1>4, <1>5, <1>7
  <2>2. SubSeq(p, i, j) = SubSeq(w, a + i - 1, a + j - 1)
    BY <2>1, <1>1, SubSeqOfSubSeq
  <2>3. a + i - 1 \in 1 .. Len(w) + 1 /\ a + j - 1 \in 0 .. Len(w)
    BY <1>2, <2>1
  <2> QED BY <2>2, <2>3, PartsAre
<1> QED BY <1>5, <1>6, <1>7

-----------------------------------------------------------------------------
(* The options of a wrapper are passed over in finitely many steps.              *)
Skips == [at : Nat, unknown : BOOLEAN, splits : BOOLEAN]

(* How far an index is from the end.                                           *)
Ahead(n, i) == IF i > n THEN 0 ELSE n + 1 - i

(* It is less for every index that is passed.                                  *)
LEMMA AheadIs ==
  ASSUME NEW n \in Nat, NEW i \in Nat
  PROVE  /\ Ahead(n, i) \in 0 .. n + 1
         /\ i <= n => Ahead(n, i + 1) < Ahead(n, i) /\ Ahead(n, i + 2) < Ahead(n, i)
BY DEF Ahead

(* Where the options end depends on the two indices that follow, up to the end.*)
LEMMA SkipIsLocal ==
  ASSUME NEW head, NEW words, Len(words) \in Nat, NEW i \in Nat, NEW f, NEW g,
         i <= Len(words) => f[i + 1] = g[i + 1] /\ f[i + 2] = g[i + 2]
  PROVE  Policy!SkipFrom(head, words, i, f) = Policy!SkipFrom(head, words, i, g)
<1>1. CASE i > Len(words)
  BY <1>1 DEF Policy!SkipFrom
<1>2. CASE i <= Len(words)
  BY <1>2 DEF Policy!SkipFrom
<1> QED BY <1>1, <1>2

(* It is an index, and what is not understood a flag.                          *)
LEMMA SkipIsOfKind ==
  ASSUME NEW head, NEW words, Len(words) \in Nat, NEW i \in Nat, NEW f,
         i <= Len(words) => f[i + 1] \in Skips /\ f[i + 2] \in Skips
  PROVE  Policy!SkipFrom(head, words, i, f) \in Skips
<1>1. /\ Policy!StopAt(i) \in Skips /\ Policy!StopAt(i + 1) \in Skips
      /\ [Policy!StopAt(i) EXCEPT !.splits = TRUE] \in Skips
  <2>1. \A j \in Nat : Policy!StopAt(j) \in Skips
    BY DEF Policy!StopAt, Skips
  <2>2. i + 1 \in Nat
    OBVIOUS
  <2>3. ASSUME NEW k \in Skips PROVE [k EXCEPT !.splits = TRUE] \in Skips
    BY DEF Skips
  <2> QED BY <2>1, <2>2, <2>3
<1>2. CASE i > Len(words)
  BY <1>1, <1>2 DEF Policy!SkipFrom
<1>3. CASE i <= Len(words)
  <2>1. [f[i + 1] EXCEPT !.unknown = TRUE] \in Skips
    BY <1>3 DEF Skips
  <2> QED BY <1>1, <1>3, <2>1 DEF Policy!SkipFrom
<1> QED BY <1>2, <1>3

(* After the head of a command, that is where it ends or begins.                 *)
LEMMA SkipIsAfter ==
  ASSUME NEW head, NEW words, Len(words) \in Nat, NEW i \in Nat \ {0}, NEW f,
         i <= Len(words) => /\ f[i + 1] \in Skips /\ f[i + 1].at # 0
                            /\ f[i + 2] \in Skips /\ f[i + 2].at # 0
  PROVE  Policy!SkipFrom(head, words, i, f).at # 0
<1>1. /\ Policy!StopAt(i).at # 0 /\ Policy!StopAt(i + 1).at # 0
      /\ [Policy!StopAt(i) EXCEPT !.splits = TRUE].at # 0
  BY DEF Policy!StopAt
<1>2. CASE i > Len(words)
  BY <1>1, <1>2 DEF Policy!SkipFrom
<1>3. CASE i <= Len(words)
  <2>1. [f[i + 1] EXCEPT !.unknown = TRUE].at # 0
    BY <1>3 DEF Skips
  <2> QED BY <1>1, <1>3, <2>1 DEF Policy!SkipFrom
<1> QED BY <1>2, <1>3

(* Hence the options of any wrapper end (skip_options).                        *)
LEMMA OptionsAreSkipped ==
  ASSUME NEW head, NEW words, Len(words) \in Nat, NEW from \in Nat \ {0}
  PROVE  Policy!SkipOptions(head, words, from) \in Skips /\ Policy!SkipOptions(head, words, from).at # 0
<1> DEFINE F(f, i) == Policy!SkipFrom(head, words, i, f)
           n == Len(words)
           rank == [i \in Nat |-> Ahead(n, i)]
           G == [f \in [Nat -> Skips] |-> [i \in Nat |-> F(f, i)]]
           skip == CHOOSE f : f = [i \in Nat |-> F(f, i)]
           N == n + 1
<1>1. rank \in [Nat -> 0 .. N] /\ N \in Nat
  <2>1. \A i \in Nat : Ahead(n, i) \in 0 .. n + 1
    BY AheadIs
  <2> QED BY <2>1
<1>2. \A i \in Nat : i <= n => rank[i + 1] < rank[i] /\ rank[i + 2] < rank[i]
  <2>1. \A i \in Nat : i + 1 \in Nat /\ i + 2 \in Nat
    OBVIOUS
  <2>2. \A i \in Nat : rank[i] = Ahead(n, i)
    OBVIOUS
  <2> HIDE DEF rank
  <2> QED BY <2>1, <2>2, AheadIs
<1>3. Policy!SkipOptions(head, words, from) = skip[from]
  BY DEF Policy!SkipOptions
<1> HIDE DEF rank
<1>4. \E f \in [Nat -> Skips] : \A i \in Nat : f[i] = G[f][i]
  <2>1. \A f \in [Nat -> Skips] : \A i \in Nat : G[f][i] = F(f, i)
    OBVIOUS
  <2>2. ASSUME NEW f \in [Nat -> Skips], NEW i \in Nat PROVE F(f, i) \in Skips
    <3>1. f[i + 1] \in Skips /\ f[i + 2] \in Skips
      OBVIOUS
    <3> QED BY <3>1, SkipIsOfKind
  <2>3. ASSUME NEW f \in [Nat -> Skips], NEW g \in [Nat -> Skips], NEW i \in Nat,
               \A j \in Nat : rank[j] < rank[i] => f[j] = g[j]
        PROVE  F(f, i) = F(g, i)
    <3>1. i <= n => f[i + 1] = g[i + 1] /\ f[i + 2] = g[i + 2]
      BY <1>2, <2>3
    <3> QED BY <3>1, SkipIsLocal
  <2>4. Skips # {}
    <3>1. Policy!StopAt(0) \in Skips
      BY DEF Skips, Policy!StopAt
    <3> QED BY <3>1
  <2>5. Keeps(Nat, Skips, G)
    <3> HIDE DEF G, F
    <3> QED BY <2>1, <2>2 DEF Keeps, OfKind
  <2>6. Local(Nat, Skips, rank, G)
    <3> HIDE DEF G, F
    <3> QED BY <2>1, <2>3 DEF Local
  <2>7. Solved(Nat, Skips, G)
    <3> HIDE DEF G, N, F
    <3> QED BY <1>1, <2>4, <2>5, <2>6, RecursionEnds DEF Ranked
  <2> QED BY <2>7 DEF Solved
<1>5. skip = [i \in Nat |-> F(skip, i)]
  <2>1. PICK f \in [Nat -> Skips] : \A i \in Nat : f[i] = F(f, i)
    BY <1>4
  <2> HIDE DEF F
  <2>2. f = [i \in Nat |-> F(f, i)]
    BY <2>1
  <2> QED BY <2>2
<1>6. \A i \in Nat : skip[i] = F(skip, i)
  <2> HIDE DEF skip, F
  <2> QED BY <1>5
<1> HIDE DEF skip
<1>7. \A i \in Nat : skip[i] \in Skips
  <2>1. ASSUME NEW i \in Nat, \A j \in Nat : rank[j] < rank[i] => skip[j] \in Skips
        PROVE  skip[i] \in Skips
    <3>1. i <= n => skip[i + 1] \in Skips /\ skip[i + 2] \in Skips
      BY <1>2, <2>1
    <3> QED BY <3>1, <1>6, SkipIsOfKind
  <2>2. Inherited(Nat, Skips, rank, skip) /\ Ranked(Nat, N, rank)
    BY <1>1, <2>1 DEF Inherited, Ranked
  <2> QED BY <2>2, AllAreOfKind DEF OfKind
<1>8. \A i \in Nat : i # 0 => skip[i].at # 0
  <2> DEFINE h == [i \in Nat |-> i # 0 => skip[i].at # 0]
  <2>1. ASSUME NEW i \in Nat, \A j \in Nat : rank[j] < rank[i] => h[j] \in {TRUE}
        PROVE  h[i] \in {TRUE}
    <3>1. i <= n => skip[i + 1].at # 0 /\ skip[i + 2].at # 0
      <4>1. i <= n => h[i + 1] = TRUE /\ h[i + 2] = TRUE
        <5>1. i + 1 \in Nat /\ i + 2 \in Nat
          OBVIOUS
        <5> HIDE DEF h
        <5> QED BY <1>2, <2>1, <5>1
      <4>2. i + 1 \in Nat /\ i + 2 \in Nat /\ i + 1 # 0 /\ i + 2 # 0
        OBVIOUS
      <4>3. \A j \in Nat : h[j] = (j # 0 => skip[j].at # 0)
        OBVIOUS
      <4> HIDE DEF h
      <4> QED BY <4>1, <4>2, <4>3
    <3>2. skip[i + 1] \in Skips /\ skip[i + 2] \in Skips
      BY <1>7
    <3>3. i # 0 => skip[i].at # 0
      BY <3>1, <3>2, <1>6, SkipIsAfter
    <3> QED BY <3>3
  <2>2. \A i \in Nat : h[i] \in {TRUE}
    <3> HIDE DEF h
    <3>1. Inherited(Nat, {TRUE}, rank, h) /\ Ranked(Nat, N, rank)
      BY <1>1, <2>1 DEF Inherited, Ranked
    <3> QED BY <3>1, AllAreOfKind DEF OfKind
  <2> QED BY <2>2
<1> QED BY <1>3, <1>7, <1>8

(* So are the options of command.                                              *)
LEMMA CommandIsFound ==
  ASSUME NEW words, Len(words) \in Nat, NEW from \in Nat \ {0}
  PROVE  Policy!CommandAt(words, from) \in Nat \ {0}
<1> DEFINE F(f, i) == Policy!CommandFrom(words, i, f)
           n == Len(words)
           rank == [i \in Nat |-> Ahead(n, i)]
           G == [f \in [Nat -> Nat] |-> [i \in Nat |-> F(f, i)]]
           place == CHOOSE f : f = [i \in Nat |-> F(f, i)]
           N == n + 1
<1>1. Ranked(Nat, N, rank)
  <2>1. \A i \in Nat : Ahead(n, i) \in 0 .. n + 1
    BY AheadIs
  <2> QED BY <2>1 DEF Ranked
<1>2. \A i \in Nat : i <= n => rank[i + 1] < rank[i]
  <2>1. \A i \in Nat : i + 1 \in Nat /\ rank[i] = Ahead(n, i)
    OBVIOUS
  <2> HIDE DEF rank
  <2> QED BY <2>1, AheadIs
<1>3. Policy!CommandAt(words, from) = place[from]
  BY DEF Policy!CommandAt
<1>4. ASSUME NEW f, NEW i \in Nat
      PROVE  F(f, i) = i \/ F(f, i) = i + 1 \/ (i <= n /\ F(f, i) = f[i + 1])
  BY DEF Policy!CommandFrom
<1>5. ASSUME NEW f, NEW g, NEW i \in Nat, i <= n => f[i + 1] = g[i + 1]
      PROVE  F(f, i) = F(g, i)
  BY <1>5 DEF Policy!CommandFrom
<1> HIDE DEF rank, F
<1>6. \A f \in [Nat -> Nat] : \A i \in Nat : G[f][i] = F(f, i)
  OBVIOUS
<1>7. Solved(Nat, Nat, G)
  <2>1. Keeps(Nat, Nat, G)
    <3>1. ASSUME NEW f \in [Nat -> Nat], NEW i \in Nat PROVE F(f, i) \in Nat
      <4>1. i + 1 \in Nat /\ f[i + 1] \in Nat
        OBVIOUS
      <4> QED BY <1>4, <4>1
    <3> HIDE DEF G
    <3> QED BY <3>1, <1>6 DEF Keeps, OfKind
  <2>2. Local(Nat, Nat, rank, G)
    <3>1. ASSUME NEW f \in [Nat -> Nat], NEW g \in [Nat -> Nat], NEW i \in Nat,
                 \A j \in Nat : rank[j] < rank[i] => f[j] = g[j]
          PROVE  F(f, i) = F(g, i)
      <4>1. i <= n => f[i + 1] = g[i + 1]
        <5>1. i + 1 \in Nat
          OBVIOUS
        <5> QED BY <1>2, <3>1, <5>1
      <4> QED BY <1>5, <4>1
    <3> SUFFICES ASSUME NEW f \in [Nat -> Nat], NEW g \in [Nat -> Nat], NEW i \in Nat,
                        \A j \in Nat : rank[j] < rank[i] => f[j] = g[j]
                 PROVE  G[f][i] = G[g][i]
      BY DEF Local
    <3>2. F(f, i) = F(g, i)
      BY <3>1
    <3>3. G[f][i] = F(f, i) /\ G[g][i] = F(g, i)
      BY <1>6
    <3> QED BY <3>2, <3>3
  <2> HIDE DEF G, N
  <2> QED BY <1>1, <2>1, <2>2, RecursionEnds
<1>8. \A i \in Nat : place[i] = F(place, i)
  <2>1. PICK f \in [Nat -> Nat] : \A i \in Nat : f[i] = F(f, i)
    BY <1>6, <1>7 DEF Solved
  <2>2. f = [i \in Nat |-> F(f, i)]
    BY <2>1
  <2>3. place = [i \in Nat |-> F(place, i)]
    BY <2>2
  <2> HIDE DEF place
  <2> QED BY <2>3
<1> HIDE DEF place
<1> DEFINE h == [i \in Nat |-> i # 0 => place[i] \in Nat \ {0}]
<1>9. ASSUME NEW i \in Nat, \A j \in Nat : rank[j] < rank[i] => h[j] \in {TRUE}
      PROVE  h[i] \in {TRUE}
  <2>1. i + 1 \in Nat /\ i + 1 # 0
    OBVIOUS
  <2>2. i <= n => h[i + 1] = TRUE
    <3> HIDE DEF h
    <3> QED BY <1>2, <1>9, <2>1
  <2>3. i <= n => place[i + 1] \in Nat \ {0}
    <3>1. h[i + 1] = (i + 1 # 0 => place[i + 1] \in Nat \ {0})
      BY <2>1
    <3> HIDE DEF h
    <3> QED BY <2>1, <2>2, <3>1
  <2>4. i # 0 => place[i] \in Nat \ {0}
    BY <1>4, <1>8, <2>1, <2>3
  <2> QED BY <2>4
<1>10. OfKind(Nat, {TRUE}, h)
  <2> HIDE DEF h, N
  <2> QED BY <1>1, <1>9, AllAreOfKind DEF Inherited
<1>11. h[from] \in {TRUE}
  <2> HIDE DEF h
  <2> QED BY <1>10 DEF OfKind
<1> QED BY <1>3, <1>11

-----------------------------------------------------------------------------
(* Sequences that are joined are of what they were of.                          *)
LEMMA JoinedIs ==
  ASSUME NEW S, NEW ss \in Seq(Seq(S))
  PROVE  Policy!FlattenSeq(ss) \in Seq(S) /\ Commands!FlattenSeq(ss) = Policy!FlattenSeq(ss)
<1>1. Commands!FlattenSeq(ss) = Policy!FlattenSeq(ss)
  BY DEF Commands!FlattenSeq, Policy!FlattenSeq
<1> DEFINE n == Len(ss)
           D == 1 .. n
           R == Seq(S)
           F(f, i) == IF i = 1 THEN ss[i] ELSE f[i - 1] \o ss[i]
           G == [f \in [D -> R] |-> [i \in D |-> F(f, i)]]
           rank == [i \in D |-> i]
           flat == CHOOSE f : f = [i \in D |-> F(f, i)]
<1>2. CASE n = 0
  <2>1. Policy!FlattenSeq(ss) = ss /\ ss = <<>>
    BY <1>2, EmptySeq DEF Policy!FlattenSeq
  <2> QED BY <2>1, <1>1
<1>3. CASE n # 0
  <2>1. Policy!FlattenSeq(ss) = flat[n]
    BY <1>3 DEF Policy!FlattenSeq
  <2>2. n \in Nat /\ n \in D /\ \A i \in D : ss[i] \in R /\ i \in Nat /\ (i # 1 => i - 1 \in D /\ i - 1 < i)
    BY <1>3, LenProperties, ElementOfSeq
  <2>3. Ranked(D, n, rank) /\ \A i \in D : rank[i] = i
    BY <2>2 DEF Ranked
  <2>4. ASSUME NEW f, NEW i \in D, i # 1 => f[i - 1] \in R PROVE F(f, i) \in R
    <3>1. CASE i = 1
      BY <2>2, <3>1
    <3>2. CASE i # 1
      BY <2>2, <2>4, <3>2, ConcatProperties
    <3> QED BY <3>1, <3>2
  <2>5. ASSUME NEW f, NEW g, NEW i \in D, i # 1 => f[i - 1] = g[i - 1] PROVE F(f, i) = F(g, i)
    BY <2>5
  <2> HIDE DEF rank, F, D, R
  <2>6. \A f \in [D -> R] : \A i \in D : G[f][i] = F(f, i)
    OBVIOUS
  <2>7. Keeps(D, R, G)
    <3> HIDE DEF G
    <3> QED BY <2>2, <2>4, <2>6 DEF Keeps, OfKind
  <2>8. Local(D, R, rank, G)
    <3>1. ASSUME NEW f \in [D -> R], NEW g \in [D -> R], NEW i \in D,
                 \A j \in D : rank[j] < rank[i] => f[j] = g[j]
          PROVE  F(f, i) = F(g, i)
      <4>1. i # 1 => f[i - 1] = g[i - 1]
        BY <2>2, <2>3, <3>1
      <4> QED BY <2>5, <4>1
    <3> HIDE DEF G
    <3> QED BY <3>1, <2>6 DEF Local
  <2>9. Solved(D, R, G)
    <3>1. R # {}
      BY <2>2
    <3> HIDE DEF G
    <3> QED BY <2>3, <2>7, <2>8, <3>1, RecursionEnds
  <2>10. PICK f \in [D -> R] : \A i \in D : f[i] = F(f, i)
    BY <2>6, <2>9 DEF Solved
  <2>11. f = [i \in D |-> F(f, i)]
    BY <2>10
  <2>12. flat = [i \in D |-> F(flat, i)]
    BY <2>11
  <2>13. Inherited(D, R, rank, flat)
    <3> HIDE DEF flat
    <3> QED BY <2>2, <2>3, <2>4, <2>12 DEF Inherited
  <2>14. OfKind(D, R, flat)
    <3> HIDE DEF flat
    <3> QED BY <2>3, <2>13, AllAreOfKind
  <2>15. flat[n] \in R
    <3> HIDE DEF flat
    <3> QED BY <2>2, <2>14 DEF OfKind
  <2> QED BY <1>1, <2>1, <2>15 DEF R
<1> QED BY <1>2, <1>3

-----------------------------------------------------------------------------

(* What is found of each argument is found together.                            *)
LEMMA FoldIs ==
  ASSUME NEW T, NEW s, NEW n \in Nat, DOMAIN s = 1 .. n, \A i \in 1 .. n : s[i] \in Findings(T)
  PROVE  Policy!FoldLeft(Policy!Both, Policy!Nothing, s) \in Findings(T)
<1> DEFINE D == SUBSET (1 .. n)
           R == Findings(T)
           F(f, x) == IF x = {} THEN Policy!Nothing
                      ELSE Policy!Both(f[x \ {Policy!Max(x)}], s[Policy!Max(x)])
           G == [f \in [D -> R] |-> [x \in D |-> F(f, x)]]
           rank == [x \in D |-> Cardinality(x)]
           fold == CHOOSE f : f = [x \in D |-> F(f, x)]
<1>1. Policy!FoldLeft(Policy!Both, Policy!Nothing, s) = fold[1 .. n]
  BY DEF Policy!FoldLeft, Policy!MapThenFoldSet
<1>2. /\ \A x \in D : IsFiniteSet(x) /\ Cardinality(x) \in 0 .. n
      /\ 1 .. n \in D
  <2>1. IsFiniteSet(1 .. n) /\ Cardinality(1 .. n) = n
    BY FS_Interval
  <2>2. \A x \in D : IsFiniteSet(x) /\ Cardinality(x) <= n /\ Cardinality(x) \in Nat
    BY <2>1, FS_Subset, FS_CardinalityType
  <2> QED BY <2>2
<1>3. ASSUME NEW x \in D, x # {}
      PROVE  /\ Policy!Max(x) \in 1 .. n /\ x \ {Policy!Max(x)} \in D
             /\ Cardinality(x \ {Policy!Max(x)}) < Cardinality(x)
  <2>1. x \subseteq Nat
    OBVIOUS
  <2>2. PICK m \in x : \A i \in x : i <= m
    BY <1>2, <1>3, <2>1, LastOfMany
  <2>3. \A i \in x : m >= i
    BY <2>1, <2>2
  <2>4. Policy!Max(x) \in x
    BY <2>2, <2>3 DEF Policy!Max
  <2>5. Cardinality(x \ {Policy!Max(x)}) = Cardinality(x) - 1
    BY <1>2, <2>4, FS_RemoveElement
  <2>6. Cardinality(x) \in Nat
    BY <1>2, FS_CardinalityType
  <2>7. Cardinality(x \ {Policy!Max(x)}) < Cardinality(x)
    BY <2>5, <2>6
  <2> QED BY <2>4, <2>7
<1>4. Ranked(D, n, rank) /\ \A x \in D : rank[x] = Cardinality(x)
  BY <1>2 DEF Ranked
<1>5. ASSUME NEW f, NEW x \in D, x # {} => f[x \ {Policy!Max(x)}] \in R PROVE F(f, x) \in R
  <2>1. Policy!Nothing \in R
    BY FoundIs
  <2>2. CASE x # {}
    BY <1>3, <1>5, <2>2, BothAre
  <2> QED BY <2>1, <2>2
<1>6. ASSUME NEW f, NEW g, NEW x \in D, x # {} => f[x \ {Policy!Max(x)}] = g[x \ {Policy!Max(x)}]
      PROVE  F(f, x) = F(g, x)
  BY <1>6
<1>7. \A x \in D : x # {} => /\ x \ {Policy!Max(x)} \in D
                             /\ rank[x \ {Policy!Max(x)}] < rank[x]
  <2> HIDE DEF rank, D
  <2> QED BY <1>3, <1>4
<1> HIDE DEF rank, F, D, R
<1>8. \A f \in [D -> R] : \A x \in D : G[f][x] = F(f, x)
  OBVIOUS
<1>9. Solved(D, R, G)
  <2>1. Keeps(D, R, G)
    <3> SUFFICES ASSUME NEW f \in [D -> R], NEW x \in D PROVE G[f][x] \in R
      BY DEF Keeps, OfKind
    <3>1. F(f, x) \in R
      BY <1>5, <1>7
    <3> QED BY <3>1, <1>8
  <2>2. Local(D, R, rank, G)
    <3> SUFFICES ASSUME NEW f \in [D -> R], NEW g \in [D -> R], NEW x \in D,
                        \A y \in D : rank[y] < rank[x] => f[y] = g[y]
                 PROVE  G[f][x] = G[g][x]
      BY DEF Local
    <3>1. F(f, x) = F(g, x)
      BY <1>6, <1>7
    <3>2. G[f][x] = F(f, x) /\ G[g][x] = F(g, x)
      BY <1>8
    <3> QED BY <3>1, <3>2
  <2>3. R # {}
    BY FoundIs DEF R
  <2> HIDE DEF G
  <2> QED BY <1>4, <2>1, <2>2, <2>3, RecursionEnds
<1>10. fold = [x \in D |-> F(fold, x)]
  <2>1. PICK f \in [D -> R] : \A x \in D : f[x] = F(f, x)
    BY <1>8, <1>9 DEF Solved
  <2>2. f = [x \in D |-> F(f, x)]
    BY <2>1
  <2> QED BY <2>2
<1> HIDE DEF fold
<1>11. Inherited(D, R, rank, fold)
  <2> SUFFICES ASSUME NEW x \in D, \A y \in D : rank[y] < rank[x] => fold[y] \in R PROVE fold[x] \in R
    BY DEF Inherited
  <2>1. F(fold, x) \in R
    BY <1>5, <1>7
  <2>2. fold[x] = F(fold, x)
    BY <1>10
  <2> QED BY <2>1, <2>2
<1>12. fold[1 .. n] \in R
  BY <1>2, <1>4, <1>11, AllAreOfKind DEF OfKind
<1> QED BY <1>1, <1>12 DEF R

-----------------------------------------------------------------------------
(* A command whose words are known, and what is known of what is in it.          *)
Opened(T, W, w) ==
  /\ w \in Seq(W) /\ \A x \in W : x.code \in Seq(T)
  /\ \A p \in Policy!Parts(w) : CommandOf(p) \in T

Deeper(T, w, d, f) == \A q \in Policy!Parts(w) : f[<<q, d + 1>>] \in Findings(T)
Alike(w, d, f, g)  == \A q \in Policy!Parts(w) : f[<<q, d + 1>>] = g[<<q, d + 1>>]

(* The rest of a command is a part of it.                                      *)
LEMMA RestIsPart ==
  ASSUME NEW W, NEW w \in Seq(W), NEW p \in Policy!Parts(w), NEW i \in Nat \ {0}
  PROVE  SubSeq(p, i, Len(p)) \in Policy!Parts(w)
<1>1. Len(p) \in 0 .. Len(p)
  BY PartIs
<1> QED BY <1>1, PartOfPart

(* The command in a command (analyze_words in wrappers).                       *)
LEMMA InnerIs ==
  ASSUME NEW T, NEW W, NEW w \in Seq(W), NEW p \in Policy!Parts(w), NEW i \in Nat \ {0}, NEW d, NEW f,
         Deeper(T, w, d, f)
  PROVE  Policy!Inner(p, i, d, f) \in Findings(T)
<1>1. Policy!If(p # <<>>, Policy!Unknown) \in Findings(T)
  BY FoundIs, IfIs
<1>2. f[<<SubSeq(p, i, Len(p)), d + 1>>] \in Findings(T)
  BY RestIsPart DEF Deeper
<1> QED BY <1>1, <1>2 DEF Policy!Inner

(* Of the reviews it looks only at those a level deeper.                       *)
LEMMA InnerIsLocal ==
  ASSUME NEW W, NEW w \in Seq(W), NEW p \in Policy!Parts(w), NEW i \in Nat \ {0}, NEW d, NEW f, NEW g,
         Alike(w, d, f, g)
  PROVE  Policy!Inner(p, i, d, f) = Policy!Inner(p, i, d, g)
<1>1. f[<<SubSeq(p, i, Len(p)), d + 1>>] = g[<<SubSeq(p, i, Len(p)), d + 1>>]
  BY RestIsPart DEF Alike
<1> QED BY <1>1 DEF Policy!Inner

(* Where a wrapper's command begins.                                           *)
WrappedAt(p) ==
  LET rest == Policy!SkipOptions(Policy!Program(p), p, 2)
  IN IF Policy!Program(p) = "timeout" /\ Policy!IsDuration(p, rest.at) THEN rest.at + 1 ELSE rest.at

(* That is an index of a word, or the end.                                     *)
LEMMA WrappedAtIs ==
  ASSUME NEW p, Len(p) \in Nat
  PROVE  WrappedAt(p) \in Nat \ {0}
<1> DEFINE rest == Policy!SkipOptions(Policy!Program(p), p, 2)
<1>1. rest \in Skips /\ rest.at # 0
  BY OptionsAreSkipped
<1>2. rest.at \in Nat \ {0}
  BY <1>1 DEF Skips
<1> HIDE DEF rest
<1>3. WrappedAt(p) = rest.at \/ WrappedAt(p) = rest.at + 1
  BY DEF WrappedAt, rest
<1> QED BY <1>2, <1>3

(* What is found of a wrapper.                                                 *)
LEMMA WrapperIs ==
  ASSUME NEW T, NEW W, NEW w \in Seq(W), NEW p \in Policy!Parts(w), NEW d, NEW f, Deeper(T, w, d, f)
  PROVE  Policy!WrapperRules(p, d, f) \in Findings(T)
<1> DEFINE F == Findings(T)
           inner == Policy!Inner(p, WrappedAt(p), d, f)
<1>1. inner \in F
  BY WrappedAtIs, PartIs, InnerIs
<1>2. Policy!Risk("execution") \in F /\ Policy!Risk("permission") \in F /\ Policy!Unknown \in F /\ Policy!Nothing \in F
  BY FoundIs DEF Kinds
<1>3. Policy!Both(Policy!Risk("execution"), Policy!Unknown) \in F
  BY <1>2, BothAre
<1>4. \A c, e : Policy!Both(Policy!If(c, Policy!Risk("permission")), Policy!Both(Policy!If(e, Policy!Unknown), inner)) \in F
  <2> HIDE DEF inner
  <2> QED BY <1>1, <1>2, IfIs, BothAre
<1> HIDE DEF F
<1> QED BY <1>2, <1>3, <1>4 DEF Policy!WrapperRules, WrappedAt, F

(* Of the reviews a wrapper looks only at those a level deeper.                *)
LEMMA WrapperIsLocal ==
  ASSUME NEW W, NEW w \in Seq(W), NEW p \in Policy!Parts(w), NEW d, NEW f, NEW g, Alike(w, d, f, g)
  PROVE  Policy!WrapperRules(p, d, f) = Policy!WrapperRules(p, d, g)
<1>1. Policy!Inner(p, WrappedAt(p), d, f) = Policy!Inner(p, WrappedAt(p), d, g)
  BY WrappedAtIs, PartIs, InnerIsLocal
<1> QED BY <1>1 DEF Policy!WrapperRules, WrappedAt

-----------------------------------------------------------------------------
(* Shells, eval, and find.                                                      *)

(* The arguments are the words after the first.                                 *)
LEMMA ArgsAre ==
  ASSUME NEW W, NEW p \in Seq(W), p # <<>>
  PROVE  /\ DOMAIN Policy!Args(p) = 1 .. Len(p) - 1 /\ Len(Policy!Args(p)) = Len(p) - 1
         /\ Len(p) - 1 \in Nat
<1>1. Len(p) \in Nat /\ Len(p) # 0
  BY EmptySeq, LenProperties
<1> DEFINE n == Len(p) - 1
<1>2. n \in Nat
  BY <1>1
<1>3. Policy!Args(p) = [i \in 1 .. n |-> Policy!Value(p[i + 1])]
  BY DEF Policy!Args
<1> HIDE DEF n
<1>4. DOMAIN Policy!Args(p) = 1 .. n /\ Len(Policy!Args(p)) = n
  BY <1>2, <1>3
<1> QED BY <1>2, <1>4 DEF n

(* The options end with "--" or with the arguments.                            *)
LEMMA OptionsEndIs ==
  ASSUME NEW args, Len(args) \in Nat, DOMAIN args = 1 .. Len(args)
  PROVE  Policy!OptionsEnd(args) \in Nat
<1> DEFINE ends == {i \in DOMAIN args : args[i] = "--"}
           first == CHOOSE i \in ends : \A j \in ends : i <= j
<1>1. Policy!OptionsEnd(args) = IF ends = {} THEN Len(args) ELSE first - 1
  BY DEF Policy!OptionsEnd
<1>2. ends \subseteq Nat /\ \A i \in ends : i >= 1
  OBVIOUS
<1>3. CASE ends # {}
  <2> HIDE DEF ends
  <2>1. first \in ends
    BY <1>2, <1>3, LeastNumber
  <2> HIDE DEF first
  <2>2. first \in Nat /\ first >= 1
    BY <1>2, <2>1
  <2> QED BY <1>1, <1>3, <2>2
<1> HIDE DEF ends, first
<1> QED BY <1>1, <1>3

(* The flag -c is one of the arguments, or none.                               *)
LEMMA CommandFlagIs ==
  ASSUME NEW args, Len(args) \in Nat, DOMAIN args = 1 .. Len(args)
  PROVE  Policy!CommandFlag(args) \in Nat
<1> DEFINE flags == {i \in 1 .. Policy!OptionsEnd(args) :
                       args[i] = "--command"
                         \/ (/\ Policy!Begins(args[i], "-") /\ ~ Policy!Begins(args[i], "--")
                             /\ Policy!Holds(args[i], "c"))}
           first == CHOOSE i \in flags : \A j \in flags : i <= j
<1>1. Policy!CommandFlag(args) = IF flags = {} THEN 0 ELSE first
  BY DEF Policy!CommandFlag
<1>2. flags \subseteq Nat
  BY OptionsEndIs
<1> HIDE DEF flags
<1>3. CASE flags # {}
  <2>1. first \in flags
    BY <1>2, <1>3, LeastNumber
  <2> HIDE DEF first
  <2> QED BY <1>1, <1>2, <1>3, <2>1
<1> QED BY <1>1, <1>3

(* A source that is found is one of trees that are known.                        *)
LEMMA CodeIs ==
  ASSUME NEW T, NEW s \in Seq(T), NEW d \in Nat
  PROVE  [Policy!Nothing EXCEPT !.code = <<[source |-> s, depth |-> d + 1]>>] \in Findings(T)
<1>1. [source |-> s, depth |-> d + 1] \in Sources(T)
  BY DEF Sources
<1>2. <<[source |-> s, depth |-> d + 1]>> \in Seq(Sources(T))
  BY <1>1
<1>3. Policy!Nothing \in Findings(T)
  BY FoundIs
<1> QED BY <1>2, <1>3 DEF Findings

(* What is found of a shell: its source is a word of the command.              *)
LEMMA ShellIs ==
  ASSUME NEW T, NEW W, NEW w, Opened(T, W, w), NEW p \in Policy!Parts(w), p # <<>>, NEW d \in Nat
  PROVE  Policy!ShellRules(p, d) \in Findings(T)
<1> DEFINE F == Findings(T)
           flag == Policy!CommandFlag(Policy!Args(p))
           code == [Policy!Nothing EXCEPT !.code = <<[source |-> p[flag + 2].code, depth |-> d + 1]>>]
<1>1. w \in Seq(W) /\ p \in Seq(W) /\ Len(p) \in Nat
  BY PartIs DEF Opened
<1>2. flag \in Nat
  BY <1>1, ArgsAre, CommandFlagIs
<1>3. flag + 2 <= Len(p) => code \in F
  <2> SUFFICES ASSUME flag + 2 <= Len(p) PROVE code \in F
    OBVIOUS
  <2>1. flag + 2 \in 1 .. Len(p)
    BY <1>1, <1>2
  <2>2. p[flag + 2] \in W
    BY <1>1, <2>1, ElementOfSeq
  <2>3. p[flag + 2].code \in Seq(T)
    BY <2>2 DEF Opened
  <2> QED BY <2>3, CodeIs
<1>4. Policy!Risk("execution") \in F /\ Policy!Unknown \in F
  BY FoundIs DEF Kinds
<1>5. Policy!ShellRules(p, d) = Policy!Both(Policy!Risk("execution"), Policy!Unknown)
        \/ (flag + 2 <= Len(p) /\ Policy!ShellRules(p, d) = Policy!Both(Policy!Risk("execution"), code))
  <2> HIDE DEF F
  <2> QED BY DEF Policy!ShellRules
<1> QED BY <1>3, <1>4, <1>5, BothAre

(* What is found of eval: its source is what the words parse to.               *)
LEMMA EvalIs ==
  ASSUME NEW T, NEW W, NEW w, Opened(T, W, w), NEW p \in Policy!Parts(w), NEW d \in Nat
  PROVE  Policy!EvalRules(p, d) \in Findings(T)
<1> DEFINE F == Findings(T)
           given == SubSeq(p, IF Policy!First(Policy!Args(p)) = "--" THEN 3 ELSE 2, Len(p))
           code == [Policy!Nothing EXCEPT !.code = <<[source |-> Policy!Source(given), depth |-> d + 1]>>]
           codes == [i \in DOMAIN given |-> given[i].code]
<1>1. given \in Policy!Parts(w)
  BY RestIsPart DEF Opened
<1> HIDE DEF given
<1>2. given \in Seq(W) /\ CommandOf(given) \in T
  BY <1>1, PartIs DEF Opened
<1>3. \A i \in DOMAIN given : given[i].code \in Seq(T)
  <2>1. \A i \in DOMAIN given : given[i] \in W
    BY <1>2, ElementOfSeq
  <2> QED BY <2>1 DEF Opened
<1>4. codes \in Seq(Seq(T))
  <2>1. DOMAIN given = 1 .. Len(given) /\ Len(given) \in Nat
    BY <1>2, LenProperties
  <2> QED BY <1>3, <2>1
<1>5. Policy!FlattenSeq(codes) \in Seq(T) /\ <<CommandOf(given)>> \in Seq(T)
  <2> HIDE DEF codes
  <2> QED BY <1>2, <1>4, JoinedIs
<1>6. Policy!Source(given) \in Seq(T)
  BY <1>5 DEF Policy!Source, CommandOf
<1>7. code \in F
  BY <1>6, CodeIs
<1>8. Policy!Risk("execution") \in F /\ Policy!Unknown \in F
  BY FoundIs DEF Kinds
<1>9. \/ Policy!EvalRules(p, d) = Policy!Both(Policy!Risk("execution"), Policy!Unknown)
      \/ Policy!EvalRules(p, d) = Policy!Both(Policy!Risk("execution"), code)
  <2> HIDE DEF F
  <2> QED BY DEF Policy!EvalRules, given
<1> QED BY <1>7, <1>8, <1>9, BothAre

(* What find runs ends within its words.                                       *)
LEMMA FindEndIs ==
  ASSUME NEW W, NEW p \in Seq(W), p # <<>>, NEW i \in DOMAIN Policy!Args(p)
  PROVE  Policy!FindEnd(p, i) \in 0 .. Len(p) /\ i \in Nat
<1> DEFINE args == Policy!Args(p)
           ends == {j \in i + 1 .. Len(args) : args[j] \in {";", "+"}}
           first == CHOOSE j \in ends : \A k \in ends : j <= k
<1>1. /\ DOMAIN args = 1 .. Len(p) - 1 /\ Len(args) = Len(p) - 1 /\ Len(p) - 1 \in Nat /\ Len(p) \in Nat
      /\ i \in Nat
  BY ArgsAre, LenProperties
<1>2. Policy!FindEnd(p, i) = IF ends = {} THEN Len(p) ELSE first
  BY DEF Policy!FindEnd
<1>3. ends \subseteq Nat /\ \A j \in ends : j \in 0 .. Len(p)
  <2>1. i + 1 \in Nat /\ Len(args) \in Nat /\ Len(args) <= Len(p)
    BY <1>1
  <2>2. \A j \in i + 1 .. Len(args) : j \in Nat /\ j \in 0 .. Len(p)
    BY <1>1, <2>1
  <2> QED BY <2>2
<1> HIDE DEF ends
<1>4. CASE ends # {}
  <2>1. first \in ends
    BY <1>3, <1>4, LeastNumber
  <2> HIDE DEF first
  <2> QED BY <1>1, <1>2, <1>3, <1>4, <2>1
<1> QED BY <1>1, <1>2, <1>4

(* The words up to there are a part of the command.                            *)
LEMMA FoundPart ==
  ASSUME NEW W, NEW w \in Seq(W), NEW p \in Policy!Parts(w), p # <<>>, NEW i \in DOMAIN Policy!Args(p)
  PROVE  SubSeq(p, 1, Policy!FindEnd(p, i)) \in Policy!Parts(w) /\ i + 2 \in Nat \ {0}
<1>1. Policy!FindEnd(p, i) \in 0 .. Len(p) /\ i \in Nat
  BY PartIs, FindEndIs
<1>2. 1 \in Nat \ {0}
  OBVIOUS
<1> QED BY <1>1, <1>2, PartOfPart

(* What is found of find and of what it runs.                                  *)
LEMMA FindIs ==
  ASSUME NEW T, NEW W, NEW w \in Seq(W), NEW p \in Policy!Parts(w), p # <<>>, NEW d, NEW f,
         Deeper(T, w, d, f)
  PROVE  Policy!FindRules(p, d, f) \in Findings(T)
<1> DEFINE F == Findings(T)
           s == [i \in DOMAIN Policy!Args(p) |-> Policy!FindAction(p, i, d, f)]
<1>1. ASSUME NEW i \in DOMAIN Policy!Args(p) PROVE Policy!FindAction(p, i, d, f) \in F
  <2> DEFINE inner == Policy!Inner(SubSeq(p, 1, Policy!FindEnd(p, i)), i + 2, d, f)
  <2>1. inner \in F
    BY FoundPart, InnerIs
  <2>2. /\ Policy!Risk("execution") \in F /\ Policy!Risk("delete") \in F /\ Policy!Risk("edit") \in F
        /\ Policy!Nothing \in F
    BY FoundIs DEF Kinds
  <2>3. Policy!Both(Policy!Risk("execution"), inner) \in F
    BY <2>1, <2>2, BothAre
  <2> HIDE DEF F
  <2> QED BY <2>2, <2>3 DEF Policy!FindAction
<1>2. DOMAIN s = 1 .. Len(p) - 1 /\ Len(p) - 1 \in Nat
  BY PartIs, ArgsAre
<1>3. \A i \in 1 .. Len(p) - 1 : s[i] \in F
  BY <1>1, <1>2
<1>4. Policy!FindRules(p, d, f) = Policy!FoldLeft(Policy!Both, Policy!Nothing, s)
  BY DEF Policy!FindRules
<1> HIDE DEF s
<1> QED BY <1>2, <1>3, <1>4, FoldIs

(* Of the reviews find looks only at those a level deeper.                     *)
LEMMA FindIsLocal ==
  ASSUME NEW W, NEW w \in Seq(W), NEW p \in Policy!Parts(w), p # <<>>, NEW d, NEW f, NEW g,
         Alike(w, d, f, g)
  PROVE  Policy!FindRules(p, d, f) = Policy!FindRules(p, d, g)
<1>1. ASSUME NEW i \in DOMAIN Policy!Args(p)
      PROVE  Policy!FindAction(p, i, d, f) = Policy!FindAction(p, i, d, g)
  <2> DEFINE q == SubSeq(p, 1, Policy!FindEnd(p, i))
  <2>1. Policy!Inner(q, i + 2, d, f) = Policy!Inner(q, i + 2, d, g)
    BY FoundPart, InnerIsLocal
  <2> QED BY <2>1 DEF Policy!FindAction
<1>2. [i \in DOMAIN Policy!Args(p) |-> Policy!FindAction(p, i, d, f)]
        = [i \in DOMAIN Policy!Args(p) |-> Policy!FindAction(p, i, d, g)]
  BY <1>1
<1> QED BY <1>2 DEF Policy!FindRules

-----------------------------------------------------------------------------
(* The rules for the head of a command, whichever it is.                         *)
LEMMA HeadIs ==
  ASSUME NEW T, NEW W, NEW w, Opened(T, W, w), NEW p \in Policy!Parts(w), p # <<>>, NEW d \in Nat,
         NEW f, Deeper(T, w, d, f)
  PROVE  Policy!HeadRules(p, d, f) \in Findings(T)
<1> DEFINE F == Findings(T)
           head == Policy!Program(p)
           args == Policy!Args(p)
<1>1. w \in Seq(W) /\ Len(p) \in Nat
  BY PartIs DEF Opened
<1>2. \A i \in Nat \ {0} : Policy!Inner(p, i, d, f) \in F
  BY <1>1, InnerIs
<1>3. /\ Policy!Inner(p, IF Policy!First(args) = "--" THEN 3 ELSE 2, d, f) \in F
      /\ Policy!Inner(p, Policy!CommandAt(p, 2), d, f) \in F
  <2>1. Policy!CommandAt(p, 2) \in Nat \ {0}
    BY <1>1, CommandIsFound
  <2>2. (IF Policy!First(args) = "--" THEN 3 ELSE 2) \in Nat \ {0}
    OBVIOUS
  <2> QED BY <1>2, <2>1, <2>2
<1>4. Policy!Risk("execution") \in F /\ Policy!Unknown \in F /\ Policy!Nothing \in F
  BY FoundIs DEF Kinds
<1>5. Policy!Both(Policy!Risk("execution"), Policy!Unknown) \in F /\ \A c : Policy!If(c, Policy!Unknown) \in F
  BY <1>4, BothAre, IfIs
<1>6. /\ Policy!WrapperRules(p, d, f) \in F /\ Policy!ShellRules(p, d) \in F /\ Policy!EvalRules(p, d) \in F
      /\ Policy!FindRules(p, d, f) \in F
  BY <1>1, WrapperIs, ShellIs, EvalIs, FindIs
<1>7. /\ Policy!FileRules(head, args, Policy!Options(args)) \in F /\ Policy!SystemRules(head, args) \in F
      /\ Policy!ToolRules(head, args, Policy!Options(args)) \in F
  BY FileRulesAre, SystemRulesAre, ToolRulesAre
<1> HIDE DEF F
<1>8. Policy!HeadRules(p, d, f) \in F
  BY <1>3, <1>4, <1>5, <1>6, <1>7 DEF Policy!HeadRules
<1> QED BY <1>8 DEF F

(* Of the reviews the rules look only at those a level deeper.                 *)
LEMMA HeadIsLocal ==
  ASSUME NEW W, NEW w \in Seq(W), NEW p \in Policy!Parts(w), p # <<>>, NEW d, NEW f, NEW g,
         Alike(w, d, f, g)
  PROVE  Policy!HeadRules(p, d, f) = Policy!HeadRules(p, d, g)
<1>1. Len(p) \in Nat
  BY PartIs
<1>2. \A i \in Nat \ {0} : Policy!Inner(p, i, d, f) = Policy!Inner(p, i, d, g)
  BY InnerIsLocal
<1> DEFINE after == IF Policy!First(Policy!Args(p)) = "--" THEN 3 ELSE 2
<1>3. /\ Policy!Inner(p, after, d, f) = Policy!Inner(p, after, d, g)
      /\ Policy!Inner(p, Policy!CommandAt(p, 2), d, f) = Policy!Inner(p, Policy!CommandAt(p, 2), d, g)
  <2>1. Policy!CommandAt(p, 2) \in Nat \ {0} /\ after \in Nat \ {0}
    BY <1>1, CommandIsFound
  <2> QED BY <1>2, <2>1
<1>4. /\ Policy!WrapperRules(p, d, f) = Policy!WrapperRules(p, d, g)
      /\ Policy!FindRules(p, d, f) = Policy!FindRules(p, d, g)
  BY WrapperIsLocal, FindIsLocal
<1> QED BY <1>3, <1>4 DEF Policy!HeadRules

-----------------------------------------------------------------------------
(* The review of a command, and the walk over its tree.                         *)

(* A review ends, for it goes a level deeper each time and there are finitely     *)
(* many, and finds what it finds of any command.                               *)
LEMMA ReviewIs ==
  ASSUME NEW T, NEW W, NEW w, Opened(T, W, w), NEW p \in Policy!Parts(w), NEW d \in Nat, NEW f,
         d <= MaxDepth => Deeper(T, w, d, f)
  PROVE  Policy!Review(p, d, f) \in Findings(T)
<1>1. Policy!Nothing \in Findings(T) /\ Policy!Unknown \in Findings(T) /\ MaxDepth \in Nat
  BY FoundIs, Bounds
<1>2. CASE p # <<>> /\ d <= MaxDepth
  <2>1. Policy!Both(Policy!WordRules(p), Policy!HeadRules(p, d, f)) \in Findings(T)
    BY <1>2, WordRulesAre, HeadIs, BothAre
  <2> QED BY <1>1, <2>1 DEF Policy!Review
<1>3. CASE p = <<>> \/ d > MaxDepth
  BY <1>1, <1>3 DEF Policy!Review
<1> QED BY <1>1, <1>2, <1>3

(* A review looks only at those a level deeper.                                *)
LEMMA ReviewIsLocal ==
  ASSUME NEW W, NEW w \in Seq(W), NEW p \in Policy!Parts(w), NEW d \in Nat, NEW f, NEW g,
         d <= MaxDepth => Alike(w, d, f, g)
  PROVE  Policy!Review(p, d, f) = Policy!Review(p, d, g)
<1>1. CASE p # <<>> /\ d <= MaxDepth
  <2>1. Policy!HeadRules(p, d, f) = Policy!HeadRules(p, d, g)
    BY <1>1, HeadIsLocal
  <2> QED BY <2>1 DEF Policy!Review
<1>2. CASE p = <<>> \/ d > MaxDepth
  BY <1>2 DEF Policy!Review
<1>3. MaxDepth \in Nat
  BY Bounds
<1> QED BY <1>1, <1>2, <1>3

(* Whatever the words of a command are, as long as what is quoted in them is made   *)
(* of known trees, and however deep it is found, its review ends and finds risks of *)
(* known kinds and sources of known trees (analyze_words).                        *)
THEOREM ReviewsEnd ==
  ASSUME NEW T, NEW W, NEW w, Opened(T, W, w), NEW depth \in Nat
  PROVE  Policy!AnalyzeWords(w, depth) \in Findings(T)
<1> DEFINE D == Policy!Parts(w) \X Nat
           R == Findings(T)
           F(f, x) == Policy!Review(x[1], x[2], f)
           G == [f \in [D -> R] |-> [x \in D |-> F(f, x)]]
           N == MaxDepth + 1
           rank == [x \in D |-> Ahead(MaxDepth, x[2])]
           review == CHOOSE f : f = [x \in D |-> F(f, x)]
<1>1. w \in Seq(W) /\ MaxDepth \in Nat
  BY Bounds DEF Opened
<1>2. Policy!AnalyzeWords(w, depth) = review[<<w, depth>>]
  BY DEF Policy!AnalyzeWords
<1>3. Ranked(D, N, rank) /\ \A x \in D : rank[x] = Ahead(MaxDepth, x[2])
  <2>1. \A x \in D : Ahead(MaxDepth, x[2]) \in 0 .. MaxDepth + 1
    BY <1>1, AheadIs
  <2> QED BY <1>1, <2>1 DEF Ranked
<1>4. ASSUME NEW x \in D, x[2] <= MaxDepth, NEW q \in Policy!Parts(w)
      PROVE  <<q, x[2] + 1>> \in D /\ rank[<<q, x[2] + 1>>] < rank[x]
  <2>1. x[2] \in Nat /\ x[2] + 1 \in Nat
    OBVIOUS
  <2>2. Ahead(MaxDepth, x[2] + 1) < Ahead(MaxDepth, x[2])
    BY <1>1, <1>4, <2>1, AheadIs
  <2>3. <<q, x[2] + 1>> \in D
    BY <2>1
  <2>4. rank[<<q, x[2] + 1>>] = Ahead(MaxDepth, x[2] + 1)
    BY <1>3, <2>3
  <2> HIDE DEF rank, D
  <2> QED BY <1>3, <2>2, <2>3, <2>4
<1>5. ASSUME NEW f, NEW x \in D, \A y \in D : rank[y] < rank[x] => f[y] \in R PROVE F(f, x) \in R
  <2>1. x[1] \in Policy!Parts(w) /\ x[2] \in Nat
    OBVIOUS
  <2>2. x[2] <= MaxDepth => Deeper(T, w, x[2], f)
    <3> HIDE DEF D, rank
    <3> QED BY <1>4, <1>5 DEF Deeper, R
  <2> QED BY <2>1, <2>2, ReviewIs
<1>6. ASSUME NEW f, NEW g, NEW x \in D, \A y \in D : rank[y] < rank[x] => f[y] = g[y]
      PROVE  F(f, x) = F(g, x)
  <2>1. x[1] \in Policy!Parts(w) /\ x[2] \in Nat
    OBVIOUS
  <2>2. x[2] <= MaxDepth => Alike(w, x[2], f, g)
    <3> HIDE DEF D, rank
    <3> QED BY <1>4, <1>6 DEF Alike
  <2> QED BY <1>1, <2>1, <2>2, ReviewIsLocal
<1>7. <<w, depth>> \in D
  BY <1>1, WholeIsPart
<1> HIDE DEF rank, F, D, R
<1>8. \A f \in [D -> R] : \A x \in D : G[f][x] = F(f, x)
  OBVIOUS
<1>9. Solved(D, R, G)
  <2>1. Keeps(D, R, G)
    <3> SUFFICES ASSUME NEW f \in [D -> R], NEW x \in D PROVE G[f][x] \in R
      BY DEF Keeps, OfKind
    <3>1. F(f, x) \in R
      BY <1>5
    <3> QED BY <3>1, <1>8
  <2>2. Local(D, R, rank, G)
    <3> SUFFICES ASSUME NEW f \in [D -> R], NEW g \in [D -> R], NEW x \in D,
                        \A y \in D : rank[y] < rank[x] => f[y] = g[y]
                 PROVE  G[f][x] = G[g][x]
      BY DEF Local
    <3>1. F(f, x) = F(g, x)
      BY <1>6
    <3>2. G[f][x] = F(f, x) /\ G[g][x] = F(g, x)
      BY <1>8
    <3> QED BY <3>1, <3>2
  <2>3. R # {}
    BY FoundIs DEF R
  <2> HIDE DEF G, N
  <2> QED BY <1>3, <2>1, <2>2, <2>3, RecursionEnds
<1>10. review = [x \in D |-> F(review, x)]
  <2>1. PICK f \in [D -> R] : \A x \in D : f[x] = F(f, x)
    BY <1>8, <1>9 DEF Solved
  <2>2. f = [x \in D |-> F(f, x)]
    BY <2>1
  <2> QED BY <2>2
<1> HIDE DEF review, N
<1>11. Inherited(D, R, rank, review)
  <2> SUFFICES ASSUME NEW x \in D, \A y \in D : rank[y] < rank[x] => review[y] \in R PROVE review[x] \in R
    BY DEF Inherited
  <2>1. F(review, x) \in R
    BY <1>5
  <2>2. review[x] = F(review, x)
    BY <1>10
  <2> QED BY <2>1, <2>2
<1>12. review[<<w, depth>>] \in R
  BY <1>3, <1>7, <1>11, AllAreOfKind DEF OfKind
<1> QED BY <1>2, <1>12 DEF R, review

(* What is found at a node of a tree.                                           *)
LEMMA RedirectIs ==
  ASSUME NEW T, NEW words
  PROVE  Policy!RedirectRules(words) \in Findings(T)
<1>1. Policy!Unknown \in Findings(T) /\ Policy!Risk("edit") \in Findings(T) /\ Policy!Nothing \in Findings(T)
  BY FoundIs DEF Kinds
<1>2. Policy!Both(Policy!Unknown, Policy!Risk("edit")) \in Findings(T)
  BY <1>1, BothAre
<1> QED BY <1>1, <1>2 DEF Policy!RedirectRules

(* What walk() notes of a node.                                                *)
LEMMA NodeIs ==
  ASSUME NEW T, NEW W, Closed(T, W), NEW t \in T, NEW d \in Nat
  PROVE  Policy!NodeRules(t, d) \in Findings(T)
<1> DEFINE F == Findings(T)
<1>1. Opened(T, W, t.words)
  BY DEF Closed, Opened
<1>2. Policy!AnalyzeWords(t.words, d) \in F /\ Policy!RedirectRules(t.words) \in F
  BY <1>1, ReviewsEnd, RedirectIs
<1>3. Policy!Unknown \in F /\ Policy!Risk("execution") \in F /\ Policy!Nothing \in F
  BY FoundIs DEF Kinds
<1>4. /\ Policy!Both(Policy!Unknown, Policy!Risk("execution")) \in F
      /\ Policy!Both(Policy!Risk("execution"), Policy!Unknown) \in F
  BY <1>3, BothAre
<1>5. /\ \A c : Policy!If(c, Policy!Both(Policy!Risk("execution"), Policy!Unknown)) \in F
      /\ \A c : Policy!Both(Policy!If(c, Policy!Both(Policy!Unknown, Policy!Risk("execution"))),
                            Policy!AnalyzeWords(t.words, d)) \in F
  BY <1>2, <1>4, IfIs, BothAre
<1> HIDE DEF F
<1>6. Policy!NodeRules(t, d) \in F
  BY <1>2, <1>3, <1>4, <1>5 DEF Policy!NodeRules
<1> QED BY <1>6 DEF F

-----------------------------------------------------------------------------
(* The trees of the inputs.                                                    *)
IsTree(t)  == \E T, W : Closed(T, W) /\ t \in T
IsTrees(s) == \E T, W : Closed(T, W) /\ s \in Seq(T)
IsWords(s) == \E T, W : Closed(T, W) /\ s \in Seq(W)

(* A sequence of some is one of more.                                          *)
LEMMA SeqGrows ==
  ASSUME NEW A, NEW B, A \subseteq B, NEW s \in Seq(A)
  PROVE  s \in Seq(B)
OBVIOUS

(* Two such sets of trees are one.                                             *)
LEMMA ClosedJoin ==
  ASSUME NEW T, NEW W, Closed(T, W), NEW U, NEW X, Closed(U, X)
  PROVE  Closed(T \cup U, W \cup X)
<1>1. /\ \A s : s \in Seq(T) \/ s \in Seq(U) => s \in Seq(T \cup U)
      /\ \A s : s \in Seq(W) \/ s \in Seq(X) => s \in Seq(W \cup X)
  BY SeqGrows
<1>2. \A w \in W \cup X : w.code \in Seq(T \cup U)
  BY <1>1 DEF Closed
<1>3. ASSUME NEW t \in T \cup U
      PROVE  /\ t = [kind |-> t.kind, words |-> t.words, children |-> t.children]
             /\ t.words \in Seq(W \cup X) /\ t.children \in Seq(T \cup U)
             /\ \A p \in Policy!Parts(t.words) : CommandOf(p) \in T \cup U
  <2>1. CASE t \in T
    BY <1>1, <2>1 DEF Closed
  <2>2. CASE t \in U
    BY <1>1, <2>2 DEF Closed
  <2> QED BY <2>1, <2>2
<1> QED BY <1>2, <1>3 DEF Closed

(* A tree of words and trees.                                                  *)
LEMMA TreeIs ==
  ASSUME NEW kind, NEW words, NEW children, IsWords(words), IsTrees(children)
  PROVE  IsTree(Commands!Tree(kind, words, children))
<1>1. PICK T0, W0 : Closed(T0, W0) /\ words \in Seq(W0)
  BY DEF IsWords
<1>2. PICK T1, W1 : Closed(T1, W1) /\ children \in Seq(T1)
  BY DEF IsTrees
<1> DEFINE T == T0 \cup T1
           W == W0 \cup W1
           tree == [kind |-> kind, words |-> words, children |-> children]
           U == T \cup {tree} \cup {CommandOf(p) : p \in Policy!Parts(words)}
<1>3. Closed(T, W) /\ words \in Seq(W) /\ children \in Seq(T)
  BY <1>1, <1>2, ClosedJoin, SeqGrows
<1> HIDE DEF T, W
<1>4. T \subseteq U /\ tree \in U /\ \A p \in Policy!Parts(words) : CommandOf(p) \in U
  OBVIOUS
<1>5. \A s \in Seq(T) : s \in Seq(U)
  BY <1>4, SeqGrows
<1>6. <<>> \in Seq(U)
  OBVIOUS
<1>7. \A w \in W : w.code \in Seq(U)
  BY <1>3, <1>5 DEF Closed
<1>8. ASSUME NEW t \in U
      PROVE  /\ t = [kind |-> t.kind, words |-> t.words, children |-> t.children]
             /\ t.words \in Seq(W) /\ t.children \in Seq(U)
             /\ \A p \in Policy!Parts(t.words) : CommandOf(p) \in U
  <2>1. CASE t \in T
    <3> HIDE DEF U
    <3> QED BY <1>3, <1>4, <1>5, <2>1 DEF Closed
  <2>2. CASE t = tree
    <3>1. t.words = words /\ t.children = children /\ t.kind = kind
      BY <2>2
    <3> HIDE DEF U
    <3> QED BY <1>3, <1>4, <1>5, <2>2, <3>1
  <2>3. CASE t \in {CommandOf(p) : p \in Policy!Parts(words)}
    <3>1. PICK q \in Policy!Parts(words) : t = CommandOf(q)
      BY <2>3
    <3>2. /\ t = [kind |-> t.kind, words |-> t.words, children |-> t.children]
          /\ t.words = q /\ t.children = <<>>
      BY <3>1 DEF CommandOf
    <3>3. q \in Seq(W)
      BY <1>3, PartIs
    <3>4. \A p \in Policy!Parts(q) : p \in Policy!Parts(words)
      <4> SUFFICES ASSUME NEW p \in Policy!Parts(q) PROVE p \in Policy!Parts(words)
        OBVIOUS
      <4>1. PICK i \in 1 .. Len(q) + 1, j \in 0 .. Len(q) : p = SubSeq(q, i, j)
        BY DEF Policy!Parts
      <4>2. i \in Nat \ {0}
        BY <3>3, LenProperties
      <4> QED BY <1>3, <4>1, <4>2, PartOfPart
    <3> HIDE DEF U
    <3> QED BY <1>4, <1>6, <3>2, <3>3, <3>4
  <2> QED BY <2>1, <2>2, <2>3
<1>9. Closed(U, W)
  <2> HIDE DEF U
  <2> QED BY <1>7, <1>8 DEF Closed
<1>10. Commands!Tree(kind, words, children) = tree
  BY DEF Commands!Tree
<1> HIDE DEF U, tree
<1> QED BY <1>4, <1>9, <1>10 DEF IsTree

(* Nothing is in no tree.                                                      *)
LEMMA NothingIsClosed ==
  \E T, W : Closed(T, W)
<1>1. Closed({}, {})
  BY DEF Closed
<1> QED BY <1>1

(* Trees one by one, in pairs, and what is in them.                            *)
LEMMA TreesAre ==
  /\ IsTrees(<<>>)
  /\ \A a : IsTree(a) => IsTrees(<<a>>) /\ IsWords(a.words) /\ IsTrees(a.children)
  /\ \A a, b : IsTree(a) /\ IsTree(b) => IsTrees(<<a, b>>)
<1>1. IsTrees(<<>>)
  BY NothingIsClosed DEF IsTrees
<1>2. ASSUME NEW a, IsTree(a) PROVE IsTrees(<<a>>) /\ IsWords(a.words) /\ IsTrees(a.children)
  <2>1. PICK T, W : Closed(T, W) /\ a \in T
    BY <1>2 DEF IsTree
  <2>2. <<a>> \in Seq(T) /\ a.words \in Seq(W) /\ a.children \in Seq(T)
    BY <2>1 DEF Closed
  <2> QED BY <2>1, <2>2 DEF IsTrees, IsWords
<1>3. ASSUME NEW a, NEW b, IsTree(a), IsTree(b) PROVE IsTrees(<<a, b>>)
  <2>1. PICK T, W : Closed(T, W) /\ a \in T
    BY <1>3 DEF IsTree
  <2>2. PICK U, X : Closed(U, X) /\ b \in U
    BY <1>3 DEF IsTree
  <2>3. Closed(T \cup U, W \cup X) /\ <<a, b>> \in Seq(T \cup U)
    BY <2>1, <2>2, ClosedJoin
  <2> QED BY <2>3 DEF IsTrees
<1> QED BY <1>1, <1>2, <1>3

(* Words: plain ones, sources, and both.                                        *)
PlainWords(S) == [text : S, code : {<<>>}]
IsTexts(texts) == \E S : texts \in Seq(S)

(* As many as the inputs have.                                                  *)
LEMMA TextsAre ==
  /\ \A a : IsTexts(<<a>>)
  /\ \A a, b : IsTexts(<<a, b>>)
  /\ \A a, b, c : IsTexts(<<a, b, c>>)
  /\ \A a, b, c, d : IsTexts(<<a, b, c, d>>)
<1>1. ASSUME NEW a PROVE IsTexts(<<a>>)
  <2>1. <<a>> \in Seq({a})
    OBVIOUS
  <2> QED BY <2>1 DEF IsTexts
<1>2. ASSUME NEW a, NEW b PROVE IsTexts(<<a, b>>)
  <2>1. <<a, b>> \in Seq({a, b})
    OBVIOUS
  <2> QED BY <2>1 DEF IsTexts
<1>3. ASSUME NEW a, NEW b, NEW c PROVE IsTexts(<<a, b, c>>)
  <2>1. <<a, b, c>> \in Seq({a, b, c})
    OBVIOUS
  <2> QED BY <2>1 DEF IsTexts
<1>4. ASSUME NEW a, NEW b, NEW c, NEW d PROVE IsTexts(<<a, b, c, d>>)
  <2>1. <<a, b, c, d>> \in Seq({a, b, c, d})
    OBVIOUS
  <2> QED BY <2>1 DEF IsTexts
<1> QED BY <1>1, <1>2, <1>3, <1>4

(* No words, plain ones, a source, and words after words.                      *)
LEMMA WordsAre ==
  /\ IsWords(<<>>)
  /\ \A texts : IsTexts(texts) => IsWords(Commands!Words(texts))
  /\ \A c : IsTrees(c) => IsWords(<<Commands!Quoted(c)>>)
  /\ \A a, b : IsWords(a) /\ IsWords(b) => IsWords(a \o b)
<1>1. IsWords(<<>>)
  BY NothingIsClosed DEF IsWords
<1>2. ASSUME NEW texts, IsTexts(texts) PROVE IsWords(Commands!Words(texts))
  <2> PICK S : texts \in Seq(S)
    BY <1>2 DEF IsTexts
  <2>1. Closed({}, PlainWords(S))
    <3>1. <<>> \in Seq({})
      OBVIOUS
    <3>2. ASSUME NEW w \in PlainWords(S) PROVE w.code \in Seq({})
      <4>1. w.code = <<>>
        BY DEF PlainWords
      <4> QED BY <3>1, <4>1
    <3> QED BY <3>2 DEF Closed
  <2>2. \A i \in DOMAIN texts : Commands!Word(texts[i]) \in PlainWords(S)
    <3>1. \A i \in DOMAIN texts : texts[i] \in S
      BY ElementOfSeq, LenProperties
    <3> QED BY <3>1 DEF Commands!Word, PlainWords
  <2>3. Commands!Words(texts) \in Seq(PlainWords(S))
    BY <2>2, LenProperties DEF Commands!Words
  <2> QED BY <2>1, <2>3 DEF IsWords
<1>3. ASSUME NEW c, IsTrees(c) PROVE IsWords(<<Commands!Quoted(c)>>)
  <2>1. PICK T, W : Closed(T, W) /\ c \in Seq(T)
    BY <1>3 DEF IsTrees
  <2> DEFINE X == W \cup {Commands!Quoted(c)}
  <2>2. Commands!Quoted(c).code \in Seq(T)
    BY <2>1 DEF Commands!Quoted
  <2>3. Closed(T, X)
    <3>1. \A s \in Seq(W) : s \in Seq(X)
      BY SeqGrows
    <3> QED BY <2>1, <2>2, <3>1 DEF Closed
  <2>4. <<Commands!Quoted(c)>> \in Seq(X)
    OBVIOUS
  <2> HIDE DEF X
  <2> QED BY <2>3, <2>4 DEF IsWords
<1>4. ASSUME NEW a, NEW b, IsWords(a), IsWords(b) PROVE IsWords(a \o b)
  <2>1. PICK T, W : Closed(T, W) /\ a \in Seq(W)
    BY <1>4 DEF IsWords
  <2>2. PICK U, X : Closed(U, X) /\ b \in Seq(X)
    BY <1>4 DEF IsWords
  <2>3. a \in Seq(W \cup X) /\ b \in Seq(W \cup X)
    BY <2>1, <2>2, SeqGrows
  <2>4. a \o b \in Seq(W \cup X)
    BY <2>3, ConcatProperties
  <2> QED BY <2>1, <2>2, <2>4, ClosedJoin DEF IsWords
<1> QED BY <1>1, <1>2, <1>3, <1>4

-----------------------------------------------------------------------------

(* The inputs: each has a tree and a form, and nothing else the rules look at.   *)
Forms == {"plain", "long", "control", "blank", "foreign"}

Known(d) ==
  /\ d = [tree |-> d.tree, does |-> d.does, ruins |-> d.ruins, form |-> d.form]
  /\ IsTree(d.tree) /\ d.form \in Forms

AllKnown(s) == \E S : s \in Seq(S) /\ \A d \in S : Known(d)

(* An input of a tree.                                                         *)
LEMMA InputIs ==
  ASSUME NEW tree, IsTree(tree), NEW does, NEW ruins
  PROVE  Known(Commands!Input(tree, does, ruins))
BY DEF Commands!Input, Known, Forms

(* An input of words.                                                          *)
LEMMA PlainIs ==
  ASSUME NEW texts, IsTexts(texts)
  PROVE  (\A does : Known(Commands!Plain(texts, does))) /\ Known(Commands!Ruin(texts))
<1>1. IsTree(Commands!Tree("command", Commands!Words(texts), <<>>))
  BY TreeIs, WordsAre, TreesAre
<1> QED BY <1>1, InputIs DEF Commands!Plain, Commands!Ruin

(* Inputs, joined and one by one.                                              *)
LEMMA KnownJoin ==
  ASSUME NEW a, NEW b, AllKnown(a), AllKnown(b)
  PROVE  AllKnown(a \o b)
<1>1. PICK S : a \in Seq(S) /\ \A d \in S : Known(d)
  BY DEF AllKnown
<1>2. PICK T : b \in Seq(T) /\ \A d \in T : Known(d)
  BY DEF AllKnown
<1>3. a \in Seq(S \cup T) /\ b \in Seq(S \cup T)
  BY <1>1, <1>2, SeqGrows
<1>4. a \o b \in Seq(S \cup T)
  BY <1>3, ConcatProperties
<1> QED BY <1>1, <1>2, <1>4 DEF AllKnown

(* Each of the inputs of a sequence.                                           *)
LEMMA KnownOnes ==
  ASSUME NEW s, AllKnown(s)
  PROVE  \A i \in DOMAIN s : Known(s[i])
BY ElementOfSeq, LenProperties DEF AllKnown

(* A sequence of as many as wrappers and compositions give.                    *)
LEMMA TenAreKnown ==
  ASSUME NEW a1, NEW a2, NEW a3, NEW a4, NEW a5, NEW a6, NEW a7, NEW a8, NEW a9, NEW a10,
         Known(a1), Known(a2), Known(a3), Known(a4), Known(a5), Known(a6), Known(a7), Known(a8), Known(a9), Known(a10)
  PROVE  AllKnown(<<a1, a2, a3, a4, a5, a6, a7, a8, a9, a10>>)
<1> DEFINE S == {a1, a2, a3, a4, a5, a6, a7, a8, a9, a10}
<1>1. <<a1, a2, a3, a4, a5, a6, a7, a8, a9, a10>> \in Seq(S)
  OBVIOUS
<1>2. \A d \in S : Known(d)
  OBVIOUS
<1> HIDE DEF S
<1> QED BY <1>1, <1>2 DEF AllKnown

(* Sequences of inputs, joined.                                                *)
LEMMA MadeOfKnown ==
  ASSUME NEW n \in Nat, NEW ss, ss = [i \in 1 .. n |-> ss[i]], \A i \in 1 .. n : AllKnown(ss[i])
  PROVE  AllKnown(Commands!FlattenSeq(ss))
<1> DEFINE Of(i) == CHOOSE S : ss[i] \in Seq(S) /\ \A d \in S : Known(d)
           U == UNION {Of(i) : i \in 1 .. n}
<1>1. ASSUME NEW i \in 1 .. n PROVE ss[i] \in Seq(Of(i)) /\ \A d \in Of(i) : Known(d)
  BY DEF AllKnown
<1> HIDE DEF Of
<1>2. ASSUME NEW i \in 1 .. n PROVE ss[i] \in Seq(U)
  <2>1. Of(i) \subseteq U
    OBVIOUS
  <2> HIDE DEF U
  <2> QED BY <1>1, <2>1, SeqGrows
<1>3. \A d \in U : Known(d)
  BY <1>1
<1> HIDE DEF U
<1>4. ss \in Seq(Seq(U))
  BY <1>2
<1>5. Commands!FlattenSeq(ss) \in Seq(U)
  BY <1>4, JoinedIs
<1> QED BY <1>3, <1>5 DEF AllKnown

(* What is in an input.                                                        *)
LEMMA InsideIs ==
  ASSUME NEW d, Known(d)
  PROVE  /\ IsTree(d.tree) /\ IsTrees(<<d.tree>>) /\ IsWords(d.tree.words) /\ IsTrees(d.tree.children)
BY TreesAre DEF Known

(* A command after other words, in a shell, in a list.                         *)
LEMMA BeforeIs ==
  ASSUME NEW texts, IsTexts(texts), NEW d, Known(d), NEW does
  PROVE  Known(Commands!Before(texts, d, does))
<1>1. IsTree(Commands!Tree("command", Commands!Words(texts) \o d.tree.words, d.tree.children))
  BY InsideIs, WordsAre, TreeIs
<1> QED BY <1>1, InputIs DEF Commands!Before

(* A command between other words.                                              *)
LEMMA BetweenIs ==
  ASSUME NEW texts, IsTexts(texts), NEW more, IsTexts(more), NEW d, Known(d), NEW does
  PROVE  Known([Commands!Before(texts, d, does) EXCEPT !.tree.words = @ \o Commands!Words(more)])
<1> DEFINE words == Commands!Words(texts) \o d.tree.words
           wider == words \o Commands!Words(more)
<1>1. IsTree(Commands!Tree("command", wider, d.tree.children))
  BY InsideIs, WordsAre, TreeIs
<1>2. Known(Commands!Input(Commands!Tree("command", wider, d.tree.children), does \cup d.does, d.ruins))
  BY <1>1, InputIs
<1>3. Commands!Before(texts, d, does)
        = Commands!Input(Commands!Tree("command", words, d.tree.children), does \cup d.does, d.ruins)
  BY DEF Commands!Before
<1> DEFINE all == does \cup d.does
           inner == d.tree.children
           last == Commands!Words(more)
           ruins == d.ruins
<1>4. Commands!Before(texts, d, does) = Commands!Input(Commands!Tree("command", words, inner), all, ruins)
  BY <1>3
<1> HIDE DEF words, all, inner, last, ruins
<1> DEFINE tree == Commands!Tree("command", words, inner)
           wide == Commands!Tree("command", words \o last, inner)
<1>5. [tree EXCEPT !.words = tree.words \o last] = wide
  <2>1. tree.words = words
    BY DEF Commands!Tree
  <2>2. \A x : [tree EXCEPT !.words = x] = Commands!Tree("command", x, inner)
    BY DEF Commands!Tree
  <2> HIDE DEF tree
  <2> QED BY <2>1, <2>2
<1> HIDE DEF tree, wide
<1>6. /\ Commands!Input(tree, all, ruins).tree = tree
      /\ \A x : [Commands!Input(tree, all, ruins) EXCEPT !.tree = x] = Commands!Input(x, all, ruins)
  BY DEF Commands!Input
<1>7. [Commands!Input(tree, all, ruins) EXCEPT !.tree.words = @ \o last] = Commands!Input(wide, all, ruins)
  BY <1>5, <1>6
<1> QED BY <1>2, <1>4, <1>7 DEF tree, wide, all, inner, last, ruins

(* The source of a shell.                                                      *)
LEMMA ShellInputIs ==
  ASSUME NEW texts, IsTexts(texts), NEW d, Known(d)
  PROVE  Known(Commands!OfShell(Commands!Words(texts), d))
<1>1. IsTree(Commands!Tree("command", Commands!Words(texts) \o <<Commands!Quoted(<<d.tree>>)>>, <<>>))
  BY InsideIs, WordsAre, TreesAre, TreeIs
<1> QED BY <1>1, InputIs DEF Commands!OfShell

(* A command in a node of another kind.                                        *)
LEMMA WithinIs ==
  ASSUME NEW d, Known(d), NEW kind
  PROVE  Known(Commands!Within(kind, d))
<1>1. IsTree(Commands!Tree(kind, <<>>, <<d.tree>>))
  BY InsideIs, WordsAre, TreeIs
<1> QED BY <1>1, InputIs DEF Commands!Within

(* Two trees in a list.                                                        *)
LEMMA ListIs ==
  ASSUME NEW a, NEW b, IsTree(a), IsTree(b), NEW does, NEW ruins
  PROVE  Known(Commands!Input(Commands!Tree("list", <<>>, <<a, b>>), does, ruins))
BY WordsAre, TreesAre, TreeIs, InputIs

(* A tree of words alone.                                                      *)
LEMMA LeafIs ==
  ASSUME NEW kind, NEW texts, IsTexts(texts)
  PROVE  IsTree(Commands!Tree(kind, Commands!Words(texts), <<>>))
BY WordsAre, TreesAre, TreeIs

(* An input of which more is known.                                            *)
LEMMA DoesIs ==
  ASSUME NEW d, Known(d), NEW does
  PROVE  Known([d EXCEPT !.does = does])
<1>1. d = [tree |-> d.tree, does |-> d.does, ruins |-> d.ruins, form |-> d.form]
  BY DEF Known
<1>2. [d EXCEPT !.does = does] = [tree |-> d.tree, does |-> does, ruins |-> d.ruins, form |-> d.form]
  BY <1>1
<1> QED BY <1>2 DEF Known

(* An input of another form.                                                   *)
LEMMA FormIs ==
  ASSUME NEW d, Known(d), NEW form \in Forms
  PROVE  Known([d EXCEPT !.form = form])
<1>1. d = [tree |-> d.tree, does |-> d.does, ruins |-> d.ruins, form |-> d.form]
  BY DEF Known
<1>2. [d EXCEPT !.form = form] = [tree |-> d.tree, does |-> d.does, ruins |-> d.ruins, form |-> form]
  BY <1>1
<1> QED BY <1>2 DEF Known

(* What a command is wrapped in.                                                *)
LEMMA WrappedAre ==
  ASSUME NEW d, Known(d)
  PROVE  AllKnown(Commands!Wrapped(d))
<1>1. /\ IsTexts(<<"sudo", "-u", "rm", "-n">>)
      /\ IsTexts(<<"env", "-i">>)
      /\ IsTexts(<<"env", "A=1">>)
      /\ IsTexts(<<"timeout", "-k", "1", "5">>)
      /\ IsTexts(<<"nice", "-n", "9">>)
      /\ IsTexts(<<"nohup">>)
      /\ IsTexts(<<"command", "--">>)
      /\ IsTexts(<<"builtin">>)
      /\ IsTexts(<<"eval">>)
      /\ IsTexts(<<"find", ".", "-exec">>)
      /\ IsTexts(<<";", "-print">>)
  BY TextsAre
<1> QED BY <1>1, BeforeIs, BetweenIs, TenAreKnown DEF Commands!Wrapped

(* What a command is composed to.                                               *)
LEMMA ComposedAre ==
  ASSUME NEW d, Known(d)
  PROVE  AllKnown(Commands!Composed(d))
<1>1. /\ IsTexts(<<"bash", "-ec">>)
      /\ IsTexts(<<"sudo", "sh", "-c">>)
      /\ IsTexts(<<"reboot">>)
      /\ IsTexts(<<"/etc/hosts">>)
      /\ IsTexts(<<"/dev/null">>)
      /\ IsTexts(<<"LD_PRELOAD">>)
  BY TextsAre
<1>2. Known([d EXCEPT !.does = @ \cup {"permission"}])
  BY DoesIs
<1>3. IsTree(d.tree) /\ IsTree(Commands!Plain(<<"reboot">>, {}).tree)
  BY <1>1, PlainIs DEF Known
<1>4. /\ IsTree(Commands!Tree("write", Commands!Words(<<"/etc/hosts">>), <<>>))
      /\ IsTree(Commands!Tree("write", Commands!Words(<<"/dev/null">>), <<>>))
      /\ IsTree(Commands!Tree("assign", Commands!Words(<<"LD_PRELOAD">>), <<>>))
  BY <1>1, LeafIs
<1> QED BY <1>1, <1>2, <1>3, <1>4, ShellInputIs, WithinIs, ListIs, TenAreKnown DEF Commands!Composed

(* What is made of a command in one step.                                      *)
LEMMA OnceAre ==
  ASSUME NEW d, Known(d)
  PROVE  AllKnown(Commands!Once(d))
BY WrappedAre, ComposedAre, KnownJoin DEF Commands!Once

(* A sequence of as many as the simple inputs.                                 *)
LEMMA ManyAreKnown ==
  ASSUME NEW a1, NEW a2, NEW a3, NEW a4, NEW a5, NEW a6, NEW a7, NEW a8, NEW a9, NEW a10,
         NEW a11, NEW a12, NEW a13, NEW a14, NEW a15, NEW a16, NEW a17, NEW a18, NEW a19,
         NEW a20, NEW a21, NEW a22, NEW a23, NEW a24, NEW a25, NEW a26, NEW a27, NEW a28,
         NEW a29, NEW a30, NEW a31, NEW a32, NEW a33, NEW a34, NEW a35, NEW a36, NEW a37,
         NEW a38, NEW a39,
         Known(a1), Known(a2), Known(a3), Known(a4), Known(a5), Known(a6), Known(a7),
         Known(a8), Known(a9), Known(a10), Known(a11), Known(a12), Known(a13), Known(a14),
         Known(a15), Known(a16), Known(a17), Known(a18), Known(a19), Known(a20), Known(a21),
         Known(a22), Known(a23), Known(a24), Known(a25), Known(a26), Known(a27), Known(a28),
         Known(a29), Known(a30), Known(a31), Known(a32), Known(a33), Known(a34), Known(a35),
         Known(a36), Known(a37), Known(a38), Known(a39)
  PROVE  AllKnown(<<a1, a2, a3, a4, a5, a6, a7, a8, a9, a10, a11, a12, a13, a14, a15, a16, a17, a18,
                    a19, a20, a21, a22, a23, a24, a25, a26, a27, a28, a29, a30, a31, a32, a33, a34,
                    a35, a36, a37, a38, a39>>)
<1> DEFINE S == {a1, a2, a3, a4, a5, a6, a7, a8, a9, a10, a11, a12, a13, a14, a15, a16, a17, a18,
               a19, a20, a21, a22, a23, a24, a25, a26, a27, a28, a29, a30, a31, a32, a33, a34,
               a35, a36, a37, a38, a39}
<1>1. <<a1, a2, a3, a4, a5, a6, a7, a8, a9, a10, a11, a12, a13, a14, a15, a16, a17, a18,
        a19, a20, a21, a22, a23, a24, a25, a26, a27, a28, a29, a30, a31, a32, a33, a34,
        a35, a36, a37, a38, a39>>
        \in Seq(S)
  OBVIOUS
<1>2. \A d \in S : Known(d)
  OBVIOUS
<1> HIDE DEF S
<1> QED BY <1>1, <1>2 DEF AllKnown

(* Every input of the run.                                                     *)
LEMMA SimpleAre == AllKnown(Commands!Simple)
BY PlainIs, TextsAre, ManyAreKnown DEF Commands!Simple, Commands!Dynamic

(* Inputs made of inputs.                                                      *)
LEMMA EachOnceAre ==
  ASSUME NEW ds, AllKnown(ds)
  PROVE  AllKnown(Commands!Each(Commands!Once, ds))
<1> DEFINE ss == [i \in DOMAIN ds |-> Commands!Once(ds[i])]
<1>1. Len(ds) \in Nat /\ DOMAIN ds = 1 .. Len(ds)
  BY LenProperties DEF AllKnown
<1>2. ASSUME NEW i \in 1 .. Len(ds) PROVE AllKnown(ss[i])
  BY <1>1, KnownOnes, OnceAre
<1>3. ss = [i \in 1 .. Len(ds) |-> ss[i]]
  BY <1>1
<1> HIDE DEF ss
<1>4. AllKnown(Commands!FlattenSeq(ss))
  BY <1>1, <1>2, <1>3, MadeOfKnown
<1> QED BY <1>4 DEF Commands!Each, ss

(* Compositions of the inputs.                                                 *)
LEMMA EachComposedAre ==
  ASSUME NEW ds, AllKnown(ds)
  PROVE  AllKnown(Commands!Each(Commands!Composed, ds))
<1> DEFINE ss == [i \in DOMAIN ds |-> Commands!Composed(ds[i])]
<1>1. Len(ds) \in Nat /\ DOMAIN ds = 1 .. Len(ds)
  BY LenProperties DEF AllKnown
<1>2. ASSUME NEW i \in 1 .. Len(ds) PROVE AllKnown(ss[i])
  BY <1>1, KnownOnes, ComposedAre
<1>3. ss = [i \in 1 .. Len(ds) |-> ss[i]]
  BY <1>1
<1> HIDE DEF ss
<1>4. AllKnown(Commands!FlattenSeq(ss))
  BY <1>1, <1>2, <1>3, MadeOfKnown
<1> QED BY <1>4 DEF Commands!Each, ss

(* Wrappers of the inputs.                                                     *)
LEMMA EachWrappedAre ==
  ASSUME NEW ds, AllKnown(ds)
  PROVE  AllKnown(Commands!Each(Commands!Wrapped, ds))
<1> DEFINE ss == [i \in DOMAIN ds |-> Commands!Wrapped(ds[i])]
<1>1. Len(ds) \in Nat /\ DOMAIN ds = 1 .. Len(ds)
  BY LenProperties DEF AllKnown
<1>2. ASSUME NEW i \in 1 .. Len(ds) PROVE AllKnown(ss[i])
  BY <1>1, KnownOnes, WrappedAre
<1>3. ss = [i \in 1 .. Len(ds) |-> ss[i]]
  BY <1>1
<1> HIDE DEF ss
<1>4. AllKnown(Commands!FlattenSeq(ss))
  BY <1>1, <1>2, <1>3, MadeOfKnown
<1> QED BY <1>4 DEF Commands!Each, ss

(* The few that are made more of.                                              *)
LEMMA FewAre == AllKnown(Commands!Few) /\ Known(Commands!Simple[1])
<1> DEFINE simple == Commands!Simple
<1>1. DOMAIN simple = 1 .. 39
  BY DEF Commands!Simple
<1>2. \A i \in 1 .. 39 : Known(simple[i])
  BY <1>1, SimpleAre, KnownOnes
<1> HIDE DEF simple
<1>3. Known(simple[1]) /\ Known(simple[3]) /\ Known(simple[14]) /\ Known(simple[32])
  BY <1>2
<1> DEFINE S == {simple[1], simple[3], simple[14], simple[32]}
<1>4. <<simple[1], simple[3], simple[14], simple[32]>> \in Seq(S)
  OBVIOUS
<1>5. \A d \in S : Known(d)
  BY <1>3
<1> HIDE DEF S
<1>6. AllKnown(<<simple[1], simple[3], simple[14], simple[32]>>)
  BY <1>4, <1>5 DEF AllKnown
<1> QED BY <1>3, <1>6 DEF Commands!Few, simple

(* The inputs that are not walked.                                             *)
LEMMA FormsAre ==
  AllKnown([i \in 1 .. 4 |-> [Commands!Simple[1] EXCEPT !.form = <<"long", "control", "blank", "foreign">>[i]]])
<1> DEFINE forms == <<"long", "control", "blank", "foreign">>
           one == Commands!Simple[1]
           s == [i \in 1 .. 4 |-> [one EXCEPT !.form = forms[i]]]
           S == {s[i] : i \in 1 .. 4}
<1>1. \A i \in 1 .. 4 : forms[i] \in Forms
  BY DEF Forms
<1>2. Known(one)
  BY FewAre
<1> HIDE DEF one, forms
<1>3. \A i \in 1 .. 4 : Known(s[i])
  BY <1>1, <1>2, FormIs
<1>4. s \in Seq(S)
  <2>1. s = [i \in 1 .. 4 |-> s[i]]
    OBVIOUS
  <2> HIDE DEF s
  <2> QED BY <2>1
<1> HIDE DEF s
<1>5. \A d \in S : Known(d)
  BY <1>3
<1> HIDE DEF S
<1>6. AllKnown(s)
  BY <1>4, <1>5 DEF AllKnown
<1> QED BY <1>6 DEF s, one, forms

(* All of them.                                                                *)
LEMMA InputsAre == AllKnown(Commands!AllInputs)
<1>1. /\ AllKnown(Commands!Each(Commands!Once, Commands!Simple))
      /\ AllKnown(Commands!Each(Commands!Wrapped, Commands!Few))
      /\ AllKnown(Commands!Each(Commands!Composed, Commands!Few))
  BY SimpleAre, FewAre, EachOnceAre, EachWrappedAre, EachComposedAre
<1>2. /\ AllKnown(Commands!Each(Commands!Composed, Commands!Each(Commands!Wrapped, Commands!Few)))
      /\ AllKnown(Commands!Each(Commands!Composed, Commands!Each(Commands!Composed, Commands!Few)))
      /\ AllKnown(Commands!Each(Commands!Wrapped, Commands!Each(Commands!Wrapped, Commands!Few)))
  BY <1>1, EachWrappedAre, EachComposedAre
<1> QED BY <1>1, <1>2, SimpleAre, FormsAre, KnownJoin DEF Commands!AllInputs

-----------------------------------------------------------------------------
(* The walk.                                                                   *)

(* What the walk has found and what is left of it, of a set of trees that has all *)
(* that is in them.                                                            *)
Items(T) ==
  {x \in [step : {"parse", "visit", "child"}, trees : Seq(T), depth : Nat] :
     x.step # "parse" => x.trees = <<x.trees[1]>>}

WalkIn(T, W) == Closed(T, W) /\ input.tree \in T /\ todo \in Seq(Items(T))

PolicyTyped ==
  /\ kinds \subseteq Kinds
  /\ phase \in {"start", "walk", "done"}
  /\ input.form \in Forms
  /\ \E T, W : WalkIn(T, W)

(* At first there is the tree of the input, and nothing left of it.            *)
LEMMA PolicyTypedInit == Init => PolicyTyped
<1> SUFFICES ASSUME Policy!Init PROVE PolicyTyped
  BY DEF Init
<1>1. PICK i \in DOMAIN Commands!AllInputs : input = Commands!AllInputs[i]
  BY DEF Policy!Init
<1>2. Known(input)
  BY <1>1, InputsAre, KnownOnes
<1>3. PICK T, W : Closed(T, W) /\ input.tree \in T
  BY <1>2 DEF Known, IsTree
<1>4. todo = <<>> /\ kinds = {} /\ phase = "start"
  BY DEF Policy!Init
<1>5. todo \in Seq(Items(T))
  BY <1>4
<1>6. input.form \in Forms
  BY <1>2 DEF Known
<1> QED BY <1>3, <1>4, <1>5, <1>6 DEF PolicyTyped, WalkIn

(* What is noted is of a known kind.                                           *)
LEMMA NotesAreTyped ==
  ASSUME NEW T, NEW f \in Findings(T), Policy!Note(f), kinds \subseteq Kinds
  PROVE  kinds' \subseteq Kinds
BY DEF Policy!Note, Findings

(* What is put before the rest of the walk.                                    *)
LEMMA ItemsAre ==
  ASSUME NEW T, NEW trees \in Seq(T), NEW depth \in Nat
  PROVE  /\ Policy!Parse(trees, depth) \in Items(T)
         /\ [i \in DOMAIN trees |-> Policy!Visit(trees[i], depth)] \in Seq(Items(T))
         /\ [i \in DOMAIN trees |-> Policy!Child(trees[i], depth)] \in Seq(Items(T))
<1>1. Policy!Parse(trees, depth) \in Items(T)
  BY DEF Policy!Parse, Items
<1>2. ASSUME NEW t \in T PROVE Policy!Visit(t, depth) \in Items(T) /\ Policy!Child(t, depth) \in Items(T)
  <2>1. <<t>> \in Seq(T) /\ <<t>> = <<(<<t>>)[1]>>
    OBVIOUS
  <2> QED BY <2>1 DEF Policy!Visit, Policy!Child, Items
<1>3. Len(trees) \in Nat /\ DOMAIN trees = 1 .. Len(trees) /\ \A i \in 1 .. Len(trees) : trees[i] \in T
  BY LenProperties, ElementOfSeq
<1> QED BY <1>1, <1>2, <1>3

(* The sources of a finding.                                                   *)
LEMMA SourcesAre ==
  ASSUME NEW T, NEW f \in Findings(T)
  PROVE  [i \in DOMAIN f.code |-> Policy!Parse(f.code[i].source, f.code[i].depth)] \in Seq(Items(T))
<1>1. f.code \in Seq(Sources(T))
  BY DEF Findings
<1>2. Len(f.code) \in Nat /\ DOMAIN f.code = 1 .. Len(f.code) /\ \A i \in 1 .. Len(f.code) : f.code[i] \in Sources(T)
  BY <1>1, LenProperties, ElementOfSeq
<1>3. \A s \in Sources(T) : Policy!Parse(s.source, s.depth) \in Items(T)
  BY ItemsAre DEF Sources
<1> QED BY <1>2, <1>3

(* The next that is left, and the rest.                                        *)
LEMMA NextItem ==
  ASSUME NEW S, NEW s \in Seq(S), s # <<>>
  PROVE  s[1] \in S /\ Tail(s) \in Seq(S)
BY HeadTailProperties, LenProperties, ElementOfSeq, EmptySeq

(* A step leaves the tree of the input, and of the walk what it puts there.      *)
LEMMA WalkGoesOn ==
  ASSUME NEW T, NEW W, WalkIn(T, W), input' = input, todo' \in Seq(Items(T))
  PROVE  WalkIn(T, W)'
BY DEF WalkIn

(* A step that goes over the budget.                                           *)
LEMMA OverrunIsTyped ==
  ASSUME NEW T, NEW W, WalkIn(T, W), todo # <<>>, kinds \subseteq Kinds, NEW d, Policy!Overrun(d),
         input' = input
  PROVE  kinds' \subseteq Kinds /\ WalkIn(T, W)'
<1>1. Policy!Note(Policy!Unknown) /\ todo' = Tail(todo)
  BY DEF Policy!Overrun
<1>2. kinds' \subseteq Kinds
  BY <1>1, FoundIs, NotesAreTyped
<1>3. todo' \in Seq(Items(T))
  BY <1>1, NextItem DEF WalkIn
<1> QED BY <1>2, <1>3, WalkGoesOn

(* The input is taken, or refused for its form.                                *)
LEMMA StartIsTyped ==
  ASSUME PolicyTyped, Policy!Start
  PROVE  PolicyTyped'
<1> PICK T, W : WalkIn(T, W)
  BY DEF PolicyTyped
<1>1. input' = input
  BY DEF Policy!Start
<1>2. CASE Policy!Note([Policy!Unknown EXCEPT !.deny = TRUE]) /\ todo' = <<>> /\ phase' = "done"
  <2>1. [Policy!Unknown EXCEPT !.deny = TRUE] \in Findings(T)
    BY FoundIs DEF Findings
  <2>2. kinds' \subseteq Kinds
    BY <1>2, <2>1, NotesAreTyped DEF PolicyTyped
  <2>3. WalkIn(T, W)'
    BY <1>1, <1>2 DEF WalkIn
  <2> QED BY <1>1, <1>2, <2>2, <2>3 DEF PolicyTyped
<1>3. CASE Policy!Note(Policy!Unknown) /\ todo' = <<>> /\ phase' = "done"
  <2>1. kinds' \subseteq Kinds
    BY <1>3, FoundIs, NotesAreTyped DEF PolicyTyped
  <2>2. WalkIn(T, W)'
    BY <1>1, <1>3 DEF WalkIn
  <2> QED BY <1>1, <1>3, <2>1, <2>2 DEF PolicyTyped
<1>4. CASE todo' = <<Policy!Parse(<<input.tree>>, 0)>> /\ phase' = "walk" /\ UNCHANGED <<kinds, status, decision>>
  <2>1. <<input.tree>> \in Seq(T)
    BY DEF WalkIn
  <2>2. Policy!Parse(<<input.tree>>, 0) \in Items(T)
    BY <2>1, ItemsAre
  <2>3. todo' \in Seq(Items(T))
    BY <1>4, <2>2
  <2>4. WalkIn(T, W)'
    BY <1>1, <2>3, WalkGoesOn
  <2> QED BY <1>1, <1>4, <2>4 DEF PolicyTyped
<1> QED BY <1>2, <1>3, <1>4 DEF Policy!Start

(* A source is taken apart (parse).                                            *)
LEMMA ParseIsTyped ==
  ASSUME PolicyTyped, Policy!ParseSource
  PROVE  PolicyTyped'
<1> PICK T, W : WalkIn(T, W)
  BY DEF PolicyTyped
<1> DEFINE item == todo[1]
           trees == [i \in DOMAIN item.trees |-> Policy!Visit(item.trees[i], item.depth)]
<1>1. todo # <<>> /\ input' = input /\ phase' = phase
  BY DEF Policy!ParseSource
<1>2. CASE Policy!Overrun(item.depth)
  <2>1. kinds' \subseteq Kinds /\ WalkIn(T, W)'
    BY <1>1, <1>2, OverrunIsTyped DEF PolicyTyped
  <2> QED BY <1>1, <2>1 DEF PolicyTyped
<1>3. CASE todo' = trees \o Tail(todo) /\ kinds' = kinds
  <2>1. item \in Items(T) /\ Tail(todo) \in Seq(Items(T))
    BY <1>1, NextItem DEF WalkIn
  <2>2. trees \in Seq(Items(T))
    <3>1. item.trees \in Seq(T) /\ item.depth \in Nat
      BY <2>1 DEF Items
    <3> QED BY <3>1, ItemsAre
  <2> HIDE DEF trees
  <2>3. todo' \in Seq(Items(T))
    BY <1>3, <2>1, <2>2, ConcatProperties
  <2>4. WalkIn(T, W)'
    BY <1>1, <2>3, WalkGoesOn
  <2> QED BY <1>1, <1>3, <2>4 DEF PolicyTyped
<1> QED BY <1>2, <1>3 DEF Policy!ParseSource

(* A node is visited (walk).                                                   *)
LEMMA VisitIsTyped ==
  ASSUME PolicyTyped, Policy!VisitNode
  PROVE  PolicyTyped'
<1> PICK T, W : WalkIn(T, W)
  BY DEF PolicyTyped
<1> DEFINE item == todo[1]
           tree == item.trees[1]
           found == Policy!NodeRules(tree, item.depth)
           code == [i \in DOMAIN found.code |-> Policy!Parse(found.code[i].source, found.code[i].depth)]
           children == [i \in DOMAIN tree.children |-> Policy!Child(tree.children[i], item.depth + 1)]
<1>1. todo # <<>> /\ item.step # "parse" /\ input' = input /\ phase' = phase
  BY Zenon DEF Policy!VisitNode
<1>2. CASE todo' = Tail(todo) /\ kinds' = kinds
  <2>1. todo' \in Seq(Items(T))
    BY <1>1, <1>2, NextItem DEF WalkIn
  <2>2. WalkIn(T, W)'
    BY <1>1, <2>1, WalkGoesOn
  <2> QED BY <1>1, <1>2, <2>2 DEF PolicyTyped
<1>3. CASE Policy!Overrun(item.depth)
  <2>1. kinds' \subseteq Kinds /\ WalkIn(T, W)'
    BY <1>1, <1>3, OverrunIsTyped DEF PolicyTyped
  <2> QED BY <1>1, <2>1 DEF PolicyTyped
<1>4. CASE Policy!Note(found) /\ todo' = code \o children \o Tail(todo)
  <2>1. item \in Items(T) /\ Tail(todo) \in Seq(Items(T))
    BY <1>1, NextItem DEF WalkIn
  <2>2. item.trees \in Seq(T) /\ item.trees = <<tree>> /\ item.depth \in Nat
    BY <1>1, <2>1 DEF Items
  <2>3. tree \in T /\ item.depth + 1 \in Nat
    <3>1. item.trees # <<>>
      BY <2>2
    <3> QED BY <2>2, <3>1, NextItem
  <2>4. found \in Findings(T)
    BY <2>2, <2>3, NodeIs DEF WalkIn
  <2>5. tree.children \in Seq(T)
    BY <2>3 DEF WalkIn, Closed
  <2>6. code \in Seq(Items(T))
    BY <2>4, SourcesAre
  <2>7. children \in Seq(Items(T))
    BY <2>3, <2>5, ItemsAre, Zenon
  <2>8. kinds' \subseteq Kinds
    BY <1>4, <2>4, NotesAreTyped, Zenon DEF PolicyTyped
  <2> HIDE DEF code, children, found
  <2>9. todo' \in Seq(Items(T))
    BY <1>4, <2>1, <2>6, <2>7, ConcatProperties
  <2>10. WalkIn(T, W)'
    BY <1>1, <2>9, WalkGoesOn
  <2> QED BY <1>1, <2>8, <2>10 DEF PolicyTyped
<1>5. \/ todo' = Tail(todo) /\ kinds' = kinds
      \/ Policy!Overrun(item.depth)
      \/ Policy!Note(found) /\ todo' = code \o children \o Tail(todo)
  BY Zenon DEF Policy!VisitNode
<1> HIDE DEF item, tree, found, code, children
<1> QED BY <1>2, <1>3, <1>4, <1>5, Zenon

(* Every step.                                                                 *)
LEMMA PolicyTypedStep == PolicyTyped /\ [Next]_vars => PolicyTyped'
<1> SUFFICES ASSUME PolicyTyped, [Next]_vars PROVE PolicyTyped'
  OBVIOUS
<1> PICK T, W : WalkIn(T, W)
  BY DEF PolicyTyped
<1>1. CASE Policy!Next
  <2>1. CASE Policy!Finish
    <3>1. input' = input /\ todo' = todo /\ phase' = "done" /\ Policy!Note(Policy!LastLook)
      BY <2>1 DEF Policy!Finish
    <3>2. Policy!LastLook \in Findings(T)
      BY FoundIs, IfIs DEF Policy!LastLook
    <3>3. kinds' \subseteq Kinds
      BY <3>1, <3>2, NotesAreTyped DEF PolicyTyped
    <3>4. WalkIn(T, W)'
      BY <3>1 DEF WalkIn
    <3> QED BY <3>1, <3>3, <3>4 DEF PolicyTyped
  <2>2. CASE Policy!TimePasses
    <3>1. UNCHANGED <<input, todo, phase, kinds>>
      BY <2>2 DEF Policy!TimePasses
    <3> QED BY <3>1 DEF PolicyTyped, WalkIn
  <2> QED BY <1>1, <2>1, <2>2, StartIsTyped, ParseIsTyped, VisitIsTyped DEF Policy!Next
<1>2. CASE UNCHANGED policy
  <2>1. UNCHANGED <<input, todo, phase, kinds>>
    BY <1>2 DEF policy
  <2> QED BY <2>1 DEF PolicyTyped, WalkIn
<1> QED BY <1>1, <1>2 DEF Next, vars

(* TypesOK: the types of the run, for any connections, owners, secrets, targets,   *)
(* steps, depths and budgets, and for every command of the inputs (known_hosts,      *)
(* get_secret, the remote editor, emit_sftp_progress, the analysis of a command).  *)
THEOREM TypesHold == Spec => []TypesOK
<1>1. PolicyInvariant /\ PolicyTyped => Policy!TypeOK
  BY DEF PolicyInvariant, PolicyTyped, Forms, Kinds, Policy!TypeOK
<1>2. StoresAreTyped /\ Policy!TypeOK => TypesOK
  BY DEF StoresAreTyped, TypesOK
<1>3. Spec => []PolicyInvariant
  BY PolicyInit, PolicyStep, PTL DEF Spec
<1>4. Spec => []PolicyTyped
  BY PolicyTypedInit, PolicyTypedStep, PTL DEF Spec
<1> QED BY <1>1, <1>2, <1>3, <1>4, StoresStayTyped, PTL

-----------------------------------------------------------------------------
(* What a complete analysis has read.                                          *)

(* What is left of a walk, as pairs of a tree and a depth.                       *)
Pairs(trees, depth) == {<<trees[j], depth>> : j \in DOMAIN trees}
Left(items)         == UNION {Pairs(items[i].trees, items[i].depth) : i \in DOMAIN items}

(* What a node leads to: its children, and the sources that are found in its words. *)
LeadsTo(v) ==
  LET found == Policy!NodeRules(v[1], v[2])
  IN Pairs(v[1].children, v[2] + 1)
       \cup UNION {Pairs(found.code[i].source, found.code[i].depth) : i \in DOMAIN found.code}

(* What is found of a node is listed.                                           *)
Listed(v) ==
  LET found == Policy!NodeRules(v[1], v[2])
  IN v[2] <= MaxDepth /\ found.kinds \subseteq kinds /\ ~found.unknown /\ (found.deny => decision = "deny")

Covers(V, left) ==
  /\ <<input.tree, 0>> \in V \cup left
  /\ \A v \in V : Listed(v) /\ LeadsTo(v) \subseteq V \cup left

(* A complete analysis has read all of the command: the tree, whatever is in it,   *)
(* and whatever is in the sources that are found, each at its depth; and all that   *)
(* is found of it is listed (analyze, walk, parse).                             *)
AllIsRead ==
  phase = "done" /\ status = "complete" => \E V : Covers(V, {})

(* What is left of sequences of items.                                         *)
LEMMA LeftOfNext ==
  ASSUME NEW S, NEW s \in Seq(S), s # <<>>
  PROVE  Left(s) = Pairs(s[1].trees, s[1].depth) \cup Left(Tail(s))
<1> DEFINE P(i) == Pairs(s[i].trees, s[i].depth)
<1>1. Len(s) \in Nat \ {0} /\ DOMAIN s = 1 .. Len(s)
  BY LenProperties, EmptySeq
<1>2. DOMAIN Tail(s) = 1 .. Len(s) - 1 /\ \A i \in 1 .. Len(s) - 1 : Tail(s)[i] = s[i + 1]
  BY <1>1, HeadTailProperties, LenProperties
<1>3. Left(Tail(s)) = UNION {P(i + 1) : i \in 1 .. Len(s) - 1}
  BY <1>2 DEF Left
<1>4. Left(s) = UNION {P(i) : i \in 1 .. Len(s)}
  BY <1>1 DEF Left
<1>5. \A i \in 1 .. Len(s) : i = 1 \/ (i - 1 \in 1 .. Len(s) - 1 /\ i = (i - 1) + 1)
  BY <1>1
<1>6. 1 \in 1 .. Len(s) /\ \A i \in 1 .. Len(s) - 1 : i + 1 \in 1 .. Len(s)
  BY <1>1
<1>7. P(1) = Pairs(s[1].trees, s[1].depth)
  OBVIOUS
<1> HIDE DEF P
<1>8. UNION {P(i) : i \in 1 .. Len(s)} = P(1) \cup UNION {P(i + 1) : i \in 1 .. Len(s) - 1}
  <2>1. ASSUME NEW x \in UNION {P(i) : i \in 1 .. Len(s)}
        PROVE  x \in P(1) \cup UNION {P(i + 1) : i \in 1 .. Len(s) - 1}
    <3>1. PICK i \in 1 .. Len(s) : x \in P(i)
      OBVIOUS
    <3> DEFINE j == i - 1
    <3>2. i = 1 \/ (j \in 1 .. Len(s) - 1 /\ i = j + 1)
      BY <1>5
    <3> HIDE DEF j
    <3> QED BY <3>1, <3>2
  <2>2. P(1) \subseteq UNION {P(i) : i \in 1 .. Len(s)}
    BY <1>6
  <2>3. UNION {P(i + 1) : i \in 1 .. Len(s) - 1} \subseteq UNION {P(i) : i \in 1 .. Len(s)}
    BY <1>6
  <2> QED BY <2>1, <2>2, <2>3
<1> QED BY <1>3, <1>4, <1>7, <1>8

(* Of two sequences, what is left of either.                                   *)
LEMMA LeftOfJoin ==
  ASSUME NEW S, NEW a \in Seq(S), NEW b \in Seq(S)
  PROVE  Left(a \o b) = Left(a) \cup Left(b)
<1> DEFINE c == a \o b
           m == Len(a)
           n == Len(b)
           P(x) == Pairs(x.trees, x.depth)
<1>1. m \in Nat /\ n \in Nat /\ DOMAIN a = 1 .. m /\ DOMAIN b = 1 .. n
  BY LenProperties
<1>2. /\ DOMAIN c = 1 .. m + n
      /\ \A i \in 1 .. m + n : c[i] = IF i <= m THEN a[i] ELSE b[i - m]
  BY ConcatProperties, LenProperties
<1>3. /\ Left(c) = UNION {P(c[i]) : i \in 1 .. m + n} /\ Left(a) = UNION {P(a[i]) : i \in 1 .. m}
      /\ Left(b) = UNION {P(b[i]) : i \in 1 .. n}
  BY <1>1, <1>2 DEF Left
<1> HIDE DEF c, m, n, P
<1>4. ASSUME NEW x \in Left(c) PROVE x \in Left(a) \cup Left(b)
  <2>1. PICK i \in 1 .. m + n : x \in P(c[i])
    BY <1>3
  <2>2. (i \in 1 .. m /\ c[i] = a[i]) \/ (i - m \in 1 .. n /\ c[i] = b[i - m])
    BY <1>1, <1>2
  <2> DEFINE j == i - m
  <2>3. (i \in 1 .. m /\ c[i] = a[i]) \/ (j \in 1 .. n /\ c[i] = b[j])
    BY <2>2
  <2> HIDE DEF j
  <2> QED BY <1>3, <2>1, <2>3
<1>5. ASSUME NEW x \in Left(a) PROVE x \in Left(c)
  <2>1. PICK i \in 1 .. m : x \in P(a[i])
    BY <1>3
  <2>2. i \in 1 .. m + n /\ c[i] = a[i]
    BY <1>1, <1>2
  <2> QED BY <1>3, <2>1, <2>2
<1>6. ASSUME NEW x \in Left(b) PROVE x \in Left(c)
  <2>1. PICK i \in 1 .. n : x \in P(b[i])
    BY <1>3
  <2> DEFINE j == i + m
  <2>2. j \in 1 .. m + n /\ c[j] = b[i]
    <3>1. j \in 1 .. m + n /\ ~(j <= m) /\ j - m = i
      BY <1>1
    <3> QED BY <1>2, <3>1
  <2> HIDE DEF j
  <2> QED BY <1>3, <2>1, <2>2
<1> QED BY <1>4, <1>5, <1>6 DEF c

(* Of three.                                                                   *)
LEMMA LeftOfThree ==
  ASSUME NEW S, NEW a \in Seq(S), NEW b \in Seq(S), NEW c \in Seq(S)
  PROVE  Left(a \o b \o c) = Left(a) \cup Left(b) \cup Left(c)
<1> DEFINE d == a \o b
<1>1. d \in Seq(S)
  BY ConcatProperties
<1>2. Left(d) = Left(a) \cup Left(b)
  BY LeftOfJoin
<1> HIDE DEF d
<1>3. Left(d \o c) = Left(d) \cup Left(c)
  BY <1>1, LeftOfJoin
<1> QED BY <1>2, <1>3 DEF d

(* What is left of the items that a step puts before the rest.                   *)
LEMMA LeftOfItems ==
  /\ \A trees, d : /\ Left([i \in DOMAIN trees |-> Policy!Visit(trees[i], d)]) = Pairs(trees, d)
                   /\ Left([i \in DOMAIN trees |-> Policy!Child(trees[i], d)]) = Pairs(trees, d)
  /\ \A code : Left([i \in DOMAIN code |-> Policy!Parse(code[i].source, code[i].depth)])
                 = UNION {Pairs(code[i].source, code[i].depth) : i \in DOMAIN code}
<1>1. \A t, d : Pairs(<<t>>, d) = {<<t, d>>}
  BY DEF Pairs
<1>2. \A t, d : /\ Policy!Visit(t, d).trees = <<t>> /\ Policy!Visit(t, d).depth = d
                /\ Policy!Child(t, d).trees = <<t>> /\ Policy!Child(t, d).depth = d
  BY DEF Policy!Visit, Policy!Child
<1>3. \A s, d : Policy!Parse(s, d).trees = s /\ Policy!Parse(s, d).depth = d
  BY DEF Policy!Parse
<1>4. ASSUME NEW s, NEW trees, NEW d, DOMAIN s = DOMAIN trees,
             \A i \in DOMAIN trees : s[i].trees = <<trees[i]>> /\ s[i].depth = d
      PROVE  Left(s) = Pairs(trees, d)
  <2>1. \A i \in DOMAIN trees : Pairs(s[i].trees, s[i].depth) = {<<trees[i], d>>}
    BY <1>1, <1>4
  <2>2. Left(s) = UNION {{<<trees[i], d>>} : i \in DOMAIN trees}
    BY <1>4, <2>1 DEF Left
  <2> QED BY <2>2 DEF Pairs
<1>6. ASSUME NEW trees, NEW d
      PROVE  /\ Left([i \in DOMAIN trees |-> Policy!Visit(trees[i], d)]) = Pairs(trees, d)
             /\ Left([i \in DOMAIN trees |-> Policy!Child(trees[i], d)]) = Pairs(trees, d)
  <2> DEFINE visits   == [i \in DOMAIN trees |-> Policy!Visit(trees[i], d)]
             children == [i \in DOMAIN trees |-> Policy!Child(trees[i], d)]
  <2>1. /\ DOMAIN visits = DOMAIN trees /\ DOMAIN children = DOMAIN trees
        /\ \A i \in DOMAIN trees : /\ visits[i] = Policy!Visit(trees[i], d)
                                  /\ children[i] = Policy!Child(trees[i], d)
    OBVIOUS
  <2> HIDE DEF visits, children
  <2>2. Left(visits) = Pairs(trees, d) /\ Left(children) = Pairs(trees, d)
    BY <1>2, <1>4, <2>1
  <2> QED BY <2>2 DEF visits, children
<1>5. ASSUME NEW code
      PROVE  Left([i \in DOMAIN code |-> Policy!Parse(code[i].source, code[i].depth)])
               = UNION {Pairs(code[i].source, code[i].depth) : i \in DOMAIN code}
  BY <1>3 DEF Left
<1> QED BY <1>5, <1>6

-----------------------------------------------------------------------------
(* What was read so far, and what is left, is all of the command.                *)
ReadInvariant ==
  /\ phase \in {"start", "walk", "done"} /\ (phase = "done" => todo = <<>>)
  /\ phase # "start" /\ status = "complete" /\ ~overdue => \E V : Covers(V, Left(todo))

(* At first nothing is read.                                                   *)
LEMMA ReadInit == Init => ReadInvariant
BY DEF Init, Policy!Init, ReadInvariant

(* What a note leaves: what was found stays found.                              *)
LEMMA NotesStay ==
  ASSUME PolicyInvariant, NEW T, NEW f \in Findings(T), Policy!Note(f), status' = "complete"
  PROVE  /\ status = "complete" /\ ~f.unknown
         /\ kinds \subseteq kinds' /\ f.kinds \subseteq kinds'
         /\ (f.deny => decision' = "deny") /\ (decision = "deny" => decision' = "deny")
<1>1. f.unknown \in BOOLEAN /\ f.deny \in BOOLEAN
  BY DEF Findings
<1>2. kinds' = kinds \cup f.kinds
  BY DEF Policy!Note
<1>3. status' = IF f.unknown THEN "unknown" ELSE status
  BY DEF Policy!Note
<1>4. f.deny => decision' = "deny"
  BY <1>1 DEF Policy!Note
<1>5. decision = "deny" => decision' = "deny"
  BY <1>1 DEF Policy!Note, Policy!Ask
<1> QED BY <1>1, <1>2, <1>3, <1>4, <1>5

(* A finding that is unknown makes the analysis incomplete.                      *)
LEMMA UnknownsStay ==
  ASSUME NEW f, f.unknown, Policy!Note(f)
  PROVE  status' = "unknown"
BY DEF Policy!Note

(* A step that notes or leaves what was noted, and reads no node.                  *)
LEMMA CoverStays ==
  ASSUME NEW V, Covers(V, Left(todo)), input' = input, Left(todo') = Left(todo),
         kinds \subseteq kinds', decision = "deny" => decision' = "deny"
  PROVE  Covers(V, Left(todo))'
<1>1. \A v \in V : Listed(v) => Listed(v)'
  BY DEF Listed
<1>2. \A v \in V : LeadsTo(v)' = LeadsTo(v)
  BY DEF LeadsTo
<1> QED BY <1>1, <1>2 DEF Covers

(* Where something is unknown there is nothing to say.                          *)
LEMMA UnknownIsRead ==
  ASSUME status' = "unknown", phase' \in {"start", "walk", "done"}, phase' = "done" => todo' = <<>>
  PROVE  ReadInvariant'
BY DEF ReadInvariant

(* A step of the walk.                                                         *)
LEMMA WalkReads ==
  ASSUME phase' = "walk", status' = "complete" /\ ~overdue' => \E V : Covers(V, Left(todo))'
  PROVE  ReadInvariant'
BY DEF ReadInvariant

(* The walk begins with the whole command.                                     *)
LEMMA StartReads ==
  ASSUME PolicyTyped, ReadInvariant, Policy!Start
  PROVE  ReadInvariant'
<1>1. CASE Policy!Note([Policy!Unknown EXCEPT !.deny = TRUE]) /\ todo' = <<>> /\ phase' = "done"
  BY <1>1, UnknownIsUnknown, UnknownsStay, UnknownIsRead
<1>2. CASE Policy!Note(Policy!Unknown) /\ todo' = <<>> /\ phase' = "done"
  BY <1>2, UnknownIsUnknown, UnknownsStay, UnknownIsRead
<1>3. CASE todo' = <<Policy!Parse(<<input.tree>>, 0)>> /\ phase' = "walk"
  <2>1. input' = input
    BY DEF Policy!Start
  <2>2. Policy!Parse(<<input.tree>>, 0).trees = <<input.tree>> /\ Policy!Parse(<<input.tree>>, 0).depth = 0
    BY DEF Policy!Parse
  <2> DEFINE item == Policy!Parse(<<input.tree>>, 0)
  <2>3. Left(<<item>>) = Pairs(item.trees, item.depth)
    <3> HIDE DEF item
    <3> QED BY DEF Left
  <2>4. Pairs(<<input.tree>>, 0) = {<<input.tree, 0>>}
    BY DEF Pairs
  <2>5. Left(todo') = {<<input.tree, 0>>}
    BY <1>3, <2>2, <2>3, <2>4
  <2>6. Covers({}, Left(todo))'
    BY <2>1, <2>5 DEF Covers
  <2> QED BY <1>3, <2>6 DEF ReadInvariant
<1> QED BY <1>1, <1>2, <1>3, Zenon DEF Policy!Start

(* An item that is left.                                                       *)
LEMMA NextIsLeft ==
  ASSUME NEW T, NEW W, WalkIn(T, W), todo # <<>>
  PROVE  /\ todo[1] \in Items(T) /\ Tail(todo) \in Seq(Items(T))
         /\ Left(todo) = Pairs(todo[1].trees, todo[1].depth) \cup Left(Tail(todo))
BY NextItem, LeftOfNext DEF WalkIn

(* A source that is taken apart is left as its trees.                            *)
LEMMA ParseReads ==
  ASSUME PolicyTyped, ReadInvariant, Policy!ParseSource
  PROVE  ReadInvariant'
<1> PICK T, W : WalkIn(T, W)
  BY DEF PolicyTyped
<1> DEFINE item == todo[1]
           trees == [i \in DOMAIN item.trees |-> Policy!Visit(item.trees[i], item.depth)]
<1>1. todo # <<>> /\ UNCHANGED <<input, overdue, phase>> /\ phase = "walk"
  BY Zenon DEF Policy!ParseSource
<1>2. CASE Policy!Overrun(item.depth)
  <2>1. Policy!Note(Policy!Unknown)
    BY <1>2 DEF Policy!Overrun
  <2> QED BY <1>1, <2>1, UnknownIsUnknown, UnknownsStay, UnknownIsRead
<1>3. CASE todo' = trees \o Tail(todo) /\ UNCHANGED <<kinds, status, decision>>
  <2>1. item \in Items(T) /\ Tail(todo) \in Seq(Items(T))
    BY <1>1, NextIsLeft
  <2>2. item.trees \in Seq(T) /\ item.depth \in Nat
    BY <2>1 DEF Items
  <2>3. trees \in Seq(Items(T)) /\ Left(trees) = Pairs(item.trees, item.depth)
    BY <2>2, ItemsAre, LeftOfItems
  <2> HIDE DEF trees
  <2>4. Left(todo') = Left(trees) \cup Left(Tail(todo))
    <3> DEFINE rest == Tail(todo)
    <3>1. rest \in Seq(Items(T)) /\ todo' = trees \o rest
      BY <1>3, <2>1
    <3> HIDE DEF rest
    <3>2. Left(trees \o rest) = Left(trees) \cup Left(rest)
      BY <2>3, <3>1, LeftOfJoin
    <3> QED BY <3>1, <3>2 DEF rest
  <2>5. Left(todo') = Left(todo)
    BY <1>1, <2>3, <2>4, NextIsLeft
  <2>6. ASSUME NEW V, Covers(V, Left(todo)) PROVE Covers(V, Left(todo))'
    BY <1>1, <1>3, <2>5, <2>6, CoverStays
  <2> HIDE DEF item
  <2> QED BY <1>1, <1>3, <2>6 DEF ReadInvariant
<1>4. \/ Policy!Overrun(item.depth)
      \/ todo' = trees \o Tail(todo) /\ UNCHANGED <<kinds, status, decision>>
  BY Zenon DEF Policy!ParseSource
<1> HIDE DEF item, trees
<1> QED BY <1>2, <1>3, <1>4, Zenon

(* A node that is visited is read, and what it leads to is left.                  *)
LEMMA VisitReads ==
  ASSUME PolicyInvariant, PolicyTyped, ReadInvariant, Policy!VisitNode
  PROVE  ReadInvariant'
<1> PICK T, W : WalkIn(T, W)
  BY DEF PolicyTyped
<1> DEFINE item == todo[1]
           tree == item.trees[1]
           found == Policy!NodeRules(tree, item.depth)
           code == [i \in DOMAIN found.code |-> Policy!Parse(found.code[i].source, found.code[i].depth)]
           children == [i \in DOMAIN tree.children |-> Policy!Child(tree.children[i], item.depth + 1)]
<1>0. PICK v : v = <<tree, item.depth>> /\ v[1] = tree /\ v[2] = item.depth
  <2>1. PICK t, d : t = tree /\ d = item.depth
    OBVIOUS
  <2>2. <<t, d>>[1] = t /\ <<t, d>>[2] = d
    OBVIOUS
  <2> QED BY <2>1, <2>2, Zenon
<1>1. todo # <<>> /\ item.step # "parse" /\ UNCHANGED <<input, overdue, phase>> /\ phase = "walk"
  BY Zenon DEF Policy!VisitNode
<1>2. item \in Items(T) /\ Tail(todo) \in Seq(Items(T))
      /\ Left(todo) = Pairs(item.trees, item.depth) \cup Left(Tail(todo))
  BY <1>1, NextIsLeft
<1>3. item.trees \in Seq(T) /\ item.trees = <<tree>> /\ item.depth \in Nat
  BY <1>1, <1>2 DEF Items
<1>4. tree \in T /\ item.depth + 1 \in Nat
  <2>1. item.trees # <<>>
    BY <1>3
  <2> QED BY <1>3, <2>1, NextItem
<1>5. Left(todo) = {v} \cup Left(Tail(todo))
  <2>1. Pairs(<<tree>>, item.depth) = {v}
    BY <1>0 DEF Pairs
  <2> QED BY <1>2, <1>3, <2>1
<1>6. found \in Findings(T) /\ tree.children \in Seq(T)
  BY <1>3, <1>4, NodeIs DEF WalkIn, Closed
<1>7. code \in Seq(Items(T)) /\ children \in Seq(Items(T))
  BY <1>4, <1>6, SourcesAre, ItemsAre, Zenon
<1>8. Left(children) \cup Left(code) = LeadsTo(v)
  <2>1. Left(children) = Pairs(tree.children, item.depth + 1)
    BY LeftOfItems, Zenon
  <2>2. Left(code) = UNION {Pairs(found.code[i].source, found.code[i].depth) : i \in DOMAIN found.code}
    BY LeftOfItems, Zenon
  <2> HIDE DEF code, children, tree
  <2> QED BY <1>0, <2>1, <2>2 DEF LeadsTo
<1>9. CASE Policy!LeavesOut /\ UNCHANGED <<nodes, kinds, status, decision>> /\ todo' = Tail(todo)
  <2>1. status = "complete" => nodes <= MaxNodes /\ nodes \in Nat /\ MaxNodes \in Nat
    BY Bounds DEF PolicyInvariant
  <2>2. status = "complete" => overdue
    BY <1>9, <2>1 DEF Policy!LeavesOut
  <2> HIDE DEF item, tree, found, code, children
  <2> QED BY <1>1, <1>9, <2>2 DEF ReadInvariant, PolicyInvariant
<1>10. CASE Policy!Overrun(item.depth)
  <2>1. Policy!Note(Policy!Unknown)
    BY <1>10 DEF Policy!Overrun
  <2> HIDE DEF item, tree, found, code, children
  <2> QED BY <1>1, <2>1, UnknownIsUnknown, UnknownsStay, UnknownIsRead
<1>11. CASE /\ Policy!WithinBudget(item.depth) /\ Policy!Note(found)
            /\ todo' = code \o children \o Tail(todo)
  <2>1. item.depth <= MaxDepth
    BY <1>11, Zenon DEF Policy!WithinBudget
  <2>3. Left(todo') = Left(code) \cup Left(children) \cup Left(Tail(todo))
    <3> HIDE DEF item, tree, found, code, children
    <3> DEFINE rest == Tail(todo)
    <3>1. rest \in Seq(Items(T))
      BY <1>2
    <3>2. todo' = code \o children \o rest
      BY <1>11
    <3> HIDE DEF rest
    <3>3. Left(code \o children \o rest) = Left(code) \cup Left(children) \cup Left(rest)
      BY <1>7, <3>1, LeftOfThree
    <3>4. Left(todo') = Left(code) \cup Left(children) \cup Left(rest)
      BY <3>2, <3>3, Zenon
    <3> QED BY <3>4 DEF rest
  <2>4. Left(todo') = LeadsTo(v) \cup Left(Tail(todo))
    <3> HIDE DEF code, children
    <3> QED BY <1>8, <2>3
  <2>6. ASSUME status' = "complete", NEW V, Covers(V, Left(todo))
        PROVE  Covers(V \cup {v}, Left(todo))'
    <3>1. /\ ~found.unknown /\ kinds \subseteq kinds' /\ found.kinds \subseteq kinds'
          /\ (found.deny => decision' = "deny") /\ (decision = "deny" => decision' = "deny")
      BY <1>6, <1>11, <2>6, NotesStay, Zenon
    <3>2. Listed(v)'
      <4>1. found = Policy!NodeRules(v[1], v[2])
        BY <1>0, Zenon
      <4> HIDE DEF found, item, tree
      <4> QED BY <1>0, <2>1, <3>1, <4>1 DEF Listed
    <3>3. \A w \in V : Listed(w)'
      <4> HIDE DEF found, code, children, item, tree
      <4> QED BY <2>6, <3>1 DEF Covers, Listed
    <3>4. \A w : LeadsTo(w)' = LeadsTo(w)
      BY DEF LeadsTo
    <3>5. input' = input
      BY <1>1
    <3> HIDE DEF item, tree, found, code, children
    <3>6. \A w \in V \cup {v} : LeadsTo(w) \subseteq (V \cup {v}) \cup Left(todo')
      BY <1>5, <2>4, <2>6 DEF Covers
    <3>7. <<input.tree, 0>> \in (V \cup {v}) \cup Left(todo')
      BY <1>5, <2>4, <2>6 DEF Covers
    <3> QED BY <3>2, <3>3, <3>4, <3>5, <3>6, <3>7 DEF Covers
  <2> HIDE DEF item, tree, found, code, children
  <2>7. status' = "complete" => status = "complete"
    BY <1>6, <1>11, NotesStay
  <2>8. status' = "complete" /\ ~overdue' => \E V : Covers(V, Left(todo))'
    BY <1>1, <2>6, <2>7 DEF ReadInvariant
  <2>9. phase' = "walk"
    BY <1>1
  <2> QED BY <2>8, <2>9, WalkReads, Zenon
<1>12. \/ Policy!LeavesOut /\ UNCHANGED <<nodes, kinds, status, decision>> /\ todo' = Tail(todo)
       \/ Policy!Overrun(item.depth)
       \/ /\ Policy!WithinBudget(item.depth) /\ Policy!Note(found)
          /\ todo' = code \o children \o Tail(todo)
  BY Zenon DEF Policy!VisitNode
<1> HIDE DEF item, tree, found, code, children
<1> QED BY <1>9, <1>10, <1>11, <1>12, Zenon

(* Every step reads a node, or leaves it to be read.                           *)
LEMMA ReadStep == PolicyInvariant /\ PolicyTyped /\ ReadInvariant /\ [Next]_vars => ReadInvariant'
<1> SUFFICES ASSUME PolicyInvariant, PolicyTyped, ReadInvariant, [Next]_vars PROVE ReadInvariant'
  OBVIOUS
<1>1. CASE Policy!Finish
  <2>1. /\ Policy!Note(Policy!LastLook) /\ phase' = "done" /\ phase = "walk" /\ todo = <<>>
        /\ UNCHANGED <<input, todo, overdue>>
    BY <1>1 DEF Policy!Finish
  <2>2. Policy!LastLook \in Findings({})
    BY FoundIs, IfIs DEF Policy!LastLook
  <2>3. ASSUME status' = "complete", ~overdue
        PROVE  \E V : Covers(V, Left(todo))'
    <3>1. PICK V : Covers(V, Left(todo))
      BY <2>1, <2>2, <2>3, NotesStay DEF ReadInvariant
    <3>2. kinds \subseteq kinds' /\ (decision = "deny" => decision' = "deny")
      BY <2>1, <2>2, <2>3, NotesStay
    <3>3. Left(todo') = Left(todo) /\ input' = input
      BY <2>1
    <3> QED BY <3>1, <3>2, <3>3, CoverStays
  <2> QED BY <2>1, <2>3 DEF ReadInvariant
<1>2. CASE Policy!TimePasses
  BY <1>2 DEF Policy!TimePasses, ReadInvariant
<1>3. CASE UNCHANGED policy
  <2>1. UNCHANGED <<input, todo, overdue, kinds, status, decision, phase>>
    BY <1>3 DEF policy
  <2>2. ASSUME NEW V, Covers(V, Left(todo)) PROVE Covers(V, Left(todo))'
    BY <2>1, <2>2, CoverStays
  <2> QED BY <2>1, <2>2 DEF ReadInvariant
<1> QED BY <1>1, <1>2, <1>3, StartReads, ParseReads, VisitReads DEF Next, vars, Policy!Next

(* AllIsRead, for any rules of the kind that ReviewsEnd proves of these, any budget  *)
(* and any deadline.                                                          *)
THEOREM CompleteIsRead == Spec => []AllIsRead
<1>1. PolicyInvariant /\ ReadInvariant => AllIsRead
  <2> SUFFICES ASSUME PolicyInvariant, ReadInvariant, phase = "done", status = "complete"
               PROVE  \E V : Covers(V, {})
    BY DEF AllIsRead
  <2>1. ~overdue /\ todo = <<>>
    BY DEF PolicyInvariant, ReadInvariant
  <2>2. Left(todo) = {}
    BY <2>1 DEF Left
  <2> QED BY <2>1, <2>2 DEF ReadInvariant
<1>2. Spec => []PolicyInvariant
  BY PolicyInit, PolicyStep, PTL DEF Spec
<1>3. Spec => []PolicyTyped
  BY PolicyTypedInit, PolicyTypedStep, PTL DEF Spec
<1> QED BY <1>1, <1>2, <1>3, ReadInit, ReadStep, PTL DEF Spec

=============================================================================
