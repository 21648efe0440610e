----------------------------- MODULE SecretStore -----------------------------
(* Passwords and API keys beside the rows that refer to them (domain/storage/  *)
(* sqlite.rs, credentials.rs; the platform store of Linux).  A save puts the   *)
(* secret in the credentials table and then writes the row, holding the mutex  *)
(* of the configuration connection; a read moves a secret that an old version  *)
(* left in a plaintext column, or in the desktop keyring, to that table; a     *)
(* delete reads the row, empties the entry without that mutex and then deletes *)
(* the row.  Every write may fail, and the program may end between two writes. *)
(*                                                                             *)
(* An owner is one endpoint of a profile or one provider configuration, and    *)
(* also names the entry derived from its id (connection_secret_ref,            *)
(* ai_provider_secret_ref).                                                    *)
EXTENDS Naturals, FiniteSets

CONSTANTS Endpoints,     \* endpoints of connection profiles
          Configs,       \* AI provider configurations
          Secrets,       \* what a user may enter
          MaxSaves       \* bound: passwords entered in a behaviour

VARIABLES rows,          \* the table of profiles and configurations
          stored,        \* the credentials table
          keyring,       \* the desktop keyring of an older version
          reachable,     \* the keyring answers
          held,          \* the call between its two writes: it holds the mutex
          deleting,      \* the delete call under way
          told,          \* the secret the last step handed out
          due,           \* the secrets an owner may be told (history)
          saves

vars == <<rows, stored, keyring, reachable, held, deleting, told, due, saves>>

Owners   == Endpoints \cup Configs
NoSecret == "no secret"
NoRef    == "no reference"
NoRow    == [ref |-> "nowhere", column |-> NoSecret]
Absent   == "absent"          \* no entry in the credentials table
Empty    == "empty"           \* the entry of a deleted secret
NoCall   == [call |-> "none"]
Nothing  == [owner |-> "nobody", secret |-> NoSecret]
Idle     == [step |-> "no", owner |-> "nobody", key |-> NoRef]

Row(ref, column) == [ref |-> ref, column |-> column]

TypeOK ==
    /\ rows \in [Owners -> [ref : Owners \cup {NoRef, "nowhere"}, column : Secrets \cup {NoSecret}]]
    /\ stored \in [Owners -> Secrets \cup {Absent, Empty}]
    /\ keyring \in [Owners -> Secrets \cup {NoSecret}]
    /\ reachable \in BOOLEAN
    /\ held.call \in {"none", "save", "read", "delete"}
    /\ deleting \in [step : {"no", "erase", "row"}, owner : Owners \cup {"nobody"},
                     key : Owners \cup {NoRef}]
    /\ told \in [owner : Owners \cup {"nobody"}, secret : Secrets \cup {NoSecret}]
    /\ due \in [Owners -> SUBSET Secrets]
    /\ saves \in 0 .. MaxSaves

(* What older versions left: a secret in the row, in the keyring, or none.     *)
Init ==
    \E left \in [Owners -> {"none", "column", "keyring"}], old \in Secrets :
        /\ Cardinality({o \in Owners : left[o] # "none"}) <= 1
        /\ rows = [o \in Owners |-> CASE left[o] = "none" -> NoRow
                                      [] left[o] = "column" -> Row(NoRef, old)
                                      [] OTHER -> Row(o, NoSecret)]
        /\ stored = [o \in Owners |-> Absent]
        /\ keyring = [o \in Owners |-> IF left[o] = "keyring" THEN old ELSE NoSecret]
        /\ due = [o \in Owners |-> IF left[o] = "none" THEN {} ELSE {old}]
        /\ reachable \in BOOLEAN
        /\ held = NoCall
        /\ deleting = Idle
        /\ told = Nothing
        /\ saves = 0

\* (a bug to try: a profile keeps the reference it was copied with)
KeyAsGiven(o, ref) == IF ref = NoRef THEN o ELSE ref
(* The entry a secret goes to: a profile's is derived from its own id, a       *)
(* configuration's is the one it names.                                        *)
KeyFor(o, ref) == IF o \in Endpoints \/ ref = NoRef THEN o ELSE ref

-----------------------------------------------------------------------------
(* Saving.  The reference of a draft is that of the row it was opened from; a  *)
(* copy of a profile may carry its source's, and comes with a password.        *)
Refs(o, s) == {NoRef} \cup ({rows[o].ref} \cap Owners)
                      \cup (IF o \in Endpoints /\ s # NoSecret THEN Endpoints ELSE {})

SaveSecret(o, ref, s) ==
    /\ held = NoCall /\ saves < MaxSaves
    /\ s \in Secrets /\ ref \in Refs(o, s)
    /\ stored' = [stored EXCEPT ![KeyFor(o, ref)] = s]
    /\ held' = [call |-> "save", owner |-> o, secret |-> s, key |-> KeyFor(o, ref)]
    /\ due' = [due EXCEPT ![o] = IF KeyFor(o, ref) = rows[o].ref THEN @ \cup {s} ELSE @]
    /\ saves' = saves + 1
    /\ told' = Nothing
    /\ UNCHANGED <<rows, keyring, reachable, deleting>>

SaveRow ==
    /\ held.call = "save"
    /\ rows' = [rows EXCEPT ![held.owner] = Row(held.key, NoSecret)]
    /\ due' = [due EXCEPT ![held.owner] = {held.secret} \cap {stored[held.key]}]
    /\ held' = NoCall
    /\ told' = Nothing
    /\ UNCHANGED <<stored, keyring, reachable, deleting, saves>>

(* Without a password only the row is written, and its plaintext column goes.  *)
SaveWithout(o, ref) ==
    /\ held = NoCall
    /\ rows[o].column = NoSecret \* a draft is opened from a row that was read
    /\ ref \in Refs(o, NoSecret)
    /\ rows' = [rows EXCEPT ![o] = Row(ref, NoSecret)]
    /\ due' = [due EXCEPT ![o] = IF ref = NoRef THEN {} ELSE @]
    /\ told' = Nothing
    /\ UNCHANGED <<stored, keyring, reachable, held, deleting, saves>>

-----------------------------------------------------------------------------
(* Reading an entry.  The table's own entry decides, an emptied one too; the   *)
(* keyring is asked only where there is none, and asked to forget afterwards.  *)
Imports(key) == stored[key] = Absent /\ reachable /\ keyring[key] # NoSecret

Entry(key) == IF stored[key] \in Secrets THEN stored[key]
              ELSE IF Imports(key) THEN keyring[key] ELSE NoSecret

Fetch(key) ==
    IF key # NoRef /\ Imports(key)
    THEN /\ stored' = [stored EXCEPT ![key] = keyring[key]]
         /\ keyring' \in {keyring, [keyring EXCEPT ![key] = NoSecret]}
    ELSE UNCHANGED <<stored, keyring>>

Answer(o) == [owner |-> o, secret |-> IF rows[o].ref = NoRef THEN NoSecret ELSE Entry(rows[o].ref)]

Read(o) ==
    /\ held = NoCall /\ rows[o] # NoRow /\ rows[o].column = NoSecret
    /\ Fetch(rows[o].ref)
    /\ told' = Answer(o)
    /\ UNCHANGED <<rows, reachable, held, deleting, due, saves>>

\* (a bug to try: the column is cleared by the step a failure may separate from the store)
MoveRowFirst(o, call) ==
    /\ held = NoCall /\ rows[o] # NoRow /\ rows[o].column # NoSecret
    /\ call = "delete" => deleting = Idle
    /\ rows' = [rows EXCEPT ![o] = Row(KeyFor(o, rows[o].ref), NoSecret)]
    /\ held' = [call |-> call, owner |-> o, secret |-> rows[o].column, key |-> KeyFor(o, rows[o].ref)]
    /\ told' = Nothing
    /\ UNCHANGED <<stored, keyring, reachable, deleting, due, saves>>

(* A plaintext secret is stored first and its column cleared second.           *)
MoveSecret(o, call) ==
    /\ held = NoCall /\ rows[o] # NoRow /\ rows[o].column # NoSecret
    /\ call = "delete" => deleting = Idle
    /\ stored' = [stored EXCEPT ![KeyFor(o, rows[o].ref)] = rows[o].column]
    /\ held' = [call |-> call, owner |-> o, secret |-> rows[o].column, key |-> KeyFor(o, rows[o].ref)]
    /\ told' = Nothing
    /\ UNCHANGED <<rows, keyring, reachable, deleting, due, saves>>

MoveRow ==
    /\ held.call \in {"read", "delete"}
    /\ rows' = [rows EXCEPT ![held.owner] = Row(held.key, NoSecret)]
    /\ deleting' = IF held.call = "delete"
                   THEN [step |-> "erase", owner |-> held.owner, key |-> held.key]
                   ELSE deleting
    /\ told' = [owner |-> held.owner, secret |-> held.secret]
    /\ held' = NoCall
    /\ UNCHANGED <<stored, keyring, reachable, due, saves>>

-----------------------------------------------------------------------------
(* Deleting reads the row under the mutex, and keeps its reference only.       *)
DeleteRead(o) ==
    /\ held = NoCall /\ deleting = Idle /\ rows[o] # NoRow /\ rows[o].column = NoSecret
    /\ Fetch(rows[o].ref)
    /\ deleting' = [step |-> IF rows[o].ref = NoRef THEN "row" ELSE "erase",
                    owner |-> o, key |-> rows[o].ref]
    /\ told' = Nothing
    /\ UNCHANGED <<rows, reachable, held, due, saves>>

\* (a bug to try: a deleted entry is removed)
Removed == Absent
(* What an erased entry becomes: it stays, without a value.                    *)
Erased == Empty

Erase ==
    /\ deleting.step = "erase"
    /\ stored' = [stored EXCEPT ![deleting.key] = Erased]
    /\ keyring' = IF reachable THEN [keyring EXCEPT ![deleting.key] = NoSecret] ELSE keyring
    /\ deleting' = [deleting EXCEPT !.step = "row"]
    /\ due' = [due EXCEPT ![deleting.owner] = {}]
    /\ told' = Nothing
    /\ UNCHANGED <<rows, reachable, held, saves>>

DeleteRow ==
    /\ held = NoCall /\ deleting.step = "row"
    /\ rows' = [rows EXCEPT ![deleting.owner] = NoRow]
    /\ deleting' = Idle
    /\ told' = Nothing
    /\ UNCHANGED <<stored, keyring, reachable, held, due, saves>>

-----------------------------------------------------------------------------
(* A write fails, or the program ends: what was written stays.                 *)
Interrupt ==
    /\ \/ held # NoCall /\ held' = NoCall /\ UNCHANGED deleting
       \/ deleting # Idle /\ deleting' = Idle /\ UNCHANGED held
    /\ told' = Nothing
    /\ UNCHANGED <<rows, stored, keyring, reachable, due, saves>>

(* The desktop service goes away or comes back.                                *)
ServiceChanges ==
    /\ reachable' = ~ reachable
    /\ told' = Nothing
    /\ UNCHANGED <<rows, stored, keyring, held, deleting, due, saves>>

Next ==
    \/ \E o \in Owners : \/ \E ref \in Owners \cup {NoRef} : \/ SaveWithout(o, ref)
                                                             \/ \E s \in Secrets : SaveSecret(o, ref, s)
                         \/ Read(o) \/ DeleteRead(o)
                         \/ \E call \in {"read", "delete"} : MoveSecret(o, call)
    \/ SaveRow \/ MoveRow \/ Erase \/ DeleteRow \/ Interrupt \/ ServiceChanges

Spec == Init /\ [][Next]_vars

-----------------------------------------------------------------------------
(* A secret is handed out only to the owner it was entered for, and never once *)
(* it was replaced or deleted: not from the keyring that was out of reach when *)
(* it was deleted, not from a row another save was copied to, not from a       *)
(* plaintext column whose secret was already moved (delete_secret's empty      *)
(* entry, the key of prepare_endpoint_for_storage, get_secret).                *)
OnlyDueSecrets == told.secret # NoSecret => told.secret \in due[told.owner]

(* A secret that was saved, or left by an older version, is handed out until   *)
(* it is replaced or deleted, whatever fails while it moves: it is missed only *)
(* while it still lies in a keyring that does not answer.                      *)
SecretsAreKept ==
    told # Nothing /\ told.secret = NoSecret =>
        \/ due[told.owner] = {}
        \/ ~ reachable /\ keyring[rows[told.owner].ref] \in due[told.owner]
=============================================================================
