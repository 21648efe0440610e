------------------------------- MODULE StoresMC -------------------------------
(* What the application keeps or reads of others, for TLC: the file of host    *)
(* keys, the store of secrets, a remote text in the editor, the output of the  *)
(* sftp program, the analysis of a command and the routes of an SFTP           *)
(* operation.  A behaviour is one of one of these parts, and the variables of  *)
(* the others keep their first values.                                         *)
EXTENDS Integers, FiniteSets, Sequences

CONSTANTS Conns, Hosts, HostKeys, Changes,         \* KnownHosts, SftpRoutes
          Connections, Configs, Passwords, MaxSaves,  \* SecretStore
          Targets, Drafts, Others,                 \* RemoteText
          Steps, Window,                           \* SftpOutput
          MaxDepth, MaxNodes,                      \* CommandPolicy
          AccountNames                             \* SftpRoutes

VARIABLES
  part,  \* the part this behaviour is of
  file, server, step, host, seen, key, forget, trusted, raced, changes, made,
  rows, stored, keyring, reachable, held, deleting, told, due, saves,
  here, remote, editor, at, command, force, sent, answer, got, token, asked, lost, late,
  done, window, updates, directory, lines,
  input, todo, nodes, overdue, kinds, status, decision, phase,
  profile,   \* the profile of a connection
  queued,    \* the profile a task was queued with
  override   \* where the window has found itself

Keys     == INSTANCE KnownHosts
Store    == INSTANCE SecretStore WITH Endpoints <- Connections, Secrets <- Passwords
Text     == INSTANCE RemoteText WITH step <- command
Output   == INSTANCE SftpOutput WITH server <- directory
Commands == INSTANCE CommandInputs
Policy   == INSTANCE CommandPolicy WITH Inputs <- Commands!AllInputs, late <- overdue
Routes   == INSTANCE SftpRoutes WITH Names <- AccountNames

keys   == <<file, server, step, host, seen, key, forget, trusted, raced, changes, made>>
store  == <<rows, stored, keyring, reachable, held, deleting, told, due, saves>>
text   == <<here, remote, editor, at, command, force, sent, answer, got, token, asked, lost,
            late>>
output == <<done, window, updates, directory, lines>>
policy == <<input, todo, nodes, overdue, kinds, status, decision, phase>>
routes == <<profile, queued, override>>
vars   == <<part, keys, store, text, output, policy, routes>>

ASSUME Bounds == /\ Changes \in Nat /\ MaxSaves \in Nat /\ Connections \cap Configs = {}
                 /\ Steps \in Nat \ {0} /\ Window \in Nat \ {0}
                 /\ MaxDepth \in Nat /\ MaxNodes \in Nat

(* A server has a key, and what stands for none of them is no owner or secret.  *)
ASSUME Names == /\ Hosts # {} /\ HostKeys # {}
                /\ Store!Owners \cap {Store!NoRef, Store!NoRow.ref, Store!Nothing.owner} = {}
                /\ Passwords \cap {Store!NoSecret, Store!Absent, Store!Empty} = {}

(* A variable whose part this behaviour is not of has one first value.         *)
Fixed(of, value, values) == value \in (IF part = of THEN values ELSE {CHOOSE v \in values : TRUE})

(* Connections are interchangeable, as are passwords: what an older version     *)
(* left, it left to the first connection or to a configuration.                *)
LeftToTheFirst ==
  LET first == CHOOSE c \in Connections : TRUE
      old   == CHOOSE s \in Passwords : TRUE
  IN /\ \A o \in Connections \ {first} : rows[o] = Store!NoRow
     /\ \A o \in Store!Owners : due[o] \subseteq {old}

Init ==
  /\ part \in {"keys", "store", "text", "output", "policy", "routes"}
  /\ Keys!Init /\ Text!Init
  /\ part # "text" => remote = [t \in Targets |-> Text!First] /\ here = CHOOSE t \in Targets : TRUE
  /\ Store!Init
  /\ part # "store" => reachable /\ \A o \in Store!Owners : rows[o] = Store!NoRow
  /\ LeftToTheFirst
  /\ Output!Init
  /\ part # "output" => directory = <<>> /\ lines = <<>>
  /\ Policy!Init
  /\ part # "policy" => input = Commands!AllInputs[1]
  /\ Fixed("routes", profile, Routes!AnyProfiles)
  /\ Fixed("routes", override, Routes!Overrides)
  /\ queued = profile

(* The profile is changed, in one place at a time, while the task is queued.   *)
ChangeProfile ==
  /\ profile = queued
  /\ \/ \E r \in Routes!Roles : profile' = [profile EXCEPT !.role = r]
     \/ \E m \in Routes!Modes : profile' = [profile EXCEPT !.mode = m]
     \/ \E j \in Routes!Jumps : profile' = [profile EXCEPT !.jump = j]
     \/ \E e \in Routes!Endpoints : \/ profile' = [profile EXCEPT !.target = e]
                                    \/ profile' = [profile EXCEPT !.gateway = e]
  /\ UNCHANGED <<queued, override>>

Next ==
  \/ part = "keys" /\ Keys!Next /\ UNCHANGED <<part, store, text, output, policy, routes>>
  \/ part = "store" /\ Store!Next /\ UNCHANGED <<part, keys, text, output, policy, routes>>
  \/ part = "text" /\ Text!Next /\ UNCHANGED <<part, keys, store, output, policy, routes>>
  \/ part = "output" /\ Output!Next /\ UNCHANGED <<part, keys, store, text, policy, routes>>
  \/ part = "policy" /\ Policy!Next /\ UNCHANGED <<part, keys, store, text, output, routes>>
  \/ part = "routes" /\ ChangeProfile /\ UNCHANGED <<part, keys, store, text, output, policy>>

Spec == Init /\ [][Next]_vars

-----------------------------------------------------------------------------
(* The types of all parts.                                                     *)
TypesOK == /\ Keys!TypeOK /\ Store!TypeOK /\ Text!TypeOK /\ Output!TypeOK /\ Policy!TypeOK
           /\ profile \in Routes!AnyProfiles /\ queued \in Routes!AnyProfiles

(* A server whose host key has changed is refused until the user forgets the   *)
(* host, unless two accesses to the file overlap: then an entry may be lost.   *)
ChangedKeysAreRefused == [][Keys!EnteredKeysHold' /\ Keys!ChangedKeysAreRefused]_vars

(* A secret is handed out only to the owner it was entered for, never once it  *)
(* was replaced or deleted, and is not lost when a write fails while it moves. *)
SecretsAreDue == Store!OnlyDueSecrets /\ Store!SecretsAreKept

(* A saved secret goes only to the host it was saved for, and a queued task    *)
(* goes where it went when it was queued, though its profile was changed.      *)
RoutesAreBound ==
  Routes!SecretsGoHome(profile, override) /\ Routes!BoundTasksStay(profile, queued, override)

(* What others wrote to a file since the editor read it is overwritten only    *)
(* when the user says so, or when it came after the check; and a save goes to  *)
(* the server that the text was read from.                                     *)
OthersTextIsKept == [][Text!OthersTextIsKept' /\ Text!SavesStayThere]_vars

(* Progress and listings say what the sftp program has shown, however its      *)
(* output was cut into pieces and whatever the files are called.               *)
OutputIsRead == Output!ProgressIsShown /\ Output!ListingIsTrue

(* A command is allowed only if nothing it runs changes anything, neither the  *)
(* budget nor the deadline leaves a part out unnoticed, and one that removes   *)
(* the root directory is denied however it is wrapped.                         *)
CommandsAreJudged == Policy!EffectsAreReported /\ Policy!RuinIsDenied
=============================================================================
