------------------------------ MODULE KnownHosts ------------------------------
(***************************************************************************)
(* The file of host keys that every native connection shares:               *)
(* verify_known_host and remove_ai_term_known_host of terminal/ssh.rs.  A      *)
(* connection reads the file, looks its endpoint up and, when it has no entry,  *)
(* adds one and writes the whole file; forgetting a host rewrites it without    *)
(* the host's lines.  Nothing locks the file, and a writer empties it first.    *)
(*                                                                         *)
(* The key of an endpoint changes when its server is installed anew.           *)
(***************************************************************************)
EXTENDS Integers

CONSTANTS
  Conns,       \* connections being made, each of one endpoint
  Hosts,       \* endpoints
  HostKeys,    \* host keys
  Changes      \* bounds the servers that get a new key, and the connections made

None == "none"

VARIABLES
  file,       \* the entries of the file
  server,     \* the key each server has
  step,       \* what each connection does
  host,       \* the endpoint of each connection
  seen,       \* the entries it has read
  key,        \* the key its server showed
  forget,     \* remove_ai_term_known_host: the host, and what was read of the file
  trusted,    \* a ghost: the entries there are when accesses do not overlap
  raced,      \* a ghost: an access overlapped with one that writes
  changes, made

conns == <<step, host, seen, key>>
vars == <<file, server, conns, forget, trusted, raced, changes, made>>

Empty == [h \in Hosts |-> None]
NoForget == [host |-> None, seen |-> Empty, at |-> "none"]

Init ==
  /\ file = Empty /\ trusted = Empty /\ forget = NoForget
  /\ server = [h \in Hosts |-> CHOOSE k \in HostKeys : TRUE]
  /\ step = [c \in Conns |-> "idle"]
  /\ host = [c \in Conns |-> CHOOSE h \in Hosts : TRUE]
  /\ seen = [c \in Conns |-> Empty]
  /\ key = [c \in Conns |-> None]
  /\ raced = FALSE /\ changes = 0 /\ made = 0

(* Who else is writing the file, or may write what it has read of it.             *)
Writing(c) == forget.at = "writing" \/ \E d \in Conns \ {c} : step[d] = "writing"
Holding(c) == forget.at # "none" \/ \E d \in Conns \ {c} : step[d] \in {"read", "writing"}

(* The handshake: the server shows its key.                                   *)
Connect(c) ==
  /\ step[c] \in {"idle", "verified", "refused"} /\ made < 2 * Changes + 2
  /\ made' = made + 1
  /\ \E h \in Hosts : host' = [host EXCEPT ![c] = h] /\ key' = [key EXCEPT ![c] = server[h]]
  /\ step' = [step EXCEPT ![c] = "shown"]
  /\ UNCHANGED <<file, server, seen, forget, trusted, raced, changes>>

(* known_hosts.read_file                                                     *)
ReadFile(c) ==
  /\ step[c] = "shown"
  /\ seen' = [seen EXCEPT ![c] = file]
  /\ step' = [step EXCEPT ![c] = "read"]
  /\ raced' = (raced \/ Writing(c))
  /\ UNCHANGED <<file, server, host, key, forget, trusted, changes, made>>

\* (a bug to try: a host whose key has changed is entered anew)
Accepts(c) ==
  IF seen[c][host[c]] = key[c] THEN "match" ELSE "not found"

(* check_known_host: Match, NotFound or Mismatch.                              *)
Found(c) ==
  CASE seen[c][host[c]] = key[c] -> "match"
    [] seen[c][host[c]] = None   -> "not found"
    [] OTHER                     -> "mismatch"

(* Match and Mismatch; a match counts though the file has changed since.         *)
Check(c) ==
  /\ step[c] = "read" /\ Found(c) # "not found"
  /\ step' = [step EXCEPT ![c] = IF Found(c) = "match" THEN "verified" ELSE "refused"]
  /\ UNCHANGED <<file, server, host, seen, key, forget, trusted, raced, changes, made>>

(* known_hosts.add and write_file, which opens the file anew and then fills it.   *)
Truncate(c) ==
  /\ step[c] = "read" /\ Found(c) = "not found"
  /\ file' = Empty
  /\ step' = [step EXCEPT ![c] = "writing"]
  /\ raced' = (raced \/ Holding(c))
  /\ UNCHANGED <<server, host, seen, key, forget, trusted, changes, made>>

\* (a bug to try: the file is written with the new entry alone)
OneEntry(c) == [Empty EXCEPT ![host[c]] = key[c]]
Entries(c) == [seen[c] EXCEPT ![host[c]] = key[c]]

WriteFile(c) ==
  /\ step[c] = "writing"
  /\ file' = Entries(c)
  /\ trusted' = [trusted EXCEPT ![host[c]] = key[c]]
  /\ step' = [step EXCEPT ![c] = "verified"]
  /\ UNCHANGED <<server, host, seen, key, forget, raced, changes, made>>

(* remove_ai_term_known_host: the user trusts the new key.                       *)
Forget(h) ==
  /\ forget.at = "none" /\ trusted[h] # None
  /\ forget' = [host |-> h, seen |-> file, at |-> "read"]
  /\ raced' = (raced \/ \E d \in Conns : step[d] = "writing")
  /\ UNCHANGED <<file, server, conns, trusted, changes, made>>

\* (a bug to try: every host goes)
KeepsNothing(seenFile, h) == Empty
Without(seenFile, h) == [seenFile EXCEPT ![h] = None]

(* Its lines are filtered, and the file is written if one of them was the host's. *)
Forgets ==
  /\ forget.at = "read" /\ forget.seen[forget.host] # None
  /\ file' = Empty
  /\ forget' = [forget EXCEPT !.at = "writing"]
  /\ raced' = (raced \/ \E d \in Conns : step[d] \in {"read", "writing"})
  /\ UNCHANGED <<server, conns, trusted, changes, made>>

Forgotten ==
  /\ \/ forget.at = "writing" /\ file' = Without(forget.seen, forget.host)
     \/ forget.at = "read" /\ forget.seen[forget.host] = None /\ UNCHANGED file
  /\ trusted' = [trusted EXCEPT ![forget.host] = None]
  /\ forget' = NoForget
  /\ UNCHANGED <<server, conns, raced, changes, made>>

NewKey(h) ==
  /\ changes < Changes
  /\ changes' = changes + 1
  /\ \E k \in HostKeys \ {server[h]} : server' = [server EXCEPT ![h] = k]
  /\ UNCHANGED <<file, conns, forget, trusted, raced, made>>

Next ==
  \/ \E c \in Conns : Connect(c) \/ ReadFile(c) \/ Check(c) \/ Truncate(c) \/ WriteFile(c)
  \/ \E h \in Hosts : Forget(h) \/ NewKey(h)
  \/ Forgets \/ Forgotten

Spec == Init /\ [][Next]_vars

-----------------------------------------------------------------------------
TypeOK ==
  /\ {file, trusted} \cup {seen[c] : c \in Conns} \subseteq [Hosts -> HostKeys \cup {None}]
  /\ server \in [Hosts -> HostKeys]
  /\ step \in [Conns -> {"idle", "shown", "read", "writing", "verified", "refused"}]
  /\ changes \in 0..Changes

(* A server is spoken to under the key it was entered with, until the user         *)
(* forgets the host: unless two accesses to the file overlapped, the file is what  *)
(* was entered, and no connection is verified under another key.                 *)
EnteredKeysHold ==
  raced \/ forget.at = "writing" \/ (\E c \in Conns : step[c] = "writing") \/ file = trusted

ChangedKeysAreRefused ==
  \A c \in Conns :
    step[c] # "verified" /\ step'[c] = "verified" /\ ~raced /\ ~raced'
      => trusted[host[c]] \in {None, key[c]}

=============================================================================
