---------------------------- MODULE TaskRegistry ----------------------------
(***************************************************************************)
(* src-tauri/src/app/tasks.rs: which long operations are running, by the id  *)
(* the front end gave them, and which ids were cancelled before the command  *)
(* that carries them was polled.  Each operation below is one critical        *)
(* section of the registry's mutex.                                         *)
(***************************************************************************)
EXTENDS Naturals, FiniteSets

CONSTANTS
  Ids,       \* task ids
  NoId,      \* a command that was given none: it has a token, but no entry
  Calls,     \* commands of the front end; each allocates one token
  MarkLimit  \* CANCELLED_TASK_LIMIT

VARIABLES
  active,  \* TaskEntries::active: pairs of an id and the call whose token it is
  marks,   \* TaskEntries::cancelled: by the id, how many of the marks are newer
  token    \* the AtomicBool of each call

registry == <<active, marks, token>>

IsActive(id) == \E e \in active : e.id = id
IsMarked(id) == id \in DOMAIN marks

RegistryInit ==
  /\ active = {} /\ marks = [id \in {} |-> 0] /\ token = [c \in Calls |-> FALSE]

(* The marks when the one of an id is removed.                               *)
Without(id) ==
  [i \in DOMAIN marks \ {id} |->
     IF IsMarked(id) /\ marks[i] > marks[id] THEN marks[i] - 1 ELSE marks[i]]

\* (bugs to try: an earlier cancel is not looked for; an active entry is replaced)
EnterUnmarked(c, id) ==
  /\ ~IsActive(id)
  /\ active' = active \cup {[id |-> i, call |-> c] : i \in {id} \ {NoId}}
  /\ token' = [token EXCEPT ![c] = FALSE]
  /\ marks' = Without(id)

EnterReplacing(c, id) ==
  /\ active' = {e \in active : e.id # id} \cup
                 {[id |-> i, call |-> c] : i \in {id} \ {NoId}}
  /\ token' = [token EXCEPT ![c] = IsMarked(id)]
  /\ marks' = Without(id)

(* scoped and register, for an id that is not active: the mark of an earlier  *)
(* cancel becomes the initial value of the token.                            *)
Enter(c, id) ==
  /\ ~IsActive(id)
  /\ active' = active \cup {[id |-> i, call |-> c] : i \in {id} \ {NoId}}
  /\ token' = [token EXCEPT ![c] = IsMarked(id)]
  /\ marks' = Without(id)

(* cancel: the token of an active task, or a mark.  A mark that is repeated    *)
(* counts as new, and the oldest ones over the limit are forgotten.           *)
Marked(id) ==
  [i \in DOMAIN marks \cup {id} |-> IF i = id THEN 0 ELSE Without(id)[i] + 1]

\* (a bug to try: one more than the limit)
ForgottenLate(id) == {i \in DOMAIN Marked(id) : Marked(id)[i] > MarkLimit}
Forgotten(id) == {i \in DOMAIN Marked(id) : Marked(id)[i] >= MarkLimit}

Cancel(id) ==
  IF IsActive(id)
    THEN /\ token' = [c \in Calls |-> token[c] \/ [id |-> id, call |-> c] \in active]
         /\ UNCHANGED <<active, marks>>
    ELSE /\ marks' = [i \in DOMAIN Marked(id) \ Forgotten(id) |-> Marked(id)[i]]
         /\ UNCHANGED <<active, token>>

(* prune: CANCELLED_TASK_TTL has passed for the oldest mark.                   *)
MarkExpires(id) ==
  /\ IsMarked(id) /\ \A i \in DOMAIN marks : marks[i] <= marks[id]
  /\ marks' = Without(id)
  /\ UNCHANGED <<active, token>>

(* finish removes whatever is active under the id.                           *)
Finish(id) ==
  /\ active' = {e \in active : e.id # id}
  /\ UNCHANGED <<marks, token>>

\* (a bug to try: whoever still works under the token is not told)
LeaveQuietly(c) ==
  /\ active' = {e \in active : e.call # c}
  /\ UNCHANGED <<marks, token>>

(* Drop of a TaskRegistration: its token is set for whoever still works under  *)
(* it, and its own entry goes, not one that another call has made since.       *)
Leave(c) ==
  /\ token' = [token EXCEPT ![c] = TRUE]
  /\ active' = {e \in active : e.call # c}
  /\ UNCHANGED marks

(* The registry's variables: the marks count each other, so that there are no  *)
(* more of them than the limit.                                              *)
RegistryTypes ==
  /\ active \subseteq [id : Ids, call : Calls]
  /\ DOMAIN marks \subseteq Ids /\ marks \in [DOMAIN marks -> 0 .. MarkLimit - 1]
  /\ Cardinality(DOMAIN marks) <= MarkLimit
  /\ token \in [Calls -> BOOLEAN]

=============================================================================
