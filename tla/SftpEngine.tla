------------------------------ MODULE SftpEngine ------------------------------
(***************************************************************************)
(* Operations over SFTP, as connection/sftp.rs carries them out: over a        *)
(* pooled libssh2 connection or a new one, on one route after another, and      *)
(* then by the system's sftp program (SftpProgram), again on two routes.  An    *)
(* operation that reads is repeated until somebody answers it; one that         *)
(* changes files must not be, once it may have begun.                          *)
(*                                                                         *)
(* An error is its class: "transport" may be tried elsewhere, "final" stands    *)
(* for authentication, host keys and the server's own refusals.               *)
(***************************************************************************)
EXTENDS SftpRoutes

CONSTANTS
  Ops,        \* operations: "change", or one that reads
  Asked,      \* the profiles and overrides that are used, as pairs
  MaxConns    \* bounds the connections that are made

Routes == UNION {ToSet(AllRoutes(a[1], a[2])) : a \in Asked}
NoConn == 0
ConnIds == 1..MaxConns

VARIABLES
  asked,     \* the profile and the override they all work for
  at,        \* where it is
  route,     \* the route it is on, an index
  conn,      \* the connection it holds
  pooled,    \* its connection came out of the pool
  result,    \* what its action has answered
  answer,    \* what it answers
  began,     \* SFTP_ACTION_STARTED is in its error
  effects,   \* a ghost: how often the server has carried it out
  token,     \* its cancel token
  pool,      \* NATIVE_SFTP_POOL: a connection for each route
  stale,     \* connections the server or the network has dropped
  shut,      \* connections whose sockets a watcher has shut down
  made       \* how many connections were made

op == <<at, route, conn, pooled, result, answer, began, effects>>
net == <<pool, stale, shut, made>>
vars == <<asked, op, token, net>>

-----------------------------------------------------------------------------
Natives == NativeRoutes(asked[1], asked[2])
Systems == AllRoutes(asked[1], asked[2])

Changes(o) == o = "change"
RouteOf(o) == Natives[route[o]]

-----------------------------------------------------------------------------
Init ==
  /\ asked \in Asked
  /\ at = [o \in Ops |-> "idle"]
  /\ route = [o \in Ops |-> 1]
  /\ conn = [o \in Ops |-> NoConn]
  /\ pooled = [o \in Ops |-> FALSE]
  /\ result = [o \in Ops |-> "none"]
  /\ answer = [o \in Ops |-> "none"]
  /\ began = [o \in Ops |-> FALSE]
  /\ effects = [o \in Ops |-> 0]
  /\ token = [o \in Ops |-> FALSE]
  /\ pool = [r \in Routes |-> NoConn]
  /\ stale = {} /\ shut = {} /\ made = 0

Goto(o, place) == at' = [at EXCEPT ![o] = place]

(* The operation answers; its connection, if it still has one, is dropped.       *)
Answer(o, a) ==
  /\ Goto(o, "done")
  /\ answer' = [answer EXCEPT ![o] = a]
  /\ conn' = [conn EXCEPT ![o] = NoConn]

\* (a bug to try: what is retried is decided by the error's class alone)
TriesAgain(o, class, started) == class = "transport"

(* should_try_next_native_sftp_route, should_fallback_native_sftp_error and       *)
(* should_try_composite_username_fallback, which look for the same words.        *)
Elsewhere(o, class, started) == class = "transport" /\ ~started

(* An attempt over the route failed: the next one, the program, or the end.      *)
Failed(o, class, started) ==
  IF Elsewhere(o, class, started)
    THEN /\ conn' = [conn EXCEPT ![o] = NoConn]
         /\ IF route[o] < Len(Natives)
              THEN /\ route' = [route EXCEPT ![o] = @ + 1]
                   /\ Goto(o, "take")
              ELSE /\ route' = [route EXCEPT ![o] = 1]
                   /\ Goto(o, "program")
         /\ UNCHANGED <<answer, began>>
    ELSE /\ Answer(o, class)
         /\ began' = [began EXCEPT ![o] = started]
         /\ UNCHANGED route

(* The command starts; a probe is a listing that first forgets the pooled          *)
(* connections of its routes.                                                *)
Begin(o) ==
  /\ at[o] = "idle"
  /\ \/ UNCHANGED pool
     \/ /\ ~Changes(o)
        /\ pool' = [r \in Routes |-> IF Contains(Natives, r) THEN NoConn ELSE pool[r]]
  /\ Goto(o, IF Natives = <<>> THEN "program" ELSE "take")
  /\ UNCHANGED <<asked, route, conn, pooled, result, answer, began, effects, token, stale,
                 shut, made>>

(* take_cached_native_sftp_connection                                         *)
Take(o) ==
  /\ at[o] = "take" /\ ~token[o]
  /\ LET c == pool[RouteOf(o)]
     IN /\ conn' = [conn EXCEPT ![o] = c]
        /\ pool' = [pool EXCEPT ![RouteOf(o)] = NoConn]
        /\ pooled' = [pooled EXCEPT ![o] = c # NoConn]
        /\ Goto(o, IF c = NoConn THEN "connect" ELSE "ready")
  /\ UNCHANGED <<asked, route, result, answer, began, effects, token, stale, shut, made>>

(* connect_native_sftp_route; SshConnect has what happens in it.                *)
Connect(o) ==
  /\ at[o] = "connect"
  /\ \/ /\ ~token[o] /\ made < MaxConns
        /\ made' = made + 1
        /\ conn' = [conn EXCEPT ![o] = made + 1]
        /\ pooled' = [pooled EXCEPT ![o] = FALSE]
        /\ Goto(o, "ready")
        /\ UNCHANGED <<route, answer, began>>
     \/ \E class \in {"transport", "final"} :
          /\ Failed(o, IF token[o] THEN "cancelled" ELSE class, FALSE)
          /\ UNCHANGED <<pooled, made>>
  /\ UNCHANGED <<asked, result, effects, token, pool, stale, shut>>

(* with_native_sftp_cancellation: from here on a watcher has the sockets.       *)
Start(o) ==
  /\ at[o] = "ready"
  /\ IF token[o]
       THEN Failed(o, "cancelled", Changes(o)) /\ UNCHANGED result
       ELSE /\ Goto(o, "acting")
            /\ result' = [result EXCEPT ![o] = "none"]
            /\ UNCHANGED <<conn, route, answer, began>>
  /\ UNCHANGED <<asked, pooled, effects, token, net>>

(* The action on the server.  A connection that breaks may take the answer with  *)
(* it, or the request.                                                       *)
Act(o) ==
  /\ at[o] = "acting"
  /\ \E r \in {"ok", "final", "transport"} :
       /\ r \in {"ok", "final"} => conn[o] \notin stale \cup shut
       /\ result' = [result EXCEPT ![o] = r]
       /\ effects' \in {[effects EXCEPT ![o] = IF Changes(o) THEN @ + n ELSE 0] :
                          n \in IF r = "ok" THEN {1} ELSE IF r = "final" THEN {0} ELSE {0, 1}}
  /\ Goto(o, "acted")
  /\ UNCHANGED <<asked, route, conn, pooled, answer, began, token, net>>

(* A socket that was shut wakes whoever reads from it.                          *)
Woken(o) ==
  /\ at[o] = "acting" /\ conn[o] \in shut
  /\ result' = [result EXCEPT ![o] = "transport"]
  /\ Goto(o, "acted")
  /\ UNCHANGED <<asked, route, conn, pooled, answer, began, effects, token, net>>

(* The guard's first look at the token; the guard then waits for its watcher.    *)
Leave(o) ==
  /\ at[o] = "acted"
  /\ result' = [result EXCEPT ![o] = IF token[o] THEN "cancelled" ELSE @]
  /\ Goto(o, "left")
  /\ UNCHANGED <<asked, route, conn, pooled, answer, began, effects, token, net>>

(* The watcher between the two looks, or while the action waits.                *)
Watch(o) ==
  /\ at[o] \in {"acting", "acted", "left"} /\ token[o] /\ conn[o] \notin shut
  /\ shut' = shut \cup {conn[o]}
  /\ UNCHANGED <<asked, op, token, pool, stale, made>>

\* (a bug to try: the token is not looked at again before the connection is kept)
KeepsAnyway(o) ==
  /\ pool' = [pool EXCEPT ![RouteOf(o)] = conn[o]]
  /\ Answer(o, "ok")

(* store_cached_native_sftp_connection, after the second look.                  *)
Keeps(o) ==
  IF token[o] THEN Answer(o, "cancelled") /\ UNCHANGED pool
  ELSE /\ pool' = [pool EXCEPT ![RouteOf(o)] = conn[o]]
       /\ Answer(o, "ok")

\* (a bug to try: a change that failed on a connection that had gone stale in the
\* pool is made again on a new one, as a listing is)
RepeatsAll(o) == pooled[o] /\ result[o] = "transport"
(* run_cached_native_sftp_route: a listing is repeated on a new connection.      *)
Repeats(o) == ~Changes(o) /\ pooled[o] /\ result[o] = "transport"

Store(o) ==
  /\ at[o] = "left"
  /\ CASE result[o] = "ok" -> Keeps(o) /\ UNCHANGED <<route, began>>
       [] Repeats(o) /\ result[o] # "ok" ->
            /\ conn' = [conn EXCEPT ![o] = NoConn]
            /\ Goto(o, "connect")
            /\ UNCHANGED <<pool, route, answer, began>>
       [] OTHER -> Failed(o, result[o], Changes(o)) /\ UNCHANGED pool
  /\ UNCHANGED <<asked, pooled, result, effects, token, stale, shut, made>>

(* run_sftp_profile_commands_with_progress, on one route and then on the other.   *)
(* A run that fails without having sent a command that changes files has        *)
(* changed none: UnstartedChangesNothing of SftpProgram.                       *)
ProgramFails(o) ==
  \E class \in {"transport", "final"}, started \in {FALSE} \cup ({Changes(o)} \ {FALSE}), n \in 0..1 :
    /\ n = 1 => started
    /\ effects' = [effects EXCEPT ![o] = @ + n]
    /\ LET c == IF token[o] THEN "cancelled" ELSE class
       IN IF Elsewhere(o, c, started) /\ route[o] < Len(Systems)
            THEN /\ route' = [route EXCEPT ![o] = @ + 1]
                 /\ UNCHANGED <<at, answer, conn, began>>
            ELSE /\ Answer(o, c)
                 /\ began' = [began EXCEPT ![o] = started]
                 /\ UNCHANGED route

ProgramDoes(o) ==
  /\ effects' = [effects EXCEPT ![o] = IF Changes(o) THEN @ + 1 ELSE 0]
  /\ Answer(o, IF token[o] THEN "cancelled" ELSE "ok")
  /\ UNCHANGED <<route, began>>

Program(o) ==
  /\ at[o] = "program"
  /\ ProgramFails(o) \/ ProgramDoes(o)
  /\ UNCHANGED <<asked, pooled, result, token, net>>

(* ensure_not_cancelled, wherever there is no action of its own for it.          *)
Sees(o) ==
  /\ at[o] \in {"take", "connect", "program"} /\ token[o]
  /\ Answer(o, "cancelled")
  /\ UNCHANGED <<asked, route, pooled, result, began, effects, token, net>>

-----------------------------------------------------------------------------
Cancel(o) ==
  /\ ~token[o] /\ at[o] \notin {"idle", "done"}
  /\ token' = [token EXCEPT ![o] = TRUE]
  /\ UNCHANGED <<asked, op, net>>

(* prune_native_sftp_pool: too old, or one too many.                           *)
Prune(r) ==
  /\ pool[r] # NoConn
  /\ pool' = [pool EXCEPT ![r] = NoConn]
  /\ UNCHANGED <<asked, op, token, stale, shut, made>>

Breaks(c) ==
  /\ c \notin stale
  /\ c \in {pool[r] : r \in Routes} \cup {conn[o] : o \in Ops}
  /\ stale' = stale \cup {c}
  /\ UNCHANGED <<asked, op, token, pool, shut, made>>

Moves(o) == Begin(o) \/ Take(o) \/ Start(o) \/ Leave(o) \/ Store(o) \/ Sees(o) \/ Woken(o)

Next ==
  \/ \E o \in Ops : Moves(o) \/ Connect(o) \/ Act(o) \/ Program(o) \/ Watch(o) \/ Cancel(o)
  \/ \E r \in Routes : Prune(r)
  \/ \E c \in ConnIds : Breaks(c)

(* Nothing is assumed of a server: neither that it answers, nor that it does not. *)
Fairness == \A o \in Ops : WF_vars(Moves(o)) /\ WF_vars(Watch(o))

Spec == Init /\ [][Next]_vars /\ Fairness

-----------------------------------------------------------------------------
TypeOK ==
  /\ at \in [Ops -> {"idle", "take", "connect", "ready", "acting", "acted", "left", "program",
                     "done"}]
  /\ route \in [Ops -> 1..2]
  /\ conn \in [Ops -> ConnIds \cup {NoConn}]
  /\ answer \in [Ops -> {"none", "ok", "transport", "final", "cancelled"}]
  /\ pool \in [Routes -> ConnIds \cup {NoConn}]
  /\ stale \cup shut \subseteq ConnIds

(* A change is made at most once, though there are four ways to make it: and one  *)
(* that is answered as done was made, one that is answered as failed was not,    *)
(* unless the answer says that it had begun.                                  *)
ChangesHappenOnce ==
  \A o \in Ops :
    Changes(o) =>
      /\ effects[o] <= 1
      /\ answer[o] = "ok" => effects[o] = 1
      /\ answer[o] \in {"transport", "final"} /\ ~began[o] => effects[o] = 0

(* A connection has one user, and one whose sockets were shut for a cancelled     *)
(* operation does not go back to the pool.                                    *)
PooledConnectionsAreFree ==
  \A r \in Routes :
    pool[r] # NoConn =>
      /\ pool[r] \notin shut
      /\ \A o \in Ops : conn[o] # pool[r]
      /\ \A s \in Routes \ {r} : pool[s] # pool[r]

(* A cancelled operation ends, though the server never answers.                   *)
Lingering == \E o \in Ops : token[o] /\ at[o] # "done"
CancelledOpsEnd == Lingering ~> ~ Lingering

=============================================================================
