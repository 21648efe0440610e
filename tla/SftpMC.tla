-------------------------------- MODULE SftpMC --------------------------------
(* SFTP commands under their task ids, the window's queue of transfers, and    *)
(* the operations over pooled connections, for TLC: a behaviour is one of one  *)
(* of these parts, and the variables of the others keep their first values.    *)
EXTENDS Integers, FiniteSets, Sequences

CONSTANTS Ids, NoId, Calls, MarkLimit, Budget,         \* SftpTask
          Jobs, JobMarks, Servers, Panes, MaxRunning,  \* TransferQueue
          Hosts, Names, Ops, MaxConns                  \* SftpEngine

VARIABLES
  part,  \* the part this behaviour is of
  active, marks, token, pc, name, idle, left, taken, worker, answer, told, early,
  jobActive, jobMarks, jobToken, key, status, stage, listener, net, work, reply,
  asked, at, route, conn, pooled, result, opAnswer, began, effects, opToken, pool, stale,
  shut, made

(* A server of one's own, reached directly or through a gateway, and a bastion *)
(* on which the window has found itself at another host.                       *)
Profile(role, mode) ==
  [role |-> role, mode |-> mode, jump |-> "Direct",
   target |-> [host |-> "a", account |-> <<"u">>, port |-> "own port", secret |-> "a"],
   gateway |-> [host |-> "b", account |-> <<"u">>, port |-> "own port", secret |-> "b"]]
Here  == [host |-> "", account |-> <<>>]
There == [host |-> "b", account |-> <<"v">>]
OpsAsked == {<<Profile("Server", "Terminal"), Here>>, <<Profile("Server", "SftpGateway"), Here>>,
             <<Profile("Bastion", "Auto"), There>>}

Task   == INSTANCE SftpTask
Queue  == INSTANCE TransferQueue
            WITH Ids <- Jobs, Calls <- Jobs, NoId <- 0, MarkLimit <- JobMarks,
                 Terminals <- Panes, active <- jobActive, marks <- jobMarks, token <- jobToken
Engine == INSTANCE SftpEngine
            WITH Asked <- OpsAsked, answer <- opAnswer, token <- opToken

task   == <<active, marks, token, pc, name, idle, left, taken, worker, answer, told, early>>
queue  == <<jobActive, jobMarks, jobToken, key, status, stage, listener, net, work, reply>>
engine == <<asked, at, route, conn, pooled, result, opAnswer, began, effects, opToken, pool,
            stale, shut, made>>
vars   == <<part, task, queue, engine>>

ASSUME Bounds == /\ MarkLimit \in Nat \ {0} /\ NoId \notin Ids /\ Budget \in Nat \ {0}
                 /\ IsFiniteSet(Jobs) /\ Jobs = 1 .. Cardinality(Jobs)
                 /\ JobMarks \in Nat /\ Cardinality(Jobs) <= JobMarks
                 /\ Servers \cap Panes = {} /\ MaxRunning \in Nat \ {0} /\ MaxConns \in Nat

Init ==
  /\ part \in {"task", "queue", "engine"}
  /\ Task!Init /\ Queue!Init /\ Engine!Init
  /\ part # "engine" => asked = CHOOSE a \in OpsAsked : TRUE

Next ==
  \/ part = "task" /\ Task!Next /\ UNCHANGED <<part, queue, engine>>
  \/ part = "queue" /\ Queue!Next /\ UNCHANGED <<part, task, engine>>
  \/ part = "engine" /\ Engine!Next /\ UNCHANGED <<part, task, queue>>

(* The fairness of each part, in the behaviours that are of it.                *)
Fairness ==
  /\ \A c \in Calls : /\ WF_task(part = "task" /\ Task!ProfileStop(c))
                      /\ WF_task(part = "task" /\ Task!CallStop(c))
                      /\ WF_task(part = "task" /\ Task!GraceEnd(c))
                      /\ WF_task(part = "task" /\ Task!StopChat(c))
  /\ \A j \in Jobs : WF_queue(part = "queue" /\ Queue!TimesOut(j))
  /\ \A o \in Ops : /\ WF_engine(part = "engine" /\ Engine!Moves(o))
                    /\ WF_engine(part = "engine" /\ Engine!Watch(o))

Spec == Init /\ [][Next]_vars /\ Fairness

-----------------------------------------------------------------------------
(* The types of all parts.                                                     *)
TypesOK == Task!TypeOK /\ Queue!TypeOK /\ Engine!TypeOK

(* What has ended leaves nothing behind: the registry has the calls that are   *)
(* in progress and no other, a worker nobody waits for was told to stop, and a *)
(* transfer leaves neither a listener nor a command; one that waits in the     *)
(* queue waits for a transfer that runs.                                       *)
NothingIsLeft ==
  /\ Task!RegistryIsExact /\ Task!OrphansAreTold
  /\ Queue!EndedLeavesNothing /\ Queue!WaitsForARunningJob

(* No call that was cancelled begins its work, or publishes what came of it.   *)
CancelledIsFinal == [][Task!CancelledNeverStarts /\ Task!StaleNeverPublished]_vars

(* A change is made once at most, is answered as what it was, and the          *)
(* connection it was made on has one user.                                     *)
ChangesHappenOnce == Engine!ChangesHappenOnce /\ Engine!PooledConnectionsAreFree

(* Nothing waits for ever: neither a call that was cancelled or is out of time *)
(* nor a transfer in the queue nor a cancelled operation, though neither the   *)
(* backend nor the server may ever answer.                                     *)
Waiting == Task!Overdue \/ Queue!Busy \/ Engine!Lingering
OperationsEnd == Waiting ~> ~ Waiting
=============================================================================
