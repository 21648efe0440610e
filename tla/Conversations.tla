---------------------------- MODULE Conversations ----------------------------
(* One AI conversation: its record and messages in the window (useAiMessages.  *)
(* ts, useWorkspaceSessions.ts) and its rows in the database (domain/storage/  *)
(* sqlite.rs).  Messages are stored one after the other, each with the record  *)
(* before and after it; saves of the record form a chain of their own, which   *)
(* renames, modes, summaries and generated titles join at any time.  Removing  *)
(* waits for both.  Every call of the database may fail, and the program may   *)
(* be closed and started again.  Other conversations are always in the list.   *)
EXTENDS Naturals, Sequences, SequencesExt

CONSTANTS Messages,      \* messages of the conversation
          Retention,     \* AI_CONVERSATION_RETENTION_LIMIT
          MaxVersion,    \* bound: versions of the record
          MaxQueued      \* bound: message writes that wait

VARIABLES listed,        \* the window lists the conversation
          draft,         \* draftWorkspaceSessionIds has it
          version,       \* the window's version of the record
          queue,         \* aiMessagePersistenceQueues
          saves,         \* pendingSessionSaves: the first is at the database
          row,           \* version in workspace_sessions; 0: no row
          messages,      \* ai_conversation_messages, in the order of their rowid
          removal,       \* step of deleteAiSession and removeWorkspaceSession
          gone,          \* the conversation was removed (history)
          failed         \* a call failed since the start (history)

vars == <<listed, draft, version, queue, saves, row, messages, removal, gone, failed>>

TypeOK ==
    /\ listed \in BOOLEAN /\ draft \in BOOLEAN
    /\ version \in 1 .. MaxVersion
    /\ queue \in Seq([id : Messages, step : {"ensure", "ensuring", "message", "touching"}])
    /\ saves \in Seq([version : 1 .. MaxVersion, by : {"ensure", "touch", "edit", "title"}])
    /\ row \in 0 .. MaxVersion
    /\ messages \in Seq(Messages) /\ Len(messages) <= Retention
    /\ removal \in {"no", "queue", "saves", "store"}
    /\ gone \in BOOLEAN /\ failed \in BOOLEAN

Init ==
    /\ listed = TRUE /\ draft = TRUE /\ version = 1
    /\ queue = <<>> /\ saves = <<>>
    /\ row = 0 /\ messages = <<>>
    /\ removal = "no" /\ gone = FALSE /\ failed = FALSE

(* saveWorkspaceSession does nothing for a conversation being removed.         *)
Blocked == removal \in {"saves", "store"} \/ gone

Chain(v, by) == IF Blocked THEN saves ELSE Append(saves, [version |-> v, by |-> by])

-----------------------------------------------------------------------------
(* appendAiMessageToActiveTerminal and updateAiMessage; a streaming message is *)
(* not stored yet.                                                             *)
QueueMessage(m) ==
    /\ listed /\ removal = "no" /\ ~ gone
    /\ Len(queue) < MaxQueued
    /\ queue' = Append(queue, [id |-> m, step |-> "ensure"])
    /\ UNCHANGED <<listed, draft, version, saves, row, messages, removal, gone, failed>>

Turns(step) == [queue EXCEPT ![1].step = step]

(* ensurePersistedWorkspaceSession: a draft is saved, a question may give the  *)
(* conversation its name.                                                      *)
Ensure(named) ==
    /\ queue # <<>> /\ queue[1].step = "ensure"
    /\ named => version < MaxVersion
    /\ listed' = TRUE
    /\ version' = IF named THEN version + 1 ELSE version
    /\ LET saved == draft \/ named
       IN /\ saves' = IF saved THEN Chain(version', "ensure") ELSE saves
          /\ queue' = Turns(IF saved THEN "ensuring" ELSE "message")
    /\ UNCHANGED <<draft, row, messages, removal, gone, failed>>

\* (a bug to try: a message stored again is a new row)
Replaces(stored, m) == Append(SelectSeq(stored, LAMBDA n : n # m), m)

(* The upsert keeps the rowid of a message that is stored again; the newest    *)
(* Retention messages stay.                                                    *)
Upsert(stored, m) == IF Contains(stored, m) THEN stored ELSE Append(stored, m)

\* (a bug to try: the rows that are too many stay)
KeepsAll(stored) == stored

Newest(stored) == IF Len(stored) > Retention THEN Tail(stored) ELSE stored

StoreMessage ==
    /\ queue # <<>> /\ queue[1].step = "message"
    /\ messages' = Newest(Upsert(messages, queue[1].id))
    /\ listed' = TRUE
    /\ saves' = Chain(version, "touch")
    /\ queue' = IF Blocked THEN Tail(queue) ELSE Turns("touching")
    /\ UNCHANGED <<draft, version, row, removal, gone, failed>>

FailMessage ==
    /\ queue # <<>> /\ queue[1].step = "message"
    /\ queue' = Tail(queue)
    /\ failed' = TRUE
    /\ UNCHANGED <<listed, draft, version, saves, row, messages, removal, gone>>

-----------------------------------------------------------------------------
\* (a bug to try: saves are sent at once)
AnyAtDatabase(pending) == DOMAIN pending
(* Which of the saves the database answers next: the chain sends one at a time.*)
AtDatabase(pending) == {i \in DOMAIN pending : i = 1}

Resumed(by, ok) ==
    CASE by = "ensure" -> IF ok THEN Turns("message") ELSE Tail(queue)
      [] by = "touch" -> Tail(queue)
      [] OTHER -> queue

SaveAnswered(i, ok) ==
    /\ i \in AtDatabase(saves)
    /\ row' = IF ok THEN saves[i].version ELSE row
    /\ failed' = (failed \/ ~ ok)
    /\ draft' = (draft /\ ~ (ok /\ saves[i].by \in {"ensure", "title"}))
    /\ queue' = Resumed(saves[i].by, ok)
    /\ saves' = RemoveAt(saves, i)
    /\ UNCHANGED <<listed, version, messages, removal, gone>>

(* renameWorkspaceSession, setWorkspaceSessionMode and the summary: a draft is *)
(* changed in the window only.                                                 *)
Edit ==
    /\ listed /\ version < MaxVersion
    /\ version' = version + 1
    /\ saves' = IF draft THEN saves ELSE Chain(version + 1, "edit")
    /\ UNCHANGED <<listed, draft, queue, row, messages, removal, gone, failed>>

(* updateWorkspaceSessionTitle saves a draft too; it follows an answer, so the *)
(* question is still on its way, or could not be stored.                       *)
Title ==
    /\ listed /\ version < MaxVersion
    /\ draft => queue # <<>> \/ failed
    /\ version' = version + 1
    /\ saves' = Chain(version + 1, "title")
    /\ draft' = (draft /\ ~ Blocked)
    /\ UNCHANGED <<listed, queue, row, messages, removal, gone, failed>>

-----------------------------------------------------------------------------
(* Removing: no message is queued from here on, those that are queued are      *)
(* stored first, then no save is made and those that were are waited for.      *)
StartRemoval ==
    /\ listed /\ removal = "no" /\ ~ gone
    /\ removal' = "queue"
    /\ UNCHANGED <<listed, draft, version, queue, saves, row, messages, gone, failed>>

MessagesStored == queue = <<>>

RemoveAfterMessages ==
    /\ removal = "queue" /\ MessagesStored
    /\ removal' = "saves"
    /\ UNCHANGED <<listed, draft, version, queue, saves, row, messages, gone, failed>>

\* (bugs to try: nobody waits for the saves; or for ones that nobody makes)
NobodyWaits == TRUE
WaitsForever == saves = <<>> /\ queue = <<>> /\ ~ draft

SavesAnswered == saves = <<>>

RemoveAfterSaves ==
    /\ removal = "saves" /\ SavesAnswered
    /\ IF draft
       THEN listed' = FALSE /\ draft' = FALSE /\ gone' = TRUE /\ removal' = "no"
       ELSE removal' = "store" /\ UNCHANGED <<listed, draft, gone>>
    /\ UNCHANGED <<version, queue, saves, row, messages, failed>>

(* delete_workspace_session: both tables in one transaction.                   *)
DeleteAnswered(ok) ==
    /\ removal = "store"
    /\ removal' = "no"
    /\ IF ok
       THEN /\ row' = 0 /\ messages' = <<>>
            /\ listed' = FALSE /\ gone' = TRUE /\ UNCHANGED failed
       ELSE failed' = TRUE /\ UNCHANGED <<row, messages, listed, gone>>
    /\ UNCHANGED <<draft, version, queue, saves>>

(* After a restart a conversation without a message is not listed.             *)
Restart ==
    /\ listed' = (row # 0 /\ messages # <<>>)
    /\ version' = IF row = 0 THEN version ELSE row
    /\ draft' = FALSE
    /\ queue' = <<>> /\ saves' = <<>> /\ removal' = "no" /\ failed' = FALSE
    /\ UNCHANGED <<row, messages, gone>>

Answers == \/ \E ok \in BOOLEAN : \/ \E i \in 1 .. Len(saves) : SaveAnswered(i, ok)
                                  \/ DeleteAnswered(ok)
           \/ StoreMessage \/ FailMessage

Continues == \E named \in BOOLEAN : Ensure(named)

Removes == RemoveAfterMessages \/ RemoveAfterSaves

Next == \/ \E m \in Messages : QueueMessage(m)
        \/ Answers \/ Continues \/ Removes
        \/ Edit \/ Title \/ StartRemoval \/ Restart

Fairness == WF_vars(Answers) /\ WF_vars(Continues) /\ WF_vars(Removes)

Spec == Init /\ [][Next]_vars /\ Fairness

-----------------------------------------------------------------------------
(* A removed conversation does not come back: once it was taken off the list   *)
(* neither its record nor a message of it is in the database, whichever saves  *)
(* were under way, and none is written later (deletingSessionIds,              *)
(* removedSessionIds, blockedSessionIds and the awaits of deleteAiSession).    *)
GoneStaysGone == gone => row = 0 /\ messages = <<>> /\ ~ listed

(* When nothing is under way and no call failed the database has the version   *)
(* the window shows: saves that overlap do not overwrite a later one (the      *)
(* chain of pendingSessionSaves).                                              *)
LastVersionIsStored ==
    listed /\ ~ draft /\ ~ failed /\ removal = "no" /\ queue = <<>> /\ saves = <<>> =>
        row = version

(* Messages keep the order in which they were first stored, when an answer is  *)
(* stored again as well (the comment of list_ai_conversation_messages).        *)
OrderIsKept ==
    \A i, j \in DOMAIN messages : i < j =>
       ~ \E k, l \in DOMAIN messages' : k < l /\ messages'[k] = messages[j]
                                              /\ messages'[l] = messages[i]

(* Removing ends: it neither waits for a message that cannot be stored nor for *)
(* a save that nobody makes.                                                   *)
RemovalEnds == (removal # "no") ~> (removal = "no")
=============================================================================
