----------------------------- MODULE TransfersMC ------------------------------
(* One run of the sftp program, one folder on its way over SFTP and one AI     *)
(* conversation on its way to the database, for TLC: a behaviour is one of one *)
(* of these parts, and the variables of the others keep their first values.    *)
EXTENDS Integers, Sequences

CONSTANTS MaxWorkers, MinFiles, Capacity,              \* SftpUpload
          Messages, Retention, MaxVersion, MaxQueued   \* Conversations

VARIABLES
  part,  \* the part this behaviour is of
  commands, saved, at, sent, window, late, early, expired, token, answer, began, alive, phase,
  seen, typed, results,
  way, link, main, stack, folders, files, made, crew, worker, file, next, wrote, closed, users,
  stop, folderToken, error, channel, counts, mine, failure, shown, folderAnswer,
  listed, draft, version, queue, saves, row, messages, removal, gone, failed

(* Three files, the second one empty and the third in a folder of its own.     *)
FileSizes == <<1, 0, 1>>

Program       == INSTANCE SftpProgram WITH shown <- seen
Folder        == INSTANCE SftpUpload
                   WITH Sizes <- FileSizes, token <- folderToken, answer <- folderAnswer
Conversation  == INSTANCE Conversations

program      == <<commands, saved, at, sent, window, late, early, expired, token, answer, began,
                  alive, phase, seen, typed, results>>
folder       == <<way, link, main, stack, folders, files, made, crew, worker, file, next, wrote,
                  closed, users, stop, folderToken, error, channel, counts, mine, failure, shown,
                  folderAnswer>>
conversation == <<listed, draft, version, queue, saves, row, messages, removal, gone, failed>>
vars         == <<part, program, folder, conversation>>

ASSUME Bounds == /\ MaxWorkers \in Nat \ {0} /\ Capacity \in Nat \ {0} /\ MinFiles \in Nat
                 /\ Retention \in Nat \ {0} /\ MaxVersion \in Nat \ {0}

Init ==
  /\ part \in {"program", "folder", "conversation"}
  /\ Program!Init /\ Folder!Init /\ Conversation!Init
  /\ part # "program" => commands = Program!Probe /\ saved = 0
  /\ part # "folder" => Folder!UpStarts

Next ==
  \/ part = "program" /\ Program!Next /\ UNCHANGED <<part, folder, conversation>>
  \/ part = "folder" /\ Folder!Next /\ UNCHANGED <<part, program, conversation>>
  \/ part = "conversation" /\ Conversation!Next /\ UNCHANGED <<part, program, folder>>

(* The fairness of each part, in the behaviours that are of it.                *)
Fairness ==
  /\ WF_program(part = "program" /\ Program!Loop)
  /\ WF_program(part = "program" /\ Program!Unblocked)
  /\ WF_program(part = "program" /\ Program!Kill)
  /\ WF_program(part = "program" /\ Program!Expire)
  /\ WF_folder(part = "folder" /\ Folder!Caller)
  /\ \A w \in Folder!Workers : WF_folder(part = "folder" /\ Folder!Work(w))
  /\ WF_conversation(part = "conversation" /\ Conversation!Answers)
  /\ WF_conversation(part = "conversation" /\ Conversation!Continues)
  /\ WF_conversation(part = "conversation" /\ Conversation!Removes)

Spec == Init /\ [][Next]_vars /\ Fairness

-----------------------------------------------------------------------------
(* The types of all parts.                                                     *)
TypesOK == Program!TypeOK /\ Folder!TypeOK /\ Conversation!TypeOK

(* What the sftp program is said to have done is what it did: a run that fails *)
(* without saying that it had begun has changed no file, and commands typed at *)
(* prompts are executed in their order, none after one that failed.            *)
ProgramRunsAreTrue == Program!UnstartedChangesNothing /\ Program!PromptedGoesInOrder

(* A transfer that is shown or answered as complete has left every file whole, *)
(* once, and nobody at work; one that failed says of what it failed first; and *)
(* nothing is written once there is an answer.                                 *)
CompleteIsWhole ==
  [][/\ (Folder!CompleteIsWhole /\ Folder!FirstFailureIsTold)'
     /\ Folder!AnsweredWritesNothing]_vars

(* A removed conversation does not come back, whichever saves were under way,  *)
(* saves that overlap leave the version that the window shows, and messages    *)
(* keep the order in which they came.                                          *)
ConversationsAreKept ==
  [][/\ (Conversation!GoneStaysGone /\ Conversation!LastVersionIsStored)'
     /\ Conversation!OrderIsKept]_vars

(* A run of the program, a transfer and a removal end, though the program may  *)
(* neither read nor exit, a worker may fail with events on their way and calls *)
(* of the database may fail.                                                   *)
UnderWay ==
  \/ part = "program" /\ at # "done"
  \/ part = "folder" /\ main # "done"
  \/ removal # "no"
WorkEnds == UnderWay ~> ~ UnderWay
=============================================================================
