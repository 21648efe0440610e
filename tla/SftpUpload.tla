------------------------------ MODULE SftpUpload ------------------------------
(***************************************************************************)
(* A folder goes over SFTP: sftp_upload.rs scans it, makes the directories,     *)
(* opens more connections and lets a worker on each take one file after         *)
(* another; sftp.rs fetches one file after another, and copies each in pieces.   *)
(*                                                                         *)
(* A file is a number, its size a number of pieces.  A folder to be sent may     *)
(* hold a link: to another folder, or to one the link is in.                    *)
(***************************************************************************)
EXTENDS Integers, Sequences, SequencesExt, FiniteSetsExt

CONSTANTS
  Sizes,      \* the sizes of the files, a sequence
  MaxWorkers, \* MAX_UPLOAD_WORKERS
  MinFiles,   \* PARALLEL_UPLOAD_MIN_FILES
  Capacity    \* of the channel between the workers and the caller

Files == 1..Len(Sizes)
Workers == 1..MaxWorkers
None == 0

(* The folder: its own files but the last, which is in a folder of it with the    *)
(* link.                                                                     *)
Root == "root"
Sub == "sub"
Held(n) == IF n = Sub THEN {Len(Sizes)} ELSE Files \ {Len(Sizes)}

VARIABLES
  way,       \* a folder goes "up" or "down", or "one up" or "one down", a file
  link,      \* where the link leads: "root", "elsewhere" or "nowhere"
  main,      \* where the caller is
  stack,     \* folders the scan is in
  folders,   \* plan.directories
  files,     \* plan.files
  made,      \* a ghost: the directories there are on the other side
  crew,      \* how many connections there are
  worker,    \* where each worker is
  file,      \* the file it is at
  next,      \* the next file to be taken, an index
  wrote,     \* a ghost: pieces of each file on the other side; -1 if there is none
  closed,    \* a ghost: files that were closed
  users,     \* a ghost: how often each file was opened
  stop,      \* the token of the workers
  token,     \* the token of the task
  error,     \* what a worker failed of
  channel,   \* events on their way
  counts,    \* pieces each worker has told of
  mine,      \* pieces each worker has sent
  failure,   \* the failure that is kept
  shown,     \* the highest percentage that was shown
  answer     \* "none", "ok", "failed" or "cancelled"

plan == <<way, link, stack, folders, files>>
crewVars == <<crew, worker, file, next, mine, error>>
other == <<made, wrote, closed, users>>
told == <<channel, counts, failure, shown>>
vars == <<plan, main, crewVars, other, stop, token, told, answer>>

(* try_native_upload_path and try_native_download_path                           *)
FolderStarts ==
  /\ way \in {"up", "down"}
  /\ link \in {"root", "elsewhere", "nowhere"}
  /\ main = "scan" /\ files = <<>>

(* A file is copied by who was asked, on the one connection.                     *)
UpStarts == way = "one up" /\ main = "crew" /\ files = <<1>> /\ link = "nowhere"
DownStarts == way = "one down" /\ main = "crew" /\ files = <<1>> /\ link = "nowhere"

Init ==
  /\ FolderStarts \/ UpStarts \/ DownStarts
  /\ stack = <<>> /\ folders = <<>>
  /\ made = {} /\ crew = 1 /\ next = 1
  /\ worker = [w \in Workers |-> "none"]
  /\ file = [w \in Workers |-> None]
  /\ wrote = [f \in Files |-> -1] /\ closed = {} /\ users = [f \in Files |-> 0]
  /\ stop = FALSE /\ token = FALSE
  /\ error = [w \in Workers |-> "none"]
  /\ channel = <<>>
  /\ counts = [w \in Workers |-> 0] /\ mine = [w \in Workers |-> 0]
  /\ failure = "none" /\ shown = 0 /\ answer = "none"

-----------------------------------------------------------------------------
Answer(a) ==
  /\ main' = "done"
  /\ answer' = IF token THEN "cancelled" ELSE a

Sum(f) == MapThenSumSet(LAMBDA x : f[x], DOMAIN f)
Total == Sum([i \in DOMAIN files |-> Sizes[files[i]]])
Least(a, b) == IF a < b THEN a ELSE b

\* (a bug to try: the last piece is taken for the end)
AsItIs(pieces) == IF Total = 0 THEN 0 ELSE (pieces * 100) \div Total
(* emit_native_transfer_progress: only the end may be shown as 100 %.           *)
Percent(pieces) == IF Total = 0 THEN 0 ELSE Least((pieces * 100) \div Total, 99)

Show(percent) == shown' = IF percent > shown THEN percent ELSE shown

-----------------------------------------------------------------------------
(* UploadPlan::scan                                                          *)

(* remote_transfer_size follows no links.                                     *)
Follows == way = "up" /\ link # "nowhere"

In(s, n) == \E i \in DOMAIN s : s[i] = n

(* A folder is entered: its files join the plan.                               *)
Enter(n) ==
  /\ stack' = Append(stack, n)
  /\ folders' = Append(folders, n)
  /\ files' = files \o SetToSeq(IF n = "elsewhere" THEN {} ELSE Held(n))

Scan ==
  /\ main = "scan"
  /\ IF token THEN Answer("failed") /\ UNCHANGED plan
     ELSE
     \/ /\ folders = <<>> /\ Enter(Root) /\ UNCHANGED <<way, link, main, answer>>
     \/ /\ folders = <<Root>> /\ Enter(Sub) /\ UNCHANGED <<way, link, main, answer>>
     \/ /\ Len(folders) = 2 /\ In(stack, Sub) /\ Follows
        /\ IF In(stack, link) THEN Answer("failed") /\ UNCHANGED plan
           ELSE Enter(link) /\ UNCHANGED <<way, link, main, answer>>
     \/ /\ Len(folders) > 1 /\ stack # <<>>
        /\ ~(Len(folders) = 2 /\ In(stack, Sub) /\ Follows)
        /\ stack' = Front(stack)
        /\ UNCHANGED <<way, link, main, folders, files, answer>>
     \/ /\ Len(folders) > 1 /\ stack = <<>>
        /\ main' = "folders"
        /\ UNCHANGED <<plan, answer>>
     \/ Answer("failed") /\ UNCHANGED plan
  /\ UNCHANGED <<crewVars, other, stop, token, told>>

(* native_ensure_dir: a folder that is there already will do.                    *)
Ensure(folder) == made' = made \cup {folder}

(* One folder after another, before what is in them.                            *)
MakeFolder ==
  /\ main = "folders"
  /\ IF token THEN Answer("failed") /\ UNCHANGED made
     ELSE \/ /\ made # ToSet(folders)
             /\ \E i \in DOMAIN folders : /\ folders[i] \notin made
                                          /\ \A j \in 1..(i - 1) : folders[j] \in made
                                          /\ Ensure(folders[i])
             /\ UNCHANGED <<main, answer>>
          \/ Answer("failed") /\ UNCHANGED made
          \/ /\ made = ToSet(folders)
             /\ main' = "crew"
             /\ UNCHANGED <<made, answer>>
  /\ UNCHANGED <<plan, crewVars, wrote, closed, users, stop, token, told>>

(* As many connections as are of use; a server that refuses one is done with      *)
(* those there are, unless it shows another host key.  A folder is fetched over   *)
(* one.                                                                      *)
Desired == IF way = "up" /\ Len(files) >= MinFiles THEN MaxWorkers ELSE 1

Connect ==
  /\ main = "crew"
  /\ IF token THEN Answer("failed") /\ UNCHANGED <<crew, worker>>
     ELSE \/ /\ crew < Desired
             /\ crew' = crew + 1
             /\ UNCHANGED <<main, answer, worker>>
          \/ crew < Desired /\ Answer("failed") /\ UNCHANGED <<crew, worker>>
          \/ /\ main' = "run"
             /\ worker' = [w \in Workers |-> IF w <= crew THEN "take" ELSE "none"]
             /\ UNCHANGED <<crew, answer>>
  /\ UNCHANGED <<plan, file, next, mine, error, other, stop, token, told>>

-----------------------------------------------------------------------------
(* A worker.  What it fetches it fetches under the task's own token.             *)

Go(w, place) == worker' = [worker EXCEPT ![w] = place]
Stopped == IF way = "up" THEN stop ELSE token

Fails(w, e) ==
  /\ Go(w, "failing")
  /\ error' = [error EXCEPT ![w] = e]

Take(w) ==
  /\ worker[w] = "take"
  /\ IF Stopped THEN Fails(w, "stopped") /\ UNCHANGED <<file, next>>
     ELSE IF next > Len(files) THEN
       Go(w, "gone") /\ next' = next + 1 /\ UNCHANGED <<file, error>>
     ELSE /\ file' = [file EXCEPT ![w] = files[next]]
          /\ next' = next + 1
          /\ Go(w, "open")
          /\ UNCHANGED error
  /\ UNCHANGED <<plan, main, crew, mine, other, stop, token, told, answer>>

(* It is made empty, whatever it was.                                         *)
Open(w) ==
  /\ worker[w] = "open"
  /\ \/ /\ Stopped /\ Fails(w, "stopped") /\ UNCHANGED <<wrote, users>>
     \/ /\ Fails(w, IF Stopped THEN "stopped" ELSE "failed") /\ UNCHANGED <<wrote, users>>
     \/ /\ ~Stopped
        /\ wrote' = [wrote EXCEPT ![file[w]] = 0]
        /\ users' = [users EXCEPT ![file[w]] = @ + 1]
        /\ Go(w, "copy")
        /\ UNCHANGED error
  /\ UNCHANGED <<plan, main, crew, file, next, mine, made, closed, stop, token, told, answer>>

(* copy_with_native_progress: a piece, with its event; and the close.            *)
Copy(w) ==
  /\ worker[w] = "copy"
  /\ LET f == file[w]
     IN IF Stopped THEN Fails(w, "stopped") /\ UNCHANGED <<wrote, mine, closed>>
        ELSE \/ /\ Fails(w, "failed") /\ UNCHANGED <<wrote, mine, closed>>
             \/ /\ wrote[f] < Sizes[f]
                /\ wrote' = [wrote EXCEPT ![f] = @ + 1]
                /\ mine' = [mine EXCEPT ![w] = @ + 1]
                /\ Go(w, "tell")
                /\ UNCHANGED <<error, closed>>
             \/ /\ wrote[f] = Sizes[f]
                /\ closed' = closed \cup {f}
                /\ Go(w, "tell of the end")
                /\ UNCHANGED <<error, wrote, mine>>
  /\ UNCHANGED <<plan, main, crew, file, next, made, users, stop, token, told, answer>>

(* The channel holds only so many events; a fetch shows its own.                *)
Tell(w) ==
  /\ worker[w] \in {"tell", "tell of the end"}
  /\ IF way = "up"
       THEN /\ Len(channel) < Capacity
            /\ channel' = Append(channel, [worker |-> w, pieces |-> mine[w], failure |-> "none"])
            /\ UNCHANGED <<counts, shown>>
       ELSE /\ Show(Percent(mine[w]))
            /\ counts' = [counts EXCEPT ![w] = mine[w]]
            /\ UNCHANGED channel
  /\ Go(w, IF worker[w] = "tell" THEN "copy" ELSE "take")
  /\ UNCHANGED <<plan, main, crew, file, next, mine, error, other, stop, token, failure, answer>>

\* (a bug to try: each failure is sent, those of peers that were stopped too)
SendsAll == TRUE
(* stop.swap: only who stops the others says why.                              *)
IsFirst == ~stop

Fail(w) ==
  /\ worker[w] = "failing"
  /\ stop' = TRUE
  /\ Go(w, IF IsFirst /\ way = "up" THEN "send failure" ELSE "gone")
  /\ UNCHANGED <<plan, main, crew, file, next, mine, error, other, token, told, answer>>

SendFailure(w) ==
  /\ worker[w] = "send failure" /\ Len(channel) < Capacity
  /\ channel' = Append(channel, [worker |-> w, pieces |-> 0, failure |-> error[w]])
  /\ Go(w, "gone")
  /\ UNCHANGED <<plan, main, crew, file, next, mine, error, other, stop, token, counts, failure,
                 shown, answer>>

-----------------------------------------------------------------------------
(* The caller: it reads events until no worker can send another.                *)

Gone == \A w \in Workers : worker[w] \in {"none", "gone"}

Notice ==
  /\ main = "run" /\ token /\ ~stop /\ way = "up"
  /\ stop' = TRUE
  /\ UNCHANGED <<plan, main, crewVars, other, token, told, answer>>

\* (a bug to try: after a failure nobody reads the rest)
ListensUntilFailure == failure = "none"
Listens == TRUE

Receive ==
  /\ main = "run" /\ channel # <<>> /\ Listens
  /\ channel' = Tail(channel)
  /\ LET e == Head(channel)
     IN IF e.failure # "none"
          THEN /\ failure' = e.failure
               /\ UNCHANGED <<counts, shown>>
          ELSE LET c == [counts EXCEPT ![e.worker] = e.pieces]
               IN /\ counts' = c
                  /\ IF failure = "none" /\ ~stop THEN Show(Percent(Sum(c))) ELSE UNCHANGED shown
                  /\ UNCHANGED failure
  /\ UNCHANGED <<plan, main, crewVars, other, stop, token, answer>>

(* The channel is disconnected, and the threads are joined.                     *)
AllGone == channel = <<>> /\ Gone

Finish ==
  /\ main = "run" /\ AllGone
  /\ LET f == IF way = "up" THEN failure
              ELSE IF \E w \in Workers : error[w] # "none" THEN "failed" ELSE "none"
     IN /\ Answer(IF f = "none" THEN "ok" ELSE "failed")
        /\ IF f = "none" /\ ~token THEN Show(100) ELSE UNCHANGED shown
  /\ UNCHANGED <<plan, crewVars, other, stop, token, channel, counts, failure>>

Cancel ==
  /\ ~token /\ main # "done"
  /\ token' = TRUE
  /\ UNCHANGED <<plan, main, crewVars, other, stop, told, answer>>

Work(w) == Take(w) \/ Open(w) \/ Copy(w) \/ Tell(w) \/ Fail(w) \/ SendFailure(w)
Caller == Scan \/ MakeFolder \/ Connect \/ Notice \/ Receive \/ Finish

Next == Caller \/ Cancel \/ \E w \in Workers : Work(w)

(* Calls to the server end: NativeTransferTimeout gives each a time.             *)
Fairness == WF_vars(Caller) /\ \A w \in Workers : WF_vars(Work(w))

Spec == Init /\ [][Next]_vars /\ Fairness

-----------------------------------------------------------------------------
TypeOK ==
  /\ main \in {"scan", "folders", "crew", "run", "done"}
  /\ ToSet(folders) \subseteq {Root, Sub, "elsewhere"} /\ ToSet(files) \subseteq Files
  /\ worker \in [Workers -> {"none", "take", "open", "copy", "tell", "tell of the end", "failing",
                             "send failure", "gone"}]
  /\ wrote \in [Files -> -1..2] /\ closed \subseteq Files
  /\ failure \in {"none", "failed", "stopped"} /\ shown \in 0..100
  /\ answer \in {"none", "ok", "failed", "cancelled"}

Whole(f) == f \in closed /\ wrote[f] = Sizes[f] /\ users[f] = 1

(* What is shown as complete is there: each file once, all of it and closed, and   *)
(* nobody works at it any more.  So it is with what is answered.                *)
CompleteIsWhole ==
  shown = 100 \/ answer = "ok" =>
    /\ \A f \in ToSet(files) : Whole(f)
    /\ way \in {"up", "down"} => ToSet(files) = Files
    /\ \A w \in Workers : worker[w] \in {"none", "gone"}
    /\ made = ToSet(folders)

(* A failure is told as what it was, not as what it did to the others; and the     *)
(* answer says that the task was cancelled only if it was.                      *)
FirstFailureIsTold ==
  /\ failure # "stopped"
  /\ answer = "cancelled" => token

(* Once there is an answer nothing more is written.                              *)
AnsweredWritesNothing == main = "done" => UNCHANGED other

(* The transfer ends, whatever fails, and however many events are on their way.    *)
TransferEnds == <>(main = "done")

=============================================================================
