------------------------ MODULE ConnectionsMCProofs -------------------------
(***************************************************************************)
(* Terminal sessions, attempts to connect and runs of a task, for any number *)
(* of attempts, any kinds of session, any key files and any exit codes:      *)
(* ConnectionsInvariant is inductive, and what the run checks follows.       *)
(***************************************************************************)
EXTENDS ConnectionsMC, SequenceTheorems, TLAPS

USE Bounds

-----------------------------------------------------------------------------
(* A run of a task: what has happened at the host when the executor is at a    *)
(* given point, and what the wrapper's records stand for, on their way or read. *)
RunFollowsPlan ==
  /\ pc \in {"exec", "eof", "read", "close", "closed"} => attempted
  /\ ~attempted => remote = "idle"
  /\ pc \in {"begin", "connect", "open", "ready", "exec"} => remote = "idle"
  /\ remote \in {"idle", "asked"} => truth.command = "never"
  /\ remote = "running" => truth.command = "running"

ExitTold(c)  == truth.command = "ended" /\ truth.code = c
SetupTold == truth.command = "never" /\ remote \in {"ended", "closed"}

RecordsAreTrue ==
  /\ \A i \in 1..Len(taskRecords) :
       /\ taskRecords[i].kind = "EXIT" => ExitTold(taskRecords[i].code)
       /\ taskRecords[i].kind = "SETUP" => SetupTold
  /\ protocol.exit # Run!NoCode => ExitTold(protocol.exit)
  /\ protocol.setup # Run!NoCode => SetupTold
  /\ channel.signal => truth.killed

RunInvariant ==
  /\ Run!TypeOK /\ RunFollowsPlan /\ RecordsAreTrue
  /\ Run!CompletedIsTrue /\ Run!NotStartedIsTrue

(* An attempt to connect: only a task is cancelled; a password that was offered *)
(* and refused is in the error of the attempt that may fall back, and what is   *)
(* still to be tried keeps to the mode of the connection.                       *)
OnlyTasksAreCancelled == token => conn.owner = "task"

Plain(w) == w.how \in {"agent", "key"}

RefusalsAreTold ==
  ~conn.proxied /\ (\E w \in offered : w.how \in {"password", "prompt"}) =>
    at \in {"authenticated", "session", "failed"} \/ (at = "auth" /\ "authentication" \in error)

WaysKeepToMode ==
  conn.mode = "Key" => /\ \A i \in 1..Len(tries) : Plain(tries[i])
                       /\ \A w \in offered : Plain(w)
                       /\ typed = 0

ConnectInvariant ==
  /\ Connect!TypeOK /\ conn \in Connect!Starts 
  /\ (at = "system" => ~conn.proxied) /\ (leg = "gateway" => conn.proxied)
  /\ OnlyTasksAreCancelled /\ RefusalsAreTold /\ WaysKeepToMode
  /\ Connect!CancelledIsCancelled /\ Connect!SecretsAreOfferedOnce

ConnectionsInvariant == Terminals!TypeOK /\ ConnectInvariant /\ RunInvariant

-----------------------------------------------------------------------------
(* Terminal sessions keep their types.                                        *)
LEMMA TerminalsStep ==
  ASSUME Terminals!TypeOK, Terminals!Next
  PROVE  Terminals!TypeOK'
<1> USE DEF Terminals!TypeOK, Terminals!Kinds, Terminals!Pty, Terminals!Native,
            Terminals!Nobody, Terminals!Ids, Terminals!window, Terminals!threads
<1>1. ASSUME NEW k \in Opened, Terminals!Open(k)
      PROVE  Terminals!TypeOK'
  <2>1. PICK a \in Terminals!Ids : Terminals!Open(k)!(a)
    BY <1>1 DEF Terminals!Open
  <2>2. CASE k = "local"
    BY <2>1, <2>2
  <2>3. CASE k # "local"
    BY <2>1, <2>3
  <2> QED BY <2>2, <2>3
<1>2. CASE Terminals!Disconnect
  BY <1>2 DEF Terminals!Disconnect
<1>3. ASSUME NEW a \in Terminals!Ids,
             Terminals!Spawn(a) \/ Terminals!SpawnFails(a) \/ Terminals!Exit(a)
      PROVE  Terminals!TypeOK'
  BY <1>3 DEF Terminals!Spawn, Terminals!SpawnFails, Terminals!Exit
<1>4. ASSUME NEW a \in Terminals!Ids, Terminals!Backend(a)
      PROVE  Terminals!TypeOK'
  <2>1. CASE Terminals!Register(a)
    BY <2>1 DEF Terminals!Register
  <2>2. CASE Terminals!RemoveAfterExit(a)
    BY <2>2 DEF Terminals!RemoveAfterExit, Terminals!Remove
  <2>3. CASE Terminals!DisconnectTerminal(a)
    BY <2>3 DEF Terminals!DisconnectTerminal, Terminals!Remove
  <2> QED BY <1>4, <2>1, <2>2, <2>3 DEF Terminals!Backend
<1>5. ASSUME NEW a \in Terminals!Ids, Terminals!Window(a)
      PROVE  Terminals!TypeOK'
  <2>1. CASE Terminals!ListenLocal(a)
    <3>1. CASE Terminals!Attached(a)
      BY <2>1, <3>1 DEF Terminals!ListenLocal, Terminals!Attached
    <3>2. CASE ~Terminals!Attached(a)
      BY <2>1, <3>2 DEF Terminals!ListenLocal, Terminals!Attached
    <3> QED BY <3>1, <3>2
  <2>2. CASE Terminals!Answered(a)
    BY <2>2 DEF Terminals!Answered, Terminals!GiveUp
  <2>3. CASE Terminals!Failed(a)
    BY <2>3 DEF Terminals!Failed
  <2>4. CASE Terminals!ListenRemote(a)
    BY <2>4 DEF Terminals!ListenRemote, Terminals!GiveUp
  <2>5. CASE Terminals!Verify(a)
    BY <2>5 DEF Terminals!Verify
  <2>6. CASE Terminals!Verified(a)
    BY <2>6 DEF Terminals!Verified
  <2>7. CASE Terminals!CloseEvent(a)
    BY <2>7 DEF Terminals!CloseEvent
  <2> QED BY <1>5, <2>1, <2>2, <2>3, <2>4, <2>5, <2>6, <2>7 DEF Terminals!Window
<1> QED BY <1>1, <1>2, <1>3, <1>4, <1>5 DEF Terminals!Next

-----------------------------------------------------------------------------
(* What a run hears at the host.                                              *)

(* A wrapper's step adds at most the record of what it did.                    *)
LEMMA Printing ==
  ASSUME NEW what \in {"START", "EXIT", "SETUP"}, NEW code \in Codes,
         Run!TypeOK, Run!Printed(what, code)
  PROVE  /\ taskRecords' \in Seq([kind : {"START", "EXIT", "SETUP"}, code : Codes])
         /\ \A i \in 1..Len(taskRecords') :
              \/ i \in 1..Len(taskRecords) /\ taskRecords'[i] = taskRecords[i]
              \/ taskRecords'[i] = [kind |-> what, code |-> code]
<1>1. ASSUME NEW R, NEW x \in R, NEW t \in Seq(R), NEW u, u = t \/ u = Append(t, x)
      PROVE  u \in Seq(R) /\ \A i \in 1..Len(u) : (i \in 1..Len(t) /\ u[i] = t[i]) \/ u[i] = x
  <2>1. CASE u = t
    BY <1>1, <2>1
  <2>2. CASE u = Append(t, x)
    BY <1>1, <2>2, AppendProperties
  <2> QED BY <1>1, <2>1, <2>2
<1> DEFINE R == [kind : {"START", "EXIT", "SETUP"}, code : Codes]
           r == [kind |-> what, code |-> code]
<1>2. r \in R /\ taskRecords \in Seq(R)
  BY DEF Run!TypeOK
<1>3. taskRecords' = taskRecords \/ taskRecords' = Append(taskRecords, r)
  BY DEF Run!Printed
<1> HIDE DEF R, r
<1>4. taskRecords' \in Seq(R) /\ \A i \in 1..Len(taskRecords') :
        (i \in 1..Len(taskRecords) /\ taskRecords'[i] = taskRecords[i]) \/ taskRecords'[i] = r
  BY <1>1, <1>2, <1>3
<1> QED BY <1>4 DEF R, r

(* The wrapper at the host: each step keeps what its records stand for.         *)
LEMMA HostStep ==
  ASSUME RunInvariant,
         \/ Run!WrapperStarts \/ Run!CommandEnds \/ Run!WrapperKilled \/ Run!HostCloses
  PROVE  RunInvariant'
<1> USE DEF RunInvariant, Run!claim, Run!flags
<1>1. ASSUME NEW what \in {"START", "EXIT", "SETUP"}, NEW code \in Codes,
             Run!Printed(what, code),
             /\ what = "START" => /\ remote = "asked" /\ remote' = "running"
                                 /\ truth' = [truth EXCEPT !.command = "running"]
             /\ what = "SETUP" => /\ remote = "asked" /\ remote' = "ended"
                                 /\ truth' = [truth EXCEPT !.code = code]
             /\ what = "EXIT" => /\ remote = "running" /\ remote' = "ended"
                                /\ truth' = [truth EXCEPT !.command = "ended", !.code = code],
             UNCHANGED <<pc, taskStop, late, attempted, protocol, channel, status, outcome, link>>
      PROVE  RunInvariant'
  <2>1. /\ taskRecords' \in Seq([kind : {"START", "EXIT", "SETUP"}, code : Codes])
        /\ \A i \in 1..Len(taskRecords') :
             \/ i \in 1..Len(taskRecords) /\ taskRecords'[i] = taskRecords[i]
             \/ taskRecords'[i] = [kind |-> what, code |-> code]
    BY <1>1, Printing
  <2>2. /\ truth'.command = CASE what = "START" -> "running" [] what = "SETUP" -> truth.command
                             [] what = "EXIT" -> "ended"
        /\ truth'.code = IF what = "START" THEN truth.code ELSE code
        /\ truth'.killed = truth.killed
        /\ truth' \in [command : {"never", "running", "ended"},
                       code : Codes \cup {Run!NoCode}, killed : BOOLEAN]
    <3>1. truth \in [command : {"never", "running", "ended"},
                    code : Codes \cup {Run!NoCode}, killed : BOOLEAN]
      BY DEF Run!TypeOK
    <3>2. CASE what = "START"
      BY <1>1, <3>1, <3>2
    <3>3. CASE what = "SETUP"
      BY <1>1, <3>1, <3>3
    <3>4. CASE what = "EXIT"
      BY <1>1, <3>1, <3>4
    <3> QED BY <3>2, <3>3, <3>4
  <2>3. Run!TypeOK'
    BY <1>1, <2>1, <2>2 DEF Run!TypeOK, Run!Finished
  <2>4. RunFollowsPlan'
    BY <1>1, <2>2 DEF RunFollowsPlan
  <2>5. RecordsAreTrue'
    <3>1. truth.command = (IF what = "EXIT" THEN "running" ELSE "never")
      BY <1>1 DEF RunFollowsPlan
    <3>2. \A c : ~ExitTold(c)
      BY <3>1 DEF ExitTold
    <3>3. ~SetupTold
      BY <1>1 DEF SetupTold
    <3>4. /\ what = "EXIT" => ExitTold(code)'
          /\ what = "SETUP" => SetupTold'
      BY <1>1, <2>2, <3>1 DEF ExitTold, SetupTold
    <3>5. ASSUME NEW i \in 1..Len(taskRecords')
          PROVE  /\ taskRecords'[i].kind = "EXIT" => ExitTold(taskRecords[i].code)'
                 /\ taskRecords'[i].kind = "SETUP" => SetupTold'
      <4>1. CASE i \in 1..Len(taskRecords) /\ taskRecords'[i] = taskRecords[i]
        BY <4>1, <3>2, <3>3 DEF RecordsAreTrue
      <4>2. CASE taskRecords'[i] = [kind |-> what, code |-> code]
        BY <4>2, <3>4
      <4> QED BY <2>1, <4>1, <4>2
    <3> QED BY <1>1, <2>2, <3>2, <3>3, <3>5 DEF RecordsAreTrue
  <2>6. Run!CompletedIsTrue' /\ Run!NotStartedIsTrue'
    BY <1>1, <2>2 DEF Run!CompletedIsTrue, Run!NotStartedIsTrue, RunFollowsPlan
  <2> QED BY <2>3, <2>4, <2>5, <2>6
<1>2. CASE Run!WrapperStarts
  <2>1. CASE remote' = "running" /\ Run!Printed("START", 0)
    BY <1>1, <1>2, <2>1 DEF Run!WrapperStarts
  <2>2. CASE remote' = "ended"
    BY <1>1, <1>2, <2>2 DEF Run!WrapperStarts
  <2> QED BY <1>2, <2>1, <2>2 DEF Run!WrapperStarts
<1>3. CASE Run!CommandEnds
  BY <1>1, <1>3 DEF Run!CommandEnds
<1>4. CASE Run!WrapperKilled
  <2>1. /\ truth'.command = truth.command /\ truth'.code = truth.code /\ truth'.killed
        /\ truth' \in [command : {"never", "running", "ended"},
                       code : Codes \cup {Run!NoCode}, killed : BOOLEAN]
    BY <1>4 DEF Run!WrapperKilled, Run!TypeOK
  <2>2. Run!TypeOK'
    BY <1>4, <2>1 DEF Run!WrapperKilled, Run!TypeOK, Run!Finished
  <2>3. RunFollowsPlan' /\ Run!CompletedIsTrue' /\ Run!NotStartedIsTrue'
    BY <1>4, <2>1 DEF Run!WrapperKilled, RunFollowsPlan, Run!CompletedIsTrue,
       Run!NotStartedIsTrue
  <2>4. RecordsAreTrue'
    BY <1>4, <2>1 DEF Run!WrapperKilled, RunFollowsPlan, RecordsAreTrue, ExitTold, SetupTold
  <2> QED BY <2>2, <2>3, <2>4
<1>5. CASE Run!HostCloses
  BY <1>5 DEF Run!HostCloses, Run!TypeOK, Run!Finished, RunFollowsPlan,
     RecordsAreTrue, ExitTold, SetupTold, Run!CompletedIsTrue, Run!NotStartedIsTrue
<1> QED BY <1>2, <1>3, <1>4, <1>5


(* Reading a record: the protocol knows what the record stood for.              *)
LEMMA ReadingStep ==
  ASSUME RunInvariant, Run!ReadRecord
  PROVE  RunInvariant'
<1> USE DEF RunInvariant, Run!claim, Run!flags
<1> DEFINE r == Head(taskRecords)
<1>1. /\ r = taskRecords[1] /\ Len(taskRecords) \in Nat \ {0}
      /\ Len(taskRecords') = Len(taskRecords) - 1
      /\ \A i \in 1..Len(taskRecords') : taskRecords'[i] = taskRecords[i + 1]
      /\ taskRecords' \in Seq([kind : {"START", "EXIT", "SETUP"}, code : Codes])
      /\ r \in [kind : {"START", "EXIT", "SETUP"}, code : Codes]
  <2> DEFINE R == [kind : {"START", "EXIT", "SETUP"}, code : Codes]
  <2>1. taskRecords \in Seq(R) /\ taskRecords # <<>> /\ taskRecords' = Tail(taskRecords)
    BY DEF Run!ReadRecord, Run!TypeOK
  <2> HIDE DEF R
  <2>2. /\ r = taskRecords[1] /\ Len(taskRecords) \in Nat \ {0} /\ r \in R
        /\ taskRecords' \in Seq(R) /\ Len(taskRecords') = Len(taskRecords) - 1
    BY <2>1, HeadTailProperties
  <2>3. \A i \in 1..Len(taskRecords') : taskRecords'[i] = taskRecords[i + 1]
    BY <2>1, <2>2
  <2> QED BY <2>2, <2>3 DEF R
<1>2. protocol' = Run!Record(protocol, r)
  BY DEF Run!ReadRecord
<1> HIDE DEF r
<1>3. /\ protocol' \in [started : BOOLEAN, exit : Codes \cup {Run!NoCode},
                        setup : Codes \cup {Run!NoCode}, invalid : BOOLEAN]
      /\ protocol'.exit = protocol.exit \/ (r.kind = "EXIT" /\ protocol'.exit = r.code)
      /\ protocol'.setup = protocol.setup \/ (r.kind = "SETUP" /\ protocol'.setup = r.code)
  <2>1. protocol \in [started : BOOLEAN, exit : Codes \cup {Run!NoCode},
                      setup : Codes \cup {Run!NoCode}, invalid : BOOLEAN]
    BY DEF Run!TypeOK
  <2>2. /\ protocol.started \in BOOLEAN /\ protocol.invalid \in BOOLEAN
        /\ protocol.exit \in Codes \cup {Run!NoCode} /\ protocol.setup \in Codes \cup {Run!NoCode}
        /\ protocol = [started |-> protocol.started, exit |-> protocol.exit,
                       setup |-> protocol.setup, invalid |-> protocol.invalid]
    BY <2>1
  <2>3. CASE r.kind = "START"
    <3>1. PICK b \in BOOLEAN :
            protocol' = [started |-> TRUE, exit |-> protocol.exit, setup |-> protocol.setup,
                         invalid |-> b]
      BY <1>2, <2>2, <2>3 DEF Run!Record
    <3> QED BY <2>2, <3>1
  <2>4. CASE r.kind = "EXIT"
    <3>1. PICK b \in BOOLEAN :
            protocol' = [started |-> protocol.started, exit |-> r.code, setup |-> protocol.setup,
                         invalid |-> b]
      BY <1>2, <2>2, <2>4 DEF Run!Record
    <3> QED BY <1>1, <2>2, <2>4, <3>1
  <2>5. CASE r.kind = "SETUP"
    <3>1. PICK b \in BOOLEAN :
            protocol' = [started |-> protocol.started, exit |-> protocol.exit, setup |-> r.code,
                         invalid |-> b]
      BY <1>2, <2>2, <2>5 DEF Run!Record
    <3> QED BY <1>1, <2>2, <2>5, <3>1
  <2> QED BY <1>1, <2>3, <2>4, <2>5
<1>4. Run!TypeOK'
  BY <1>1, <1>3 DEF Run!TypeOK, Run!Finished, Run!ReadRecord
<1>5. RecordsAreTrue'
  <2>1. \A i \in 1..Len(taskRecords') : i + 1 \in 1..Len(taskRecords)
    BY <1>1
  <2>2. /\ r.kind = "EXIT" => ExitTold(r.code)
        /\ r.kind = "SETUP" => SetupTold
    BY <1>1 DEF RecordsAreTrue
  <2>3. UNCHANGED <<truth, remote, channel>>
    BY DEF Run!ReadRecord
  <2> QED BY <1>1, <1>3, <2>1, <2>2, <2>3 DEF RecordsAreTrue, ExitTold, SetupTold
<1>6. RunFollowsPlan' /\ Run!CompletedIsTrue' /\ Run!NotStartedIsTrue'
  BY DEF Run!ReadRecord, RunFollowsPlan, Run!CompletedIsTrue, Run!NotStartedIsTrue
<1> QED BY <1>4, <1>5, <1>6

(* The end of a run: the verdict claims what is known of the host.              *)
LEMMA ConcludeStep ==
  ASSUME RunInvariant, Run!Conclude
  PROVE  RunInvariant'
<1> USE DEF RunInvariant
<1>1. /\ status' = Run!Verdict /\ pc' = "done" /\ pc \in {"failed", "closed"}
      /\ outcome' = [code   |-> IF pc = "closed" /\ Run!Evidence THEN protocol.exit
                                ELSE Run!NoCode,
                     signal |-> pc = "closed" /\ channel.signal]
      /\ UNCHANGED <<taskStop, late, attempted, protocol, channel, link, remote,
                     taskRecords, truth>>
  BY DEF Run!Conclude, Run!flags, Run!host
<1>2. status' \in {"completed", "not-started", "unknown"}
  BY <1>1 DEF Run!Verdict
<1>3. outcome' \in [code : Codes \cup {Run!NoCode}, signal : BOOLEAN]
  BY <1>1 DEF Run!TypeOK
<1>4. Run!TypeOK'
  BY <1>1, <1>2, <1>3 DEF Run!TypeOK, Run!Finished, Run!Statuses
<1>5. RunFollowsPlan' /\ RecordsAreTrue'
  BY <1>1 DEF RunFollowsPlan, RecordsAreTrue, ExitTold, SetupTold
<1>6. Run!CompletedIsTrue'
  <2> SUFFICES ASSUME status' = "completed"
               PROVE  \/ outcome'.signal /\ truth.killed
                      \/ truth.command = "ended" /\ truth.code = outcome'.code
    BY <1>1 DEF Run!CompletedIsTrue
  <2>1. pc = "closed" /\ (Run!Evidence \/ channel.signal)
    BY <1>1 DEF Run!Verdict
  <2>2. CASE channel.signal
    BY <1>1, <2>1, <2>2 DEF RecordsAreTrue
  <2>3. CASE Run!Evidence
    BY <1>1, <2>1, <2>3 DEF RecordsAreTrue, Run!Evidence, ExitTold
  <2> QED BY <2>1, <2>2, <2>3
<1>7. Run!NotStartedIsTrue'
  <2> SUFFICES ASSUME status' = "not-started"
               PROVE  truth.command = "never" /\ remote # "asked"
    BY <1>1 DEF Run!NotStartedIsTrue
  <2>1. ~attempted \/ protocol.setup # Run!NoCode
    BY <1>1 DEF Run!Verdict
  <2> QED BY <2>1 DEF RunFollowsPlan, RecordsAreTrue, SetupTold
<1> QED BY <1>4, <1>5, <1>6, <1>7

(* Every step of a run keeps its invariant.                                    *)
LEMMA RunStep ==
  ASSUME RunInvariant, Run!Next
  PROVE  RunInvariant'
<1> USE DEF Run!flags, Run!claim, Run!host
<1>1. CASE Run!Begin \/ Run!ConnectInterrupted \/ Run!OpenChannel \/ Run!Attempt
  <2>1. /\ pc' \in {"connect", "failed", "ready", "exec"}
        /\ pc # "done" /\ attempted' \in BOOLEAN
        /\ UNCHANGED <<status, outcome, remote, taskRecords, truth, protocol, channel,
                       taskStop, late, link>>
    BY <1>1 DEF Run!Begin, Run!ConnectInterrupted, Run!OpenChannel, Run!Attempt, Run!Fail,
       RunInvariant, Run!TypeOK
  <2>2. Run!TypeOK'
    BY <2>1 DEF RunInvariant, Run!TypeOK, Run!Finished
  <2>3. RunFollowsPlan'
    BY <1>1 DEF Run!Begin, Run!ConnectInterrupted, Run!OpenChannel, Run!Attempt, Run!Fail,
       RunInvariant, RunFollowsPlan
  <2> QED
    BY <2>1, <2>3, <2>2 DEF RunInvariant, RecordsAreTrue, ExitTold, SetupTold,
       Run!CompletedIsTrue, Run!NotStartedIsTrue
<1>2. CASE Run!Connect
  <2>1. /\ Run!TypeOK'
        /\ UNCHANGED <<status, outcome, remote, taskRecords, truth, protocol, channel>>
    BY <1>2 DEF Run!Connect, Run!Fail, RunInvariant, Run!TypeOK, Run!Finished
  <2>2. RunFollowsPlan'
    BY <1>2 DEF Run!Connect, Run!Fail, RunInvariant, RunFollowsPlan
  <2> QED
    BY <2>1, <2>2 DEF RunInvariant, RecordsAreTrue, ExitTold, SetupTold, Run!CompletedIsTrue,
       Run!NotStartedIsTrue
<1>3. CASE Run!Exec
  <2>1. /\ Run!TypeOK' /\ UNCHANGED <<outcome, taskRecords, truth, protocol, channel>>
        /\ status' \in {"connecting", "running"} /\ remote' \in {remote, "asked"}
        /\ pc' \in {"eof", "failed"} /\ attempted' /\ pc = "exec"
    BY <1>3 DEF Run!Exec, Run!Fail, RunInvariant, Run!TypeOK, Run!Finished, Run!Statuses,
       RunFollowsPlan
  <2>2. remote = "idle"
    BY <1>3 DEF Run!Exec, RunInvariant, RunFollowsPlan
  <2> QED
    BY <2>1, <2>2 DEF RunInvariant, RunFollowsPlan, RecordsAreTrue, ExitTold, SetupTold,
       Run!CompletedIsTrue, Run!NotStartedIsTrue
<1>4. CASE Run!SendEof \/ Run!ReadEnd \/ Run!Stopped \/ Run!LinkFails
  BY <1>4 DEF Run!SendEof, Run!ReadEnd, Run!Stopped, Run!LinkFails,
     Run!Fail, Run!flags, Run!claim, Run!host, RunInvariant, Run!TypeOK, Run!Finished,
     RunFollowsPlan, RecordsAreTrue, ExitTold, SetupTold, Run!CompletedIsTrue,
     Run!NotStartedIsTrue
<1>5. CASE Run!Close
  <2>1. /\ channel' \in [hint : Codes \cup {Run!NoCode}, signal : BOOLEAN]
        /\ channel'.signal => truth.killed
    BY <1>5 DEF Run!Close, RunInvariant, Run!TypeOK
  <2> QED
    BY <1>5, <2>1 DEF Run!Close, Run!flags, Run!claim, Run!host, RunInvariant, Run!TypeOK,
       Run!Finished, RunFollowsPlan, RecordsAreTrue, ExitTold, SetupTold,
       Run!CompletedIsTrue, Run!NotStartedIsTrue
<1>6. CASE Run!StopObserving \/ Run!TimePasses \/ Run!Watchdog
  <2>1. /\ {taskStop', late'} \subseteq BOOLEAN
        /\ UNCHANGED <<pc, attempted, protocol, channel, status, outcome, link, remote,
                       taskRecords, truth>>
    BY <1>6 DEF Run!StopObserving, Run!TimePasses, Run!Watchdog, RunInvariant, Run!TypeOK
  <2> QED
    BY <2>1 DEF RunInvariant, Run!TypeOK, Run!Finished, RunFollowsPlan, RecordsAreTrue,
       ExitTold, SetupTold, Run!CompletedIsTrue, Run!NotStartedIsTrue
<1>7. CASE Run!LoseLink
  <2>1. PICK n \in 0..Len(taskRecords) : taskRecords' = SubSeq(taskRecords, 1, n)
    BY <1>7 DEF Run!LoseLink
  <2>2. /\ taskRecords' \in Seq([kind : {"START", "EXIT", "SETUP"}, code : Codes])
        /\ Len(taskRecords') = n
        /\ \A i \in 1..n : i \in 1..Len(taskRecords) /\ taskRecords'[i] = taskRecords[i]
    <3> DEFINE R == [kind : {"START", "EXIT", "SETUP"}, code : Codes]
    <3>1. taskRecords \in Seq(R)
      BY DEF RunInvariant, Run!TypeOK
    <3> HIDE DEF R
    <3>2. /\ taskRecords' \in Seq(R) /\ Len(taskRecords') = n
          /\ \A i \in 1..n : i \in 1..Len(taskRecords) /\ taskRecords'[i] = taskRecords[i]
      BY <2>1, <3>1, SubSeqProperties
    <3> QED BY <3>2 DEF R
  <2> QED
    BY <1>7, <2>2 DEF Run!LoseLink, Run!flags, Run!claim, RunInvariant, Run!TypeOK,
       Run!Finished, RunFollowsPlan, RecordsAreTrue, ExitTold, SetupTold,
       Run!CompletedIsTrue, Run!NotStartedIsTrue
<1> QED
  BY <1>1, <1>3, <1>4, <1>5, <1>6, <1>7, <1>2, ReadingStep, ConcludeStep, HostStep
  DEF Run!Next, Run!Executor, Run!Environment

-----------------------------------------------------------------------------
(* What is tried on a leg is a way to authenticate, and with a connection that  *)
(* uses keys no secret is among them.                                          *)
LEMMA OrderOfWays ==
  ASSUME NEW c \in Connect!Starts
  PROVE  /\ Connect!Order(c) \in Seq(Connect!Ways)
         /\ c.mode = "Key" => \A i \in 1..Len(Connect!Order(c)) : Plain(Connect!Order(c)[i])
<1> DEFINE P == {w \in Connect!Ways : Plain(w)}
           W == Connect!Ways
           agent == <<Connect!Way("agent", "")>>
<1>1. Len(Keys) \in Nat /\ DOMAIN Keys = 1..Len(Keys)
  <2>1. ASSUME NEW R, NEW t \in Seq(R)
        PROVE  Len(t) \in Nat /\ DOMAIN t = 1..Len(t)
    OBVIOUS
  <2> QED BY <2>1
<1>2. /\ \A h \in {"agent", "password", "prompt"} : Connect!Way(h, "") \in W
      /\ \A h \in {"secret", "key"} : \A i \in DOMAIN Keys : Connect!Way(h, Keys[i]) \in W
  <2>1. ASSUME NEW h \in {"agent", "password", "prompt"}
        PROVE  Connect!Way(h, "") \in W
    BY DEF Connect!Ways, Connect!Way
  <2>2. ASSUME NEW h \in {"secret", "key"}, NEW i \in DOMAIN Keys
        PROVE  Connect!Way(h, Keys[i]) \in W
    BY DEF Connect!Ways, Connect!Way
  <2> QED BY <2>1, <2>2
<1>3. /\ Connect!Way("agent", "") \in P
      /\ \A i \in DOMAIN Keys : Connect!Way("key", Keys[i]) \in P
  BY <1>2 DEF Connect!Way, Plain
<1>4. \A w \in P : w \in W /\ Plain(w)
  OBVIOUS
<1> HIDE DEF P, W
<1>5. ASSUME NEW R, NEW x \in R, NEW y \in R
      PROVE  <<x>> \in Seq(R) /\ <<x, y>> \in Seq(R) /\ <<>> \in Seq(R)
  OBVIOUS
<1>6. agent \in Seq(P)
  BY <1>3, <1>5
<1>7. Connect!PasswordWays(c) \in Seq(W)
  <2>1. Connect!Way("password", "") \in W /\ Connect!Way("prompt", "") \in W
    BY <1>2
  <2> QED BY <1>5, <2>1 DEF Connect!PasswordWays
<1>8. Connect!KeyWays(FALSE) \in Seq(P)
  <2>1. \A i \in 1..Len(Keys) : Connect!Way("key", Keys[i]) \in P
    BY <1>3, <1>1
  <2> QED BY <2>1 DEF Connect!KeyWays
<1>9. Connect!KeyWays(TRUE) \in Seq(W)
  <2>1. \A i \in 1..(2 * Len(Keys)) : (i + 1) \div 2 \in DOMAIN Keys
    BY <1>1
  <2>2. \A i \in 1..(2 * Len(Keys)) :
          Connect!Way(IF i % 2 = 1 THEN "secret" ELSE "key", Keys[(i + 1) \div 2]) \in W
    BY <1>2, <2>1
  <2> QED BY <2>2 DEF Connect!KeyWays
<1>10. Seq(P) \subseteq Seq(W)
  BY <1>4
<1> HIDE DEF agent
<1>11. CASE c.mode = "Key"
  <2>1. Connect!Order(c) = Connect!KeyWays(FALSE) \o agent
    BY <1>11 DEF Connect!Order, agent
  <2>2. Connect!Order(c) \in Seq(P)
    BY <1>6, <1>8, <2>1, ConcatProperties
  <2> QED BY <1>10, <1>11, <1>4, <2>2 DEF W
<1>12. CASE c.mode # "Key"
  <2>1. Connect!Order(c) = Connect!PasswordWays(c) \o agent
                           \o Connect!KeyWays(Connect!Password(c))
    BY <1>12 DEF Connect!Order, agent
  <2>2. Connect!KeyWays(Connect!Password(c)) \in Seq(W)
    BY <1>8, <1>9, <1>10 DEF Connect!KeyWays
  <2> QED BY <1>6, <1>7, <1>10, <1>12, <2>1, <2>2, ConcatProperties DEF W
<1> QED BY <1>11, <1>12

(* An attempt that fails, at any step: a cancelled one with that and nothing    *)
(* else, and one that may fall back without a refused password.                *)
LEMMA FailingStep ==
  ASSUME ConnectInvariant, at \notin {"session", "failed", "system"},
         NEW words, Connect!Failing(words),
         at = "authenticated" => conn.proxied \/ token,
         at = "auth" => error \subseteq words
  PROVE  ConnectInvariant'
<1> USE DEF ConnectInvariant
<1>1. /\ error' = IF token THEN {"cancelled"} ELSE words \cup {"failed to connect"}
      /\ at' = IF conn.owner = "terminal" /\ ~conn.proxied /\ Connect!Falls(error')
               THEN "system" ELSE "failed"
      /\ open' = {} /\ shut' = shut \cup open /\ stop' = TRUE /\ watcher' = "off"
      /\ UNCHANGED <<conn, leg, tracked, token, forward, tries, offered, typed>>
  BY DEF Connect!Failing, Connect!Fails
<1>2. at' \in {"system", "failed"}
  BY <1>1
<1>3. Connect!TypeOK' /\ conn' \in Connect!Starts /\ OnlyTasksAreCancelled'
  BY <1>1, <1>2 DEF Connect!TypeOK, OnlyTasksAreCancelled
<1>4. at' = "system" => ~conn.proxied /\ ~token /\ "authentication" \notin error'
                        /\ error' = words \cup {"failed to connect"}
  BY <1>1 DEF Connect!Falls, OnlyTasksAreCancelled
<1>5. WaysKeepToMode' /\ Connect!CancelledIsCancelled'
  BY <1>1, <1>2, <1>4 DEF WaysKeepToMode, Connect!CancelledIsCancelled
<1>6. at' = "system" => \A w \in offered : w.how \notin {"password", "prompt"}
  <2> SUFFICES ASSUME at' = "system", NEW w \in offered, w.how \in {"password", "prompt"}
               PROVE  FALSE
    OBVIOUS
  <2>1. at = "auth" /\ "authentication" \in error
    BY <1>4 DEF RefusalsAreTold
  <2> QED BY <1>4, <2>1
<1>7. RefusalsAreTold' /\ Connect!SecretsAreOfferedOnce'
  BY <1>1, <1>2, <1>6 DEF RefusalsAreTold, Connect!SecretsAreOfferedOnce, WaysKeepToMode
<1> QED BY <1>1, <1>3, <1>4, <1>5, <1>7

(* Where a leg is before anything is tried.                                   *)
Early == {"resolve", "tcp", "track", "tracked", "handshake", "verify", "probe"}

(* The steps of a leg until then.                                             *)
LEMMA LegStep ==
  ASSUME ConnectInvariant,
         at \in Early, at' \in Early \cup {"auth", "authenticated"},
         leg' \in Connect!Legs, leg' = "gateway" => conn.proxied,
         open' \cup tracked' \cup shut' \subseteq Connect!Legs,
         tries' = tries \/ tries' = Connect!Order(conn),
         UNCHANGED <<conn, token, watcher, forward, stop, offered, typed>>
  PROVE  ConnectInvariant'
<1> USE DEF ConnectInvariant, Early
<1>1. tries' \in Seq(Connect!Ways)
  <2>1. tries \in Seq(Connect!Ways)
    BY DEF Connect!TypeOK
  <2>2. Connect!Order(conn) \in Seq(Connect!Ways)
    BY OrderOfWays
  <2> QED BY <2>1, <2>2
<1>2. Connect!TypeOK'
  BY <1>1 DEF Connect!TypeOK
<1>3. WaysKeepToMode'
  BY OrderOfWays DEF WaysKeepToMode
<1>4. RefusalsAreTold'
  BY DEF RefusalsAreTold
<1>5. Connect!CancelledIsCancelled' /\ OnlyTasksAreCancelled'
  BY DEF Connect!CancelledIsCancelled, Connect!Ended, OnlyTasksAreCancelled
<1>6. Connect!SecretsAreOfferedOnce'
  BY DEF Connect!SecretsAreOfferedOnce
<1> QED BY <1>2, <1>3, <1>4, <1>5, <1>6

(* A way that is tried: refused, it is in the error of the attempt.             *)
LEMMA TryStep ==
  ASSUME ConnectInvariant, Connect!Try
  PROVE  ConnectInvariant'
<1> USE DEF ConnectInvariant
<1>1. CASE tries = <<>>
  <2>1. at = "auth" /\ Connect!Failing(error)
    BY <1>1 DEF Connect!Try
  <2> QED BY <2>1, FailingStep
<1>2. CASE tries # <<>>
  <2> DEFINE w == Head(tries)
  <2>1. /\ at = "auth" /\ tries' = Tail(tries) /\ offered' = offered \cup {w}
        /\ \/ at' = "authenticated" /\ UNCHANGED error
           \/ at' = at /\ error' = error \cup Connect!Words(w)
        /\ UNCHANGED <<conn, leg, open, tracked, shut, token, watcher, forward, stop, typed>>
    BY <1>2 DEF Connect!Try, Connect!net, Connect!thread
  <2>2. /\ w \in Connect!Ways /\ w = tries[1] /\ 1 \in 1..Len(tries)
        /\ tries' \in Seq(Connect!Ways)
        /\ \A i \in 1..Len(tries') : i + 1 \in 1..Len(tries) /\ tries'[i] = tries[i + 1]
    <3> DEFINE W == Connect!Ways
    <3>1. tries \in Seq(W) /\ tries # <<>> /\ tries' = Tail(tries)
      BY <1>2, <2>1 DEF Connect!TypeOK
    <3> HIDE DEF W
    <3>2. /\ w = tries[1] /\ w \in W /\ Len(tries) \in Nat \ {0}
          /\ tries' \in Seq(W) /\ Len(tries') = Len(tries) - 1
      BY <3>1, HeadTailProperties
    <3>3. \A i \in 1..Len(tries') : tries'[i] = tries[i + 1]
      BY <3>1, <3>2
    <3>4. \A i \in 1..Len(tries') : i + 1 \in 1..Len(tries)
      BY <3>2
    <3> QED BY <3>2, <3>3, <3>4 DEF W
  <2> HIDE DEF w
  <2>3. Connect!TypeOK'
    BY <2>1, <2>2 DEF Connect!TypeOK
  <2>4. conn.mode = "Key" => Plain(w)
    BY <2>2 DEF WaysKeepToMode
  <2>5. WaysKeepToMode'
    BY <2>1, <2>2, <2>4 DEF WaysKeepToMode
  <2>6. RefusalsAreTold'
    <3>1. w.how \in {"password", "prompt"} => Connect!Words(w) = {"authentication"}
      BY DEF Connect!Words
    <3> QED BY <2>1, <3>1 DEF RefusalsAreTold
  <2>7. Connect!CancelledIsCancelled' /\ OnlyTasksAreCancelled'
    BY <2>1 DEF Connect!CancelledIsCancelled, Connect!Ended, OnlyTasksAreCancelled
  <2>8. Connect!SecretsAreOfferedOnce'
    BY <2>1, <2>5 DEF Connect!SecretsAreOfferedOnce, WaysKeepToMode, Plain
  <2> QED BY <2>1, <2>3, <2>5, <2>6, <2>7, <2>8
<1> QED BY <1>1, <1>2

(* Every step of an attempt keeps its invariant.                               *)
LEMMA ConnectStep ==
  ASSUME ConnectInvariant, Connect!Next
  PROVE  ConnectInvariant'
<1> USE DEF Connect!net, Connect!thread, Early
<1>1. CASE Connect!Resolve \/ Connect!Verify
  <2>1. at \in {"resolve", "verify"}
    BY <1>1 DEF Connect!Resolve, Connect!Verify
  <2>2. ASSUME NEW words, Connect!Failing(words)
        PROVE  ConnectInvariant'
    BY <2>1, <2>2, FailingStep
  <2>3. CASE /\ at' \in {"tcp", "probe"}
             /\ UNCHANGED <<conn, leg, open, tracked, shut, token, watcher, forward, stop,
                            tries, error, offered, typed>>
    <3>1. leg \in Connect!Legs /\ (leg = "gateway" => conn.proxied)
          /\ open \cup tracked \cup shut \subseteq Connect!Legs
      BY DEF ConnectInvariant, Connect!TypeOK
    <3> QED BY <2>1, <2>3, <3>1, LegStep
  <2> QED BY <1>1, <2>2, <2>3 DEF Connect!Resolve, Connect!Verify
<1>2. CASE Connect!Tcp
  <2>1. ASSUME NEW words, Connect!Failing(words)
        PROVE  ConnectInvariant'
    BY <1>2, <2>1, FailingStep DEF Connect!Tcp
  <2>2. CASE /\ at' \in {"track", "handshake"} /\ open' = open \cup {leg}
             /\ UNCHANGED <<conn, leg, tracked, shut, token, watcher, forward, stop,
                            tries, error, offered, typed>>
    <3>1. leg \in Connect!Legs /\ (leg = "gateway" => conn.proxied)
          /\ open' \cup tracked \cup shut \subseteq Connect!Legs
      BY <2>2 DEF ConnectInvariant, Connect!TypeOK
    <3> QED BY <1>2, <2>2, <3>1, LegStep DEF Connect!Tcp
  <2> QED BY <1>2, <2>1, <2>2 DEF Connect!Tcp
<1>3. CASE Connect!Track \/ Connect!Tracked \/ Connect!Handshake
  <2>1. /\ at \in {"track", "tracked", "handshake"}
        /\ at' \in {"tracked", "handshake", "verify"}
        /\ tracked' \in {tracked, tracked \cup {leg}}
        /\ UNCHANGED <<conn, leg, open, shut, token, watcher, forward, stop, tries, error,
                       offered, typed>>
    BY <1>3 DEF Connect!Track, Connect!Tracked, Connect!Handshake
  <2>2. leg \in Connect!Legs /\ (leg = "gateway" => conn.proxied)
        /\ open \cup tracked' \cup shut \subseteq Connect!Legs
    BY <2>1 DEF ConnectInvariant, Connect!TypeOK
  <2> QED BY <2>1, <2>2, LegStep
<1>4. CASE Connect!Probe
  <2>1. /\ at = "probe" /\ at' \in {"auth", "authenticated"}
        /\ tries' = tries \/ tries' = Connect!Order(conn)
        /\ UNCHANGED <<conn, leg, open, tracked, shut, token, watcher, forward, stop, error,
                       offered, typed>>
    BY <1>4 DEF Connect!Probe, Connect!Authenticated
  <2>2. leg \in Connect!Legs /\ (leg = "gateway" => conn.proxied)
        /\ open \cup tracked \cup shut \subseteq Connect!Legs
    BY DEF ConnectInvariant, Connect!TypeOK
  <2> QED BY <2>1, <2>2, LegStep
<1>5. CASE Connect!LegDone
  <2>1. CASE leg = "gateway" /\ at = "authenticated" /\ Connect!Failing({})
    <3>1. conn.proxied
      BY <2>1 DEF ConnectInvariant
    <3> QED BY <2>1, <3>1, FailingStep
  <2>2. CASE /\ leg = "gateway" /\ at = "authenticated"
             /\ leg' = "target" /\ at' = "resolve" /\ forward' = "waiting"
             /\ error' = {} /\ tries' = <<>>
             /\ UNCHANGED <<conn, open, tracked, shut, token, watcher, stop, offered, typed>>
    <3>1. conn.proxied
      BY <2>2 DEF ConnectInvariant
    <3>2. tries' \in Seq(Connect!Ways) /\ Len(tries') = 0
      BY <2>2
    <3>3. Connect!TypeOK'
      BY <2>2, <3>2 DEF ConnectInvariant, Connect!TypeOK, Connect!Legs
    <3>4. WaysKeepToMode' /\ RefusalsAreTold'
      BY <2>2, <3>1, <3>2 DEF ConnectInvariant, WaysKeepToMode, RefusalsAreTold
    <3> QED
      BY <2>2, <3>3, <3>4 DEF ConnectInvariant, Connect!CancelledIsCancelled, Connect!Ended,
         OnlyTasksAreCancelled, Connect!SecretsAreOfferedOnce
  <2>3. CASE /\ leg # "gateway" /\ at = "authenticated" /\ at' = "session" /\ watcher' = "off"
             /\ ~token
             /\ UNCHANGED <<conn, leg, open, tracked, shut, token, forward, stop, tries, error,
                            offered, typed>>
    BY <2>3 DEF ConnectInvariant, Connect!TypeOK, WaysKeepToMode, RefusalsAreTold,
       Connect!CancelledIsCancelled, OnlyTasksAreCancelled, Connect!SecretsAreOfferedOnce
  <2> QED BY <1>5, <2>1, <2>2, <2>3 DEF Connect!LegDone
<1>6. CASE Connect!Breaks
  <2> DEFINE words == error \cup (IF at = "handshake" THEN {"handshake failed"} ELSE {})
  <2>1. Connect!Failing(words) /\ error \subseteq words
    BY <1>6 DEF Connect!Breaks
  <2>2. at \in {"handshake", "probe", "auth"}
    BY <1>6 DEF Connect!Breaks
  <2> QED BY <2>1, <2>2, FailingStep
<1>7. CASE Connect!Sees
  <2>1. /\ at \in {"resolve", "tcp", "track", "tracked", "verify", "authenticated"} /\ token
        /\ Connect!Failing({"cancelled"})
    BY <1>7 DEF Connect!Sees, Connect!Check
  <2> QED BY <2>1, FailingStep
<1>8. CASE Connect!ForwardAccepts \/ Connect!ForwardOpens \/ Connect!ForwardStops
  <2>1. /\ forward' \in {"none", "waiting", "asking", "relaying", "over"}
        /\ shut' \in {shut, shut \cup {"target"}}
        /\ UNCHANGED <<conn, leg, at, open, tracked, token, watcher, stop, tries, error, offered,
                       typed>>
    BY <1>8 DEF Connect!ForwardAccepts, Connect!ForwardOpens, Connect!ForwardStops
  <2> QED
    BY <2>1 DEF ConnectInvariant, Connect!TypeOK, Connect!Legs, WaysKeepToMode, RefusalsAreTold,
       Connect!CancelledIsCancelled, Connect!Ended, OnlyTasksAreCancelled,
       Connect!SecretsAreOfferedOnce
<1>9. CASE Connect!Cancel \/ Connect!Watch
  <2>1. /\ token' \in BOOLEAN /\ watcher' \in {"on", "off"} /\ shut' \in {shut, shut \cup tracked}
        /\ token' => conn.owner = "task" /\ (token \/ ~Connect!Ended)
        /\ UNCHANGED <<conn, leg, at, open, tracked, forward, stop, tries, error, offered, typed>>
    BY <1>9 DEF Connect!Cancel, Connect!Watch, Connect!Cancellable, ConnectInvariant,
       Connect!TypeOK, OnlyTasksAreCancelled
  <2> QED
    BY <2>1 DEF ConnectInvariant, Connect!TypeOK, WaysKeepToMode, RefusalsAreTold,
       Connect!CancelledIsCancelled, Connect!Ended, OnlyTasksAreCancelled,
       Connect!SecretsAreOfferedOnce
<1>10. CASE Connect!Drop
  <2>1. /\ at = "session" /\ at' = "failed" /\ open' = {} /\ shut' = shut \cup open /\ stop' = TRUE
        /\ UNCHANGED <<conn, leg, tracked, token, watcher, forward, tries, error, offered, typed>>
    BY <1>10 DEF Connect!Drop
  <2> QED
    BY <2>1 DEF ConnectInvariant, Connect!TypeOK, WaysKeepToMode, RefusalsAreTold,
       Connect!CancelledIsCancelled, Connect!Ended, OnlyTasksAreCancelled,
       Connect!SecretsAreOfferedOnce
<1>11. CASE Connect!Types
  <2>1. /\ Connect!Password(conn) /\ typed = 0 /\ typed' = 1
        /\ UNCHANGED <<conn, leg, at, open, tracked, shut, token, watcher, forward, stop, tries,
                       error, offered>>
    BY <1>11 DEF Connect!Types
  <2> QED
    BY <2>1 DEF ConnectInvariant, Connect!TypeOK, WaysKeepToMode, RefusalsAreTold,
       Connect!CancelledIsCancelled, Connect!Ended, OnlyTasksAreCancelled,
       Connect!SecretsAreOfferedOnce, Connect!Password
<1> QED
  BY <1>1, <1>2, <1>3, <1>4, <1>5, <1>6, <1>7, <1>8, <1>9, <1>10, <1>11, TryStep
  DEF Connect!Next, Connect!Connects, Connect!Forwards

-----------------------------------------------------------------------------
(* ConnectionsInvariant holds in every state of every part.                    *)
THEOREM ConnectionsHold == Spec => []ConnectionsInvariant
<1>1. Init => ConnectionsInvariant
  <2> SUFFICES ASSUME Init PROVE ConnectionsInvariant
    OBVIOUS
  <2>1. Terminals!TypeOK
    BY DEF Init, Terminals!Init, Terminals!TypeOK, Terminals!Ids, Terminals!Nobody
  <2>2. ConnectInvariant
    <3>1. Connect!TypeOK
      <4>1. tries \in Seq(Connect!Ways)
        BY DEF Init, Connect!Init
      <4>2. Connect!Init
        BY DEF Init
      <4>3. leg \in Connect!Legs /\ watcher \in {"on", "off"}
        BY <4>2 DEF Connect!Init, Connect!Legs
      <4>4. /\ at = "resolve" /\ open = {} /\ tracked = {} /\ shut = {} /\ token = FALSE
            /\ forward = "none" /\ stop = FALSE /\ offered = {} /\ typed = 0
        BY <4>2 DEF Connect!Init
      <4>5. open \cup tracked \cup shut \subseteq Connect!Legs /\ offered \subseteq Connect!Ways
        BY <4>4
      <4>6. token \in BOOLEAN /\ stop \in BOOLEAN
        BY <4>4
      <4>7. typed \in 0..1
        BY <4>4
      <4> QED BY <4>1, <4>3, <4>4, <4>5, <4>6, <4>7 DEF Connect!TypeOK
    <3>2. /\ conn \in Connect!Starts /\ at = "resolve" /\ ~token /\ offered = {} /\ tries = <<>>
          /\ typed = 0 /\ (leg = "gateway" => conn.proxied)
      BY DEF Init, Connect!Init
    <3> QED
      BY <3>1, <3>2 DEF ConnectInvariant, OnlyTasksAreCancelled, RefusalsAreTold, WaysKeepToMode,
         Connect!CancelledIsCancelled, Connect!SecretsAreOfferedOnce
  <2>3. RunInvariant
    <3>1. taskRecords \in Seq([kind : {"START", "EXIT", "SETUP"}, code : Codes])
      BY DEF Init, Run!Init
    <3>2. Run!Init /\ Len(taskRecords) = 0
      BY DEF Init, Run!Init
    <3>3. Run!TypeOK
      BY <3>1, <3>2 DEF Run!Init, Run!TypeOK, Run!Finished, Run!Statuses
    <3>4. RunFollowsPlan /\ RecordsAreTrue
      BY <3>2 DEF Run!Init, RunFollowsPlan, RecordsAreTrue
    <3> QED
      BY <3>2, <3>3, <3>4 DEF Run!Init, RunInvariant, Run!CompletedIsTrue, Run!NotStartedIsTrue
  <2> QED BY <2>1, <2>2, <2>3 DEF ConnectionsInvariant
<1>2. ConnectionsInvariant /\ [Next]_vars => ConnectionsInvariant'
  <2> SUFFICES ASSUME ConnectionsInvariant, [Next]_vars
               PROVE  ConnectionsInvariant'
    OBVIOUS
  <2> USE DEF ConnectionsInvariant
  <2>1. UNCHANGED terminals => Terminals!TypeOK'
    BY DEF terminals, Terminals!TypeOK
  <2>2. UNCHANGED connect => ConnectInvariant'
    BY DEF connect, ConnectInvariant, Connect!TypeOK, OnlyTasksAreCancelled, RefusalsAreTold,
       WaysKeepToMode, Connect!CancelledIsCancelled, Connect!Ended, Connect!SecretsAreOfferedOnce
  <2>3. UNCHANGED run => RunInvariant'
    BY DEF run, RunInvariant, Run!TypeOK, Run!Finished, RunFollowsPlan, RecordsAreTrue, ExitTold,
       SetupTold, Run!CompletedIsTrue, Run!NotStartedIsTrue
  <2>4. CASE Terminals!Next /\ UNCHANGED <<part, connect, run>>
    BY <2>2, <2>3, <2>4, TerminalsStep
  <2>5. CASE Connect!Next /\ UNCHANGED <<part, terminals, run>>
    BY <2>1, <2>3, <2>5, ConnectStep
  <2>6. CASE Run!Next /\ UNCHANGED <<part, terminals, connect>>
    BY <2>1, <2>2, <2>6, RunStep
  <2>7. CASE UNCHANGED vars
    BY <2>1, <2>2, <2>3, <2>7 DEF vars
  <2> QED BY <2>4, <2>5, <2>6, <2>7 DEF Next
<1> QED BY <1>1, <1>2, PTL DEF Spec

(* The variables of every part keep their types.                               *)
THEOREM ConnectionsAreTyped == Spec => []TypesOK
<1>1. ConnectionsInvariant => TypesOK
  BY DEF ConnectionsInvariant, ConnectInvariant, RunInvariant, TypesOK
<1> QED BY <1>1, ConnectionsHold, PTL

(* What an attempt or a run is said to have come to is what happened.           *)
THEOREM OutcomesStayTrue == Spec => []OutcomesAreTrue
<1>1. ConnectionsInvariant => OutcomesAreTrue
  BY DEF ConnectionsInvariant, ConnectInvariant, RunInvariant, OutcomesAreTrue
<1> QED BY <1>1, ConnectionsHold, PTL

(* A refused password is not offered again, and none is tried as a passphrase    *)
(* of a connection that uses keys.                                            *)
THEOREM SecretsStayRefused == Spec => []SecretsAreOfferedOnce
<1>1. ConnectionsInvariant => SecretsAreOfferedOnce
  BY DEF ConnectionsInvariant, ConnectInvariant, SecretsAreOfferedOnce
<1> QED BY <1>1, ConnectionsHold, PTL

=============================================================================
