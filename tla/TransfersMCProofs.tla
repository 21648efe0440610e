-------------------------- MODULE TransfersMCProofs --------------------------
(***************************************************************************)
(* A run of the sftp program, a folder on its way and a conversation on its   *)
(* way to the database, for any number of workers, events, messages and       *)
(* versions.  Each of the three has an inductive invariant of its own, from     *)
(* which what the run checks of its safety follows.                          *)
(***************************************************************************)
EXTENDS TransfersMC, SequenceTheorems, FiniteSetTheorems, WellFoundedInduction, TLAPS

USE Bounds

-----------------------------------------------------------------------------
(* A run of the sftp program.                                                 *)

Signs == {"password?", "trust?", "key changed", "connected", "prompt", "error"}
Lines == {"cd", "lcd", "put", "get", "mkdir", "rm", "ls", "pwd", "bye", "yes", "secret"}
Asked == {"password?", "trust?"}
Sent  == {commands[i] : i \in 1 .. sent} \cup {"yes", "secret"}

(* What has been shown since something was last typed, read or not.           *)
Noticed == window \cup Program!ToSet(seen)

(* Nothing is read or executed that was not typed.                            *)
OnlySentIsDone ==
  /\ seen \in Seq(Signs) /\ typed \in Seq(Lines)
  /\ results \in Seq([command : Lines, fine : BOOLEAN])
  /\ \A i \in DOMAIN typed : typed[i] \in Sent
  /\ \A i \in DOMAIN results : results[i].command \in Sent

(* Whoever answers has killed the program, and says whether a command was sent. *)
EndIsTold ==
  /\ at # "done" => answer = "none"
  /\ at = "done" => ~alive /\ (began <=> answer = "failed" /\ Program!Began)

AllFine == \A i \in DOMAIN results : results[i].fine

(* Where typing and prompts are, in a run whose first command waited for a prompt: *)
(* either a prompt is to be seen and all that was sent is done, or one line is    *)
(* on its way, and then all before it went well.                              *)
InStep ==
  CASE phase \in {"connecting", "connecting again"} ->
         typed = <<>> /\ sent = 0 /\ Noticed \subseteq {"key changed"}
    [] phase \in {"password", "trust"} ->
         /\ sent = 0 /\ Noticed \subseteq {"key changed"} \cup Asked
         /\ \/ /\ typed = <<>>
               /\ window \cap Asked = {} \/ Program!ToSet(seen) \cap Asked = {}
            \/ Len(typed) = 1 /\ Noticed \cap Asked = {}
    [] phase = "greeting" ->
         typed = <<>> /\ sent = 0 /\ Noticed \subseteq {"key changed", "connected"}
    [] phase = "connected" ->
         /\ Noticed \cap Asked = {}
         /\ \/ /\ alive /\ typed = <<>> /\ Len(results) = sent /\ "prompt" \in Noticed
               /\ ~("prompt" \in window /\ "prompt" \in Program!ToSet(seen))
               /\ ~AllFine => \/ "error" \in window
                              \/ "error" \in Program!ToSet(seen) /\ "prompt" \notin window
            \/ /\ "prompt" \notin Noticed /\ sent > 0 /\ Len(results) = sent - 1 /\ AllFine
               /\ \/ alive /\ typed = <<commands[sent]>>
                  \/ ~alive /\ typed = <<>> /\ sent = Len(commands)
    [] OTHER -> TRUE

PromptedInStep ==
  ~early => /\ \A i \in DOMAIN results : i <= sent /\ results[i].command = commands[i]
            /\ sent = 0 => results = <<>>
            /\ at # "done" /\ (alive \/ phase = "connected") => InStep

ProgramInvariant ==
  /\ Program!TypeOK
  /\ OnlySentIsDone /\ EndIsTold /\ PromptedInStep
  /\ Program!PromptedGoesInOrder
  /\ alive => phase \notin {"failed", "killed"}

(* What an operation types: "bye" at the end, and only there.                   *)
LEMMA OperationsEndWithBye ==
  ASSUME NEW c \in Program!Operations
  PROVE  /\ c \in Seq(Lines) /\ Len(c) \in 2 .. 3 /\ DOMAIN c = 1 .. Len(c)
         /\ \A i \in 1 .. Len(c) : c[i] = "bye" <=> i = Len(c)
         /\ Program!ToSet(c) = {c[i] : i \in 1 .. Len(c)}
<1>1. ASSUME NEW x \in Lines \ {"bye"}, NEW y \in Lines \ {"bye"}, c = <<x, y, "bye">>
      PROVE  /\ c \in Seq(Lines) /\ Len(c) \in 2 .. 3 /\ DOMAIN c = 1 .. Len(c)
             /\ \A i \in 1 .. Len(c) : c[i] = "bye" <=> i = Len(c)
  BY <1>1 DEF Lines
<1>2. ASSUME NEW x \in Lines \ {"bye"}, c = <<x, "bye">>
      PROVE  /\ c \in Seq(Lines) /\ Len(c) \in 2 .. 3 /\ DOMAIN c = 1 .. Len(c)
             /\ \A i \in 1 .. Len(c) : c[i] = "bye" <=> i = Len(c)
  BY <1>2 DEF Lines
<1>3. \/ \E x, y \in {"cd", "put", "lcd", "get", "ls"} : c = <<x, y, "bye">>
      \/ \E x \in {"put", "get", "mkdir", "rm", "ls", "pwd"} : c = <<x, "bye">>
  BY DEF Program!Operations, Program!Upload, Program!UploadFile, Program!Download,
         Program!Listing, Program!UploadTo, Program!DownloadFile, Program!MakeFolder,
         Program!Delete, Program!RootListing, Program!Probe
<1>4. \A x \in {"cd", "put", "lcd", "get", "ls", "mkdir", "rm", "pwd"} : x \in Lines \ {"bye"}
  BY DEF Lines
<1>5. /\ c \in Seq(Lines) /\ Len(c) \in 2 .. 3 /\ DOMAIN c = 1 .. Len(c)
      /\ \A i \in 1 .. Len(c) : c[i] = "bye" <=> i = Len(c)
  BY <1>1, <1>2, <1>3, <1>4
<1> QED BY <1>5, Zenon DEF Program!ToSet

(* What the program shows next joins what it has shown.                        *)
LEMMA SignsJoin ==
  ASSUME seen \in Seq(Signs), NEW signs \in Seq(Signs), seen' = seen \o signs
  PROVE  /\ seen' \in Seq(Signs)
         /\ Program!ToSet(seen') = Program!ToSet(seen) \cup Program!ToSet(signs)
<1>1. /\ seen' \in Seq(Signs) /\ Len(seen') = Len(seen) + Len(signs)
      /\ Len(seen) \in Nat /\ Len(signs) \in Nat
      /\ DOMAIN seen = 1 .. Len(seen) /\ DOMAIN signs = 1 .. Len(signs)
      /\ DOMAIN seen' = 1 .. Len(seen')
      /\ \A i \in 1 .. Len(seen') :
           seen'[i] = IF i <= Len(seen) THEN seen[i] ELSE signs[i - Len(seen)]
  BY ConcatProperties, LenProperties
<1>2. \A i \in DOMAIN seen : i \in DOMAIN seen' /\ seen'[i] = seen[i]
  BY <1>1
<1>3. \A i \in DOMAIN signs : i + Len(seen) \in DOMAIN seen' /\ seen'[i + Len(seen)] = signs[i]
  BY <1>1
<1>4. \A i \in DOMAIN seen' : \/ i \in DOMAIN seen /\ seen'[i] = seen[i]
                              \/ i - Len(seen) \in DOMAIN signs /\ seen'[i] = signs[i - Len(seen)]
  BY <1>1
<1>5. Program!ToSet(seen') \subseteq Program!ToSet(seen) \cup Program!ToSet(signs)
  BY <1>4 DEF Program!ToSet
<1>6. Program!ToSet(seen) \subseteq Program!ToSet(seen')
  BY <1>2 DEF Program!ToSet
<1>7. Program!ToSet(signs) \subseteq Program!ToSet(seen')
  BY <1>3 DEF Program!ToSet
<1> QED BY <1>1, <1>5, <1>6, <1>7

(* One sign or two, as sets.                                                   *)
LEMMA FewSigns ==
  /\ <<>> \in Seq(Signs) /\ Program!ToSet(<<>>) = {}
  /\ \A x \in Signs : <<x>> \in Seq(Signs) /\ Program!ToSet(<<x>>) = {x}
  /\ \A x, y \in Signs : <<x, y>> \in Seq(Signs) /\ Program!ToSet(<<x, y>>) = {x, y}
BY DEF Program!ToSet

(* What every step of a run leaves alone: nothing is typed, and nothing is        *)
(* executed.                                                                  *)
LEMMA ProgramTypes ==
  ASSUME ProgramInvariant
  PROVE  /\ commands \in Program!Operations /\ commands \in Seq(Lines) /\ Len(commands) \in 2 .. 3
         /\ \A i \in 1 .. Len(commands) : commands[i] \in Lines
         /\ saved \in 0 .. 1 /\ sent \in 0 .. Len(commands) /\ window \subseteq Signs
         /\ at \in {"read", "decide", "writing", "wait", "done"}
         /\ answer \in {"none", "ok", "failed", "cancelled"}
         /\ late \in BOOLEAN /\ early \in BOOLEAN /\ expired \in BOOLEAN /\ token \in BOOLEAN
         /\ began \in BOOLEAN /\ alive \in BOOLEAN
         /\ phase \in {"connecting", "password", "trust", "connecting again", "greeting",
                       "connected", "failed", "killed"}
         /\ seen \in Seq(Signs) /\ Program!ToSet(seen) \subseteq Signs
         /\ typed \in Seq(Lines) /\ Len(typed) \in Nat /\ DOMAIN typed = 1 .. Len(typed)
         /\ results \in Seq([command : Lines, fine : BOOLEAN]) /\ Len(results) \in Nat
         /\ DOMAIN results = 1 .. Len(results)
<1>1. /\ commands \in Program!Operations
      /\ saved \in 0 .. 1 /\ sent \in 0 .. Len(commands) /\ window \subseteq Signs
      /\ at \in {"read", "decide", "writing", "wait", "done"}
      /\ answer \in {"none", "ok", "failed", "cancelled"}
      /\ late \in BOOLEAN /\ early \in BOOLEAN /\ expired \in BOOLEAN /\ token \in BOOLEAN
      /\ began \in BOOLEAN /\ alive \in BOOLEAN
      /\ phase \in {"connecting", "password", "trust", "connecting again", "greeting",
                    "connected", "failed", "killed"}
  BY DEF ProgramInvariant, Program!TypeOK, Signs
<1>2. /\ commands \in Seq(Lines) /\ Len(commands) \in 2 .. 3
      /\ \A i \in 1 .. Len(commands) : commands[i] \in Lines
  <2>1. commands \in Seq(Lines) /\ Len(commands) \in 2 .. 3 /\ DOMAIN commands = 1 .. Len(commands)
    BY <1>1, OperationsEndWithBye
  <2> QED BY <2>1, ElementOfSeq
<1>3. /\ seen \in Seq(Signs) /\ typed \in Seq(Lines)
      /\ results \in Seq([command : Lines, fine : BOOLEAN])
  BY DEF ProgramInvariant, OnlySentIsDone
<1>4. Program!ToSet(seen) \subseteq Signs
  BY <1>3 DEF Program!ToSet
<1>5. /\ Len(typed) \in Nat /\ DOMAIN typed = 1 .. Len(typed)
      /\ Len(results) \in Nat /\ DOMAIN results = 1 .. Len(results)
  BY <1>3, LenProperties
<1> QED BY <1>1, <1>2, <1>3, <1>4, <1>5

(* Time passes, or the loop goes from one place to the next.                    *)
LEMMA ProgramRests ==
  ASSUME ProgramInvariant,
         UNCHANGED <<commands, saved, sent, window, early, answer, began, alive, phase, seen,
                     typed, results>>,
         at' = at \/ (at # "done" /\ at' \in {"read", "decide", "writing", "wait"}),
         late' \in BOOLEAN, expired' \in BOOLEAN, token' \in BOOLEAN
  PROVE  ProgramInvariant'
<1>1. Program!TypeOK'
  <2>1. {late, early, expired, token, began, alive}' \subseteq BOOLEAN
    BY ProgramTypes
  <2>2. at' \in {"read", "decide", "writing", "wait", "done"}
    BY ProgramTypes
  <2> QED BY <2>1, <2>2, ProgramTypes DEF Program!TypeOK, Signs
<1>2. at' = "done" <=> at = "done"
  OBVIOUS
<1>3. OnlySentIsDone'
  BY DEF ProgramInvariant, OnlySentIsDone, Sent
<1>4. EndIsTold'
  BY <1>2 DEF ProgramInvariant, EndIsTold, Program!Began, Program!Changing
<1>5. InStep' <=> InStep
  BY DEF InStep, Noticed, AllFine
<1>6. PromptedInStep'
  BY <1>2, <1>5 DEF ProgramInvariant, PromptedInStep
<1>7. Program!PromptedGoesInOrder'
  BY DEF ProgramInvariant, Program!PromptedGoesInOrder, Program!Did
<1> QED BY <1>1, <1>3, <1>4, <1>6, <1>7 DEF ProgramInvariant

(* The program shows something or reads a line that is no command.              *)
LEMMA ProgramShows ==
  ASSUME ProgramInvariant, alive,
         UNCHANGED <<commands, saved, at, sent, window, early, answer, began, late, expired, token,
                     alive, results>>,
         seen' \in Seq(Signs), typed' \in Seq(Lines), \A i \in DOMAIN typed' : typed'[i] \in Sent,
         phase' \in {"connecting", "password", "trust", "connecting again", "greeting",
                     "connected"},
         ~early => InStep'
  PROVE  ProgramInvariant'
<1>1. Program!TypeOK'
  <2>1. Program!TypeOK
    BY DEF ProgramInvariant
  <2>2. phase' \in {"connecting", "password", "trust", "connecting again", "greeting", "connected",
                    "failed", "killed"}
    OBVIOUS
  <2> QED BY <2>1, <2>2 DEF Program!TypeOK
<1>2. OnlySentIsDone'
  BY DEF ProgramInvariant, OnlySentIsDone, Sent
<1>3. EndIsTold'
  BY DEF ProgramInvariant, EndIsTold, Program!Began, Program!Changing
<1>4. PromptedInStep'
  BY DEF ProgramInvariant, PromptedInStep
<1>5. Program!PromptedGoesInOrder'
  BY DEF ProgramInvariant, Program!PromptedGoesInOrder, Program!Did
<1> QED BY <1>1, <1>2, <1>3, <1>4, <1>5 DEF ProgramInvariant

(* The program dies before it was connected, or is killed.                      *)
LEMMA ProgramDies ==
  ASSUME ProgramInvariant, alive,
         UNCHANGED <<commands, saved, at, sent, window, early, answer, began, late, expired, token,
                     seen, typed, results>>,
         alive' = FALSE, phase' \in {"failed", "killed"}
  PROVE  ProgramInvariant'
<1>1. Program!TypeOK'
  <2>1. Program!TypeOK
    BY DEF ProgramInvariant
  <2>2. phase' \in {"connecting", "password", "trust", "connecting again", "greeting", "connected",
                    "failed", "killed"}
    OBVIOUS
  <2> QED BY <2>1, <2>2 DEF Program!TypeOK
<1>2. OnlySentIsDone'
  BY DEF ProgramInvariant, OnlySentIsDone, Sent
<1>3. EndIsTold'
  BY DEF ProgramInvariant, EndIsTold, Program!Began, Program!Changing
<1>4. PromptedInStep'
  BY DEF ProgramInvariant, PromptedInStep
<1>5. Program!PromptedGoesInOrder'
  BY DEF ProgramInvariant, Program!PromptedGoesInOrder, Program!Did
<1> QED BY <1>1, <1>2, <1>3, <1>4, <1>5 DEF ProgramInvariant

(* A run that ended well has executed what was to be executed.                  *)
LEMMA WellEndedIsDone ==
  ASSUME ProgramInvariant, ~early, at # "done", ~alive, phase = "connected"
  PROVE  \A c \in Program!ToSet(commands) \ {"bye"} : Program!Did(c)
<1>1. InStep
  BY DEF ProgramInvariant, PromptedInStep
<1>2. /\ sent = Len(commands) /\ Len(results) = sent - 1
      /\ \A i \in DOMAIN results : results[i].fine
  BY <1>1 DEF InStep, AllFine
<1>3. \A i \in DOMAIN results : results[i].command = commands[i]
  BY DEF ProgramInvariant, PromptedInStep
<1>4. SUFFICES ASSUME NEW i \in 1 .. Len(commands), commands[i] # "bye"
               PROVE  Program!Did(commands[i])
  BY ProgramTypes, OperationsEndWithBye
<1>5. i # Len(commands)
  BY <1>4, ProgramTypes, OperationsEndWithBye
<1>6. i \in DOMAIN results
  BY <1>2, <1>4, <1>5, ProgramTypes
<1> QED BY <1>2, <1>3, <1>6 DEF Program!Did

(* The run ends: the program is killed, and its end is told.                   *)
LEMMA ProgramEnds ==
  ASSUME ProgramInvariant, at # "done", NEW a \in {"ok", "failed"}, Program!Ends(a),
         a = "ok" => ~alive /\ phase = "connected"
  PROVE  ProgramInvariant'
<1>1. /\ at' = "done" /\ answer' \in {"cancelled", "failed", a} /\ alive' = FALSE
      /\ began' = (answer' = "failed" /\ Program!Began)
      /\ UNCHANGED <<commands, sent, window, early, saved, late, expired, token, phase, seen, typed,
                     results>>
  BY DEF Program!Ends
<1>2. Program!TypeOK'
  <2>1. {late, early, expired, token, began, alive}' \subseteq BOOLEAN
    BY <1>1, ProgramTypes
  <2>2. answer' \in {"none", "ok", "failed", "cancelled"}
    BY <1>1
  <2> QED BY <1>1, <2>1, <2>2, ProgramTypes DEF Program!TypeOK, Signs
<1>3. OnlySentIsDone'
  BY <1>1 DEF ProgramInvariant, OnlySentIsDone, Sent
<1>4. EndIsTold'
  BY <1>1 DEF EndIsTold, Program!Began, Program!Changing
<1>5. PromptedInStep'
  BY <1>1 DEF ProgramInvariant, PromptedInStep
<1>6. Program!PromptedGoesInOrder'
  <2>1. SUFFICES ASSUME ~early PROVE Program!PromptedGoesInOrder'
    BY <1>1 DEF Program!PromptedGoesInOrder
  <2>2. \A i \in DOMAIN results : i < Len(results) => results[i].fine
    BY <2>1 DEF ProgramInvariant, Program!PromptedGoesInOrder
  <2>3. a = "ok" => \A c \in Program!ToSet(commands) \ {"bye"} : Program!Did(c)
    BY <2>1, WellEndedIsDone
  <2> QED BY <1>1, <2>2, <2>3 DEF Program!PromptedGoesInOrder, Program!Did
<1> QED BY <1>1, <1>2, <1>3, <1>4, <1>5, <1>6 DEF ProgramInvariant

(* Everything that was shown is read.                                          *)
LEMMA ProgramIsRead ==
  ASSUME ProgramInvariant, at # "done", at' # "done", at' \in {"read", "decide", "writing", "wait"},
         window' = window \cup Program!ToSet(seen), seen' = <<>>,
         UNCHANGED <<commands, saved, sent, early, answer, began, late, expired, token, alive, phase,
                     typed, results>>
  PROVE  ProgramInvariant'
<1>1. seen' \in Seq(Signs) /\ Program!ToSet(seen') = {} /\ window' \subseteq Signs
  BY FewSigns, ProgramTypes
<1>2. Program!TypeOK'
  <2>1. {late, early, expired, token, began, alive}' \subseteq BOOLEAN
    BY ProgramTypes
  <2>2. at' \in {"read", "decide", "writing", "wait", "done"}
    OBVIOUS
  <2> QED BY <1>1, <2>1, <2>2, ProgramTypes DEF Program!TypeOK, Signs
<1>3. OnlySentIsDone'
  BY <1>1 DEF ProgramInvariant, OnlySentIsDone, Sent
<1>4. EndIsTold'
  BY DEF ProgramInvariant, EndIsTold
<1>5. Noticed' = Noticed
  BY <1>1 DEF Noticed
<1>6. InStep => InStep'
  BY <1>1, <1>5 DEF InStep, AllFine, Noticed
<1>7. PromptedInStep'
  BY <1>6 DEF ProgramInvariant, PromptedInStep
<1>8. Program!PromptedGoesInOrder'
  BY DEF ProgramInvariant, Program!PromptedGoesInOrder, Program!Did
<1> QED BY <1>2, <1>3, <1>4, <1>7, <1>8 DEF ProgramInvariant

(* A line is typed: an answer to a question, or the next command.               *)
LEMMA LineIsTyped ==
  ASSUME ProgramInvariant, at = "decide", NEW line \in Lines, Program!Types(line),
         UNCHANGED <<commands, answer, began, late, expired, token, alive, phase, seen, results>>,
         saved' \in 0 .. 1, early' \in BOOLEAN, early => early',
         sent' \in sent .. Len(commands),
         line \in {"yes", "secret"} \/ (sent' > 0 /\ line = commands[sent']),
         ~early' /\ (alive \/ phase = "connected") => InStep'
  PROVE  ProgramInvariant'
<1>0. /\ sent \in Nat /\ sent' \in Nat /\ Len(commands) \in Nat /\ sent <= sent'
      /\ sent' <= Len(commands) /\ typed \in Seq(Lines) /\ Len(typed) \in Nat
      /\ DOMAIN typed = 1 .. Len(typed) /\ DOMAIN results = 1 .. Len(results)
      /\ Len(results) \in Nat /\ results \in Seq([command : Lines, fine : BOOLEAN])
      /\ seen \in Seq(Signs)
  <2>1. sent \in 0 .. Len(commands) /\ Len(commands) \in 2 .. 3
    BY ProgramTypes
  <2>2. /\ typed \in Seq(Lines) /\ Len(typed) \in Nat
        /\ DOMAIN typed = 1 .. Len(typed) /\ DOMAIN results = 1 .. Len(results)
        /\ Len(results) \in Nat /\ results \in Seq([command : Lines, fine : BOOLEAN])
        /\ seen \in Seq(Signs)
    BY ProgramTypes
  <2>3. sent \in Nat /\ Len(commands) \in Nat
    BY <2>1
  <2>4. sent' \in Nat /\ sent <= sent' /\ sent' <= Len(commands)
    BY <2>3
  <2> QED BY <2>2, <2>3, <2>4
<1>1. at' = "writing" /\ typed' = Append(typed, line) /\ window' = {}
  BY DEF Program!Types
<1>2. Program!TypeOK'
  <2>1. {late, early, expired, token, began, alive}' \subseteq BOOLEAN
    BY ProgramTypes
  <2>2. sent' \in 0 .. Len(commands')
    BY <1>0
  <2> QED BY <1>1, <2>1, <2>2, ProgramTypes DEF Program!TypeOK, Signs
<1>3. Sent \subseteq Sent'
  BY <1>0 DEF Sent
<1>4. line \in Sent'
  BY <1>0 DEF Sent
<1>5. /\ typed' \in Seq(Lines) /\ DOMAIN typed' = 1 .. Len(typed) + 1
      /\ typed'[Len(typed) + 1] = line /\ \A i \in DOMAIN typed : typed'[i] = typed[i]
  BY <1>0, <1>1, AppendProperties
<1>6. \A i \in DOMAIN typed' : typed'[i] \in Sent'
  <2>1. \A i \in DOMAIN typed' : i \in DOMAIN typed \/ i = Len(typed) + 1
    BY <1>0, <1>5
  <2> QED BY <1>3, <1>4, <1>5, <2>1 DEF ProgramInvariant, OnlySentIsDone
<1>7. OnlySentIsDone'
  BY <1>3, <1>5, <1>6, <1>0 DEF ProgramInvariant, OnlySentIsDone
<1>8. EndIsTold'
  BY <1>1 DEF ProgramInvariant, EndIsTold
<1>9. PromptedInStep'
  <2>1. SUFFICES ASSUME ~early' PROVE PromptedInStep'
    BY DEF PromptedInStep
  <2>2. /\ \A i \in DOMAIN results : i <= sent /\ results[i].command = commands[i]
        /\ sent = 0 => results = <<>>
    BY <2>1 DEF ProgramInvariant, PromptedInStep
  <2>3. sent' = 0 => sent = 0
    BY <1>0
  <2>4. \A i \in DOMAIN results : i <= sent'
    BY <1>0, <2>2
  <2> QED BY <1>1, <2>1, <2>2, <2>3, <2>4 DEF PromptedInStep
<1>10. Program!PromptedGoesInOrder'
  BY DEF ProgramInvariant, Program!PromptedGoesInOrder, Program!Did
<1> QED BY <1>2, <1>7, <1>8, <1>9, <1>10 DEF ProgramInvariant

(* What is decided after reading: an answer is typed, or the run ends.         *)
LEMMA ProgramDecides ==
  ASSUME ProgramInvariant, Program!Decide
  PROVE  ProgramInvariant'
<1>1. at = "decide" /\ at # "done"
  BY DEF Program!Decide
<1>2. CASE Program!Ends("failed")
  BY <1>1, <1>2, ProgramEnds
<1>3. \/ Program!Ends("failed")
      \/ /\ "trust?" \in window /\ Program!Types("yes")
         /\ UNCHANGED <<commands, sent, early, answer, began, saved, late, expired, token,
                        alive, phase, seen, results>>
      \/ /\ "password?" \in window /\ saved # 0 /\ Program!Types("secret") /\ saved' = saved - 1
         /\ UNCHANGED <<commands, sent, early, answer, began, late, expired, token,
                        alive, phase, seen, results>>
      \/ /\ ~Program!ShowsFailure /\ sent < Len(commands) /\ Program!Ready
         /\ Program!Types(commands[sent + 1]) /\ sent' = sent + 1
         /\ early' = (early \/ (sent = 0 /\ "prompt" \notin window))
         /\ UNCHANGED <<commands, answer, began, saved, late, expired, token,
                        alive, phase, seen, results>>
      \/ /\ at' = "wait"
         /\ UNCHANGED <<commands, sent, window, early, answer, began, saved, late, expired, token,
                        alive, phase, seen, typed, results>>
  BY DEF Program!Decide, Program!program
<1>4. \/ phase \in {"connecting", "password", "trust", "connecting again", "greeting", "connected"}
      \/ ~alive /\ phase # "connected"
  BY ProgramTypes DEF ProgramInvariant
<1>5. ASSUME NEW line \in {"yes", "secret"}, NEW q \in Asked, q \in window, Program!Types(line),
             UNCHANGED <<commands, sent, early, answer, began, late, expired, token,
                         alive, phase, seen, results>>,
             saved' \in 0 .. 1
      PROVE  ProgramInvariant'
  <2>1. line \in Lines
    BY DEF Lines
  <2>2. ASSUME ~early', alive \/ phase = "connected"
        PROVE  InStep'
    <3>1. InStep /\ q \in Noticed /\ q \in window
      BY <1>1, <1>5, <2>2 DEF ProgramInvariant, PromptedInStep, Noticed
    <3>2. /\ phase \in {"password", "trust"} /\ sent = 0
          /\ Noticed \subseteq {"key changed"} \cup Asked /\ typed = <<>>
          /\ Program!ToSet(seen) \cap Asked = {}
      BY <1>4, <2>2, <3>1 DEF InStep, Asked
    <3>3. typed' = Append(<<>>, line) /\ window' = {}
      BY <1>5, <3>2 DEF Program!Types
    <3>4. Len(typed') = 1
      BY <3>3
    <3>5. Noticed' = Program!ToSet(seen)
      BY <1>5, <3>3 DEF Noticed
    <3>6. Noticed' \subseteq {"key changed"} \cup Asked /\ Noticed' \cap Asked = {}
      BY <3>2, <3>5 DEF Noticed
    <3> QED BY <1>5, <3>2, <3>4, <3>6 DEF InStep
  <2>3. sent' \in sent .. Len(commands) /\ early' \in BOOLEAN
    <3>1. sent \in 0 .. Len(commands) /\ Len(commands) \in 2 .. 3 /\ early \in BOOLEAN
      BY ProgramTypes
    <3> QED BY <1>5, <3>1
  <2> QED BY <1>1, <1>5, <2>1, <2>2, <2>3, LineIsTyped
<1>6. ASSUME ~Program!ShowsFailure, sent < Len(commands), Program!Ready,
             Program!Types(commands[sent + 1]), sent' = sent + 1,
             early' = (early \/ (sent = 0 /\ "prompt" \notin window)),
             UNCHANGED <<commands, answer, began, saved, late, expired, token,
                         alive, phase, seen, results>>
      PROVE  ProgramInvariant'
  <2>1. /\ sent \in 0 .. Len(commands) /\ Len(commands) \in 2 .. 3 /\ Len(results) \in Nat
        /\ DOMAIN results = 1 .. Len(results) /\ early \in BOOLEAN
    BY ProgramTypes
  <2>2. sent' \in sent .. Len(commands) /\ sent' \in 1 .. Len(commands) /\ sent' = sent + 1
    BY <1>6, <2>1
  <2>3. commands[sent'] \in Lines
    BY <2>2, ProgramTypes
  <2>4. ASSUME ~early', alive \/ phase = "connected"
        PROVE  InStep'
    <3>1. ~early /\ "prompt" \in window /\ ("error" \in window => sent = 0)
      <4>1. ~early /\ (sent = 0 => "prompt" \in window)
        BY <1>6, <2>4
      <4>2. "prompt" \in window \/ sent = 0
        BY <1>6 DEF Program!Ready
      <4>3. "error" \in window => ~(sent > 0)
        BY <1>6 DEF Program!ShowsFailure
      <4> QED BY <2>1, <4>1, <4>2, <4>3
    <3>2. InStep /\ (sent = 0 => results = <<>>)
      BY <1>1, <2>4, <3>1 DEF ProgramInvariant, PromptedInStep
    <3>3. "prompt" \in Noticed
      BY <3>1 DEF Noticed
    <3>4. phase = "connected"
      BY <1>4, <2>4, <3>2, <3>3 DEF InStep, Asked
    <3>5. /\ Noticed \cap Asked = {} /\ alive /\ typed = <<>> /\ Len(results) = sent
          /\ "prompt" \notin Program!ToSet(seen)
          /\ ~AllFine => "error" \in window
      BY <3>1, <3>2, <3>3, <3>4 DEF InStep
    <3>6. AllFine
      <4>1. CASE sent = 0
        BY <2>1, <3>5, <4>1 DEF AllFine
      <4>2. CASE sent # 0
        BY <3>1, <3>5, <4>2
      <4> QED BY <4>1, <4>2
    <3>7. typed' = <<commands[sent']>> /\ window' = {}
      <4>1. typed' = Append(<<>>, commands[sent'])
        BY <1>6, <3>5 DEF Program!Types
      <4> QED BY <1>6, <4>1 DEF Program!Types
    <3>8. Noticed' = Program!ToSet(seen)
      BY <1>6, <3>7 DEF Noticed
    <3>9. Noticed' \cap Asked = {} /\ "prompt" \notin Noticed'
      BY <3>5, <3>8 DEF Noticed
    <3>10. sent' > 0 /\ Len(results') = sent' - 1 /\ commands'[sent'] = commands[sent']
      BY <1>6, <2>1, <2>2, <3>5
    <3>11. AllFine' /\ alive' /\ phase' = "connected"
      BY <1>6, <3>4, <3>5, <3>6 DEF AllFine
    <3> QED BY <3>7, <3>9, <3>10, <3>11 DEF InStep
  <2>5. Program!Types(commands[sent'])
    BY <1>6, <2>2
  <2>6. early' \in BOOLEAN /\ (early => early') /\ saved' \in 0 .. 1 /\ sent' > 0
    <3>1. early \in BOOLEAN /\ saved \in 0 .. 1
      BY ProgramTypes
    <3>2. early' \in BOOLEAN /\ (early => early')
      BY <1>6, <3>1
    <3> QED BY <1>6, <2>2, <3>1, <3>2
  <2> QED BY <1>1, <1>6, <2>2, <2>3, <2>4, <2>5, <2>6, LineIsTyped
<1>7. CASE /\ at' = "wait"
           /\ UNCHANGED <<commands, sent, window, early, answer, began, saved, late, expired, token,
                          alive, phase, seen, typed, results>>
  BY <1>1, <1>7, ProgramRests, ProgramTypes
<1>8. CASE /\ "trust?" \in window /\ Program!Types("yes")
           /\ UNCHANGED <<commands, sent, early, answer, began, saved, late, expired, token,
                          alive, phase, seen, results>>
  BY <1>5, <1>8, ProgramTypes DEF Asked
<1>9. CASE /\ "password?" \in window /\ saved # 0 /\ Program!Types("secret") /\ saved' = saved - 1
           /\ UNCHANGED <<commands, sent, early, answer, began, late, expired, token,
                          alive, phase, seen, results>>
  <2>1. saved' \in 0 .. 1
    <3>1. saved \in 0 .. 1
      BY ProgramTypes
    <3> QED BY <1>9, <3>1
  <2> QED BY <1>5, <1>9, <2>1 DEF Asked
<1> QED BY <1>2, <1>3, <1>6, <1>7, <1>8, <1>9

(* The rest of a sequence.                                                     *)
LEMMA TailOf ==
  ASSUME NEW S, NEW s \in Seq(S), s # <<>>
  PROVE  /\ Tail(s) \in Seq(S) /\ Len(Tail(s)) = Len(s) - 1 /\ DOMAIN Tail(s) = 1 .. Len(s) - 1
         /\ \A i \in DOMAIN Tail(s) : i + 1 \in DOMAIN s /\ Tail(s)[i] = s[i + 1]
         /\ Len(s) = 1 => Tail(s) = <<>>
         /\ 1 \in DOMAIN s /\ Head(s) = s[1] /\ Head(s) \in S
<1>1. /\ Tail(s) \in Seq(S) /\ Len(Tail(s)) = Len(s) - 1 /\ Head(s) = s[1] /\ Head(s) \in S
      /\ \A i \in 1 .. Len(Tail(s)) : Tail(s)[i] = s[i + 1]
      /\ Len(s) \in Nat \ {0} /\ DOMAIN s = 1 .. Len(s) /\ DOMAIN Tail(s) = 1 .. Len(Tail(s))
  BY HeadTailProperties, LenProperties, EmptySeq
<1>2. Len(s) = 1 => Len(Tail(s)) = 0
  BY <1>1
<1>3. Len(Tail(s)) = 0 => Tail(s) = <<>>
  BY <1>1, EmptySeq
<1> QED BY <1>1, <1>2, <1>3

(* Nothing is between one and zero, and two numbers are between zero and one.    *)
LEMMA FewNumbers == (\A i \in 1 .. 0 : FALSE) /\ 0 \in 0 .. 1 /\ 1 \in 0 .. 1
OBVIOUS

(* Every step of a run keeps the invariant.                                    *)
LEMMA ProgramStep ==
  ASSUME ProgramInvariant, Program!Next
  PROVE  ProgramInvariant'
<1>0. /\ alive => at # "done"
      /\ alive => phase \in {"connecting", "password", "trust", "connecting again", "greeting",
                             "connected"}
      /\ alive /\ ~early => InStep
  BY ProgramTypes DEF ProgramInvariant, EndIsTold, PromptedInStep
<1>12. /\ typed \in Seq(Lines) /\ Len(typed) \in Nat /\ DOMAIN typed = 1 .. Len(typed)
       /\ results \in Seq([command : Lines, fine : BOOLEAN]) /\ Len(results) \in Nat
       /\ DOMAIN results = 1 .. Len(results)
       /\ sent \in 0 .. Len(commands) /\ Len(commands) \in 2 .. 3
  BY ProgramTypes
<1>13. \A i \in DOMAIN typed : typed[i] \in Sent
  BY DEF ProgramInvariant, OnlySentIsDone
<1>14. \A i \in DOMAIN typed : typed[i] \in Lines
  BY <1>12, ElementOfSeq
<1>1. CASE Program!Asks
  <2>1. /\ alive /\ phase = "connecting"
        /\ UNCHANGED <<commands, saved, at, sent, window, early, answer, began, late, expired, token,
                       alive, results>>
    BY <1>1 DEF Program!Asks, Program!loop
  <2>2. \/ phase' = "password" /\ seen' = seen \o <<"password?">> /\ typed' = <<>>
        \/ phase' = "trust" /\ seen' = seen \o <<"trust?">> /\ typed' = typed
        \/ phase' = "connecting" /\ seen' = seen \o <<"key changed">> /\ typed' = typed
    BY <1>1 DEF Program!Asks, Program!Shows
  <2>3. PICK x \in {"password?", "trust?", "key changed"} :
          /\ seen' = seen \o <<x>> /\ (typed' = typed \/ typed' = <<>>)
          /\ phase' = IF x = "password?" THEN "password" ELSE IF x = "trust?" THEN "trust"
                      ELSE "connecting"
    BY <2>2
  <2>4. seen' \in Seq(Signs) /\ Program!ToSet(seen') = Program!ToSet(seen) \cup {x}
    <3>1. <<x>> \in Seq(Signs) /\ Program!ToSet(<<x>>) = {x}
      BY FewSigns DEF Signs
    <3> QED BY <2>3, <3>1, SignsJoin, ProgramTypes
  <2>5. typed' \in Seq(Lines) /\ \A i \in DOMAIN typed' : typed'[i] \in Sent
    <3>1. CASE typed' = typed
      BY <1>12, <1>13, <3>1
    <3>2. CASE typed' = <<>>
      <4>1. typed' \in Seq(Lines) /\ Len(typed') = 0
        BY <3>2, EmptySeq
      <4>2. DOMAIN typed' = 1 .. 0
        BY <4>1, LenProperties
      <4>3. \A i \in DOMAIN typed' : typed'[i] \in Sent
        BY <4>2, FewNumbers, Zenon
      <4> QED BY <4>1, <4>3
    <3> QED BY <2>3, <3>1, <3>2
  <2>6. ASSUME ~early PROVE InStep'
    <3>1. typed = <<>> /\ sent = 0 /\ Noticed \subseteq {"key changed"}
      BY <1>0, <2>1, <2>6 DEF InStep
    <3>2. Noticed' = Noticed \cup {x} /\ typed' = <<>> /\ sent' = 0
      BY <2>1, <2>3, <2>4, <3>1 DEF Noticed
    <3>3. window' \cap Asked = {}
      BY <2>1, <3>1 DEF Noticed, Asked
    <3> QED BY <2>3, <3>1, <3>2, <3>3 DEF InStep, Asked
  <2> QED BY <2>1, <2>2, <2>4, <2>5, <2>6, ProgramShows
<1>2. CASE Program!Reads
  <2>1. /\ alive /\ phase \in {"password", "trust"} /\ typed # <<>> /\ typed' = Tail(typed)
        /\ phase' = "connecting again"
        /\ UNCHANGED <<commands, saved, at, sent, window, early, answer, began, late, expired, token,
                       alive, results, seen>>
    BY <1>2 DEF Program!Reads, Program!loop
  <2>2. typed' \in Seq(Lines) /\ (Len(typed) = 1 => typed' = <<>>)
        /\ \A i \in DOMAIN typed' : i + 1 \in DOMAIN typed /\ typed'[i] = typed[i + 1]
    BY <1>12, <2>1, TailOf
  <2>3. \A i \in DOMAIN typed' : typed'[i] \in Sent
    BY <2>2 DEF ProgramInvariant, OnlySentIsDone
  <2>4. ASSUME ~early PROVE InStep'
    <3>1. Len(typed) = 1 /\ sent = 0 /\ Noticed \subseteq {"key changed"}
      BY <1>0, <2>1, <2>4 DEF InStep
    <3>2. typed' = <<>>
      BY <2>2, <3>1
    <3> QED BY <2>1, <3>1, <3>2 DEF InStep, Noticed
  <2> QED BY <2>1, <2>2, <2>3, <2>4, ProgramShows, ProgramTypes
<1>3. ASSUME Program!Connects \/ Program!Prompts
      PROVE  ProgramInvariant'
  <2>1. PICK x \in {"connected", "prompt"} :
          /\ alive /\ seen' = seen \o <<x>>
          /\ IF x = "connected" THEN phase \in {"connecting", "connecting again"} /\ phase' = "greeting"
                                ELSE phase = "greeting" /\ phase' = "connected"
          /\ UNCHANGED <<commands, saved, at, sent, window, early, answer, began, late, expired, token,
                         alive, results, typed>>
    BY <1>3 DEF Program!Connects, Program!Prompts, Program!loop, Program!Shows
  <2>2. seen' \in Seq(Signs) /\ Program!ToSet(seen') = Program!ToSet(seen) \cup {x}
    <3>1. <<x>> \in Seq(Signs) /\ Program!ToSet(<<x>>) = {x}
      BY FewSigns DEF Signs
    <3> QED BY <2>1, <3>1, SignsJoin, ProgramTypes
  <2>3. typed' \in Seq(Lines) /\ \A i \in DOMAIN typed' : typed'[i] \in Sent
    BY <2>1, ProgramTypes DEF ProgramInvariant, OnlySentIsDone
  <2>4. ASSUME ~early PROVE InStep'
    <3>1. Noticed' = Noticed \cup {x}
      BY <2>1, <2>2 DEF Noticed
    <3>2. typed = <<>> /\ sent = 0 /\ results = <<>>
      BY <1>0, <2>1, <2>4 DEF InStep, ProgramInvariant, PromptedInStep
    <3>3. CASE x = "connected"
      <4>1. Noticed \subseteq {"key changed"}
        BY <1>0, <2>1, <2>4, <3>3 DEF InStep
      <4> QED BY <2>1, <3>1, <3>2, <3>3, <4>1 DEF InStep
    <3>4. CASE x = "prompt"
      <4>1. Noticed \subseteq {"key changed", "connected"}
        BY <1>0, <2>1, <2>4, <3>4 DEF InStep
      <4>2. Noticed' \cap Asked = {} /\ "prompt" \in Noticed' /\ "prompt" \notin window'
        BY <2>1, <3>1, <3>4, <4>1 DEF Asked, Noticed
      <4>3. Len(results') = sent' /\ AllFine'
        <5>1. results' = <<>> /\ sent' = 0
          BY <2>1, <3>2
        <5>2. DOMAIN results' = {} /\ Len(results') = 0
          BY <5>1
        <5> QED BY <5>1, <5>2 DEF AllFine
      <4> QED BY <2>1, <3>2, <3>4, <4>2, <4>3 DEF InStep
    <3> QED BY <3>3, <3>4
  <2> QED BY <2>1, <2>2, <2>3, <2>4, ProgramShows
<1>4. CASE Program!Executes
  <2>1. /\ alive /\ phase = "connected" /\ typed # <<>> /\ typed' = Tail(typed)
        /\ UNCHANGED <<commands, saved, at, sent, window, early, answer, began, late, expired, token,
                       phase>>
        /\ at # "done"
    BY <1>0, <1>4 DEF Program!Executes, Program!loop
  <2>2. typed' \in Seq(Lines) /\ (Len(typed) = 1 => typed' = <<>>)
        /\ \A i \in DOMAIN typed' : i + 1 \in DOMAIN typed /\ typed'[i] = typed[i + 1]
    BY <1>12, <2>1, TailOf
  <2>3. Head(typed) = typed[1] /\ Head(typed) \in Lines /\ Head(typed) \in Sent /\ Sent' = Sent
    <3>1. 1 \in DOMAIN typed
      BY <2>1, ProgramTypes, EmptySeq
    <3>2. typed[1] \in Lines /\ Head(typed) = typed[1]
      BY <1>12, <1>14, <2>1, <3>1
    <3> QED BY <2>1, <3>1, <3>2 DEF ProgramInvariant, OnlySentIsDone, Sent
  <2>4. \A i \in DOMAIN typed' : typed'[i] \in Sent'
    BY <2>2, <2>3 DEF ProgramInvariant, OnlySentIsDone
  <2>5. ~early => /\ "prompt" \notin Noticed /\ sent > 0 /\ Len(results) = sent - 1 /\ AllFine
                  /\ typed = <<commands[sent]>> /\ Noticed \cap Asked = {}
    BY <1>0, <2>1 DEF InStep
  <2>6. ~early => typed' = <<>> /\ Head(typed) = commands[sent]
    <3>1. ASSUME ~early PROVE Len(typed) = 1 /\ typed[1] = commands[sent]
      BY <2>5, <3>1
    <3> QED BY <2>2, <2>3, <3>1
  <2>7. CASE Head(typed) = "bye"
    <3>1. alive' = FALSE /\ UNCHANGED <<seen, results>>
      BY <1>4, <2>7 DEF Program!Executes
    <3>2. Program!TypeOK'
      BY <2>1, <3>1, ProgramTypes DEF Program!TypeOK, Signs
    <3>3. OnlySentIsDone'
      BY <2>2, <2>3, <2>4, <3>1 DEF ProgramInvariant, OnlySentIsDone
    <3>4. EndIsTold'
      BY <2>1 DEF ProgramInvariant, EndIsTold
    <3>5. ASSUME ~early PROVE InStep'
      <4>1. sent = Len(commands)
        <5>1. sent \in 1 .. Len(commands) /\ commands[sent] = "bye"
          BY <1>12, <2>5, <2>6, <2>7, <3>5
        <5> QED BY <5>1, ProgramTypes, OperationsEndWithBye
      <4> QED BY <2>1, <2>5, <2>6, <3>1, <3>5, <4>1 DEF InStep, Noticed, AllFine
    <3>6. PromptedInStep'
      BY <2>1, <3>1, <3>5 DEF ProgramInvariant, PromptedInStep
    <3>7. Program!PromptedGoesInOrder'
      BY <2>1, <3>1 DEF ProgramInvariant, Program!PromptedGoesInOrder, Program!Did
    <3> QED BY <3>1, <3>2, <3>3, <3>4, <3>6, <3>7 DEF ProgramInvariant
  <2>8. CASE Head(typed) # "bye"
    <3>1. PICK fine \in BOOLEAN :
            /\ results' = Append(results, [command |-> Head(typed), fine |-> fine])
            /\ seen' = seen \o (IF fine THEN <<"prompt">> ELSE <<"error", "prompt">>)
            /\ alive' = alive
      BY <1>4, <2>8 DEF Program!Executes, Program!Shows
    <3> DEFINE x == [command |-> Head(typed), fine |-> fine]
    <3>2. /\ results' \in Seq([command : Lines, fine : BOOLEAN]) /\ Len(results') = Len(results) + 1
          /\ DOMAIN results' = 1 .. Len(results) + 1 /\ results'[Len(results) + 1] = x
          /\ \A i \in DOMAIN results : results'[i] = results[i]
      <4>1. x \in [command : Lines, fine : BOOLEAN]
        BY <2>3
      <4> HIDE DEF x
      <4>2. results' = Append(results, x)
        BY <3>1 DEF x
      <4> QED BY <1>12, <4>1, <4>2, AppendProperties
    <3>3. \A i \in DOMAIN results' : i \in DOMAIN results \/ i = Len(results) + 1
      BY <1>12, <3>2
    <3>4. /\ seen' \in Seq(Signs)
          /\ Program!ToSet(seen') = Program!ToSet(seen) \cup
               (IF fine THEN {"prompt"} ELSE {"error", "prompt"})
      <4> DEFINE s == IF fine THEN <<"prompt">> ELSE <<"error", "prompt">>
      <4>1. s \in Seq(Signs) /\ Program!ToSet(s) = IF fine THEN {"prompt"} ELSE {"error", "prompt"}
        BY FewSigns DEF Signs
      <4> HIDE DEF s
      <4>2. seen' = seen \o s
        BY <3>1 DEF s
      <4> QED BY <4>1, <4>2, SignsJoin, ProgramTypes
    <3>5. Program!TypeOK'
      BY <2>1, <3>1, ProgramTypes DEF Program!TypeOK, Signs
    <3>6. OnlySentIsDone'
      <4>1. \A i \in DOMAIN results' : results'[i].command \in Sent'
        BY <2>3, <3>2, <3>3 DEF ProgramInvariant, OnlySentIsDone
      <4> QED BY <2>2, <2>4, <3>2, <3>4, <4>1 DEF OnlySentIsDone
    <3>7. EndIsTold'
      BY <2>1 DEF ProgramInvariant, EndIsTold
    <3>8. ASSUME ~early
          PROVE  /\ \A i \in DOMAIN results' : i <= sent /\ results'[i].command = commands[i]
                 /\ \A i \in DOMAIN results' : i < Len(results') => results'[i].fine
                 /\ sent > 0 /\ InStep'
      <4>1. \A i \in DOMAIN results : i <= sent /\ results[i].command = commands[i] /\ results[i].fine
        BY <2>5, <3>8 DEF ProgramInvariant, PromptedInStep, AllFine
      <4>2. Len(results) + 1 = sent /\ x.command = commands[sent] /\ x.fine = fine
        BY <1>12, <2>5, <2>6, <3>8
      <4>3. \A i \in DOMAIN results' : i <= sent /\ results'[i].command = commands[i]
        BY <1>12, <3>2, <3>3, <4>1, <4>2
      <4>4. \A i \in DOMAIN results' : i < Len(results') => results'[i].fine
        BY <1>12, <3>2, <3>3, <4>1
      <4>5. fine => AllFine'
        BY <3>2, <3>3, <4>1, <4>2 DEF AllFine
      <4>6. /\ "prompt" \in Noticed' /\ Noticed' \cap Asked = {} /\ "prompt" \notin window'
            /\ ~fine => "error" \in Program!ToSet(seen')
        BY <2>1, <2>5, <3>4, <3>8 DEF Noticed, Asked
      <4>7. alive' /\ phase' = "connected" /\ typed' = <<>> /\ Len(results') = sent'
        BY <2>1, <2>6, <3>1, <3>2, <3>8, <4>2
      <4>8. InStep'
        BY <4>5, <4>6, <4>7 DEF InStep
      <4> QED BY <2>5, <3>8, <4>3, <4>4, <4>8
    <3>9. PromptedInStep'
      BY <2>1, <3>1, <3>8 DEF PromptedInStep
    <3>10. Program!PromptedGoesInOrder'
      BY <2>1, <3>8 DEF ProgramInvariant, EndIsTold, Program!PromptedGoesInOrder
    <3> QED BY <2>1, <3>1, <3>5, <3>6, <3>7, <3>9, <3>10 DEF ProgramInvariant
  <2> QED BY <2>7, <2>8
<1>5. CASE Program!Dies
  BY <1>5, ProgramDies DEF Program!Dies, Program!loop
<1>6. CASE Program!Kill
  BY <1>6, ProgramDies DEF Program!Kill, Program!loop
<1>7. CASE Program!Read
  <2>1. CASE Program!Ends("failed")
    BY <1>7, <2>1, ProgramEnds DEF Program!Read
  <2>2. CASE ~Program!Ends("failed")
    BY <1>7, <2>2, ProgramIsRead DEF Program!Read
  <2> QED BY <2>1, <2>2
<1>8. CASE Program!Decide
  BY <1>8, ProgramDecides
<1>9. CASE Program!Wait
  <2>1. CASE alive /\ ~expired
    <3>1. /\ at = "wait" /\ at' = "read"
          /\ UNCHANGED <<commands, saved, sent, window, early, answer, began, late, expired, token,
                         alive, phase, seen, typed, results>>
      BY <1>9, <2>1 DEF Program!Wait, Program!program
    <3> QED BY <3>1, ProgramRests, ProgramTypes
  <2>2. CASE ~(alive /\ ~expired)
    <3>1. PICK a \in {"ok", "failed"} : /\ Program!Ends(a) /\ at # "done"
                                        /\ a = "ok" => ~alive /\ phase = "connected"
      BY <1>9, <2>2 DEF Program!Wait
    <3> QED BY <3>1, ProgramEnds
  <2> QED BY <2>1, <2>2
<1>10. CASE Program!Written
  BY <1>10, ProgramRests, ProgramTypes DEF Program!Written, Program!program
<1>11. CASE Program!Late \/ Program!Expire \/ Program!Cancel
  BY <1>11, ProgramRests, ProgramTypes
  DEF Program!Late, Program!Expire, Program!Cancel, Program!loop, Program!program
<1> QED BY <1>1, <1>2, <1>3, <1>4, <1>5, <1>6, <1>7, <1>8, <1>9, <1>10, <1>11
        DEF Program!Next, Program!Loop

(* A run starts with nothing typed and nothing shown.                          *)
LEMMA ProgramStarts ==
  ASSUME Program!Init
  PROVE  ProgramInvariant
<1>1. /\ commands \in Program!Operations /\ saved \in 0 .. 1
      /\ at = "read" /\ sent = 0 /\ window = {} /\ late = FALSE /\ early = FALSE
      /\ expired = FALSE /\ token = FALSE /\ answer = "none" /\ began = FALSE
      /\ alive = TRUE /\ phase = "connecting" /\ seen = <<>> /\ typed = <<>> /\ results = <<>>
  BY DEF Program!Init
<1>2. /\ seen \in Seq(Signs) /\ typed \in Seq(Lines) /\ Program!ToSet(seen) = {}
      /\ results \in Seq([command : Lines, fine : BOOLEAN])
      /\ DOMAIN typed = 1 .. 0 /\ DOMAIN results = 1 .. 0 /\ Len(results) = 0
  <2>1. /\ seen \in Seq(Signs) /\ typed \in Seq(Lines) /\ Len(typed) = 0
        /\ results \in Seq([command : Lines, fine : BOOLEAN]) /\ Len(results) = 0
    BY <1>1, EmptySeq
  <2>2. DOMAIN typed = 1 .. 0 /\ DOMAIN results = 1 .. 0
    BY <2>1, LenProperties
  <2> QED BY <1>1, <2>1, <2>2, FewSigns
<1>3. Program!TypeOK
  <2>1. 0 \in 0 .. Len(commands)
    BY <1>1, OperationsEndWithBye
  <2> QED BY <1>1, <2>1 DEF Program!TypeOK
<1>4. OnlySentIsDone /\ EndIsTold
  BY <1>1, <1>2 DEF OnlySentIsDone, EndIsTold
<1>5. InStep
  BY <1>1, <1>2 DEF InStep, Noticed
<1>6. PromptedInStep
  BY <1>1, <1>2, <1>5 DEF PromptedInStep
<1>7. Program!PromptedGoesInOrder
  BY <1>1, <1>2 DEF Program!PromptedGoesInOrder
<1> QED BY <1>1, <1>3, <1>4, <1>6, <1>7 DEF ProgramInvariant

(* A run of the program: what it has read and executed was typed, and when it    *)
(* waits at a prompt all of that is done.                                      *)
THEOREM ProgramHolds == Spec => []ProgramInvariant
<1>1. Init => ProgramInvariant
  BY ProgramStarts DEF Init
<1>2. ProgramInvariant /\ [Next]_vars => ProgramInvariant'
  <2> SUFFICES ASSUME ProgramInvariant, [Next]_vars PROVE ProgramInvariant'
    OBVIOUS
  <2>1. CASE Program!Next
    BY <2>1, ProgramStep
  <2>2. CASE UNCHANGED program
    BY <2>2, ProgramRests, ProgramTypes DEF program
  <2> QED BY <2>1, <2>2 DEF Next, vars
<1> QED BY <1>1, <1>2, PTL DEF Spec

(* ProgramRunsAreTrue: a run that failed and does not say that it had begun has   *)
(* changed no file, and commands typed at prompts go in their order, none after  *)
(* one that failed (run_sftp_launch_plan_with_progress_ref).                   *)
THEOREM ProgramRunsStayTrue == Spec => []ProgramRunsAreTrue
<1>1. ASSUME ProgramInvariant PROVE Program!UnstartedChangesNothing
  <2>1. SUFFICES ASSUME answer = "failed", ~began, NEW c \in Program!Changing,
                        NEW i \in DOMAIN results, results[i].command = c
                 PROVE  FALSE
    BY DEF Program!UnstartedChangesNothing, Program!Tried
  <2>2. at = "done" /\ ~Program!Began
    BY <1>1, <2>1 DEF ProgramInvariant, EndIsTold
  <2>3. c \in Sent
    BY <1>1, <2>1 DEF ProgramInvariant, OnlySentIsDone
  <2>4. c \notin {"yes", "secret"}
    BY DEF Program!Changing
  <2> QED BY <2>2, <2>3, <2>4 DEF Sent, Program!Began
<1>2. ProgramInvariant => ProgramRunsAreTrue
  BY <1>1 DEF ProgramInvariant, ProgramRunsAreTrue
<1> QED BY <1>2, ProgramHolds, PTL

-----------------------------------------------------------------------------
(* A folder on its way.                                                       *)

Event == [worker : Folder!Workers, pieces : Nat, failure : {"none", "failed"}]

PlaceTypes ==
  /\ way \in {"up", "down", "one up", "one down"} /\ link \in {"root", "elsewhere", "nowhere"}
  /\ main \in {"scan", "folders", "crew", "run", "done"}
  /\ folderAnswer \in {"none", "ok", "failed", "cancelled"}
  /\ stop \in BOOLEAN /\ folderToken \in BOOLEAN

CrewTypes ==
  /\ crew \in Nat \ {0} /\ next \in Nat \ {0}
  /\ worker \in [Folder!Workers -> {"none", "take", "open", "copy", "tell", "tell of the end",
                                    "failing", "send failure", "gone"}]
  /\ error \in [Folder!Workers -> {"none", "failed", "stopped"}]
  /\ file \in [Folder!Workers -> Folder!Files \cup {Folder!None}]
  /\ mine \in [Folder!Workers -> Nat]

FileTypes ==
  /\ wrote \in [Folder!Files -> Int] /\ users \in [Folder!Files -> Nat]
  /\ closed \subseteq Folder!Files

ToldTypes == channel \in Seq(Event) /\ failure \in {"none", "failed"}

FolderTypes == PlaceTypes /\ CrewTypes /\ FileTypes /\ ToldTypes

(* What the scan has found: each file once, and all of them when it is over.    *)
PlanIsWhole ==
  /\ files \in Seq(Folder!Files) /\ \A i, j \in DOMAIN files : files[i] = files[j] => i = j
  /\ main \in {"scan", "folders"} => way \in {"up", "down"}
  /\ main = "scan" =>
       \/ folders = <<>> /\ stack = <<>> /\ files = <<>>
       \/ folders = <<"root">> /\ stack = <<"root">> /\ Folder!ToSet(files) = {1, 2}
       \/ /\ folders = <<"root", "sub">>
          /\ stack \in {<<"root", "sub">>, <<"root">>, <<>>}
          /\ Folder!ToSet(files) = Folder!Files
       \/ folders = <<"root", "sub", "elsewhere">> /\ Folder!ToSet(files) = Folder!Files
  /\ main \in {"folders", "crew", "run"} /\ way \in {"up", "down"} =>
       Folder!ToSet(files) = Folder!Files
  /\ main \in {"crew", "run"} => made = Folder!ToSet(folders)

(* Nobody works before the plan is made, nor after there is an answer.          *)
WorkIsInTime ==
  /\ main \in {"scan", "folders", "crew"} => next = 1 /\ \A w \in Folder!Workers : worker[w] = "none"
  /\ main = "run" => worker[1] # "none"
  /\ main = "done" => \A w \in Folder!Workers : worker[w] \in {"none", "gone"}
  /\ main # "done" => folderAnswer = "none"

Working == {"open", "copy", "tell"}
Taken == {files[i] : i \in {j \in DOMAIN files : j < next}}

(* A file that was taken is one worker's until it is whole, unless a worker has  *)
(* failed; one that was not taken has not been touched.                       *)
FilesAreTakenOnce ==
  /\ \A w \in Folder!Workers : worker[w] \in Working =>
       /\ file[w] \in Taken /\ file[w] \notin closed
       /\ users[file[w]] = IF worker[w] = "open" THEN 0 ELSE 1
  /\ \A v, w \in Folder!Workers :
       worker[v] \in Working /\ worker[w] \in Working /\ file[v] = file[w] => v = w
  /\ \A f \in Folder!Files \ Taken : users[f] = 0 /\ f \notin closed
  /\ \A f \in Taken : \/ Folder!Whole(f)
                      \/ \E w \in Folder!Workers : worker[w] \in Working /\ file[w] = f
                      \/ \E w \in Folder!Workers : error[w] # "none"
  /\ \A w \in Folder!Workers : worker[w] = "gone" /\ error[w] = "none" => next > Len(files)

(* Who fails stops the others, and the first to do so says why.                 *)
FailuresAreTold ==
  /\ \A w \in Folder!Workers :
       /\ error[w] # "none" /\ worker[w] # "failing" => stop
       /\ way = "up" /\ error[w] = "stopped" => stop
       /\ worker[w] = "failing" => error[w] # "none"
       /\ worker[w] = "send failure" => way = "up" /\ error[w] = "failed"
  /\ way = "up" /\ stop =>
       \/ folderToken \/ failure = "failed"
       \/ \E i \in DOMAIN channel : channel[i].failure = "failed"
       \/ \E w \in Folder!Workers : worker[w] = "send failure"

FolderInvariant ==
  /\ FolderTypes /\ PlanIsWhole /\ WorkIsInTime /\ FilesAreTakenOnce /\ FailuresAreTold
  /\ shown = 100 => folderAnswer = "ok"
  /\ Folder!CompleteIsWhole /\ Folder!FirstFailureIsTold

(* The files of a directory, one after the other.                              *)
LEMMA SetInOrder ==
  ASSUME NEW S, IsFiniteSet(S)
  PROVE  /\ Folder!SetToSeq(S) \in Seq(S) /\ Folder!ToSet(Folder!SetToSeq(S)) = S
         /\ \A i, j \in DOMAIN Folder!SetToSeq(S) :
              Folder!SetToSeq(S)[i] = Folder!SetToSeq(S)[j] => i = j
<1> DEFINE n == Cardinality(S)
           s == Folder!SetToSeq(S)
<1>1. n \in Nat /\ \E f \in Bijection(1 .. n, S) : TRUE
  BY FS_CardinalityType DEF ExistsBijection
<1>2. Folder!Cardinality(S) = n
  BY DEF Folder!Cardinality, Cardinality
<1>3. \E f \in [1 .. n -> S] : Folder!IsInjective(f)
  BY <1>1 DEF Bijection, Injection, Surjection, IsInjective, Folder!IsInjective
<1>4. s \in [1 .. n -> S] /\ Folder!IsInjective(s)
  BY <1>2, <1>3 DEF Folder!SetToSeq
<1> HIDE DEF n, s
<1>5. s \in Injection(1 .. n, S) /\ \A i, j \in DOMAIN s : s[i] = s[j] => i = j
  BY <1>4 DEF Injection, IsInjective, Folder!IsInjective
<1>6. s \in Surjection(1 .. n, S)
  <2>1. IsFiniteSet(1 .. n) /\ Cardinality(1 .. n) = n
    BY <1>1, FS_Interval
  <2>2. Cardinality(1 .. n) = Cardinality(S)
    BY <2>1 DEF n
  <2> QED BY <1>5, <2>2, FS_Injection
<1>7. s \in Seq(S) /\ Folder!ToSet(s) = S
  BY <1>1, <1>6 DEF Surjection, Folder!ToSet
<1> QED BY <1>5, <1>7 DEF s

(* The files of the run, and their sizes.                                      *)
LEMMA FilesAre == Folder!Files = {1, 2, 3} /\ Folder!None = 0 /\ FileSizes \in [Folder!Files -> Int]
BY DEF Folder!Files, Folder!None, FileSizes

(* The others where a worker goes on.                                           *)
LEMMA WorkerTurns ==
  ASSUME FolderTypes, NEW w \in Folder!Workers, NEW p, worker' = [worker EXCEPT ![w] = p]
  PROVE  worker'[w] = p /\ \A v \in Folder!Workers : v # w => worker'[v] = worker[v]
BY DEF FolderTypes, CrewTypes

(* A worker goes from one place to another, none of them at a file.             *)
LEMMA IdleTurns ==
  ASSUME FolderInvariant, NEW w \in Folder!Workers, NEW p, worker' = [worker EXCEPT ![w] = p],
         worker[w] \notin Working, p \notin Working, UNCHANGED <<files, file, closed, users, wrote>>,
         \A v \in Folder!Workers : error[v] # "none" => error'[v] # "none",
         \A v \in Folder!Workers : v # w => error'[v] = error[v],
         next' = next \/ (next > Len(files) /\ next' = next + 1),
         p = "gone" => error'[w] # "none" \/ next' > Len(files)
  PROVE  FilesAreTakenOnce'
<1>1. worker'[w] = p /\ \A v \in Folder!Workers : v # w => worker'[v] = worker[v]
  BY WorkerTurns DEF FolderInvariant
<1>2. next \in Nat /\ Len(files) \in Nat /\ DOMAIN files = 1 .. Len(files)
  BY LenProperties DEF FolderInvariant, FolderTypes, PlaceTypes, CrewTypes, FileTypes, ToldTypes, PlanIsWhole
<1>3. \A j \in DOMAIN files : j < next' <=> j < next
  BY <1>2
<1>4. Taken' = Taken
  BY <1>3 DEF Taken
<1>5. \A v \in Folder!Workers : (worker'[v] \in Working <=> worker[v] \in Working)
                                /\ (worker'[v] \in Working => worker'[v] = worker[v])
  BY <1>1
<1>6. \A f : Folder!Whole(f)' <=> Folder!Whole(f)
  BY DEF Folder!Whole
<1>7. \A v \in Folder!Workers : worker'[v] \in Working =>
       /\ file'[v] \in Taken' /\ file'[v] \notin closed'
       /\ users'[file'[v]] = IF worker'[v] = "open" THEN 0 ELSE 1
  BY <1>4, <1>5 DEF FolderInvariant, FilesAreTakenOnce
<1>8. \A u, v \in Folder!Workers :
       worker'[u] \in Working /\ worker'[v] \in Working /\ file'[u] = file'[v] => u = v
  BY <1>5 DEF FolderInvariant, FilesAreTakenOnce
<1>9. \A f \in Folder!Files \ Taken' : users'[f] = 0 /\ f \notin closed'
  BY <1>4 DEF FolderInvariant, FilesAreTakenOnce
<1>10. \A f \in Taken' : \/ Folder!Whole(f)'
                         \/ \E v \in Folder!Workers : worker'[v] \in Working /\ file'[v] = f
                         \/ \E v \in Folder!Workers : error'[v] # "none"
  BY <1>4, <1>5, <1>6 DEF FolderInvariant, FilesAreTakenOnce
<1>11. \A v \in Folder!Workers : worker'[v] = "gone" /\ error'[v] = "none" => next' > Len(files')
  BY <1>1, <1>2 DEF FolderInvariant, FilesAreTakenOnce
<1> QED BY <1>7, <1>8, <1>9, <1>10, <1>11 DEF FilesAreTakenOnce

(* A worker leaves its file: it has failed, or the file is whole.               *)
LEMMA FileIsLeft ==
  ASSUME FolderInvariant, NEW w \in Folder!Workers, NEW p, worker' = [worker EXCEPT ![w] = p],
         worker[w] \in Working, p \notin Working, p # "gone", UNCHANGED <<files, file, users, wrote, next>>,
         \/ error'[w] # "none" /\ closed' = closed /\ \A v \in Folder!Workers : v # w => error'[v] = error[v]
         \/ error' = error /\ closed' = closed \cup {file[w]} /\ worker[w] # "open"
            /\ wrote[file[w]] = FileSizes[file[w]]
  PROVE  FilesAreTakenOnce'
<1>1. worker'[w] = p /\ \A v \in Folder!Workers : v # w => worker'[v] = worker[v]
  BY WorkerTurns DEF FolderInvariant
<1>2. Taken' = Taken
  BY DEF Taken
<1>3. file[w] \in Taken
  BY DEF FolderInvariant, FilesAreTakenOnce
<1>4. \A v \in Folder!Workers : worker'[v] \in Working =>
        v # w /\ worker[v] \in Working /\ worker'[v] = worker[v] /\ file[v] # file[w]
  BY <1>1 DEF FolderInvariant, FilesAreTakenOnce
<1>5. closed \subseteq closed' /\ closed' \subseteq closed \cup {file[w]}
  OBVIOUS
<1>6. \A f : Folder!Whole(f) => Folder!Whole(f)'
  BY <1>5 DEF Folder!Whole
<1>7. \A v \in Folder!Workers : worker'[v] \in Working =>
       /\ file'[v] \in Taken' /\ file'[v] \notin closed'
       /\ users'[file'[v]] = IF worker'[v] = "open" THEN 0 ELSE 1
  BY <1>2, <1>4, <1>5 DEF FolderInvariant, FilesAreTakenOnce
<1>8. \A u, v \in Folder!Workers :
       worker'[u] \in Working /\ worker'[v] \in Working /\ file'[u] = file'[v] => u = v
  BY <1>4 DEF FolderInvariant, FilesAreTakenOnce
<1>9. \A f \in Folder!Files \ Taken' : users'[f] = 0 /\ f \notin closed'
  BY <1>2, <1>3, <1>5 DEF FolderInvariant, FilesAreTakenOnce
<1>10. \A f \in Taken' : \/ Folder!Whole(f)'
                         \/ \E v \in Folder!Workers : worker'[v] \in Working /\ file'[v] = f
                         \/ \E v \in Folder!Workers : error'[v] # "none"
  <2>1. CASE error'[w] # "none"
    BY <2>1
  <2>2. CASE error'[w] = "none"
    <3>1. error' = error /\ closed' = closed \cup {file[w]} /\ worker[w] # "open"
          /\ wrote[file[w]] = FileSizes[file[w]]
      BY <2>2
    <3>2. users[file[w]] = 1
      BY <3>1 DEF FolderInvariant, FilesAreTakenOnce
    <3>3. Folder!Whole(file[w])'
      BY <3>1, <3>2 DEF Folder!Whole
    <3>4. ASSUME NEW f \in Taken', ~Folder!Whole(f)',
                 ~\E v \in Folder!Workers : error'[v] # "none"
          PROVE  \E v \in Folder!Workers : worker'[v] \in Working /\ file'[v] = f
      <4>1. PICK v \in Folder!Workers : worker[v] \in Working /\ file[v] = f
        BY <1>2, <1>6, <3>1, <3>4 DEF FolderInvariant, FilesAreTakenOnce
      <4>2. v # w
        BY <3>3, <3>4, <4>1
      <4> QED BY <1>1, <4>1, <4>2
    <3> QED BY <3>4
  <2> QED BY <2>1, <2>2
<1>11. \A v \in Folder!Workers : worker'[v] = "gone" /\ error'[v] = "none" => next' > Len(files')
  BY <1>1 DEF FolderInvariant, FilesAreTakenOnce
<1> QED BY <1>7, <1>8, <1>9, <1>10, <1>11 DEF FilesAreTakenOnce

(* A worker goes on with its file, which nobody else is at.                     *)
LEMMA FileGoesOn ==
  ASSUME FolderInvariant, NEW w \in Folder!Workers, NEW p, worker' = [worker EXCEPT ![w] = p],
         worker[w] \in Working, p \in Working, UNCHANGED <<files, file, next, error, closed>>,
         users'[file[w]] = IF p = "open" THEN 0 ELSE 1,
         \A f \in Folder!Files : f # file[w] => users'[f] = users[f] /\ wrote'[f] = wrote[f]
  PROVE  FilesAreTakenOnce'
<1>1. worker'[w] = p /\ \A v \in Folder!Workers : v # w => worker'[v] = worker[v]
  BY WorkerTurns DEF FolderInvariant
<1>2. Taken' = Taken /\ Taken \subseteq Folder!Files
  BY ElementOfSeq DEF Taken, FolderInvariant, PlanIsWhole
<1>3. file[w] \in Taken /\ file[w] \notin closed
  BY DEF FolderInvariant, FilesAreTakenOnce
<1>4. \A v \in Folder!Workers : worker'[v] \in Working /\ v # w =>
        worker[v] \in Working /\ worker'[v] = worker[v] /\ file[v] # file[w]
  BY <1>1 DEF FolderInvariant, FilesAreTakenOnce
<1>5. \A f \in Folder!Files : Folder!Whole(f) => f # file[w] /\ Folder!Whole(f)'
  BY <1>3 DEF Folder!Whole
<1>6. \A v \in Folder!Workers : worker'[v] \in Working =>
       /\ file'[v] \in Taken' /\ file'[v] \notin closed'
       /\ users'[file'[v]] = IF worker'[v] = "open" THEN 0 ELSE 1
  <2> SUFFICES ASSUME NEW v \in Folder!Workers, worker'[v] \in Working
               PROVE  /\ file[v] \in Taken /\ file[v] \notin closed
                      /\ users'[file[v]] = IF worker'[v] = "open" THEN 0 ELSE 1
    BY <1>2
  <2>1. CASE v = w
    BY <1>1, <1>3, <2>1
  <2>2. CASE v # w
    <3>1. worker[v] \in Working /\ worker'[v] = worker[v] /\ file[v] # file[w]
      BY <1>4, <2>2
    <3>2. /\ file[v] \in Taken /\ file[v] \notin closed
          /\ users[file[v]] = IF worker[v] = "open" THEN 0 ELSE 1
      BY <3>1 DEF FolderInvariant, FilesAreTakenOnce
    <3> QED BY <1>2, <3>1, <3>2
  <2> QED BY <2>1, <2>2
<1>7. \A u, v \in Folder!Workers :
       worker'[u] \in Working /\ worker'[v] \in Working /\ file'[u] = file'[v] => u = v
  <2> SUFFICES ASSUME NEW u \in Folder!Workers, NEW v \in Folder!Workers, worker'[u] \in Working,
                      worker'[v] \in Working, file[u] = file[v]
               PROVE  u = v
    OBVIOUS
  <2>1. worker[u] \in Working /\ worker[v] \in Working
    BY <1>1
  <2> QED BY <2>1 DEF FolderInvariant, FilesAreTakenOnce
<1>8. \A f \in Folder!Files \ Taken' : users'[f] = 0 /\ f \notin closed'
  BY <1>2, <1>3 DEF FolderInvariant, FilesAreTakenOnce
<1>9. \A f \in Taken' : \/ Folder!Whole(f)'
                        \/ \E v \in Folder!Workers : worker'[v] \in Working /\ file'[v] = f
                        \/ \E v \in Folder!Workers : error'[v] # "none"
  <2> SUFFICES ASSUME NEW f \in Taken, ~Folder!Whole(f), ~\E v \in Folder!Workers : error[v] # "none"
               PROVE  \E v \in Folder!Workers : worker'[v] \in Working /\ file'[v] = f
    BY <1>2, <1>5
  <2>1. PICK v \in Folder!Workers : worker[v] \in Working /\ file[v] = f
    BY DEF FolderInvariant, FilesAreTakenOnce
  <2>2. worker'[v] \in Working
    BY <1>1, <2>1
  <2> QED BY <2>1, <2>2
<1>10. \A v \in Folder!Workers : worker'[v] = "gone" /\ error'[v] = "none" => next' > Len(files')
  <2>1. "gone" \notin Working
    BY DEF Working
  <2> QED BY <1>1, <2>1 DEF FolderInvariant, FilesAreTakenOnce
<1> QED BY <1>6, <1>7, <1>8, <1>9, <1>10 DEF FilesAreTakenOnce

(* A file is taken: it was nobody's.                                           *)
LEMMA FileIsTaken ==
  ASSUME FolderInvariant, NEW w \in Folder!Workers, worker' = [worker EXCEPT ![w] = "open"],
         worker[w] \notin Working, next <= Len(files), next' = next + 1,
         file' = [file EXCEPT ![w] = files[next]], UNCHANGED <<files, closed, users, wrote, error>>
  PROVE  FilesAreTakenOnce'
<1>1. worker'[w] = "open" /\ \A v \in Folder!Workers : v # w => worker'[v] = worker[v]
  BY WorkerTurns DEF FolderInvariant
<1>2. /\ next \in Nat \ {0} /\ Len(files) \in Nat /\ DOMAIN files = 1 .. Len(files)
      /\ next \in DOMAIN files /\ files \in Seq(Folder!Files)
      /\ \A i, j \in DOMAIN files : files[i] = files[j] => i = j
  <2>1. /\ next \in Nat \ {0} /\ files \in Seq(Folder!Files)
        /\ \A i, j \in DOMAIN files : files[i] = files[j] => i = j
    BY DEF FolderInvariant, FolderTypes, PlaceTypes, CrewTypes, FileTypes, ToldTypes, PlanIsWhole
  <2>2. Len(files) \in Nat /\ DOMAIN files = 1 .. Len(files)
    BY <2>1, LenProperties
  <2>3. next \in DOMAIN files
    BY <2>1, <2>2
  <2> QED BY <2>1, <2>2, <2>3
<1> DEFINE x == files[next]
<1>3. x \in Folder!Files
  BY <1>2, ElementOfSeq
<1>4. x \notin Taken /\ Taken' = Taken \cup {x}
  <2>1. x \notin Taken
    BY <1>2 DEF Taken
  <2>2. {j \in DOMAIN files : j < next'} = {j \in DOMAIN files : j < next} \cup {next}
    BY <1>2
  <2> QED BY <2>1, <2>2 DEF Taken
<1>5. users[x] = 0 /\ x \notin closed
  BY <1>3, <1>4 DEF FolderInvariant, FilesAreTakenOnce
<1>6. file'[w] = x /\ \A v \in Folder!Workers : v # w => file'[v] = file[v]
  BY DEF FolderInvariant, FolderTypes, PlaceTypes, CrewTypes, FileTypes, ToldTypes
<1> HIDE DEF x
<1>7. \A v \in Folder!Workers : worker'[v] \in Working =>
        v = w \/ (v # w /\ worker[v] \in Working /\ worker'[v] = worker[v]
                  /\ file'[v] = file[v] /\ file[v] \in Taken)
  BY <1>1, <1>6 DEF FolderInvariant, FilesAreTakenOnce
<1>8. \A f : Folder!Whole(f)' <=> Folder!Whole(f)
  BY DEF Folder!Whole
<1>9. \A v \in Folder!Workers : worker'[v] \in Working =>
       /\ file'[v] \in Taken' /\ file'[v] \notin closed'
       /\ users'[file'[v]] = IF worker'[v] = "open" THEN 0 ELSE 1
  <2> SUFFICES ASSUME NEW v \in Folder!Workers, worker'[v] \in Working
               PROVE  /\ file'[v] \in Taken' /\ file'[v] \notin closed
                      /\ users[file'[v]] = IF worker'[v] = "open" THEN 0 ELSE 1
    OBVIOUS
  <2>1. CASE v = w
    BY <1>1, <1>4, <1>5, <1>6, <2>1
  <2>2. CASE v # w
    BY <1>4, <1>7, <2>2 DEF FolderInvariant, FilesAreTakenOnce
  <2> QED BY <2>1, <2>2
<1>10. \A u, v \in Folder!Workers :
       worker'[u] \in Working /\ worker'[v] \in Working /\ file'[u] = file'[v] => u = v
  BY <1>4, <1>6, <1>7 DEF FolderInvariant, FilesAreTakenOnce
<1>11. \A f \in Folder!Files \ Taken' : users'[f] = 0 /\ f \notin closed'
  BY <1>4 DEF FolderInvariant, FilesAreTakenOnce
<1>12. \A f \in Taken' : \/ Folder!Whole(f)'
                         \/ \E v \in Folder!Workers : worker'[v] \in Working /\ file'[v] = f
                         \/ \E v \in Folder!Workers : error'[v] # "none"
  <2> SUFFICES ASSUME NEW f \in Taken', ~Folder!Whole(f), ~\E v \in Folder!Workers : error[v] # "none"
               PROVE  \E v \in Folder!Workers : worker'[v] \in Working /\ file'[v] = f
    BY <1>8
  <2>1. CASE f = x
    BY <1>1, <1>6, <2>1 DEF Working
  <2>2. CASE f # x
    <3>1. PICK v \in Folder!Workers : worker[v] \in Working /\ file[v] = f
      BY <1>4, <2>2 DEF FolderInvariant, FilesAreTakenOnce
    <3>2. v # w
      BY <3>1
    <3> QED BY <1>1, <1>6, <3>1, <3>2
  <2> QED BY <2>1, <2>2
<1>13. \A v \in Folder!Workers : worker'[v] = "gone" /\ error'[v] = "none" => next' > Len(files')
  BY <1>1, <1>2 DEF FolderInvariant, FilesAreTakenOnce
<1> QED BY <1>9, <1>10, <1>11, <1>12, <1>13 DEF FilesAreTakenOnce

(* A sequence with one more element.                                           *)
LEMMA AppendKeeps ==
  ASSUME NEW S, NEW s \in Seq(S), NEW e \in S, NEW t, t = Append(s, e)
  PROVE  /\ t \in Seq(S) /\ Len(t) = Len(s) + 1 /\ Len(s) \in Nat
         /\ t[Len(s) + 1] = e /\ Len(s) + 1 \in DOMAIN t
         /\ \A i \in DOMAIN s : i \in DOMAIN t /\ t[i] = s[i]
         /\ \A i \in DOMAIN t : i \in DOMAIN s \/ i = Len(s) + 1
<1>1. Len(s) \in Nat /\ DOMAIN s = 1 .. Len(s)
  BY LenProperties
<1>2. /\ t \in Seq(S) /\ Len(t) = Len(s) + 1
      /\ DOMAIN t = 1 .. Len(s) + 1
  BY <1>1, AppendProperties, LenProperties
<1> QED BY <1>1, <1>2, AppendProperties

(* An event is sent: what was on its way still is.                             *)
LEMMA EventIsSent ==
  ASSUME channel \in Seq(Event), NEW e \in Event, channel' = Append(channel, e)
  PROVE  /\ channel' \in Seq(Event)
         /\ \A i \in DOMAIN channel : i \in DOMAIN channel' /\ channel'[i] = channel[i]
         /\ \A i \in DOMAIN channel' : i \in DOMAIN channel \/ channel'[i] = e
         /\ \E i \in DOMAIN channel' : channel'[i] = e
BY AppendKeeps

(* While a worker works the caller waits, and what it has planned stays.        *)
LEMMA WorkKeepsPlan ==
  ASSUME FolderInvariant, NEW w \in Folder!Workers, NEW p, worker' = [worker EXCEPT ![w] = p],
         worker[w] \notin {"none", "gone"}, p # "none",
         UNCHANGED <<way, link, main, stack, folders, files, made, failure, folderToken, folderAnswer>>,
         shown' = shown \/ shown' # 100,
         FolderTypes', FilesAreTakenOnce', FailuresAreTold'
  PROVE  FolderInvariant'
<1>1. main = "run" /\ folderAnswer = "none" /\ shown # 100 /\ worker[1] # "none"
  BY DEF FolderInvariant, FolderTypes, PlaceTypes, CrewTypes, WorkIsInTime
<1>2. worker'[w] = p /\ \A v \in Folder!Workers : v # w => worker'[v] = worker[v]
  BY WorkerTurns DEF FolderInvariant
<1>3. 1 \in Folder!Workers
  BY Bounds DEF Folder!Workers
<1>4. WorkIsInTime'
  BY <1>1, <1>2, <1>3 DEF WorkIsInTime
<1>5. PlanIsWhole'
  BY <1>1 DEF FolderInvariant, PlanIsWhole, Folder!ToSet
<1>6. shown' # 100 /\ folderAnswer' = "none"
  BY <1>1
<1>7. Folder!CompleteIsWhole' /\ Folder!FirstFailureIsTold'
  BY <1>6 DEF FolderInvariant, Folder!CompleteIsWhole, Folder!FirstFailureIsTold
<1> QED BY <1>4, <1>5, <1>6, <1>7 DEF FolderInvariant

(* Failures, where none is told and none is new.                                *)
LEMMA FailuresRest ==
  ASSUME FolderInvariant, NEW w \in Folder!Workers, NEW p, worker' = [worker EXCEPT ![w] = p],
         worker[w] # "send failure", p \notin {"failing", "send failure"},
         worker[w] = "failing" => stop,
         UNCHANGED <<error, stop, way, folderToken, failure>>,
         \A i \in DOMAIN channel : i \in DOMAIN channel' /\ channel'[i] = channel[i]
  PROVE  FailuresAreTold'
<1>1. worker'[w] = p /\ \A v \in Folder!Workers : v # w => worker'[v] = worker[v]
  BY WorkerTurns DEF FolderInvariant
<1>4. \A v \in Folder!Workers :
       /\ error'[v] # "none" /\ worker'[v] # "failing" => stop'
       /\ way' = "up" /\ error'[v] = "stopped" => stop'
       /\ worker'[v] = "failing" => error'[v] # "none"
       /\ worker'[v] = "send failure" => way' = "up" /\ error'[v] = "failed"
  <2>1. ASSUME NEW v \in Folder!Workers
        PROVE  /\ error[v] # "none" /\ worker'[v] # "failing" => stop
               /\ worker'[v] = "failing" => error[v] # "none"
               /\ worker'[v] = "send failure" => way = "up" /\ error[v] = "failed"
    <3>1. CASE v = w
      BY <1>1, <3>1 DEF FolderInvariant, FailuresAreTold
    <3>2. CASE v # w
      BY <1>1, <3>2 DEF FolderInvariant, FailuresAreTold
    <3> QED BY <3>1, <3>2
  <2> QED BY <2>1 DEF FolderInvariant, FailuresAreTold
<1>5. way' = "up" /\ stop' =>
       \/ folderToken' \/ failure' = "failed"
       \/ \E i \in DOMAIN channel' : channel'[i].failure = "failed"
       \/ \E v \in Folder!Workers : worker'[v] = "send failure"
  <2>1. ASSUME NEW v \in Folder!Workers, worker[v] = "send failure" PROVE worker'[v] = "send failure"
    BY <1>1, <2>1
  <2> QED BY <2>1 DEF FolderInvariant, FailuresAreTold
<1> QED BY <1>4, <1>5 DEF FailuresAreTold

(* Failures, where nothing is sent.                                            *)
LEMMA FailuresStay ==
  ASSUME FolderInvariant, NEW w \in Folder!Workers, NEW p, worker' = [worker EXCEPT ![w] = p],
         worker[w] \notin {"failing", "send failure"}, p \notin {"failing", "send failure"},
         UNCHANGED <<error, stop, way, folderToken, failure, channel>>
  PROVE  FailuresAreTold'
<1>1. \A i \in DOMAIN channel : i \in DOMAIN channel' /\ channel'[i] = channel[i]
  OBVIOUS
<1>2. /\ worker[w] # "send failure" /\ (worker[w] = "failing" => stop)
      /\ UNCHANGED <<error, stop, way, folderToken, failure>>
  OBVIOUS
<1> QED BY <1>1, <1>2, FailuresRest

(* A worker fails: it was told to stop, or it is about to tell the others.      *)
LEMMA FailureIsKept ==
  ASSUME FolderInvariant, NEW w \in Folder!Workers, worker' = [worker EXCEPT ![w] = "failing"],
         NEW e \in {"failed", "stopped"}, error' = [error EXCEPT ![w] = e],
         way = "up" /\ e = "stopped" => stop, worker[w] # "send failure",
         UNCHANGED <<stop, way, folderToken, failure, channel>>
  PROVE  FailuresAreTold'
<1>1. worker'[w] = "failing" /\ \A v \in Folder!Workers : v # w => worker'[v] = worker[v]
  BY WorkerTurns DEF FolderInvariant
<1>2. error'[w] = e /\ \A v \in Folder!Workers : v # w => error'[v] = error[v]
  BY DEF FolderInvariant, FolderTypes, PlaceTypes, CrewTypes, FileTypes, ToldTypes
<1>3. \A v \in Folder!Workers :
       /\ error'[v] # "none" /\ worker'[v] # "failing" => stop'
       /\ way' = "up" /\ error'[v] = "stopped" => stop'
       /\ worker'[v] = "failing" => error'[v] # "none"
       /\ worker'[v] = "send failure" => way' = "up" /\ error'[v] = "failed"
  <2> TAKE v \in Folder!Workers
  <2>1. CASE v = w
    BY <1>1, <1>2, <2>1
  <2>2. CASE v # w
    BY <1>1, <1>2, <2>2 DEF FolderInvariant, FailuresAreTold
  <2> QED BY <2>1, <2>2
<1>4. way' = "up" /\ stop' =>
       \/ folderToken' \/ failure' = "failed"
       \/ \E i \in DOMAIN channel' : channel'[i].failure = "failed"
       \/ \E v \in Folder!Workers : worker'[v] = "send failure"
  <2>1. ASSUME NEW v \in Folder!Workers, worker[v] = "send failure" PROVE worker'[v] = "send failure"
    BY <1>1, <2>1
  <2> QED BY <2>1 DEF FolderInvariant, FailuresAreTold
<1> QED BY <1>3, <1>4 DEF FailuresAreTold

(* A worker fails where it is, and its file stays as it is.                     *)
LEMMA WorkerFails ==
  ASSUME FolderInvariant, NEW w \in Folder!Workers, NEW e \in {"failed", "stopped"},
         Folder!Fails(w, e), worker[w] \in {"take"} \cup Working,
         way = "up" /\ e = "stopped" => stop,
         UNCHANGED <<way, link, main, stack, folders, files, crew, file, next, mine, made, wrote, closed,
                     users, stop, folderToken, channel, failure, shown, folderAnswer>>
  PROVE  FolderInvariant'
<1>1. worker' = [worker EXCEPT ![w] = "failing"] /\ error' = [error EXCEPT ![w] = e]
  BY DEF Folder!Fails, Folder!Go
<1>2. error'[w] = e /\ \A v \in Folder!Workers : v # w => error'[v] = error[v]
  BY <1>1 DEF FolderInvariant, FolderTypes, PlaceTypes, CrewTypes, FileTypes, ToldTypes
<1>3. FolderTypes'
  <2>1. worker' \in [Folder!Workers -> {"none", "take", "open", "copy", "tell", "tell of the end",
                                        "failing", "send failure", "gone"}]
    BY <1>1 DEF FolderInvariant, FolderTypes, PlaceTypes, CrewTypes, FileTypes, ToldTypes
  <2>2. error' \in [Folder!Workers -> {"none", "failed", "stopped"}]
    BY <1>1 DEF FolderInvariant, FolderTypes, PlaceTypes, CrewTypes, FileTypes, ToldTypes
  <2>3. CrewTypes'
    BY <2>1, <2>2 DEF FolderInvariant, FolderTypes, CrewTypes
  <2>7. PlaceTypes
    BY DEF FolderInvariant, FolderTypes
  <2>4. PlaceTypes'
    BY <2>7 DEF PlaceTypes
  <2>5. FileTypes'
    BY DEF FolderInvariant, FolderTypes, FileTypes
  <2>6. ToldTypes'
    BY DEF FolderInvariant, FolderTypes, ToldTypes
  <2> QED BY <2>3, <2>4, <2>5, <2>6 DEF FolderTypes
<1>4. "failing" \notin Working /\ "take" \notin Working
  BY DEF Working
<1>5. FilesAreTakenOnce'
  <2>1. CASE worker[w] = "take"
    <3>1. \A v \in Folder!Workers : error[v] # "none" => error'[v] # "none"
      BY <1>2
    <3> QED BY <1>1, <1>2, <1>4, <2>1, <3>1, IdleTurns
  <2>2. CASE worker[w] \in Working
    BY <1>1, <1>2, <1>4, <2>2, FileIsLeft
  <2> QED BY <2>1, <2>2
<1>6. worker[w] \notin {"none", "gone", "send failure"}
  BY DEF Working
<1>7. FailuresAreTold'
  BY <1>1, <1>6, FailureIsKept
<1> QED BY <1>1, <1>3, <1>5, <1>6, <1>7, WorkKeepsPlan

(* What stays of the types where a worker goes on.                             *)
LEMMA TypesTurn ==
  ASSUME FolderTypes, NEW w \in Folder!Workers,
         NEW p \in {"take", "open", "copy", "tell", "tell of the end", "failing", "send failure", "gone"},
         worker' = [worker EXCEPT ![w] = p],
         UNCHANGED <<way, link, main, crew, folderToken, folderAnswer, error>>,
         stop' \in BOOLEAN, next' \in Nat \ {0},
         file' \in [Folder!Workers -> Folder!Files \cup {Folder!None}],
         mine' \in [Folder!Workers -> Nat], FileTypes', ToldTypes'
  PROVE  FolderTypes'
<1>1. worker' \in [Folder!Workers -> {"none", "take", "open", "copy", "tell", "tell of the end",
                                      "failing", "send failure", "gone"}]
  BY DEF FolderTypes, CrewTypes
<1>2. CrewTypes'
  BY <1>1 DEF FolderTypes, CrewTypes
<1>3. PlaceTypes
  BY DEF FolderTypes
<1>4. PlaceTypes'
  BY <1>3 DEF PlaceTypes
<1> QED BY <1>2, <1>4 DEF FolderTypes

(* What a step of a worker can use.                                            *)
LEMMA WhatIs ==
  ASSUME FolderInvariant
  PROVE  /\ FolderTypes /\ FileTypes /\ ToldTypes /\ stop \in BOOLEAN /\ next \in Nat \ {0}
         /\ channel \in Seq(Event) /\ failure \in {"none", "failed"}
         /\ file \in [Folder!Workers -> Folder!Files \cup {Folder!None}]
         /\ mine \in [Folder!Workers -> Nat]
         /\ worker \in [Folder!Workers -> {"none", "take", "open", "copy", "tell", "tell of the end",
                                           "failing", "send failure", "gone"}]
         /\ error \in [Folder!Workers -> {"none", "failed", "stopped"}]
         /\ way \in {"up", "down", "one up", "one down"}
         /\ main \in {"scan", "folders", "crew", "run", "done"}
         /\ files \in Seq(Folder!Files)
BY DEF FolderInvariant, FolderTypes, PlaceTypes, CrewTypes, ToldTypes, PlanIsWhole

(* What is planned and what has been taken are files.                          *)
LEMMA PlannedAreFiles ==
  ASSUME FolderInvariant
  PROVE  (\A i \in DOMAIN files : files[i] \in Folder!Files) /\ Taken \subseteq Folder!Files
<1>1. files \in Seq(Folder!Files)
  BY WhatIs
<1>2. \A i \in DOMAIN files : files[i] \in Folder!Files
  BY <1>1, ElementOfSeq
<1> QED BY <1>2 DEF Taken

(* A worker takes the next file, finds none left or is stopped.                *)
LEMMA TakeStep ==
  ASSUME FolderInvariant, NEW w \in Folder!Workers, Folder!Take(w)
  PROVE  FolderInvariant'
<1>1. /\ worker[w] = "take"
      /\ UNCHANGED <<way, link, stack, folders, files, main, crew, mine, made, wrote, closed, users,
                     stop, folderToken, channel, counts, failure, shown, folderAnswer>>
  BY DEF Folder!Take, Folder!plan, Folder!other, Folder!told
<1>2. worker[w] \notin Working /\ worker[w] \notin {"none", "gone", "failing", "send failure"}
      /\ "gone" \notin Working
  BY <1>1 DEF Working
<1>3. FileTypes' /\ ToldTypes'
  BY <1>1, WhatIs DEF FileTypes, ToldTypes
<1>4. next \in Nat \ {0} /\ Len(files) \in Nat /\ DOMAIN files = 1 .. Len(files)
  BY WhatIs, LenProperties
<1>5. CASE Folder!Stopped
  <2>1. Folder!Fails(w, "stopped") /\ UNCHANGED <<file, next>>
    BY <1>5 DEF Folder!Take
  <2>2. way = "up" => stop
    BY <1>5 DEF Folder!Stopped
  <2>3. worker[w] \in {"take"} \cup Working
    BY <1>1
  <2> QED BY <1>1, <2>1, <2>2, <2>3, WorkerFails
<1>6. CASE ~Folder!Stopped /\ next > Len(files)
  <2>1. worker' = [worker EXCEPT ![w] = "gone"] /\ next' = next + 1 /\ UNCHANGED <<file, error>>
    BY <1>6 DEF Folder!Take, Folder!Go
  <2>2. FilesAreTakenOnce'
    <3>1. next' > Len(files)
      BY <1>4, <1>6, <2>1
    <3> QED BY <1>1, <1>2, <1>6, <2>1, <3>1, IdleTurns
  <2>3. FailuresAreTold'
    BY <1>1, <1>2, <2>1, FailuresStay
  <2>4. FolderTypes'
    <3>1. next' \in Nat \ {0}
      BY <1>4, <2>1
    <3> QED BY <1>1, <1>3, <2>1, <3>1, WhatIs, TypesTurn
  <2> QED BY <1>1, <1>2, <2>1, <2>2, <2>3, <2>4, WorkKeepsPlan
<1>7. CASE ~Folder!Stopped /\ ~(next > Len(files))
  <2>1. /\ worker' = [worker EXCEPT ![w] = "open"] /\ next' = next + 1 /\ UNCHANGED error
        /\ file' = [file EXCEPT ![w] = files[next]]
    BY <1>7 DEF Folder!Take, Folder!Go
  <2>2. next <= Len(files)
    BY <1>4, <1>7
  <2>3. FilesAreTakenOnce'
    BY <1>1, <1>2, <2>1, <2>2, FileIsTaken
  <2>4. FailuresAreTold'
    BY <1>1, <1>2, <2>1, FailuresStay
  <2>5. FolderTypes'
    <3>1. next' \in Nat \ {0} /\ next \in DOMAIN files
      BY <1>4, <2>1, <2>2
    <3>2. files[next] \in Folder!Files
      BY <3>1, PlannedAreFiles
    <3>3. file' \in [Folder!Workers -> Folder!Files \cup {Folder!None}]
      BY <2>1, <3>2, WhatIs
    <3> QED BY <1>1, <1>3, <2>1, <3>1, <3>3, WhatIs, TypesTurn
  <2> QED BY <1>1, <1>2, <2>1, <2>3, <2>4, <2>5, WorkKeepsPlan
<1> QED BY <1>5, <1>6, <1>7

(* A worker opens its file, which nobody has opened, or fails.                 *)
LEMMA OpenStep ==
  ASSUME FolderInvariant, NEW w \in Folder!Workers, Folder!Open(w)
  PROVE  FolderInvariant'
<1>1. /\ worker[w] = "open"
      /\ UNCHANGED <<way, link, stack, folders, files, main, crew, file, next, mine, made, closed,
                     stop, folderToken, channel, counts, failure, shown, folderAnswer>>
  BY DEF Folder!Open, Folder!plan, Folder!told
<1>2. worker[w] \in Working /\ "copy" \in Working
      /\ worker[w] \notin {"none", "gone", "failing", "send failure"}
  BY <1>1 DEF Working
<1>3. CASE \E e \in {"failed", "stopped"} : /\ Folder!Fails(w, e) /\ (e = "stopped" => Folder!Stopped)
                                            /\ UNCHANGED <<wrote, users>>
  <2>1. PICK e \in {"failed", "stopped"} : /\ Folder!Fails(w, e) /\ (e = "stopped" => Folder!Stopped)
                                           /\ UNCHANGED <<wrote, users>>
    BY <1>3
  <2>2. way = "up" /\ e = "stopped" => stop
    BY <2>1 DEF Folder!Stopped
  <2> QED BY <1>1, <1>2, <2>1, <2>2, WorkerFails
<1>4. CASE /\ worker' = [worker EXCEPT ![w] = "copy"] /\ UNCHANGED error
           /\ wrote' = [wrote EXCEPT ![file[w]] = 0]
           /\ users' = [users EXCEPT ![file[w]] = @ + 1]
  <2>1. /\ wrote \in [Folder!Files -> Int] /\ users \in [Folder!Files -> Nat]
        /\ closed \subseteq Folder!Files /\ Taken \subseteq Folder!Files
    BY WhatIs, PlannedAreFiles DEF FileTypes
  <2>2. users[file[w]] = 0 /\ file[w] \in Folder!Files
    BY <1>1, <1>2, <2>1 DEF FolderInvariant, FilesAreTakenOnce
  <2>3. /\ users'[file[w]] = 1
        /\ \A f \in Folder!Files : f # file[w] => users'[f] = users[f] /\ wrote'[f] = wrote[f]
    BY <1>4, <2>1, <2>2
  <2>4. FilesAreTakenOnce'
    <3>1. users'[file[w]] = IF "copy" = "open" THEN 0 ELSE 1
      BY <2>3
    <3> QED BY <1>1, <1>2, <1>4, <2>3, <3>1, FileGoesOn
  <2>5. FailuresAreTold'
    BY <1>1, <1>2, <1>4, FailuresStay
  <2>6. FolderTypes'
    <3>1. FileTypes'
      <4>1. wrote' \in [Folder!Files -> Int] /\ users' \in [Folder!Files -> Nat]
        BY <1>4, <2>1, <2>2
      <4> QED BY <1>1, <2>1, <4>1 DEF FileTypes
    <3>2. ToldTypes'
      BY <1>1, WhatIs DEF ToldTypes
    <3> QED BY <1>1, <1>4, <3>1, <3>2, WhatIs, TypesTurn
  <2> QED BY <1>1, <1>2, <1>4, <2>4, <2>5, <2>6, WorkKeepsPlan
<1> QED BY <1>3, <1>4 DEF Folder!Open, Folder!Go

(* A worker sends a piece, closes its file when it is whole, or fails.         *)
LEMMA CopyStep ==
  ASSUME FolderInvariant, NEW w \in Folder!Workers, Folder!Copy(w)
  PROVE  FolderInvariant'
<1>1. /\ worker[w] = "copy"
      /\ UNCHANGED <<way, link, stack, folders, files, main, crew, file, next, made, users,
                     stop, folderToken, channel, counts, failure, shown, folderAnswer>>
  BY DEF Folder!Copy, Folder!plan, Folder!told
<1>2. /\ worker[w] \in Working /\ worker[w] # "open" /\ "tell" \in Working
      /\ "tell of the end" \notin Working
      /\ worker[w] \notin {"none", "gone", "failing", "send failure"}
  BY <1>1 DEF Working
<1>3. /\ wrote \in [Folder!Files -> Int] /\ users \in [Folder!Files -> Nat]
      /\ closed \subseteq Folder!Files /\ Taken \subseteq Folder!Files
  BY WhatIs, PlannedAreFiles DEF FileTypes
<1>4. file[w] \in Folder!Files /\ users[file[w]] = 1
  BY <1>2, <1>3 DEF FolderInvariant, FilesAreTakenOnce
<1>5. ToldTypes'
  BY <1>1, WhatIs DEF ToldTypes
<1>6. CASE \E e \in {"failed", "stopped"} : /\ Folder!Fails(w, e) /\ (e = "stopped" => Folder!Stopped)
                                            /\ UNCHANGED <<wrote, mine, closed>>
  <2>1. PICK e \in {"failed", "stopped"} : /\ Folder!Fails(w, e) /\ (e = "stopped" => Folder!Stopped)
                                           /\ UNCHANGED <<wrote, mine, closed>>
    BY <1>6
  <2>2. way = "up" /\ e = "stopped" => stop
    BY <2>1 DEF Folder!Stopped
  <2> QED BY <1>1, <1>2, <2>1, <2>2, WorkerFails
<1>7. CASE /\ worker' = [worker EXCEPT ![w] = "tell"] /\ UNCHANGED <<error, closed>>
           /\ wrote' = [wrote EXCEPT ![file[w]] = @ + 1] /\ mine' = [mine EXCEPT ![w] = @ + 1]
  <2>1. \A f \in Folder!Files : f # file[w] => users'[f] = users[f] /\ wrote'[f] = wrote[f]
    BY <1>1, <1>3, <1>7
  <2>2. FilesAreTakenOnce'
    <3>1. users'[file[w]] = IF "tell" = "open" THEN 0 ELSE 1
      BY <1>1, <1>4
    <3> QED BY <1>1, <1>2, <1>7, <2>1, <3>1, FileGoesOn
  <2>3. FailuresAreTold'
    BY <1>1, <1>2, <1>7, FailuresStay
  <2>4. FolderTypes'
    <3>1. wrote' \in [Folder!Files -> Int]
      BY <1>3, <1>4, <1>7
    <3>2. FileTypes'
      BY <1>1, <1>3, <1>7, <3>1 DEF FileTypes
    <3>3. mine \in [Folder!Workers -> Nat]
      BY WhatIs
    <3>4. mine' \in [Folder!Workers -> Nat]
      BY <1>7, <3>3
    <3> QED BY <1>1, <1>5, <1>7, <3>2, <3>4, WhatIs, TypesTurn
  <2> QED BY <1>1, <1>2, <1>7, <2>2, <2>3, <2>4, WorkKeepsPlan
<1>8. CASE /\ worker' = [worker EXCEPT ![w] = "tell of the end"] /\ UNCHANGED <<error, wrote, mine>>
           /\ wrote[file[w]] = FileSizes[file[w]] /\ closed' = closed \cup {file[w]}
  <2>1. FilesAreTakenOnce'
    BY <1>1, <1>2, <1>8, FileIsLeft
  <2>2. FailuresAreTold'
    <3>1. /\ worker' = [worker EXCEPT ![w] = "tell of the end"]
          /\ worker[w] \notin {"failing", "send failure"}
          /\ "tell of the end" \notin {"failing", "send failure"}
          /\ UNCHANGED <<error, stop, way, folderToken, failure, channel>>
      BY <1>1, <1>8
    <3> QED BY <3>1, FailuresStay
  <2>3. FolderTypes'
    <3>1. FileTypes'
      BY <1>1, <1>3, <1>4, <1>8 DEF FileTypes
    <3> QED BY <1>1, <1>5, <1>8, <3>1, WhatIs, TypesTurn
  <2> QED BY <1>1, <1>2, <1>8, <2>1, <2>2, <2>3, WorkKeepsPlan
<1> QED BY <1>6, <1>7, <1>8 DEF Folder!Copy, Folder!Go

(* What is shown on the way is not the end.                                    *)
LEMMA ShownIsNotTheEnd ==
  ASSUME shown # 100, NEW n, Folder!Show(Folder!Percent(n))
  PROVE  shown' # 100
<1>1. Folder!Percent(n) # 100
  <2>1. ASSUME NEW a PROVE Folder!Least(a, 99) # 100
    BY DEF Folder!Least
  <2> QED BY <2>1 DEF Folder!Percent
<1> QED BY <1>1 DEF Folder!Show

(* Nothing is shown as the end before there is an answer.                       *)
LEMMA NotShownBefore ==
  ASSUME FolderInvariant, main # "done"
  PROVE  shown # 100 /\ folderAnswer = "none"
BY DEF FolderInvariant, WorkIsInTime

(* A worker tells of what it has sent.                                         *)
LEMMA TellStep ==
  ASSUME FolderInvariant, NEW w \in Folder!Workers, Folder!Tell(w)
  PROVE  FolderInvariant'
<1> DEFINE p == IF worker[w] = "tell" THEN "copy" ELSE "take"
<1>1. /\ worker[w] \in {"tell", "tell of the end"} /\ worker' = [worker EXCEPT ![w] = p]
      /\ UNCHANGED <<way, link, stack, folders, files, main, crew, file, next, mine, error, made,
                     wrote, closed, users, stop, folderToken, failure, folderAnswer>>
  BY DEF Folder!Tell, Folder!plan, Folder!other, Folder!Go
<1>2. /\ p \in {"copy", "take"} /\ p # "none" /\ p # "gone" /\ p \notin {"failing", "send failure"}
      /\ worker[w] \notin {"none", "gone", "failing", "send failure"}
  BY <1>1
<1> HIDE DEF p
<1>3. main # "done"
  BY <1>1 DEF FolderInvariant, WorkIsInTime
<1>4. shown' = shown \/ shown' # 100
  BY <1>3, NotShownBefore, ShownIsNotTheEnd DEF Folder!Tell
<1>5. \/ channel' = channel
      \/ channel' = Append(channel, [worker |-> w, pieces |-> mine[w], failure |-> "none"])
  BY DEF Folder!Tell
<1>6. /\ channel' \in Seq(Event)
      /\ \A i \in DOMAIN channel : i \in DOMAIN channel' /\ channel'[i] = channel[i]
  <2>1. mine[w] \in Nat
    BY WhatIs
  <2>2. [worker |-> w, pieces |-> mine[w], failure |-> "none"] \in Event
    BY <2>1 DEF Event
  <2>3. channel \in Seq(Event)
    BY WhatIs
  <2> HIDE DEF Event
  <2>4. CASE channel' = channel
    BY <2>3, <2>4
  <2>5. CASE channel' = Append(channel, [worker |-> w, pieces |-> mine[w], failure |-> "none"])
    BY <2>2, <2>3, <2>5, EventIsSent
  <2> QED BY <1>5, <2>4, <2>5
<1>7. FolderTypes'
  <2>1. FileTypes'
    BY <1>1, WhatIs DEF FileTypes
  <2>2. ToldTypes'
    BY <1>1, <1>6, WhatIs DEF ToldTypes
  <2> QED BY <1>1, <1>2, <2>1, <2>2, WhatIs, TypesTurn
<1>8. FailuresAreTold'
  <2>1. worker[w] # "send failure" /\ (worker[w] = "failing" => stop)
        /\ UNCHANGED <<error, stop, way, folderToken, failure>>
    BY <1>1
  <2> QED BY <1>1, <1>2, <1>6, <2>1, FailuresRest
<1>9. FilesAreTakenOnce'
  <2>1. CASE worker[w] = "tell"
    <3>1. worker[w] \in Working /\ p \in Working /\ p # "open"
      BY <2>1 DEF Working, p
    <3>2. users'[file[w]] = IF p = "open" THEN 0 ELSE 1
      BY <1>1, <2>1, <3>1 DEF FolderInvariant, FilesAreTakenOnce
    <3>3. \A f \in Folder!Files : f # file[w] => users'[f] = users[f] /\ wrote'[f] = wrote[f]
      BY <1>1
    <3> QED BY <1>1, <3>1, <3>2, <3>3, FileGoesOn
  <2>2. CASE worker[w] # "tell"
    <3>1. worker[w] \notin Working /\ p \notin Working
      BY <1>1, <2>2 DEF Working, p
    <3>2. /\ \A v \in Folder!Workers : error[v] # "none" => error'[v] # "none"
          /\ \A v \in Folder!Workers : v # w => error'[v] = error[v]
      BY <1>1
    <3> QED BY <1>1, <1>2, <3>1, <3>2, IdleTurns
  <2> QED BY <2>1, <2>2
<1> QED BY <1>1, <1>2, <1>4, <1>7, <1>8, <1>9, WorkKeepsPlan

(* A worker that fails stops the others; the first one is to say why.          *)
LEMMA FailStep ==
  ASSUME FolderInvariant, NEW w \in Folder!Workers, Folder!Fail(w)
  PROVE  FolderInvariant'
<1> DEFINE p == IF Folder!IsFirst /\ way = "up" THEN "send failure" ELSE "gone"
<1>1. /\ worker[w] = "failing" /\ worker' = [worker EXCEPT ![w] = p] /\ stop' = TRUE
      /\ UNCHANGED <<way, link, stack, folders, files, main, crew, file, next, mine, error, made,
                     wrote, closed, users, folderToken, channel, failure, shown, folderAnswer>>
  BY DEF Folder!Fail, Folder!plan, Folder!other, Folder!told, Folder!Go
<1>2. /\ p \in {"send failure", "gone"} /\ p # "none" /\ p # "failing"
      /\ p = "send failure" <=> ~stop /\ way = "up"
  BY DEF Folder!IsFirst
<1> HIDE DEF p
<1>3. worker'[w] = p /\ \A v \in Folder!Workers : v # w => worker'[v] = worker[v]
  BY <1>1, WorkerTurns DEF FolderInvariant
<1>4. error[w] # "none" /\ (~stop /\ way = "up" => error[w] = "failed")
  <2>1. error[w] \in {"none", "failed", "stopped"}
    BY WhatIs
  <2> QED BY <1>1, <2>1 DEF FolderInvariant, FailuresAreTold
<1>5. FailuresAreTold'
  <2>1. \A v \in Folder!Workers :
       /\ error'[v] # "none" /\ worker'[v] # "failing" => stop'
       /\ way' = "up" /\ error'[v] = "stopped" => stop'
       /\ worker'[v] = "failing" => error'[v] # "none"
       /\ worker'[v] = "send failure" => way' = "up" /\ error'[v] = "failed"
    <3> TAKE v \in Folder!Workers
    <3>1. CASE v = w
      BY <1>1, <1>2, <1>3, <1>4, <3>1
    <3>2. CASE v # w
      BY <1>1, <1>3, <3>2 DEF FolderInvariant, FailuresAreTold
    <3> QED BY <3>1, <3>2
  <2>2. way' = "up" /\ stop' =>
       \/ folderToken' \/ failure' = "failed"
       \/ \E i \in DOMAIN channel' : channel'[i].failure = "failed"
       \/ \E v \in Folder!Workers : worker'[v] = "send failure"
    <3>1. CASE ~stop /\ way = "up"
      BY <1>2, <1>3, <3>1
    <3>2. CASE stop /\ way = "up"
      <4>1. ASSUME NEW v \in Folder!Workers, worker[v] = "send failure"
            PROVE  worker'[v] = "send failure"
        BY <1>1, <1>3, <4>1
      <4> QED BY <1>1, <3>2, <4>1 DEF FolderInvariant, FailuresAreTold
    <3> QED BY <1>1, <3>1, <3>2, WhatIs
  <2> QED BY <2>1, <2>2 DEF FailuresAreTold
<1>6. FilesAreTakenOnce'
  <2>1. /\ worker[w] \notin Working /\ p \notin Working
        /\ \A v \in Folder!Workers : error[v] # "none" => error'[v] # "none"
        /\ \A v \in Folder!Workers : v # w => error'[v] = error[v]
        /\ error'[w] # "none"
    BY <1>1, <1>2, <1>4 DEF Working
  <2> QED BY <1>1, <2>1, IdleTurns
<1>7. FolderTypes'
  <2>1. FileTypes'
    BY <1>1, WhatIs DEF FileTypes
  <2>2. ToldTypes'
    BY <1>1, WhatIs DEF ToldTypes
  <2> QED BY <1>1, <1>2, <2>1, <2>2, WhatIs, TypesTurn
<1>8. worker[w] \notin {"none", "gone"}
  BY <1>1
<1> QED BY <1>1, <1>2, <1>5, <1>6, <1>7, <1>8, WorkKeepsPlan

(* The first one says why.                                                     *)
LEMMA SendFailureStep ==
  ASSUME FolderInvariant, NEW w \in Folder!Workers, Folder!SendFailure(w)
  PROVE  FolderInvariant'
<1> DEFINE e == [worker |-> w, pieces |-> 0, failure |-> error[w]]
<1>1. /\ worker[w] = "send failure" /\ worker' = [worker EXCEPT ![w] = "gone"]
      /\ channel' = Append(channel, e)
      /\ UNCHANGED <<way, link, stack, folders, files, main, crew, file, next, mine, error, made,
                     wrote, closed, users, stop, folderToken, failure, shown, folderAnswer>>
  BY DEF Folder!SendFailure, Folder!plan, Folder!other, Folder!Go
<1>2. error[w] = "failed" /\ error[w] # "none" /\ way = "up"
  BY <1>1 DEF FolderInvariant, FailuresAreTold
<1>3. e \in Event /\ e.failure = "failed"
  BY <1>2 DEF Event
<1> HIDE DEF e
<1>4. channel \in Seq(Event)
  BY WhatIs
<1>5. channel' \in Seq(Event) /\ \E i \in DOMAIN channel' : channel'[i].failure = "failed"
  <2>1. channel' \in Seq(Event) /\ \E i \in DOMAIN channel' : channel'[i] = e
    BY <1>1, <1>3, <1>4, EventIsSent
  <2> QED BY <1>3, <2>1
<1>6. worker'[w] = "gone" /\ \A v \in Folder!Workers : v # w => worker'[v] = worker[v]
  BY <1>1, WorkerTurns DEF FolderInvariant
<1>7. FailuresAreTold'
  <2>1. \A v \in Folder!Workers :
       /\ error'[v] # "none" /\ worker'[v] # "failing" => stop'
       /\ way' = "up" /\ error'[v] = "stopped" => stop'
       /\ worker'[v] = "failing" => error'[v] # "none"
       /\ worker'[v] = "send failure" => way' = "up" /\ error'[v] = "failed"
    <3> TAKE v \in Folder!Workers
    <3>1. CASE v = w
      BY <1>1, <1>2, <1>6, <3>1 DEF FolderInvariant, FailuresAreTold
    <3>2. CASE v # w
      BY <1>1, <1>6, <3>2 DEF FolderInvariant, FailuresAreTold
    <3> QED BY <3>1, <3>2
  <2> QED BY <1>5, <2>1 DEF FailuresAreTold
<1>8. FilesAreTakenOnce'
  <2>1. /\ worker[w] \notin Working /\ "gone" \notin Working
        /\ \A v \in Folder!Workers : error[v] # "none" => error'[v] # "none"
        /\ \A v \in Folder!Workers : v # w => error'[v] = error[v]
        /\ error'[w] # "none"
    BY <1>1, <1>2 DEF Working
  <2> QED BY <1>1, <2>1, IdleTurns
<1>9. FolderTypes'
  <2>1. FileTypes'
    BY <1>1, WhatIs DEF FileTypes
  <2>2. ToldTypes'
    BY <1>1, <1>5, WhatIs DEF ToldTypes
  <2> QED BY <1>1, <2>1, <2>2, WhatIs, TypesTurn
<1>10. worker[w] \notin {"none", "gone"}
  BY <1>1
<1> QED BY <1>1, <1>7, <1>8, <1>9, <1>10, WorkKeepsPlan

(* The caller hears and is heard while the others go on.                       *)
LEMMA CallerHears ==
  ASSUME FolderInvariant, main # "done",
         UNCHANGED <<way, link, main, stack, folders, files, made, crew, worker, file, next, mine, error,
                     wrote, closed, users, folderAnswer>>,
         stop' \in BOOLEAN, folderToken' \in BOOLEAN, channel' \in Seq(Event),
         failure' \in {"none", "failed"}, shown' # 100, FailuresAreTold'
  PROVE  FolderInvariant'
<1>1. folderAnswer = "none"
  BY NotShownBefore
<1>2. FolderTypes'
  <2>1. CrewTypes' /\ FileTypes'
    BY WhatIs DEF FolderTypes, CrewTypes, FileTypes
  <2>2. PlaceTypes
    BY WhatIs DEF FolderTypes
  <2>3. PlaceTypes'
    BY <2>2 DEF PlaceTypes
  <2>4. ToldTypes'
    BY DEF ToldTypes
  <2> QED BY <2>1, <2>3, <2>4 DEF FolderTypes
<1>3. PlanIsWhole'
  <2>1. PlanIsWhole
    BY DEF FolderInvariant
  <2> QED BY <2>1 DEF PlanIsWhole, Folder!ToSet
<1>4. WorkIsInTime'
  BY DEF FolderInvariant, WorkIsInTime
<1>5. FilesAreTakenOnce'
  BY DEF FolderInvariant, FilesAreTakenOnce, Taken, Folder!Whole
<1>6. Folder!CompleteIsWhole' /\ Folder!FirstFailureIsTold'
  BY <1>1 DEF Folder!CompleteIsWhole, Folder!FirstFailureIsTold
<1> QED BY <1>2, <1>3, <1>4, <1>5, <1>6 DEF FolderInvariant

(* The caller passes a cancelled task on to the workers.                       *)
LEMMA NoticeStep ==
  ASSUME FolderInvariant, Folder!Notice
  PROVE  FolderInvariant'
<1>1. /\ main = "run" /\ folderToken /\ stop' = TRUE
      /\ UNCHANGED <<way, link, main, stack, folders, files, made, crew, worker, file, next, mine, error,
                     wrote, closed, users, folderAnswer, folderToken, channel, failure, shown>>
  BY DEF Folder!Notice, Folder!plan, Folder!other, Folder!told, Folder!crewVars
<1>2. FailuresAreTold'
  BY <1>1 DEF FolderInvariant, FailuresAreTold
<1>3. folderToken' \in BOOLEAN /\ main # "done" /\ stop' \in BOOLEAN
  BY <1>1 DEF FolderInvariant, FolderTypes, PlaceTypes
<1>4. shown' # 100
  BY <1>1, <1>3, NotShownBefore
<1> QED BY <1>1, <1>2, <1>3, <1>4, WhatIs, CallerHears

(* The task is cancelled, before there is an answer.                           *)
LEMMA CancelStep ==
  ASSUME FolderInvariant, Folder!Cancel
  PROVE  FolderInvariant'
<1>1. /\ main # "done" /\ folderToken' = TRUE
      /\ UNCHANGED <<way, link, main, stack, folders, files, made, crew, worker, file, next, mine, error,
                     wrote, closed, users, folderAnswer, stop, channel, failure, shown>>
  BY DEF Folder!Cancel, Folder!plan, Folder!other, Folder!told, Folder!crewVars
<1>2. FailuresAreTold'
  BY <1>1 DEF FolderInvariant, FailuresAreTold
<1>3. shown' # 100 /\ folderToken' \in BOOLEAN
  BY <1>1, NotShownBefore
<1> QED BY <1>1, <1>2, <1>3, WhatIs, CallerHears

(* What is left in the channel was in it.                                      *)
LEMMA EventIsRead ==
  ASSUME channel \in Seq(Event), channel # <<>>, channel' = Tail(channel)
  PROVE  /\ channel' \in Seq(Event) /\ Head(channel) \in Event /\ channel[1] = Head(channel)
         /\ \A i \in DOMAIN channel : i # 1 => i - 1 \in DOMAIN channel' /\ channel'[i - 1] = channel[i]
<1>1. /\ Tail(channel) \in Seq(Event) /\ Len(Tail(channel)) = Len(channel) - 1
      /\ Head(channel) = channel[1] /\ Head(channel) \in Event
      /\ \A i \in 1 .. Len(Tail(channel)) : Tail(channel)[i] = channel[i + 1]
      /\ Len(channel) \in Nat \ {0} /\ DOMAIN channel = 1 .. Len(channel)
      /\ DOMAIN Tail(channel) = 1 .. Len(Tail(channel))
  BY HeadTailProperties, LenProperties, EmptySeq
<1>2. ASSUME NEW i \in DOMAIN channel, i # 1
      PROVE  i - 1 \in DOMAIN channel' /\ channel'[i - 1] = channel[i]
  <2>1. i - 1 \in 1 .. Len(Tail(channel)) /\ (i - 1) + 1 = i
    BY <1>1, <1>2
  <2> QED BY <1>1, <2>1
<1>3. channel' \in Seq(Event) /\ Head(channel) \in Event /\ channel[1] = Head(channel)
  BY <1>1
<1> QED BY <1>2, <1>3

(* The caller reads an event; a failure among them is kept.                    *)
LEMMA ReceiveStep ==
  ASSUME FolderInvariant, Folder!Receive
  PROVE  FolderInvariant'
<1>1. /\ main = "run" /\ channel # <<>> /\ channel' = Tail(channel)
      /\ UNCHANGED <<way, link, main, stack, folders, files, made, crew, worker, file, next, mine, error,
                     wrote, closed, users, folderAnswer, folderToken, stop>>
  BY DEF Folder!Receive, Folder!plan, Folder!other, Folder!crewVars
<1>2. \/ Head(channel).failure # "none" /\ failure' = Head(channel).failure /\ shown' = shown
      \/ /\ Head(channel).failure = "none" /\ failure' = failure
         /\ shown' = shown \/ \E c : Folder!Show(Folder!Percent(c))
  BY DEF Folder!Receive
<1>3. channel \in Seq(Event)
  BY WhatIs
<1>4. /\ channel' \in Seq(Event) /\ Head(channel) \in Event /\ channel[1] = Head(channel)
      /\ \A i \in DOMAIN channel : i # 1 => i - 1 \in DOMAIN channel' /\ channel'[i - 1] = channel[i]
  BY <1>1, <1>3, EventIsRead
<1>5. Head(channel).failure \in {"none", "failed"}
  BY <1>4 DEF Event
<1>6. shown # 100 /\ main # "done"
  BY <1>1, NotShownBefore
<1>7. shown' # 100
  BY <1>2, <1>6, ShownIsNotTheEnd
<1>8. failure' \in {"none", "failed"} /\ (failure = "failed" => failure' = "failed")
  BY <1>2, <1>5, WhatIs
<1>9. (\E i \in DOMAIN channel : channel[i].failure = "failed") =>
        failure' = "failed" \/ \E i \in DOMAIN channel' : channel'[i].failure = "failed"
  <2>1. ASSUME NEW i \in DOMAIN channel, channel[i].failure = "failed"
        PROVE  failure' = "failed" \/ \E j \in DOMAIN channel' : channel'[j].failure = "failed"
    <3>1. CASE i = 1
      <4>1. Head(channel).failure = "failed"
        BY <1>4, <2>1, <3>1
      <4> QED BY <1>2, <4>1
    <3>2. CASE i # 1
      BY <1>4, <2>1, <3>2
    <3> QED BY <3>1, <3>2
  <2> QED BY <2>1
<1>10. FailuresAreTold'
  BY <1>1, <1>8, <1>9 DEF FolderInvariant, FailuresAreTold
<1>11. stop' \in BOOLEAN /\ folderToken' \in BOOLEAN
  BY <1>1 DEF FolderInvariant, FolderTypes, PlaceTypes
<1> QED BY <1>1, <1>4, <1>6, <1>7, <1>8, <1>10, <1>11, CallerHears

(* When nobody works any more and nobody has failed, every file is whole.        *)
LEMMA AllIsWhole ==
  ASSUME FolderInvariant, main = "run", Folder!AllGone, \A w \in Folder!Workers : error[w] = "none"
  PROVE  \A f \in Folder!ToSet(files) : Folder!Whole(f)
<1>1. 1 \in Folder!Workers /\ \A w \in Folder!Workers : worker[w] \in {"none", "gone"}
  BY Bounds DEF Folder!Workers, Folder!AllGone, Folder!Gone
<1>2. worker[1] = "gone"
  BY <1>1 DEF FolderInvariant, WorkIsInTime
<1>3. next > Len(files)
  BY <1>1, <1>2 DEF FolderInvariant, FilesAreTakenOnce
<1>4. DOMAIN files = 1 .. Len(files) /\ Len(files) \in Nat /\ next \in Nat
  BY WhatIs, LenProperties
<1>5. Folder!ToSet(files) \subseteq Taken
  <2>1. \A j \in DOMAIN files : j < next
    BY <1>3, <1>4
  <2> QED BY <2>1 DEF Folder!ToSet, Taken
<1>6. \A w \in Folder!Workers : worker[w] \notin Working
  BY <1>1 DEF Working
<1>7. \A f \in Taken : Folder!Whole(f)
  BY <1>6 DEF FolderInvariant, FilesAreTakenOnce
<1> QED BY <1>5, <1>7

(* The caller answers: it is well only where every file is whole.              *)
LEMMA FinishStep ==
  ASSUME FolderInvariant, Folder!Finish
  PROVE  FolderInvariant'
<1> DEFINE f == IF way = "up" THEN failure
                ELSE IF \E w \in Folder!Workers : error[w] # "none" THEN "failed" ELSE "none"
<1>1. /\ main = "run" /\ Folder!AllGone /\ main' = "done"
      /\ folderAnswer' = IF folderToken THEN "cancelled" ELSE IF f = "none" THEN "ok" ELSE "failed"
      /\ IF f = "none" /\ ~folderToken THEN Folder!Show(100) ELSE UNCHANGED shown
      /\ UNCHANGED <<way, link, stack, folders, files, made, crew, worker, file, next, mine, error,
                     wrote, closed, users, stop, folderToken, channel, failure>>
  BY DEF Folder!Finish, Folder!Answer, Folder!plan, Folder!other, Folder!crewVars
<1>2. shown # 100
  BY <1>1, NotShownBefore
<1>3. /\ folderAnswer' = "ok" => f = "none" /\ ~folderToken
      /\ shown' = 100 => folderAnswer' = "ok"
      /\ folderAnswer' = "cancelled" => folderToken
  BY <1>1, <1>2
<1>4. channel = <<>> /\ \A w \in Folder!Workers : worker[w] \in {"none", "gone"}
  BY <1>1 DEF Folder!AllGone, Folder!Gone
<1>5. f = "none" /\ ~folderToken => \A w \in Folder!Workers : error[w] = "none"
  <2>1. CASE way = "up"
    <3>1. \A i \in DOMAIN channel : FALSE
      BY <1>4
    <3>2. \A w \in Folder!Workers : worker[w] \notin {"failing", "send failure"}
      BY <1>4
    <3>3. failure = "none" /\ ~folderToken => ~stop
      BY <2>1, <3>1, <3>2 DEF FolderInvariant, FailuresAreTold
    <3>4. \A w \in Folder!Workers : error[w] # "none" => stop
      BY <3>2 DEF FolderInvariant, FailuresAreTold
    <3> QED BY <2>1, <3>3, <3>4
  <2>2. CASE way # "up"
    BY <2>2
  <2> QED BY <2>1, <2>2
<1> HIDE DEF f
<1>6. Folder!CompleteIsWhole'
  <2>1. ASSUME folderAnswer' = "ok"
        PROVE  /\ \A x \in Folder!ToSet(files) : Folder!Whole(x)
               /\ way \in {"up", "down"} => Folder!ToSet(files) = Folder!Files
               /\ \A w \in Folder!Workers : worker[w] \in {"none", "gone"}
               /\ made = Folder!ToSet(folders)
    <3>1. \A x \in Folder!ToSet(files) : Folder!Whole(x)
      BY <1>1, <1>3, <1>5, <2>1, AllIsWhole
    <3>2. /\ way \in {"up", "down"} => Folder!ToSet(files) = Folder!Files
          /\ made = Folder!ToSet(folders)
      BY <1>1 DEF FolderInvariant, PlanIsWhole
    <3> QED BY <1>4, <3>1, <3>2
  <2> QED BY <1>1, <1>3, <2>1 DEF Folder!CompleteIsWhole, Folder!ToSet, Folder!Whole
<1>7. Folder!FirstFailureIsTold'
  BY <1>1, <1>3 DEF FolderInvariant, Folder!FirstFailureIsTold
<1>8. FolderTypes'
  <2>1. CrewTypes' /\ FileTypes' /\ ToldTypes'
    BY <1>1, WhatIs DEF FolderTypes, CrewTypes, FileTypes, ToldTypes
  <2>2. PlaceTypes
    BY WhatIs DEF FolderTypes
  <2>3. main' \in {"scan", "folders", "crew", "run", "done"}
        /\ folderAnswer' \in {"none", "ok", "failed", "cancelled"}
    BY <1>1
  <2>4. PlaceTypes'
    BY <1>1, <2>2, <2>3 DEF PlaceTypes
  <2> QED BY <2>1, <2>4 DEF FolderTypes
<1>9. PlanIsWhole'
  BY <1>1 DEF FolderInvariant, PlanIsWhole, Folder!ToSet
<1>10. WorkIsInTime'
  BY <1>1, <1>4 DEF FolderInvariant, WorkIsInTime
<1>11. FilesAreTakenOnce'
  BY <1>1 DEF FolderInvariant, FilesAreTakenOnce, Taken, Folder!Whole
<1>12. FailuresAreTold'
  BY <1>1 DEF FolderInvariant, FailuresAreTold
<1> QED BY <1>3, <1>6, <1>7, <1>8, <1>9, <1>10, <1>11, <1>12 DEF FolderInvariant

(* Before the work begins nothing has been taken.                              *)
LEMMA NothingIsTaken ==
  ASSUME FolderInvariant, main \in {"scan", "folders", "crew"}, NEW s \in Seq(Folder!Files)
  PROVE  next = 1 /\ {s[i] : i \in {j \in DOMAIN s : j < next}} = {}
<1>1. next = 1
  BY DEF FolderInvariant, WorkIsInTime
<1>2. DOMAIN s = 1 .. Len(s) /\ Len(s) \in Nat
  BY LenProperties
<1>3. \A j \in DOMAIN s : ~(j < next)
  BY <1>1, <1>2
<1> QED BY <1>1, <1>3

(* Before the work begins only the plan grows, or the caller fails.             *)
LEMMA BeforeWork ==
  ASSUME FolderInvariant, main \in {"scan", "folders", "crew"},
         UNCHANGED <<way, link, worker, file, next, mine, error, wrote, closed, users, stop,
                     folderToken, channel, failure, shown>>,
         crew' \in Nat \ {0}, main' \in {"scan", "folders", "crew", "done"},
         IF main' = "done" THEN folderAnswer' \in {"failed", "cancelled"} ELSE folderAnswer' = folderAnswer,
         folderAnswer' = "cancelled" => folderToken, PlanIsWhole'
  PROVE  FolderInvariant'
<1>1. shown # 100 /\ folderAnswer = "none"
  BY NotShownBefore
<1>2. FolderTypes'
  <2>1. CrewTypes' /\ FileTypes' /\ ToldTypes'
    BY WhatIs DEF FolderTypes, CrewTypes, FileTypes, ToldTypes
  <2>2. PlaceTypes
    BY WhatIs DEF FolderTypes
  <2>3. /\ main' \in {"scan", "folders", "crew", "run", "done"}
        /\ folderAnswer' \in {"none", "ok", "failed", "cancelled"}
    BY <1>1
  <2>4. PlaceTypes'
    BY <2>2, <2>3 DEF PlaceTypes
  <2> QED BY <2>1, <2>4 DEF FolderTypes
<1>3. next = 1 /\ \A w \in Folder!Workers : worker[w] = "none"
  BY DEF FolderInvariant, WorkIsInTime
<1>4. WorkIsInTime'
  BY <1>1, <1>3 DEF WorkIsInTime
<1>5. files' \in Seq(Folder!Files)
  BY DEF PlanIsWhole
<1>6. Taken = {} /\ Taken' = {}
  <2>1. Taken = {}
    BY NothingIsTaken, WhatIs DEF Taken
  <2>2. next' = 1
    BY <1>3
  <2>3. {files'[i] : i \in {j \in DOMAIN files' : j < next}} = {}
    BY <1>5, NothingIsTaken
  <2> QED BY <2>1, <2>3 DEF Taken
<1>7. FilesAreTakenOnce'
  <2>1. \A w \in Folder!Workers : worker'[w] \notin Working /\ worker'[w] # "gone"
    BY <1>3 DEF Working
  <2>2. \A f \in Folder!Files \ Taken' : users'[f] = 0 /\ f \notin closed'
    BY <1>6 DEF FolderInvariant, FilesAreTakenOnce
  <2> QED BY <1>6, <2>1, <2>2 DEF FilesAreTakenOnce
<1>8. FailuresAreTold'
  BY DEF FolderInvariant, FailuresAreTold
<1>9. shown' # 100 /\ folderAnswer' # "ok"
  BY <1>1
<1>10. Folder!CompleteIsWhole'
  BY <1>9 DEF Folder!CompleteIsWhole
<1>11. Folder!FirstFailureIsTold'
  BY <1>1 DEF FolderInvariant, Folder!FirstFailureIsTold
<1> QED BY <1>2, <1>4, <1>7, <1>8, <1>9, <1>10, <1>11 DEF FolderInvariant

(* The caller gives up before the work has begun.                              *)
LEMMA CallerFails ==
  ASSUME FolderInvariant, main \in {"scan", "folders", "crew"}, Folder!Answer("failed"),
         UNCHANGED <<way, link, stack, folders, files, crew, worker, file, next, mine, error,
                     wrote, closed, users, made, stop, folderToken, channel, failure, shown>>
  PROVE  FolderInvariant'
<1>1. main' = "done" /\ folderAnswer' = IF folderToken THEN "cancelled" ELSE "failed"
  BY DEF Folder!Answer
<1>2. PlanIsWhole'
  <2>1. /\ files \in Seq(Folder!Files) /\ \A i, j \in DOMAIN files : files[i] = files[j] => i = j
    BY DEF FolderInvariant, PlanIsWhole
  <2> QED BY <1>1, <2>1 DEF PlanIsWhole
<1>3. crew' \in Nat \ {0}
  BY DEF FolderInvariant, FolderTypes, CrewTypes
<1> QED BY <1>1, <1>2, <1>3, BeforeWork

(* Files join those that are planned.                                          *)
LEMMA FilesJoin ==
  ASSUME FolderInvariant, NEW S \in SUBSET Folder!Files, S \cap Folder!ToSet(files) = {},
         files' = files \o Folder!SetToSeq(S)
  PROVE  /\ files' \in Seq(Folder!Files) /\ \A i, j \in DOMAIN files' : files'[i] = files'[j] => i = j
         /\ Folder!ToSet(files') = Folder!ToSet(files) \cup S
<1> DEFINE t == Folder!SetToSeq(S)
<1>1. IsFiniteSet(S)
  <2>1. IsFiniteSet(Folder!Files)
    BY FilesAre, FS_Interval DEF Folder!Files
  <2> QED BY <2>1, FS_Subset
<1>2. /\ t \in Seq(S) /\ Folder!ToSet(t) = S
      /\ \A i, j \in DOMAIN t : t[i] = t[j] => i = j
  BY <1>1, SetInOrder
<1> HIDE DEF t
<1>3. t \in Seq(Folder!Files)
  BY <1>2, SeqDef
<1>4. /\ files \in Seq(Folder!Files) /\ \A i, j \in DOMAIN files : files[i] = files[j] => i = j
  BY DEF FolderInvariant, PlanIsWhole
<1>5. files' = files \o t
  BY DEF t
<1>6. /\ files' \in Seq(Folder!Files) /\ Len(files') = Len(files) + Len(t)
      /\ Len(files) \in Nat /\ Len(t) \in Nat
      /\ DOMAIN files = 1 .. Len(files) /\ DOMAIN t = 1 .. Len(t) /\ DOMAIN files' = 1 .. Len(files')
      /\ \A i \in 1 .. Len(files') :
           files'[i] = IF i <= Len(files) THEN files[i] ELSE t[i - Len(files)]
  BY <1>3, <1>4, <1>5, ConcatProperties, LenProperties
<1>7. \A i \in DOMAIN files' : \/ i \in DOMAIN files /\ files'[i] = files[i]
                               \/ i - Len(files) \in DOMAIN t /\ files'[i] = t[i - Len(files)]
  BY <1>6
<1>8. /\ \A i \in DOMAIN files : files[i] \in Folder!ToSet(files)
      /\ \A i \in DOMAIN t : t[i] \in S
  BY <1>2 DEF Folder!ToSet
<1>9. ASSUME NEW i \in DOMAIN files', NEW j \in DOMAIN files', files'[i] = files'[j]
      PROVE  i = j
  <2>1. CASE i \in DOMAIN files /\ files'[i] = files[i]
    <3>1. files'[j] \notin S
      BY <1>8, <1>9, <2>1
    <3>2. j \in DOMAIN files /\ files'[j] = files[j]
      BY <1>7, <1>8, <3>1
    <3> QED BY <1>4, <1>9, <2>1, <3>2
  <2>2. CASE i - Len(files) \in DOMAIN t /\ files'[i] = t[i - Len(files)]
    <3>1. files'[j] \in S
      BY <1>8, <1>9, <2>2
    <3>2. j - Len(files) \in DOMAIN t /\ files'[j] = t[j - Len(files)]
      BY <1>7, <1>8, <3>1
    <3>3. i - Len(files) = j - Len(files)
      BY <1>2, <1>9, <2>2, <3>2
    <3> QED BY <1>6, <3>3
  <2> QED BY <1>7, <2>1, <2>2
<1>10. /\ \A i \in DOMAIN files : i \in DOMAIN files' /\ files'[i] = files[i]
       /\ \A i \in DOMAIN t : i + Len(files) \in DOMAIN files' /\ files'[i + Len(files)] = t[i]
  BY <1>6
<1>11. Folder!ToSet(files') = Folder!ToSet(files) \cup S
  <2>1. Folder!ToSet(files') \subseteq Folder!ToSet(files) \cup S
    BY <1>7, <1>8 DEF Folder!ToSet
  <2>2. Folder!ToSet(files) \subseteq Folder!ToSet(files')
    BY <1>10 DEF Folder!ToSet
  <2>3. \A x \in S : \E i \in DOMAIN t : t[i] = x
    BY <1>2 DEF Folder!ToSet
  <2>4. S \subseteq Folder!ToSet(files')
    BY <1>10, <2>3 DEF Folder!ToSet
  <2> QED BY <2>1, <2>2, <2>4
<1> QED BY <1>6, <1>9, <1>11

(* The folder: its own files are the first two, and the third is in the folder   *)
(* in it.                                                                    *)
LEMMA WhatIsHeld ==
  /\ Folder!Held(Folder!Root) = {1, 2} /\ Folder!Held(Folder!Sub) = {3}
  /\ Folder!Root = "root" /\ Folder!Sub = "sub" /\ Folder!Files = {1, 2, 3}
  /\ Folder!ToSet(<<>>) = {}
<1>1. Len(FileSizes) = 3
  BY DEF FileSizes
<1>2. /\ Folder!Root = "root" /\ Folder!Sub = "sub" /\ Folder!Files = {1, 2, 3}
      /\ Folder!ToSet(<<>>) = {}
  BY FilesAre DEF Folder!Root, Folder!Sub, Folder!ToSet
<1> QED BY <1>1, <1>2 DEF Folder!Held

(* A plan of more than one folder has got past the first.                      *)
LEMMA TwoFolders == ~(Len(<<>>) > 1) /\ ~(Len(<<"root">>) > 1)
OBVIOUS

(* The folders the scan is in, as they are entered and left.                    *)
LEMMA InAndOut ==
  /\ Append(<<"root">>, "sub") = <<"root", "sub">>
  /\ Append(<<"root", "sub">>, "elsewhere") = <<"root", "sub", "elsewhere">>
  /\ Folder!Front(<<"root", "sub">>) = <<"root">> /\ Folder!Front(<<"root">>) = <<>>
<1> DEFINE S == {"root", "sub", "elsewhere"}
<1>1. /\ <<"root">> \in Seq(S) /\ <<"root", "sub">> \in Seq(S)
      /\ <<"root", "sub", "elsewhere">> \in Seq(S) /\ <<>> \in Seq(S)
  OBVIOUS
<1>2. /\ Len(<<"root">>) = 1 /\ Len(<<"root", "sub">>) = 2 /\ Len(<<"root", "sub", "elsewhere">>) = 3
      /\ Len(<<>>) = 0 /\ "root" \in S /\ "sub" \in S /\ "elsewhere" \in S
  OBVIOUS
<1> HIDE DEF S
<1>3. Append(<<"root">>, "sub") = <<"root", "sub">>
  <2> DEFINE a == Append(<<"root">>, "sub")
  <2>1. a \in Seq(S) /\ Len(a) = 2 /\ a[1] = "root" /\ a[2] = "sub"
    BY <1>1, <1>2, AppendProperties
  <2> HIDE DEF a
  <2>2. a = <<"root", "sub">>
    BY <1>1, <1>2, <2>1, SeqEqual
  <2> QED BY <2>2 DEF a
<1>4. Append(<<"root", "sub">>, "elsewhere") = <<"root", "sub", "elsewhere">>
  <2> DEFINE a == Append(<<"root", "sub">>, "elsewhere")
  <2>1. a \in Seq(S) /\ Len(a) = 3 /\ a[1] = "root" /\ a[2] = "sub" /\ a[3] = "elsewhere"
    BY <1>1, <1>2, AppendProperties
  <2> HIDE DEF a
  <2>2. a = <<"root", "sub", "elsewhere">>
    BY <1>1, <1>2, <2>1, SeqEqual
  <2> QED BY <2>2 DEF a
<1>5. SubSeq(<<"root", "sub">>, 1, 1) = <<"root">>
  <2> DEFINE a == SubSeq(<<"root", "sub">>, 1, 1)
  <2>1. a \in Seq(S) /\ Len(a) = 1 /\ a[1] = "root"
    BY <1>1, <1>2, SubSeqProperties
  <2> HIDE DEF a
  <2>2. a = <<"root">>
    BY <1>1, <1>2, <2>1, SeqEqual
  <2> QED BY <2>2 DEF a
<1>6. SubSeq(<<"root">>, 1, 0) = <<>>
  BY SubSeqEmpty
<1>7. Len(<<"root", "sub">>) - 1 = 1 /\ Len(<<"root">>) - 1 = 0
  BY <1>2
<1> QED BY <1>3, <1>4, <1>5, <1>6, <1>7 DEF Folder!Front

(* The scan enters a folder, leaves one, is over or fails.                     *)
LEMMA ScanStep ==
  ASSUME FolderInvariant, Folder!Scan
  PROVE  FolderInvariant'
<1>1. /\ main = "scan"
      /\ UNCHANGED <<way, link, crew, worker, file, next, mine, error, wrote, closed, users, made, stop,
                     folderToken, channel, failure, shown>>
  BY DEF Folder!Scan, Folder!plan, Folder!other, Folder!told, Folder!crewVars
<1>2. crew' \in Nat \ {0}
  <2>1. crew \in Nat \ {0}
    BY DEF FolderInvariant, FolderTypes, CrewTypes
  <2> QED BY <1>1, <2>1
<1>3. /\ way \in {"up", "down"} /\ way' = way
      /\ \/ folders = <<>> /\ stack = <<>> /\ files = <<>>
         \/ folders = <<"root">> /\ stack = <<"root">> /\ Folder!ToSet(files) = {1, 2}
         \/ /\ folders = <<"root", "sub">>
            /\ stack \in {<<"root", "sub">>, <<"root">>, <<>>}
            /\ Folder!ToSet(files) = Folder!Files
         \/ folders = <<"root", "sub", "elsewhere">> /\ Folder!ToSet(files) = Folder!Files
      /\ files \in Seq(Folder!Files) /\ \A i, j \in DOMAIN files : files[i] = files[j] => i = j
  BY <1>1 DEF FolderInvariant, PlanIsWhole
<1>4. CASE Folder!Answer("failed") /\ UNCHANGED Folder!plan
  BY <1>1, <1>4, CallerFails DEF Folder!plan
<1>5. CASE folders = <<>> /\ Folder!Enter(Folder!Root) /\ UNCHANGED <<main, folderAnswer>>
  <2>1. /\ stack' = <<"root">> /\ folders' = <<"root">> /\ Folder!ToSet(files) = {}
        /\ files' = files \o Folder!SetToSeq({1, 2})
    BY <1>3, <1>5, WhatIsHeld DEF Folder!Enter
  <2>2. /\ files' \in Seq(Folder!Files) /\ \A i, j \in DOMAIN files' : files'[i] = files'[j] => i = j
        /\ Folder!ToSet(files') = {1, 2}
    <3>1. {1, 2} \in SUBSET Folder!Files /\ {1, 2} \cap Folder!ToSet(files) = {}
      BY <2>1, WhatIsHeld
    <3> QED BY <2>1, <3>1, FilesJoin
  <2>3. PlanIsWhole'
    BY <1>1, <1>3, <1>5, <2>1, <2>2 DEF PlanIsWhole, Folder!ToSet
  <2> QED BY <1>1, <1>2, <1>5, <2>3, BeforeWork, NotShownBefore
<1>6. CASE folders = <<Folder!Root>> /\ Folder!Enter(Folder!Sub) /\ UNCHANGED <<main, folderAnswer>>
  <2>1. folders = <<"root">> /\ stack = <<"root">> /\ Folder!ToSet(files) = {1, 2}
    BY <1>3, <1>6, WhatIsHeld
  <2>2. /\ stack' = <<"root", "sub">> /\ folders' = <<"root", "sub">>
        /\ files' = files \o Folder!SetToSeq({3})
    <3>1. Folder!Enter("sub") /\ Folder!Held("sub") = {3}
      BY <1>6, WhatIsHeld
    <3> QED BY <2>1, <3>1, InAndOut DEF Folder!Enter
  <2>3. /\ files' \in Seq(Folder!Files) /\ \A i, j \in DOMAIN files' : files'[i] = files'[j] => i = j
        /\ Folder!ToSet(files') = Folder!Files
    <3>1. {3} \in SUBSET Folder!Files /\ {3} \cap Folder!ToSet(files) = {}
      BY <2>1, WhatIsHeld
    <3>2. {1, 2} \cup {3} = Folder!Files
      BY WhatIsHeld
    <3> QED BY <2>1, <2>2, <3>1, <3>2, FilesJoin
  <2>4. PlanIsWhole'
    BY <1>1, <1>3, <1>6, <2>2, <2>3 DEF PlanIsWhole, Folder!ToSet
  <2> QED BY <1>1, <1>2, <1>6, <2>4, BeforeWork, NotShownBefore
<1>7. CASE /\ Len(folders) = 2 /\ Folder!In(stack, Folder!Sub) /\ Folder!Follows
           /\ ~Folder!In(stack, link) /\ Folder!Enter(link) /\ UNCHANGED <<main, folderAnswer>>
  <2>1. folders = <<"root", "sub">> /\ Folder!ToSet(files) = Folder!Files
    BY <1>3, <1>7
  <2>2. stack = <<"root", "sub">>
    BY <1>3, <1>7, <2>1, WhatIsHeld DEF Folder!In
  <2>3. link = "elsewhere"
    <3>1. link \in {"root", "elsewhere", "nowhere"}
      BY DEF FolderInvariant, FolderTypes, PlaceTypes
    <3>2. Folder!In(stack, "root")
      BY <2>2 DEF Folder!In
    <3> QED BY <1>7, <3>1, <3>2 DEF Folder!Follows
  <2>4. /\ folders' = <<"root", "sub", "elsewhere">> /\ files' = files \o Folder!SetToSeq({})
    <3>1. Folder!Enter("elsewhere")
      BY <1>7, <2>3
    <3> QED BY <2>1, <3>1, InAndOut DEF Folder!Enter
  <2>5. /\ files' \in Seq(Folder!Files) /\ \A i, j \in DOMAIN files' : files'[i] = files'[j] => i = j
        /\ Folder!ToSet(files') = Folder!Files
    <3>1. {} \in SUBSET Folder!Files /\ {} \cap Folder!ToSet(files) = {}
      OBVIOUS
    <3>2. /\ files' \in Seq(Folder!Files) /\ \A i, j \in DOMAIN files' : files'[i] = files'[j] => i = j
          /\ Folder!ToSet(files') = Folder!ToSet(files) \cup {}
      BY <2>4, <3>1, FilesJoin
    <3> QED BY <2>1, <3>2
  <2>6. PlanIsWhole'
    BY <1>1, <1>3, <1>7, <2>4, <2>5 DEF PlanIsWhole, Folder!ToSet
  <2> QED BY <1>1, <1>2, <1>7, <2>6, BeforeWork, NotShownBefore
<1>8. CASE /\ Len(folders) > 1 /\ stack # <<>> /\ stack' = Folder!Front(stack)
           /\ UNCHANGED <<main, folders, files, folderAnswer>>
  <2>2. \/ folders = <<"root", "sub">> /\ stack \in {<<"root", "sub">>, <<"root">>}
        \/ folders = <<"root", "sub", "elsewhere">> /\ Folder!ToSet(files) = Folder!Files
    BY <1>3, <1>8, TwoFolders
  <2>3. Folder!ToSet(files) = Folder!Files
    BY <1>3, <2>2
  <2>4. folders = <<"root", "sub">> => stack' \in {<<"root">>, <<>>}
    BY <1>8, <2>2, InAndOut
  <2>5. PlanIsWhole'
    BY <1>1, <1>3, <1>8, <2>2, <2>3, <2>4 DEF PlanIsWhole, Folder!ToSet
  <2> QED BY <1>1, <1>2, <1>8, <2>5, BeforeWork, NotShownBefore
<1>9. CASE /\ Len(folders) > 1 /\ main' = "folders" /\ UNCHANGED Folder!plan /\ UNCHANGED folderAnswer
  <2>1. Folder!ToSet(files) = Folder!Files
    BY <1>3, <1>9, TwoFolders
  <2>2. PlanIsWhole'
    BY <1>1, <1>3, <1>9, <2>1 DEF PlanIsWhole, Folder!ToSet, Folder!plan
  <2> QED BY <1>1, <1>2, <1>9, <2>2, BeforeWork, NotShownBefore
<1> QED BY <1>4, <1>5, <1>6, <1>7, <1>8, <1>9 DEF Folder!Scan

(* The folders are made before anything is sent.                               *)
LEMMA MakeFolderStep ==
  ASSUME FolderInvariant, Folder!MakeFolder
  PROVE  FolderInvariant'
<1>1. /\ main = "folders"
      /\ UNCHANGED <<way, link, stack, folders, files, crew, worker, file, next, mine, error, wrote,
                     closed, users, stop, folderToken, channel, failure, shown>>
  BY DEF Folder!MakeFolder, Folder!plan, Folder!told, Folder!crewVars
<1>2. crew' \in Nat \ {0}
  <2>1. crew \in Nat \ {0}
    BY DEF FolderInvariant, FolderTypes, CrewTypes
  <2> QED BY <1>1, <2>1
<1>3. /\ files \in Seq(Folder!Files) /\ \A i, j \in DOMAIN files : files[i] = files[j] => i = j
      /\ way \in {"up", "down"} /\ Folder!ToSet(files) = Folder!Files
  BY <1>1 DEF FolderInvariant, PlanIsWhole
<1>4. CASE Folder!Answer("failed") /\ UNCHANGED made
  BY <1>1, <1>4, CallerFails
<1>5. CASE /\ UNCHANGED folderAnswer
           /\ \/ main' = "folders"
              \/ main' = "crew" /\ made = Folder!ToSet(folders) /\ made' = made
  <2>1. PlanIsWhole'
    BY <1>1, <1>3, <1>5 DEF PlanIsWhole, Folder!ToSet
  <2> QED BY <1>1, <1>2, <1>5, <2>1, BeforeWork, NotShownBefore
<1> QED BY <1>1, <1>4, <1>5 DEF Folder!MakeFolder

(* The crew grows, and begins.                                                 *)
LEMMA ConnectStep ==
  ASSUME FolderInvariant, Folder!Connect
  PROVE  FolderInvariant'
<1>1. /\ main = "crew"
      /\ UNCHANGED <<way, link, stack, folders, files, file, next, mine, error, wrote, made,
                     closed, users, stop, folderToken, channel, failure, shown>>
  BY DEF Folder!Connect, Folder!plan, Folder!other, Folder!told
<1>2. crew \in Nat \ {0} /\ crew + 1 \in Nat \ {0}
  <2>1. crew \in Nat \ {0}
    BY DEF FolderInvariant, FolderTypes, CrewTypes
  <2> QED BY <2>1
<1>3. /\ files \in Seq(Folder!Files) /\ \A i, j \in DOMAIN files : files[i] = files[j] => i = j
      /\ way \in {"up", "down"} => Folder!ToSet(files) = Folder!Files
      /\ made = Folder!ToSet(folders)
  BY <1>1 DEF FolderInvariant, PlanIsWhole
<1>4. CASE Folder!Answer("failed") /\ UNCHANGED <<crew, worker>>
  BY <1>1, <1>4, CallerFails
<1>5. CASE crew' = crew + 1 /\ UNCHANGED <<main, folderAnswer, worker>>
  <2>1. PlanIsWhole'
    BY <1>1, <1>3, <1>5 DEF PlanIsWhole, Folder!ToSet
  <2> QED BY <1>1, <1>2, <1>5, <2>1, BeforeWork, NotShownBefore
<1>6. CASE /\ main' = "run" /\ UNCHANGED <<crew, folderAnswer>>
           /\ worker' = [w \in Folder!Workers |-> IF w <= crew THEN "take" ELSE "none"]
  <2>1. \A w \in Folder!Workers : worker'[w] \in {"take", "none"} /\ worker[w] = "none"
    BY <1>1, <1>6 DEF FolderInvariant, WorkIsInTime
  <2>2. 1 \in Folder!Workers /\ worker'[1] = "take"
    <3>1. 1 \in Folder!Workers
      BY Bounds DEF Folder!Workers
    <3> QED BY <1>2, <1>6, <3>1
  <2>3. FolderTypes'
    <3>1. worker' \in [Folder!Workers -> {"none", "take", "open", "copy", "tell", "tell of the end",
                                          "failing", "send failure", "gone"}]
      BY <1>6
    <3>2. CrewTypes'
      BY <1>1, <1>6, <3>1, WhatIs DEF FolderTypes, CrewTypes
    <3>3. FileTypes' /\ ToldTypes'
      BY <1>1, WhatIs DEF FileTypes, ToldTypes
    <3>4. PlaceTypes
      BY WhatIs DEF FolderTypes
    <3>5. PlaceTypes'
      BY <1>1, <1>6, <3>4 DEF PlaceTypes
    <3> QED BY <3>2, <3>3, <3>5 DEF FolderTypes
  <2>4. PlanIsWhole'
    BY <1>1, <1>3, <1>6 DEF PlanIsWhole, Folder!ToSet
  <2>5. folderAnswer = "none" /\ shown # 100
    BY <1>1, NotShownBefore
  <2>6. WorkIsInTime'
    BY <1>6, <2>2, <2>5 DEF WorkIsInTime
  <2>7. FilesAreTakenOnce'
    <3>1. Taken = {} /\ Taken' = Taken
      BY <1>1, <1>3, NothingIsTaken DEF Taken
    <3>2. \A w \in Folder!Workers : worker'[w] \notin Working /\ worker'[w] # "gone"
      BY <2>1 DEF Working
    <3>3. \A f \in Folder!Files \ Taken' : users'[f] = 0 /\ f \notin closed'
      BY <1>1, <3>1 DEF FolderInvariant, FilesAreTakenOnce
    <3> QED BY <3>1, <3>2, <3>3 DEF FilesAreTakenOnce
  <2>8. FailuresAreTold'
    BY <1>1, <2>1 DEF FolderInvariant, FailuresAreTold
  <2>9. Folder!CompleteIsWhole' /\ Folder!FirstFailureIsTold' /\ shown' # 100
    BY <1>1, <1>6, <2>5 DEF FolderInvariant, Folder!CompleteIsWhole, Folder!FirstFailureIsTold
  <2> QED BY <2>3, <2>4, <2>6, <2>7, <2>8, <2>9 DEF FolderInvariant
<1> QED BY <1>4, <1>5, <1>6 DEF Folder!Connect

(* Every step of a transfer keeps the invariant.                               *)
LEMMA FolderStep ==
  ASSUME FolderInvariant, Folder!Next
  PROVE  FolderInvariant'
<1>1. CASE Folder!Caller
  BY <1>1, ScanStep, MakeFolderStep, ConnectStep, NoticeStep, ReceiveStep, FinishStep
  DEF Folder!Caller
<1>2. ASSUME NEW w \in Folder!Workers, Folder!Work(w) PROVE FolderInvariant'
  BY <1>2, TakeStep, OpenStep, CopyStep, TellStep, FailStep, SendFailureStep DEF Folder!Work
<1> QED BY <1>1, <1>2, CancelStep DEF Folder!Next

(* So do the steps of the other parts.                                         *)
LEMMA FolderStutters ==
  ASSUME FolderInvariant, UNCHANGED folder
  PROVE  FolderInvariant'
<1>1. UNCHANGED <<way, link, main, stack, folders, files, made, crew, worker, file, next, wrote,
                  closed, users, stop, folderToken, error, channel, counts, mine, failure, shown,
                  folderAnswer>>
  BY DEF folder
<1>2. FolderTypes'
  <2>1. CrewTypes' /\ FileTypes' /\ ToldTypes'
    BY <1>1, WhatIs DEF FolderTypes, CrewTypes, FileTypes, ToldTypes
  <2>2. PlaceTypes
    BY WhatIs DEF FolderTypes
  <2>3. PlaceTypes'
    BY <1>1, <2>2 DEF PlaceTypes
  <2> QED BY <2>1, <2>3 DEF FolderTypes
<1>3. PlanIsWhole'
  <2>1. PlanIsWhole
    BY DEF FolderInvariant
  <2>2. UNCHANGED <<way, main, stack, folders, files, made>>
    BY <1>1
  <2>3. Folder!ToSet(files)' = Folder!ToSet(files) /\ Folder!ToSet(folders)' = Folder!ToSet(folders)
    BY <2>2 DEF Folder!ToSet
  <2> QED BY <2>1, <2>2, <2>3, Zenon DEF PlanIsWhole
<1>4. WorkIsInTime' /\ FilesAreTakenOnce' /\ FailuresAreTold'
  <2>1. WorkIsInTime'
    BY <1>1 DEF FolderInvariant, WorkIsInTime
  <2>2. FilesAreTakenOnce'
    <3>1. UNCHANGED <<worker, file, files, next, wrote, closed, users, error>> /\ FilesAreTakenOnce
      BY <1>1 DEF FolderInvariant
    <3> QED BY <3>1 DEF FilesAreTakenOnce, Taken, Folder!Whole
  <2>3. FailuresAreTold'
    <3>1. UNCHANGED <<worker, way, stop, error, folderToken, failure, channel>> /\ FailuresAreTold
      BY <1>1 DEF FolderInvariant
    <3> QED BY <3>1 DEF FailuresAreTold
  <2> QED BY <2>1, <2>2, <2>3
<1>5. Folder!CompleteIsWhole' /\ Folder!FirstFailureIsTold' /\ (shown' = 100 => folderAnswer' = "ok")
  BY <1>1 DEF FolderInvariant, Folder!CompleteIsWhole, Folder!FirstFailureIsTold, Folder!Whole,
              Folder!ToSet
<1> QED BY <1>2, <1>3, <1>4, <1>5 DEF FolderInvariant

(* A transfer starts with no file touched.                                     *)
LEMMA FolderStarts ==
  ASSUME Folder!Init
  PROVE  FolderInvariant
<1>1. /\ stack = <<>> /\ folders = <<>> /\ made = {} /\ crew = 1 /\ next = 1
      /\ worker = [w \in Folder!Workers |-> "none"]
      /\ file = [w \in Folder!Workers |-> Folder!None]
      /\ wrote = [f \in Folder!Files |-> -1] /\ closed = {} /\ users = [f \in Folder!Files |-> 0]
      /\ stop = FALSE /\ folderToken = FALSE /\ error = [w \in Folder!Workers |-> "none"]
      /\ channel = <<>> /\ mine = [w \in Folder!Workers |-> 0]
      /\ failure = "none" /\ shown = 0 /\ folderAnswer = "none"
  BY DEF Folder!Init
<1>2. \/ /\ way \in {"up", "down"} /\ link \in {"root", "elsewhere", "nowhere"}
         /\ main = "scan" /\ files = <<>>
      \/ way \in {"one up", "one down"} /\ main = "crew" /\ files = <<1>> /\ link = "nowhere"
  BY DEF Folder!Init, Folder!FolderStarts, Folder!UpStarts, Folder!DownStarts
<1>3. /\ channel \in Seq(Event) /\ \A i \in DOMAIN channel : FALSE
  BY <1>1, EmptySeq
<1>4. FolderTypes
  <2>1. CrewTypes
    BY <1>1, FilesAre DEF CrewTypes
  <2>2. FileTypes
    BY <1>1 DEF FileTypes
  <2>3. PlaceTypes
    BY <1>1, <1>2 DEF PlaceTypes
  <2>4. ToldTypes
    BY <1>1, <1>3 DEF ToldTypes
  <2> QED BY <2>1, <2>2, <2>3, <2>4 DEF FolderTypes
<1>5. files \in Seq(Folder!Files) /\ \A i, j \in DOMAIN files : files[i] = files[j] => i = j
  <2>1. CASE files = <<>>
    BY <2>1, EmptySeq
  <2>2. CASE files = <<1>>
    BY <2>2, FilesAre
  <2> QED BY <1>2, <2>1, <2>2
<1>6. PlanIsWhole
  <2>1. Folder!ToSet(folders) = {}
    BY <1>1, WhatIsHeld
  <2> QED BY <1>1, <1>2, <1>5, <2>1 DEF PlanIsWhole
<1>7. WorkIsInTime
  BY <1>1, <1>2 DEF WorkIsInTime
<1>8. FilesAreTakenOnce
  <2>1. DOMAIN files = 1 .. Len(files) /\ Len(files) \in Nat
    BY <1>5, LenProperties
  <2>2. \A j \in DOMAIN files : ~(j < next)
    BY <1>1, <2>1
  <2>3. Taken = {}
    BY <2>2 DEF Taken
  <2>4. \A w \in Folder!Workers : worker[w] \notin Working /\ worker[w] # "gone"
    BY <1>1 DEF Working
  <2> QED BY <1>1, <2>3, <2>4 DEF FilesAreTakenOnce
<1>9. FailuresAreTold
  BY <1>1 DEF FailuresAreTold
<1>10. Folder!CompleteIsWhole /\ Folder!FirstFailureIsTold /\ shown # 100
  BY <1>1 DEF Folder!CompleteIsWhole, Folder!FirstFailureIsTold
<1> QED BY <1>4, <1>6, <1>7, <1>8, <1>9, <1>10 DEF FolderInvariant

(* A folder on its way: each file is one worker's until it is whole, the first    *)
(* failure stops the others and is told, and the end is shown and answered only   *)
(* where every file is whole.                                                  *)
THEOREM FolderHolds == Spec => []FolderInvariant
<1>1. Init => FolderInvariant
  BY FolderStarts DEF Init
<1>2. FolderInvariant /\ [Next]_vars => FolderInvariant'
  <2> SUFFICES ASSUME FolderInvariant, [Next]_vars PROVE FolderInvariant'
    OBVIOUS
  <2>1. Folder!Next \/ UNCHANGED folder
    BY DEF Next, vars
  <2> QED BY <2>1, FolderStep, FolderStutters
<1> QED BY <1>1, <1>2, PTL DEF Spec

(* After the answer nobody can take a step.                                    *)
LEMMA AnsweredRests ==
  ASSUME FolderInvariant, main = "done", Folder!Next
  PROVE  FALSE
<1>1. \A w \in Folder!Workers : worker[w] \in {"none", "gone"}
  BY DEF FolderInvariant, WorkIsInTime
<1>2. ASSUME NEW w \in Folder!Workers, Folder!Work(w) PROVE FALSE
  BY <1>1, <1>2 DEF Folder!Work, Folder!Take, Folder!Open, Folder!Copy, Folder!Tell, Folder!Fail,
                    Folder!SendFailure
<1>3. ~Folder!Caller /\ ~Folder!Cancel
  BY DEF Folder!Caller, Folder!Cancel, Folder!Scan, Folder!MakeFolder, Folder!Connect, Folder!Notice,
         Folder!Receive, Folder!Finish
<1> QED BY <1>2, <1>3 DEF Folder!Next

(* CompleteIsWhole: what is shown or answered as complete is there, each file    *)
(* once, all of it, and nobody works at it any more; a failure is told as what it *)
(* was; and once there is an answer nothing more is written (upload_directory,    *)
(* download_dir_native_to), for any number of workers and any capacity of the    *)
(* channel, on the three files of TransfersMC.                                 *)
THEOREM TransfersStayWhole == Spec => CompleteIsWhole
<1>1. FolderInvariant => Folder!CompleteIsWhole /\ Folder!FirstFailureIsTold
  BY DEF FolderInvariant
<1>2. FolderInvariant /\ [Next]_vars => Folder!AnsweredWritesNothing
  <2> SUFFICES ASSUME FolderInvariant, [Next]_vars, main = "done" PROVE UNCHANGED Folder!other
    BY DEF Folder!AnsweredWritesNothing
  <2>1. Folder!Next \/ UNCHANGED folder
    BY DEF Next, vars
  <2> QED BY <2>1, AnsweredRests DEF folder, Folder!other
<1>3. FolderInvariant' => (Folder!CompleteIsWhole /\ Folder!FirstFailureIsTold)'
  BY <1>1, PTL
<1>4. FolderInvariant /\ FolderInvariant' /\ [Next]_vars =>
        [/\ (Folder!CompleteIsWhole /\ Folder!FirstFailureIsTold)'
         /\ Folder!AnsweredWritesNothing]_vars
  BY <1>2, <1>3
<1> QED BY <1>4, FolderHolds, PTL DEF Spec, CompleteIsWhole

-----------------------------------------------------------------------------
(* A conversation.                                                            *)

(* The write at the head of the queue has at most one save under way, and every *)
(* other save is an edit or a title.                                          *)
OfAWrite(s) == s.by \in {"ensure", "touch"}

WritesWait ==
  \A i \in DOMAIN saves : OfAWrite(saves[i]) =>
    /\ queue # <<>>
    /\ queue[1].step = IF saves[i].by = "ensure" THEN "ensuring" ELSE "touching"
    /\ \A j \in DOMAIN saves : OfAWrite(saves[j]) => i = j

(* What waits in the queue has not been begun.                                 *)
OthersWait == \A i \in DOMAIN queue : i > 1 => queue[i].step = "ensure"

(* A draft is not in the database; a title that is on its way there has a        *)
(* question that is, too, or that could not be stored.                         *)
DraftsAreUnsaved ==
  draft =>
    /\ row = 0 /\ messages = <<>> /\ ~gone
    /\ \A i \in DOMAIN saves : /\ saves[i].by \in {"ensure", "title"}
                               /\ saves[i].by = "title" => queue # <<>> \/ failed
    /\ \A i \in DOMAIN queue : queue[i].step \in {"ensure", "ensuring"}

(* Removing has waited for what it has got past.                               *)
RemovalHasWaited ==
  /\ removal \in {"saves", "store"} => queue = <<>>
  /\ removal = "store" => saves = <<>> /\ ~draft
  /\ ~listed => queue = <<>>
  /\ gone => queue = <<>> /\ saves = <<>> /\ removal = "no"

(* The last save that was asked for, or the row, has the version that the window *)
(* shows, unless a message is about to be stored, which saves it.              *)
Latest == IF saves = <<>> THEN row ELSE saves[Len(saves)].version

LatestIsShown ==
  listed /\ ~draft /\ ~failed /\ ~Conversation!Blocked =>
    Latest = version \/ (queue # <<>> /\ queue[1].step # "touching")

MessagesAreOnce == \A i, j \in DOMAIN messages : messages[i] = messages[j] => i = j

ConversationInvariant ==
  /\ Conversation!TypeOK
  /\ WritesWait /\ OthersWait /\ DraftsAreUnsaved /\ RemovalHasWaited
  /\ LatestIsShown /\ MessagesAreOnce
  /\ Conversation!GoneStaysGone

-----------------------------------------------------------------------------
(* What happens to a queue when its head is taken off.                         *)
LEMMA HeadRemoved ==
  ASSUME NEW S, NEW s \in Seq(S), s # <<>>
  PROVE  Conversation!RemoveAt(s, 1) = Tail(s)
<1>1. Len(s) \in Nat
  BY LenProperties
<1>2. SubSeq(s, 1, 0) = <<>>
  BY SubSeqEmpty
<1>3. SubSeq(s, 2, Len(s)) = Tail(s) /\ Tail(s) \in Seq(S)
  BY TailIsSubSeq, HeadTailProperties
<1> QED BY <1>1, <1>2, <1>3, ConcatEmptySeq DEF Conversation!RemoveAt

QueueItem == [id : Messages, step : {"ensure", "ensuring", "message", "touching"}]
SaveItem  == [version : 1 .. MaxVersion, by : {"ensure", "touch", "edit", "title"}]

(* The head of the queue goes a step further.                                  *)
LEMMA HeadTurns ==
  ASSUME queue \in Seq(QueueItem), queue # <<>>,
         NEW step \in {"ensure", "ensuring", "message", "touching"},
         queue' = Conversation!Turns(step)
  PROVE  /\ queue' \in Seq(QueueItem) /\ queue' # <<>> /\ Len(queue') = Len(queue)
         /\ queue'[1].step = step /\ queue'[1].id = queue[1].id
         /\ \A i \in DOMAIN queue : i > 1 => queue'[i] = queue[i]
<1>1. 1 \in DOMAIN queue /\ Len(queue) \in Nat \ {0}
  BY EmptySeq, LenProperties
<1>2. queue[1] \in QueueItem /\ queue[1].id \in Messages
  <2>1. queue[1] \in QueueItem
    BY <1>1, ElementOfSeq
  <2> QED BY <2>1 DEF QueueItem
<1> DEFINE x == [queue[1] EXCEPT !.step = step]
<1>3. x \in QueueItem /\ x.step = step /\ x.id = queue[1].id
  BY <1>2 DEF QueueItem
<1>4. queue' = [queue EXCEPT ![1] = x]
  BY DEF Conversation!Turns
<1>5. queue' \in Seq(QueueItem) /\ Len(queue') = Len(queue)
  BY <1>1, <1>3, <1>4, ExceptSeq
<1>6. queue' # <<>> /\ DOMAIN queue' = DOMAIN queue
  BY <1>1, <1>4, <1>5
<1> HIDE DEF x
<1>7. queue'[1] = x /\ \A i \in DOMAIN queue : i > 1 => queue'[i] = queue[i]
  BY <1>1, <1>4
<1> QED BY <1>3, <1>5, <1>6, <1>7

(* The head leaves the queue; the others have not been begun.                  *)
LEMMA HeadLeaves ==
  ASSUME queue \in Seq(QueueItem), queue # <<>>, OthersWait, queue' = Tail(queue)
  PROVE  /\ queue' \in Seq(QueueItem) /\ OthersWait'
         /\ \A i \in DOMAIN queue' : i + 1 \in DOMAIN queue /\ queue'[i] = queue[i + 1]
                                     /\ queue'[i].step = "ensure"
BY DEF OthersWait, QueueItem

(* A save is asked for.                                                        *)
LEMMA SaveJoins ==
  ASSUME saves \in Seq(SaveItem), NEW v \in 1 .. MaxVersion,
         NEW by \in {"ensure", "touch", "edit", "title"},
         ~Conversation!Blocked, saves' = Conversation!Chain(v, by)
  PROVE  /\ saves' \in Seq(SaveItem) /\ saves' # <<>>
         /\ Len(saves') = Len(saves) + 1 /\ Len(saves) \in Nat
         /\ saves'[Len(saves')].version = v /\ saves'[Len(saves')].by = by
         /\ \A i \in DOMAIN saves : i \in DOMAIN saves' /\ saves'[i] = saves[i]
         /\ \A i \in DOMAIN saves' : i \in DOMAIN saves \/ i = Len(saves')
<1>1. [version |-> v, by |-> by] \in SaveItem
  BY DEF SaveItem
<1>2. saves' = Append(saves, [version |-> v, by |-> by])
  BY DEF Conversation!Chain
<1> QED BY <1>1, <1>2

(* What a step of a conversation can use.                                      *)
LEMMA ConversationTypes ==
  ASSUME ConversationInvariant
  PROVE  /\ queue \in Seq(QueueItem) /\ Len(queue) \in Nat /\ DOMAIN queue = 1 .. Len(queue)
         /\ \A i \in DOMAIN queue : queue[i] \in QueueItem
         /\ queue # <<>> => 1 \in DOMAIN queue
         /\ saves \in Seq(SaveItem) /\ Len(saves) \in Nat /\ DOMAIN saves = 1 .. Len(saves)
         /\ \A i \in DOMAIN saves : saves[i] \in SaveItem
         /\ saves # <<>> => Len(saves) \in DOMAIN saves /\ 1 \in DOMAIN saves
         /\ messages \in Seq(Messages) /\ Len(messages) \in 0 .. Retention
         /\ DOMAIN messages = 1 .. Len(messages)
<1>1. queue \in Seq(QueueItem) /\ saves \in Seq(SaveItem) /\ messages \in Seq(Messages)
      /\ Len(messages) <= Retention
  BY DEF ConversationInvariant, Conversation!TypeOK, QueueItem, SaveItem
<1>2. /\ Len(queue) \in Nat /\ DOMAIN queue = 1 .. Len(queue)
      /\ \A i \in DOMAIN queue : queue[i] \in QueueItem
      /\ queue # <<>> => 1 \in DOMAIN queue
  BY <1>1, LenProperties, ElementOfSeq, EmptySeq
<1>3. /\ Len(saves) \in Nat /\ DOMAIN saves = 1 .. Len(saves)
      /\ \A i \in DOMAIN saves : saves[i] \in SaveItem
      /\ saves # <<>> => Len(saves) \in DOMAIN saves /\ 1 \in DOMAIN saves
  BY <1>1, LenProperties, ElementOfSeq, EmptySeq
<1>4. Len(messages) \in Nat /\ DOMAIN messages = 1 .. Len(messages)
  BY <1>1, LenProperties
<1> QED BY <1>1, <1>2, <1>3, <1>4

(* Storing a message keeps those that are there, in their order.                *)
LEMMA MessageStored ==
  ASSUME ConversationInvariant, NEW m \in Messages,
         messages' = Conversation!Newest(Conversation!Upsert(messages, m))
  PROVE  /\ messages' \in Seq(Messages) /\ Len(messages') <= Retention
         /\ MessagesAreOnce' /\ Conversation!OrderIsKept
<1> DEFINE s == Conversation!Upsert(messages, m)
<1>1. /\ s \in Seq(Messages) /\ Len(s) \in Len(messages) .. Len(messages) + 1
      /\ (Len(s) # Len(messages) => Len(s) = Len(messages) + 1)
      /\ \A i \in DOMAIN messages : i \in 1 .. Len(s) /\ s[i] = messages[i]
      /\ \A i, j \in 1 .. Len(s) : s[i] = s[j] => i = j
  <2>1. CASE Conversation!Contains(messages, m)
    BY <2>1, ConversationTypes DEF Conversation!Upsert, ConversationInvariant, MessagesAreOnce
  <2>2. CASE ~Conversation!Contains(messages, m)
    <3>1. s = Append(messages, m) /\ \A i \in DOMAIN messages : messages[i] # m
      BY <2>2, ConversationTypes DEF Conversation!Upsert, Conversation!Contains
    <3>2. /\ s \in Seq(Messages) /\ Len(s) = Len(messages) + 1 /\ s[Len(messages) + 1] = m
          /\ \A i \in DOMAIN messages : s[i] = messages[i]
      BY <3>1, ConversationTypes, AppendProperties
    <3>3. \A i, j \in DOMAIN messages : messages[i] = messages[j] => i = j
      BY DEF ConversationInvariant, MessagesAreOnce
    <3>4. Len(messages) \in Nat /\ DOMAIN messages = 1 .. Len(messages)
      BY ConversationTypes
    <3> HIDE DEF s
    <3>5. \A i, j \in 1 .. Len(s) : s[i] = s[j] => i = j
      BY <3>1, <3>2, <3>3, <3>4
    <3> QED BY <3>2, <3>4, <3>5
  <2> QED BY <2>1, <2>2
<1>2. PICK d \in 0 .. 1 :
        /\ messages' \in Seq(Messages) /\ Len(messages') = Len(s) - d /\ Len(messages') <= Retention
        /\ \A i \in DOMAIN messages' : i + d \in 1 .. Len(s) /\ messages'[i] = s[i + d]
  <2> HIDE DEF s
  <2>1. messages' = IF Len(s) > Retention THEN Tail(s) ELSE s
    BY DEF s, Conversation!Newest
  <2>2. Len(messages) \in 0 .. Retention /\ Retention \in Nat \ {0} /\ Len(s) \in Nat
    BY <1>1, ConversationTypes
  <2>3. CASE Len(s) > Retention
    <3>1. s # <<>> /\ Len(s) = Retention + 1
      BY <1>1, <2>2, <2>3, EmptySeq
    <3>2. s \in Seq(Messages)
      BY <1>1
    <3>3. /\ Tail(s) \in Seq(Messages) /\ Len(Tail(s)) = Len(s) - 1 /\ DOMAIN Tail(s) = 1 .. Len(s) - 1
          /\ \A i \in DOMAIN Tail(s) : i + 1 \in DOMAIN s /\ Tail(s)[i] = s[i + 1]
      BY <3>1, <3>2, TailOf
    <3>4. DOMAIN s = 1 .. Len(s)
      BY <3>2, LenProperties
    <3>5. /\ messages' \in Seq(Messages) /\ Len(messages') = Len(s) - 1 /\ Len(messages') <= Retention
          /\ \A i \in DOMAIN messages' : i + 1 \in 1 .. Len(s) /\ messages'[i] = s[i + 1]
      BY <2>1, <2>2, <2>3, <3>1, <3>3, <3>4
    <3> QED BY <3>5, FewNumbers, Zenon
  <2>4. CASE ~(Len(s) > Retention)
    <3>1. DOMAIN s = 1 .. Len(s) /\ s \in Seq(Messages) /\ Len(s) \in Nat
      BY <1>1, LenProperties
    <3>2. messages' = s /\ Len(s) <= Retention
      BY <2>1, <2>2, <2>4
    <3>3. /\ messages' \in Seq(Messages) /\ Len(messages') = Len(s) - 0
          /\ \A i \in DOMAIN messages' : i + 0 \in 1 .. Len(s) /\ messages'[i] = s[i + 0]
      BY <3>1, <3>2
    <3> HIDE DEF s
    <3> QED BY <3>2, <3>3, FewNumbers, Zenon
  <2> QED BY <2>3, <2>4
<1> HIDE DEF s
<1>3. MessagesAreOnce'
  BY <1>1, <1>2 DEF MessagesAreOnce
<1>4. Conversation!OrderIsKept
  <2>1. SUFFICES ASSUME NEW i \in DOMAIN messages, NEW j \in DOMAIN messages, i < j,
                        NEW k \in DOMAIN messages', NEW l \in DOMAIN messages', k < l,
                        messages'[k] = messages[j], messages'[l] = messages[i]
                 PROVE  FALSE
    BY DEF Conversation!OrderIsKept
  <2>2. s[k + d] = s[j] /\ s[l + d] = s[i]
    BY <1>1, <1>2, <2>1
  <2>3. k + d = j /\ l + d = i
    BY <1>1, <1>2, <2>2
  <2>4. DOMAIN messages' = 1 .. Len(messages') /\ Len(messages') \in Nat
    BY <1>2, LenProperties
  <2> QED BY <2>1, <2>3, <2>4, <1>2, ConversationTypes
<1> QED BY <1>2, <1>3, <1>4

(* The saves go on without their first, and it is what the write at the head of *)
(* the queue waits for, if it is of a write.                                  *)
LEMMA SaveLeaves ==
  ASSUME ConversationInvariant, saves # <<>>, saves' = Tail(saves)
  PROVE  /\ saves' \in Seq(SaveItem) /\ DOMAIN saves' = 1 .. Len(saves) - 1
         /\ Len(saves') = Len(saves) - 1 /\ Len(saves') \in Nat
         /\ \A j \in DOMAIN saves' : j + 1 \in DOMAIN saves /\ saves'[j] = saves[j + 1]
         /\ OfAWrite(saves[1]) => \A j \in DOMAIN saves' : ~OfAWrite(saves'[j])
<1>1. /\ saves' \in Seq(SaveItem) /\ DOMAIN saves' = 1 .. Len(saves) - 1
      /\ Len(saves') = Len(saves) - 1 /\ Len(saves') \in Nat
      /\ \A j \in DOMAIN saves' : j + 1 \in DOMAIN saves /\ saves'[j] = saves[j + 1]
  BY ConversationTypes
<1>2. \A i, j \in DOMAIN saves : OfAWrite(saves[i]) /\ OfAWrite(saves[j]) => i = j
  BY DEF ConversationInvariant, WritesWait
<1>3. ASSUME OfAWrite(saves[1]), NEW j \in DOMAIN saves', OfAWrite(saves'[j])
      PROVE  FALSE
  <2>1. 1 \in DOMAIN saves /\ j + 1 \in DOMAIN saves /\ saves'[j] = saves[j + 1] /\ j \in Nat \ {0}
    BY <1>1, ConversationTypes
  <2>2. OfAWrite(saves[j + 1])
    BY <1>3, <2>1 DEF OfAWrite
  <2>3. 1 = j + 1
    BY <1>2, <1>3, <2>1, <2>2
  <2> QED BY <2>1, <2>3
<1> QED BY <1>1, <1>3

(* A save that joins leaves the others where they are.                         *)
LEMMA SaveFollows ==
  ASSUME ConversationInvariant, NEW v \in 1 .. MaxVersion,
         NEW by \in {"ensure", "touch", "edit", "title"},
         ~Conversation!Blocked, saves' = Conversation!Chain(v, by)
  PROVE  /\ saves' \in Seq(SaveItem) /\ saves' # <<>> /\ Latest' = v
         /\ \A i \in DOMAIN saves' : \/ i \in DOMAIN saves /\ saves'[i] = saves[i]
                                     \/ i = Len(saves) + 1 /\ saves'[i].by = by
         /\ Len(saves) + 1 \notin DOMAIN saves
<1>1. saves \in Seq(SaveItem) /\ DOMAIN saves = 1 .. Len(saves)
  BY ConversationTypes
<1>2. /\ saves' \in Seq(SaveItem) /\ saves' # <<>>
      /\ Len(saves') = Len(saves) + 1 /\ Len(saves) \in Nat
      /\ saves'[Len(saves')].version = v /\ saves'[Len(saves')].by = by
      /\ \A i \in DOMAIN saves : i \in DOMAIN saves' /\ saves'[i] = saves[i]
      /\ \A i \in DOMAIN saves' : i \in DOMAIN saves \/ i = Len(saves')
  BY <1>1, SaveJoins
<1>3. Latest' = v
  BY <1>2 DEF Latest
<1> QED BY <1>1, <1>2, <1>3

(* Every step of a conversation keeps the invariant.                           *)
LEMMA ConversationStep ==
  ASSUME ConversationInvariant, Conversation!Next
  PROVE  ConversationInvariant'
<1>0. /\ queue \in Seq(QueueItem) /\ Len(queue) \in Nat /\ DOMAIN queue = 1 .. Len(queue)
      /\ queue # <<>> => 1 \in DOMAIN queue
      /\ saves \in Seq(SaveItem) /\ Len(saves) \in Nat /\ DOMAIN saves = 1 .. Len(saves)
      /\ \A i \in DOMAIN saves : saves[i] \in SaveItem
      /\ saves # <<>> => Len(saves) \in DOMAIN saves /\ 1 \in DOMAIN saves
      /\ messages \in Seq(Messages) /\ Len(messages) <= Retention
      /\ listed \in BOOLEAN /\ draft \in BOOLEAN /\ gone \in BOOLEAN /\ failed \in BOOLEAN
      /\ version \in 1 .. MaxVersion /\ row \in 0 .. MaxVersion
      /\ removal \in {"no", "queue", "saves", "store"}
  BY ConversationTypes DEF ConversationInvariant, Conversation!TypeOK
<1>1. ASSUME NEW m \in Messages, Conversation!QueueMessage(m)
      PROVE  ConversationInvariant'
  <2> DEFINE x == [id |-> m, step |-> "ensure"]
  <2>1. queue' = Append(queue, x) /\ x \in QueueItem /\ listed /\ removal = "no" /\ ~gone
        /\ UNCHANGED <<listed, draft, version, saves, row, messages, removal, gone, failed>>
    BY <1>1 DEF Conversation!QueueMessage, QueueItem
  <2>2. /\ queue' \in Seq(QueueItem) /\ queue' # <<>> /\ Len(queue') = Len(queue) + 1
        /\ DOMAIN queue' = 1 .. Len(queue) + 1 /\ queue'[Len(queue) + 1] = x
        /\ \A i \in DOMAIN queue : queue'[i] = queue[i]
    BY <1>0, <2>1, AppendProperties
  <2>3. queue'[1] = IF queue = <<>> THEN x ELSE queue[1]
    BY <1>0, <2>2, EmptySeq
  <2>4. \A i \in DOMAIN queue' : i \in DOMAIN queue \/ queue'[i] = x
    BY <1>0, <2>2
  <2>5. x.step = "ensure"
    OBVIOUS
  <2> HIDE DEF x
  <2>6. Conversation!TypeOK'
    BY <1>0, <2>1, <2>2 DEF Conversation!TypeOK, QueueItem, SaveItem
  <2>7. OthersWait'
    BY <2>2, <2>4, <2>5 DEF ConversationInvariant, OthersWait
  <2>8. WritesWait'
    BY <2>1, <2>2, <2>3 DEF ConversationInvariant, WritesWait, OfAWrite
  <2>9. DraftsAreUnsaved'
    BY <2>1, <2>2, <2>4, <2>5 DEF ConversationInvariant, DraftsAreUnsaved
  <2>10. LatestIsShown'
    BY <2>1, <2>2, <2>3, <2>5 DEF ConversationInvariant, LatestIsShown, Latest, Conversation!Blocked
  <2>11. RemovalHasWaited' /\ MessagesAreOnce' /\ Conversation!GoneStaysGone'
    BY <2>1 DEF ConversationInvariant, RemovalHasWaited, MessagesAreOnce, Conversation!GoneStaysGone
  <2> QED BY <2>6, <2>7, <2>8, <2>9, <2>10, <2>11 DEF ConversationInvariant
<1>2. ASSUME NEW named \in BOOLEAN, Conversation!Ensure(named)
      PROVE  ConversationInvariant'
  <2> DEFINE step == IF draft \/ named THEN "ensuring" ELSE "message"
  <2>1. /\ queue # <<>> /\ queue[1].step = "ensure"
        /\ listed' = TRUE /\ queue' = Conversation!Turns(step)
        /\ UNCHANGED <<draft, row, messages, removal, gone, failed>>
    BY <1>2 DEF Conversation!Ensure
  <2>2. version' \in 1 .. MaxVersion /\ (~named => version' = version)
    BY <1>0, <1>2, Bounds DEF Conversation!Ensure
  <2>3. saves' = IF draft \/ named THEN Conversation!Chain(version', "ensure") ELSE saves
    BY <1>2 DEF Conversation!Ensure
  <2>4. /\ queue' \in Seq(QueueItem) /\ queue' # <<>> /\ Len(queue') = Len(queue)
        /\ queue'[1].step = step
        /\ \A i \in DOMAIN queue : i > 1 => queue'[i] = queue[i]
    BY <1>0, <2>1, HeadTurns
  <2>5. DOMAIN queue' = DOMAIN queue
    BY <1>0, <2>4, LenProperties
  <2>6. \A i \in DOMAIN saves : ~OfAWrite(saves[i])
    BY <2>1 DEF ConversationInvariant, WritesWait
  <2>7. ~Conversation!Blocked
    BY <2>1 DEF ConversationInvariant, RemovalHasWaited, Conversation!Blocked
  <2>8. /\ saves' \in Seq(SaveItem)
        /\ draft \/ named => Latest' = version'
        /\ \A i \in DOMAIN saves' : \/ i \in DOMAIN saves /\ saves'[i] = saves[i]
                                    \/ i = Len(saves) + 1 /\ saves'[i].by = "ensure"
                                       /\ (draft \/ named)
        /\ Len(saves) + 1 \notin DOMAIN saves
    <3>1. CASE draft \/ named
      <4>1. saves' = Conversation!Chain(version', "ensure")
        BY <2>3, <3>1
      <4> QED BY <2>2, <2>7, <3>1, <4>1, SaveFollows
    <3>2. CASE ~(draft \/ named)
      BY <1>0, <2>3, <3>2
    <3> QED BY <3>1, <3>2
  <2>9. Conversation!TypeOK'
    BY <1>0, <2>1, <2>2, <2>4, <2>8 DEF Conversation!TypeOK, QueueItem, SaveItem
  <2>10. OthersWait'
    BY <2>4, <2>5 DEF ConversationInvariant, OthersWait
  <2>11. \A i \in DOMAIN saves' : OfAWrite(saves'[i]) =>
            i = Len(saves) + 1 /\ saves'[i].by = "ensure" /\ (draft \/ named)
    BY <2>6, <2>8 DEF OfAWrite
  <2>12. WritesWait'
    BY <2>4, <2>11 DEF WritesWait, OfAWrite
  <2>13. DraftsAreUnsaved'
    <3>1. SUFFICES ASSUME draft PROVE DraftsAreUnsaved'
      BY <2>1 DEF DraftsAreUnsaved
    <3>2. \A i \in DOMAIN saves' : /\ saves'[i].by \in {"ensure", "title"}
                                   /\ saves'[i].by = "title" => queue' # <<>> \/ failed'
      BY <2>4, <2>8, <3>1 DEF ConversationInvariant, DraftsAreUnsaved
    <3>3. \A i \in DOMAIN queue' : queue'[i].step \in {"ensure", "ensuring"}
      <4>1. \A i \in DOMAIN queue' : i = 1 \/ i > 1
        BY <1>0, <2>5
      <4> QED BY <2>4, <2>5, <3>1, <4>1 DEF ConversationInvariant, DraftsAreUnsaved
    <3> QED BY <2>1, <3>1, <3>2, <3>3 DEF ConversationInvariant, DraftsAreUnsaved
  <2>14. LatestIsShown'
    BY <2>4 DEF LatestIsShown
  <2>15. RemovalHasWaited' /\ MessagesAreOnce' /\ Conversation!GoneStaysGone'
    BY <2>1, <2>7 DEF ConversationInvariant, RemovalHasWaited, MessagesAreOnce,
                      Conversation!GoneStaysGone, Conversation!Blocked
  <2> QED BY <2>9, <2>10, <2>12, <2>13, <2>14, <2>15 DEF ConversationInvariant
<1>3. CASE Conversation!StoreMessage
  <2>1. /\ queue # <<>> /\ queue[1].step = "message" /\ listed' = TRUE
        /\ messages' = Conversation!Newest(Conversation!Upsert(messages, queue[1].id))
        /\ saves' = Conversation!Chain(version, "touch")
        /\ UNCHANGED <<draft, version, row, removal, gone, failed>>
    BY <1>3 DEF Conversation!StoreMessage
  <2>2. ~Conversation!Blocked /\ ~draft
    BY <1>0, <2>1 DEF ConversationInvariant, RemovalHasWaited, DraftsAreUnsaved, Conversation!Blocked
  <2>3. queue' = Conversation!Turns("touching")
    BY <1>3, <2>2 DEF Conversation!StoreMessage
  <2>4. /\ queue' \in Seq(QueueItem) /\ queue' # <<>> /\ Len(queue') = Len(queue)
        /\ queue'[1].step = "touching"
        /\ \A i \in DOMAIN queue : i > 1 => queue'[i] = queue[i]
    BY <1>0, <2>1, <2>3, HeadTurns
  <2>5. DOMAIN queue' = DOMAIN queue
    BY <1>0, <2>4, LenProperties
  <2>6. \A i \in DOMAIN saves : ~OfAWrite(saves[i])
    BY <2>1 DEF ConversationInvariant, WritesWait
  <2>7. /\ saves' \in Seq(SaveItem) /\ saves' # <<>> /\ Latest' = version
        /\ \A i \in DOMAIN saves' : \/ i \in DOMAIN saves /\ saves'[i] = saves[i]
                                    \/ i = Len(saves) + 1 /\ saves'[i].by = "touch"
        /\ Len(saves) + 1 \notin DOMAIN saves
    BY <1>0, <2>1, <2>2, SaveFollows
  <2>8. messages' \in Seq(Messages) /\ Len(messages') <= Retention /\ MessagesAreOnce'
    <3>1. queue[1].id \in Messages
      <4>1. queue[1] \in QueueItem
        BY <1>0, <2>1, ElementOfSeq
      <4> QED BY <4>1 DEF QueueItem
    <3> QED BY <2>1, <3>1, MessageStored
  <2>9. Conversation!TypeOK'
    BY <1>0, <2>1, <2>4, <2>7, <2>8 DEF Conversation!TypeOK, QueueItem, SaveItem
  <2>10. OthersWait'
    BY <2>4, <2>5 DEF ConversationInvariant, OthersWait
  <2>11. \A i \in DOMAIN saves' : OfAWrite(saves'[i]) =>
            i = Len(saves) + 1 /\ saves'[i].by = "touch"
    BY <2>6, <2>7 DEF OfAWrite
  <2>12. WritesWait'
    BY <2>4, <2>11 DEF WritesWait, OfAWrite
  <2>13. LatestIsShown'
    BY <2>1, <2>7 DEF LatestIsShown
  <2>14. RemovalHasWaited' /\ DraftsAreUnsaved' /\ Conversation!GoneStaysGone'
    BY <2>1, <2>2 DEF ConversationInvariant, RemovalHasWaited, DraftsAreUnsaved,
                      Conversation!GoneStaysGone, Conversation!Blocked
  <2> QED BY <2>8, <2>9, <2>10, <2>12, <2>13, <2>14 DEF ConversationInvariant
<1>4. CASE Conversation!FailMessage
  <2>1. /\ queue # <<>> /\ queue[1].step = "message" /\ queue' = Tail(queue) /\ failed' = TRUE
        /\ UNCHANGED <<listed, draft, version, saves, row, messages, removal, gone>>
    BY <1>4 DEF Conversation!FailMessage
  <2>2. queue' \in Seq(QueueItem) /\ OthersWait'
    BY <1>0, <2>1, HeadLeaves DEF ConversationInvariant
  <2>3. ~draft /\ removal \in {"no", "queue"} /\ ~gone /\ listed
    BY <1>0, <2>1 DEF ConversationInvariant, RemovalHasWaited, DraftsAreUnsaved
  <2>4. Conversation!TypeOK'
    BY <1>0, <2>1, <2>2 DEF Conversation!TypeOK, QueueItem, SaveItem
  <2>5. WritesWait'
    BY <2>1 DEF ConversationInvariant, WritesWait, OfAWrite
  <2>6. LatestIsShown' /\ DraftsAreUnsaved'
    BY <2>1, <2>3 DEF LatestIsShown, DraftsAreUnsaved
  <2>7. RemovalHasWaited' /\ MessagesAreOnce' /\ Conversation!GoneStaysGone'
    BY <2>1, <2>3 DEF ConversationInvariant, RemovalHasWaited, MessagesAreOnce,
                      Conversation!GoneStaysGone
  <2> QED BY <2>2, <2>4, <2>5, <2>6, <2>7 DEF ConversationInvariant
<1>5. ASSUME NEW ok \in BOOLEAN, NEW i, Conversation!SaveAnswered(i, ok)
      PROVE  ConversationInvariant'
  <2> DEFINE by == saves[1].by
  <2>1. /\ saves # <<>> /\ row' = (IF ok THEN saves[1].version ELSE row)
        /\ failed' = (failed \/ ~ok)
        /\ draft' = (draft /\ ~(ok /\ by \in {"ensure", "title"}))
        /\ queue' = Conversation!Resumed(by, ok) /\ saves' = Tail(saves)
        /\ UNCHANGED <<listed, version, messages, removal, gone>>
    <3>1. i = 1 /\ 1 \in DOMAIN saves
      BY <1>5 DEF Conversation!SaveAnswered, Conversation!AtDatabase
    <3>2. saves # <<>>
      BY <3>1, EmptySeq
    <3> QED BY <1>0, <1>5, <3>1, <3>2, HeadRemoved DEF Conversation!SaveAnswered
  <2>2. saves[1] \in SaveItem /\ by \in {"ensure", "touch", "edit", "title"} /\ 1 \in DOMAIN saves
    BY <1>0, <2>1 DEF SaveItem
  <2>3. /\ saves' \in Seq(SaveItem) /\ DOMAIN saves' = 1 .. Len(saves) - 1
        /\ Len(saves') = Len(saves) - 1 /\ Len(saves') \in Nat
        /\ \A j \in DOMAIN saves' : j + 1 \in DOMAIN saves /\ saves'[j] = saves[j + 1]
        /\ OfAWrite(saves[1]) => \A j \in DOMAIN saves' : ~OfAWrite(saves'[j])
    BY <2>1, SaveLeaves
  <2>4. ok => Latest' = Latest
    <3>1. CASE saves' = <<>>
      <4>1. Len(saves) = 1
        <5>1. Len(saves') = 0
          BY <3>1
        <5>2. Len(saves') = Len(saves) - 1 /\ Len(saves) \in Nat
          BY <1>0, <2>3
        <5> QED BY <5>1, <5>2
      <4> QED BY <2>1, <3>1, <4>1 DEF Latest
    <3>2. CASE saves' # <<>>
      <4>1. Len(saves') \in DOMAIN saves'
        BY <1>0, <2>3, <3>2, EmptySeq
      <4>2. saves'[Len(saves')] = saves[Len(saves)]
        <5>1. saves'[Len(saves')] = saves[Len(saves') + 1]
          BY <2>3, <4>1
        <5>2. Len(saves') + 1 = Len(saves)
          <6>1. Len(saves') = Len(saves) - 1 /\ Len(saves) \in Nat
            BY <1>0, <2>3
          <6> QED BY <6>1
        <5> QED BY <5>1, <5>2
      <4> QED BY <2>1, <3>2, <4>2 DEF Latest
    <3> QED BY <3>1, <3>2
  <2>5. ~gone /\ removal # "store" /\ row' \in 0 .. MaxVersion
    BY <1>0, <2>1, <2>2, Bounds DEF ConversationInvariant, RemovalHasWaited, SaveItem
  <2>6. queue' \in Seq(QueueItem) /\ OthersWait' /\ WritesWait'
        /\ (by \in {"edit", "title"} => queue' = queue)
        /\ (ok /\ by = "ensure" => queue' # <<>> /\ queue'[1].step = "message")
        /\ (by = "ensure" => queue # <<>> /\ queue[1].step = "ensuring")
        /\ (by = "touch" => queue # <<>> /\ queue[1].step = "touching")
        /\ (~ok /\ by = "ensure" => \A j \in DOMAIN queue' : queue'[j].step = "ensure")
        /\ (queue = <<>> => queue' = <<>>)
    <3>1. CASE ok /\ by = "ensure"
      <4>1. queue # <<>> /\ queue[1].step = "ensuring" /\ queue' = Conversation!Turns("message")
        BY <2>1, <2>2, <3>1 DEF Conversation!Resumed, ConversationInvariant, WritesWait, OfAWrite
      <4>2. /\ queue' \in Seq(QueueItem) /\ queue' # <<>> /\ Len(queue') = Len(queue)
            /\ queue'[1].step = "message"
            /\ \A j \in DOMAIN queue : j > 1 => queue'[j] = queue[j]
        BY <1>0, <4>1, HeadTurns
      <4>3. DOMAIN queue' = DOMAIN queue
        BY <1>0, <4>2, LenProperties
      <4>4. OthersWait'
        BY <4>2, <4>3 DEF ConversationInvariant, OthersWait
      <4>5. WritesWait'
        BY <2>3, <3>1 DEF WritesWait, OfAWrite
      <4> QED BY <3>1, <4>1, <4>2, <4>4, <4>5
    <3>2. CASE by = "touch" \/ (~ok /\ by = "ensure")
      <4>1. /\ queue # <<>> /\ queue' = Tail(queue)
            /\ queue[1].step = IF by = "ensure" THEN "ensuring" ELSE "touching"
        BY <2>1, <2>2, <3>2 DEF Conversation!Resumed, ConversationInvariant, WritesWait, OfAWrite
      <4>2. /\ queue' \in Seq(QueueItem) /\ OthersWait'
            /\ \A j \in DOMAIN queue' : queue'[j].step = "ensure"
        BY <1>0, <4>1, HeadLeaves DEF ConversationInvariant
      <4>3. WritesWait'
        BY <2>3, <3>2 DEF WritesWait, OfAWrite
      <4> QED BY <3>2, <4>1, <4>2, <4>3
    <3>3. CASE by \in {"edit", "title"}
      <4>1. queue' = queue
        BY <2>1, <3>3 DEF Conversation!Resumed
      <4>2. WritesWait'
        <5>1. SUFFICES ASSUME NEW j \in DOMAIN saves', OfAWrite(saves'[j])
                       PROVE  /\ queue # <<>>
                              /\ queue[1].step = (IF saves'[j].by = "ensure" THEN "ensuring"
                                                                             ELSE "touching")
                              /\ \A k \in DOMAIN saves' : OfAWrite(saves'[k]) => j = k
          BY <4>1 DEF WritesWait, OfAWrite
        <5>2. j + 1 \in DOMAIN saves /\ OfAWrite(saves[j + 1]) /\ saves'[j] = saves[j + 1]
          BY <2>3, <5>1 DEF OfAWrite
        <5>3. /\ queue # <<>>
              /\ queue[1].step = (IF saves'[j].by = "ensure" THEN "ensuring" ELSE "touching")
          BY <5>2 DEF ConversationInvariant, WritesWait
        <5>4. ASSUME NEW k \in DOMAIN saves', OfAWrite(saves'[k])
              PROVE  j = k
          <6>1. k + 1 \in DOMAIN saves /\ OfAWrite(saves[k + 1])
            BY <2>3, <5>4 DEF OfAWrite
          <6>2. j + 1 = k + 1
            BY <5>2, <6>1 DEF ConversationInvariant, WritesWait
          <6> QED BY <2>3, <6>2
        <5> QED BY <5>3, <5>4
      <4>3. OthersWait'
        BY <4>1 DEF ConversationInvariant, OthersWait
      <4> QED BY <1>0, <3>3, <4>1, <4>2, <4>3
    <3> QED BY <2>2, <3>1, <3>2, <3>3
  <2>7. Conversation!TypeOK'
    BY <1>0, <2>1, <2>3, <2>5, <2>6 DEF Conversation!TypeOK, QueueItem, SaveItem
  <2>8. DraftsAreUnsaved'
    <3>1. SUFFICES ASSUME draft, draft' PROVE DraftsAreUnsaved'
      BY <2>1 DEF DraftsAreUnsaved
    <3>2. by \in {"ensure", "title"} /\ ~ok /\ failed'
      BY <2>1, <2>2, <3>1 DEF ConversationInvariant, DraftsAreUnsaved
    <3>3. row' = 0 /\ messages' = <<>> /\ ~gone'
      BY <2>1, <3>1, <3>2 DEF ConversationInvariant, DraftsAreUnsaved
    <3>4. \A j \in DOMAIN saves' : saves'[j].by \in {"ensure", "title"}
      BY <2>3, <3>1 DEF ConversationInvariant, DraftsAreUnsaved
    <3>5. \A j \in DOMAIN queue' : queue'[j].step \in {"ensure", "ensuring"}
      BY <2>6, <3>1, <3>2 DEF ConversationInvariant, DraftsAreUnsaved
    <3> QED BY <3>2, <3>3, <3>4, <3>5 DEF DraftsAreUnsaved
  <2>9. LatestIsShown'
    <3>1. SUFFICES ASSUME listed, ~draft', ok, ~failed, ~Conversation!Blocked
                   PROVE  Latest' = version \/ (queue' # <<>> /\ queue'[1].step # "touching")
      BY <1>0, <2>1 DEF LatestIsShown, Conversation!Blocked
    <3>2. CASE by = "ensure"
      BY <2>6, <3>1, <3>2
    <3>3. CASE by # "ensure"
      <4>1. ~draft \/ by = "title"
        BY <2>2, <3>1, <3>3, <2>1
      <4>2. CASE ~draft
        <5>1. Latest = version \/ (queue # <<>> /\ queue[1].step # "touching")
          BY <3>1, <4>2 DEF ConversationInvariant, LatestIsShown
        <5> QED BY <2>2, <2>4, <2>6, <3>1, <3>3, <5>1
      <4>3. CASE draft /\ by = "title"
        <5>1. queue # <<>> /\ queue[1].step \in {"ensure", "ensuring"}
          BY <1>0, <2>2, <3>1, <4>3 DEF ConversationInvariant, DraftsAreUnsaved
        <5> QED BY <2>6, <4>3, <5>1
      <4> QED BY <4>1, <4>2, <4>3
    <3> QED BY <3>2, <3>3
  <2>10. RemovalHasWaited' /\ MessagesAreOnce' /\ Conversation!GoneStaysGone'
    BY <2>1, <2>5, <2>6 DEF ConversationInvariant, RemovalHasWaited, MessagesAreOnce,
                      Conversation!GoneStaysGone
  <2> QED BY <2>6, <2>7, <2>8, <2>9, <2>10 DEF ConversationInvariant
<1>6. ASSUME NEW by \in {"edit", "title"}, listed, version' = version + 1,
             version' \in 1 .. MaxVersion, saves' = Conversation!Chain(version', by),
             draft => by = "title" /\ (queue # <<>> \/ failed),
             draft' = (draft /\ ~Conversation!Blocked),
             UNCHANGED <<listed, queue, row, messages, removal, gone, failed>>
      PROVE  ConversationInvariant'
  <2> USE <1>6
  <2>1. CASE Conversation!Blocked
    <3>1. saves' = saves /\ draft' = FALSE
      BY <1>0, <2>1 DEF Conversation!Chain
    <3>2. Conversation!TypeOK'
      BY <1>0, <3>1 DEF Conversation!TypeOK, QueueItem, SaveItem
    <3>3. WritesWait' /\ OthersWait' /\ DraftsAreUnsaved'
      BY <3>1 DEF ConversationInvariant, WritesWait, OthersWait, DraftsAreUnsaved, OfAWrite
    <3>4. LatestIsShown'
      BY <2>1 DEF LatestIsShown, Conversation!Blocked
    <3>5. RemovalHasWaited' /\ MessagesAreOnce' /\ Conversation!GoneStaysGone'
      BY <3>1 DEF ConversationInvariant, RemovalHasWaited, MessagesAreOnce,
                  Conversation!GoneStaysGone
    <3> QED BY <3>2, <3>3, <3>4, <3>5 DEF ConversationInvariant
  <2>2. CASE ~Conversation!Blocked
    <3>1. draft' = draft
      BY <1>0, <2>2
    <3>2. /\ saves' \in Seq(SaveItem) /\ saves' # <<>> /\ Latest' = version'
          /\ \A i \in DOMAIN saves' : \/ i \in DOMAIN saves /\ saves'[i] = saves[i]
                                      \/ i = Len(saves) + 1 /\ saves'[i].by = by
          /\ Len(saves) + 1 \notin DOMAIN saves
      BY <2>2, SaveFollows
    <3>3. Conversation!TypeOK'
      BY <1>0, <3>1, <3>2 DEF Conversation!TypeOK, QueueItem, SaveItem
    <3>4. WritesWait'
      <4>1. \A i \in DOMAIN saves' : OfAWrite(saves'[i]) =>
               i \in DOMAIN saves /\ saves'[i] = saves[i] /\ OfAWrite(saves[i])
        BY <3>2 DEF OfAWrite
      <4>2. queue' = queue
        OBVIOUS
      <4> HIDE <1>6
      <4> QED BY <4>1, <4>2 DEF ConversationInvariant, WritesWait, OfAWrite
    <3>5. OthersWait'
      BY DEF ConversationInvariant, OthersWait
    <3>8. DraftsAreUnsaved'
      BY <3>1, <3>2 DEF ConversationInvariant, DraftsAreUnsaved
    <3>6. LatestIsShown'
      BY <3>2 DEF LatestIsShown
    <3>7. RemovalHasWaited' /\ MessagesAreOnce' /\ Conversation!GoneStaysGone'
      BY <2>2 DEF ConversationInvariant, RemovalHasWaited, MessagesAreOnce,
                  Conversation!GoneStaysGone, Conversation!Blocked
    <3> QED BY <3>3, <3>4, <3>5, <3>6, <3>7, <3>8 DEF ConversationInvariant
  <2> QED BY <2>1, <2>2
<1>7. CASE Conversation!Edit
  <2>1. /\ listed /\ version' = version + 1 /\ version' \in 1 .. MaxVersion
        /\ saves' = (IF draft THEN saves ELSE Conversation!Chain(version', "edit"))
        /\ UNCHANGED <<listed, draft, queue, row, messages, removal, gone, failed>>
    BY <1>0, <1>7, Bounds DEF Conversation!Edit
  <2>2. CASE ~draft
    <3>1. saves' = Conversation!Chain(version', "edit") /\ draft' = (draft /\ ~Conversation!Blocked)
      BY <1>0, <2>1, <2>2
    <3> QED BY <1>6, <2>1, <2>2, <3>1
  <2>3. CASE draft
    <3>1. saves' = saves
      BY <2>1, <2>3
    <3>2. Conversation!TypeOK'
      BY <1>0, <2>1, <3>1 DEF Conversation!TypeOK, QueueItem, SaveItem
    <3>3. WritesWait' /\ OthersWait' /\ DraftsAreUnsaved'
      BY <2>1, <3>1 DEF ConversationInvariant, WritesWait, OthersWait, DraftsAreUnsaved, OfAWrite
    <3>4. LatestIsShown'
      BY <2>1, <2>3 DEF LatestIsShown
    <3>5. RemovalHasWaited' /\ MessagesAreOnce' /\ Conversation!GoneStaysGone'
      BY <2>1, <3>1 DEF ConversationInvariant, RemovalHasWaited, MessagesAreOnce,
                        Conversation!GoneStaysGone
    <3> QED BY <3>2, <3>3, <3>4, <3>5 DEF ConversationInvariant
  <2> QED BY <1>0, <2>2, <2>3
<1>8. CASE Conversation!Title
  <2>1. /\ listed /\ version' = version + 1 /\ version' \in 1 .. MaxVersion
        /\ (draft => queue # <<>> \/ failed)
        /\ draft' = (draft /\ ~Conversation!Blocked)
        /\ saves' = Conversation!Chain(version', "title")
        /\ UNCHANGED <<listed, queue, row, messages, removal, gone, failed>>
    BY <1>0, <1>8, Bounds DEF Conversation!Title
  <2> QED BY <1>6, <2>1
<1>9. CASE Conversation!StartRemoval
  <2>1. /\ listed /\ removal = "no" /\ ~gone /\ removal' = "queue"
        /\ UNCHANGED <<listed, draft, version, queue, saves, row, messages, gone, failed>>
    BY <1>9 DEF Conversation!StartRemoval
  <2>2. Conversation!TypeOK'
    BY <1>0, <2>1 DEF Conversation!TypeOK, QueueItem, SaveItem
  <2>3. WritesWait' /\ OthersWait' /\ DraftsAreUnsaved' /\ MessagesAreOnce'
    BY <2>1 DEF ConversationInvariant, WritesWait, OthersWait, DraftsAreUnsaved, OfAWrite,
                MessagesAreOnce
  <2>4. LatestIsShown' /\ RemovalHasWaited' /\ Conversation!GoneStaysGone'
    BY <2>1 DEF ConversationInvariant, LatestIsShown, Latest, Conversation!Blocked,
                RemovalHasWaited, Conversation!GoneStaysGone
  <2> QED BY <2>2, <2>3, <2>4 DEF ConversationInvariant
<1>10. CASE Conversation!RemoveAfterMessages
  <2>1. /\ queue = <<>> /\ removal = "queue" /\ removal' = "saves"
        /\ UNCHANGED <<listed, draft, version, queue, saves, row, messages, gone, failed>>
    BY <1>10 DEF Conversation!RemoveAfterMessages, Conversation!MessagesStored
  <2>2. Conversation!TypeOK'
    BY <1>0, <2>1 DEF Conversation!TypeOK, QueueItem, SaveItem
  <2>3. WritesWait' /\ OthersWait' /\ DraftsAreUnsaved' /\ MessagesAreOnce'
    BY <2>1 DEF ConversationInvariant, WritesWait, OthersWait, DraftsAreUnsaved, OfAWrite,
                MessagesAreOnce
  <2>4. LatestIsShown' /\ RemovalHasWaited' /\ Conversation!GoneStaysGone'
    BY <2>1 DEF ConversationInvariant, LatestIsShown, Conversation!Blocked,
                RemovalHasWaited, Conversation!GoneStaysGone
  <2> QED BY <2>2, <2>3, <2>4 DEF ConversationInvariant
<1>11. CASE Conversation!RemoveAfterSaves
  <2>1. /\ saves = <<>> /\ queue = <<>> /\ removal = "saves"
        /\ UNCHANGED <<version, queue, saves, row, messages, failed>>
    BY <1>11 DEF Conversation!RemoveAfterSaves, Conversation!SavesAnswered,
                 ConversationInvariant, RemovalHasWaited
  <2>2. \/ draft /\ listed' = FALSE /\ draft' = FALSE /\ gone' = TRUE /\ removal' = "no"
        \/ ~draft /\ removal' = "store" /\ UNCHANGED <<listed, draft, gone>>
    BY <1>11 DEF Conversation!RemoveAfterSaves
  <2>3. draft => row = 0 /\ messages = <<>>
    BY DEF ConversationInvariant, DraftsAreUnsaved
  <2>4. Conversation!TypeOK'
    BY <1>0, <2>1, <2>2 DEF Conversation!TypeOK, QueueItem, SaveItem
  <2>5. WritesWait' /\ OthersWait' /\ MessagesAreOnce'
    BY <2>1 DEF ConversationInvariant, WritesWait, OthersWait, OfAWrite, MessagesAreOnce
  <2>6. DraftsAreUnsaved' /\ RemovalHasWaited' /\ Conversation!GoneStaysGone'
    BY <2>1, <2>2, <2>3 DEF ConversationInvariant, DraftsAreUnsaved, RemovalHasWaited,
                            Conversation!GoneStaysGone
  <2>7. LatestIsShown'
    BY <2>2 DEF LatestIsShown, Conversation!Blocked
  <2> QED BY <2>4, <2>5, <2>6, <2>7 DEF ConversationInvariant
<1>12. ASSUME NEW ok \in BOOLEAN, Conversation!DeleteAnswered(ok)
       PROVE  ConversationInvariant'
  <2>1. /\ removal = "store" /\ removal' = "no" /\ UNCHANGED <<draft, version, queue, saves>>
        /\ queue = <<>> /\ saves = <<>> /\ ~draft
    BY <1>12 DEF Conversation!DeleteAnswered, ConversationInvariant, RemovalHasWaited
  <2>2. \/ /\ row' = 0 /\ messages' = <<>> /\ listed' = FALSE /\ gone' = TRUE
           /\ failed' = failed
        \/ failed' = TRUE /\ UNCHANGED <<row, messages, listed, gone>>
    BY <1>12 DEF Conversation!DeleteAnswered
  <2>3. messages' \in Seq(Messages) /\ Len(messages') <= Retention
    <3>1. Len(<<>>) = 0 /\ 0 <= Retention /\ <<>> \in Seq(Messages)
      BY EmptySeq, Bounds
    <3> QED BY <1>0, <2>2, <3>1
  <2>9. row' \in 0 .. MaxVersion /\ listed' \in BOOLEAN /\ gone' \in BOOLEAN /\ failed' \in BOOLEAN
    <3>1. 0 \in 0 .. MaxVersion
      BY Bounds
    <3>2. row' = 0 \/ row' = row
      BY <2>2
    <3> QED BY <1>0, <2>2, <3>1, <3>2
  <2>4. Conversation!TypeOK'
    BY <1>0, <2>1, <2>3, <2>9 DEF Conversation!TypeOK, QueueItem, SaveItem
  <2>5. WritesWait' /\ OthersWait'
    BY <2>1 DEF ConversationInvariant, WritesWait, OthersWait, OfAWrite
  <2>6. MessagesAreOnce'
    BY <2>2, EmptySeq DEF ConversationInvariant, MessagesAreOnce
  <2>7. DraftsAreUnsaved' /\ RemovalHasWaited' /\ Conversation!GoneStaysGone'
    BY <2>1, <2>2 DEF ConversationInvariant, DraftsAreUnsaved, RemovalHasWaited,
                      Conversation!GoneStaysGone
  <2>8. LatestIsShown'
    BY <2>1, <2>2 DEF LatestIsShown
  <2> QED BY <2>4, <2>5, <2>6, <2>7, <2>8 DEF ConversationInvariant
<1>13. CASE Conversation!Restart
  <2>1. /\ listed' = (row # 0 /\ messages # <<>>)
        /\ version' = (IF row = 0 THEN version ELSE row) /\ draft' = FALSE
        /\ queue' = <<>> /\ saves' = <<>> /\ removal' = "no" /\ failed' = FALSE
        /\ UNCHANGED <<row, messages, gone>>
    BY <1>13 DEF Conversation!Restart
  <2>2. queue' \in Seq(QueueItem) /\ saves' \in Seq(SaveItem)
    BY <2>1
  <2>6. version' \in 1 .. MaxVersion /\ listed' \in BOOLEAN
    BY <1>0, <2>1, Bounds
  <2>3. Conversation!TypeOK'
    BY <1>0, <2>1, <2>2, <2>6 DEF Conversation!TypeOK, QueueItem, SaveItem
  <2>4. WritesWait' /\ OthersWait' /\ MessagesAreOnce' /\ DraftsAreUnsaved'
    BY <2>1 DEF ConversationInvariant, WritesWait, OthersWait, MessagesAreOnce, DraftsAreUnsaved
  <2>5. LatestIsShown' /\ RemovalHasWaited' /\ Conversation!GoneStaysGone'
    BY <2>1 DEF ConversationInvariant, LatestIsShown, Latest, RemovalHasWaited,
                Conversation!GoneStaysGone
  <2> QED BY <2>3, <2>4, <2>5 DEF ConversationInvariant
<1> QED
  BY <1>0, <1>1, <1>2, <1>3, <1>4, <1>5, <1>7, <1>8, <1>9, <1>10, <1>11, <1>12, <1>13
  DEF Conversation!Next, Conversation!Answers, Conversation!Continues, Conversation!Removes

(* A conversation starts as an empty draft.                                    *)
LEMMA ConversationStarts ==
  ASSUME Conversation!Init
  PROVE  ConversationInvariant
<1>1. /\ listed = TRUE /\ draft = TRUE /\ version = 1 /\ queue = <<>> /\ saves = <<>>
      /\ row = 0 /\ messages = <<>> /\ removal = "no" /\ gone = FALSE /\ failed = FALSE
  BY DEF Conversation!Init
<1>2. queue \in Seq(QueueItem) /\ saves \in Seq(SaveItem) /\ messages \in Seq(Messages)
      /\ Len(messages) = 0
  BY <1>1
<1>3. 1 \in 1 .. MaxVersion /\ 0 \in 0 .. MaxVersion /\ 0 <= Retention
  BY Bounds
<1>4. Conversation!TypeOK
  BY <1>1, <1>2, <1>3 DEF Conversation!TypeOK, QueueItem, SaveItem
<1>5. DOMAIN queue = {} /\ DOMAIN saves = {} /\ DOMAIN messages = {}
  BY <1>1
<1> QED BY <1>1, <1>4, <1>5 DEF ConversationInvariant, WritesWait, OthersWait,
           DraftsAreUnsaved, RemovalHasWaited, LatestIsShown, MessagesAreOnce,
           Conversation!GoneStaysGone

(* The steps of the other parts keep it, too.                                  *)
LEMMA ConversationStutters ==
  ASSUME ConversationInvariant, UNCHANGED conversation
  PROVE  ConversationInvariant'
<1>1. /\ listed' = listed /\ draft' = draft /\ version' = version /\ queue' = queue
      /\ saves' = saves /\ row' = row /\ messages' = messages /\ removal' = removal
      /\ gone' = gone /\ failed' = failed
  BY DEF conversation
<1>2. Conversation!TypeOK'
  BY <1>1 DEF ConversationInvariant, Conversation!TypeOK
<1>3. WritesWait' /\ OthersWait' /\ DraftsAreUnsaved' /\ MessagesAreOnce'
  BY <1>1 DEF ConversationInvariant, WritesWait, OthersWait, DraftsAreUnsaved, OfAWrite,
              MessagesAreOnce
<1>4. LatestIsShown' /\ RemovalHasWaited' /\ Conversation!GoneStaysGone'
  BY <1>1 DEF ConversationInvariant, LatestIsShown, Latest, Conversation!Blocked,
              RemovalHasWaited, Conversation!GoneStaysGone
<1> QED BY <1>2, <1>3, <1>4 DEF ConversationInvariant

(* The order of the messages: only storing one and removing all change them.    *)
LEMMA MessagesKeepOrder ==
  ASSUME ConversationInvariant, Conversation!Next \/ UNCHANGED conversation
  PROVE  Conversation!OrderIsKept
<1>1. CASE messages' = messages
  <2>1. DOMAIN messages = 1 .. Len(messages)
    BY ConversationTypes
  <2>2. \A i, j \in DOMAIN messages : messages[i] = messages[j] => i = j
    BY DEF ConversationInvariant, MessagesAreOnce
  <2>3. SUFFICES ASSUME NEW i \in DOMAIN messages, NEW j \in DOMAIN messages, i < j,
                        NEW k \in DOMAIN messages, NEW l \in DOMAIN messages, k < l,
                        messages[k] = messages[j], messages[l] = messages[i]
                 PROVE  FALSE
    BY <1>1 DEF Conversation!OrderIsKept
  <2>4. k = j /\ l = i
    BY <2>2, <2>3
  <2> QED BY <2>1, <2>3, <2>4, ConversationTypes
<1>2. CASE messages' = <<>>
  BY <1>2 DEF Conversation!OrderIsKept
<1>3. CASE Conversation!StoreMessage
  <2>1. queue # <<>> /\ messages' = Conversation!Newest(Conversation!Upsert(messages, queue[1].id))
    BY <1>3 DEF Conversation!StoreMessage
  <2>2. queue[1] \in QueueItem
    BY <2>1, ConversationTypes
  <2>3. queue[1].id \in Messages
    BY <2>2 DEF QueueItem
  <2> QED BY <2>1, <2>3, MessageStored
<1>4. Conversation!Next /\ ~Conversation!StoreMessage =>
        messages' = messages \/ messages' = <<>>
  BY DEF Conversation!Next, Conversation!Answers, Conversation!Continues, Conversation!Removes,
         Conversation!QueueMessage, Conversation!SaveAnswered, Conversation!DeleteAnswered,
         Conversation!FailMessage, Conversation!Ensure, Conversation!RemoveAfterMessages,
         Conversation!RemoveAfterSaves, Conversation!Edit, Conversation!Title,
         Conversation!StartRemoval, Conversation!Restart
<1> QED BY <1>1, <1>2, <1>3, <1>4 DEF conversation

(* What the window and the database say of a conversation fits, whichever of    *)
(* its saves and messages are on their way.                                    *)
THEOREM ConversationHolds == Spec => []ConversationInvariant
<1>1. Init => ConversationInvariant
  BY ConversationStarts DEF Init
<1>2. ConversationInvariant /\ [Next]_vars => ConversationInvariant'
  <2> SUFFICES ASSUME ConversationInvariant, [Next]_vars PROVE ConversationInvariant'
    OBVIOUS
  <2>1. Conversation!Next \/ UNCHANGED conversation
    BY DEF Next, vars
  <2> QED BY <2>1, ConversationStep, ConversationStutters
<1> QED BY <1>1, <1>2, PTL DEF Spec

(* ConversationsAreKept: a removed conversation does not come back, the last    *)
(* version is the one that is stored, and messages keep their order            *)
(* (deleteAiSession, saveWorkspaceSession, upsert_ai_conversation_message), for *)
(* any messages, versions and limits.                                          *)
THEOREM ConversationsStay == Spec => ConversationsAreKept
<1>1. ConversationInvariant => Conversation!GoneStaysGone /\ Conversation!LastVersionIsStored
  BY DEF ConversationInvariant, LatestIsShown, Latest, Conversation!LastVersionIsStored,
         Conversation!GoneStaysGone, Conversation!Blocked
<1>2. ConversationInvariant /\ [Next]_vars => Conversation!OrderIsKept
  <2> SUFFICES ASSUME ConversationInvariant, [Next]_vars PROVE Conversation!OrderIsKept
    OBVIOUS
  <2>1. Conversation!Next \/ UNCHANGED conversation
    BY DEF Next, vars
  <2> QED BY <2>1, MessagesKeepOrder
<1>3. ConversationInvariant' => (Conversation!GoneStaysGone /\ Conversation!LastVersionIsStored)'
  BY <1>1, PTL
<1>4. ConversationInvariant /\ ConversationInvariant' /\ [Next]_vars =>
        [/\ (Conversation!GoneStaysGone /\ Conversation!LastVersionIsStored)'
         /\ Conversation!OrderIsKept]_vars
  BY <1>2, <1>3
<1> QED BY <1>4, ConversationHolds, PTL DEF Spec, ConversationsAreKept

-----------------------------------------------------------------------------
(* Sums.  A sum is what a recursive function over the subsets of a finite set     *)
(* says of the whole; that there is such a function is to be shown.              *)

Picked(s) == CHOOSE x \in s : TRUE
Added(g, h, s) == IF s = {} THEN 0 ELSE g[Picked(s)] + h[s \ {Picked(s)}]
Adds(g, S, h) == h = [s \in SUBSET S |-> Added(g, h, s)]

(* The sum of a function is what such a function says of its whole domain.      *)
LEMMA SumIsAdded ==
  ASSUME NEW g
  PROVE  Folder!Sum(g) = (CHOOSE h : Adds(g, DOMAIN g, h))[DOMAIN g]
BY DEF Folder!Sum, Folder!MapThenSumSet, Folder!MapThenFoldSet, Adds, Added, Picked

(* What is left of a set that is not empty is less.                             *)
LEMMA PickedIsOf ==
  ASSUME NEW s, s # {}
  PROVE  Picked(s) \in s /\ s \ {Picked(s)} \subseteq s /\ s \ {Picked(s)} # s
<1>1. Picked(s) \in s
  BY DEF Picked
<1> QED BY <1>1

(* A property of the subsets of a finite set that fails has a least set it fails of. *)
LEMMA LeastSubset ==
  ASSUME NEW D, IsFiniteSet(D), NEW B, B \subseteq SUBSET D, B # {}
  PROVE  \E s \in B : \A t \in B : ~(t \subseteq s /\ t # s)
<1>1. IsWellFoundedOn(StrictSubsetOrdering(D), FiniteSubsetsOf(D))
  BY FS_StrictSubsetOrderingWellFounded
<1>2. B \subseteq FiniteSubsetsOf(D)
  BY FS_FiniteSubsetsOfFinite
<1>3. PICK s \in B : \A t \in B : ~(<<t, s>> \in StrictSubsetOrdering(D))
  BY <1>1, <1>2, WFMin
<1>4. ASSUME NEW t \in B, t \subseteq s, t # s
      PROVE  FALSE
  <2>1. <<t, s>> \in StrictSubsetOrdering(D)
    BY <1>4 DEF StrictSubsetOrdering
  <2> QED BY <1>3, <2>1
<1> QED BY <1>4

(* Where two of them say something, they say the same.                          *)
LEMMA AddsAlike ==
  ASSUME NEW g, NEW S, IsFiniteSet(S), NEW T, NEW h, NEW k, Adds(g, S, h), Adds(g, T, k),
         NEW u \in SUBSET S, u \in SUBSET T
  PROVE  h[u] = k[u]
<1> DEFINE B == {s \in SUBSET S : s \subseteq T /\ h[s] # k[s]}
<1>1. SUFFICES ASSUME B # {} PROVE FALSE
  OBVIOUS
<1>2. PICK s \in B : \A t \in B : ~(t \subseteq s /\ t # s)
  <2>1. B \subseteq SUBSET S
    OBVIOUS
  <2> HIDE DEF B
  <2> QED BY <1>1, <2>1, LeastSubset
<1>3. h[s] = Added(g, h, s) /\ k[s] = Added(g, k, s)
  <2>1. s \in SUBSET S /\ s \in SUBSET T
    OBVIOUS
  <2>2. h = [t \in SUBSET S |-> Added(g, h, t)] /\ k = [t \in SUBSET T |-> Added(g, k, t)]
    BY DEF Adds
  <2>3. h[s] = [t \in SUBSET S |-> Added(g, h, t)][s] /\ k[s] = [t \in SUBSET T |-> Added(g, k, t)][s]
    BY <2>2, Zenon
  <2> QED BY <2>1, <2>3
<1>4. CASE s = {}
  BY <1>3, <1>4 DEF Added
<1>5. CASE s # {}
  <2> DEFINE t == s \ {Picked(s)}
  <2>1. t \subseteq s /\ t # s
    BY <1>5, PickedIsOf
  <2>2. t \notin B
    BY <1>2, <2>1
  <2>3. h[t] = k[t]
    BY <2>1, <2>2
  <2> QED BY <1>3, <1>5, <2>3 DEF Added
<1> QED BY <1>4, <1>5

(* There is one over every finite set, and it adds numbers to a number.           *)
LEMMA AddsSomething ==
  ASSUME NEW g, NEW D, IsFiniteSet(D), \A x \in D : g[x] \in Nat
  PROVE  \E h \in [SUBSET D -> Nat] : Adds(g, D, h)
<1> DEFINE Good(S) == \E h \in [SUBSET S -> Nat] : Adds(g, S, h)
           B == {S \in SUBSET D : ~Good(S)}
<1>1. SUFFICES ASSUME B # {} PROVE FALSE
  OBVIOUS
<1>2. PICK S \in B : \A t \in B : ~(t \subseteq S /\ t # S)
  <2>1. B \subseteq SUBSET D
    OBVIOUS
  <2> HIDE DEF B
  <2> QED BY <1>1, <2>1, LeastSubset
<1>3. S \in SUBSET D /\ ~Good(S)
  OBVIOUS
<1>4. \A t \in SUBSET S : t # S => Good(t)
  BY <1>2
<1> DEFINE Of(t) == CHOOSE h \in [SUBSET t -> Nat] : Adds(g, t, h)
           k == [s \in SUBSET S |-> IF s = {} THEN 0
                                    ELSE g[Picked(s)] + Of(s \ {Picked(s)})[s \ {Picked(s)}]]
<1>5. \A t \in SUBSET S : t # S => Of(t) \in [SUBSET t -> Nat] /\ Adds(g, t, Of(t))
  BY <1>4
<1> HIDE DEF Good, B, Of
<1>6. ASSUME NEW s \in SUBSET S, s # {}
      PROVE  /\ Picked(s) \in s /\ s \ {Picked(s)} \in SUBSET S /\ s \ {Picked(s)} # S
             /\ s \ {Picked(s)} # s
  BY <1>6, PickedIsOf
<1>7. k \in [SUBSET S -> Nat]
  <2> SUFFICES ASSUME NEW s \in SUBSET S, s # {}
               PROVE  g[Picked(s)] + Of(s \ {Picked(s)})[s \ {Picked(s)}] \in Nat
    OBVIOUS
  <2>1. g[Picked(s)] \in Nat
    BY <1>3, <1>6
  <2> DEFINE t == s \ {Picked(s)}
  <2>2. t \in SUBSET S /\ t # S
    BY <1>6
  <2> HIDE DEF t
  <2>3. Of(t)[t] \in Nat
    BY <1>5, <2>2
  <2> QED BY <2>1, <2>3 DEF t
<1>8. ASSUME NEW t \in SUBSET S, t # S
      PROVE  k[t] = Of(t)[t]
  <2>1. Of(t)[t] = Added(g, Of(t), t)
    <3>1. Of(t) = [s \in SUBSET t |-> Added(g, Of(t), s)]
      BY <1>5, <1>8 DEF Adds
    <3>2. Of(t)[t] = [s \in SUBSET t |-> Added(g, Of(t), s)][t]
      BY <3>1, Zenon
    <3> QED BY <3>2
  <2>2. CASE t = {}
    BY <2>1, <2>2 DEF Added
  <2>3. CASE t # {}
    <3> DEFINE u == t \ {Picked(t)}
    <3>1. u \in SUBSET S /\ u # S /\ u \in SUBSET t
      BY <1>6, <2>3
    <3>2. Adds(g, t, Of(t)) /\ Adds(g, u, Of(u))
      BY <1>5, <1>8, <3>1
    <3>3. IsFiniteSet(t)
      BY <1>3, FS_Subset
    <3>4. Of(t)[u] = Of(u)[u]
      <4> HIDE DEF u
      <4>1. u \in SUBSET u
        OBVIOUS
      <4> QED BY <3>1, <3>2, <3>3, <4>1, AddsAlike
    <3>5. k[t] = g[Picked(t)] + Of(u)[u]
      BY <2>3
    <3>6. Of(t)[t] = g[Picked(t)] + Of(t)[u]
      BY <2>1, <2>3 DEF Added
    <3> QED BY <3>4, <3>5, <3>6
  <2> QED BY <2>2, <2>3
<1>9. Adds(g, S, k)
  <2>1. ASSUME NEW s \in SUBSET S
        PROVE  k[s] = Added(g, k, s)
    <3>1. CASE s = {}
      BY <3>1 DEF Added
    <3>2. CASE s # {}
      <4> DEFINE t == s \ {Picked(s)}
      <4>1. t \in SUBSET S /\ t # S
        BY <1>6, <3>2
      <4>2. k[s] = g[Picked(s)] + Of(t)[t]
        BY <3>2
      <4> HIDE DEF k
      <4>3. k[t] = Of(t)[t]
        BY <1>8, <4>1
      <4>4. Added(g, k, s) = g[Picked(s)] + k[t]
        BY <3>2 DEF Added
      <4> QED BY <4>2, <4>3, <4>4
    <3> QED BY <3>1, <3>2
  <2>2. k = [s \in SUBSET S |-> k[s]]
    BY <1>7
  <2> HIDE DEF k
  <2>3. k = [s \in SUBSET S |-> Added(g, k, s)]
    BY <2>1, <2>2
  <2> QED BY <2>3 DEF Adds
<1> HIDE DEF k
<1> QED BY <1>3, <1>7, <1>9 DEF Good

(* A sum of numbers is a number.                                               *)
LEMMA SumIsNumber ==
  ASSUME NEW g, IsFiniteSet(DOMAIN g), \A x \in DOMAIN g : g[x] \in Nat
  PROVE  Folder!Sum(g) \in Nat
<1> DEFINE D == DOMAIN g
           iter == CHOOSE h : Adds(g, D, h)
<1>1. PICK h \in [SUBSET D -> Nat] : Adds(g, D, h)
  BY AddsSomething
<1>2. Adds(g, D, iter)
  BY <1>1
<1> HIDE DEF iter
<1>3. iter[D] = h[D]
  BY <1>1, <1>2, AddsAlike
<1>4. h[D] \in Nat
  BY <1>1
<1> QED BY <1>3, <1>4, SumIsAdded DEF iter
-----------------------------------------------------------------------------
(* The types of the run.                                                      *)

Names == {"root", "sub", "elsewhere"}

CountsAreTyped ==
  /\ folders \in Seq(Names) /\ \A f \in Folder!Files : wrote[f] \in -1 .. 1
  /\ counts \in [Folder!Workers -> Nat] /\ shown \in 0 .. 100

(* A file of the folder is of one piece at most.                               *)
LEMMA SizesAre == \A f \in Folder!Files : FileSizes[f] \in 0 .. 1
BY FilesAre DEF FileSizes

(* The plan's files have a size together.                                      *)
LEMMA TotalIsNumber ==
  ASSUME FolderInvariant
  PROVE  Folder!Total \in Nat
<1> DEFINE g == [i \in DOMAIN files |-> FileSizes[files[i]]]
<1>1. DOMAIN files = 1 .. Len(files) /\ Len(files) \in Nat /\ \A i \in DOMAIN files : files[i] \in Folder!Files
  BY WhatIs, LenProperties, ElementOfSeq
<1>2. IsFiniteSet(DOMAIN g)
  <2>1. 1 \in Int /\ Len(files) \in Int
    BY <1>1
  <2>2. IsFiniteSet(1 .. Len(files))
    BY <2>1, FS_Interval
  <2> QED BY <1>1, <2>2
<1>3. \A i \in DOMAIN g : g[i] \in Nat
  BY <1>1, SizesAre
<1>4. Folder!Total = Folder!Sum(g)
  BY DEF Folder!Total
<1> HIDE DEF g
<1> QED BY <1>2, <1>3, <1>4, SumIsNumber

(* What is shared out among some is a number.                                  *)
LEMMA QuotientIsNumber ==
  ASSUME NEW a \in Nat, NEW b \in Nat \ {0}
  PROVE  a \div b \in Nat
OBVIOUS

(* A percentage is one.                                                       *)
LEMMA PercentIsOne ==
  ASSUME FolderInvariant, NEW n \in Nat
  PROVE  Folder!Percent(n) \in 0 .. 100 /\ Folder!Percent(n) # 100
<1> DEFINE t == Folder!Total
<1>1. t \in Nat
  BY TotalIsNumber
<1>2. Folder!Percent(n) = IF t = 0 THEN 0 ELSE Folder!Least((n * 100) \div t, 99)
  BY DEF Folder!Percent
<1> HIDE DEF t
<1>3. CASE t = 0
  BY <1>2, <1>3
<1>4. CASE t # 0
  <2>1. n * 100 \in Nat
    OBVIOUS
  <2>2. (n * 100) \div t \in Nat
    BY <1>1, <1>4, <2>1, QuotientIsNumber
  <2>3. \A q \in Nat : Folder!Least(q, 99) \in 0 .. 100 /\ Folder!Least(q, 99) # 100
    BY DEF Folder!Least
  <2> QED BY <1>2, <1>4, <2>2, <2>3
<1> QED BY <1>3, <1>4

(* What is shown is a percentage, also when it is kept from going back.        *)
LEMMA ShownIsPercentage ==
  ASSUME shown \in 0 .. 100, NEW p \in 0 .. 100, Folder!Show(p)
  PROVE  shown' \in 0 .. 100
BY DEF Folder!Show

(* Every step of a transfer keeps these types.                                 *)
LEMMA CountsStep ==
  ASSUME FolderInvariant, CountsAreTyped, Folder!Next
  PROVE  CountsAreTyped'
<1> USE DEF CountsAreTyped
<1>1. CASE Folder!Scan
  <2>1. UNCHANGED <<wrote, counts, shown>>
    BY <1>1 DEF Folder!Scan, Folder!other, Folder!told
  <2>2. link \in {"root", "elsewhere", "nowhere"}
    BY DEF FolderInvariant, FolderTypes, PlaceTypes
  <2>3. folders' = folders \/ \E n \in Names : folders' = Append(folders, n)
    <3>1. Folder!Root \in Names /\ Folder!Sub \in Names /\ (link # "nowhere" => link \in Names)
      BY <2>2 DEF Names, Folder!Root, Folder!Sub
    <3> QED BY <1>1, <3>1 DEF Folder!Scan, Folder!Enter, Folder!plan, Folder!Follows
  <2>4. folders' \in Seq(Names)
    BY <2>3, AppendProperties
  <2> QED BY <2>1, <2>4
<1>2. CASE Folder!MakeFolder \/ Folder!Connect \/ Folder!Notice \/ Folder!Cancel
  <2>1. UNCHANGED <<folders, wrote, counts, shown>>
    BY <1>2 DEF Folder!MakeFolder, Folder!Connect, Folder!Notice, Folder!Cancel, Folder!plan,
                Folder!other, Folder!told
  <2> QED BY <2>1
<1>3. CASE Folder!Receive
  <2> DEFINE e == Head(channel)
             c == [counts EXCEPT ![e.worker] = e.pieces]
  <2>1. UNCHANGED <<folders, wrote>>
    BY <1>3 DEF Folder!Receive, Folder!plan, Folder!other
  <2>2. e \in Event
    BY <1>3, WhatIs, HeadTailProperties DEF Folder!Receive
  <2>3. c \in [Folder!Workers -> Nat]
    <3>1. e.pieces \in Nat
      BY <2>2 DEF Event
    <3> HIDE DEF e
    <3> QED BY <3>1
  <2>4. (counts' = counts \/ counts' = c) /\ (shown' = shown \/ Folder!Show(Folder!Percent(Folder!Sum(c))))
    BY <1>3 DEF Folder!Receive
  <2>5. Folder!Percent(Folder!Sum(c)) \in 0 .. 100
    <3>1. DOMAIN c = Folder!Workers /\ \A w \in DOMAIN c : c[w] \in Nat
      BY <2>3
    <3>2. IsFiniteSet(Folder!Workers)
      BY FS_Interval DEF Folder!Workers
    <3> HIDE DEF c
    <3>3. Folder!Sum(c) \in Nat
      BY <3>1, <3>2, SumIsNumber
    <3> QED BY <3>3, PercentIsOne
  <2> HIDE DEF c
  <2>6. shown' \in 0 .. 100
    BY <2>4, <2>5, ShownIsPercentage
  <2> QED BY <2>1, <2>3, <2>4, <2>6
<1>4. CASE Folder!Finish
  <2>1. UNCHANGED <<folders, wrote, counts>> /\ (shown' = shown \/ Folder!Show(100))
    BY <1>4 DEF Folder!Finish, Folder!plan, Folder!other
  <2>2. shown' \in 0 .. 100
    <3>1. 100 \in 0 .. 100
      OBVIOUS
    <3> QED BY <2>1, <3>1, ShownIsPercentage
  <2> QED BY <2>1, <2>2
<1>5. ASSUME NEW w \in Folder!Workers, Folder!Take(w) \/ Folder!Fail(w) \/ Folder!SendFailure(w)
      PROVE  CountsAreTyped'
  <2>1. UNCHANGED <<folders, wrote, counts, shown>>
    BY <1>5 DEF Folder!Take, Folder!Fail, Folder!SendFailure, Folder!plan, Folder!other, Folder!told
  <2> QED BY <2>1
<1>6. ASSUME NEW w \in Folder!Workers, Folder!Open(w)
      PROVE  CountsAreTyped'
  <2>1. UNCHANGED <<folders, counts, shown>> /\ (wrote' = wrote \/ wrote' = [wrote EXCEPT ![file[w]] = 0])
    BY <1>6 DEF Folder!Open, Folder!plan, Folder!told
  <2>2. \A f \in Folder!Files : wrote'[f] \in {wrote[f], 0}
    BY <2>1 DEF FolderInvariant, FolderTypes, FileTypes
  <2>3. \A f \in Folder!Files : wrote'[f] \in -1 .. 1
    BY <2>2
  <2> QED BY <2>1, <2>3
<1>7. ASSUME NEW w \in Folder!Workers, Folder!Copy(w)
      PROVE  CountsAreTyped'
  <2>1. /\ UNCHANGED <<folders, counts, shown>>
        /\ \/ wrote' = wrote
           \/ wrote[file[w]] < FileSizes[file[w]] /\ wrote' = [wrote EXCEPT ![file[w]] = @ + 1]
    BY <1>7 DEF Folder!Copy, Folder!plan, Folder!told
  <2>2. \A f \in Folder!Files :
          \/ wrote'[f] = wrote[f]
          \/ wrote[f] < FileSizes[f] /\ wrote'[f] = wrote[f] + 1
    BY <2>1 DEF FolderInvariant, FolderTypes, FileTypes
  <2>3. \A f \in Folder!Files : wrote'[f] \in -1 .. 1
    BY <2>2, SizesAre
  <2> QED BY <2>1, <2>3
<1>8. ASSUME NEW w \in Folder!Workers, Folder!Tell(w)
      PROVE  CountsAreTyped'
  <2>1. /\ UNCHANGED <<folders, wrote>>
        /\ counts' = counts \/ counts' = [counts EXCEPT ![w] = mine[w]]
        /\ shown' = shown \/ Folder!Show(Folder!Percent(mine[w]))
    BY <1>8 DEF Folder!Tell, Folder!plan, Folder!other
  <2>2. mine[w] \in Nat
    BY WhatIs
  <2>3. Folder!Percent(mine[w]) \in 0 .. 100
    BY <2>2, PercentIsOne
  <2>4. shown' \in 0 .. 100
    BY <2>1, <2>3, ShownIsPercentage
  <2> QED BY <2>1, <2>2, <2>4
<1> QED BY <1>1, <1>2, <1>3, <1>4, <1>5, <1>6, <1>7, <1>8 DEF Folder!Next, Folder!Caller, Folder!Work

(* In any run the percentage is one, the files have no more pieces than they     *)
(* should, and the folders are those of the plan.                              *)
LEMMA CountsHold == Spec => []CountsAreTyped
<1>1. Init => CountsAreTyped
  <2> SUFFICES ASSUME Folder!Init PROVE CountsAreTyped
    BY DEF Init
  <2>1. /\ folders = <<>> /\ wrote = [f \in Folder!Files |-> -1]
        /\ counts = [w \in Folder!Workers |-> 0] /\ shown = 0
    BY DEF Folder!Init
  <2>2. folders \in Seq(Names)
    BY <2>1
  <2> QED BY <2>1, <2>2 DEF CountsAreTyped
<1>2. FolderInvariant /\ CountsAreTyped /\ [Next]_vars => CountsAreTyped'
  <2> SUFFICES ASSUME FolderInvariant, CountsAreTyped, [Next]_vars PROVE CountsAreTyped'
    OBVIOUS
  <2>1. Folder!Next \/ UNCHANGED folder
    BY DEF Next, vars
  <2>2. CASE UNCHANGED folder
    BY <2>2 DEF folder, CountsAreTyped
  <2> QED BY <2>1, <2>2, CountsStep
<1> QED BY <1>1, <1>2, FolderHolds, PTL DEF Spec

(* The types of the three parts: no more is shown than there is, and no file has  *)
(* more pieces than it should (emit_native_transfer_progress,                   *)
(* copy_with_native_progress); the invariant of the run.                       *)
THEOREM TransfersAreTyped == Spec => []TypesOK
<1>1. FolderInvariant /\ CountsAreTyped => Folder!TypeOK
  <2> SUFFICES ASSUME FolderInvariant, CountsAreTyped PROVE Folder!TypeOK
    OBVIOUS
  <2>1. /\ main \in {"scan", "folders", "crew", "run", "done"}
        /\ worker \in [Folder!Workers -> {"none", "take", "open", "copy", "tell", "tell of the end",
                                          "failing", "send failure", "gone"}]
        /\ closed \subseteq Folder!Files
        /\ failure \in {"none", "failed", "stopped"}
        /\ folderAnswer \in {"none", "ok", "failed", "cancelled"}
    BY WhatIs DEF FolderTypes, FileTypes, PlaceTypes
  <2>2. Folder!ToSet(folders) \subseteq {Folder!Root, Folder!Sub, "elsewhere"}
    <3>1. \A i \in DOMAIN folders : folders[i] \in Names
      BY ElementOfSeq, LenProperties DEF CountsAreTyped
    <3> QED BY <3>1 DEF Folder!ToSet, Names, Folder!Root, Folder!Sub
  <2>3. Folder!ToSet(files) \subseteq Folder!Files
    <3>1. \A i \in DOMAIN files : files[i] \in Folder!Files
      BY WhatIs, ElementOfSeq, LenProperties
    <3> QED BY <3>1 DEF Folder!ToSet
  <2>4. wrote \in [Folder!Files -> -1 .. 2] /\ shown \in 0 .. 100
    <3>1. wrote \in [Folder!Files -> Int]
      BY DEF FolderInvariant, FolderTypes, FileTypes
    <3>2. \A f \in Folder!Files : wrote[f] \in -1 .. 2
      BY DEF CountsAreTyped
    <3> QED BY <3>1, <3>2 DEF CountsAreTyped
  <2> QED BY <2>1, <2>2, <2>3, <2>4 DEF Folder!TypeOK
<1>2. ProgramInvariant => Program!TypeOK
  BY DEF ProgramInvariant
<1>3. ConversationInvariant => Conversation!TypeOK
  BY DEF ConversationInvariant
<1> QED BY <1>1, <1>2, <1>3, ProgramHolds, FolderHolds, CountsHold, ConversationHolds, PTL DEF TypesOK

=============================================================================
