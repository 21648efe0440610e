------------------------------ MODULE SftpOutput ------------------------------
(***************************************************************************)
(* What the system's sftp program shows, and what connection/sftp.rs makes of    *)
(* it: the redraws of a progress line, which a pseudo terminal delivers in       *)
(* pieces that end anywhere, and the lines of a directory listing.              *)
(***************************************************************************)
EXTENDS Integers, Sequences, SequencesExt, FiniteSetsExt

CONSTANTS
  Steps,    \* how far a transfer comes
  Window    \* the redraws that prompt_window holds

VARIABLES
  done,     \* how far it is
  window,   \* the redraws received: of which step, and how much of the line
  updates,  \* what progress has been told of it: percents and bytes
  server,   \* the files of a directory
  lines     \* what `cd`, `pwd` and `ls -l` show of it

vars == <<done, window, updates, server, lines>>

-----------------------------------------------------------------------------
(* A redraw is: a return and the name (1), the percentage (2), the first digits of  *)
(* a number (3), the rest of it with its unit (4), the speed (5), the time left (6). *)

Whole == 6
Percent(k) == (k * 100) \div Steps
Bytes(k) == k * 1120 * 1024
FirstDigits(k) == k * 112

Tokens(n) == CASE n <= 2 -> 0 [] n \in {3, 4} -> 1 [] OTHER -> n - 3

(* last_sftp_progress_line                                                   *)
WithPercent(w) == {i \in DOMAIN w : w[i].length >= 2}

\* (a bug to try: a number is taken as it stands when the piece ends)
AnyNumber(line) == line.length >= 3
(* A second token must follow: then the number is complete.                     *)
Complete(line) == Tokens(line.length) >= 2

(* parse_system_sftp_progress_details and parse_transfer_size_token             *)
BytesOf(line) == IF line.length = 3 THEN FirstDigits(line.step) ELSE Bytes(line.step)

(* emit_sftp_progress                                                        *)
Emits(w) ==
  IF WithPercent(w) = {} THEN {}
  ELSE LET line == w[Max(WithPercent(w))]
       IN IF Complete(line) THEN {<<Percent(line.step), BytesOf(line)>>} ELSE {}

-----------------------------------------------------------------------------
(* A listing.  A file has a kind and a name, which is a sequence of words; a line    *)
(* that is no record says what was asked, where it is or what went wrong.           *)

Names == {<<"a">>, <<"a", "b">>, <<"denied">>, <<".">>}
ServerFiles == [kind : {"d", "-", "l"}, name : Names]

Styles == {"unix", "windows"}

(* The lines it shows: the records may follow a prompt on the same line, and a      *)
(* link's is followed by what it leads to.                                      *)
Record(f, style, prompted) ==
  [text |-> "record", style |-> style, prompted |-> prompted, kind |-> f.kind,
   words |-> IF f.kind = "l" /\ style = "unix" THEN f.name \o <<"->", "x">> ELSE f.name]
Plain(text) == [text |-> text, style |-> "none", prompted |-> FALSE, kind |-> "none", words |-> <<>>]

Listings(files, style) ==
  {<<Plain("cd"), Plain("directory")>>
      \o [i \in 1..Len(files) |-> Record(files[i], style, i = 1 /\ p)] : p \in BOOLEAN}
Refusals == {<<Plain("ls"), Plain("refusal")>>}

\* (a bug to try: whatever holds the words of a refusal is one)
HoldsWords(line) == line.text = "refusal" \/ Contains(line.words, "denied")
(* is_sftp_listing_error_line: a record is none, whatever the file is called.       *)
IsError(line) == line.text = "refusal"

(* parse_unix_ls_line and parse_windows_ls_line: a link in a unix listing ends       *)
(* before its arrow; a windows listing tells folders by their mark.                *)
NameOf(line) ==
  LET arrows == {i \in DOMAIN line.words : line.words[i] = "->"}
  IN IF line.style = "windows" \/ arrows = {} THEN line.words
     ELSE SubSeq(line.words, 1, Min(arrows) - 1)

(* parse_list_output                                                         *)
Entries(ls) ==
  {[name |-> NameOf(ls[i]), isDir |-> ls[i].kind = "d"] :
     i \in {j \in DOMAIN ls : ls[j].text = "record" /\ NameOf(ls[j]) \notin {<<".">>, <<"..">>}}}
Refused(ls) == \E i \in DOMAIN ls : IsError(ls[i])

-----------------------------------------------------------------------------
Init ==
  /\ done = 0 /\ window = <<>> /\ updates = {}
  /\ server \in {<<>>} \cup {<<f>> : f \in ServerFiles} \cup {<<f, g>> : f, g \in ServerFiles}
  /\ \/ server = <<>> /\ lines = <<>>
     \/ lines \in Refusals \cup UNION {Listings(server, s) : s \in Styles}

\* (a bug to try: the window forgets nothing)
KeepsAll(w) == w
(* A piece arrives: the rest of a redraw, some of it, or that and the start of the    *)
(* next.  The window forgets what is old.                                       *)
Keep(w) == IF Len(w) > Window THEN Tail(w) ELSE w

Piece ==
  \E n \in 1..Whole :
    /\ lines = <<>>
    /\ IF window # <<>> /\ Last(window).length < Whole
         THEN /\ n > Last(window).length
              /\ window' = [window EXCEPT ![Len(window)].length = n]
              /\ UNCHANGED done
         ELSE \E k \in done..Steps :
                /\ k > 0
                /\ window' = Keep(Append(window, [step |-> k, length |-> n]))
                /\ done' = k
    /\ updates' = updates \cup Emits(window')
    /\ UNCHANGED <<server, lines>>

Next == Piece

Spec == Init /\ [][Next]_vars

-----------------------------------------------------------------------------
TypeOK ==
  /\ done \in 0..Steps /\ Len(window) <= Window
  /\ Len(server) <= 2
  /\ \A i \in DOMAIN window : window[i].step \in 1..Steps /\ window[i].length \in 1..Whole

(* Progress is what the program has shown, however its line was cut: half a number   *)
(* would be taken for an advance, and would keep a stalled transfer alive.          *)
ProgressIsShown == updates \subseteq {<<Percent(k), Bytes(k)>> : k \in 1..done}

(* A listing has what the directory has, and is refused only if the program said so.   *)
ListingIsTrue ==
  /\ lines # <<>> => (Refused(lines) <=> lines \in Refusals)
  /\ lines # <<>> /\ ~Refused(lines) =>
       Entries(lines) = {[name |-> f.name, isDir |-> f.kind = "d"] :
                           f \in {g \in ToSet(server) : g.name # <<".">>}}

=============================================================================
