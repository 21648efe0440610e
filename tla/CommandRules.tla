---------------------------- MODULE CommandRules -----------------------------
(* The rules of domain/command_policy/rules.rs as operators: what the review   *)
(* of one simple command reports.  A command is a sequence of words; a word    *)
(* whose value only the running shell knows is Dynamic, and a quoted word may  *)
(* be the source of further commands (field code, the trees it parses to).     *)
EXTENDS Naturals, Sequences, SequencesExt

CONSTANT MaxDepth        \* 32: max_depth, and the literal of analyze_words

Dynamic == "$?"          \* no word of a command reads like this one

Word(text)   == [text |-> text, code |-> <<>>]
Quoted(code) == [text |-> "quoted", code |-> code]

Begins(text, prefix) == Len(text) >= Len(prefix) /\ SubSeq(text, 1, Len(prefix)) = prefix
Holds(text, letter)  == \E i \in 1 .. Len(text) : SubSeq(text, i, i) = letter

(* What a review found: kinds of risk, whether something is unknown, whether   *)
(* it must be denied, and sources to be analysed in its place.                 *)
Finding(kinds, unknown) == [kinds |-> kinds, unknown |-> unknown, deny |-> FALSE, code |-> <<>>]

Nothing     == Finding({}, FALSE)
Risk(kind)  == Finding({kind}, FALSE)
Unknown     == Finding({}, TRUE)

Both(a, b) == [kinds   |-> a.kinds \cup b.kinds,
               unknown |-> a.unknown \/ b.unknown,
               deny    |-> a.deny \/ b.deny,
               code    |-> a.code \o b.code]

If(condition, finding) == IF condition THEN finding ELSE Nothing

-----------------------------------------------------------------------------
Value(word) == IF word.text = Dynamic THEN "" ELSE word.text
Args(words) == [i \in 1 .. Len(words) - 1 |-> Value(words[i + 1])]
First(args) == IF args = <<>> THEN "" ELSE args[1]

(* The arguments before "--".                                                  *)
OptionsEnd(args) == LET ends == {i \in DOMAIN args : args[i] = "--"}
                    IN IF ends = {} THEN Len(args) ELSE (CHOOSE i \in ends : \A j \in ends : i <= j) - 1

Options(args) == {args[i] : i \in 1 .. OptionsEnd(args)}

ShortFlag(options, letter) ==
    \E a \in options : Begins(a, "-") /\ ~ Begins(a, "--") /\ Holds(a, letter)

(* The name without its directories; a program outside /bin is not known by    *)
(* its name.                                                                   *)
Outside(name)  == Begins(name, "./")
Program(words) == LET name == words[1].text
                 IN IF Outside(name) THEN SubSeq(name, 3, Len(name)) ELSE name

IsSensitive(path)  == path \in {"/etc/shadow", "/home/u/.ssh/id_rsa", "/srv/.env"}
IsRoot(path)       == path # "" /\ \A i \in 1 .. Len(path) : SubSeq(path, i, i) = "/"

-----------------------------------------------------------------------------
Wrappers == {"sudo", "doas", "nohup", "nice", "timeout", "env"}
Shells   == {"sh", "bash", "dash", "zsh", "ksh", "fish"}
Dynamics == {".", "source", "exec", "xargs", "busybox", "python3", "perl", "node", "awk"}
Readers  == {"echo", "printf", "ls", "cat", "grep", "rg", "file", "ps", "true"}

TakesValue(head, option) ==
    CASE head = "sudo" -> option \in {"-u", "-g", "--user", "--group"}
      [] head = "doas" -> option = "-u"
      [] head = "timeout" -> option \in {"-k", "-s", "--signal", "--kill-after"}
      [] head = "nice" -> option \in {"-n", "--adjustment"}
      [] head = "env" -> option \in {"-u", "--unset", "-C", "--chdir"}
      [] OTHER -> FALSE

FlagOnly(head, option) ==
    CASE head = "sudo" -> option \in {"-n", "-k", "-K", "-E", "-H", "-S", "-b"}
      [] head = "doas" -> option \in {"-n", "-s"}
      [] head = "timeout" -> option \in {"--preserve-status", "--foreground"}
      [] head = "env" -> option \in {"-i", "--ignore-environment", "-0", "--null"}
      [] OTHER -> FALSE

(* Where the wrapped command begins: the index after the options of the        *)
(* wrapper, which of them are not understood, and env's own word splitting;    *)
(* skip says it of the indices that follow.                                    *)
StopAt(i) == [at |-> i, unknown |-> FALSE, splits |-> FALSE]

SkipFrom(head, words, i, skip) ==
    IF i > Len(words) \/ words[i].text = Dynamic THEN StopAt(i)
    ELSE LET value == words[i].text
         IN CASE head = "env" /\ (Begins(value, "-S") \/ Begins(value, "--split-string")) ->
                     [StopAt(i) EXCEPT !.splits = TRUE]
              [] value = "--" -> StopAt(i + 1)
              [] Begins(value, "-") /\ TakesValue(head, value) -> skip[i + 2]
              [] Begins(value, "-") /\ FlagOnly(head, value) -> skip[i + 1]
              [] Begins(value, "-") \/ (head = "env" /\ Holds(value, "=")) ->
                     [skip[i + 1] EXCEPT !.unknown = TRUE]
              [] OTHER -> StopAt(i)

SkipOptions(head, words, from) ==
    LET skip[i \in Nat] == SkipFrom(head, words, i, skip) IN skip[from]

IsDuration(words, i) ==
    i <= Len(words) /\ Len(words[i].text) > 0 /\ \E d \in {"1", "5", "9"} : Begins(words[i].text, d)

(* command: -v only asks, -p and -- are passed over.                           *)
CommandFrom(words, i, at) ==
    CASE i <= Len(words) /\ words[i].text = "-p" -> at[i + 1]
      [] i <= Len(words) /\ words[i].text = "--" -> i + 1
      [] OTHER -> i

CommandAt(words, from) == LET at[i \in Nat] == CommandFrom(words, i, at) IN at[from]

AsksOnly(words) == LET i == CommandAt(words, 2)
                   IN i <= Len(words) /\ words[i].text \in {"-v", "-V"} /\ words[i - 1].text # "--"

-----------------------------------------------------------------------------
(* Commands that change something, class by class.                             *)
FileRules(head, args, options) ==
    CASE head \in {"rm", "rmdir", "unlink"} ->
            LET recursive == ShortFlag(options, "r") \/ ShortFlag(options, "R") \/ "--recursive" \in options
            IN [Risk("delete") EXCEPT !.deny = recursive /\ \E i \in DOMAIN args : IsRoot(args[i])]
      [] head \in {"cp", "mv", "tee", "install", "touch", "truncate"} -> Risk("edit")
      [] head = "sed" ->
            Both(Unknown, If(ShortFlag(options, "i") \/ \E o \in options : Begins(o, "--in-place"), Risk("edit")))
      [] head \in {"vi", "vim", "nano", "emacs"} -> Risk("edit")
      [] head \in {"chmod", "chown", "chgrp", "setfacl"} -> Risk("permission")
      [] OTHER -> If(ShortFlag(options, "C") \/ "--compile" \in options, Risk("edit"))     \* file

SystemRules(head, args) ==
    CASE head \in {"reboot", "shutdown", "poweroff", "halt"} -> Risk("reboot")
      [] head \in {"dd", "fdisk", "sfdisk", "parted", "wipefs", "mkfs"} \/ Begins(head, "mkfs.") -> Risk("disk")
      [] head = "ip" ->
            If(~ (/\ First(args) \in {"addr", "address", "route", "link"}
                  /\ Len(args) = 1 \/ args[2] \in {"show", "list", "ls", "get"}), Risk("network"))
      [] head \in {"iptables", "nft", "ufw", "firewall-cmd"} -> Risk("network")
      [] head = "systemctl" ->
            If(First(args) \notin {"status", "is-active", "list-units", "list-timers"}, Risk("service"))
      [] head = "service" -> Risk("service")
      [] OTHER -> Risk("upgrade")                                                          \* packages

ToolRules(head, args, options) ==
    CASE head \in {"docker", "kubectl"} ->
            IF \E i \in DOMAIN args : args[i] \in {"rm", "rmi", "prune", "delete"} THEN Risk("delete")
            ELSE If(First(args) \notin {"ps", "images", "inspect", "logs", "get", "describe", "top"}, Unknown)
      [] head = "git" ->
            CASE \/ First(args) \in {"reset", "clean", "restore", "checkout", "switch", "rebase", "push"}
                 \/ First(args) = "branch" /\ (ShortFlag(options, "D") \/ ShortFlag(options, "d")
                                               \/ "--delete" \in options) -> Risk("delete")
              [] \E o \in options : Begins(o, "--output") -> Risk("edit")
              [] OTHER -> If(\/ First(args) \notin {"status", "log", "show", "diff"}
                             \/ options \cap {"--ext-diff", "--textconv"} # {}, Unknown)
      [] OTHER ->                                                                          \* rg
            If(\E o \in options : \/ o \in {"--hostname-bin", "--pre"}
                                \/ Begins(o, "--hostname-bin=") \/ Begins(o, "--pre="),
               Both(Risk("execution"), Unknown))

Files    == {"rm", "rmdir", "unlink", "cp", "mv", "tee", "install", "touch", "truncate", "sed", "vi",
             "vim", "nano", "emacs", "chmod", "chown", "chgrp", "setfacl", "file"}
Systems  == {"reboot", "shutdown", "poweroff", "halt", "dd", "fdisk", "sfdisk", "parted", "wipefs",
             "mkfs", "mkfs.ext4", "iptables", "nft", "ufw", "firewall-cmd", "ip", "systemctl",
             "service", "apt", "dnf", "npm", "pip"}
Tools    == {"docker", "kubectl", "git", "rg"}

(* printf: the option -v, or a conversion %n that is not part of a %%, assigns *)
(* a variable; between the % and its letter stand flags, digits and lengths.   *)
Modifiers == {"-", "+", " ", "#", ".", "*", "h", "l", "0", "1", "5"}

Assigns(format) ==
    LET Letter(j) == SubSeq(format, j, j)
        Ends(i)   == {j \in i + 1 .. Len(format) : Letter(j) \notin Modifiers}
        assigns[i \in Nat] ==
            CASE i >= Len(format) \/ (Letter(i) = "%" /\ Ends(i) = {}) -> FALSE
              [] Letter(i) # "%" -> assigns[i + 1]
              [] Letter(i) = "%" /\ Letter(i + 1) = "%" -> assigns[i + 2]
              [] OTHER -> LET end == CHOOSE j \in Ends(i) : \A k \in Ends(i) : j <= k
                          IN Letter(end) = "n" \/ assigns[end + 1]
    IN assigns[1]

AssignsVariable(args) ==
    \/ \E o \in Options(args) : Begins(o, "-v")
    \/ Assigns(IF First(args) = "--" THEN First(Tail(args)) ELSE First(args))

(* What is looked at in any command.                                           *)
WordRules(words) ==
    LET args == Args(words)
    IN Both(If(\E i \in DOMAIN args : IsSensitive(args[i]), Risk("permission")),
            If(Outside(words[1].text) \/ (Program(words) = "printf" /\ AssignsVariable(args)), Unknown))

-----------------------------------------------------------------------------
(* Shells and eval: the source they are given is analysed at the next depth;   *)
(* what they read from elsewhere is unknown.                                   *)
CommandFlag(args) ==
    LET flags == {i \in 1 .. OptionsEnd(args) :
                     args[i] = "--command" \/ (/\ Begins(args[i], "-") /\ ~ Begins(args[i], "--")
                                               /\ Holds(args[i], "c"))}
    IN IF flags = {} THEN 0 ELSE CHOOSE i \in flags : \A j \in flags : i <= j

ShellRules(words, depth) ==
    LET args == Args(words)
        flag == CommandFlag(args)
        \* the word after the flag; args[i] is words[i + 1]
        told == /\ Program(words) \in {"bash", "sh", "dash"} /\ flag # 0
                /\ flag + 2 <= Len(words) /\ words[flag + 2].text # Dynamic
    IN Both(Risk("execution"),
            IF told THEN [Nothing EXCEPT !.code = <<[source |-> words[flag + 2].code, depth |-> depth + 1]>>]
            ELSE Unknown)

Source(given) ==
    IF \E i \in DOMAIN given : given[i].code # <<>>
    THEN FlattenSeq([i \in DOMAIN given |-> given[i].code])
    ELSE <<[kind |-> "command", words |-> given, children |-> <<>>]>>

EvalRules(words, depth) ==
    LET given == SubSeq(words, IF First(Args(words)) = "--" THEN 3 ELSE 2, Len(words))
    IN Both(Risk("execution"),
            IF given # <<>> /\ \A i \in DOMAIN given : given[i].text # Dynamic
            THEN [Nothing EXCEPT !.code = <<[source |-> Source(given), depth |-> depth + 1]>>]
            ELSE Unknown)

-----------------------------------------------------------------------------
(* A command within a command is reviewed as it is: review is the function      *)
(* that AnalyzeWords defines, of a part of the words and a depth.              *)
Inner(words, i, depth, review) ==
    CASE i <= Len(words) -> review[<<SubSeq(words, i, Len(words)), depth + 1>>]
      [] OTHER -> If(words # <<>>, Unknown)

WrapperRules(words, depth, review) ==
    LET head == Program(words)
        args == Args(words)
        rest == SkipOptions(head, words, 2)
        timed == head = "timeout"
        at == IF timed /\ IsDuration(words, rest.at) THEN rest.at + 1 ELSE rest.at
    IN CASE head = "env" /\ \A i \in DOMAIN args : args[i] \in {"-0", "--null", "--help", "--version"} -> Nothing
         [] rest.splits -> Both(Risk("execution"), Unknown)
         [] OTHER -> Both(If(head \in {"sudo", "doas"}, Risk("permission")),
                          Both(If(rest.unknown \/ (timed /\ at = rest.at), Unknown),
                               Inner(words, at, depth, review)))

(* find: every action is looked at, one that runs a command up to its end.     *)
FindEnd(words, i) ==
    LET args == Args(words)
        ends == {j \in i + 1 .. Len(args) : args[j] \in {";", "+"}}
    IN IF ends = {} THEN Len(words) ELSE CHOOSE j \in ends : \A k \in ends : j <= k

FindAction(words, i, depth, review) ==
    LET arg == Args(words)[i]
    IN CASE arg = "-delete" -> Risk("delete")
         [] arg \in {"-exec", "-execdir", "-ok", "-okdir"} ->
                Both(Risk("execution"), Inner(SubSeq(words, 1, FindEnd(words, i)), i + 2, depth, review))
         [] arg \in {"-fprint", "-fprint0", "-fprintf", "-fls"} -> Risk("edit")
         [] OTHER -> Nothing

FindRules(words, depth, review) ==
    FoldLeft(Both, Nothing, [i \in DOMAIN Args(words) |-> FindAction(words, i, depth, review)])

HeadRules(words, depth, review) ==
    LET head == Program(words)
        args == Args(words)
    IN CASE head = "builtin" -> Inner(words, IF First(args) = "--" THEN 3 ELSE 2, depth, review)
         [] head = "command" -> IF AsksOnly(words) THEN Nothing ELSE Inner(words, CommandAt(words, 2), depth, review)
         [] head \in Wrappers -> WrapperRules(words, depth, review)
         [] head \in Shells -> ShellRules(words, depth)
         [] head = "eval" -> EvalRules(words, depth)
         [] head \in Dynamics -> Both(Risk("execution"), Unknown)
         [] head = "find" -> FindRules(words, depth, review)
         [] head \in Files -> FileRules(head, args, Options(args))
         [] head \in Systems -> SystemRules(head, args)
         [] head \in Tools -> ToolRules(head, args, Options(args))
         [] OTHER -> If(head \notin Readers, Unknown)

Parts(words) == {SubSeq(words, i, j) : i \in 1 .. Len(words) + 1, j \in 0 .. Len(words)}

Review(part, depth, review) ==
    CASE part = <<>> -> Nothing
      [] part # <<>> /\ part[1].text = Dynamic -> Nothing
      [] part # <<>> /\ part[1].text # Dynamic /\ depth > MaxDepth -> Unknown
      [] OTHER -> Both(WordRules(part), HeadRules(part, depth, review))

AnalyzeWords(words, depth) ==
    LET review[call \in Parts(words) \X Nat] == Review(call[1], call[2], review) IN review[<<words, depth>>]
=============================================================================
