---------------------------- MODULE CommandInputs -----------------------------
(* Inputs of CommandPolicy for TLC: commands built from plain ones, each with  *)
(* what a shell does when it runs them.                                        *)
EXTENDS CommandRules

Words(texts) == [i \in DOMAIN texts |-> Word(texts[i])]

Tree(kind, words, children) == [kind |-> kind, words |-> words, children |-> children]

Input(tree, does, ruins) == [tree |-> tree, does |-> does, ruins |-> ruins, form |-> "plain"]

Plain(texts, does)  == Input(Tree("command", Words(texts), <<>>), does, FALSE)
Ruin(texts)         == Input(Tree("command", Words(texts), <<>>), {"delete"}, TRUE)

(* One or two commands of every class of rules.                                *)
Simple == <<
    Plain(<<"ls", "-l">>, {}), Plain(<<"cat", "/etc/shadow">>, {"permission"}),
    Ruin(<<"rm", "-rf", "/">>), Ruin(<<"rm", "--recursive", "--", "//">>),
    Plain(<<"rm", "--", "-rf">>, {"delete"}), Plain(<<"cp", "a", "/etc/hosts">>, {"edit"}),
    Plain(<<"sed", "-ni", "p", "f">>, {"edit"}), Plain(<<"chmod", "u+s", "f">>, {"permission"}),
    Plain(<<"reboot">>, {"reboot"}), Plain(<<"mkfs.ext4", "/dev/sda">>, {"disk"}),
    Plain(<<"ip", "addr">>, {}), Plain(<<"ip", "link", "set">>, {"network"}),
    Plain(<<"systemctl", "status">>, {}), Plain(<<"systemctl", "stop">>, {"service"}),
    Plain(<<"npm", "install">>, {"upgrade"}), Plain(<<"docker", "ps">>, {}),
    Plain(<<"docker", "volume", "rm">>, {"delete"}), Plain(<<"docker", "exec", "reboot">>, {"reboot"}),
    Plain(<<"git", "status">>, {}), Plain(<<"git", "push">>, {"delete"}),
    Plain(<<"git", "branch", "-D">>, {"delete"}), Plain(<<"git", "diff", "--output=f">>, {"edit"}),
    Plain(<<"git", "commit">>, {"edit"}), Plain(<<"rg", "--pre=p">>, {"execution"}),
    Plain(<<"file", "-C">>, {"edit"}), Plain(<<"printf", "%n">>, {"edit"}),
    Plain(<<"printf", "%%n">>, {}), Plain(<<"printf", "--", "a%%%-5ln">>, {"edit"}), Plain(<<"./ls">>, {"execution"}),
    Plain(<<"xargs", "rm">>, {"delete", "execution"}), Plain(<<"frob">>, {"execution"}),
    Plain(<<"command", "-p", "-v", "reboot">>, {}), Plain(<<"env">>, {}),
    Plain(<<Dynamic, "x">>, {"execution"}), Plain(<<"ls", Dynamic>>, {"execution"}),
    Plain(<<"find", ".", "-delete">>, {"delete"}), Plain(<<"find", ".", "-fls", "f">>, {"edit"}),
    Plain(<<"zsh", "-c", "ls">>, {"execution"}), Plain(<<"sh", "script">>, {"execution"})>>

Before(texts, d, does) ==
    Input(Tree("command", Words(texts) \o d.tree.words, d.tree.children), does \cup d.does, d.ruins)

(* A wrapper runs the command after its own options.                           *)
Wrapped(d) == <<
    Before(<<"sudo", "-u", "rm", "-n">>, d, {"permission"}), Before(<<"env", "-i">>, d, {}),
    Before(<<"env", "A=1">>, d, {}), Before(<<"timeout", "-k", "1", "5">>, d, {}),
    Before(<<"nice", "-n", "9">>, d, {}), Before(<<"nohup">>, d, {}), Before(<<"command", "--">>, d, {}),
    Before(<<"builtin">>, d, {}), Before(<<"eval">>, d, {"execution"}),
    [Before(<<"find", ".", "-exec">>, d, {"execution"}) EXCEPT !.tree.words = @ \o Words(<<";", "-print">>)]>>

OfShell(words, d) == Input(Tree("command", words \o <<Quoted(<<d.tree>>)>>, <<>>), {"execution"} \cup d.does, d.ruins)

Within(kind, d) == Input(Tree(kind, <<>>, <<d.tree>>), d.does, d.ruins)

Composed(d) == <<
    OfShell(Words(<<"bash", "-ec">>), d), OfShell(Words(<<"sudo", "sh", "-c">>), [d EXCEPT !.does = @ \cup {"permission"}]),
    Within("list", d), Within("loop", d), Within("state", d), Within("substitution", d),
    Input(Tree("list", <<>>, <<d.tree, Plain(<<"reboot">>, {}).tree>>), d.does \cup {"reboot"}, d.ruins),
    Input(Tree("list", <<>>, <<Tree("write", Words(<<"/etc/hosts">>), <<>>), d.tree>>), d.does \cup {"edit"}, d.ruins),
    Input(Tree("list", <<>>, <<d.tree, Tree("write", Words(<<"/dev/null">>), <<>>)>>), d.does, d.ruins),
    Input(Tree("list", <<>>, <<Tree("assign", Words(<<"LD_PRELOAD">>), <<>>), d.tree>>),
          d.does \cup {"execution"}, d.ruins)>>

(* Only a plain command can be a wrapper's.                                    *)
Once(d) == Wrapped(d) \o Composed(d)

Each(op(_), ds) == FlattenSeq([i \in DOMAIN ds |-> op(ds[i])])

Few == <<Simple[1], Simple[3], Simple[14], Simple[32]>>

AllInputs ==
    Simple \o Each(Once, Simple) \o Each(Composed, Each(Wrapped, Few)) \o Each(Composed, Each(Composed, Few))
           \o Each(Wrapped, Each(Wrapped, Few))
           \o [i \in 1 .. 4 |-> [Simple[1] EXCEPT !.form = <<"long", "control", "blank", "foreign">>[i]]]
=============================================================================
