------------------------------- MODULE MCHelp -------------------------------
(* HelpText: programs with and without commands, with groups of every kind.  *)
EXTENDS HelpText, TLC

Leaf(kind, names) == [kind |-> kind, names |-> names, items |-> << >>]
Node(kind, names, items) == [kind |-> kind, names |-> names, items |-> items]

Printables ==
    "p" :> Leaf("positional", 4) @@ "q" :> Leaf("positional", 30)
    @@ "a" :> Leaf("option", 10) @@ "b" :> Leaf("option", 21)
    @@ "c" :> Leaf("option", 9) @@ "d" :> Leaf("option", 20)
    @@ "e" :> Leaf("option", 2) @@ "f" :> Leaf("response_file", 6)
    @@ "g" :> Leaf("option", 9) @@ "i" :> Leaf("option", 9)
    @@ "h" :> Leaf("help", 10)
    @@ "default help" :> Leaf("help", 10) @@ "COMMAND" :> Leaf("option", 7)
    @@ "b|c" :> Node("exclusive", 0, <<"b", "c">>)
    @@ "e|f" :> Node("exclusive", 0, <<"e", "f">>)
    @@ "g|i" :> Node("exclusive", 0, <<"g", "i">>)
    @@ "both" :> Node("group", 0, <<"a", "b|c">>)
    @@ "first" :> Node("named", 5, <<"g|i", "d">>)
    @@ "last" :> Node("named", 5, <<"d", "e|f">>)
    @@ "one" :> Node("named", 5, <<"e">>)
    @@ "more" :> Node("named", 4, <<"run">>)
    @@ "leaf" :> Node("command", 4, <<"first", "p">>)
    @@ "run" :> Node("command", 20, <<"last", "b|c", "q">>)
    @@ "cmd" :> Node("command", 3, <<"one", "leaf">>)
    @@ "plain" :> Node("command", 5, <<"p", "both", "last">>)
    @@ "helped" :> Node("command", 60, <<"h", "first", "e">>)
    @@ "tree" :> Node("command", 15, <<"cmd", "a", "more", "leaf">>)
    @@ "grouped" :> Node("command", 7, <<"p", "a", "more">>)

Items == DOMAIN Printables
Depths[i \in Items] ==
    IF Printables[i].items = << >> THEN 0
    ELSE 1 + Max({Depths[j] : j \in ToSet(Printables[i].items)})
Programs == {"plain", "helped", "tree", "grouped"}
SomeWidths == [i \in {i \in Items : Printables[i].kind \in OptionKind} |->
                  CASE i \in {"a", "d"} -> {26, 85}
                    [] i \in {"p", "c", "e", "i"} -> {5, 26}
                    [] i \in {"b", "default help"} -> {26, 50}
                    [] OTHER -> {26}]

=============================================================================
