------------------------------ MODULE MCStorage ------------------------------
(* Storage for the options of test/storage.cpp, and for others it has not,    *)
(* and JSON texts of every shape.                                             *)
EXTENDS Storage, TLC

CONSTANTS MaxChunks,    \* how many of the chunks a command line has
          MaxSymbols    \* the length of the given JSON texts

Tokens == {"-a", "-c", "-d", "-z", "-o", "-f", "-v", "-s", "-w", "1", "2", "x", "xy", "y",
           "x y", "x\\ty", "x<tab>y", "x\",\"y", "x\",\"", "true", "1.000000", "rest"}
Options == {"a", "c", "d", "z", "o", "f", "v", "s", "w", "rest"}
Texts == {"1", "2", "x", "xy", "y", "x y", "x\\ty", "x<tab>y", "x\",\"y", "x\",\"",
          "true", "1.000000", "rest"}

Base == [kind |-> "argument", names |-> {}, args |-> 1, insert |-> FALSE,
         required |-> FALSE, choices |-> {}, parses |-> {"1", "2"}, valid |-> Tokens,
         default |-> {}, counts |-> [t \in Tokens |-> -1], slot |-> "a"]
Many == [Base EXCEPT !.insert = TRUE]

Decls ==
    "a" :> [Base EXCEPT !.names = {"-a"}]
    @@ "c" :> [Many EXCEPT !.names = {"-c"}, !.args = 2, !.slot = "c"]
    @@ "d" :> [Base EXCEPT !.names = {"-d"}, !.choices = {"1"}, !.slot = "d"]
    @@ "z" :> [Many EXCEPT !.names = {"-z"}, !.args = ZeroOrMore, !.slot = "z"]
    @@ "o" :> [Many EXCEPT !.names = {"-o"}, !.args = OneOrMore, !.parses = Texts,
                           !.slot = "o"]
    @@ "f" :> [Base EXCEPT !.kind = "flag", !.args = 0, !.names = {"-f"},
                           !.required = TRUE, !.slot = "f"]
    @@ "v" :> [Base EXCEPT !.kind = "count", !.args = 0, !.names = {"-v"}, !.slot = "v"]
    @@ "s" :> [Base EXCEPT !.names = {"-s"}, !.parses = {"x", "y", "xy"}, !.slot = "s"]
    @@ "w" :> [Base EXCEPT !.names = {"-w"}, !.parses = Texts, !.slot = "w"]
    @@ "rest" :> [Many EXCEPT !.kind = "positional", !.args = ZeroOrMore,
                              !.parses = Texts, !.slot = "rest"]

Slots == Options
Dashes == {"-a", "-c", "-d", "-z", "-o", "-f", "-v", "-s", "-w"}
NoFiles == << >>
OnlyCommandLine == {"command_line"}
OnlyResponse == {"response_file"}
BothFormats == {"response_file", "json"}

LongNames == [o \in Options |-> IF Decls[o].names = {} THEN o
                                ELSE CHOOSE n \in Decls[o].names : TRUE]
\* -s is a std::string and -w a std::string_view.
StringOptions == {"s"}
LettersOf == "x" :> <<"x">> @@ "y" :> <<"y">> @@ "xy" :> <<"x", "y">>
\* A word ends at a space and after a closing quote.
Reads == "x y" :> <<"x", "y">> @@ "x\",\"y" :> <<"x\",\"", "y">>
AsJson == "x\\ty" :> <<String("x<tab>y")>>
          @@ "x\",\"y" :> <<String("x"), Mark(","), String("y")>>
Numbers == <<"1", "2">>
OneMistyped == {"d"}

Tuple == <<Leaf("a"), Leaf("o"), Leaf("c"), Leaf("d"), Leaf("z"), Leaf("f"),
           Leaf("v"), Leaf("s"), Leaf("w"), Leaf("rest")>>

Chunks == <<<<"-a", "1">>, <<"-o", "2", "xy">>, <<"-o", "x\\ty">>, <<"-o", "x\",\"y">>,
            <<"-c", "1", "2">>, <<"-d", "1">>, <<"-z">>, <<"-z", "1">>, <<"-f">>, <<"-v">>,
            <<"-s", "x">>, <<"-s", "xy">>, <<"-w", "x y">>, <<"-w", "x\",\"y">>>>

\* Up to MaxChunks of the chunks, of different options, after the positionals.
Lists ==
    {rest \o FlattenSeq([k \in 1..Len(Chunks) |-> IF k \in S THEN Chunks[k] ELSE << >>]) :
        rest \in {<< >>, <<"1">>, <<"x", "true">>},
        S \in {T \in UNION {kSubset(n, 1..Len(Chunks)) : n \in 0..MaxChunks} :
                  \A i, j \in T : i # j => Chunks[i][1] # Chunks[j][1]}}

\* JSON as somebody might write it: all short texts, and longer ones with one
\* symbol changed or missing.
Number == [is |-> "number", word |-> "1.000000"]
Symbols == {Mark(k) : k \in {"{", "}", "[", "]", ",", ":", "junk"}} \cup {String("x"), Number}
Object(members) == <<Mark("{")>> \o members \o <<Mark("}")>>
Member(key, value) == <<String(key), Mark(":")>> \o value
Pair == Member("-o", <<Mark("["), String("x"), Mark(","), Number, Mark("]")>>)
Documents == {Object(Pair \o <<Mark(",")>> \o Member("-a", <<Number>>)),
              Object(Member("-c", <<Mark("["), Mark("["), String("1"), Mark("]"), Mark(","),
                                    String("2"), Mark("]")>>)),
              Object(Member("-w", Object(Member("x", <<Number>>))))}
Damaged == UNION {{ReplaceAt(d, k, s) : k \in 1..Len(d), s \in Symbols}
                  \cup {RemoveAt(d, k) : k \in 1..Len(d)} : d \in Documents}
Given == BoundedSeq(Symbols, MaxSymbols) \cup Documents \cup Damaged
NoGiven == {}

=============================================================================
