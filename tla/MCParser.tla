------------------------------ MODULE MCParser ------------------------------
(* OptionParser for three programs: one with an option of every kind, one     *)
(* with an exclusive group, and one that reads response files, on the command *)
(* line and when loading.                                                     *)
EXTENDS OptionParserStream, OptionPromises, TLC

CONSTANTS MaxArgs,      \* the length of the longest command line
          MaxFileArgs   \* the same for the program that reads files

Tokens == {"-a", "-l", "-z", "-v", "-vv", "-g", "-b", "-c", "-n", "-r", "-h", "1", "x",
           "@f", "@g", "@none", "f", "g", "h", "none"}
Options == {"a", "l", "z", "v", "p", "q", "g", "b", "c", "n", "r", "h", "i", "w"}
Slots == {"a", "l", "z", "v", "p", "q", "group", "c", "n", "r", "h", "i", "w"}
Dashes == {"-a", "-l", "-z", "-v", "-vv", "-g", "-b", "-c", "-n", "-r", "-h"}

NoCount == [t \in Tokens |-> -1]
Base == [kind |-> "argument", names |-> {}, args |-> 1, insert |-> FALSE,
         required |-> FALSE, choices |-> {}, parses |-> Tokens, valid |-> Tokens,
         default |-> {}, counts |-> NoCount, slot |-> "a"]
Positional == [Base EXCEPT !.kind = "positional", !.required = TRUE]

\* prog [-a A] [-l L ...] [-z [Z]] P P [-v] Q
OptionDecls ==
    "a" :> [Base EXCEPT !.names = {"-a"}, !.parses = {"1", "x"}, !.default = {"x"}]
    @@ "l" :> [Base EXCEPT !.names = {"-l"}, !.args = OneOrMore, !.insert = TRUE,
                           !.choices = {"x"}, !.slot = "l"]
    @@ "z" :> [Base EXCEPT !.names = {"-z"}, !.args = ZeroOrOne, !.valid = {"1"},
                           !.slot = "z"]
    @@ "v" :> [Base EXCEPT !.kind = "count", !.args = 0, !.names = {"-v"},
                           !.counts = [NoCount EXCEPT !["-v"] = 1, !["-vv"] = 2],
                           !.slot = "v"]
    @@ "p" :> [Positional EXCEPT !.args = 2, !.insert = TRUE, !.parses = {"1", "x"},
                                 !.slot = "p"]
    @@ "q" :> [Positional EXCEPT !.parses = {"x"}, !.slot = "q"]
OptionTuple == <<Leaf("a"), Leaf("l"), Leaf("z"), Leaf("p"), Leaf("v"), Leaf("q")>>

\* prog [-c C] Q [-g G | -b]
GroupDecls ==
    "g" :> [Base EXCEPT !.names = {"-g"}, !.parses = {"1"}, !.slot = "group"]
    @@ "b" :> [Base EXCEPT !.kind = "flag", !.names = {"-b"}, !.args = 0,
                           !.required = TRUE, !.slot = "group"]
    @@ "c" :> [Base EXCEPT !.names = {"-c"}, !.parses = {"1"}, !.slot = "c"]
Exclusive(opts) == [exclusive |-> TRUE, opts |-> opts]
GroupTuple == <<Leaf("c"), Leaf("q"), Exclusive(<<"g", "b">>)>>

\* prog [-n N ...] [-r FILE] [-h] I W
FileDecls ==
    "n" :> [Base EXCEPT !.names = {"-n"}, !.parses = {"1"}, !.valid = {"1"},
                        !.args = OneOrMore, !.insert = TRUE, !.slot = "n"]
    @@ "r" :> [Base EXCEPT !.kind = "response_file", !.names = {"-r"}, !.slot = "r"]
    @@ "h" :> [Base EXCEPT !.kind = "help", !.names = {"-h"}, !.args = 0, !.slot = "h"]
    @@ "i" :> [Positional EXCEPT !.parses = {"1"}, !.slot = "i"]
    @@ "w" :> [Positional EXCEPT !.parses = {"x"}, !.slot = "w"]
FileTuple == <<Leaf("n"), Leaf("r"), Leaf("h"), Leaf("i"), Leaf("w")>>

Decls == OptionDecls @@ GroupDecls @@ FileDecls

\* f opens g in mid-file; h ends in a name that needs a file, and names none.
AtFiles == "@f" :> "f" @@ "@g" :> "g" @@ "@none" :> "none"
Files == "f" :> <<"@g", "-n", "1">> @@ "g" :> <<"1", "x">>
         @@ "h" :> <<"1", "-r", "none", "x">>

\* For the options, shorter lists when -vv is among them.
OptionLists == BoundedSeq({"-a", "-l", "-z", "-v", "1", "x"}, MaxArgs)
               \cup BoundedSeq({"-a", "-l", "-z", "-v", "-vv", "1", "x"}, MaxArgs - 1)
GroupLists == BoundedSeq({"-g", "-b", "-c", "1", "x"}, MaxArgs)
FileLists == BoundedSeq({"-n", "-r", "-h", "1", "x", "@f", "@none", "h"}, MaxFileArgs)
AllModes == Mode
OnlyLoading == {"response_file", "json"}

\* The first two programs read a command line only.  What an exclusive group
\* leaves over is an error at once, so options are looked at in more than one pass
\* only without one.
ProgramsInit ==
    \/ Init
    \/ (Start(OptionTuple, OptionLists) \/ Start(GroupTuple, GroupLists))
       /\ ~call.deserializing
ProgramsSpec == ProgramsInit /\ [][Next]_vars /\ WF_vars(Next)

=============================================================================
