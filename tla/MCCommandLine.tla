---------------------------- MODULE MCCommandLine ----------------------------
(* CommandLine: a command with a subcommand, a command without, options and   *)
(* exclusive groups at every level, and help options at several.              *)
EXTENDS CommandLine, OptionPromises, TLC

CONSTANT MaxArgs    \* the length of the longest argument list

Tokens == {"prog", "-a", "-b", "-c", "-e", "-h", "-i", "--help", "1", "x", "add", "sub",
           "own", "@f"}
Options == {"a", "b", "c", "e", "help", "info", "p", "q"}
Texts == {"1", "x", "-h"}

Base == [kind |-> "argument", names |-> {}, args |-> 1, insert |-> FALSE,
         required |-> FALSE, choices |-> {}, parses |-> Texts, valid |-> Tokens,
         default |-> {}, counts |-> [t \in Tokens |-> -1], slot |-> "a"]

Decls ==
    "a" :> [Base EXCEPT !.names = {"-a"}]
    @@ "b" :> [Base EXCEPT !.names = {"-b"}, !.slot = "b"]
    @@ "c" :> [Base EXCEPT !.kind = "flag", !.args = 0, !.required = TRUE,
                           !.names = {"-c"}, !.slot = "c"]
    @@ "e" :> [Base EXCEPT !.kind = "flag", !.args = 0, !.required = TRUE,
                           !.names = {"-e"}, !.slot = "group"]
    @@ "info" :> [Base EXCEPT !.kind = "help", !.args = 0, !.names = {"-i"},
                              !.slot = "group"]
    @@ "help" :> [Base EXCEPT !.kind = "help", !.args = 0, !.names = {"--help"},
                              !.slot = "help"]
    @@ "p" :> [Base EXCEPT !.kind = "positional", !.required = TRUE, !.slot = "p"]
    @@ "q" :> [Base EXCEPT !.kind = "positional", !.required = TRUE, !.slot = "q"]

Slots == {"a", "b", "c", "group", "help", "p", "q"}
Dashes == {"-a", "-b", "-c", "-e", "-h", "-i", "--help"}
NoFiles == << >>
AtF == "@f" :> "x"
OneFile == "x" :> <<"-c", "1">>
Exclusive(opts) == [exclusive |-> TRUE, opts |-> opts]

\* prog [-a A] (sub [-b B | -e] (add [-c] P) | add [-c] P)
\* plain [-a A] [-b B] [-c]
\* helped [--help] (sub [-b B | -e] (add [-c] P) | add [-c] P)
\* plainhelp [-c] [--help]
\* twice [--help] (own [-c | -i])
Commands == {"prog", "plain", "helped", "plainhelp", "twice", "sub", "add", "own"}
CommandDecls ==
    "prog" :> [names |-> {}, subs |-> <<"sub", "add">>, tuple |-> <<Leaf("a")>>]
    @@ "sub" :> [names |-> {"sub"}, subs |-> <<"add">>,
                 tuple |-> <<Exclusive(<<"b", "e">>)>>]
    @@ "add" :> [names |-> {"add"}, subs |-> << >>, tuple |-> <<Leaf("c"), Leaf("p")>>]
    @@ "plain" :> [names |-> {}, subs |-> << >>,
                   tuple |-> <<Leaf("a"), Leaf("b"), Leaf("c")>>]
    @@ "helped" :> [names |-> {}, subs |-> <<"sub", "add">>, tuple |-> <<Leaf("help")>>]
    @@ "plainhelp" :> [names |-> {}, subs |-> << >>, tuple |-> <<Leaf("c"), Leaf("help")>>]
    @@ "twice" :> [names |-> {}, subs |-> <<"own">>, tuple |-> <<Leaf("help")>>]
    @@ "own" :> [names |-> {"own"}, subs |-> << >>,
                 tuple |-> <<Exclusive(<<"c", "info">>)>>]

\* prog P (sub Q | add [-b B]): a positional outside the command and one inside.
TwoPositionals ==
    [CommandDecls EXCEPT !["prog"].tuple = <<Leaf("p")>>,
                         !["sub"] = [@ EXCEPT !.subs = << >>, !.tuple = <<Leaf("q")>>],
                         !["add"].tuple = <<Leaf("b")>>]
AllPrograms == {"prog", "plain", "helped", "plainhelp", "twice"}
OnlyWith == {"prog"}
OnlyHelped == {"helped"}
NoTuple == << >>
Help == {"-h"}

NoLists == {}
\* Shorter lists when -e is among them, and for the programs with a help option.
Args ==
    "prog" :> (BoundedSeq({"-a", "-b", "-c", "-h", "1", "add", "sub"}, MaxArgs)
               \cup BoundedSeq({"-a", "-b", "-c", "-e", "1", "add", "sub"}, MaxArgs - 1))
    @@ "plain" :> BoundedSeq({"-a", "-b", "-c", "-h", "1"}, MaxArgs)
    @@ "twice" :> BoundedSeq({"-c", "-i", "-h", "--help", "own"}, MaxArgs - 1)
    @@ [p \in {"helped", "plainhelp"} |->
        BoundedSeq({"-c", "-h", "--help", "1", "add", "sub"}, MaxArgs - 1)]
HelpedArgs == "helped" :> BoundedSeq({"add", "--help", "1"}, MaxArgs)
FileArgs == "prog" :> {<<"add", "@f">>, <<"add", "-c", "1">>}
PositionalArgs == "prog" :> BoundedSeq({"sub", "1", "x"}, MaxArgs)
OnlyCommandLine == {"command_line"}

\* Without commands and without positionals, options are accepted in any order
\* (options.hpp 133).
PlainAcceptsAnyOrder ==
    status = "exit1" /\ ~HasCommands =>
        ~WellFormed(SubSeq(frames[1].src, 2, Len(frames[1].src)))

=============================================================================
