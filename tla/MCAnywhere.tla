----------------------------- MODULE MCAnywhere -----------------------------
(* OptionParser with one argument among positionals: where it may stand.     *)
EXTENDS OptionPromises, SequencesExt, TLC

CONSTANT MaxArgs    \* the length of the longest argument list

Tokens == {"-a", "1", "x"}
Options == {"a", "p", "q"}
Texts == {"1", "x"}

Base == [kind |-> "positional", names |-> {}, args |-> 1, insert |-> FALSE,
         required |-> TRUE, choices |-> {}, parses |-> Texts, valid |-> Tokens,
         default |-> {}, counts |-> [t \in Tokens |-> -1], slot |-> "p"]

Decls ==
    "a" :> [Base EXCEPT !.kind = "argument", !.names = {"-a"}, !.required = FALSE,
                        !.parses = {"1"}, !.slot = "a"]
    @@ "p" :> Base
    @@ "q" :> [Base EXCEPT !.slot = "q"]

Slots == {"a", "p", "q"}
Dashes == {"-a"}
NoFiles == << >>
TwoPositionals == <<Leaf("a"), Leaf("p"), Leaf("q")>>

Lists == BoundedSeq({"-a", "1", "x"}, MaxArgs)
OnlyCommandLine == {"command_line"}

=============================================================================
