------------------------------ MODULE MCGroups ------------------------------
(* OptionParser with an exclusive group after an ordinary argument, and a    *)
(* response file with an option of the group in it.                          *)
EXTENDS OptionParser, SequencesExt, TLC

CONSTANT MaxArgs    \* the length of the longest argument list

Tokens == {"-a", "-b", "-c", "1", "@f"}
Options == {"a", "b", "c"}

Base == [kind |-> "argument", names |-> {}, args |-> 1, insert |-> FALSE,
         required |-> FALSE, choices |-> {}, parses |-> {"1"}, valid |-> Tokens,
         default |-> {}, counts |-> [t \in Tokens |-> -1], slot |-> "group"]

Decls ==
    "a" :> [Base EXCEPT !.names = {"-a"}]
    @@ "b" :> [Base EXCEPT !.kind = "flag", !.names = {"-b"}, !.args = 0, !.required = TRUE]
    @@ "c" :> [Base EXCEPT !.names = {"-c"}, !.slot = "c"]

Slots == {"group", "c"}
Dashes == {"-a", "-b", "-c"}
Exclusive(opts) == [exclusive |-> TRUE, opts |-> opts]

GroupLast == <<Leaf("c"), Exclusive(<<"a", "b">>)>>

AtF == "@f" :> "1"
OneFile == "1" :> <<"-b">>

FileLists == BoundedSeq({"-a", "1", "@f"}, MaxArgs)
OnlyCommandLine == {"command_line"}

=============================================================================
