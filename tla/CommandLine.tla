---------------------------- MODULE CommandLine ----------------------------
(***************************************************************************)
(* parse_command_line() with a result map.  Without commands it is one     *)
(* parse_options_into() over the whole command line.  With commands,       *)
(* parse_commands_in_tuple() first eats the names of a command and its     *)
(* subcommands, pushing a parse context for each; parse_commands() then    *)
(* runs the contexts' parse_ in order, outermost first, each over its own  *)
(* options, all of them sharing "first", next_positional and the map; and  *)
(* the innermost command's function is called.                             *)
(***************************************************************************)
EXTENDS OptionParser, SequencesExt

CONSTANTS
    Command,        \* the programs, their commands and subcommands
    CommandDecl,    \* their names, subcommands and options
    Programs,       \* the programs, whose names are not arguments
    DefaultHelp,    \* strings.default_help_names
    Argv0,          \* argv[0]
    ArgsOf          \* the arguments that each program may be called with

ASSUME CommandType ==
    /\ Programs \subseteq Command
    /\ CommandDecl \in [Command -> [names : SUBSET Token, subs : Seq(Command),
                                    tuple : Seq(Entry)]]
    /\ \A c \in Command :
          /\ CommandDecl[c].names \cap Dashed = {}
          /\ WellGrouped(CommandDecl[c].tuple)
          /\ \A e \in ToSet(CommandDecl[c].tuple) : ~e.exclusive => Len(e.opts) = 1
    /\ Argv0 \in Token /\ DefaultHelp \subseteq Token
    /\ ArgsOf \in [Programs -> SUBSET Seq(Token)]

VARIABLES
    phase,      \* "entry", "commands", "options" or "done"
    contexts,   \* parse_contexts: the program, then the commands named so far
    current,    \* the index of the context whose parse_ runs
    shown       \* the helps printed, each the contexts given to print_help()

cvars == <<phase, contexts, current, shown>>
allvars == <<vars, cvars>>

-----------------------------------------------------------------------------

SubsOf(c) == CommandDecl[c].subs
OptionsOf(c) == CommandDecl[c].tuple

HasCommands == SubsOf(contexts[1]) # << >>

\* The options of a program or command, those in groups included, followed by
\* those of the commands in it.
TreeOptions[c \in Command] ==
    FlattenSeq([k \in 1..Len(OptionsOf(c)) |-> OptionsOf(c)[k].opts])
    \o FlattenSeq([k \in 1..Len(SubsOf(c)) |-> TreeOptions[SubsOf(c)[k]]])

\* get_help_option(): of several help options, wherever they are, the last.
HelpOptionOf ==
    [p \in Programs |->
        LET all == TreeOptions[p]
            helps == {k \in 1..Len(all) : Decl[all[k]].kind = "help"}
        IN {o \in Option : \E k \in helps : all[k] = o /\ \A j \in helps : j <= k}]

LastHelp == HelpOptionOf[contexts[1]]
NoHelp == LastHelp = {}
HelpNames == IF NoHelp THEN DefaultHelp ELSE UNION {Decl[o].names : o \in LastHelp}

\* Slip: only the first argument is looked at.
FirstAsksForHelp(p) == NoHelp /\ p <= Len(f.src) /\ f.src[p] \in DefaultHelp

\* argv_contains_default_help_flag() over the arguments from p on.
AsksForHelp(p) == NoHelp /\ \E k \in p..Len(f.src) : f.src[k] \in DefaultHelp

Candidates == SubsOf(contexts[Len(contexts)])
Matching == {k \in 1..Len(Candidates) : arg \in CommandDecl[Candidates[k]].names}

\* Slip: the help of the command around the last one.
ShowHelpOfOuter(path) == shown' = Append(shown, SubSeq(path, 1, IF Len(path) > 1 THEN Len(path) - 1
                                                             ELSE Len(path)))

\* print_help_and_exit().
ShowHelp(path) == shown' = Append(shown, path)

Stop == phase' = "done" /\ UNCHANGED <<contexts, current>>
ExitHelp == status' = "exit0" /\ UNCHANGED <<call, frames, shared, ret, diag, history>>

\* Slip: every context's closure refers to the last context's options.
RunLastContext(k, p, final) ==
    LET c == contexts'[Len(contexts')] IN
    /\ current' = k
    /\ call' = [tuple |-> OptionsOf(c), final |-> final, deserializing |-> FALSE]
    /\ frames' = <<NewFrame("top", FALSE, f.src, p, OptionsOf(c), 0)>>
    /\ seen' = {}
    /\ status' = "run" /\ ret' = "none"
    /\ UNCHANGED <<nextPositional, result, diag, history>>

\* A context's parse_(): parse_options_into() from the shared "first", with
\* exclusives of its own.  Arguments it does not know are an error only in a
\* context without subcommands.
RunContext(k, p, final) ==
    LET c == contexts'[k] IN
    /\ current' = k
    /\ call' = [tuple |-> OptionsOf(c), final |-> final, deserializing |-> FALSE]
    /\ frames' = <<NewFrame("top", FALSE, f.src, p, OptionsOf(c), 0)>>
    /\ seen' = {}
    /\ status' = "run" /\ ret' = "none"
    /\ UNCHANGED <<nextPositional, result, diag, history>>

-----------------------------------------------------------------------------
(* The entry point. *)

PrintDefaultHelp ==
    /\ phase = "entry" /\ ~HasCommands
    /\ AsksForHelp(1)
    /\ ShowHelp(<< >>) /\ ExitHelp /\ Stop

ParsePlain ==
    /\ phase = "entry" /\ ~HasCommands
    /\ ~AsksForHelp(1)
    /\ phase' = "options"
    /\ UNCHANGED <<contexts, shown>>
    /\ RunContext(1, 2, TRUE)

ParseCommands ==
    /\ phase = "entry" /\ HasCommands
    /\ phase' = "commands"
    /\ UNCHANGED <<vars, contexts, current, shown>>

-----------------------------------------------------------------------------
(* parse_commands_in_tuple(). *)

ExpectedCommand ==
    /\ phase = "commands"
    /\ ~AtEnd => arg \notin HelpNames /\ Matching = {}
    /\ Exit1("expected_command", << >>)
    /\ UNCHANGED <<call, frames, shared, ret, history>>
    /\ ShowHelp(contexts) /\ Stop

HelpForCommand ==
    /\ phase = "commands"
    /\ ~AtEnd /\ arg \in HelpNames
    /\ ShowHelp(contexts) /\ ExitHelp /\ Stop

\* Slip: the first command of the tuple, whatever its name.
FirstCandidate == Candidates[1]

\* The first command of the tuple with that name.
Matched == Candidates[CHOOSE k \in Matching : \A j \in Matching : k <= j]
Naming == phase = "commands" /\ ~AtEnd /\ arg \notin HelpNames /\ Matching # {}

MatchCommand ==
    /\ Naming
    /\ SubsOf(Matched) # << >>
    /\ contexts' = Append(contexts, Matched)
    /\ SetTop([f EXCEPT !.pos = @ + 1])
    /\ UNCHANGED <<call, shared, status, ret, diag, history, phase, current, shown>>

\* A leaf command ends the pre-pass: the default help flags are looked for in
\* all that follows, and then the contexts are parsed.
MatchLeafCommand ==
    /\ Naming
    /\ SubsOf(Matched) = << >>
    /\ contexts' = Append(contexts, Matched)
    /\ IF AsksForHelp(f.pos + 1)
       THEN ShowHelp(contexts') /\ ExitHelp /\ phase' = "done" /\ UNCHANGED current
       ELSE phase' = "options" /\ UNCHANGED shown /\ RunContext(1, f.pos + 1, FALSE)

-----------------------------------------------------------------------------
(* parse_commands(): the contexts in order, and the call. *)

\* A parse exits with an error and the help of all the contexts, or at a help
\* option, whose handler gets no contexts, or at a version option.
ShowWhatTheParsePrints ==
    IF status' = "exit1" THEN ShowHelp(IF HasCommands THEN contexts ELSE << >>)
    ELSE IF status' = "exit0" /\ Decl[opt].kind = "help" THEN ShowHelp(<< >>)
    ELSE UNCHANGED shown

ParseContext ==
    /\ phase = "options"
    /\ ParseOption \/ Impl \/ Finish
    /\ ShowWhatTheParsePrints
    /\ UNCHANGED <<phase, contexts, current>>

\* Slips: each context starts over; no context is the final one.
NextContextAfresh ==
    /\ phase = "options" /\ status = "ok"
    /\ current < Len(contexts)
    /\ UNCHANGED <<phase, contexts, shown>>
    /\ RunContext(current + 1, 2, SubsOf(contexts[current + 1]) = << >>)
NextContextNotFinal ==
    /\ phase = "options" /\ status = "ok"
    /\ current < Len(contexts)
    /\ UNCHANGED <<phase, contexts, shown>>
    /\ RunContext(current + 1, f.pos, FALSE)

NextContext ==
    /\ phase = "options" /\ status = "ok"
    /\ current < Len(contexts)
    /\ UNCHANGED <<phase, contexts, shown>>
    /\ RunContext(current + 1, f.pos, SubsOf(contexts[current + 1]) = << >>)

CallFunction ==
    /\ phase = "options" /\ status = "ok"
    /\ current = Len(contexts)
    /\ phase' = "done"
    /\ UNCHANGED <<vars, contexts, current, shown>>

Exited == phase = "options" /\ status \in {"exit0", "exit1"}

-----------------------------------------------------------------------------

CInit ==
    /\ phase = "entry" /\ current = 1
    /\ shown = << >>
    /\ \E program \in Programs : \E args \in ArgsOf[program] :
          /\ contexts = <<program>>
          /\ frames = <<NewFrame("top", FALSE, <<Argv0>> \o args, 2, OptionsOf(program), 0)>>
          /\ call = [tuple |-> OptionsOf(program), final |-> TRUE, deserializing |-> FALSE]
    /\ nextPositional = 0
    /\ seen = {}
    /\ result = [s \in Slot |-> Unset]
    /\ status = "run" /\ ret = "none" /\ diag = <<"none", << >>>>
    /\ matched = << >> /\ taken = << >> /\ delivered = << >>

Entering == PrintDefaultHelp \/ ParsePlain \/ ParseCommands
PrePass == ExpectedCommand \/ HelpForCommand \/ MatchCommand \/ MatchLeafCommand

CNext == \/ Entering \/ PrePass \/ ParseContext \/ NextContext \/ CallFunction
         \/ (phase = "done" \/ Exited) /\ UNCHANGED allvars

CSpec == CInit /\ [][CNext]_allvars
FairCSpec == CSpec /\ WF_allvars(CNext)

-----------------------------------------------------------------------------
(* What must hold of a command line. *)

\* The contexts are a path of the command tree, and the arguments that named
\* them are the first of the command line, in order.
CTypeOK ==
    /\ phase \in {"entry", "commands", "options", "done"}
    /\ contexts # << >> /\ contexts[1] \in Programs
    /\ \A k \in 2..Len(contexts) :
          /\ \E j \in 1..Len(SubsOf(contexts[k - 1])) : SubsOf(contexts[k - 1])[j] = contexts[k]
          /\ frames[1].src[k] \in CommandDecl[contexts[k]].names
    /\ current \in 1..Len(contexts)

Ran == phase = "done" /\ status = "ok"

\* A command's function runs only when the whole command line was understood:
\* the contexts that stop at what they do not know leave it to a later one.
RunsOnlyWhenAllIsRead == Ran => frames[1].pos = Len(frames[1].src) + 1

\* The shared iterator never moves back from one context to the next.
FirstNeverMovesBack == [][frames'[1].pos >= frames[1].pos]_allvars

\* Without a help option of its own, no program runs a command when any
\* argument asks for help, not even one that an option would take as a value
\* (parsing.hpp 1446-1466, parse_command_line.hpp 176-190).
HelpIsNeverIgnored ==
    Ran => ~\E k \in 2..Len(frames[1].src) : NoHelp /\ frames[1].src[k] \in DefaultHelp

\* The arguments from the second on name the commands of the path, each the first
\* of its tuple with that name, and the next one names none.
IsLongestPath(path) ==
    LET src == frames[1].src
        Choice(k) == {c \in 1..Len(SubsOf(path[k])) :
                         src[k + 1] \in CommandDecl[SubsOf(path[k])[c]].names}
    IN /\ path # << >> /\ path[1] = contexts[1]
       /\ \A k \in 1..Len(path) :
             IF k < Len(path)
             THEN \E c \in Choice(k) : /\ SubsOf(path[k])[c] = path[k + 1]
                                       /\ \A d \in Choice(k) : c <= d
             ELSE k + 1 <= Len(src) => Choice(k) = {}

\* "Use '{} CMD {}' for help on command CMD" (fwd.hpp 79): a help of a program
\* with commands is that of the last one named.
HelpIsOnTheCommand ==
    HasCommands => \A k \in 1..Len(shown) : IsLongestPath(shown[k])

\* A help option that the program declares was met in the parse of a context.
MetHelpOption == phase = "options" /\ status = "exit0"

\* One help is printed, with every error and never by a program that goes on. It
\* is the program's when it has no commands, and that of the last command named
\* when the pre-pass or an error prints it (parsing.hpp 1285, 1466, 1585-1604).
\* Nothing is said here of a declared help option that a context meets.
HelpIsOfTheLastCommand ==
    /\ Len(shown) <= 1
    /\ status = "exit1" => shown # << >>
    /\ Ran => shown = << >>
    /\ \A k \in 1..Len(shown) :
          /\ ~HasCommands => shown[k] = << >>
          /\ HasCommands /\ ~MetHelpOption => IsLongestPath(shown[k])

\* Only the options of the commands that were named get values, in groups or not.
OtherCommandsUntouched ==
    \A s \in Slot : result[s].set =>
        \E k \in 1..current : \E o \in OptionsIn(OptionsOf(contexts[k])) : Decl[o].slot = s

\* "Returns an required option" (options.hpp 192): a command that runs has all
\* the positionals that it and the commands around it declare.
CommandHasItsPositionals ==
    Ran => \A k \in 1..Len(contexts) :
              \A o \in Positionals(OptionsOf(contexts[k])) : result[Decl[o].slot].set

\* "Use '@file' to load a file containing command line arguments" (fwd.hpp 81):
\* a file that is left without an error was read to its end.
FilesAreReadToTheEnd ==
    [][status = "return" /\ f.kind = "file" /\ status' = "run" => AtEnd]_allvars

\* Every command line ends with a call, an exit or an error.
CTermination == <>(phase = "done" \/ Exited)

=============================================================================
