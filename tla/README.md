# A TLA+ model of Boost.ProgramOptions2

The library parses a command line into a tuple or a map, following options that
are declared with factories such as `argument()`, `positional()`, `flag()`,
`exclusive()` and `command()`; it opens response files in the middle of the
parse, and saves and loads maps. All of it is sequential, header-only code. What
makes it hard is not concurrency but shared, mutable iteration state: one
iterator, one count of positionals and one result are threaded by reference
through recursive calls for groups, files and commands, with two ways of failing
(exit, or return an error when loading) and with an iterator type whose
comparison is not position.

Paths below are relative to `src/include/boost/program_options_2/`.

## The system

| component | state | operations | interacts with | modelled in |
|---|---|---|---|---|
| option declarations (`options.hpp`, `fwd.hpp`, `option_groups.hpp`, `detail/utility.hpp`) | none at run time | factories, `option_checker`, flattening of groups | read by everything | `OptionModel` |
| option parser (`detail/parsing.hpp` 477-1202) | `first`, `next_positional`, `exclusives_seen`, the result; per call `initial_first`, `positional_index`, the fold | `parse_option`, `parse_options_into_impl` (recursive), `parse_options_into`, the tuple and map entry points | opens response files, returns to the entry points, prints and exits | `OptionParser` |
| parsers of argument types (`detail/parsing.hpp` 125-202, 343-398) | none | grammar, choices, validator, assignment | called by `parse_option` | `OptionModel` |
| entry points and commands (`parse_command_line.hpp`, `detail/parsing.hpp` 1204-1618) | `parse_contexts`, `func`, the shared `first` and `next_positional` | the default help scan, the command pre-pass, the contexts' `parse_`, the call | option parser, help printing | `CommandLine` |
| response file iterator (`arg_view.hpp` 195-333) | `it_`, `*current_` (shared by copies), `just_before_end_` | `++`, `*`, `==` | the option parser compares copies of it | `ResponseFileTokens`, `WordPasses` |
| storage (`storage.hpp`) | the file | save and load, two formats | loading is a parse with `deserializing` | `Storage` |
| JSON grammar (`storage.hpp` 254-466) | the position in the text, what is open, `args` | an external parser library runs the rules and calls back | gives words to the loader | `JsonReader` |
| help printing (`detail/printing.hpp`) | `current_width`, `printed_sections`, `max_option_length` | the synopsis, collecting the sections, printing them | called from every parse that exits; `parse_contexts` | `HelpText`; who is shown what in `CommandLine` |
| validators of paths (`decorators.hpp` 113-213) | the file system | | called when an argument was parsed | the set `valid` of a declaration |
| `arg_view`, `tag_invoke.hpp`, `config.hpp`, concepts | none | transcoding, dispatch | | not modelled |

What each must get right:

* **option parser**: positionals match in the order of their declaration, each once,
  whatever comes between; a success has everything that is required; nothing the
  user gave is overwritten later; one option of an exclusive group; no token is
  lost or seen twice, across files; no read past the end; it ends.
* **commands**: the contexts that were named, and no others, parse everything that
  follows, in order; the command runs only when all of it was understood; the help
  is of what was named.
* **response file iterator**: the words written are the words read, and two copies
  compare as the parser's progress check needs.
* **storage**: a saved map loads, equal, and loading never exits.
* **JSON grammar**: a text is accepted just when it is one JSON value, and its words
  are then the words of the text, in order.
* **help printing**: what is accepted is what is described, once, in its section;
  lines keep to the width as far as their items allow; descriptions line up.

## Modules

`OptionModel` holds the declarations and the questions asked of one option and one
token. A token is opaque: that it starts with a dash (`Dashed`) or with `@`
(`AtFile`), that a type's grammar accepts it (`parses`), a validator accepts it
(`valid`) or that it is a counted flag's letter repeated (`counts`) are data of
the declaration. `WellDeclared` is what the factories and `option_checker` let
through; it and `RemainderLast` are assumptions that TLC evaluates.

`OptionParser` extends it with the parse. Its state is the recursion of
`parse_options_into_impl()` made explicit: `frames` is the call stack. A frame has
the list it reads (`src`), `first` (`pos`), the fold's index (`i`, 0 at the head of
the `while`), `initial_first`, `positional_index`, the group index and whether the
iterators read an `istream`. A group's frame gives its `pos` back to its caller,
as the code shares `first` by reference; a file's frame does not, and its caller
steps over the file's name. `parse_option()` is one action per outcome:

| code | actions |
|---|---|
| 882-886, 558-559, 581-582 | `SkipTakenPositional`, `NoMatch` |
| 562-579 (`-vvv`) | `CountShort` |
| 584-636 (name matched) | `RejectSecondExclusive`, `MatchName` |
| 646-736 (arguments) | `NoArgsLeft`, `TakeArgs`, `TooFewArgs`, `InvalidArg` |
| 845-872, 675-687 (files) | `OpenAtFile`, `OpenNamedFile`, `ReturnFromFile` |
| 922-977 (fold, groups) | `BeginFold`, `EnterGroup`, `ReturnFromGroup`, `EndFold`, `LoopEnds` |
| 1048-1092 | `Finish` (missing positionals, defaults) |

The repetitions of an option's arguments are one step: what ends them (`RunOf`) is
determined by the tokens and nothing else can happen meanwhile.

`TokenStream` is the abstract promise: the user's tokens are one stream; options
take them from the front; a file's words replace its name; acceptance means that
nothing is left; only loading may drop words, when the file they are in has an
error. `OptionParserStream` is the refinement mapping: what the frames still have
to read, innermost first, is the stream's unread part. `OptionPromises` says what a
parse promises about the arguments as a whole: `ResultIsWhatWasGiven`, which holds, and
the properties taken from comments of the headers that some runs refute.

`CommandLine` extends `OptionParser` with the entry points that fill a map. The
pre-pass eats command names and pushes contexts; then each context's `parse_` is
one `parse_options_into()` over its own options, from the shared iterator. A
program without commands is one such parse. `Programs` are the programs that a
behaviour may be of. A command's tuple is any that `OptionParser` parses: a group in it
is a nested call in that context's parse. `TreeOptions` walks a program's options, its
groups and commands as `get_help_option()` does, and of several help options
`HelpOptionOf` is the last.

`CommandLine.shown` is the help that was printed before the program ended: of the
whole program, or of the contexts that were named so far.

`Storage` extends `OptionParser` with saving and loading around two parses.
Saving writes one option per step, and a step may fail (`SaveMistyped`, the
`bad_any_cast` of 214) and leave a partial file. `file` is what a reader gets: the words
that the response file iterator makes of it, or the symbols of JSON. It is loaded
into an empty map or into the one the program has. JSON files that the program did
not write (`GivenFiles`) start a behaviour at the load.

`JsonReader` is the grammar as a reader of symbols: the rules are LL(1), so that one
symbol decides each step, and what is open is a stack. `IsPart` is the reference, a
document by the shape of the whole text. `Storage` has it as `Json`, an instance over
its own variables.

`ResponseFileTokens` is the iterator itself, one action per branch of `operator++`,
and the reader beside it is the loop of `parse_options_into_impl()`: passes that begin
with a copy of the iterator and end by comparing with it. `WordPasses` is the same loop
over whole words, and the two are related by refinement: `Index`, the number of
words read, is the position, and `Same` says when two iterators compare equal. It is
what `OptionParser.BackAtInitial` uses, so that the parser's model of a stream is not
assumed but implemented.

`HelpText` is `print_help()` for one program and one sequence of contexts: `PrintUsage`,
`PrintDefaultHelp`, `PrintPlaceholder`, `PrintOption` and `EndSynopsis` lay out the usage;
`CollectOption`, `CollectCommand`, `CollectExclusive`, `CollectNamedGroup` and the two `Skip...`
put rows into `sections`; `PrintSection` and `EndHelp` print them. A text is its width.

The `..._proofs` modules have the theorems: `OptionParser_proofs`, `OptionResults_proofs`
(what a parse leaves in its result) and `OptionParserStream_proofs` (the refinement) of the
parser, and `CommandLine_proofs`, `ResponseFileTokens_proofs`, `JsonReader_proofs`,
`HelpText_proofs` and `Storage_proofs` of the component they are named after. The `MC*` modules give the constants values.

Definitions marked "Slip" are plausible mistakes, each defined before the
definition it would replace; a property is worth keeping only if one of them
breaks it. They are in no next-state relation.

## Runs

Every passing run explores all of its state space; deadlock is checked
everywhere, and an ended program may only stutter.

| run | what is varied | what it shows |
|---|---|---|
| `parser` (220,964 states) | three programs, each with its own options and lists. One: up to 5 of 6 tokens (4 when `-vv` is among them); an argument with a default, one of one-or-more choices, an optional one with a validator, a counted flag, two positionals. The second: up to 5 of 5 tokens; an argument, a positional, an exclusive group. The third: up to 4 of 8 tokens, four files, three sources of arguments | `PositionalsInOrder`, `SuccessIsComplete`, `AtMostOneExclusive`, `PositionalsKeepTheirValues`, `ResultIsWhatWasGiven`, `ImplementsStream` across groups and nested files, `CursorsInRange`, `LoadingNeverExits`, `Termination` |
| `commands` (123,380) | up to 5 of 7 tokens, a program with commands to depth two and one without; up to 4 of 6 for the three that declare help options. A command has an exclusive group; so has the command of a program with two help options, and one of these is in it | `RunsOnlyWhenAllIsRead`, `FirstNeverMovesBack`, `OtherCommandsUntouched`, `HelpIsNeverIgnored`, `HelpIsOfTheLastCommand`, `PlainAcceptsAnyOrder`, `CTermination` |
| `file_words` (194,038) | words of up to two special characters, quoted or plain, three separators, three endings; `#` right after a plain and after a quoted word | `WordsAreRead`, `ImplementsPasses`, `ReaderEnds` |
| `storage` (259,359) | up to three of 14 chunks in their order, a remainder, both formats, every failure to open, a value of another type in the middle, loading into an empty map and into the program's own; all JSON texts of up to four of nine symbols, and three longer documents with each symbol changed or missing | `LoadsJustWhatIsPortable`, `FailedLoadLeavesTheRest`, `JsonIsReadInFull` |
| `help` (10,564) | four programs with and without commands, help options and groups of every kind; every path of contexts; widths around the limits | `SynopsisNamesEveryOption`, `LinesOverrunByOneItem`, `DescribesWhatIsAccepted`, `DescriptionsAlign`, `RowsStayInTheirSection` |

The lists of `parser` are longer than the longest complete line of their
options, so that surplus arguments, missing ones, and every order of two
options occur. Its programs differ because they would hide things from one another: an
exclusive group turns whatever follows it and is not its own into an error at once, so
that only a program without a group goes over its options more than once; and only
one without response files has all of its values in the arguments themselves. Only
the third is also loaded, since what loading changes is how errors and files end. Five tokens are an argument with its value and
three positional values, or two commands with an option each; nested files add up to
four tokens more. Two words of two characters contain every pair of a special
character with its neighbour, and four words are enough for two copies of an
iterator to be two words apart with a word before and behind. Three saved options and a
remainder have every pair of neighbours in the file. Four symbols are every way to
open, separate and close one container; the longer documents nest them. The widths of
the help are on both sides of each limit: an item that fits, one that breaks a line,
one wider than a line; a name that leaves room for its description, one that is within two
columns of it, one beyond.

`LoadsJustWhatIsPortable` is an equivalence: what was written is loaded, on top of what
the map held, **if and only if** it holds no flag or counted flag, no scalar that reads
back as other words (a string, in a response file), in JSON no positional and nothing
that has to be escaped, and no option that would go on to take the next one's words;
and JSON must be whole and not empty. It is the exact extent of the disagreement that
`storage_round_trip` shows by one example. A response file that was cut off loads as what
was written of it; cut off JSON never loads.

`FailedLoadLeavesTheRest` says how far a load that throws has changed the map it was given:
values of options that it came to, by their name or as the positional whose turn it was, and
nothing else. The code promises less: it parses straight into the caller's map.

`ResultIsWhatWasGiven` computes from the arguments as a whole what each option gets, as
if there were no passes: an option has the values at the places where it is named - of
the last such place, or, a container, of all -, its default or nothing when it is not
named, and the positionals have what is left over, in order. So no default replaces
or joins a value that was given, no pass or nested call assigns twice, and no value goes
to another option. It is not stated of a list that opens a response file, whose words
are not in the arguments; `ImplementsStream` is.

`DescribesWhatIsAccepted` says of each option which section has its row (`Home`): one
in most cases, and none for an option in an exclusive group of a named one, which has a row for
all its options, nor for those outside named groups where the help lists commands.
It says nothing of the options of a named group that begins with an exclusive group, in the
help of a command without subcommands, where the code and its comment disagree (`Disputed`;
the list below).

`HelpIsOfTheLastCommand` is about the help that the pre-pass and the errors print. The
help option of a program that is met in a context prints that of the whole program,
against the library's own note, and is the finding `help_option`.

`PlainAcceptsAnyOrder` is the opposite of the safety properties: a parser that
refuses too much fails it. It is stated for programs without positionals because
with them the code does not have it (`options_anywhere`).

### Where the code and its comments disagree

| run | what the code does |
|---|---|
| `storage_round_trip` | flags and counts are written with a value that their options do not take (storage.hpp 183-211) |
| `load_errors` | an error in a file that a loaded file names is lost (parsing.hpp 822) |
| `options_anywhere` | a positional is tried on a name that belongs to an option before it (parsing.hpp 694, 719-736) |
| `exclusive_file` | a file that is named inside a group is parsed outside it (parsing.hpp 836) |
| `help_option` | a help option that is given after a command prints the help of the whole program, although the note that is printed with it says "Use '{} CMD {}' for help on command CMD." (parsing.hpp 421-430, fwd.hpp 79) |
| `command_positionals` | `next_positional` is shared by contexts that count from zero (parsing.hpp 1608) |
| `command_file` | a context that is not final drops what it does not know of a file (parsing.hpp 973, 840) |

Smaller ones that the model has as branches and no run singles out.

In parsing: a lone `-` counts as zero of a counted flag (562-579); the short form of a
counted flag skips the group check (same lines come before 584); choices are not
validated (350-366 never calls `validate`, decorators.hpp 94); a token such as `@f` is
consumed as a value by an option that is being filled (703-705); help and version
options in a loaded file reach `BOOST_ASSERT(opt.args)` (644); what follows an exclusive
group and is not of it is an unknown argument at once, so options that are declared
before the group have to be given before it (973).

In files: two passes over a response file look like none (967 with arg_view.hpp
295-300), so that options out of declaration order in a file are refused; `#` right
after a plain word separates and what follows is read, right after a quoted word it
starts a comment (arg_view.hpp 265-268, 283).

In storage: values are put between JSON quotes as they are (573); a JSON number becomes
`std::to_string` of a `double` (484); the limit on nesting is set and never counted
(635); `file_slurp()` compares a `char` with -1 (506); `load_json_file()` throws
`save_error` (624); an empty map saved as JSON cannot be loaded (1228); a container is
added to, not replaced, when a map is loaded into that has values (248).

In the help: a named group that begins with an exclusive group is left out of the help of
a command without subcommands (printing.hpp 600), although a named group "appears with the
given name and description in the printed help text" (option_groups.hpp 316-317); an
exclusive group inside a named one is one row without its options' descriptions; a line of the synopsis may be wider than
`max_col_width` by its first item, as the item that broke the line is not counted
(printing.hpp 211); the text that is adjusted for "COMMAND SUB-COMMAND" (parsing.hpp
1402) is never printed.

## Fairness

There is one thread, and it runs: `WF_vars(Next)` (`FairSpec`, `ProgramsSpec`, `FairCSpec`), and the same
in `ResponseFileTokens`, where the reader is part of that thread. No action waits for
anything outside. `Storage` and `HelpText` have no liveness property: each step of theirs
shortens what is left to do, and the parse in between is `OptionParser`'s. `Termination`
assumes that files do not name each other in a cycle: with a cycle the code recurses
without bound, and so does the model.

## Proofs

`OptionParser_proofs` proves, for every `Token`, `Option`, `Decl`, `OptTuple`, set of
argument lists and contents of files that satisfy the module's assumptions:

* `TypeCorrect`, `CursorsStayInRange`, `PositionalsMatchInOrder`: the invariants;
* `LoadingReturns`: no exit while deserializing.

They follow from one inductive invariant, `IInv`, which is `ParserOK` (type correctness and
the shape of the stack) and `PositionalsInOrder`. `TypeOK` is not inductive alone:
that a group may write its `pos` into its caller's frame needs that both read the
same list, and that a returning file may add 1 to its caller's `pos` needs that the
caller still points at the name. So `ParserOK` adds `FrameOK` (each frame within its list,
a top or file frame over the whole tuple, a group frame over the
options of one group) and `CallOK` (how each frame relates to the one that called
it). And `PositionalsInOrder` is not inductive without knowing
what `positional_index` means: `FrameOK` says that it is the number of positionals
before the fold's index, less one, which with the guard of
`SkipTakenPositional` makes the next positional taken the one whose ordinal is
`next_positional + 1`. All of it is stated of the tuple of the current call
(`call.tuple`), so that it holds in each parse of a command's context too. The proof has
one lemma per action (`...Keeps`), over lemmas on
the stack (`SetTopStack`, `PushStack`, `PopStack`), on assignment (`AssignTyped`)
and on ordinals (`OrdinalStep`).

`OptionResults_proofs` has what a parse leaves in its result, under `SlotsApart(OptTuple)`: each
entry of the tuple has a slot of its own. In a result tuple that is always so; in a map the
code does not assert it, and two options with one storage name overwrite each other.

* `PositionalsStay`: what was assigned to a positional stays. Only the action of that
  positional writes its slot, and `IInv` says that it is not taken a second time
  (`TakenStay`).
* `SuccessMeansComplete`: a success has a value that was accepted for everything required. The
  invariant `Complete` carries it through the parse: each value is one its option accepts
  (`AllAccepted`), each positional that was taken has as many as it needs
  (`TakenHaveValues`), and at the end none is missing (`NoneMissing`, which `Finish`
  checks by a count; the lemmas on ordinals turn the count into "each").
* `ExclusivesAreExclusive`: at most one option of a group, under `Guarded(OptTuple)`: the
  program takes no response files and has no counted flag in a group. Those are just the two
  ways around `exclusives_seen` that the code has (836, and 562-579 before 584); `exclusive_file`
  shows the first. The invariant `OneEach` relates the calls on the stack to groups (`GroupCalls`)
  and the options matched to the groups seen (`GroupsSeen`, `AtMostOneOfGroup`).

`OptionParserStream_proofs` proves `ImplementsTokenStream`: every behaviour of the parser is one of
`TokenStream`. What is unread is `Left` of the innermost call followed by `Below`, what its
callers have left (`UnreadSplits`), so that each action needs only one of three lemmas: the top of
the stack changed, a call was pushed, a call was popped. `Returning` is added to the invariant:
a call that returns an error is loading, and one that returns without an error has read
its list; without it a return could drop words in the abstract specification. The mapping uses
`FlattenSeq` of the community modules, a recursive function inside a definition; what is needed
of it (`FlattenFirst`) is proved from the least counterexample (`ConcatsExist`, `Least`), because the
library's induction theorem cannot be instantiated.

`CommandLine_proofs` proves, for every tree of commands, with whatever options and exclusive
groups each declares, and every command line, what the
`commands` run checks but its liveness and `PlainAcceptsAnyOrder`: `CTypeCorrect`, `FirstMovesForward`, `RunsWhenAllIsRead`,
`HelpIsGiven`, `CommandsWriteTheirOwn` and `HelpIsOfTheRightCommand`. Its invariant `CInv` takes
`ParserOK` over from the parser, with the steps that start the next context's parse
added, and says what holds between the parses: the contexts are a path in the tree of commands, each
the first with its name (`PathOK`); until they are parsed, `first` is just past their names
(`PrePassOK`); and the parse of the last is the one that is final (`OptionsOK`), which is what makes
"the command runs" mean that everything is read. `HelpIsGiven` adds `NoHelpAsked` (once the scan is
over no argument asks for the default help), and `HelpIsOfTheRightCommand` adds `ShownOK` (nothing is shown before
the end) and a hypothesis, `HelpNamesNoCommand`: the names of the default help can be
customized, and the code does not assert that no command has one of them. That no command is named like a
help option that is declared is not a hypothesis: `option_checker` makes the one begin with
a dash and the other not. `HelpIsOfTheRightCommand` claims nothing of a declared help option
that a context meets but that its help is the only one, and printed last.

`ResponseFileTokens_proofs` proves, for every text over every character set,
`FileTypeCorrect`: `TypeOK`, whose `it \in 1..(Len(text) + 1)` says that no character is read
past the end, whatever backslash, quote or comment the file ends in; and
`RefusedEarlyOnly`: a file is refused only for a pass that read nothing or while there is more
to read. The inductive invariant `RInv` adds what is known of a copy that was made at the
last word (`CopyOK`): the iterator is at that word still, or consumed it and has become the end. That a
comment ends (`CommentEnds`) rests on the library's theorem that `<` is well founded on `Nat`.

`JsonReader_proofs` proves, for every text over every set of words, that `TypeOK` of
`JsonReader` holds (`JsonTypeCorrect`: no text leads the reader past its end or to close
what is not open) and `AcceptsOnlyWholeTexts`: the verdict "accepted" is on all of the
text, with everything in it closed. `TypeOK` is not inductive here because closing needs
something open; `Nesting` adds when that is so. `CutOffIsRefused` says that an object without a
closing brace is never accepted: it stays at the bottom of the stack (`StillOpen`), since of all
symbols only that one closes it. What the text then *is* cannot be proved:
`IsPart` is recursive on the text, and the induction is out of the prover's reach.

`Storage_proofs` proves, for every program whose options have slots of their own
(`SlotsApart`) and for every command line and every JSON file, that saving and loading are typed
(`StorageIsTyped`), `FailedLoads`, that a load returns also in a program that parsed and saved
before (`LoadsReturn`), and `CutOffNeverLoads`. The invariant `SInv` goes round the whole life of
a map, since each of its parts needs the one before:

* What is written has its type only if what is held can be written: `AllSpelled`, a counted
  flag holds a count that it can have, and a `std::string` is not empty. This is where
  `SpellingType` comes in, that the tables of spellings (`NumberText`, `Letters`) have what the
  options can hold, as `operator<<` and `std::to_string()` are defined for all of it. `AllSpelled`
  is kept by the parse because arguments are only parsed for an option that
  was named (`ArgsMatched`): a flag or a counted flag never is at its arguments.
* What is loaded is tokens because what is in the file is typed, and, in JSON, because the reader's
  own invariant (`JsonReader_proofs`, as an instance over the variables of `Storage`) holds of
  the file that was written: it is not read before the last write (`NothingRead`).
* A load is one more parse from a fresh stack (`LoadStarts`), so that `IInv` holds in it too, and
  all that is proved of the parser's steps is used again.
* `FailedLoads` is `OnlyReached`, carried through the steps of the parse: what is
  changed belongs to an option that was matched, or to the positional whose ordinal `FrameOK` relates
  to `next_positional`; what was reached stays reached (`ReachedGrows`).
* `CutOffNeverLoads` carries `CutOffOpen` from the first write to the verdict: an object is open
  in the file and nothing in it closes one. It has the hypothesis `NoBraces`, which is not an
  abstraction: nothing is escaped, so that a value such as `x"}#` closes the object early and makes a
  comment of the quote after it: what was cut off there is a whole document.

`HelpText_proofs` proves, for every program and every path of contexts, that the help is typed
(`HelpIsTyped`), that a line overruns the limit by no more than one item (`LinesOverrun`), that
the descriptions of a section start in one column (`DescriptionsAreAligned`) and that a row
stays in its section (`RowsStay`).

* `HInv` has one part per stage of `print_help()`: `SynopsisOK` while the usage is laid out,
  `TodoOK` of the options and groups that wait for collection, `CollectedOK` of the sections,
  `OutputOK` of what is printed. `DescriptionsAlign` needs that a section's column was measured over
  the very rows that are printed, so `Measure` is part of the invariant while they are.
* A placeholder is as wide as its parts, however deep groups are nested: a recursive function
  of the depth. What it returns is proved without induction over data: were there a group whose
  placeholder is not typed, there would be one at the least depth (`LeastDeep`, from
  the well-foundedness of `<` on `Nat`), and its members are less deep. This is what the constant
  `Depth` is for; `DepthType` says that options and groups are types, so that none has itself
  as a member.
* `LinesOverrun` has the hypothesis `UsageWidth <= MaxCol`: the words before the first item can be
  customized, and nothing in the code bounds them. `Slack` is what an item's
  own brackets and separators add without being counted.
* `RowsStay` has the hypothesis `GroupsOnce`: no named group is met twice in a help. The
  code appends to the section of the same name; a group met twice has its rows twice. It is
  true of all the programs of the `help` run.
* `ExclusiveType` is `contains_wrong_group_option()` of option_groups.hpp: an exclusive group has
  two options at least, and no positional or command in it.

Only model-checked, and why:

* `Termination`, `CTermination` and `ReaderEnds`: liveness.
* `WordsAreRead` and `ImplementsPasses`: they relate a text to the words it was written for, which
  are data of the run, and need an induction over the text.
* `ReadsJustTheDocuments` (in `JsonIsReadInFull`): `IsPart` is recursive on the text.
* `ResultIsWhatWasGiven`: it compares the result with the whole list of arguments, and is an
  induction over that list.
* `PlainAcceptsAnyOrder`: which programs it speaks of is defined by the run.
* `LoadsJustWhatIsPortable`: it compares what two parses made of the same data, and is an
  induction over the file.
* `SynopsisNamesEveryOption` and `DescribesWhatIsAccepted`: they compare what the help has with all
  that is anywhere in the tree of options, which is an induction over that tree in both
  directions; the least-depth argument gives what one function returns, not that two
  walks meet the same leaves in the same order.

The findings' properties are false, and have no theorem.

## What the model leaves out

* googletest and benchmark, which are vendored below `src/` and are most of its lines:
  the library itself has about 6,000. They are not part of the program.
* Tokens are not empty strings, and INT_MAX repetitions are never reached.
* Transcoding between UTF-8, UTF-16 and the execution character set; Windows.
* The tuple overload of `parse_command_line()`: the same calls with another result.
* A command's own options are taken to be declared before its subcommands. The order among
  them is that of the parse anyway; it only tells which of several help options is the last.
* `exclusives_seen` keeps only its keys; the strings are for the message.
* The text of messages; `diag` keeps the error and the argument. The help's texts are
  their widths, and the breaking of a description into lines, a call of the text
  library, is left out.
* Lifetimes: values are tokens, while a `std::string_view` option that a response
  file fills refers to a buffer the next word overwrites (test/storage.cpp 11-12 knows).
* Which of the values that a failed load came to it has put into the caller's map: it is in the
  state, but only its extent is claimed. Map iterators (`parse_into_map_cleanup()` erases as it
  goes).
* A counted flag with a default value, in `Storage`: only counts that a name can give are spelled.
* A comment that ends a file makes the iterator dereference the end of the stream;
  the value is taken to be the last character read, which is what
  `std::istream_iterator` holds.
* The characters of a JSON string or number are one symbol; a text nested so deeply
  that the stack ends.
* Writes that fail: no write to a stream is checked.

## Plan

Done: the parser, its files and groups, commands, the iterator and the passes over it,
storage with partial files and filled maps, JSON, the help, and the proofs named above.
Left, in this order:

1. That each step of the parser decreases a measure, which is what `Termination` rests on; it
   bounds the length of a parse without speaking of fairness.
2. Lifetimes: the buffer behind `*current_` and the views into it, with the property that
   a value does not change after its option was parsed.
3. `OptionParser` over the words of `ResponseFileTokens` directly, for one file.
