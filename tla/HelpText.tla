------------------------------ MODULE HelpText ------------------------------
(***************************************************************************)
(* print_help() of detail/printing.hpp, for one program and one sequence   *)
(* of parse contexts: the usage line, wrapped at max_col_width; then the   *)
(* options, sorted into sections as they are met; then the sections, with  *)
(* the descriptions in a column of their own.  Texts are their widths.     *)
(* Without contexts (a program without commands, or a help option met by   *)
(* parse_options_into()) the help is of the whole program.                 *)
(***************************************************************************)
EXTENDS Integers, FiniteSets, SequencesExt

CONSTANTS
    Item,           \* options, groups, commands and programs
    Printable,      \* their kinds, the width of their names, what they contain
    Depth,          \* how deep groups and commands nest in each of them
    Program,        \* the programs among them
    DefaultHelp,    \* the option that is printed when none is declared
    Placeholder,    \* COMMAND, for the commands of the last context
    Widths,         \* the possible widths of each option in the synopsis
    MaxCol,         \* max_col_width
    MaxOptionCol,   \* max_option_col_width
    UsageWidth      \* the width of strings.usage_text

OptionKind == {"option", "positional", "help", "response_file"}
GroupKind == {"group", "exclusive", "named", "command"}

ASSUME PrintableType ==
    /\ Program \cup {DefaultHelp, Placeholder} \subseteq Item
    /\ Printable \in [Item -> [kind : OptionKind \cup GroupKind, names : Nat,
                               items : Seq(Item)]]
    /\ \A i \in Program : Printable[i].kind = "command"
    /\ Printable[DefaultHelp].kind = "help" /\ Printable[Placeholder].kind = "option"
    /\ Widths \in [{i \in Item : Printable[i].kind \in OptionKind} -> SUBSET (Nat \ {0})]
    /\ {MaxCol, MaxOptionCol, UsageWidth} \subseteq Nat
    /\ {"positional", "optional"} \cap Item = {}

\* Options and groups are types, and none contains itself; nor does any contain
\* what the help adds of its own.
ASSUME DepthType ==
    /\ IsFiniteSet(Item) /\ Depth \in [Item -> 0..Cardinality(Item)]
    /\ \A i \in Item : \A j \in ToSet(Printable[i].items) :
          Depth[j] < Depth[i] /\ j \notin {DefaultHelp, Placeholder}

VARIABLES
    phase,          \* "usage", "help", "placeholder", "synopsis", "collect",
                    \* "sections" or "done"
    program,        \* opts...
    contexts,       \* parse_contexts
    width,          \* the width of each option in the synopsis
    todo,           \* the options still to print or to collect
    lines,          \* the lines of the synopsis, with their real width
    first_column,   \* where the lines after the first one start
    column,         \* current_width: where the code takes the line to end
    sections,       \* printed_sections
    longest,        \* max_option_length
    commands_printed,
    order,          \* the sections still to print
    printed,        \* the sections printed
    note            \* what the help ends with

layout == <<lines, first_column, column>>
collected == <<sections, longest, commands_printed>>
output == <<order, printed, note>>
vars == <<phase, program, contexts, width, todo, layout, collected, output>>

-----------------------------------------------------------------------------
(* The options of a program or command. *)

KindOf(i) == Printable[i].kind
ItemsOf(i) == Printable[i].items
IsGroup(i) == KindOf(i) \in GroupKind

\* make_opt_tuple_for_printing(): only groups without a name are flattened.
Flattened[i \in Item] ==
    IF KindOf(i) = "group"
    THEN FlattenSeq([k \in DOMAIN ItemsOf(i) |-> Flattened[ItemsOf(i)[k]]])
    ELSE <<i>>
Contents(i) == FlattenSeq([k \in DOMAIN ItemsOf(i) |-> Flattened[ItemsOf(i)[k]]])

\* print_option() for the synopsis: groups print their options, commands nothing.
InSynopsis[i \in Item] ==
    IF ~IsGroup(i) THEN <<i>>
    ELSE IF KindOf(i) = "command" THEN << >>
    ELSE FlattenSeq([k \in DOMAIN ItemsOf(i) |-> InSynopsis[ItemsOf(i)[k]]])

\* Slip: named groups are left to their sections.
SynopsisOfUnnamed(c) ==
    FlattenSeq([k \in DOMAIN ItemsOf(c) |->
                   IF KindOf(ItemsOf(c)[k]) = "named" THEN << >> ELSE InSynopsis[ItemsOf(c)[k]]])

SynopsisOf(c) ==
    FlattenSeq([k \in DOMAIN ItemsOf(c) |-> InSynopsis[ItemsOf(c)[k]]])

\* Everything in an item, itself included, down to the commands in it.
Under[i \in Item] ==
    {i} \cup (IF KindOf(i) = "command" THEN {}
              ELSE UNION {Under[j] : j \in ToSet(ItemsOf(i))})
Contained(c) == UNION {Under[j] : j \in ToSet(ItemsOf(c))}

HasSubcommands(c) == \E i \in Contained(c) : KindOf(i) = "command"

\* The factories make no empty group without a name, and no exclusive group of
\* anything but options and such groups (contains_wrong_group_option()).
ASSUME ExclusiveType ==
    \A i \in Item :
        /\ KindOf(i) \in {"group", "exclusive"} => ItemsOf(i) # << >>
        /\ KindOf(i) = "exclusive" =>
              \A j \in Under[i] \ {i} : KindOf(j) \in OptionKind \cup {"group"}

\* no_help_option(), no_response_file_option(): anywhere in the program.
Anywhere[i \in Item] == {i} \cup UNION {Anywhere[j] : j \in ToSet(ItemsOf(i))}
NoneOf(kind) == \A i \in Anywhere[program] : KindOf(i) # kind
NoHelp == NoneOf("help")

\* The names of some items, each after a gap.
NamesWidth(items, gap) ==
    LET upTo[k \in 0..Len(items)] ==
            IF k = 0 THEN 0 ELSE upTo[k - 1] + gap + Printable[items[k]].names
    IN upTo[Len(items)]

\* The names of an option or a command, two columns in; an exclusive group in a
\* row of its own prints those of all its options.
RowWidth(i) == NamesWidth(IF KindOf(i) = "exclusive" THEN InSynopsis[i] ELSE <<i>>, 2)

IsLeaf == contexts # << >> /\ ~HasSubcommands(Last(contexts))

\* Whose options the help is of.
Described == IF contexts = << >> THEN <<program>>
             ELSE IF IsLeaf THEN contexts
             ELSE <<Last(contexts)>>

\* The options that parse_options_into() accepts from the described contexts.
Accepted == {i \in UNION {Contained(Described[k]) : k \in DOMAIN Described} : ~IsGroup(i)}

-----------------------------------------------------------------------------
(* print_help_synopsis(). *)

\* print_prog_and_commands(), after the usage text and a space.
ProgramEnd ==
    UsageWidth + 1 + Printable[program].names
    + (IF contexts = << >> THEN 0 ELSE NamesWidth(Tail(contexts), 1))

PrintUsage ==
    /\ phase = "usage" /\ phase' = "help"
    /\ lines' = <<[used |-> ProgramEnd, items |-> << >>]>>
    /\ first_column' = IF MaxCol \div 2 < ProgramEnd THEN UsageWidth ELSE ProgramEnd
    /\ column' = first_column'
    /\ UNCHANGED <<program, contexts, width, todo, collected, output>>

\* Slip: the wrapped line is taken to start at its left margin.
PutFromZero(i, w, indent) ==
    /\ UNCHANGED first_column
    /\ IF MaxCol < column + w
       THEN /\ lines' = Append(lines, [used |-> indent + w, items |-> <<i>>])
            /\ column' = 0
       ELSE /\ lines' = [lines EXCEPT ![Len(lines)] =
                            [used |-> @.used + w, items |-> Append(@.items, i)]]
            /\ column' = column + w

\* print_option_final().  After a line break current_width is where the line
\* starts: the item that is then printed is not counted.
Put(i, w, indent) ==
    /\ UNCHANGED first_column
    /\ IF MaxCol < column + w
       THEN /\ lines' = Append(lines, [used |-> indent + w, items |-> <<i>>])
            /\ column' = indent
       ELSE /\ lines' = [lines EXCEPT ![Len(lines)] =
                            [used |-> @.used + w, items |-> Append(@.items, i)]]
            /\ column' = column + w

PrintDefaultHelp ==
    /\ phase = "help" /\ phase' = "placeholder"
    /\ IF NoHelp THEN Put(DefaultHelp, width[DefaultHelp], first_column)
                 ELSE UNCHANGED layout
    /\ UNCHANGED <<program, contexts, width, todo, collected, output>>

PlaceholderWidth == 1 + Printable[Placeholder].names

\* The text that stands for the subcommands of the last context; the options of
\* the contexts follow only where there are none.
PrintPlaceholder ==
    /\ phase = "placeholder" /\ phase' = "synopsis"
    /\ IF contexts = << >> \/ IsLeaf
       THEN /\ todo' = FlattenSeq([k \in DOMAIN Described |-> SynopsisOf(Described[k])])
            /\ UNCHANGED layout
       ELSE /\ todo' = << >>
            /\ Put(Placeholder, PlaceholderWidth, 0)
    /\ UNCHANGED <<program, contexts, width, collected, output>>

PrintOption ==
    /\ phase = "synopsis" /\ todo # << >>
    /\ Put(Head(todo), width[Head(todo)], first_column)
    /\ todo' = Tail(todo)
    /\ UNCHANGED <<phase, program, contexts, width, collected, output>>

EndSynopsis ==
    /\ phase = "synopsis" /\ todo = << >>
    /\ phase' = "collect"
    /\ todo' = (IF NoHelp THEN <<DefaultHelp>> ELSE << >>)
               \o FlattenSeq([k \in DOMAIN Described |-> Contents(Described[k])])
    /\ UNCHANGED <<program, contexts, width, layout, collected, output>>

-----------------------------------------------------------------------------
(* print_post_synopsis_option(). *)

PrintCommands == ~IsLeaf

CommandSection(s) == Len(s) >= 3 /\ s[3].title = Placeholder

SectionOf(o) == IF KindOf(o) = "positional" THEN 1 ELSE 2

\* The members of a sequence that pass a test.
Those(s, Test(_)) == FlattenSeq([k \in DOMAIN s |-> IF Test(s[k]) THEN <<s[k]>> ELSE << >>])

\* process_single_opt(): a row at the end of a section.
AddRow(s, k, i) == [s EXCEPT ![k].rows = Append(@, i)]
AddRows(s, rows) ==
    [k \in DOMAIN s |-> [s[k] EXCEPT !.rows = @ \o Those(rows, LAMBDA o : SectionOf(o) = k)]]

\* Slip: the length of the last row.
MeasureLast(rows) ==
    longest' = FoldLeft(LAMBDA n, i : RowWidth(i), longest, rows)

\* The greatest length so far.
Measure(rows) ==
    LET lengths == {longest} \cup {RowWidth(rows[k]) : k \in DOMAIN rows}
    IN longest' \in lengths /\ \A n \in lengths : n <= longest'

Collecting(kinds) == phase = "collect" /\ todo # << >> /\ KindOf(Head(todo)) \in kinds
Collected == /\ todo' = Tail(todo)
             /\ UNCHANGED <<phase, program, contexts, width, layout, output>>

CollectOption ==
    /\ Collecting(OptionKind)
    /\ LET o == Head(todo) IN
       /\ sections' = AddRow(sections, SectionOf(o), o)
       /\ Measure(<<o>>)
    /\ UNCHANGED commands_printed
    /\ Collected

\* Slip: the third section is overwritten with the commands.
CollectCommandOver ==
    /\ Collecting({"command"}) /\ PrintCommands
    /\ LET c == Head(todo)
           empty == [title |-> Placeholder, rows |-> << >>]
       IN /\ sections' = AddRow(IF CommandSection(sections) THEN sections
                                ELSE Append(SubSeq(sections, 1, 2), empty), 3, c)
          /\ Measure(<<c>>)
    /\ commands_printed' = TRUE
    /\ Collected

CollectCommand ==
    /\ Collecting({"command"}) /\ PrintCommands
    /\ LET c == Head(todo)
           empty == [title |-> Placeholder, rows |-> << >>]
       IN /\ sections' = AddRow(IF CommandSection(sections) THEN sections
                                ELSE InsertAt(sections, 3, empty), 3, c)
          /\ Measure(<<c>>)
    /\ commands_printed' = TRUE
    /\ Collected

SkipCommand ==
    /\ Collecting({"command"}) /\ ~PrintCommands
    /\ UNCHANGED collected /\ Collected

CollectExclusive ==
    /\ Collecting({"exclusive"})
    /\ LET rows == Contents(Head(todo)) IN
       /\ sections' = AddRows(sections, rows)
       /\ Measure(rows)
    /\ UNCHANGED commands_printed
    /\ Collected

\* Slip: named groups are for the help of programs.
IsSkippedInLeaf(g) == ~PrintCommands

\* A named group of commands; told by its first member, be it a command or not.
IsSkipped(g) == ~PrintCommands /\ IsGroup(Contents(g)[1])

SkipNamedGroup ==
    /\ Collecting({"named"}) /\ IsSkipped(Head(todo))
    /\ UNCHANGED collected /\ Collected

CollectNamedGroup ==
    /\ Collecting({"named"}) /\ ~IsSkipped(Head(todo))
    /\ LET g == Head(todo) IN
       /\ sections' = Append(sections, [title |-> g, rows |-> Contents(g)])
       /\ Measure(Contents(g))
    /\ UNCHANGED commands_printed
    /\ Collected

-----------------------------------------------------------------------------
(* print_help_post_synopsis(), after the options are collected. *)

DescriptionColumn == IF longest + 2 < MaxOptionCol THEN longest + 2 ELSE MaxOptionCol

\* Slip: the commands are taken to be there.
EndCollectCommands ==
    /\ phase = "collect" /\ todo = << >>
    /\ phase' = "sections"
    /\ order' = <<3>> \o Those([k \in 1..Len(sections) - 2 |-> k + 2],
                               LAMBDA k : sections[k].title # Placeholder)
    /\ UNCHANGED <<program, contexts, width, todo, layout, collected, printed, note>>

EndCollect ==
    /\ phase = "collect" /\ todo = << >>
    /\ phase' = "sections"
    /\ order' = (IF commands_printed THEN <<3>>
                 ELSE Those(<<1, 2>>, LAMBDA k : sections[k].rows # << >>))
                \o Those([k \in 1..Len(sections) - 2 |-> k + 2],
                         LAMBDA k : sections[k].title # Placeholder)
    /\ UNCHANGED <<program, contexts, width, todo, layout, collected, printed, note>>

\* print_options_and_descs(): the row, and where its description starts.
Row(i) ==
    LET w == RowWidth(i)
        limit == DescriptionColumn - 2
        spacing == IF w <= limit THEN limit - w + 2 ELSE DescriptionColumn
        newline == spacing = DescriptionColumn
    IN [item |-> i, newline |-> newline, at |-> (IF newline THEN 0 ELSE w) + spacing]

PrintSection ==
    /\ phase = "sections" /\ order # << >>
    /\ LET s == sections[Head(order)] IN
       printed' = Append(printed, [title |-> s.title,
                                   rows |-> [k \in DOMAIN s.rows |-> Row(s.rows[k])]])
    /\ order' = Tail(order)
    /\ UNCHANGED <<phase, program, contexts, width, todo, layout, collected, note>>

EndHelp ==
    /\ phase = "sections" /\ order = << >>
    /\ phase' = "done"
    /\ note' = IF commands_printed THEN "command"
               ELSE IF NoneOf("response_file") THEN "response_file" ELSE "none"
    /\ UNCHANGED <<program, contexts, width, todo, layout, collected, order, printed>>

-----------------------------------------------------------------------------

\* The contexts that parse_commands_in_tuple() has pushed: the program, and the
\* commands named so far, each in the tuple of the one before.
PathsFrom[i \in Item] ==
    {<<i>>} \cup UNION {{<<i>> \o path : path \in PathsFrom[j]} :
                           j \in {c \in Contained(i) : KindOf(c) = "command"}}

Init ==
    /\ phase = "usage"
    /\ program \in Program
    /\ contexts \in {<< >>} \cup (IF HasSubcommands(program) THEN PathsFrom[program] ELSE {})
    /\ width \in {w \in [Accepted \cup {DefaultHelp} -> UNION Range(Widths)] :
                     \A i \in DOMAIN w : w[i] \in Widths[i]}
    /\ todo = << >>
    /\ lines = << >> /\ first_column = 0 /\ column = 0
    /\ sections = <<[title |-> "positional", rows |-> << >>],
                    [title |-> "optional", rows |-> << >>]>>
    /\ longest = 0 /\ commands_printed = FALSE
    /\ order = << >> /\ printed = << >> /\ note = "none"

Synopsis == PrintUsage \/ PrintDefaultHelp \/ PrintPlaceholder \/ PrintOption \/ EndSynopsis
Collect == CollectOption \/ CollectCommand \/ SkipCommand \/ CollectExclusive
           \/ SkipNamedGroup \/ CollectNamedGroup \/ EndCollect
Next == Synopsis \/ Collect \/ PrintSection \/ EndHelp \/ (phase = "done" /\ UNCHANGED vars)

Spec == Init /\ [][Next]_vars

-----------------------------------------------------------------------------
(* What must hold of a help text. *)

\* The program's options in the synopsis and in the sections are items, a line is
\* never narrower than the code believes, and the sections stay in their places.
HTypeOK ==
    /\ \A k \in DOMAIN todo : todo[k] \in Item
    /\ phase # "usage" => column <= lines[Len(lines)].used
    /\ sections[1].title = "positional" /\ sections[2].title = "optional"
    /\ commands_printed <=> CommandSection(sections)
    /\ \A k \in DOMAIN order : order[k] \in 1..Len(sections)

Shown == FlattenSeq([k \in DOMAIN lines |-> lines[k].items])
Occurrences(s, i) == Cardinality({k \in DOMAIN s : s[k] = i})

\* The usage of a program or of a command without subcommands names each option
\* that its command line accepts, those of the commands around it included, and
\* nothing twice; before the last command is named it shows none of them.
SynopsisNamesEveryOption ==
    phase = "done" =>
        /\ \A i \in Accepted :
              Occurrences(Shown, i) = (IF contexts = << >> \/ IsLeaf THEN 1 ELSE 0)
        /\ \A k \in DOMAIN Shown : Shown[k] \in Accepted \cup {DefaultHelp, Placeholder}
        /\ Occurrences(Shown, DefaultHelp) = (IF NoHelp THEN 1 ELSE 0)

\* max_col_width is exceeded by no more than the item that a broken line starts
\* with, and on the first line by the part of a long program name that is not
\* counted (printing.hpp 211, 381-383).
WidthOf(i) == IF i = Placeholder THEN PlaceholderWidth ELSE width[i]
LinesOverrunByOneItem ==
    \A k \in DOMAIN lines :
        lines[k].used <= MaxCol + (IF k = 1 THEN ProgramEnd - first_column
                                   ELSE WidthOf(lines[k].items[1]))

Places(i) == {p \in (DOMAIN printed) \X (1..Cardinality(Item)) :
                 p[2] \in DOMAIN printed[p[1]].rows /\ printed[p[1]].rows[p[2]].item = i}
Titles(i) == {printed[p[1]].title : p \in Places(i)}
NamedGroups == {g \in UNION {Contained(Described[k]) : k \in DOMAIN Described} :
                   KindOf(g) = "named"}
InExclusive(i, g) == \E e \in Under[g] : KindOf(e) = "exclusive" /\ i \in Under[e]

\* Where an option belongs: the section of the named group it is in, or one of
\* the two that every help has.  The help of a program with commands outside
\* named groups lists these commands and the named groups only; and an exclusive
\* group inside a named one has one row for all its options.
Home(i) ==
    LET homes == {g \in NamedGroups : i \in Under[g]} IN
    IF homes # {}
    THEN {g \in homes : ~InExclusive(i, g)}
    ELSE IF commands_printed THEN {}
    ELSE {IF KindOf(i) = "positional" THEN "positional" ELSE "optional"}

\* A named group "appears with the given name and description in the printed help
\* text" (option_groups.hpp 316-317); of a leaf command's help that is not so when
\* the group begins with an exclusive group (printing.hpp 598-604).
Disputed(i) == /\ IsLeaf
               /\ \E g \in NamedGroups : i \in Under[g] /\ IsGroup(Contents(g)[1])

\* Every option that the described contexts accept has one row, in the section it
\* belongs to, and every command that may be named next has one.  Nothing is said
\* of the options whose group the comment and the code disagree about.
DescribesWhatIsAccepted ==
    phase = "done" =>
        /\ \A i \in Accepted \cup (IF NoHelp THEN {DefaultHelp} ELSE {}) :
              \/ Disputed(i)
              \/ Titles(i) = Home(i) /\ Cardinality(Places(i)) = Cardinality(Home(i))
        /\ \A i \in Contained(Last(Described)) :
              KindOf(i) = "command" => Cardinality(Places(i)) = 1

\* Descriptions start in one column, at most max_option_col_width, and on the row
\* of their names unless these would come within two columns of that limit.
DescriptionsAlign ==
    \A s \in DOMAIN printed : \A r \in DOMAIN printed[s].rows :
        LET row == printed[s].rows[r] IN
        /\ row.at = DescriptionColumn /\ row.at <= MaxOptionCol
        /\ row.newline <=> RowWidth(row.item) + 2 > MaxOptionCol

\* Collecting goes through references into a vector that grows in the middle: no
\* row leaves the section it was put into.
RowsStayInTheirSection ==
    [][\A k \in DOMAIN sections : \E j \in DOMAIN sections' :
          /\ sections'[j].title = sections[k].title
          /\ IsPrefix(sections[k].rows, sections'[j].rows)
          /\ \A l \in DOMAIN sections' : sections'[l].title = sections[k].title => l = j]_vars

=============================================================================
