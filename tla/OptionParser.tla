---------------------------- MODULE OptionParser ----------------------------
(***************************************************************************)
(* parse_options_into() of detail/parsing.hpp: one pass over an argument   *)
(* list for one tuple of options.  parse_options_into_impl() calls itself  *)
(* for an exclusive group (sharing the caller's iterator "first") and for  *)
(* a response file (with an iterator of its own), so the state holds its   *)
(* call stack.  next_positional, exclusives_seen and the result are shared *)
(* by every call on the stack.                                             *)
(***************************************************************************)
EXTENDS OptionModel

CONSTANTS
    OptTuple,   \* make_opt_tuple(opts...): sequence of entries, groups flattened
    ArgLists,   \* the argument lists to parse (what follows argv[0])
    Modes       \* where the arguments come from

\* An entry of the tuple: one option, or the options of an exclusive group.
Entry == [exclusive : BOOLEAN, opts : Seq(Option) \ {<< >>}]
Leaf(o) == [exclusive |-> FALSE, opts |-> <<o>>]

\* exclusive() takes no positional (contains_positional_option()).
WellGrouped(t) ==
    \A e \in 1..Len(t) : t[e].exclusive =>
        \A j \in 1..Len(t[e].opts) : ~IsPositional(t[e].opts[j])

\* All the options of a tuple, those in its groups included.
OptionsIn(t) == UNION {{t[e].opts[j] : j \in 1..Len(t[e].opts)} : e \in 1..Len(t)}

ASSUME TupleType == OptTuple \in Seq(Entry)
ASSUME LeafType  == /\ WellGrouped(OptTuple)
                    /\ \A k \in 1..Len(OptTuple) :
                          ~OptTuple[k].exclusive => Len(OptTuple[k].opts) = 1

\* option_checker: nothing is declared after a remainder().
IsRemainder(o) == IsPositional(o) /\ ~Decl[o].required
ASSUME RemainderLast == \A k \in 1..(Len(OptTuple) - 1) : ~IsRemainder(OptTuple[k].opts[1])

ASSUME ArgsType  == ArgLists \subseteq Seq(Token)

\* parse_command_line(), load_response_file(), load_json_file().
Mode == {"command_line", "response_file", "json"}
ASSUME ModesType == Modes \subseteq Mode

VARIABLES
    call,           \* [tuple, final, deserializing] of parse_options_into
    frames,         \* the calls of parse_options_into_impl, innermost last
    nextPositional, \* next_positional
    seen,           \* the keys of exclusives_seen
    result,         \* the result tuple or map
    status,         \* "run", "return", or how the call ended
    ret,            \* the parse_option_error of a call that is returning
    diag,           \* the message printed before exit(1): <<error, args>>
    matched,        \* history: options whose name was matched, in order
    taken,          \* history: positionals that were matched, in order
    delivered       \* history: tokens the options have consumed, in order

shared == <<nextPositional, seen, result>>
history == <<matched, taken, delivered>>
vars == <<call, frames, nextPositional, seen, result, status, ret, diag,
          matched, taken, delivered>>

-----------------------------------------------------------------------------
(* Frames. *)

FrameKind == {"top", "group", "file"}

\* i is 0 at the head of the while loop, and else the entry that the fold over
\* the tuple tries next; "stage" is "args" when that entry's name has just been
\* matched and its arguments come next.  "stream" says that the iterators are
\* response_file_arg_iters, which read an istream.
NewFrame(kind, stream, src, pos, tuple, group) ==
    [kind |-> kind, stream |-> stream, src |-> src, pos |-> pos, tuple |-> tuple,
     group |-> group, i |-> 0, stage |-> "name", initial |-> pos, pidx |-> -1]

FrameFields ==
    [kind : FrameKind, stream : BOOLEAN, src : Seq(Token), pos : Nat \ {0}, tuple : Seq(Entry),
     group : Nat, i : Nat, stage : {"name", "args"}, initial : Nat \ {0}, pidx : Int]

\* The fold is at an entry of the tuple, or just past the last.
Frame == {g \in FrameFields : g.i <= Len(g.tuple) + 1}

f == frames[Len(frames)]
SetTop(g) == frames' = [frames EXCEPT ![Len(frames)] = g]
AtEnd == f.pos > Len(f.src)
arg == f.src[f.pos]

\* The leaf option that the fold is at.
opt == f.tuple[f.i].opts[1]
AtLeaf == /\ status = "run"
          /\ f.i \in 1..Len(f.tuple)
          /\ ~f.tuple[f.i].exclusive

\* Slip: the fold's index moves twice over a positional.
PastEntryTwice(p) == [f EXCEPT !.pos = p, !.stage = "name",
                               !.i = IF IsPositional(opt) THEN @ + 2 ELSE @ + 1,
                               !.pidx = IF IsPositional(opt) THEN @ + 1 ELSE @]

\* The next iteration of the fold, with "first" at p.
PastEntry(p) == [f EXCEPT !.pos = p, !.i = @ + 1, !.stage = "name",
                      !.pidx = IF IsPositional(opt) THEN @ + 1 ELSE @]
Advance(p) == SetTop(PastEntry(p))

Deliver(p) == delivered' = delivered \o SubSeq(f.src, f.pos, p - 1)

Exit1(err, args) == /\ status' = "exit1"
                    /\ diag' = <<err, args>>

\* Slip: deserializing is not looked at.
FailAlwaysExits(err, args) == Exit1(err, args) /\ UNCHANGED ret

\* fail() exits unless deserializing, when the error is returned instead.
Fail(err, args) ==
    IF call.deserializing
    THEN status' = "return" /\ ret' = err /\ UNCHANGED diag
    ELSE Exit1(err, args) /\ UNCHANGED ret

-----------------------------------------------------------------------------
(* parse_option(), one action per outcome. *)

\* Slip: <= for <, so that the positional whose turn it is can be skipped.
SkipPositionalInTurn ==
    /\ AtLeaf
    /\ IsPositional(opt)
    /\ f.pidx + 1 <= nextPositional
    /\ Advance(f.pos)
    /\ UNCHANGED <<call, shared, status, ret, diag, history>>

\* A positional that was already matched is not parsed again.
SkipTakenPositional ==
    /\ AtLeaf
    /\ IsPositional(opt)
    /\ f.pidx + 1 < nextPositional
    /\ Advance(f.pos)
    /\ UNCHANGED <<call, shared, status, ret, diag, history>>

\* Slip: positionals already matched look at the argument again.
LookingAgain == AtLeaf /\ f.stage = "name"

\* There is an argument to look at, and this entry is to look at it.
Looking == /\ AtLeaf
           /\ f.stage = "name"
           /\ IsPositional(opt) => f.pidx + 1 >= nextPositional

\* parse_option() returns {} for an argument that is not one of the names.
IsOther(t) == ~IsPositional(opt) /\ ~IsCounted(opt, t) /\ ~Names(opt, t)

NoMatch ==
    /\ Looking
    /\ ~AtEnd => IsOther(arg)
    /\ Advance(f.pos)
    /\ UNCHANGED <<call, shared, status, ret, diag, history>>

\* -vvv: the number of letters, before any other check of the name.
CountShort ==
    /\ Looking /\ ~AtEnd /\ IsCounted(opt, arg)
    /\ result' = [result EXCEPT ![Decl[opt].slot] =
                     [@ EXCEPT !.set = TRUE, !.num = Decl[opt].counts[arg]]]
    /\ matched' = Append(matched, opt)
    /\ Deliver(f.pos + 1)
    /\ Advance(f.pos + 1)
    /\ UNCHANGED <<call, nextPositional, seen, status, ret, diag, taken>>

\* A name that this entry matches, and that is not a counted flag's short form.
Named == /\ Looking
         /\ ~AtEnd
         /\ ~IsPositional(opt)
         /\ ~IsCounted(opt, arg)
         /\ Names(opt, arg)

\* A second option of an exclusive group.
RejectSecondExclusive ==
    /\ Named
    /\ f.group \in seen
    /\ Fail("too_many_mutually_exclusives", <<arg>>)
    /\ UNCHANGED <<call, frames, shared, history>>

\* ++first past the name, and what follows from the name alone: a flag's value,
\* a long counted flag's 1, help and version; for the rest the arguments come
\* next.
MatchName ==
    /\ Named
    /\ f.group \notin seen
    /\ seen' = IF f.group = 0 THEN seen ELSE seen \cup {f.group}
    /\ matched' = Append(matched, opt)
    /\ Deliver(f.pos + 1)
    /\ result' = [result EXCEPT ![Decl[opt].slot] =
                     IF Decl[opt].kind = "count"
                     THEN [@ EXCEPT !.set = TRUE, !.num = 1]
                     ELSE AtName(opt, @)]
    /\ CASE Decl[opt].kind \in {"flag", "count"} ->
               Advance(f.pos + 1) /\ UNCHANGED status
         [] Decl[opt].kind \in {"help", "version"} ->
               \* When deserializing, BOOST_ASSERT(opt.args) comes next.
               /\ SetTop([f EXCEPT !.pos = @ + 1])
               /\ status' = IF call.deserializing THEN "assert" ELSE "exit0"
         [] OTHER ->
               SetTop([f EXCEPT !.pos = @ + 1, !.stage = "args"])
               /\ UNCHANGED status
    /\ UNCHANGED <<call, nextPositional, ret, diag, taken>>

\* The arguments of a matched name, or of the positional whose turn it is.
ArgsDue == \/ AtLeaf /\ f.stage = "args"
           \/ Looking /\ IsPositional(opt) /\ ~AtEnd

NoArgsLeft ==
    /\ ArgsDue /\ AtEnd
    /\ IF MinReps(opt) = 0
       THEN Advance(f.pos) /\ UNCHANGED <<status, ret, diag>>
       ELSE Fail("wrong_number_of_args", << >>) /\ UNCHANGED frames
    /\ UNCHANGED <<call, shared, history>>

\* n tokens can be taken as values of the option, from "first" on.
CanTake(n) ==
    /\ f.pos + n <= Len(f.src) + 1
    /\ WithinMaxReps(opt, n)
    /\ \A k \in 0..(n - 1) : /\ IsValue(opt, f.src[f.pos + k])
                             /\ PassesValidator(opt, f.src[f.pos + k])

\* The repetitions end after n tokens.
RunOf(n) == CanTake(n) /\ ~CanTake(n + 1)

\* The token that ended the run, if it was not the end of the list or max_reps.
Stopper(n) == f.src[f.pos + n]
Stopped(n) == f.pos + n <= Len(f.src) /\ WithinMaxReps(opt, n + 1)
Invalid(n) == Stopped(n) /\ IsValue(opt, Stopper(n))

ParsingArgs == ArgsDue /\ ~AtEnd /\ Decl[opt].kind # "response_file"

Keep(n) == result' = [result EXCEPT ![Decl[opt].slot] =
                         AssignOrInsert(opt, @, SubSeq(f.src, f.pos, f.pos + n - 1))]

\* The run ends with min_reps <= reps; what stopped it is left for the next
\* entry.
TakeArgs ==
    /\ ParsingArgs
    /\ \E n \in 0..Len(f.src) :
          /\ RunOf(n) /\ ~Invalid(n)
          /\ n >= MinReps(opt)
          /\ Keep(n) /\ Deliver(f.pos + n) /\ Advance(f.pos + n)
    /\ nextPositional' = IF IsPositional(opt) THEN nextPositional + 1
                         ELSE nextPositional
    /\ taken' = IF IsPositional(opt) THEN Append(taken, opt) ELSE taken
    /\ UNCHANGED <<call, seen, status, ret, diag, matched>>

\* "first" stays at the token that ended a run of n.
StopAt(n) == Deliver(f.pos + n) /\ SetTop([f EXCEPT !.pos = @ + n])

\* The run is too short.  The values it did take stay in the result.
TooFewArgs ==
    /\ ParsingArgs
    /\ \E n \in 0..Len(f.src) :
          /\ RunOf(n) /\ ~Invalid(n)
          /\ n < MinReps(opt)
          /\ Keep(n) /\ StopAt(n)
          /\ IF Stopped(n) /\ (n > 0 => ~KnownDashed(Stopper(n)))
             THEN Fail(ParseError(opt, Stopper(n)), <<Stopper(n)>>)
             ELSE Fail("wrong_number_of_args", << >>)
    /\ UNCHANGED <<call, nextPositional, seen, matched, taken>>

\* The action assigns the value before the validator's verdict is looked at.
InvalidArg ==
    /\ ParsingArgs
    /\ \E n \in 0..Len(f.src) :
          /\ RunOf(n) /\ Invalid(n)
          /\ Keep(n + 1) /\ StopAt(n)
          /\ Fail("validation_error", <<Stopper(n)>>)
    /\ UNCHANGED <<call, nextPositional, seen, matched, taken>>

-----------------------------------------------------------------------------
(* parse_options_into_impl(). *)

AtLoopHead == status = "run" /\ f.i = 0

LoopEnds ==
    /\ AtLoopHead /\ AtEnd
    /\ status' = "return" /\ ret' = "none"
    /\ UNCHANGED <<call, frames, shared, diag, history>>

\* Slip: the name is stepped over both before and after the file is read.
OpenPastName(t) ==
    frames' = Append([frames EXCEPT ![Len(frames)].pos = @ + 1],
                     NewFrame("file", TRUE, TokensOf(FileOf(t)), 1, f.tuple, 0))

\* The nested call has the same tuple, but exclusives_group = -1 (0 here).
Open(t) == frames' = Append(frames, NewFrame("file", TRUE, TokensOf(FileOf(t)),
                                             1, f.tuple, 0))

\* "@file" at the head of the loop.
OpenAtFile ==
    /\ AtLoopHead /\ ~AtEnd
    /\ arg \in DOMAIN AtFile
    /\ IF AtFile[arg] \in DOMAIN Content
       THEN Open(arg) /\ UNCHANGED <<status, ret, diag>>
       ELSE /\ Fail("validation_error", <<arg>>)
            /\ UNCHANGED frames
    /\ UNCHANGED <<call, shared, history>>

\* The argument of a response_file() option; an unreadable one exits unless
\* deserializing, when it is opened all the same.
OpenNamedFile ==
    /\ ArgsDue /\ ~AtEnd
    /\ Decl[opt].kind = "response_file"
    /\ IF arg \in DOMAIN Content \/ call.deserializing
       THEN Open(arg) /\ UNCHANGED <<status, diag>>
       ELSE Exit1("validation_error", <<arg>>) /\ UNCHANGED frames
    /\ UNCHANGED <<call, shared, ret, history>>

BeginFold ==
    /\ AtLoopHead /\ ~AtEnd
    /\ arg \notin DOMAIN AtFile
    /\ SetTop([f EXCEPT !.i = 1, !.initial = f.pos, !.pidx = -1])
    /\ UNCHANGED <<call, shared, status, ret, diag, history>>

\* Slip: exclusives_group = -1 for a group too.
EnterGroupUnmarked ==
    /\ status = "run"
    /\ f.i \in 1..Len(f.tuple)
    /\ f.tuple[f.i].exclusive
    /\ LET leaves == [k \in 1..Len(f.tuple[f.i].opts) |-> Leaf(f.tuple[f.i].opts[k])]
       IN frames' = Append(frames, NewFrame("group", f.stream, f.src, f.pos, leaves, 0))
    /\ UNCHANGED <<call, shared, status, ret, diag, history>>

\* A group's own call of the loop; exclusives_group is the entry's index.
EnterGroup ==
    /\ status = "run"
    /\ f.i \in 1..Len(f.tuple)
    /\ f.tuple[f.i].exclusive
    /\ LET opts == f.tuple[f.i].opts
           leaves == [k \in 1..Len(opts) |-> Leaf(opts[k])]
       IN frames' = Append(frames, NewFrame("group", f.stream, f.src, f.pos, leaves, f.i))
    /\ UNCHANGED <<call, shared, status, ret, diag, history>>

\* Slip: the loop goes on although nothing was consumed.
EndFoldUnchecked ==
    /\ status = "run"
    /\ f.i > Len(f.tuple)
    /\ SetTop([f EXCEPT !.i = 0])
    /\ UNCHANGED <<call, shared, status, ret, diag, history>>

\* Slip: one pass over the tuple, and what is left is unknown.
EndFoldOnce ==
    /\ status = "run"
    /\ f.i > Len(f.tuple)
    /\ IF AtEnd
       THEN SetTop([f EXCEPT !.i = 0]) /\ UNCHANGED <<status, ret, diag>>
       ELSE Fail("unknown_arg", <<arg>>) /\ UNCHANGED frames
    /\ UNCHANGED <<call, shared, history>>

\* first == initial_first.  istream_iterators on one stream are all equal until
\* the stream ends, so two response_file_arg_iters are equal while both have
\* tokens after their own.
BackAtInitial == \/ f.pos = f.initial
                 \/ f.stream /\ f.pos < Len(f.src) /\ f.initial < Len(f.src)

\* The whole tuple was tried: loop if it is seen to have consumed anything.
EndFold ==
    /\ status = "run"
    /\ f.i > Len(f.tuple)
    /\ IF ~BackAtInitial
       THEN SetTop([f EXCEPT !.i = 0]) /\ UNCHANGED <<status, ret, diag>>
       ELSE /\ UNCHANGED frames
            /\ IF call.final
               THEN Fail("unknown_arg", <<arg>>)
               ELSE status' = "return" /\ ret' = "none" /\ UNCHANGED diag
    /\ UNCHANGED <<call, shared, history>>

-----------------------------------------------------------------------------
(* Returning from parse_options_into_impl(). *)

caller == frames[Len(frames) - 1]
Pop(g) == frames' = [k \in 1..(Len(frames) - 1) |->
                        IF k = Len(frames) - 1 THEN g ELSE frames[k]]

\* Slip: no ++sv_it.
ReturnToName ==
    /\ status = "return" /\ f.kind = "file"
    /\ Pop([caller EXCEPT !.stage = "name", !.i = IF @ = 0 THEN 0 ELSE @ + 1])
    /\ status' = "run" /\ ret' = "none"
    /\ UNCHANGED <<call, shared, diag, history>>

\* What a file's call returns is not looked at; ++sv_it steps over its name,
\* back at the loop's head or in the fold.
ReturnFromFile ==
    /\ status = "return" /\ f.kind = "file"
    /\ Pop([caller EXCEPT !.pos = @ + 1, !.stage = "name",
                          !.i = IF @ = 0 THEN 0 ELSE @ + 1])
    /\ status' = "run" /\ ret' = "none"
    /\ UNCHANGED <<call, shared, diag, history>>

\* Slip: the group's call has a copy of "first".
ReturnWithoutFirst ==
    /\ status = "return" /\ f.kind = "group"
    /\ Pop([caller EXCEPT !.i = @ + 1])
    /\ status' = IF ret = "none" THEN "run" ELSE "return"
    /\ UNCHANGED <<call, shared, ret, diag, history>>

\* A group shares "first" with its caller, which returns the group's error.
ReturnFromGroup ==
    /\ status = "return" /\ f.kind = "group"
    /\ Pop([caller EXCEPT !.pos = f.pos, !.i = @ + 1])
    /\ status' = IF ret = "none" THEN "run" ELSE "return"
    /\ UNCHANGED <<call, shared, ret, diag, history>>

Leaves(tuple) == {tuple[k].opts[1] : k \in {j \in 1..Len(tuple) : ~tuple[j].exclusive}}

\* count_positionals()
Positionals(tuple) == {o \in Leaves(tuple) : IsPositional(o) /\ Decl[o].required}

\* Slip: off by one.
MissingMoreThanOne == nextPositional + 1 < Cardinality(Positionals(call.tuple))

MissingPositional == /\ ~call.deserializing
                     /\ nextPositional < Cardinality(Positionals(call.tuple))

\* Slip: the default is assigned whether or not there is a value.
AlwaysDefaults ==
    [s \in Slot |->
        LET given == {o \in Leaves(call.tuple) : Decl[o].slot = s /\ Decl[o].default # {}}
        IN IF given = {} THEN result[s]
           ELSE LET o == CHOOSE p \in given : TRUE
                IN AssignOrInsert(o, result[s],
                                  <<CHOOSE t \in Decl[o].default : TRUE>>)]

\* Options without a value get their default.
WithDefaults ==
    [s \in Slot |->
        LET given == {o \in Leaves(call.tuple) :
                         /\ Decl[o].slot = s
                         /\ Decl[o].default # {} /\ ~Decl[o].required}
        IN IF result[s].set \/ given = {} THEN result[s]
           ELSE LET o == CHOOSE p \in given : TRUE
                IN AssignOrInsert(o, result[s],
                                  <<CHOOSE t \in Decl[o].default : TRUE>>)]

\* The rest of parse_options_into().
Finish ==
    /\ status = "return" /\ f.kind = "top"
    /\ IF ret # "none"
       THEN status' = "error" /\ UNCHANGED <<diag, result>>
       ELSE IF MissingPositional
            THEN Exit1("missing_positional", << >>) /\ UNCHANGED result
            ELSE /\ status' = "ok"
                 /\ result' = WithDefaults
                 /\ UNCHANGED diag
    /\ UNCHANGED <<call, frames, nextPositional, seen, ret, history>>

-----------------------------------------------------------------------------

\* The parse of one of some lists for the options of a program.
Start(tuple, lists) ==
    /\ \E args \in lists, m \in Modes :
          /\ call = [tuple |-> tuple, final |-> TRUE,
                     deserializing |-> m # "command_line"]
          /\ frames = <<NewFrame("top", m = "response_file", args, 1, tuple, 0)>>
    /\ nextPositional = 0
    /\ seen = {}
    /\ result = [s \in Slot |-> Unset]
    /\ status = "run" /\ ret = "none" /\ diag = <<"none", << >>>>
    /\ matched = << >> /\ taken = << >> /\ delivered = << >>

Init == Start(OptTuple, ArgLists)

ParseOption == \/ SkipTakenPositional \/ NoMatch \/ CountShort
               \/ RejectSecondExclusive \/ MatchName \/ NoArgsLeft
               \/ TakeArgs \/ TooFewArgs \/ InvalidArg

Impl == \/ LoopEnds \/ OpenAtFile \/ OpenNamedFile \/ BeginFold
        \/ EnterGroup \/ EndFold \/ ReturnFromFile \/ ReturnFromGroup

Ended == status \in {"ok", "error", "exit0", "exit1", "assert"}

\* The call has ended; anything but this that cannot step is a stuck parser.
Stay == Ended /\ UNCHANGED vars

Next == ParseOption \/ Impl \/ Finish \/ Stay

Spec == Init /\ [][Next]_vars
FairSpec == Spec /\ WF_vars(Next)

-----------------------------------------------------------------------------
(* Type correctness. *)

Errors == {"none", "unknown_arg", "wrong_number_of_args", "cannot_parse_arg",
           "no_such_choice", "missing_positional", "too_many_mutually_exclusives",
           "validation_error", "expected_command"}
Statuses == {"run", "return", "ok", "error", "exit0", "exit1", "assert"}
Call == [tuple : Seq(Entry), final : BOOLEAN, deserializing : BOOLEAN]

\* The type invariant: a never-empty stack of calls, each of whose folds is at
\* an entry of its tuple or just past the last.
TypeOK ==
    /\ call \in Call
    /\ frames \in Seq(Frame) /\ frames # << >>
    /\ nextPositional \in Nat
    /\ seen \in SUBSET (Nat \ {0})
    /\ result \in [Slot -> Value]
    /\ status \in Statuses
    /\ ret \in Errors
    /\ diag \in Errors \X Seq(Token)
    /\ matched \in Seq(Option) /\ taken \in Seq(Option)
    /\ delivered \in Seq(Token)

-----------------------------------------------------------------------------
(* What the parser must guarantee. *)

\* Entry e of a tuple is a positional, and the number of them up to e.
PositionalAt(tuple, e) == ~tuple[e].exclusive /\ IsPositional(tuple[e].opts[1])
Ordinal(tuple, e) == Cardinality({j \in 1..e : PositionalAt(tuple, j)})

\* Positionals are matched in the order of their declaration, none skipped and
\* none twice, whatever options, groups and files come between them, and
\* next_positional is how many were (parsing.hpp 724-728, 870-877).
PositionalsInOrder ==
    /\ Len(taken) = nextPositional
    /\ \A n \in 1..Len(taken) :
          \E e \in 1..Len(call.tuple) :
              /\ PositionalAt(call.tuple, e)
              /\ Ordinal(call.tuple, e) = n
              /\ taken[n] = call.tuple[e].opts[1]

\* The shared iterator never passes the end of its list, and while a response
\* file is read its caller's iterator still points at the file's name, so that
\* ++sv_it (parsing.hpp 840) and the *first of every fail() are defined.
CursorsInRange ==
    \A k \in 1..Len(frames) :
        /\ frames[k].pos <= Len(frames[k].src) + 1
        /\ k < Len(frames) /\ frames[k + 1].kind = "file"
              => frames[k].pos <= Len(frames[k].src)

\* A successful parse of a whole command line has matched every required
\* positional, with as many values as it asks for, and every value in the
\* result is one that its option's type, choices and validator accept.
SuccessIsComplete ==
    status = "ok" /\ ~call.deserializing =>
        \A o \in Leaves(call.tuple) :
            LET v == result[Decl[o].slot] IN
            /\ IsPositional(o) /\ Decl[o].required =>
                  v.set /\ (Decl[o].insert => Len(v.val) >= MinReps(o))
            /\ \A k \in 1..Len(v.val) :
                  \/ v.val[k] \in Decl[o].default
                  \/ Parses(o, v.val[k]) /\ PassesValidator(o, v.val[k])

\* "At most one of the given options is accepted during parsing"
\* (option_groups.hpp 110): of a group's options, one is ever matched, once.
AtMostOneExclusive ==
    \A k \in 1..Len(call.tuple) :
        call.tuple[k].exclusive =>
            \A i, j \in 1..Len(matched) :
                /\ matched[i] \in {call.tuple[k].opts[n] : n \in 1..Len(call.tuple[k].opts)}
                /\ matched[j] \in {call.tuple[k].opts[n] : n \in 1..Len(call.tuple[k].opts)}
                => i = j

\* Once a positional has its values, no later step touches them: not an option
\* that comes after it, nor a file, nor the defaults.
PositionalsKeepTheirValues ==
    [][\A k \in 1..Len(taken) :
          result'[Decl[taken[k]].slot] = result[Decl[taken[k]].slot]]_vars

\* Loading a file neither prints nor exits (parsing.hpp 437, 470, 498, 1014).
LoadingNeverExits == call.deserializing => status \notin {"exit0", "exit1"}

\* Parsing ends, whatever the arguments.
Termination == <>Ended

=============================================================================
