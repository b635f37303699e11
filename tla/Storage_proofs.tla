--------------------------- MODULE Storage_proofs ---------------------------
(* Theorems about Storage, for every program, whatever values its options     *)
(* have, every command line and every JSON file.                             *)
EXTENDS Storage, OptionParserStream_proofs

JP == INSTANCE JsonReader_proofs WITH Word <- Token, text <- file

-----------------------------------------------------------------------------
(* Arguments are parsed only after a name that was matched.                   *)

\* An option is named in the command line or file.
Matched(o) == \E k \in 1..Len(matched) : matched[k] = o

\* The frame g, when it is at the arguments of an option.
AtArgs(g) ==
    g.stage = "args" => LET o == g.tuple[g.i].opts[1] IN
                        Decl[o].kind \in {"argument", "response_file"} /\ Matched(o)

ArgsMatched == AtArgs(f)

\* The innermost frame after a step.
LEMMA TopAfter ==
    ASSUME ParserOK, NEW g,
           \/ SetTop(g)
           \/ frames' = Append(frames, g)
           \/ Pop(g) /\ f.kind # "top"
    PROVE  f' = g
<1> DEFINE L == Len(frames)
<1>1. frames \in Seq(Frame) /\ L \in Nat /\ L >= 1  BY DEF ParserOK, TypeOK
<1>2. CASE SetTop(g)
  <2>1. Len(frames') = L /\ frames'[L] = g  BY <1>1, <1>2 DEF SetTop
  <2> QED  BY <2>1 DEF f
<1>3. CASE frames' = Append(frames, g)
  <2>1. Len(frames') = L + 1 /\ frames'[L + 1] = g  BY <1>1, <1>3
  <2> QED  BY <2>1 DEF f
<1>4. CASE Pop(g) /\ f.kind # "top"
  <2>1. L - 1 \in 1..L  BY <1>4, CallerFrame DEF ParserOK
  <2>2. frames' = [k \in 1..(L - 1) |-> IF k = L - 1 THEN g ELSE frames[k]]
        BY <1>4 DEF Pop
  <2>3. L - 1 \in Nat /\ L - 1 \in 1..(L - 1)  BY <1>1, <2>1
  <2>4. Len(frames') = L - 1  BY <2>2, <2>3
  <2>5. frames'[L - 1] = g  BY <2>2, <2>3, Zenon
  <2> QED  BY <2>4, <2>5 DEF f
<1> QED  BY <1>2, <1>3, <1>4

\* A step forgets no name.
LEMMA MatchedGrows ==
    ASSUME TypeOK, ParseOption \/ Impl \/ Finish
    PROVE  /\ \A o : Matched(o) => Matched(o)'
           /\ CountShort \/ MatchName => \E k \in 1..Len(matched') : matched'[k] = opt
           /\ UNCHANGED matched \/ CountShort \/ MatchName
<1>1. CASE CountShort \/ MatchName
  <2>1. matched' = Append(matched, opt)  BY <1>1 DEF CountShort, MatchName
  <2>2. matched \in Seq(Option)  BY DEF TypeOK
  <2>3. AtLeaf /\ opt \in Option
        BY <1>1, LeafOption DEF CountShort, MatchName, Named, Looking
  <2>4. Len(matched') = Len(matched) + 1 /\ Len(matched) \in Nat /\ matched'[Len(matched) + 1] = opt
        /\ \A k \in 1..Len(matched) : matched'[k] = matched[k]
        BY <2>1, <2>2, <2>3
  <2> DEFINE n == Len(matched)
  <2>5. n \in Nat /\ n + 1 \in 1..(n + 1) /\ 1..n \subseteq 1..(n + 1)  BY <2>4
  <2> QED  BY <1>1, <2>4, <2>5 DEF Matched
<1>2. CASE UNCHANGED matched
  <2>1. CASE ~(CountShort \/ MatchName)  BY <1>2, <2>1 DEF Matched
  <2> QED  BY <1>1, <2>1
<1>3. CASE ~(CountShort \/ MatchName)
  <2>1. UNCHANGED matched
        BY <1>3 DEF ParseOption, SkipTakenPositional, NoMatch, RejectSecondExclusive, NoArgsLeft,
                    TakeArgs, TooFewArgs, InvalidArg, Impl, LoopEnds, OpenAtFile, OpenNamedFile,
                    BeginFold, EnterGroup, EndFold, ReturnFromFile, ReturnFromGroup, Finish, history
  <2> QED  BY <1>2, <2>1
<1> QED  BY <1>1, <1>3

\* A frame that is at a name, and one that is where the innermost was, are fine.
LEMMA TopAtArgs ==
    ASSUME ParserOK, ParseOption \/ Impl \/ Finish, ArgsMatched, NEW g,
           \/ SetTop(g)
           \/ frames' = Append(frames, g)
           \/ Pop(g) /\ f.kind # "top",
           \/ g.stage = "name"
           \/ g.stage = f.stage /\ g.tuple = f.tuple /\ g.i = f.i
    PROVE  ArgsMatched'
<1>1. f' = g  BY TopAfter
<1>2. CASE g.stage = "name"  BY <1>1, <1>2 DEF ArgsMatched, AtArgs
<1>3. CASE g.stage = f.stage /\ g.tuple = f.tuple /\ g.i = f.i
  <2>1. \A o : Matched(o) => Matched(o)'  BY MatchedGrows DEF ParserOK
  <2> QED  BY <1>1, <1>3, <2>1 DEF ArgsMatched, AtArgs
<1> QED  BY <1>2, <1>3

LEMMA PastEntryAtName ==
    ASSUME ParserOK, NEW p
    PROVE  PastEntry(p).stage = "name"
BY TopFrame DEF ParserOK, PastEntry, Frame, FrameFields

\* Whoever parses arguments has a name that was matched, in a group as well as
\* out of it, and back from a file as well as before it.
LEMMA ArgsMatchedKept ==
    ASSUME ParserOK, ArgsMatched, ParseOption \/ Impl \/ Finish
    PROVE  ArgsMatched'
<1> USE DEF ParserOK
<1>1. CASE UNCHANGED frames
  <2>1. \A o : Matched(o) => Matched(o)'  BY MatchedGrows
  <2>2. f' = f  BY <1>1 DEF f
  <2> QED  BY <2>1, <2>2 DEF ArgsMatched, AtArgs
<1>2. CASE \E p : Advance(p)
  <2>1. PICK p : SetTop(PastEntry(p))  BY <1>2 DEF Advance
  <2> QED  BY <2>1, PastEntryAtName, TopAtArgs
<1>3. f \in FrameFields  BY TopFrame DEF Frame
<1>4. CASE SkipTakenPositional \/ NoMatch \/ CountShort \/ NoArgsLeft \/ TakeArgs
  <2>1. UNCHANGED frames \/ \E p : Advance(p)
    <3>1. CASE SkipTakenPositional  BY <3>1 DEF SkipTakenPositional
    <3>2. CASE NoMatch  BY <3>2 DEF NoMatch
    <3>3. CASE CountShort  BY <3>3 DEF CountShort
    <3>4. CASE NoArgsLeft  BY <3>4 DEF NoArgsLeft
    <3>5. CASE TakeArgs  BY <3>5 DEF TakeArgs
    <3> QED  BY <1>4, <3>1, <3>2, <3>3, <3>4, <3>5
  <2> QED  BY <1>1, <1>2, <2>1
<1>5. CASE RejectSecondExclusive \/ LoopEnds \/ Finish
      BY <1>1, <1>5 DEF RejectSecondExclusive, LoopEnds, Finish
<1>6. CASE MatchName
  <2>1. Looking /\ ~IsPositional(opt) /\ opt \in Option
        BY <1>6, LeafOption DEF MatchName, Named, Looking
  <2>2. CASE Decl[opt].kind \in {"flag", "count"}
    <3>1. Advance(f.pos + 1)  BY <1>6, <2>2 DEF MatchName
    <3> QED  BY <1>2, <3>1
  <2>3. CASE Decl[opt].kind \in {"help", "version"}
    <3> DEFINE g == [f EXCEPT !.pos = @ + 1]
    <3>1. SetTop(g)  BY <1>6, <2>3 DEF MatchName
    <3>2. g.stage = "name"  BY <1>3, <2>1 DEF Looking, FrameFields
    <3> HIDE DEF g
    <3> QED  BY <3>1, <3>2, TopAtArgs
  <2>4. CASE Decl[opt].kind \in {"argument", "response_file"}
    <3> DEFINE g == [f EXCEPT !.pos = @ + 1, !.stage = "args"]
    <3>1. SetTop(g)  BY <1>6, <2>4 DEF MatchName
    <3>2. g.tuple = f.tuple /\ g.i = f.i  BY <1>3 DEF FrameFields
    <3> HIDE DEF g
    <3>3. f' = g  BY <3>1, TopAfter
    <3>4. \E k \in 1..Len(matched') : matched'[k] = opt  BY <1>6, MatchedGrows
    <3>5. f'.tuple[f'.i].opts[1] = opt  BY <3>2, <3>3 DEF opt
    <3> QED  BY <2>4, <3>4, <3>5 DEF ArgsMatched, AtArgs, Matched
  <2>5. Decl[opt].kind \in Kind
    <3>1. Decl[opt] \in Declaration  BY <2>1, DeclType
    <3> QED  BY <3>1 DEF Declaration
  <2> QED  BY <2>1, <2>2, <2>3, <2>4, <2>5 DEF Kind, IsPositional
<1>7. CASE TooFewArgs \/ InvalidArg
  <2>1. PICK n : SetTop([f EXCEPT !.pos = @ + n])
    <3>1. CASE TooFewArgs  BY <3>1 DEF TooFewArgs, StopAt
    <3>2. CASE InvalidArg  BY <3>2 DEF InvalidArg, StopAt
    <3> QED  BY <1>7, <3>1, <3>2
  <2> DEFINE g == [f EXCEPT !.pos = @ + n]
  <2>2. g.stage = f.stage /\ g.tuple = f.tuple /\ g.i = f.i /\ SetTop(g)
        BY <1>3, <2>1 DEF FrameFields
  <2> HIDE DEF g
  <2> QED  BY <2>2, TopAtArgs
<1>8. FrameOK(f, call.tuple, nextPositional)  BY TopOK
<1>9. CASE BeginFold
  <2> DEFINE g == [f EXCEPT !.i = 1, !.initial = f.pos, !.pidx = -1]
  <2>1. SetTop(g) /\ f.i = 0  BY <1>9 DEF BeginFold, AtLoopHead
  <2>2. g.stage = f.stage  BY <1>3 DEF FrameFields
  <2>3. g.stage = "name"  BY <1>3, <1>8, <2>1, <2>2 DEF FrameOK, FrameFields
  <2> HIDE DEF g
  <2> QED  BY <2>1, <2>3, TopAtArgs
<1>10. CASE EndFold
  <2> DEFINE g == [f EXCEPT !.i = 0]
  <2>1. (UNCHANGED frames \/ SetTop(g)) /\ f.i > Len(f.tuple)  BY <1>10 DEF EndFold
  <2>2. g.stage = f.stage  BY <1>3 DEF FrameFields
  <2>3. f.i \notin 1..Len(f.tuple)  BY <2>1, TopOK
  <2>4. g.stage = "name"  BY <1>3, <1>8, <2>2, <2>3 DEF FrameOK, FrameFields
  <2> HIDE DEF g
  <2> QED  BY <1>1, <2>1, <2>4, TopAtArgs
<1>11. CASE OpenAtFile \/ OpenNamedFile \/ EnterGroup
  <2>1. \/ UNCHANGED frames
        \/ \E kind, stream, src, pos, tuple, group :
              frames' = Append(frames, NewFrame(kind, stream, src, pos, tuple, group))
    <3>1. CASE OpenAtFile  BY <3>1 DEF OpenAtFile, Open
    <3>2. CASE OpenNamedFile  BY <3>2 DEF OpenNamedFile, Open
    <3>3. CASE EnterGroup  BY <3>3 DEF EnterGroup
    <3> QED  BY <1>11, <3>1, <3>2, <3>3
  <2>2. CASE \E kind, stream, src, pos, tuple, group :
                frames' = Append(frames, NewFrame(kind, stream, src, pos, tuple, group))
    <3>1. PICK kind, stream, src, pos, tuple, group :
             frames' = Append(frames, NewFrame(kind, stream, src, pos, tuple, group))
          BY <2>2
    <3> DEFINE g == NewFrame(kind, stream, src, pos, tuple, group)
    <3>2. g.stage = "name" /\ frames' = Append(frames, g)  BY <3>1 DEF NewFrame
    <3> HIDE DEF g
    <3> QED  BY <3>2, TopAtArgs
  <2> QED  BY <1>1, <2>1, <2>2
<1>12. CASE ReturnFromFile
  <2>1. f.kind = "file"  BY <1>12 DEF ReturnFromFile
  <2>2. caller \in FrameFields  BY <2>1, CallerFrame DEF Frame
  <2> DEFINE g == [caller EXCEPT !.pos = @ + 1, !.stage = "name",
                                 !.i = IF @ = 0 THEN 0 ELSE @ + 1]
  <2>3. Pop(g) /\ g.stage = "name"  BY <1>12, <2>2 DEF ReturnFromFile, FrameFields
  <2> HIDE DEF g
  <2> QED  BY <2>1, <2>3, TopAtArgs
<1>13. CASE ReturnFromGroup
  <2>1. f.kind = "group"  BY <1>13 DEF ReturnFromGroup
  <2>2. /\ caller \in FrameFields /\ FrameOK(caller, call.tuple, nextPositional)
        /\ CallOK(caller, f)
        BY <2>1, CallerFrame DEF Frame
  <2>3. caller.stage = "name"  BY <2>1, <2>2 DEF FrameOK, CallOK, FrameFields
  <2> DEFINE g == [caller EXCEPT !.pos = f.pos, !.i = @ + 1]
  <2>4. Pop(g) /\ g.stage = "name"  BY <1>13, <2>2, <2>3 DEF ReturnFromGroup, FrameFields
  <2> HIDE DEF g
  <2> QED  BY <2>1, <2>4, TopAtArgs
<1> QED  BY <1>4, <1>5, <1>6, <1>7, <1>9, <1>10, <1>11, <1>12, <1>13 DEF ParseOption, Impl

-----------------------------------------------------------------------------
(* What is held can be written.                                               *)

\* The value v of o has a text: a count is one that std::to_string() was given
\* here, and a std::string is not empty.
Spelled(o, v) ==
    v.set => /\ Decl[o].kind = "count" => v.num \in CountsOf(o)
             /\ o \in Strings => v.val # << >> /\ \A k \in 1..Len(v.val) : v.val[k] \in DOMAIN Letters

AllSpelled == \A o \in Leaves(call.tuple) : Spelled(o, result[Decl[o].slot])

\* An action that changes the slot of the fold's option.
LEMMA OneSlotSpelled ==
    ASSUME ParserOK, SlotsApart(call.tuple), AtLeaf, AllSpelled, UNCHANGED call, NEW v,
           result' = [result EXCEPT ![Decl[opt].slot] = v],
           opt \in Leaves(call.tuple) => Spelled(opt, v)
    PROVE  AllSpelled'
<1> USE DEF ParserOK
<1>1. ASSUME NEW o \in Leaves(call.tuple)  PROVE Spelled(o, result'[Decl[o].slot])
  <2>1. result \in [Slot -> Value] /\ Decl[o].slot \in Slot
        BY LeafEntry, SlotOf DEF TypeOK
  <2>2. CASE Decl[o].slot # Decl[opt].slot  BY <2>1, <2>2 DEF AllSpelled
  <2>3. CASE Decl[o].slot = Decl[opt].slot
    <3>1. PICK d \in 1..Len(call.tuple) :
             ~call.tuple[d].exclusive /\ o = call.tuple[d].opts[1]
          BY LeafEntry
    <3>2. o = opt  BY <2>3, <3>1, SlotOwner
    <3> QED  BY <2>1, <2>3, <3>2
  <2> QED  BY <2>2, <2>3
<1> QED  BY <1>1 DEF AllSpelled

\* A value that is assigned is spelled when its tokens are.
LEMMA AssignSpelled ==
    ASSUME NEW o \in Option, NEW v \in Value, NEW vals \in Seq(Token),
           Spelled(o, v), Decl[o].kind # "count",
           \A k \in 1..Len(vals) : vals[k] \in Decl[o].parses \cup Decl[o].default
    PROVE  Spelled(o, AssignOrInsert(o, v, vals))
<1>1. CASE vals = << >>  BY <1>1 DEF AssignOrInsert
<1>2. CASE o \notin Strings  BY <1>2 DEF Spelled
<1>3. CASE vals # << >> /\ o \in Strings
  <2>1. ~Decl[o].insert /\ Decl[o].parses \cup Decl[o].default \subseteq DOMAIN Letters
        BY <1>3, SpellingType
  <2>2. AssignOrInsert(o, v, vals).val = <<vals[Len(vals)]>>
        BY <1>3, <2>1 DEF AssignOrInsert, Value
  <2>3. Len(vals) \in 1..Len(vals)  BY <1>3
  <2>4. vals[Len(vals)] \in DOMAIN Letters  BY <2>1, <2>3
  <2> QED  BY <2>2, <2>4 DEF Spelled
<1> QED  BY <1>1, <1>2, <1>3

\* n arguments that the option's type reads.
TypeReads(n) == /\ f.pos + n <= Len(f.src) + 1
                /\ \A k \in 0..(n - 1) : f.src[f.pos + k] \in Decl[opt].parses

LEMMA RunsParse ==
    ASSUME ParserOK, NEW n \in Nat, RunOf(n)
    PROVE  TypeReads(n) /\ (Invalid(n) => TypeReads(n + 1))
<1>1. TypeReads(n)  BY DEF RunOf, CanTake, TypeReads, IsValue, Parses
<1>2. ASSUME Invalid(n)  PROVE TypeReads(n + 1)
  <2>1. f.pos \in Nat /\ Len(f.src) \in Nat  BY TopOK DEF ParserOK
  <2>2. f.pos + n <= Len(f.src) /\ f.src[f.pos + n] \in Decl[opt].parses
        BY <1>2 DEF Invalid, Stopped, Stopper, IsValue, Parses
  <2>3. f.pos + (n + 1) <= Len(f.src) + 1  BY <2>1, <2>2
  <2>4. \A k \in 0..((n + 1) - 1) : k \in 0..(n - 1) \/ k = n  OBVIOUS
  <2> QED  BY <1>1, <2>2, <2>3, <2>4 DEF TypeReads
<1> QED  BY <1>1, <1>2

LEMMA ReadByType ==
    ASSUME ParserOK, NEW n \in Nat, TypeReads(n)
    PROVE  LET vals == SubSeq(f.src, f.pos, f.pos + n - 1) IN
           /\ vals \in Seq(Token)
           /\ \A k \in 1..Len(vals) : vals[k] \in Decl[opt].parses
<1> DEFINE src == f.src
           pos == f.pos
           vals == SubSeq(src, pos, pos + n - 1)
<1>1. src \in Seq(Token) /\ pos \in Nat \ {0} /\ pos + n <= Len(src) + 1
      BY TopOK DEF ParserOK, FrameFields, TypeReads
<1>2. \A k \in 0..(n - 1) : src[pos + k] \in Decl[opt].parses  BY DEF TypeReads
<1> HIDE DEF src, pos
<1>3. vals \in Seq(Token) /\ Len(vals) = n /\ \A k \in 1..n : vals[k] = src[pos + (k - 1)]
      BY <1>1
<1> HIDE DEF vals
<1>4. \A k \in 1..n : k - 1 \in 0..(n - 1)  OBVIOUS
<1>5. \A k \in 1..Len(vals) : vals[k] \in Decl[opt].parses  BY <1>2, <1>3, <1>4
<1> QED  BY <1>3, <1>5 DEF vals, src, pos

LEMMA KeepSpelled ==
    ASSUME ParserOK, SlotsApart(call.tuple), AtLeaf, AllSpelled, UNCHANGED call,
           Decl[opt].kind # "count", NEW n \in Nat, TypeReads(n), Keep(n)
    PROVE  AllSpelled'
<1> DEFINE vals == SubSeq(f.src, f.pos, f.pos + n - 1)
           w == result[Decl[opt].slot]
           v == AssignOrInsert(opt, w, vals)
<1>1. opt \in Option /\ Decl[opt].slot \in Slot /\ w \in Value /\ result \in [Slot -> Value]
      BY LeafOption, SlotOf DEF ParserOK, TypeOK
<1>2. result' = [result EXCEPT ![Decl[opt].slot] = v]  BY <1>1 DEF Keep
<1>3. vals \in Seq(Token) /\ \A k \in 1..Len(vals) : vals[k] \in Decl[opt].parses
      BY ReadByType
<1> HIDE DEF vals
<1>4. ASSUME opt \in Leaves(call.tuple)  PROVE Spelled(opt, v)
  <2>1. Spelled(opt, w)  BY <1>4 DEF AllSpelled
  <2>2. \A k \in 1..Len(vals) : vals[k] \in Decl[opt].parses \cup Decl[opt].default  BY <1>3
  <2> QED  BY <1>1, <1>3, <2>1, <2>2, AssignSpelled
<1> QED  BY <1>2, <1>4, OneSlotSpelled

\* The values of a counted flag.
LEMMA CountSpelled ==
    ASSUME NEW o \in Option, NEW t \in Token, IsCounted(o, t)
    PROVE  Decl[o].counts[t] \in CountsOf(o)
BY DEF IsCounted, CountsOf

\* An option with a std::string takes at least one argument, so that its name
\* assigns nothing.
LEMMA StringAtName ==
    ASSUME NEW o \in Strings, NEW v, o \in Option, Decl[o].args # ZeroOrOne
    PROVE  AtName(o, v) = v
<1>1. Decl[o].kind \in {"argument", "positional"} /\ ~Decl[o].insert  BY SpellingType
<1>2. WellDeclared(o)  BY Checked
<1>3. Decl[o].args # ZeroOrMore  BY <1>1, <1>2 DEF WellDeclared, ZeroOrMore, ZeroOrOne
<1> QED  BY <1>1, <1>3 DEF AtName

\* No step leaves a value without a text.
LEMMA SpelledKept ==
    ASSUME ParserOK, ArgsMatched, call.tuple = OptTuple, SlotsApart(OptTuple), AllSpelled,
           ParseOption \/ Impl \/ Finish
    PROVE  AllSpelled'
<1> USE DEF ParserOK
<1>1. UNCHANGED call  BY CallUntouched
<1>2. CASE UNCHANGED result  BY <1>1, <1>2 DEF AllSpelled
<1>3. CASE CountShort
  <2> DEFINE w == result[Decl[opt].slot]
             v == [w EXCEPT !.set = TRUE, !.num = Decl[opt].counts[arg]]
  <2>1. /\ AtLeaf /\ opt \in Option /\ w \in Value /\ Decl[opt].slot \in Slot
        /\ IsCounted(opt, arg) /\ arg \in Token
        BY <1>3, LeafOption, SlotOf, ArgTyped DEF CountShort, Looking
  <2>2. result' = [result EXCEPT ![Decl[opt].slot] = v]
        BY <1>3, <2>1 DEF CountShort, TypeOK
  <2>3. v.num = Decl[opt].counts[arg]  BY <2>1 DEF Value
  <2>4. opt \notin Strings  BY <2>1, SpellingType DEF IsCounted
  <2>5. Spelled(opt, v)  BY <2>1, <2>3, <2>4, CountSpelled DEF Spelled
  <2> QED  BY <1>1, <2>1, <2>2, <2>5, OneSlotSpelled
<1>4. CASE MatchName
  <2> DEFINE w == result[Decl[opt].slot]
             v == IF Decl[opt].kind = "count"
                  THEN [w EXCEPT !.set = TRUE, !.num = 1] ELSE AtName(opt, w)
  <2>1. AtLeaf /\ opt \in Option /\ w \in Value /\ Decl[opt].slot \in Slot
        BY <1>4, LeafOption, SlotOf DEF MatchName, Named, Looking
  <2>2. result' = [result EXCEPT ![Decl[opt].slot] = v]
        BY <1>4, <2>1 DEF MatchName, TypeOK
  <2>3. ASSUME opt \in Leaves(call.tuple)  PROVE Spelled(opt, v)
    <3>1. CASE Decl[opt].kind = "count"
      <4>1. v.num = 1  BY <2>1, <3>1 DEF Value
      <4>2. opt \notin Strings  BY <3>1, SpellingType
      <4> QED  BY <4>1, <4>2 DEF Spelled, CountsOf
    <3>2. CASE Decl[opt].kind # "count" /\ opt \in Strings
      <4>1. PICK d \in 1..Len(OptTuple) : opt = OptTuple[d].opts[1]  BY <2>3 DEF Leaves
      <4>2. Decl[opt].args # ZeroOrOne  BY <4>1, SavedTuple
      <4>3. v = w  BY <2>1, <3>2, <4>2, StringAtName
      <4> QED  BY <2>3, <4>3 DEF AllSpelled
    <3>3. CASE Decl[opt].kind # "count" /\ opt \notin Strings  BY <3>3 DEF Spelled
    <3> QED  BY <3>1, <3>2, <3>3
  <2> QED  BY <1>1, <2>1, <2>2, <2>3, OneSlotSpelled
<1>5. CASE TakeArgs \/ TooFewArgs \/ InvalidArg
  <2>1. ParsingArgs  BY <1>5 DEF TakeArgs, TooFewArgs, InvalidArg
  <2>2. AtLeaf /\ Decl[opt].kind # "count"
    <3>1. CASE f.stage = "args"
      <4>1. Decl[opt].kind \in {"argument", "response_file"}
            BY <3>1 DEF ArgsMatched, AtArgs, opt
      <4> QED  BY <2>1, <4>1, ArgsDueLeaf DEF ParsingArgs
    <3>2. CASE f.stage # "args"
      <4>1. IsPositional(opt)  BY <2>1, <3>2 DEF ParsingArgs, ArgsDue
      <4> QED  BY <2>1, <4>1, ArgsDueLeaf DEF ParsingArgs, IsPositional
    <3> QED  BY <3>1, <3>2
  <2>3. \E n \in Nat : TypeReads(n) /\ Keep(n)
    <3>1. CASE TakeArgs
      <4>1. PICK n \in 0..Len(f.src) : RunOf(n) /\ Keep(n)  BY <3>1 DEF TakeArgs
      <4> QED  BY <4>1, RunsParse
    <3>2. CASE TooFewArgs
      <4>1. PICK n \in 0..Len(f.src) : RunOf(n) /\ Keep(n)  BY <3>2 DEF TooFewArgs
      <4> QED  BY <4>1, RunsParse
    <3>3. CASE InvalidArg
      <4>1. PICK n \in 0..Len(f.src) : RunOf(n) /\ Invalid(n) /\ Keep(n + 1)
            BY <3>3 DEF InvalidArg
      <4> QED  BY <4>1, RunsParse
    <3> QED  BY <1>5, <3>1, <3>2, <3>3
  <2> QED  BY <1>1, <2>2, <2>3, KeepSpelled
<1>6. CASE SkipTakenPositional \/ NoMatch \/ RejectSecondExclusive \/ NoArgsLeft \/ Impl
  <2>1. UNCHANGED result
        BY <1>6 DEF SkipTakenPositional, NoMatch, RejectSecondExclusive, NoArgsLeft, shared,
                    Impl, LoopEnds, OpenAtFile, OpenNamedFile, BeginFold, EnterGroup, EndFold,
                    ReturnFromFile, ReturnFromGroup
  <2> QED  BY <1>2, <2>1
<1>7. CASE result' = WithDefaults
  <2>1. ASSUME NEW p \in Leaves(call.tuple)  PROVE Spelled(p, result'[Decl[p].slot])
    <3> DEFINE s == Decl[p].slot
               due == {o \in Leaves(call.tuple) : /\ Decl[o].slot = s
                                                 /\ Decl[o].default # {} /\ ~Decl[o].required}
               o == CHOOSE q \in due : TRUE
               t == CHOOSE d \in Decl[o].default : TRUE
    <3>1. p \in Option /\ s \in Slot /\ result[s] \in Value /\ Spelled(p, result[s])
          BY LeafEntry, SlotOf DEF AllSpelled
    <3>2. CASE result[s].set \/ due = {}
      <4>1. result'[s] = result[s]  BY <1>7, <3>1, <3>2 DEF WithDefaults
      <4> QED  BY <3>1, <4>1
    <3>3. CASE ~(result[s].set \/ due = {})
      <4>1. result'[s] = AssignOrInsert(o, result[s], <<t>>)
            BY <1>7, <3>1, <3>3 DEF WithDefaults
      <4>2. o \in due  BY <3>3
      <4>3. o = p  BY <4>2, LeavesApart
      <4>4. t \in Decl[p].default  BY <4>2, <4>3
      <4>5. t \in Token
        <5>1. Decl[p] \in Declaration  BY <3>1, DeclType
        <5> QED  BY <4>4, <5>1 DEF Declaration
      <4>6. Decl[p].kind # "count"  BY <3>1, <4>4, SpellingType
      <4> HIDE DEF o, t, due
      <4>7. <<t>> \in Seq(Token) /\ \A k \in 1..Len(<<t>>) : <<t>>[k] = t  BY <4>5
      <4>8. Spelled(p, AssignOrInsert(p, result[s], <<t>>))
            BY <3>1, <4>4, <4>6, <4>7, AssignSpelled
      <4> QED  BY <4>1, <4>3, <4>8
    <3> QED  BY <3>2, <3>3
  <2> QED  BY <1>1, <2>1 DEF AllSpelled
<1>8. CASE Finish  BY <1>2, <1>7, <1>8 DEF Finish
<1> QED  BY <1>3, <1>4, <1>5, <1>6, <1>8 DEF ParseOption

-----------------------------------------------------------------------------
(* What a load that has not succeeded did to the map.                         *)

\* What a load has come to, it has come to for good.
LEMMA ReachedGrows ==
    ASSUME TypeOK, ParseOption \/ Impl \/ Finish, NEW s, Reached(s)
    PROVE  Reached(s)'
<1>1. \A o : Matched(o) => Matched(o)'  BY MatchedGrows
<1>2. nextPositional \in Nat /\ (nextPositional' = nextPositional \/ nextPositional' = nextPositional + 1)
  <2>1. nextPositional \in Nat  BY DEF TypeOK
  <2>2. UNCHANGED nextPositional \/ TakeArgs
        BY DEF ParseOption, SkipTakenPositional, NoMatch, CountShort, RejectSecondExclusive,
               MatchName, NoArgsLeft, TooFewArgs, InvalidArg, Impl, LoopEnds, OpenAtFile,
               OpenNamedFile, BeginFold, EnterGroup, EndFold, ReturnFromFile, ReturnFromGroup,
               Finish, shared
  <2> QED  BY <2>1, <2>2 DEF TakeArgs
<1>3. ASSUME NEW e \in 1..Len(OptTuple), Ordinal(OptTuple, e) <= nextPositional + 1
      PROVE  Ordinal(OptTuple, e) <= nextPositional' + 1
  <2>1. Ordinal(OptTuple, e) \in Nat
    <3>1. e \in Nat  OBVIOUS
    <3> QED  BY <3>1, OrdinalType
  <2> QED  BY <1>2, <1>3, <2>1
<1>4. PICK o \in Option :
         /\ Decl[o].slot = s
         /\ \/ Matched(o)
            \/ \E e \in 1..Len(OptTuple) : /\ PositionalAt(OptTuple, e) /\ OptTuple[e].opts[1] = o
                                           /\ Ordinal(OptTuple, e) <= nextPositional + 1
      BY DEF Reached, Matched
<1> QED  BY <1>1, <1>3, <1>4 DEF Reached, Matched

\* The fold's positional is the one whose turn it is.
LEMMA TurnReached ==
    ASSUME ParserOK, call.tuple = OptTuple, ParsingArgs, IsPositional(opt)
    PROVE  Reached(Decl[opt].slot)
<1> USE DEF ParserOK
<1>1. Looking /\ opt \in Option /\ AtLeaf  BY ArgsDueLeaf DEF ParsingArgs
<1>2. PICK e \in 1..Len(call.tuple) : \E j \in 1..Len(call.tuple[e].opts) :
         /\ opt = call.tuple[e].opts[j]
         /\ ~call.tuple[e].exclusive => f.tuple = call.tuple /\ f.i = e /\ j = 1
      BY <1>1, OptionOfCall
<1>3. ~call.tuple[e].exclusive  BY <1>2 DEF WellGrouped
<1>4. f.tuple = OptTuple /\ f.i = e /\ opt = OptTuple[e].opts[1]  BY <1>2, <1>3
<1>5. PositionalAt(OptTuple, e)  BY <1>3, <1>4 DEF PositionalAt
<1>6. /\ f.pidx + 1 = Ordinal(OptTuple, e - 1) /\ f.pidx + 1 <= nextPositional
      /\ nextPositional \in Nat
  <2>1. e \in Nat /\ e >= 1  OBVIOUS
  <2>2. f.pos <= Len(f.src)  BY TopOK DEF ParsingArgs, AtEnd
  <2> QED  BY <1>4, <2>1, <2>2, TopOK DEF FrameOK
<1>7. Ordinal(OptTuple, e) = Ordinal(OptTuple, e - 1) + 1 /\ Ordinal(OptTuple, e - 1) \in Nat
  <2>1. e \in Nat \ {0} /\ e - 1 \in Nat  OBVIOUS
  <2> QED  BY <1>5, <2>1, OrdinalStep, OrdinalType
<1>8. Ordinal(OptTuple, e) <= nextPositional + 1  BY <1>6, <1>7
<1> QED  BY <1>1, <1>2, <1>4, <1>5, <1>8 DEF Reached

\* The slots that differ from what the load was given are those it came to.
OnlyReached == \A s \in Slot : result[s] # before[s] => Reached(s)

LEMMA OnlyReachedKept ==
    ASSUME ParserOK, call.tuple = OptTuple, ArgsMatched, OnlyReached, UNCHANGED before,
           ParseOption \/ Impl \/ Finish, status' # "ok"
    PROVE  OnlyReached'
<1> USE DEF ParserOK
<1>1. ASSUME NEW s \in Slot, result'[s] = result[s]
      PROVE  result'[s] # before'[s] => Reached(s)'
      BY <1>1, ReachedGrows DEF OnlyReached
<1>2. CASE UNCHANGED result  BY <1>1, <1>2 DEF OnlyReached
<1>3. CASE AtLeaf /\ opt \in Option /\ \E v : result' = [result EXCEPT ![Decl[opt].slot] = v]
  <2>1. Decl[opt].slot \in Slot /\ result \in [Slot -> Value]  BY <1>3, SlotOf DEF TypeOK
  <2>2. ASSUME NEW s \in Slot, s # Decl[opt].slot  PROVE result'[s] = result[s]
        BY <1>3, <2>1, <2>2
  <2>3. CASE CountShort \/ MatchName
    <3>1. PICK k \in 1..Len(matched') : matched'[k] = opt  BY <2>3, MatchedGrows
    <3>2. ASSUME NEW s \in Slot, s = Decl[opt].slot  PROVE Reached(s)'
          BY <1>3, <3>1, <3>2 DEF Reached
    <3> QED  BY <1>1, <2>2, <3>2 DEF OnlyReached
  <2>4. CASE ParsingArgs
    <3>1. Reached(Decl[opt].slot)
      <4>1. CASE IsPositional(opt)  BY <2>4, <4>1, TurnReached
      <4>2. CASE ~IsPositional(opt)
        <5>1. f.stage = "args"  BY <2>4, <4>2 DEF ParsingArgs, ArgsDue
        <5>2. Matched(opt)  BY <5>1 DEF ArgsMatched, AtArgs, opt
        <5> QED  BY <1>3, <5>2 DEF Matched, Reached
      <4> QED  BY <4>1, <4>2
    <3>2. ASSUME NEW s \in Slot, s = Decl[opt].slot  PROVE Reached(s)'
      <4>1. Reached(s)  BY <3>1, <3>2
      <4> QED  BY <4>1, ReachedGrows
    <3> QED  BY <1>1, <2>2, <3>2 DEF OnlyReached
  <2>5. CASE ~(CountShort \/ MatchName \/ ParsingArgs)
    <3>1. UNCHANGED result \/ Finish
          BY <2>5 DEF ParseOption, SkipTakenPositional, NoMatch, RejectSecondExclusive, NoArgsLeft,
                      TakeArgs, TooFewArgs, InvalidArg, shared, Impl, LoopEnds, OpenAtFile,
                      OpenNamedFile, BeginFold, EnterGroup, EndFold, ReturnFromFile,
                      ReturnFromGroup
    <3>2. Finish => UNCHANGED result  BY DEF Finish
    <3> QED  BY <1>2, <3>1, <3>2
  <2> QED  BY <2>3, <2>4, <2>5
<1>4. CASE Finish  BY <1>2, <1>4 DEF Finish
<1> QED  BY <1>2, <1>3, <1>4, ResultStep

-----------------------------------------------------------------------------
(* What saving writes.                                                        *)

LEMMA One ==
    ASSUME NEW T, NEW t \in T
    PROVE  <<t>> \in Seq(T)
OBVIOUS

\* What operator<< makes of a value that has a text is tokens.
LEMMA ElementsTyped ==
    ASSUME NEW o \in Option, NEW v \in Value, v.set, Spelled(o, v)
    PROVE  Elements(o, v) \in Seq(Token)
<1>1. v.val \in Seq(Token)  BY DEF Value
<1>2. CASE Decl[o].kind = "flag"
  <2>1. TrueText \in Token  BY StorageType
  <2>2. Elements(o, v) = <<TrueText>>  BY <1>2, SpellingType DEF Elements
  <2> QED  BY <2>1, <2>2
<1>3. CASE Decl[o].kind = "count"
  <2>1. v.num \in DOMAIN NumberText  BY <1>3, SpellingType DEF Spelled
  <2>2. NumberText[v.num] \in Token  BY <2>1, StorageType
  <2>3. Elements(o, v) = <<NumberText[v.num]>>  BY <1>3, SpellingType DEF Elements
  <2> QED  BY <2>2, <2>3
<1>4. CASE Decl[o].kind \notin {"flag", "count"} /\ o \in Strings
  <2>1. v.val # << >> /\ \A k \in 1..Len(v.val) : v.val[k] \in DOMAIN Letters
        BY <1>4 DEF Spelled
  <2>2. 1 \in 1..Len(v.val)  BY <1>1, <2>1
  <2>3. Letters[v.val[1]] \in Seq(Token)  BY <2>1, <2>2, StorageType
  <2> QED  BY <1>4, <2>3 DEF Elements
<1>5. CASE Decl[o].kind \notin {"flag", "count"} /\ o \notin Strings
      BY <1>1, <1>5 DEF Elements
<1> QED  BY <1>2, <1>3, <1>4, <1>5

LEMMA ResponseLineTyped ==
    ASSUME NEW o \in Option, NEW v \in Value, v.set, Spelled(o, v)
    PROVE  ResponseLine(o, v) \in Seq(Token)
<1> DEFINE ws == Elements(o, v)
           raw(t) == IF IsList(o) \/ t \notin DOMAIN Unquoted THEN <<t>> ELSE Unquoted[t]
           s == [k \in 1..Len(ws) |-> raw(ws[k])]
           name == IF IsPositional(o) THEN << >> ELSE <<LongName[o]>>
<1>1. ws \in Seq(Token)  BY ElementsTyped
<1> HIDE DEF ws
<1>2. \A t \in Token : raw(t) \in Seq(Token)  BY One, StorageType
<1>3. \A k \in 1..Len(ws) : raw(ws[k]) \in Seq(Token)  BY <1>1, <1>2
<1> HIDE DEF raw
<1>4. s \in Seq(Seq(Token))  BY <1>1, <1>3
<1>5. name \in Seq(Token)  BY One, EmptySeq, StorageType
<1> HIDE DEF s, name
<1>6. name \o FlattenSeq(s) \in Seq(Token)  BY <1>4, <1>5, FlattenTyped, ConcatProperties
<1>7. ResponseLine(o, v) = name \o FlattenSeq(s)  BY DEF ResponseLine, name, s, raw, ws
<1> QED  BY <1>6, <1>7

\* T has the symbols that saving writes after the first and before the last.
Inside(T) == /\ \A k \in {":", ",", "[", "]"} : Mark(k) \in T
             /\ \A t \in Token : String(t) \in T
             /\ \A t \in DOMAIN JsonText : JsonText[t] \in Seq(T)

LEMMA CommaTyped ==
    ASSUME NEW T, Inside(T), NEW k
    PROVE  Comma(k) \in Seq(T)
BY One, EmptySeq DEF Inside, Comma

LEMMA InQuotesTyped ==
    ASSUME NEW T, Inside(T), NEW t \in Token
    PROVE  InQuotes(t) \in Seq(T)
BY One DEF Inside, InQuotes

LEMMA JsonMemberTyped ==
    ASSUME NEW T, Inside(T), NEW o \in Option, NEW v \in Value, v.set, Spelled(o, v)
    PROVE  JsonMember(o, v) \in Seq(T)
<1> DEFINE ws == Elements(o, v)
           part(k) == Comma(k) \o InQuotes(ws[k])
           s == [k \in 1..Len(ws) |-> part(k)]
           list == FlattenSeq(s)
<1>1. ws \in Seq(Token)  BY ElementsTyped
<1> HIDE DEF ws
<1>2. ASSUME NEW k \in 1..Len(ws)  PROVE part(k) \in Seq(T)
  <2>1. ws[k] \in Token  BY <1>1
  <2>2. Comma(k) \in Seq(T) /\ InQuotes(ws[k]) \in Seq(T)
        BY <2>1, CommaTyped, InQuotesTyped
  <2> QED  BY <2>2, ConcatProperties
<1> HIDE DEF part
<1>3. s \in Seq(Seq(T))  BY <1>1, <1>2
<1> HIDE DEF s
<1>4. list \in Seq(T)  BY <1>3, FlattenTyped
<1>5. <<String(LongName[o]), Mark(":")>> \in Seq(T)
  <2>1. String(LongName[o]) \in T /\ Mark(":") \in T  BY StorageType DEF Inside
  <2> QED  BY <2>1
<1>6. <<Mark("[")>> \in Seq(T) /\ <<Mark("]")>> \in Seq(T)  BY One DEF Inside
<1> DEFINE value == IF IsList(o) THEN <<Mark("[")>> \o list \o <<Mark("]")>> ELSE list
<1>7. JsonMember(o, v) = <<String(LongName[o]), Mark(":")>> \o value
      BY DEF JsonMember, list, s, part, ws
<1> HIDE DEF list
<1>8. value \in Seq(T)  BY <1>4, <1>6, ConcatProperties
<1> HIDE DEF value
<1> QED  BY <1>5, <1>7, <1>8, ConcatProperties

-----------------------------------------------------------------------------
(* Loading starts a parse.                                                    *)

\* A load parses as a program does that has parsed nothing yet.
LEMMA LoadStarts ==
    ASSUME IInv, call.tuple = OptTuple, NEW args \in Seq(Token), NEW map \in [Slot -> Value],
           ParseInto(args, map)
    PROVE  /\ IInv' /\ ArgsMatched'
           /\ call'.tuple = OptTuple /\ call'.deserializing /\ status' = "run"
           /\ result' = map /\ before' = map
<1> DEFINE stream == format = "response_file"
           g == NewFrame("top", stream, args, 1, OptTuple, 0)
<1>1. /\ call' = [call EXCEPT !.deserializing = TRUE] /\ frames' = <<g>>
      /\ nextPositional' = 0 /\ seen' = {} /\ result' = map /\ before' = map
      /\ status' = "run" /\ ret' = "none"
      /\ matched' = << >> /\ taken' = << >> /\ delivered' = << >>
      /\ UNCHANGED diag
      BY DEF ParseInto
<1>2. TypeOK /\ call \in Call /\ OptTuple \in Seq(Entry) /\ stream \in BOOLEAN
      BY TupleType DEF IInv, ParserOK, TypeOK
<1>3. g \in Frame /\ FrameOK(g, OptTuple, 0) /\ g.kind = "top" /\ g.stage = "name"
  <2>1. "top" \in FrameKind /\ 1 \in Nat \ {0} /\ 0 \in Nat /\ 1 <= Len(args) + 1
        BY DEF FrameKind
  <2>2. g \in Frame /\ FrameOK(g, OptTuple, 0)  BY <1>2, <2>1, NewFrameOK
  <2> QED  BY <2>2 DEF NewFrame
<1> HIDE DEF g
<1>4. frames' \in Seq(Frame) /\ frames' # << >> /\ Len(frames') = 1 /\ frames'[1] = g
      BY <1>1, <1>3
<1>5. call' \in Call /\ call'.tuple = OptTuple /\ call'.deserializing
      BY <1>1, <1>2 DEF Call
<1>6. StackOK'
  <2>1. 1..(Len(frames') - 1) = {} /\ 1..Len(frames') = {1}  BY <1>4
  <2> QED  BY <1>1, <1>3, <1>4, <1>5, <2>1 DEF StackOK
<1>7. PositionalsInOrder'
  <2>1. 1..Len(taken') = {} /\ Len(taken') = 0  BY <1>1
  <2> QED  BY <1>1, <2>1 DEF PositionalsInOrder
<1>8. TypeOK'
  <2>1. "run" \in Statuses /\ "none" \in Errors /\ {} \in SUBSET (Nat \ {0})
        BY DEF Statuses, Errors
  <2>2. << >> \in Seq(Option) /\ << >> \in Seq(Token)  OBVIOUS
  <2> QED  BY <1>1, <1>2, <1>4, <1>5, <2>1, <2>2 DEF TypeOK
<1>9. WellGrouped(OptTuple)  BY LeafType
<1>10. IInv'  BY <1>5, <1>6, <1>7, <1>8, <1>9 DEF IInv, ParserOK
<1>11. ArgsMatched'
  <2>1. f' = g  BY <1>4 DEF f
  <2> QED  BY <1>3, <2>1 DEF ArgsMatched, AtArgs
<1> QED  BY <1>1, <1>5, <1>10, <1>11

\* Only a call that runs or returns takes a step.
LEMMA RunningSteps ==
    ASSUME ParseOption \/ Impl \/ Finish
    PROVE  status \in {"run", "return"}
<1> USE DEF AtLeaf
<1>1. CASE ParseOption
  <2>1. Looking \/ AtLeaf \/ ArgsDue
        BY <1>1 DEF ParseOption, SkipTakenPositional, NoMatch, CountShort, RejectSecondExclusive,
                    MatchName, Named, NoArgsLeft, TakeArgs, TooFewArgs, InvalidArg, ParsingArgs
  <2> QED  BY <2>1 DEF Looking, ArgsDue
<1>2. CASE Impl
      BY <1>2 DEF Impl, LoopEnds, AtLoopHead, OpenAtFile, OpenNamedFile, ArgsDue, Looking,
                  BeginFold, EnterGroup, EndFold, ReturnFromFile, ReturnFromGroup
<1>3. CASE Finish  BY <1>3 DEF Finish
<1> QED  BY <1>1, <1>2, <1>3

-----------------------------------------------------------------------------
(* The reader of JSON, of a file that is written and then read.               *)

LEMMA ReaderSteps ==
    ASSUME Json!Next
    PROVE  JP!Next
BY DEF Json!Next, Json!ReadSymbol, Json!ReadScalar, Json!OpenArray, Json!OpenObject,
       Json!ReadKey, Json!ReadColon, Json!ReadComma, Json!CloseArray, Json!CloseObject,
       Json!Close, Json!Outer, Json!Within, Json!Innermost, Json!Step, Json!Is, Json!Reading,
       Json!AtTextEnd, Json!Values, Json!AfterValue, Json!Mismatch, Json!Accept, Json!Expected,
       JP!Next, JP!ReadSymbol, JP!ReadScalar, JP!OpenArray, JP!OpenObject,
       JP!ReadKey, JP!ReadColon, JP!ReadComma, JP!CloseArray, JP!CloseObject,
       JP!Close, JP!Outer, JP!Within, JP!Innermost, JP!Step, JP!Is, JP!Reading,
       JP!AtTextEnd, JP!Values, JP!AfterValue, JP!Mismatch, JP!Accept, JP!Expected

LEMMA ReaderTyped ==
    ASSUME JP!JInv
    PROVE  Json!TypeOK
BY DEF JP!JInv, JP!TypeOK, JP!Symbol, JP!Structure, JP!Scalar, JP!Junk,
       Json!TypeOK, Json!Symbol, Json!Structure, Json!Scalar, Json!Junk

LEMMA SymbolSame == Json!Symbol = JP!Symbol
BY DEF JP!Symbol, JP!Structure, JP!Scalar, JP!Junk,
       Json!Symbol, Json!Structure, Json!Scalar, Json!Junk

\* Nothing was read of the file.
NothingRead == at = 1 /\ stack = << >> /\ expects = "value" /\ words = << >>

LEMMA ReaderStarts ==
    ASSUME NothingRead, file \in Seq(Json!Symbol)
    PROVE  JP!JInv
<1>1. << >> \in Seq({"array", "object"}) /\ << >> \in Seq(Token) /\ Len(file) \in Nat
      OBVIOUS
<1> QED  BY <1>1, SymbolSame DEF NothingRead, JP!JInv, JP!TypeOK, JP!Nesting

LEMMA ReaderRestarts ==
    ASSUME NothingRead', file' \in Seq(Json!Symbol)
    PROVE  JP!JInv'
<1>1. << >> \in Seq({"array", "object"}) /\ << >> \in Seq(Token) /\ Len(file') \in Nat
      OBVIOUS
<1> QED  BY <1>1, SymbolSame DEF NothingRead, JP!JInv, JP!TypeOK, JP!Nesting

-----------------------------------------------------------------------------
(* The invariant of storing.  What is written has its type because what is    *)
(* held has a text, what is loaded because what is written has its type, and  *)
(* a load is a parse like the first because what is loaded has its type.      *)

ParseOK == /\ IInv /\ call.tuple = OptTuple
           /\ ArgsMatched /\ AllSpelled /\ LoadingNeverExits

StoreOK ==
    /\ phase \in {"parsing", "saving", "saved", "partial", "reading", "loading",
                  "loaded", "save_error", "load_error", "undefined"}
    /\ format \in {"response_file", "json"}
    /\ upTo \in 0..Len(OptTuple)
    /\ file \in IF format = "json" THEN Seq(Json!Symbol) ELSE Seq(Token)
    /\ saved \in [Slot -> Value] /\ before \in [Slot -> Value]

\* The reader starts when it is called, after the last write.
ReaderOK ==
    /\ phase \in {"parsing", "saving", "saved", "partial"} => NothingRead
    /\ format # "json" => NothingRead
    /\ phase = "reading" => format = "json"
    /\ format = "json" => JP!JInv

LoadOK == call.deserializing /\ status # "ok" => OnlyReached

SInv == ParseOK /\ StoreOK /\ ReaderOK /\ LoadOK

LEMMA NoValuesTyped == NoValues \in [Slot -> Value]
<1>1. Unset \in Value
  <2>1. << >> \in Seq(Token) /\ 0 \in Int  OBVIOUS
  <2> QED  BY <2>1 DEF Unset, Value
<1> QED  BY <1>1 DEF NoValues

LEMMA NothingSpelled ==
    ASSUME NEW o
    PROVE  Spelled(o, Unset)
BY DEF Spelled, Unset

\* What a program starts with.
LEMMA SInitSInv ==
    ASSUME SInit
    PROVE  SInv
<1>1. Init /\ upTo = 0 /\ saved = NoValues /\ before = NoValues /\ NothingRead
      BY DEF SInit, NothingRead
<1>2. IInv  BY <1>1, InitIInv
<1>3. /\ call.tuple = OptTuple /\ result = NoValues /\ status = "run"
      /\ \E args, stream : frames = <<NewFrame("top", stream, args, 1, OptTuple, 0)>>
      BY <1>1 DEF Init, Start, NoValues
<1>4. ArgsMatched
  <2>1. PICK args, stream : frames = <<NewFrame("top", stream, args, 1, OptTuple, 0)>>
        BY <1>3
  <2>2. f.stage = "name"  BY <2>1 DEF f, NewFrame
  <2> QED  BY <2>2 DEF ArgsMatched, AtArgs
<1>5. AllSpelled
  <2>1. ASSUME NEW o \in Leaves(call.tuple)  PROVE Spelled(o, result[Decl[o].slot])
    <3>1. Decl[o].slot \in Slot  BY <1>2, LeafEntry, SlotOf DEF IInv, ParserOK
    <3>2. result[Decl[o].slot] = Unset  BY <1>3, <3>1 DEF NoValues
    <3> QED  BY <3>2, NothingSpelled
  <2> QED  BY <2>1 DEF AllSpelled
<1>6. ParseOK  BY <1>2, <1>3, <1>4, <1>5 DEF ParseOK, LoadingNeverExits
<1>7. StoreOK
  <2>1. /\ phase \in {"parsing", "saved"} /\ format \in {"response_file", "json"}
        /\ file \in IF format = "json" THEN Seq(Json!Symbol) ELSE Seq(Token)
    <3>1. CASE phase = "parsing" /\ format \in Formats /\ file = << >>
      <4>1. << >> \in Seq(Json!Symbol) /\ << >> \in Seq(Token)  OBVIOUS
      <4>2. format \in {"response_file", "json"}  BY <3>1, StorageType
      <4> QED  BY <3>1, <4>1, <4>2
    <3>2. CASE phase = "saved" /\ format = "json" /\ file \in GivenFiles
          BY <3>2, StorageType
    <3> QED  BY <3>1, <3>2 DEF SInit
  <2>2. 0 \in 0..Len(OptTuple)  BY TupleType
  <2> QED  BY <1>1, <2>1, <2>2, NoValuesTyped DEF StoreOK
<1>8. ReaderOK
  <2>1. phase # "reading"  BY DEF SInit
  <2>2. format = "json" => JP!JInv  BY <1>1, <1>7, ReaderStarts DEF StoreOK
  <2> QED  BY <1>1, <2>1, <2>2 DEF ReaderOK
<1>9. LoadOK  BY <1>1, <1>3 DEF LoadOK, OnlyReached
<1> QED  BY <1>6, <1>7, <1>8, <1>9 DEF SInv

\* Saving and reading leave the parse as it is.
LEMMA ParseStays ==
    ASSUME ParseOK, LoadOK, UNCHANGED vars, UNCHANGED before
    PROVE  ParseOK' /\ LoadOK'
<1>1. IInv'  BY NextIInv DEF ParseOK
<1>2. ArgsMatched' /\ AllSpelled' /\ LoadingNeverExits' /\ call' = call /\ call'.tuple = OptTuple
      BY DEF ParseOK, vars, ArgsMatched, AtArgs, Matched, f, AllSpelled, LoadingNeverExits
<1>3. LoadOK'  BY DEF LoadOK, OnlyReached, Reached, vars
<1> QED  BY <1>1, <1>2, <1>3 DEF ParseOK

\* The reader is where it was, in the file that was there.
LEMMA ReaderStays ==
    ASSUME ReaderOK, UNCHANGED <<format, file, reader>>,
           phase' \in {"parsing", "saving", "saved", "partial"} =>
               phase \in {"parsing", "saving", "saved", "partial"},
           phase' = "reading" => format = "json"
    PROVE  ReaderOK'
<1>1. JP!JInv => JP!JInv'
      BY DEF reader, JP!JInv, JP!TypeOK, JP!Nesting
<1>2. NothingRead => NothingRead'  BY DEF reader, NothingRead
<1> QED  BY <1>1, <1>2 DEF ReaderOK

\* What is between the symbols that saving brackets is one of a reader's.
LEMMA SymbolsInside == Inside(Json!Symbol)
<1>1. \A k \in {":", ",", "[", "]"} : Mark(k) \in Json!Symbol
      BY DEF Mark, Json!Symbol, Json!Structure
<1>2. \A t \in Token : String(t) \in Json!Symbol
      BY DEF String, Json!Symbol, Json!Scalar
<1>3. \A t \in DOMAIN JsonText : JsonText[t] \in Seq(Json!Symbol)  BY StorageType
<1> QED  BY <1>1, <1>2, <1>3 DEF Inside

\* The option that is saved next, and its value.
LEMMA ToSaveTyped ==
    ASSUME ParseOK, StoreOK, Saving
    PROVE  /\ toSave \in Option /\ Decl[toSave].slot \in Slot
           /\ result[Decl[toSave].slot] \in Value
           /\ Spelled(toSave, result[Decl[toSave].slot])
           /\ upTo \in Nat /\ upTo + 1 \in 0..Len(OptTuple)
<1>1. upTo \in Nat /\ upTo + 1 \in 1..Len(OptTuple)
  <2>1. Len(OptTuple) \in Nat  BY TupleType
  <2> QED  BY <2>1 DEF StoreOK, Saving
<1> DEFINE k == upTo + 1
<1>2. k \in 1..Len(OptTuple) /\ toSave = OptTuple[k].opts[1]  BY <1>1 DEF toSave
<1> HIDE DEF k
<1>3. toSave \in Leaves(call.tuple)
  <2>1. ~OptTuple[k].exclusive  BY <1>2, SavedTuple
  <2> QED  BY <1>2, <2>1 DEF ParseOK, Leaves
<1>4. toSave \in Option /\ Decl[toSave].slot \in Slot
      BY <1>3, LeafEntry, SlotOf DEF ParseOK, IInv, ParserOK
<1>5. result \in [Slot -> Value]  BY DEF ParseOK, IInv, ParserOK, TypeOK
<1> QED  BY <1>1, <1>3, <1>4, <1>5 DEF ParseOK, AllSpelled

\* A file that is written to has not been read yet.
LEMMA WriteKeeps ==
    ASSUME SInv, phase \in {"parsing", "saving"}, UNCHANGED <<format, before, reader>>,
           UNCHANGED vars,
           phase' \in {"parsing", "saving", "saved", "partial"},
           upTo' \in 0..Len(OptTuple), saved' \in [Slot -> Value],
           file' \in IF format = "json" THEN Seq(Json!Symbol) ELSE Seq(Token)
    PROVE  SInv'
<1>1. ParseOK' /\ LoadOK'  BY ParseStays DEF SInv
<1>2. StoreOK'  BY DEF SInv, StoreOK
<1>3. NothingRead'  BY DEF SInv, ReaderOK, NothingRead, reader
<1>4. format' = "json" => JP!JInv'  BY <1>3, ReaderRestarts
<1>5. ReaderOK'  BY <1>3, <1>4 DEF ReaderOK
<1> QED  BY <1>1, <1>2, <1>5 DEF SInv

LEMMA OpenToSaveKeeps ==
    ASSUME SInv, OpenToSave
    PROVE  SInv'
<1>1. /\ phase = "parsing" /\ phase' = "saving" /\ saved' = result
      /\ file' = IF format = "json" THEN <<Mark("{")>> ELSE << >>
      /\ UNCHANGED <<vars, format, upTo, before, reader>>
      BY DEF OpenToSave
<1>2. result \in [Slot -> Value]  BY DEF SInv, ParseOK, IInv, ParserOK, TypeOK
<1>3. Mark("{") \in Json!Symbol  BY DEF Mark, Json!Symbol, Json!Structure
<1>4. file' \in IF format = "json" THEN Seq(Json!Symbol) ELSE Seq(Token)
      BY <1>1, <1>3, One, EmptySeq
<1> QED  BY <1>1, <1>2, <1>4, WriteKeeps DEF SInv, StoreOK

LEMMA SaveOptionKeeps ==
    ASSUME SInv, SaveOption
    PROVE  SInv'
<1> DEFINE v == result[Decl[toSave].slot]
<1>1. /\ Saving /\ phase = "saving" /\ v.set /\ upTo' = upTo + 1
      /\ file' = file \o (IF format = "json"
                          THEN Comma(Len(file)) \o JsonMember(toSave, v)
                          ELSE ResponseLine(toSave, v))
      /\ UNCHANGED <<vars, phase, format, saved, before, reader>>
      BY DEF SaveOption, Saving, IsHeld
<1>2. /\ toSave \in Option /\ v \in Value /\ Spelled(toSave, v)
      /\ upTo + 1 \in 0..Len(OptTuple)
      BY <1>1, ToSaveTyped DEF SInv
<1> HIDE DEF v
<1>3. CASE format = "json"
  <2>1. /\ Comma(Len(file)) \in Seq(Json!Symbol)
        /\ JsonMember(toSave, v) \in Seq(Json!Symbol) /\ file \in Seq(Json!Symbol)
        BY <1>1, <1>2, <1>3, SymbolsInside, CommaTyped, JsonMemberTyped DEF SInv, StoreOK
  <2>2. file' \in Seq(Json!Symbol)  BY <1>1, <1>3, <2>1, ConcatProperties
  <2> QED  BY <1>1, <1>2, <1>3, <2>2, WriteKeeps DEF SInv, StoreOK
<1>4. CASE format # "json"
  <2>1. ResponseLine(toSave, v) \in Seq(Token) /\ file \in Seq(Token)
        BY <1>1, <1>2, <1>4, ResponseLineTyped DEF SInv, StoreOK
  <2>2. file' \in Seq(Token)  BY <1>1, <1>4, <2>1, ConcatProperties
  <2> QED  BY <1>1, <1>2, <1>4, <2>2, WriteKeeps DEF SInv, StoreOK
<1> QED  BY <1>3, <1>4

LEMMA OneMore ==
    ASSUME NEW T, NEW s \in Seq(T), NEW t \in T
    PROVE  Append(s, t) \in Seq(T)
OBVIOUS

LEMMA EndSaveKeeps ==
    ASSUME SInv, EndSave
    PROVE  SInv'
<1>1. /\ phase = "saving" /\ phase' = "saved"
      /\ file' = IF format = "json" THEN Append(file, Mark("}")) ELSE file
      /\ UNCHANGED <<vars, format, upTo, saved, before, reader>>
      BY DEF EndSave
<1>2. Mark("}") \in Json!Symbol  BY DEF Mark, Json!Symbol, Json!Structure
<1>3. file' \in IF format = "json" THEN Seq(Json!Symbol) ELSE Seq(Token)
  <2>1. file \in IF format = "json" THEN Seq(Json!Symbol) ELSE Seq(Token)
        BY DEF SInv, StoreOK
  <2>2. CASE format = "json"
    <3>1. file \in Seq(Json!Symbol) /\ file' = Append(file, Mark("}"))  BY <1>1, <2>1, <2>2
    <3>2. file' \in Seq(Json!Symbol)  BY <1>2, <3>1, OneMore
    <3> QED  BY <2>2, <3>2
  <2>3. CASE format # "json"  BY <1>1, <2>1, <2>3
  <2> QED  BY <2>2, <2>3
<1> QED  BY <1>1, <1>3, WriteKeeps DEF SInv, StoreOK

\* What moves on without a write, a parse or a symbol that is read.
LEMMA MoveKeeps ==
    ASSUME SInv, UNCHANGED <<vars, format, file, saved, before, reader>>,
           upTo' \in 0..Len(OptTuple),
           phase' \in {"parsing", "saving", "saved", "partial", "loaded", "save_error",
                       "load_error", "undefined"} \cup {phase},
           phase' \in {"parsing", "saving", "saved", "partial"} =>
               phase \in {"parsing", "saving", "saved", "partial"}
    PROVE  SInv'
<1>1. ParseOK' /\ LoadOK'  BY ParseStays DEF SInv
<1>2. StoreOK'  BY DEF SInv, StoreOK
<1>3. ReaderOK'  BY ReaderStays DEF SInv, ReaderOK
<1> QED  BY <1>1, <1>2, <1>3 DEF SInv

LEMMA ReadJsonKeeps ==
    ASSUME SInv, ReadJson
    PROVE  SInv'
<1>1. /\ format = "json" /\ phase' = "reading" /\ NothingRead'
      /\ UNCHANGED <<vars, format, upTo, file, saved, before>>
      BY DEF ReadJson, NothingRead
<1>2. ParseOK' /\ LoadOK'  BY <1>1, ParseStays DEF SInv
<1>3. StoreOK'  BY <1>1 DEF SInv, StoreOK
<1>4. file' \in Seq(Json!Symbol)  BY <1>1 DEF SInv, StoreOK
<1>5. ReaderOK'  BY <1>1, <1>4, ReaderRestarts DEF ReaderOK
<1> QED  BY <1>2, <1>3, <1>5 DEF SInv

\* Reading a text does not change it.
LEMMA ReadOnKeeps ==
    ASSUME SInv, ReadOn
    PROVE  SInv'
<1>1. /\ phase = "reading" /\ JP!Next
      /\ UNCHANGED <<vars, phase, format, upTo, saved, before>>
      BY ReaderSteps DEF ReadOn
<1>2. ParseOK' /\ LoadOK'  BY <1>1, ParseStays DEF SInv
<1>3. JP!JInv /\ format = "json"  BY <1>1 DEF SInv, ReaderOK
<1>4. JP!JInv'  BY <1>1, <1>3, JP!Inductive
<1>5. file' \in Seq(Json!Symbol)  BY <1>4, SymbolSame DEF JP!JInv, JP!TypeOK
<1>6. StoreOK'  BY <1>1, <1>3, <1>5 DEF SInv, StoreOK
<1>7. ReaderOK'  BY <1>1, <1>3, <1>4 DEF ReaderOK
<1> QED  BY <1>2, <1>6, <1>7 DEF SInv

LEMMA LoadKeeps ==
    ASSUME SlotsApart(OptTuple), SInv, Load
    PROVE  SInv'
<1> DEFINE args == IF format = "json" THEN words ELSE file
<1>1. PICK map \in {NoValues, result} : ParseInto(args, map)  BY DEF Load
<1>2. map \in [Slot -> Value]
      BY NoValuesTyped DEF SInv, ParseOK, IInv, ParserOK, TypeOK
<1>3. args \in Seq(Token)
  <2>1. CASE format = "json"  BY <2>1 DEF SInv, ReaderOK, JP!JInv, JP!TypeOK
  <2>2. CASE format # "json"  BY <2>2 DEF SInv, StoreOK
  <2> QED  BY <2>1, <2>2
<1> HIDE DEF args
<1>4. /\ IInv' /\ ArgsMatched' /\ call'.tuple = OptTuple /\ status' = "run"
      /\ result' = map /\ before' = map
      BY <1>1, <1>2, <1>3, LoadStarts DEF SInv, ParseOK
<1>5. AllSpelled'
  <2>1. ASSUME NEW o \in Leaves(call'.tuple)  PROVE Spelled(o, result'[Decl[o].slot])
    <3>1. o \in Leaves(call.tuple)  BY <1>4, <2>1 DEF SInv, ParseOK
    <3>2. Decl[o].slot \in Slot
          BY <3>1, LeafEntry, SlotOf DEF SInv, ParseOK, IInv, ParserOK
    <3>3. CASE map = NoValues
      <4>1. result'[Decl[o].slot] = Unset  BY <1>4, <3>2, <3>3 DEF NoValues
      <4> QED  BY <4>1, NothingSpelled
    <3>4. CASE map = result  BY <1>4, <3>1, <3>4 DEF SInv, ParseOK, AllSpelled
    <3> QED  BY <3>3, <3>4
  <2> QED  BY <2>1 DEF AllSpelled
<1>6. ParseOK'  BY <1>4, <1>5 DEF ParseOK, LoadingNeverExits
<1>7. LoadOK'  BY <1>4 DEF LoadOK, OnlyReached
<1>8. phase' = "loading" /\ UNCHANGED <<format, upTo, file, saved, reader>>
      BY <1>1 DEF ParseInto
<1>9. StoreOK'  BY <1>2, <1>4, <1>8 DEF SInv, StoreOK
<1>10. ReaderOK'  BY <1>8, ReaderStays DEF SInv
<1> QED  BY <1>6, <1>7, <1>9, <1>10 DEF SInv

\* A step of the parse, of the command line or of what was loaded.
LEMMA ParseKeeps ==
    ASSUME SlotsApart(OptTuple), SInv, Parse
    PROVE  SInv'
<1>1. (ParseOption \/ Impl \/ Finish) /\ UNCHANGED svars  BY DEF Parse
<1>2. ParserOK /\ ArgsMatched /\ AllSpelled /\ LoadingNeverExits /\ call.tuple = OptTuple
      BY DEF SInv, ParseOK, IInv
<1>3. /\ ArgsMatched' /\ AllSpelled' /\ LoadingNeverExits'
      /\ call' = call
      BY <1>1, <1>2, ArgsMatchedKept, SpelledKept, LoadingKept, CallUntouched
<1>4. IInv'  BY <1>1, NextIInv DEF Next, SInv, ParseOK
<1>5. ParseOK'  BY <1>2, <1>3, <1>4 DEF ParseOK
<1>6. LoadOK'
  <2>1. SUFFICES ASSUME call'.deserializing, status' # "ok"  PROVE OnlyReached'
        BY DEF LoadOK
  <2>2. call.deserializing /\ status # "ok"  BY <1>1, <1>3, <2>1, RunningSteps
  <2>3. OnlyReached  BY <2>2 DEF SInv, LoadOK
  <2> QED  BY <1>1, <1>2, <2>1, <2>3, OnlyReachedKept DEF svars
<1>7. StoreOK'  BY <1>1 DEF svars, SInv, StoreOK
<1>8. ReaderOK'
  <2>1. UNCHANGED <<phase, format, file, reader>>  BY <1>1 DEF svars
  <2> QED  BY <2>1, ReaderStays DEF SInv, ReaderOK
<1> QED  BY <1>5, <1>6, <1>7, <1>8 DEF SInv

LEMMA SNextSInv ==
    ASSUME SlotsApart(OptTuple), SInv, [SNext]_allvars
    PROVE  SInv'
<1>1. upTo \in 0..Len(OptTuple)  BY DEF SInv, StoreOK
<1>2. CASE SkipOption
  <2>1. upTo + 1 \in 0..Len(OptTuple)  BY <1>2, ToSaveTyped DEF SInv, SkipOption
  <2> QED  BY <1>2, <2>1, MoveKeeps DEF SkipOption
<1>3. CASE CannotOpenToSave  BY <1>1, <1>3, MoveKeeps DEF CannotOpenToSave
<1>4. CASE SaveMistyped  BY <1>1, <1>4, MoveKeeps DEF SaveMistyped, Saving
<1>5. CASE CannotOpenToLoad  BY <1>1, <1>5, MoveKeeps DEF CannotOpenToLoad
<1>6. CASE MalformedJson \/ LoadNothing
      BY <1>1, <1>6, MoveKeeps DEF MalformedJson, LoadNothing
<1>7. CASE EndLoad
  <2>1. phase' \in {"loaded", "load_error", "undefined"}  BY <1>7 DEF EndLoad
  <2> QED  BY <1>1, <1>7, <2>1, MoveKeeps DEF EndLoad
<1>8. CASE UNCHANGED allvars  BY <1>1, <1>8, MoveKeeps DEF allvars, svars
<1> QED  BY <1>2, <1>3, <1>4, <1>5, <1>6, <1>7, <1>8, OpenToSaveKeeps, SaveOptionKeeps,
            EndSaveKeeps, ReadJsonKeeps, ReadOnKeeps, LoadKeeps, ParseKeeps DEF SNext

\* Every step of storing keeps the invariant, when no two options share a slot.
LEMMA SInvHolds ==
    ASSUME SlotsApart(OptTuple)
    PROVE  SSpec => []SInv
<1>1. SInit => SInv  BY SInitSInv
<1>2. SInv /\ [SNext]_allvars => SInv'  BY SNextSInv
<1> QED  BY <1>1, <1>2, PTL DEF SSpec

\* What is saved, read and loaded is what it should be, in every program whose
\* options have slots of their own: the file holds tokens, or symbols of JSON, and
\* never an option too many; what is read out of it is tokens again.
THEOREM StorageIsTyped ==
    ASSUME SlotsApart(OptTuple)
    PROVE  SSpec => []STypeOK
<1>1. SInv => STypeOK  BY ReaderTyped DEF SInv, StoreOK, ReaderOK, STypeOK
<1> QED  BY <1>1, SInvHolds, PTL

\* A load that has not succeeded has changed nothing in the caller's map but the
\* values of options that it had come to (storage.hpp 248, 664, parsing.hpp 1228).
THEOREM FailedLoads ==
    ASSUME SlotsApart(OptTuple)
    PROVE  SSpec => []FailedLoadLeavesTheRest
<1>1. SInv => FailedLoadLeavesTheRest
      BY DEF SInv, LoadOK, OnlyReached, FailedLoadLeavesTheRest
<1> QED  BY <1>1, SInvHolds, PTL

\* A load comes back to its caller, whatever the file holds and whatever was parsed
\* before it (storage.hpp 221-252, 614-667).
THEOREM LoadsReturn ==
    ASSUME SlotsApart(OptTuple)
    PROVE  SSpec => []LoadingNeverExits
<1>1. SInv => LoadingNeverExits  BY DEF SInv, ParseOK
<1> QED  BY <1>1, SInvHolds, PTL

-----------------------------------------------------------------------------
(* Saves that are cut off.                                                    *)

\* Nothing that is put between quotes closes an object: since nothing is escaped,
\* a value may hold a quote and what comes after it.
NoBraces == \A t \in DOMAIN JsonText :
               \A k \in 1..Len(JsonText[t]) : JsonText[t][k].is # "}"

\* The symbols of an object that is open.
Unbraced == {s \in Json!Symbol : s.is # "}"}

\* A file that was not written to its end is an object that nothing closes.
CutOff == format = "json" /\ ~given /\ (upTo < Len(OptTuple) \/ phase = "saving")
CutOffOpen == CutOff => /\ file \in Seq(Unbraced)
                        /\ IF file = << >> THEN phase # "saving" ELSE file[1] = Mark("{")
                        /\ JP!StillOpen

LEMMA ElementIn ==
    ASSUME NEW S, NEW s \in Seq(S), NEW k \in 1..Len(s)
    PROVE  s[k] \in S
OBVIOUS

LEMMA SeqWithin ==
    ASSUME NEW S, NEW s \in Seq(S), NEW T, \A k \in 1..Len(s) : s[k] \in T
    PROVE  s \in Seq(T)
OBVIOUS

LEMMA HasFirst ==
    ASSUME NEW T, NEW s \in Seq(T), s # << >>
    PROVE  Len(s) \in Nat /\ Len(s) >= 1
<1>1. Len(s) \in Nat /\ Len(s) # 0  BY EmptySeq
<1> QED  BY <1>1

LEMMA FirstStays ==
    ASSUME NEW T, NEW s \in Seq(T), s # << >>, NEW more \in Seq(T), NEW all, all = s \o more
    PROVE  all \in Seq(T) /\ all # << >> /\ all[1] = s[1]
<1>1. Len(s) \in Nat /\ Len(s) >= 1 /\ Len(more) \in Nat  BY HasFirst
<1>2. 1 \in 1..Len(s)  BY <1>1
<1>3. all \in Seq(T) /\ Len(all) = Len(s) + Len(more) /\ all[1] = s[1]
      BY <1>1, <1>2, ConcatProperties
<1>4. Len(all) # 0  BY <1>1, <1>3
<1> QED  BY <1>3, <1>4

LEMMA UnbracedInside ==
    ASSUME NoBraces
    PROVE  Inside(Unbraced) /\ Mark("{") \in Unbraced
<1>1. \A k \in {"{", ":", ",", "[", "]"} : Mark(k) \in Unbraced
      BY DEF Mark, Unbraced, Json!Symbol, Json!Structure
<1>2. \A t \in Token : String(t) \in Unbraced
      BY DEF String, Unbraced, Json!Symbol, Json!Scalar
<1>3. ASSUME NEW t \in DOMAIN JsonText  PROVE JsonText[t] \in Seq(Unbraced)
  <2> DEFINE s == JsonText[t]
  <2>1. s \in Seq(Json!Symbol) /\ \A k \in 1..Len(s) : s[k].is # "}"
        BY StorageType DEF NoBraces
  <2> HIDE DEF s
  <2>2. ASSUME NEW k \in 1..Len(s)  PROVE s[k] \in Unbraced
    <3>1. s[k] \in Json!Symbol  BY <2>1, ElementIn
    <3> QED  BY <2>1, <3>1 DEF Unbraced
  <2>3. s \in Seq(Unbraced)  BY <2>1, <2>2, SeqWithin
  <2> QED  BY <2>3 DEF s
<1> QED  BY <1>1, <1>2, <1>3 DEF Inside

\* What saves, moves on or parses, with the reader where it was.
LEMMA CutOffStays ==
    ASSUME CutOffOpen, UNCHANGED <<format, file, given, reader>>,
           CutOff' => CutOff, phase' = "saving" => phase = "saving"
    PROVE  CutOffOpen'
<1>1. JP!StillOpen => JP!StillOpen'  BY DEF reader, JP!StillOpen, JP!Start
<1> QED  BY <1>1 DEF CutOffOpen

\* As long as it is being written an object is open, and it is read as it is.
LEMMA CutOffKept ==
    ASSUME SlotsApart(OptTuple), NoBraces, SInv, CutOffOpen, [SNext]_allvars
    PROVE  CutOffOpen'
<1> USE DEF SInv
<1>1. Len(OptTuple) \in Nat /\ upTo \in 0..Len(OptTuple)  BY TupleType DEF StoreOK
<1>2. CASE OpenToSave
  <2>1. SUFFICES ASSUME CutOff'  PROVE CutOffOpen'  BY DEF CutOffOpen
  <2>2. /\ phase = "parsing" /\ format' = format /\ UNCHANGED reader
        /\ file' = IF format = "json" THEN <<Mark("{")>> ELSE << >>
        BY <1>2 DEF OpenToSave
  <2>3. file' = <<Mark("{")>>  BY <2>1, <2>2 DEF CutOff
  <2>4. file' \in Seq(Unbraced)  BY <2>3, One, UnbracedInside
  <2>5. file' # << >> /\ file'[1] = Mark("{")  BY <2>3
  <2>6. JP!StillOpen'  BY <2>2 DEF ReaderOK, NothingRead, reader, JP!StillOpen, JP!Start
  <2> QED  BY <2>4, <2>5, <2>6 DEF CutOffOpen
<1>3. CASE SaveOption
  <2> DEFINE v == result[Decl[toSave].slot]
  <2>1. SUFFICES ASSUME CutOff'  PROVE CutOffOpen'  BY DEF CutOffOpen
  <2>2. /\ Saving /\ phase = "saving" /\ v.set
        /\ UNCHANGED <<phase, format, given, reader>>
        /\ file' = file \o (IF format = "json"
                            THEN Comma(Len(file)) \o JsonMember(toSave, v)
                            ELSE ResponseLine(toSave, v))
        BY <1>3 DEF SaveOption, Saving, IsHeld
  <2>3. toSave \in Option /\ v \in Value /\ Spelled(toSave, v)
        BY <2>2, ToSaveTyped
  <2> HIDE DEF v
  <2>4. format = "json" /\ CutOff  BY <2>1, <2>2 DEF CutOff
  <2>5. file \in Seq(Unbraced) /\ file # << >> /\ file[1] = Mark("{") /\ JP!StillOpen
        BY <2>2, <2>4 DEF CutOffOpen
  <2> DEFINE more == Comma(Len(file)) \o JsonMember(toSave, v)
  <2>6. more \in Seq(Unbraced)
    <3>1. /\ Comma(Len(file)) \in Seq(Unbraced)
          /\ JsonMember(toSave, v) \in Seq(Unbraced)
          BY <2>2, <2>3, UnbracedInside, CommaTyped, JsonMemberTyped
    <3> QED  BY <3>1, ConcatProperties
  <2>7. file' = file \o more  BY <2>2, <2>4
  <2> HIDE DEF more
  <2>8. file' \in Seq(Unbraced) /\ file' # << >> /\ file'[1] = file[1]
        BY <2>5, <2>6, <2>7, FirstStays
  <2>9. JP!StillOpen'  BY <2>2, <2>5 DEF reader, JP!StillOpen, JP!Start
  <2> QED  BY <2>5, <2>8, <2>9 DEF CutOffOpen
<1>4. CASE ReadOn
  <2>1. SUFFICES ASSUME CutOff'  PROVE CutOffOpen'  BY DEF CutOffOpen
  <2>2. /\ phase = "reading" /\ JP!Next
        /\ UNCHANGED <<phase, format, upTo, given>>
        BY <1>4, ReaderSteps DEF ReadOn
  <2>3. CutOff /\ format = "json"  BY <2>1, <2>2 DEF CutOff
  <2>4. file \in Seq(Unbraced) /\ JP!StillOpen /\ (file # << >> => file[1] = Mark("{"))
        BY <2>3 DEF CutOffOpen
  <2>5. JP!Unclosed
    <3>1. ASSUME NEW k \in 1..Len(file)  PROVE file[k].is # "}"
      <4>1. file[k] \in Unbraced  BY <2>4, ElementIn
      <4> QED  BY <4>1 DEF Unbraced
    <3>2. Mark("{").is = "{"  BY DEF Mark
    <3> QED  BY <2>4, <3>1, <3>2 DEF JP!Unclosed
  <2>6. JP!JInv  BY <2>3 DEF ReaderOK
  <2>7. JP!StillOpen'  BY <2>2, <2>4, <2>5, <2>6, JP!StaysOpen
  <2>8. file' = file
        BY <2>2 DEF JP!Next, JP!ReadSymbol, JP!ReadScalar, JP!OpenArray, JP!OpenObject,
                    JP!ReadKey, JP!ReadColon, JP!ReadComma, JP!CloseArray, JP!CloseObject,
                    JP!Close, JP!Step, JP!Mismatch, JP!Accept
  <2> QED  BY <2>2, <2>4, <2>7, <2>8 DEF CutOffOpen
<1>5. CASE ReadJson
  <2>1. /\ phase' = "reading" /\ NothingRead' /\ UNCHANGED <<format, upTo, file, given>>
        BY <1>5 DEF ReadJson, NothingRead
  <2>2. JP!StillOpen'  BY <2>1 DEF NothingRead, JP!StillOpen, JP!Start
  <2>3. CutOff' => CutOff  BY <2>1 DEF CutOff
  <2> QED  BY <2>1, <2>2, <2>3 DEF CutOffOpen
<1>6. CASE EndSave
  <2>1. phase' = "saved" /\ upTo' = Len(OptTuple)  BY <1>6 DEF EndSave
  <2>2. ~CutOff'  BY <1>1, <2>1 DEF CutOff
  <2> QED  BY <2>2 DEF CutOffOpen
<1>7. CASE \/ SkipOption \/ CannotOpenToSave \/ SaveMistyped \/ CannotOpenToLoad
           \/ MalformedJson \/ LoadNothing \/ Load \/ Parse \/ EndLoad
           \/ UNCHANGED allvars
  <2>1. /\ UNCHANGED <<format, file, given, reader>>
        /\ phase' = "saving" => phase = "saving"
        /\ upTo' = upTo \/ SkipOption
        BY <1>7 DEF SkipOption, CannotOpenToSave, SaveMistyped, CannotOpenToLoad, MalformedJson,
                    LoadNothing, Load, ParseInto, Parse, EndLoad, allvars, svars
  <2>2. CutOff' => CutOff  BY <2>1 DEF CutOff, SkipOption, Saving
  <2> QED  BY <2>1, <2>2, CutOffStays
<1> QED  BY <1>2, <1>3, <1>4, <1>5, <1>6, <1>7 DEF SNext

\* No save that stopped before its last option is ever loaded from JSON, however
\* many options it wrote, as long as no value closes the object (storage.hpp
\* 536-582, 645-650).
THEOREM CutOffNeverLoads ==
    ASSUME SlotsApart(OptTuple), NoBraces
    PROVE  SSpec => [](expects = "accepted" /\ ~given => upTo = Len(OptTuple))
<1>1. SInit => CutOffOpen
  <2>1. SUFFICES ASSUME SInit, CutOff  PROVE CutOffOpen  BY DEF CutOffOpen
  <2>2. phase = "parsing" /\ file = << >> /\ JP!StillOpen
        BY <2>1 DEF SInit, CutOff, JP!StillOpen, JP!Start
  <2> QED  BY <2>2, EmptySeq DEF CutOffOpen
<1>2. SInv /\ CutOffOpen /\ [SNext]_allvars => CutOffOpen'  BY CutOffKept
<1>3. SInv /\ CutOffOpen => (expects = "accepted" /\ ~given => upTo = Len(OptTuple))
  <2>1. SUFFICES ASSUME SInv, CutOffOpen, expects = "accepted", ~given,
                        upTo # Len(OptTuple)
                 PROVE  FALSE
        OBVIOUS
  <2>2. upTo < Len(OptTuple)
    <3>1. Len(OptTuple) \in Nat /\ upTo \in 0..Len(OptTuple)
          BY <2>1, TupleType DEF SInv, StoreOK
    <3> QED  BY <2>1, <3>1
  <2>3. format = "json"  BY <2>1 DEF SInv, ReaderOK, NothingRead
  <2> QED  BY <2>1, <2>2, <2>3 DEF CutOffOpen, CutOff, JP!StillOpen, JP!Start
<1> QED  BY <1>1, <1>2, <1>3, SInvHolds, PTL DEF SSpec

=============================================================================
