------------------------ MODULE OptionResults_proofs ------------------------
(* Theorems about what a parse leaves in its result, for every declaration,   *)
(* tuple, file system and argument list.                                      *)
EXTENDS OptionParser_proofs

-----------------------------------------------------------------------------
(* Slots. *)

\* Every entry of a tuple has a slot of its own, as it has an element of the
\* result tuple; only the options of one group share theirs.  (In a result map
\* two options with one storage name would share an entry.)
SlotsApart(t) ==
    \A d, e \in 1..Len(t) :
        \A i \in 1..Len(t[d].opts), j \in 1..Len(t[e].opts) :
            Decl[t[d].opts[i]].slot = Decl[t[e].opts[j]].slot => d = e

\* The option that the fold is at is one of the call's tuple, and outside of a
\* group it is the one at the fold's index.
LEMMA OptionOfCall ==
    ASSUME ParserOK, AtLeaf
    PROVE  \E e \in 1..Len(call.tuple) : \E j \in 1..Len(call.tuple[e].opts) :
              /\ opt = call.tuple[e].opts[j]
              /\ IF call.tuple[e].exclusive
                 THEN f.tuple = Members(call.tuple[e]) /\ (f.kind = "group" => f.group = e)
                 ELSE f.tuple = call.tuple /\ f.i = e /\ j = 1
<1> USE DEF ParserOK
<1>1. PartOf(f, call.tuple)  BY TopOK DEF FrameOK
<1>2. call.tuple \in Seq(Entry)  BY DEF TypeOK, Call
<1>3. f.i \in 1..Len(f.tuple) /\ ~f.tuple[f.i].exclusive /\ opt = f.tuple[f.i].opts[1]
      BY DEF AtLeaf, opt
<1>4. CASE f.tuple = call.tuple
  <2>1. f.tuple[f.i] \in Entry  BY <1>2, <1>3, <1>4
  <2>2. 1 \in 1..Len(f.tuple[f.i].opts)  BY <2>1 DEF Entry
  <2> QED  BY <1>3, <1>4, <2>2
<1>5. CASE f.tuple # call.tuple
  <2>1. PICK e \in 1..Len(call.tuple) :
           /\ call.tuple[e].exclusive /\ f.tuple = Members(call.tuple[e])
           /\ f.kind = "group" => f.group = e
        BY <1>1, <1>5 DEF PartOf
  <2>2. call.tuple[e] \in Entry  BY <1>2
  <2>3. f.i \in 1..Len(call.tuple[e].opts) /\ f.tuple[f.i] = Leaf(call.tuple[e].opts[f.i])
        BY <1>3, <2>1, <2>2, MembersTyped
  <2>4. opt = call.tuple[e].opts[f.i]  BY <1>3, <2>3 DEF Leaf
  <2> QED  BY <2>1, <2>3, <2>4
<1> QED  BY <1>4, <1>5

\* A leaf of the tuple is the one option of its entry.
LEMMA LeafEntry ==
    ASSUME TypeOK, NEW o \in Leaves(call.tuple)
    PROVE  \E d \in 1..Len(call.tuple) :
              /\ ~call.tuple[d].exclusive /\ 1 \in 1..Len(call.tuple[d].opts)
              /\ o = call.tuple[d].opts[1] /\ o \in Option
<1>1. PICK d \in 1..Len(call.tuple) : ~call.tuple[d].exclusive /\ o = call.tuple[d].opts[1]
      BY DEF Leaves
<1>2. call.tuple[d] \in Entry  BY DEF TypeOK, Call
<1>3. call.tuple[d].opts \in Seq(Option) /\ call.tuple[d].opts # << >>  BY <1>2 DEF Entry
<1>4. 1 \in 1..Len(call.tuple[d].opts) /\ o \in Option  BY <1>1, <1>3
<1> QED  BY <1>1, <1>4

\* The slot of a leaf is no other leaf's.
LEMMA LeavesApart ==
    ASSUME TypeOK, SlotsApart(call.tuple),
           NEW o \in Leaves(call.tuple), NEW p \in Leaves(call.tuple),
           Decl[o].slot = Decl[p].slot
    PROVE  o = p
<1>1. PICK d \in 1..Len(call.tuple) :
         1 \in 1..Len(call.tuple[d].opts) /\ o = call.tuple[d].opts[1]
      BY LeafEntry
<1>2. PICK e \in 1..Len(call.tuple) :
         1 \in 1..Len(call.tuple[e].opts) /\ p = call.tuple[e].opts[1]
      BY LeafEntry
<1>3. d = e  BY <1>1, <1>2 DEF SlotsApart
<1> QED  BY <1>1, <1>2, <1>3

\* When the fold's option has the slot of a leaf, it is that leaf, and the fold
\* goes over the whole tuple.
LEMMA SlotOwner ==
    ASSUME ParserOK, SlotsApart(call.tuple), AtLeaf, NEW d \in 1..Len(call.tuple),
           ~call.tuple[d].exclusive,
           Decl[call.tuple[d].opts[1]].slot = Decl[opt].slot
    PROVE  f.tuple = call.tuple /\ f.i = d /\ opt = call.tuple[d].opts[1]
<1>1. PICK e \in 1..Len(call.tuple) : \E j \in 1..Len(call.tuple[e].opts) :
         /\ opt = call.tuple[e].opts[j]
         /\ ~call.tuple[e].exclusive => f.tuple = call.tuple /\ f.i = e /\ j = 1
      BY OptionOfCall
<1>2. call.tuple[d] \in Entry  BY DEF ParserOK, TypeOK, Call
<1>3. 1 \in 1..Len(call.tuple[d].opts)  BY <1>2 DEF Entry
<1>4. d = e  BY <1>1, <1>3 DEF SlotsApart
<1> QED  BY <1>1, <1>4

\* A step changes no slot, or the one of the option that the fold is at, or it
\* is the last step of a call, which assigns the defaults.
LEMMA ResultStep ==
    ASSUME ParserOK, ParseOption \/ Impl \/ Finish
    PROVE  \/ UNCHANGED result
           \/ /\ AtLeaf /\ opt \in Option
              /\ IsPositional(opt) => Looking
              /\ \E v : result' = [result EXCEPT ![Decl[opt].slot] = v]
           \/ Finish /\ result' = WithDefaults
<1> USE DEF ParserOK
<1>1. CASE CountShort  BY <1>1, LeafOption DEF CountShort, Looking
<1>2. CASE MatchName  BY <1>2, LeafOption DEF MatchName, Named, Looking
<1>3. CASE TakeArgs \/ TooFewArgs \/ InvalidArg
  <2>1. ParsingArgs  BY <1>3 DEF TakeArgs, TooFewArgs, InvalidArg
  <2>2. \E n : Keep(n)
    <3>1. CASE TakeArgs  BY <3>1 DEF TakeArgs
    <3>2. CASE TooFewArgs  BY <3>2 DEF TooFewArgs
    <3>3. CASE InvalidArg
      <4>1. PICK n \in 0..Len(f.src) : Keep(n + 1)  BY <3>3 DEF InvalidArg
      <4> QED  BY <4>1
    <3> QED  BY <1>3, <3>1, <3>2, <3>3
  <2>3. AtLeaf /\ opt \in Option /\ (IsPositional(opt) => Looking)
        BY <2>1, ArgsDueLeaf DEF ParsingArgs
  <2> QED  BY <2>2, <2>3 DEF Keep
<1>4. CASE SkipTakenPositional \/ NoMatch \/ RejectSecondExclusive \/ NoArgsLeft
      BY <1>4 DEF SkipTakenPositional, NoMatch, RejectSecondExclusive, NoArgsLeft, shared
<1>5. CASE Impl
      BY <1>5 DEF Impl, LoopEnds, OpenAtFile, OpenNamedFile, BeginFold, EnterGroup, EndFold,
                  ReturnFromFile, ReturnFromGroup, shared
<1>6. CASE Finish  BY <1>6 DEF Finish
<1> QED  BY <1>1, <1>2, <1>3, <1>4, <1>5, <1>6 DEF ParseOption

\* A step of a parse changes only slots of options of its own tuple.
LEMMA OwnSlots ==
    ASSUME ParserOK, ParseOption \/ Impl \/ Finish,
           NEW s \in Slot, result'[s] # result[s]
    PROVE  \E o \in OptionsIn(call.tuple) : Decl[o].slot = s
<1>1. result \in [Slot -> Value]  BY DEF ParserOK, TypeOK
<1>2. CASE UNCHANGED result  BY <1>2
<1>3. CASE AtLeaf /\ opt \in Option /\ \E v : result' = [result EXCEPT ![Decl[opt].slot] = v]
  <2>1. s = Decl[opt].slot  BY <1>1, <1>3
  <2>2. opt \in OptionsIn(call.tuple)  BY <1>3, OptionOfCall DEF OptionsIn
  <2> QED  BY <2>1, <2>2
<1>4. CASE result' = WithDefaults
  <2> DEFINE given == {o \in Leaves(call.tuple) : /\ Decl[o].slot = s
                                                 /\ Decl[o].default # {} /\ ~Decl[o].required}
  <2>1. result'[s] = result[s] \/ given # {}  BY <1>4 DEF WithDefaults
  <2>2. PICK o \in Leaves(call.tuple) : Decl[o].slot = s  BY <2>1
  <2>3. o \in OptionsIn(call.tuple)  BY LeafEntry DEF OptionsIn, ParserOK
  <2> QED  BY <2>2, <2>3
<1> QED  BY <1>2, <1>3, <1>4, ResultStep

-----------------------------------------------------------------------------
(* Positionals keep their values. *)

\* A step of a parse does not change what is parsed.
LEMMA CallUntouched ==
    ASSUME ParseOption \/ Impl \/ Finish
    PROVE  UNCHANGED call
<1>1. CASE ParseOption
      BY <1>1 DEF ParseOption, SkipTakenPositional, NoMatch, CountShort, RejectSecondExclusive,
                  MatchName, NoArgsLeft, TakeArgs, TooFewArgs, InvalidArg
<1>2. CASE Impl
      BY <1>2 DEF Impl, LoopEnds, OpenAtFile, OpenNamedFile, BeginFold, EnterGroup, EndFold,
                  ReturnFromFile, ReturnFromGroup
<1>3. CASE Finish  BY <1>3 DEF Finish
<1> QED  BY <1>1, <1>2, <1>3

\* A positional that was matched is a leaf of the tuple.
LEMMA TakenLeaf ==
    ASSUME TypeOK, PositionalsInOrder, NEW n \in 1..Len(taken)
    PROVE  /\ taken[n] \in Leaves(call.tuple) /\ taken[n] \in Option
           /\ IsPositional(taken[n])
<1>1. PICK d \in 1..Len(call.tuple) :
         PositionalAt(call.tuple, d) /\ taken[n] = call.tuple[d].opts[1]
      BY DEF PositionalsInOrder
<1>2. taken[n] \in Leaves(call.tuple)  BY <1>1 DEF PositionalAt, Leaves
<1> QED  BY <1>1, <1>2, LeafEntry DEF PositionalAt

\* The positional whose turn it is comes after all that were matched.
LEMMA TurnIsLater ==
    ASSUME IInv, Looking, f.tuple = call.tuple, IsPositional(opt), NEW n \in 1..Len(taken)
    PROVE  Ordinal(call.tuple, f.i) # n
<1> USE DEF IInv, ParserOK
<1>1. f.i \in Nat \ {0} /\ PositionalAt(f.tuple, f.i)
      BY TopOK DEF Looking, AtLeaf, PositionalAt, opt
<1>2. f.pidx + 1 = Ordinal(f.tuple, f.i - 1)  BY <1>1, TopOK DEF FrameOK
<1>3. Ordinal(f.tuple, f.i) = Ordinal(f.tuple, f.i - 1) + 1  BY <1>1, OrdinalStep
<1>4. f.pidx + 1 >= nextPositional  BY DEF Looking
<1>5. n \in Nat /\ n <= nextPositional /\ nextPositional \in Nat /\ f.pidx \in Int
      BY TopOK DEF PositionalsInOrder
<1> QED  BY <1>2, <1>3, <1>4, <1>5

\* No step changes the value of a positional that was matched.
LEMMA TakenStay ==
    ASSUME IInv, SlotsApart(call.tuple), ParseOption \/ Impl \/ Finish,
           NEW n \in 1..Len(taken)
    PROVE  result'[Decl[taken[n]].slot] = result[Decl[taken[n]].slot]
<1> DEFINE s == Decl[taken[n]].slot
<1> USE DEF IInv, ParserOK
<1>1. s \in Slot /\ result \in [Slot -> Value]  BY TakenLeaf, SlotOf DEF TypeOK
<1>2. CASE UNCHANGED result  BY <1>2
<1>3. CASE /\ AtLeaf /\ opt \in Option
           /\ IsPositional(opt) => Looking
           /\ \E v : result' = [result EXCEPT ![Decl[opt].slot] = v]
  <2>1. PICK d \in 1..Len(call.tuple) :
           /\ PositionalAt(call.tuple, d) /\ Ordinal(call.tuple, d) = n
           /\ taken[n] = call.tuple[d].opts[1]
        BY DEF PositionalsInOrder
  <2>2. ASSUME Decl[opt].slot = s  PROVE FALSE
    <3>1. f.tuple = call.tuple /\ f.i = d /\ opt = call.tuple[d].opts[1]
          BY <1>3, <2>1, <2>2, SlotOwner DEF PositionalAt
    <3>2. IsPositional(opt) /\ Looking  BY <1>3, <2>1, <3>1 DEF PositionalAt
    <3> QED  BY <2>1, <3>1, <3>2, TurnIsLater
  <2> QED  BY <1>1, <1>3, <2>2
<1>4. CASE result' = WithDefaults
  <2> DEFINE given == {o \in Leaves(call.tuple) : /\ Decl[o].slot = s
                                                 /\ Decl[o].default # {} /\ ~Decl[o].required}
  <2>1. ASSUME NEW o \in given  PROVE FALSE
    <3>1. o = taken[n]  BY <2>1, TakenLeaf, LeavesApart
    <3>2. WellDeclared(o) /\ IsPositional(o)  BY <3>1, TakenLeaf, Checked
    <3> QED  BY <2>1, <3>2 DEF WellDeclared
  <2>2. given = {}  BY <2>1
  <2> QED  BY <1>1, <1>4, <2>2 DEF WithDefaults
<1> QED  BY <1>2, <1>3, <1>4, ResultStep

\* The parse is of the tuple it was started with.
LEMMA SameTuple == Spec => [](call.tuple = OptTuple)
<1>1. Init => call.tuple = OptTuple  BY DEF Init, Start
<1>2. call.tuple = OptTuple /\ [Next]_vars => (call.tuple = OptTuple)'
      BY CallUntouched DEF Next, Stay, vars
<1> QED  BY <1>1, <1>2, PTL DEF Spec

\* When every entry has its own slot, the values of a positional stay what they
\* were when it was matched, through options, files and defaults
\* (parsing.hpp 724-728, 870-877, 1072-1088).
THEOREM PositionalsStay ==
    ASSUME SlotsApart(OptTuple)
    PROVE  Spec => PositionalsKeepTheirValues
<1>1. ASSUME IInv, call.tuple = OptTuple, [Next]_vars
      PROVE  [\A k \in 1..Len(taken) :
                 result'[Decl[taken[k]].slot] = result[Decl[taken[k]].slot]]_vars
      BY <1>1, TakenStay DEF Next, Stay
<1> QED  BY <1>1, Invariance, SameTuple, PTL DEF Spec, PositionalsKeepTheirValues

-----------------------------------------------------------------------------
(* What is assigned was accepted. *)

\* A value holds nothing but what an option accepts, or its default.
Accepts(o, v) ==
    \A k \in 1..Len(v.val) :
        \/ v.val[k] \in Decl[o].default
        \/ Parses(o, v.val[k]) /\ PassesValidator(o, v.val[k])

\* A positional has the values that it asks for.
HasItsValues(o, v) ==
    Decl[o].required => v.set /\ (Decl[o].insert => Len(v.val) >= MinReps(o))

\* The command line has not been refused.
Parsing == ~call.deserializing /\ status # "exit1"

AllAccepted == \A o \in Leaves(call.tuple) : Accepts(o, result[Decl[o].slot])
TakenHaveValues == \A n \in 1..Len(taken) : HasItsValues(taken[n], result[Decl[taken[n]].slot])
NoneMissing == ~(nextPositional < Cardinality(Positionals(call.tuple)))

\* Together with IInv, what makes a successful parse complete.
Complete == /\ Parsing => AllAccepted /\ TakenHaveValues
            /\ ~call.deserializing /\ status = "ok" => NoneMissing

\* Adding tokens to a list of them.
LEMMA AddTokens ==
    ASSUME NEW s \in Seq(Token), NEW t \in Seq(Token), NEW k \in 1..Len(s \o t)
    PROVE  /\ Len(s \o t) = Len(s) + Len(t)
           /\ \/ k \in 1..Len(s) /\ (s \o t)[k] = s[k]
              \/ k - Len(s) \in 1..Len(t) /\ (s \o t)[k] = t[k - Len(s)]
OBVIOUS

\* Assigning or inserting accepted tokens leaves an accepted value.
LEMMA AssignAccepted ==
    ASSUME NEW o \in Option, NEW v \in Value, NEW vals \in Seq(Token), Accepts(o, v),
           \A k \in 1..Len(vals) : \/ vals[k] \in Decl[o].default
                                   \/ Parses(o, vals[k]) /\ PassesValidator(o, vals[k])
    PROVE  Accepts(o, AssignOrInsert(o, v, vals))
<1>1. CASE vals = << >>  BY <1>1 DEF AssignOrInsert
<1>2. CASE vals # << >> /\ Decl[o].insert
  <2>1. v.val \in Seq(Token)  BY DEF Value
  <2>2. AssignOrInsert(o, v, vals).val = v.val \o vals
        BY <1>2 DEF AssignOrInsert, Value
  <2>3. ASSUME NEW k \in 1..Len(v.val \o vals)
        PROVE  LET t == (v.val \o vals)[k] IN
               t \in Decl[o].default \/ (Parses(o, t) /\ PassesValidator(o, t))
    <3>1. CASE k \in 1..Len(v.val) /\ (v.val \o vals)[k] = v.val[k]
          BY <3>1 DEF Accepts
    <3>2. CASE k - Len(v.val) \in 1..Len(vals) /\ (v.val \o vals)[k] = vals[k - Len(v.val)]
          BY <3>2
    <3> QED  BY <2>1, <3>1, <3>2, AddTokens
  <2> QED  BY <2>2, <2>3 DEF Accepts
<1>3. CASE vals # << >> /\ ~Decl[o].insert
  <2>1. AssignOrInsert(o, v, vals).val = <<vals[Len(vals)]>>
        BY <1>3 DEF AssignOrInsert, Value
  <2>2. Len(vals) \in 1..Len(vals)  BY <1>3
  <2> QED  BY <2>1, <2>2 DEF Accepts
<1> QED  BY <1>1, <1>2, <1>3

\* And one that is set, when there is a token at all.
LEMMA AssignSets ==
    ASSUME NEW o \in Option, NEW v \in Value, NEW vals \in Seq(Token), vals # << >>
    PROVE  LET w == AssignOrInsert(o, v, vals) IN
           w.set /\ (Decl[o].insert => Len(w.val) >= Len(vals))
<1>1. v.val \in Seq(Token)  BY DEF Value
<1>2. Len(v.val \o vals) >= Len(vals)
  <2> DEFINE u == v.val
  <2>1. u \in Seq(Token)  BY <1>1
  <2> HIDE DEF u
  <2>2. Len(u \o vals) >= Len(vals)  BY <2>1
  <2> QED  BY <2>2 DEF u
<1>3. AssignOrInsert(o, v, vals).set  BY DEF AssignOrInsert, Value
<1>4. Decl[o].insert => AssignOrInsert(o, v, vals).val = v.val \o vals
      BY DEF AssignOrInsert, Value
<1> QED  BY <1>2, <1>3, <1>4

\* The tokens that an option takes are accepted.
LEMMA TakenAccepted ==
    ASSUME ParserOK, NEW n \in Nat, CanTake(n)
    PROVE  LET vals == SubSeq(f.src, f.pos, f.pos + n - 1) IN
           /\ vals \in Seq(Token) /\ Len(vals) = n
           /\ \A k \in 1..Len(vals) : Parses(opt, vals[k]) /\ PassesValidator(opt, vals[k])
<1> DEFINE src == f.src
           pos == f.pos
           vals == SubSeq(src, pos, pos + n - 1)
<1>1. src \in Seq(Token) /\ pos \in Nat \ {0} /\ pos + n <= Len(src) + 1
      BY TopOK DEF ParserOK, FrameFields, CanTake
<1>2. \A k \in 0..(n - 1) : /\ Parses(opt, src[pos + k])
                            /\ PassesValidator(opt, src[pos + k])
      BY DEF CanTake, IsValue
<1> HIDE DEF src, pos
<1>3. vals \in Seq(Token) /\ Len(vals) = n /\ \A k \in 1..n : vals[k] = src[pos + (k - 1)]
      BY <1>1
<1> HIDE DEF vals
<1>4. \A k \in 1..n : k - 1 \in 0..(n - 1)  OBVIOUS
<1>5. \A k \in 1..Len(vals) : Parses(opt, vals[k]) /\ PassesValidator(opt, vals[k])
      BY <1>2, <1>3, <1>4
<1> QED  BY <1>3, <1>5 DEF vals, src, pos

\* An action that changes the slot of the fold's option.
LEMMA OneSlotAccepted ==
    ASSUME ParserOK, SlotsApart(call.tuple), AtLeaf, AllAccepted, UNCHANGED call, NEW v,
           result' = [result EXCEPT ![Decl[opt].slot] = v],
           opt \in Leaves(call.tuple) => Accepts(opt, v)
    PROVE  AllAccepted'
<1> USE DEF ParserOK
<1>1. ASSUME NEW o \in Leaves(call.tuple)  PROVE Accepts(o, result'[Decl[o].slot])
  <2>1. result \in [Slot -> Value] /\ Decl[o].slot \in Slot
        BY LeafEntry, SlotOf DEF TypeOK
  <2>2. CASE Decl[o].slot # Decl[opt].slot  BY <2>1, <2>2 DEF AllAccepted
  <2>3. CASE Decl[o].slot = Decl[opt].slot
    <3>1. PICK d \in 1..Len(call.tuple) :
             ~call.tuple[d].exclusive /\ o = call.tuple[d].opts[1]
          BY LeafEntry
    <3>2. o = opt  BY <2>3, <3>1, SlotOwner
    <3> QED  BY <2>1, <2>3, <3>2
  <2> QED  BY <2>2, <2>3
<1> QED  BY <1>1 DEF AllAccepted

\* The tokens that an action keeps.
LEMMA KeepAccepted ==
    ASSUME ParserOK, SlotsApart(call.tuple), AtLeaf, AllAccepted, UNCHANGED call,
           NEW n \in Nat, CanTake(n), Keep(n)
    PROVE  AllAccepted'
<1> DEFINE vals == SubSeq(f.src, f.pos, f.pos + n - 1)
           w == result[Decl[opt].slot]
           v == AssignOrInsert(opt, w, vals)
<1>1. opt \in Option /\ Decl[opt].slot \in Slot /\ w \in Value /\ result \in [Slot -> Value]
      BY LeafOption, SlotOf DEF ParserOK, TypeOK
<1>2. result' = [result EXCEPT ![Decl[opt].slot] = v]  BY <1>1 DEF Keep
<1>3. /\ vals \in Seq(Token)
      /\ \A k \in 1..Len(vals) : Parses(opt, vals[k]) /\ PassesValidator(opt, vals[k])
      BY TakenAccepted
<1> HIDE DEF vals
<1>4. ASSUME opt \in Leaves(call.tuple)  PROVE Accepts(opt, v)
  <2>1. Accepts(opt, w)  BY <1>4 DEF AllAccepted
  <2> QED  BY <1>1, <1>3, <2>1, AssignAccepted
<1> QED  BY <1>2, <1>4, OneSlotAccepted

\* As long as the command line is not refused, what is in the result was
\* accepted: InvalidArg alone assigns a value that was not, and then it exits.
LEMMA AcceptedKept ==
    ASSUME ParserOK, SlotsApart(call.tuple), AllAccepted, ~call.deserializing,
           ParseOption \/ Impl \/ Finish, status' # "exit1"
    PROVE  AllAccepted'
<1> USE DEF ParserOK
<1>1. UNCHANGED call  BY CallUntouched
<1>2. CASE UNCHANGED result  BY <1>1, <1>2 DEF AllAccepted
<1>3. CASE CountShort
  <2> DEFINE w == result[Decl[opt].slot]
             v == [w EXCEPT !.set = TRUE, !.num = Decl[opt].counts[arg]]
  <2>1. AtLeaf /\ opt \in Option /\ w \in Value /\ Decl[opt].slot \in Slot
        BY <1>3, LeafOption, SlotOf DEF CountShort, Looking
  <2>2. result' = [result EXCEPT ![Decl[opt].slot] = v]
        BY <1>3, <2>1 DEF CountShort, TypeOK
  <2>3. v.val = w.val  BY <2>1 DEF Value
  <2>4. opt \in Leaves(call.tuple) => Accepts(opt, v)
        BY <2>3 DEF AllAccepted, Accepts
  <2> QED  BY <1>1, <2>1, <2>2, <2>4, OneSlotAccepted
<1>4. CASE MatchName
  <2> DEFINE w == result[Decl[opt].slot]
             v == IF Decl[opt].kind = "count"
                  THEN [w EXCEPT !.set = TRUE, !.num = 1] ELSE AtName(opt, w)
  <2>1. AtLeaf /\ opt \in Option /\ w \in Value /\ Decl[opt].slot \in Slot
        BY <1>4, LeafOption, SlotOf DEF MatchName, Named, Looking
  <2>2. result' = [result EXCEPT ![Decl[opt].slot] = v]
        BY <1>4, <2>1 DEF MatchName, TypeOK
  <2>3. v.val = w.val \/ v.val = << >>  BY <2>1 DEF Value, AtName
  <2>4. opt \in Leaves(call.tuple) => Accepts(opt, v)
        BY <2>3 DEF AllAccepted, Accepts
  <2> QED  BY <1>1, <2>1, <2>2, <2>4, OneSlotAccepted
<1>5. CASE TakeArgs
  <2>1. AtLeaf  BY <1>5, ArgsDueLeaf DEF TakeArgs, ParsingArgs
  <2>2. PICK n \in 0..Len(f.src) : CanTake(n) /\ Keep(n)  BY <1>5 DEF TakeArgs, RunOf
  <2> QED  BY <1>1, <2>1, <2>2, KeepAccepted
<1>6. CASE TooFewArgs
  <2>1. AtLeaf  BY <1>6, ArgsDueLeaf DEF TooFewArgs, ParsingArgs
  <2>2. PICK n \in 0..Len(f.src) : CanTake(n) /\ Keep(n)  BY <1>6 DEF TooFewArgs, RunOf
  <2> QED  BY <1>1, <2>1, <2>2, KeepAccepted
<1>7. CASE InvalidArg  BY <1>7 DEF InvalidArg, Fail, Exit1
<1>8. CASE SkipTakenPositional \/ NoMatch \/ RejectSecondExclusive \/ NoArgsLeft \/ Impl
  <2>1. UNCHANGED result
        BY <1>8 DEF SkipTakenPositional, NoMatch, RejectSecondExclusive, NoArgsLeft, shared,
                    Impl, LoopEnds, OpenAtFile, OpenNamedFile, BeginFold, EnterGroup, EndFold,
                    ReturnFromFile, ReturnFromGroup
  <2> QED  BY <1>2, <2>1
<1>9. CASE result' = WithDefaults
  <2>1. ASSUME NEW p \in Leaves(call.tuple)  PROVE Accepts(p, result'[Decl[p].slot])
    <3> DEFINE s == Decl[p].slot
               given == {o \in Leaves(call.tuple) : /\ Decl[o].slot = s
                                                   /\ Decl[o].default # {} /\ ~Decl[o].required}
               o == CHOOSE q \in given : TRUE
               t == CHOOSE d \in Decl[o].default : TRUE
    <3>1. p \in Option /\ s \in Slot /\ result[s] \in Value /\ Accepts(p, result[s])
          BY LeafEntry, SlotOf DEF AllAccepted
    <3>2. CASE result[s].set \/ given = {}
      <4>1. result'[s] = result[s]  BY <1>9, <3>1, <3>2 DEF WithDefaults
      <4> QED  BY <3>1, <4>1
    <3>3. CASE ~(result[s].set \/ given = {})
      <4>1. result'[s] = AssignOrInsert(o, result[s], <<t>>)
            BY <1>9, <3>1, <3>3 DEF WithDefaults
      <4>2. o \in given  BY <3>3
      <4>3. o = p  BY <4>2, LeavesApart
      <4>4. t \in Decl[p].default  BY <4>2, <4>3
      <4>5. t \in Token
        <5>1. Decl[p] \in Declaration  BY <3>1, DeclType
        <5> QED  BY <4>4, <5>1 DEF Declaration
      <4> HIDE DEF o, t, given
      <4>6. <<t>> \in Seq(Token) /\ \A k \in 1..Len(<<t>>) : <<t>>[k] = t  BY <4>5
      <4>7. Accepts(p, AssignOrInsert(p, result[s], <<t>>))
            BY <3>1, <4>4, <4>6, AssignAccepted
      <4> QED  BY <4>1, <4>3, <4>7
    <3> QED  BY <3>2, <3>3
  <2> QED  BY <1>1, <2>1 DEF AllAccepted
<1>10. CASE Finish  BY <1>2, <1>9, <1>10 DEF Finish
<1> QED  BY <1>3, <1>4, <1>5, <1>6, <1>7, <1>8, <1>10 DEF ParseOption

-----------------------------------------------------------------------------
(* Every positional that was matched has its values. *)

\* A required positional takes at least one value.
LEMMA PositionalTakesOne ==
    ASSUME NEW o \in Option, IsPositional(o), Decl[o].required
    PROVE  MinReps(o) \in Nat \ {0}
<1>1. Decl[o] \in Declaration /\ WellDeclared(o)  BY DeclType, Checked
<1>2. Decl[o].args \in Int  BY <1>1 DEF Declaration
<1>3. /\ Decl[o].args \notin {0, ZeroOrOne} /\ Decl[o].args >= OneOrMore
      /\ Decl[o].args # ZeroOrMore
      BY <1>1 DEF WellDeclared, MadePositional, IsPositional
<1> QED  BY <1>2, <1>3 DEF MinReps, ZeroOrOne, ZeroOrMore, OneOrMore

\* The positional that TakeArgs matches.
LEMMA TakeArgsFills ==
    ASSUME ParserOK, TakeArgs, IsPositional(opt)
    PROVE  HasItsValues(opt, result'[Decl[opt].slot])
<1> SUFFICES ASSUME Decl[opt].required
             PROVE  LET w == result'[Decl[opt].slot] IN
                    w.set /\ (Decl[opt].insert => Len(w.val) >= MinReps(opt))
    BY DEF HasItsValues
<1> USE DEF ParserOK
<1>1. ParsingArgs /\ opt \in Option  BY ArgsDueLeaf DEF TakeArgs, ParsingArgs
<1>2. PICK n \in 0..Len(f.src) : CanTake(n) /\ Keep(n) /\ n >= MinReps(opt)
      BY DEF TakeArgs, RunOf
<1> DEFINE s == Decl[opt].slot
           vals == SubSeq(f.src, f.pos, f.pos + n - 1)
<1>3. s \in Slot /\ result[s] \in Value /\ result \in [Slot -> Value]
      BY <1>1, SlotOf DEF TypeOK
<1>4. MinReps(opt) \in Nat \ {0} /\ n \in Nat /\ n >= MinReps(opt)
      BY <1>1, <1>2, PositionalTakesOne
<1>5. vals \in Seq(Token) /\ Len(vals) = n  BY <1>2, <1>4, TakenAccepted
<1>6. result'[s] = AssignOrInsert(opt, result[s], vals)
      BY <1>2, <1>3 DEF Keep
<1> HIDE DEF vals, s
<1>7. vals # << >>  BY <1>4, <1>5
<1>8. /\ result'[s].set
      /\ Decl[opt].insert => Len(result'[s].val) >= n
      BY <1>1, <1>3, <1>5, <1>6, <1>7, AssignSets
<1>9. Decl[opt].insert => Len(result'[s].val) >= MinReps(opt)
  <2> SUFFICES ASSUME Decl[opt].insert  PROVE Len(result'[s].val) >= MinReps(opt)
      OBVIOUS
  <2>1. result'[s] \in Value  BY <1>1, <1>3, <1>5, <1>6, AssignTyped
  <2>2. Len(result'[s].val) \in Nat  BY <2>1 DEF Value
  <2> QED  BY <1>4, <1>8, <2>2
<1> QED  BY <1>8, <1>9 DEF s

\* What was matched keeps its values, and what is matched now gets them.
LEMMA TakenValuesKept ==
    ASSUME IInv, SlotsApart(call.tuple), TakenHaveValues, ParseOption \/ Impl \/ Finish
    PROVE  TakenHaveValues'
<1>1. ASSUME NEW n \in 1..Len(taken)
      PROVE  HasItsValues(taken[n], result'[Decl[taken[n]].slot])
      BY TakenStay DEF TakenHaveValues
<1>2. CASE UNCHANGED taken  BY <1>1, <1>2 DEF TakenHaveValues
<1>3. CASE TakeArgs /\ IsPositional(opt)
  <2>1. taken \in Seq(Option) /\ opt \in Option /\ taken' = Append(taken, opt)
        BY <1>3, ArgsDueLeaf DEF TakeArgs, ParsingArgs, IInv, ParserOK, TypeOK
  <2>2. HasItsValues(opt, result'[Decl[opt].slot])  BY <1>3, TakeArgsFills DEF IInv
  <2>3. ASSUME NEW n \in 1..Len(taken')
        PROVE  HasItsValues(taken'[n], result'[Decl[taken'[n]].slot])
    <3>1. CASE n = Len(taken) + 1
      <4>1. taken'[n] = opt  BY <2>1, <3>1
      <4> QED  BY <2>2, <4>1
    <3>2. CASE n # Len(taken) + 1
      <4>1. n \in 1..Len(taken) /\ taken'[n] = taken[n]  BY <2>1, <3>2
      <4> QED  BY <1>1, <4>1
    <3> QED  BY <3>1, <3>2
  <2> QED  BY <2>3 DEF TakenHaveValues
<1>4. CASE TakeArgs /\ ~IsPositional(opt)  BY <1>2, <1>4 DEF TakeArgs
<1>5. CASE ~TakeArgs
  <2>1. UNCHANGED taken
        BY <1>5 DEF ParseOption, SkipTakenPositional, NoMatch, CountShort,
                    RejectSecondExclusive, MatchName, NoArgsLeft, TooFewArgs, InvalidArg,
                    Impl, LoopEnds, OpenAtFile, OpenNamedFile, BeginFold, EnterGroup, EndFold,
                    ReturnFromFile, ReturnFromGroup, Finish, history
  <2> QED  BY <1>2, <2>1
<1> QED  BY <1>3, <1>4, <1>5

\* Steps are taken only by a call that runs or returns.
LEMMA StepsWhenActive ==
    ASSUME ParserOK, ParseOption \/ Impl \/ Finish
    PROVE  status \in {"run", "return"}
<1>1. CASE ParseOption
  <2>1. CASE SkipTakenPositional  BY <2>1 DEF SkipTakenPositional, AtLeaf
  <2>2. CASE NoMatch \/ CountShort  BY <2>2 DEF NoMatch, CountShort, Looking, AtLeaf
  <2>3. CASE RejectSecondExclusive \/ MatchName
        BY <2>3 DEF RejectSecondExclusive, MatchName, Named, Looking, AtLeaf
  <2>4. CASE NoArgsLeft \/ TakeArgs \/ TooFewArgs \/ InvalidArg
    <3>1. ArgsDue  BY <2>4 DEF NoArgsLeft, TakeArgs, TooFewArgs, InvalidArg, ParsingArgs
    <3> QED  BY <3>1 DEF ArgsDue, Looking, AtLeaf
  <2> QED  BY <1>1, <2>1, <2>2, <2>3, <2>4 DEF ParseOption
<1>2. CASE Impl
      BY <1>2 DEF Impl, LoopEnds, OpenAtFile, OpenNamedFile, BeginFold, EnterGroup, EndFold,
                  ReturnFromFile, ReturnFromGroup, AtLoopHead, ArgsDue, Looking, AtLeaf
<1>3. CASE Finish  BY <1>3 DEF Finish
<1> QED  BY <1>1, <1>2, <1>3

\* Every step keeps what makes a success complete.
LEMMA CompleteKept ==
    ASSUME IInv, SlotsApart(call.tuple), Complete, ParseOption \/ Impl \/ Finish
    PROVE  Complete'
<1>1. UNCHANGED call /\ status \in {"run", "return"}
      BY CallUntouched, StepsWhenActive DEF IInv
<1>2. ASSUME Parsing'  PROVE AllAccepted' /\ TakenHaveValues'
  <2>1. ~call.deserializing /\ status' # "exit1"  BY <1>1, <1>2 DEF Parsing
  <2>2. AllAccepted /\ TakenHaveValues  BY <1>1, <2>1 DEF Complete, Parsing
  <2> QED  BY <2>1, <2>2, AcceptedKept, TakenValuesKept DEF IInv
<1>3. ASSUME ~call'.deserializing, status' = "ok"  PROVE NoneMissing'
  <2>1. Finish  BY <1>3, RunningIsNotOk
  <2>2. UNCHANGED nextPositional /\ ~MissingPositional
        BY <1>3, <2>1 DEF Finish, Exit1, shared
  <2>3. ~(nextPositional < Cardinality(Positionals(call.tuple)))
        BY <1>1, <1>3, <2>2 DEF MissingPositional
  <2> QED  BY <1>1, <2>2, <2>3 DEF NoneMissing
<1> QED  BY <1>2, <1>3 DEF Complete

\* Nothing is declared after a remainder, so what is before a required positional
\* is required.
RemainderIsLast(t) == \A k \in 1..(Len(t) - 1) : ~IsRemainder(t[k].opts[1])

\* Positionals at different entries have different ordinals.
LEMMA OrdinalsGrow ==
    ASSUME NEW t, NEW d \in Nat, NEW e \in Nat, d < e, PositionalAt(t, e)
    PROVE  Ordinal(t, d) < Ordinal(t, e)
<1> DEFINE S == {j \in 1..d : PositionalAt(t, j)}
           T == {j \in 1..e : PositionalAt(t, j)}
<1>1. S \subseteq T /\ e \in T /\ e \notin S  OBVIOUS
<1>2. IsFiniteSet(T) /\ Cardinality(S) \in Nat /\ Cardinality(T) \in Nat
      BY OrdinalType DEF Ordinal
<1> HIDE DEF S, T
<1>3. Cardinality(S) <= Cardinality(T) /\ Cardinality(S) # Cardinality(T)
      BY <1>1, <1>2, FS_Subset
<1>4. Cardinality(S) < Cardinality(T)  BY <1>2, <1>3
<1> QED  BY <1>4 DEF Ordinal, S, T

\* The required positionals of a tuple are finitely many.
LEMMA PositionalsFinite ==
    ASSUME NEW t \in Seq(Entry)
    PROVE  IsFiniteSet(Positionals(t))
<1> DEFINE S == {j \in 1..Len(t) : t[j].opts[1] \in Positionals(t)}
           h == [j \in S |-> t[j].opts[1]]
<1>1. IsFiniteSet(S)
  <2>1. IsFiniteSet(1..Len(t))  BY FS_Interval
  <2>2. S \in SUBSET (1..Len(t))  OBVIOUS
  <2> QED  BY <2>1, <2>2, FS_Subset
<1>2. ASSUME NEW o \in Positionals(t)  PROVE \E j \in S : h[j] = o
  <2>1. PICK j \in 1..Len(t) : o = t[j].opts[1]  BY DEF Positionals, Leaves
  <2>2. j \in S  BY <2>1
  <2>3. h[j] = o  BY <2>1, <2>2
  <2> QED  BY <2>2, <2>3
<1>3. h \in Surjection(S, Positionals(t))  BY <1>2 DEF Surjection
<1> QED  BY <1>1, <1>3, FS_Surjection

\* A required positional's ordinal is at most the number of them.
LEMMA OrdinalBound ==
    ASSUME NEW t \in Seq(Entry), SlotsApart(t), RemainderIsLast(t), NEW e \in 1..Len(t),
           PositionalAt(t, e), Decl[t[e].opts[1]].required
    PROVE  Ordinal(t, e) <= Cardinality(Positionals(t))
<1> DEFINE S == {j \in 1..e : PositionalAt(t, j)}
           h == [j \in S |-> t[j].opts[1]]
<1>1. ASSUME NEW j \in S  PROVE t[j].opts[1] \in Positionals(t)
  <2>1. j \in 1..Len(t) /\ ~t[j].exclusive /\ IsPositional(t[j].opts[1])
        BY DEF PositionalAt
  <2>2. Decl[t[j].opts[1]].required
    <3>1. CASE j = e  BY <3>1
    <3>2. CASE j # e
      <4>1. j \in 1..(Len(t) - 1)  BY <3>2
      <4> QED  BY <4>1, <2>1 DEF RemainderIsLast, IsRemainder
    <3> QED  BY <3>1, <3>2
  <2> QED  BY <2>1, <2>2 DEF Positionals, Leaves
<1>2. ASSUME NEW i \in S, NEW j \in S, t[i].opts[1] = t[j].opts[1]  PROVE i = j
  <2>1. i \in 1..Len(t) /\ j \in 1..Len(t)  OBVIOUS
  <2> HIDE DEF S
  <2>2. t[i] \in Entry /\ t[j] \in Entry  BY <2>1
  <2>3. 1 \in 1..Len(t[i].opts) /\ 1 \in 1..Len(t[j].opts)  BY <2>2 DEF Entry
  <2> QED  BY <1>2, <2>1, <2>3 DEF SlotsApart
<1>3. IsFiniteSet(S) /\ Cardinality(S) \in Nat
  <2>1. e \in Nat  OBVIOUS
  <2> QED  BY <2>1, OrdinalType DEF Ordinal
<1>4. IsFiniteSet(Positionals(t)) /\ Cardinality(Positionals(t)) \in Nat
      BY PositionalsFinite, FS_CardinalityType
<1>5. h \in [S -> Positionals(t)] /\ \A i, j \in S : h[i] = h[j] => i = j
      BY <1>1, <1>2
<1> HIDE DEF S, h
<1>6. ~(Cardinality(Positionals(t)) < Cardinality(S))
      BY <1>3, <1>4, <1>5, FS_PigeonHole
<1>7. Cardinality(S) <= Cardinality(Positionals(t))  BY <1>3, <1>4, <1>6
<1> QED  BY <1>7 DEF Ordinal, S

\* When no positional is missing, every required one was matched.
LEMMA RequiredWasTaken ==
    ASSUME IInv, SlotsApart(call.tuple), RemainderIsLast(call.tuple), NoneMissing,
           NEW o \in Positionals(call.tuple)
    PROVE  \E n \in 1..Len(taken) : taken[n] = o
<1> DEFINE t == call.tuple
<1>1. t \in Seq(Entry) /\ nextPositional \in Nat /\ Len(taken) = nextPositional
      BY DEF IInv, ParserOK, TypeOK, Call, PositionalsInOrder
<1>2. PICK e \in 1..Len(t) : PositionalAt(t, e) /\ o = t[e].opts[1] /\ Decl[o].required
      BY DEF Positionals, Leaves, PositionalAt
<1> DEFINE n == Ordinal(t, e)
<1>0. e \in Nat /\ n \in Nat
  <2>1. Len(t) \in Nat  BY <1>1
  <2>2. e \in Nat  BY <2>1
  <2> QED  BY <2>2, OrdinalType
<1>3. n \in 1..Len(taken)
  <2>1. n <= Cardinality(Positionals(t))  BY <1>1, <1>2, OrdinalBound
  <2>2. Cardinality(Positionals(t)) \in Nat
        BY <1>1, PositionalsFinite, FS_CardinalityType
  <2>3. n \in Nat /\ n > 0
    <3>1. Ordinal(t, 0) < Ordinal(t, e)  BY <1>0, <1>2, OrdinalsGrow
    <3> QED  BY <1>0, <3>1, OrdinalZero
  <2>4. Cardinality(Positionals(t)) <= nextPositional  BY <1>1, <2>2 DEF NoneMissing
  <2> HIDE DEF n
  <2> QED  BY <1>1, <2>1, <2>2, <2>3, <2>4
<1>4. PICK d \in 1..Len(t) :
         PositionalAt(t, d) /\ Ordinal(t, d) = n /\ taken[n] = t[d].opts[1]
      BY <1>3 DEF IInv, PositionalsInOrder
<1>5. d = e
  <2>1. d \in Nat  BY <1>1
  <2>2. ~(d < e)
    <3>1. d < e => Ordinal(t, d) < Ordinal(t, e)  BY <1>0, <1>2, <2>1, OrdinalsGrow
    <3> QED  BY <1>0, <1>4, <3>1
  <2>3. ~(e < d)
    <3>1. e < d => Ordinal(t, e) < Ordinal(t, d)  BY <1>0, <1>4, <2>1, OrdinalsGrow
    <3> QED  BY <1>0, <1>4, <3>1
  <2> QED  BY <1>0, <2>1, <2>2, <2>3
<1> QED  BY <1>2, <1>3, <1>4, <1>5

\* A parse that succeeds is complete.
LEMMA CompleteSuccess ==
    ASSUME IInv, SlotsApart(call.tuple), RemainderIsLast(call.tuple), Complete
    PROVE  SuccessIsComplete
<1> SUFFICES ASSUME status = "ok", ~call.deserializing, NEW o \in Leaves(call.tuple)
             PROVE  LET v == result[Decl[o].slot] IN
                    /\ IsPositional(o) /\ Decl[o].required =>
                          v.set /\ (Decl[o].insert => Len(v.val) >= MinReps(o))
                    /\ Accepts(o, v)
    BY DEF SuccessIsComplete, Accepts
<1>1. AllAccepted /\ TakenHaveValues /\ NoneMissing  BY DEF Complete, Parsing
<1>2. Accepts(o, result[Decl[o].slot])  BY <1>1 DEF AllAccepted
<1>3. ASSUME IsPositional(o), Decl[o].required
      PROVE  HasItsValues(o, result[Decl[o].slot])
  <2>1. o \in Positionals(call.tuple)  BY <1>3 DEF Positionals
  <2>2. PICK n \in 1..Len(taken) : taken[n] = o  BY <1>1, <2>1, RequiredWasTaken
  <2> QED  BY <1>1, <2>2 DEF TakenHaveValues
<1> QED  BY <1>2, <1>3 DEF HasItsValues

\* When every entry has its own slot, a command line that is parsed without an
\* error has every required positional, with all the values it asks for, and no
\* value that its option's type, choices or validator refuses
\* (parsing.hpp 531-760, 1063-1088).
THEOREM SuccessMeansComplete ==
    ASSUME SlotsApart(OptTuple)
    PROVE  Spec => []SuccessIsComplete
<1>1. Init => Complete
  <2> SUFFICES ASSUME Init  PROVE Complete  OBVIOUS
  <2>1. result = [s \in Slot |-> Unset] /\ taken = << >> /\ status = "run"
        BY DEF Init, Start
  <2>2. TypeOK  BY InitIInv DEF IInv, ParserOK
  <2>3. AllAccepted
    <3>1. ASSUME NEW o \in Leaves(call.tuple)  PROVE result[Decl[o].slot] = Unset
          BY <2>1, <2>2, LeafEntry, SlotOf
    <3>2. 1..Len(Unset.val) = {}  BY DEF Unset
    <3> QED  BY <3>1, <3>2 DEF AllAccepted, Accepts
  <2>4. TakenHaveValues  BY <2>1 DEF TakenHaveValues
  <2> QED  BY <2>1, <2>3, <2>4 DEF Complete
<1>2. IInv /\ call.tuple = OptTuple /\ Complete /\ [Next]_vars => Complete'
  <2> SUFFICES ASSUME IInv, call.tuple = OptTuple, Complete, [Next]_vars
               PROVE  Complete'
      OBVIOUS
  <2>1. CASE ParseOption \/ Impl \/ Finish  BY <2>1, CompleteKept
  <2>2. CASE UNCHANGED vars
        BY <2>2 DEF vars, Complete, Parsing, AllAccepted, TakenHaveValues, NoneMissing
  <2> QED  BY <2>1, <2>2 DEF Next, Stay
<1>3. IInv /\ call.tuple = OptTuple /\ Complete => SuccessIsComplete
      BY CompleteSuccess, RemainderLast DEF RemainderIsLast
<1> QED  BY <1>1, <1>2, <1>3, Invariance, SameTuple, PTL DEF Spec

-----------------------------------------------------------------------------
(* Exclusive groups. *)

\* The options of an entry.
GroupOf(t, e) == {t[e].opts[j] : j \in 1..Len(t[e].opts)}

\* Where the check of exclusives_seen is not bypassed: no response file can be
\* read, whose call has exclusives_group = -1, and no group has a counted flag,
\* whose short form returns before the check.
Guarded(t) ==
    /\ DOMAIN AtFile = {} /\ \A o \in Option : Decl[o].kind # "response_file"
    /\ \A e \in 1..Len(t) : t[e].exclusive =>
          \A o \in GroupOf(t, e) : Decl[o].kind # "count"

\* Without files, only a group's call goes over less than the whole tuple, and
\* so has the number of its group; a group with a matched option is in
\* exclusives_seen; and it has one matched option.
GroupCalls == \A k \in 1..Len(frames) :
                 frames[k].kind # "group" => frames[k].kind = "top" /\ frames[k].tuple = call.tuple
GroupsSeen == \A e \in 1..Len(call.tuple) : call.tuple[e].exclusive =>
                 \A i \in 1..Len(matched) : matched[i] \in GroupOf(call.tuple, e) => e \in seen
AtMostOneOfGroup == \A e \in 1..Len(call.tuple) : call.tuple[e].exclusive =>
                 \A i, j \in 1..Len(matched) :
                     matched[i] \in GroupOf(call.tuple, e) /\ matched[j] \in GroupOf(call.tuple, e) => i = j
OneEach == GroupCalls /\ GroupsSeen /\ AtMostOneOfGroup

\* Matching one more option, when it is the first of its group.
LEMMA OneMoreMatched ==
    ASSUME TypeOK, GroupsSeen, AtMostOneOfGroup, UNCHANGED call, NEW o \in Option,
           matched' = Append(matched, o), seen \subseteq seen',
           \A e \in 1..Len(call.tuple) :
              call.tuple[e].exclusive /\ o \in GroupOf(call.tuple, e) => e \notin seen /\ e \in seen'
    PROVE  GroupsSeen' /\ AtMostOneOfGroup'
<1> DEFINE n == Len(matched)
<1>1. matched \in Seq(Option) /\ n \in Nat /\ Len(matched') = n + 1 /\ matched'[n + 1] = o
      BY DEF TypeOK
<1>2. \A i \in 1..(n + 1) : i # n + 1 => i \in 1..n /\ matched'[i] = matched[i]
      BY <1>1
<1> HIDE DEF n
<1>3. ASSUME NEW e \in 1..Len(call.tuple), call.tuple[e].exclusive,
             NEW i \in 1..(n + 1), matched'[i] \in GroupOf(call.tuple, e)
      PROVE  e \in seen' /\ (i # n + 1 => e \in seen)
  <2>1. CASE i = n + 1  BY <1>1, <1>3, <2>1
  <2>2. CASE i # n + 1  BY <1>2, <1>3, <2>2 DEF GroupsSeen, n
  <2> QED  BY <2>1, <2>2
<1>4. ASSUME NEW e \in 1..Len(call.tuple), call.tuple[e].exclusive,
             NEW i \in 1..(n + 1), matched'[i] \in GroupOf(call.tuple, e),
             NEW j \in 1..(n + 1), matched'[j] \in GroupOf(call.tuple, e)
      PROVE  i = j
  <2>1. CASE i # n + 1 /\ j # n + 1
    <3>1. i \in 1..n /\ matched[i] \in GroupOf(call.tuple, e)  BY <1>2, <1>4, <2>1
    <3>2. j \in 1..n /\ matched[j] \in GroupOf(call.tuple, e)  BY <1>2, <1>4, <2>1
    <3> QED  BY <1>4, <3>1, <3>2 DEF AtMostOneOfGroup, n
  <2>2. CASE i = n + 1 /\ j # n + 1  BY <1>1, <1>3, <1>4, <2>2
  <2>3. CASE i # n + 1 /\ j = n + 1  BY <1>1, <1>3, <1>4, <2>3
  <2> QED  BY <2>1, <2>2, <2>3
<1>5. GroupsSeen'  BY <1>1, <1>3 DEF GroupsSeen
<1>6. AtMostOneOfGroup'  BY <1>1, <1>4 DEF AtMostOneOfGroup
<1> QED  BY <1>5, <1>6

\* The group that the fold's option is in, if it is in one, is that of the call.
LEMMA GroupOfOption ==
    ASSUME ParserOK, SlotsApart(call.tuple), GroupCalls, AtLeaf,
           NEW e \in 1..Len(call.tuple), call.tuple[e].exclusive, opt \in GroupOf(call.tuple, e)
    PROVE  f.group = e
<1>1. PICK d \in 1..Len(call.tuple) : \E j \in 1..Len(call.tuple[d].opts) :
         /\ opt = call.tuple[d].opts[j]
         /\ IF call.tuple[d].exclusive
            THEN f.tuple = Members(call.tuple[d]) /\ (f.kind = "group" => f.group = d)
            ELSE f.tuple = call.tuple /\ f.i = d /\ j = 1
      BY OptionOfCall
<1>2. d = e
  <2>1. PICK i \in 1..Len(call.tuple[e].opts) : opt = call.tuple[e].opts[i]  BY DEF GroupOf
  <2>2. PICK j \in 1..Len(call.tuple[d].opts) : opt = call.tuple[d].opts[j]  BY <1>1
  <2>3. Decl[call.tuple[d].opts[j]].slot = Decl[call.tuple[e].opts[i]].slot  BY <2>1, <2>2
  <2> QED  BY <2>3 DEF SlotsApart
<1>3. f.kind = "group"
  <2> SUFFICES ASSUME f.kind # "group"  PROVE FALSE  OBVIOUS
  <2>1. f.tuple = call.tuple  BY TopFrame DEF GroupCalls, ParserOK, f
  <2>2. f.i \in 1..Len(f.tuple) /\ ~f.tuple[f.i].exclusive
        BY DEF AtLeaf
  <2>3. opt = call.tuple[f.i].opts[1]  BY <2>1 DEF opt
  <2>4. call.tuple[f.i] \in Entry  BY <2>1, <2>2 DEF ParserOK, TypeOK, Call
  <2>5. 1 \in 1..Len(call.tuple[f.i].opts)  BY <2>4 DEF Entry
  <2>6. PICK i \in 1..Len(call.tuple[e].opts) : opt = call.tuple[e].opts[i]  BY DEF GroupOf
  <2>7. Decl[call.tuple[f.i].opts[1]].slot = Decl[call.tuple[e].opts[i]].slot
        BY <2>3, <2>6
  <2>8. f.i = e  BY <2>1, <2>2, <2>5, <2>7 DEF SlotsApart
  <2> QED  BY <2>1, <2>2, <2>8
<1> QED  BY <1>1, <1>2, <1>3

\* The calls stay as they are when the innermost frame moves within its tuple.
LEMMA GroupCallsMoved ==
    ASSUME TypeOK, GroupCalls, UNCHANGED call, NEW g,
           \/ SetTop(g) /\ g.kind = f.kind /\ g.tuple = f.tuple
           \/ /\ Pop(g) /\ g.kind = caller.kind /\ g.tuple = caller.tuple
              /\ Len(frames) - 1 \in 1..Len(frames)
    PROVE  GroupCalls'
<1> DEFINE L == Len(frames)
<1>1. frames \in Seq(Frame) /\ L \in Nat /\ L >= 1 /\ f = frames[L] /\ caller = frames[L - 1]
      BY DEF TypeOK, f, caller
<1>2. CASE SetTop(g) /\ g.kind = f.kind /\ g.tuple = f.tuple
  <2>1. Len(frames') = L /\ \A k \in 1..L : frames'[k] = IF k = L THEN g ELSE frames[k]
        BY <1>1, <1>2 DEF SetTop
  <2> QED  BY <1>1, <1>2, <2>1 DEF GroupCalls
<1>3. CASE /\ Pop(g) /\ g.kind = caller.kind /\ g.tuple = caller.tuple
           /\ Len(frames) - 1 \in 1..Len(frames)
  <2>1. frames' = [k \in 1..(L - 1) |-> IF k = L - 1 THEN g ELSE frames[k]]  BY <1>3 DEF Pop
  <2>2. L - 1 \in Nat /\ L - 1 \in 1..L  BY <1>1, <1>3
  <2>3. Len(frames') = L - 1  BY <2>1, <2>2
  <2>4. \A k \in 1..(L - 1) : frames'[k] = IF k = L - 1 THEN g ELSE frames[k]
        BY <2>1, Zenon
  <2> QED  BY <1>1, <1>3, <2>2, <2>3, <2>4 DEF GroupCalls
<1> QED  BY <1>2, <1>3

\* The fold's next entry is one of the same call.
LEMMA AdvanceGroupCalls ==
    ASSUME TypeOK, GroupCalls, UNCHANGED call, NEW p, Advance(p)
    PROVE  GroupCalls'
<1>1. f \in FrameFields  BY TopFrame DEF Frame
<1>2. PastEntry(p).kind = f.kind /\ PastEntry(p).tuple = f.tuple
      BY <1>1 DEF PastEntry, FrameFields
<1> QED  BY <1>2, GroupCallsMoved DEF Advance

\* Without files, every call but the outermost is a group's.
LEMMA GroupCallsKept ==
    ASSUME ParserOK, Guarded(call.tuple), GroupCalls, ParseOption \/ Impl \/ Finish
    PROVE  GroupCalls'
<1> USE DEF ParserOK
<1>1. UNCHANGED call  BY CallUntouched
<1>2. CASE UNCHANGED frames  BY <1>1, <1>2 DEF GroupCalls
<1>3. CASE \E p : Advance(p)  BY <1>1, <1>3, AdvanceGroupCalls
<1>4. CASE \E g : SetTop(g) /\ g.kind = f.kind /\ g.tuple = f.tuple
      BY <1>1, <1>4, GroupCallsMoved
<1>5. f \in FrameFields  BY TopFrame DEF Frame
<1>6. CASE SkipTakenPositional \/ NoMatch \/ CountShort \/ NoArgsLeft \/ TakeArgs
  <2>1. UNCHANGED frames \/ \E p : Advance(p)
    <3>1. CASE SkipTakenPositional  BY <3>1 DEF SkipTakenPositional
    <3>2. CASE NoMatch  BY <3>2 DEF NoMatch
    <3>3. CASE CountShort  BY <3>3 DEF CountShort
    <3>4. CASE NoArgsLeft  BY <3>4 DEF NoArgsLeft
    <3>5. CASE TakeArgs  BY <3>5 DEF TakeArgs
    <3> QED  BY <1>6, <3>1, <3>2, <3>3, <3>4, <3>5
  <2> QED  BY <1>2, <1>3, <2>1
<1>7. CASE RejectSecondExclusive \/ LoopEnds \/ Finish
      BY <1>2, <1>7 DEF RejectSecondExclusive, LoopEnds, Finish
<1>8. CASE MatchName
  <2>1. \/ Advance(f.pos + 1)
        \/ SetTop([f EXCEPT !.pos = @ + 1])
        \/ SetTop([f EXCEPT !.pos = @ + 1, !.stage = "args"])
        BY <1>8 DEF MatchName
  <2>2. [f EXCEPT !.pos = @ + 1].kind = f.kind /\ [f EXCEPT !.pos = @ + 1].tuple = f.tuple
        BY <1>5 DEF FrameFields
  <2>3. /\ [f EXCEPT !.pos = @ + 1, !.stage = "args"].kind = f.kind
        /\ [f EXCEPT !.pos = @ + 1, !.stage = "args"].tuple = f.tuple
        BY <1>5 DEF FrameFields
  <2> QED  BY <1>3, <1>4, <2>1, <2>2, <2>3
<1>9. CASE TooFewArgs \/ InvalidArg
  <2>1. PICK n : SetTop([f EXCEPT !.pos = @ + n])
    <3>1. CASE TooFewArgs  BY <3>1 DEF TooFewArgs, StopAt
    <3>2. CASE InvalidArg  BY <3>2 DEF InvalidArg, StopAt
    <3> QED  BY <1>9, <3>1, <3>2
  <2>2. [f EXCEPT !.pos = @ + n].kind = f.kind /\ [f EXCEPT !.pos = @ + n].tuple = f.tuple
        BY <1>5 DEF FrameFields
  <2> QED  BY <1>4, <2>1, <2>2
<1>10. CASE BeginFold
  <2> DEFINE g == [f EXCEPT !.i = 1, !.initial = f.pos, !.pidx = -1]
  <2>1. SetTop(g)  BY <1>10 DEF BeginFold
  <2>2. g.kind = f.kind /\ g.tuple = f.tuple  BY <1>5 DEF FrameFields
  <2> QED  BY <1>4, <2>1, <2>2
<1>11. CASE EndFold
  <2>1. UNCHANGED frames \/ SetTop([f EXCEPT !.i = 0])  BY <1>11 DEF EndFold
  <2>2. [f EXCEPT !.i = 0].kind = f.kind /\ [f EXCEPT !.i = 0].tuple = f.tuple
        BY <1>5 DEF FrameFields
  <2> QED  BY <1>2, <1>4, <2>1, <2>2
<1>12. CASE OpenAtFile \/ OpenNamedFile
  <2>1. CASE OpenAtFile  BY <2>1 DEF OpenAtFile, Guarded
  <2>2. CASE OpenNamedFile
    <3>1. opt \in Option /\ Decl[opt].kind = "response_file"
          BY <2>2, ArgsDueLeaf DEF OpenNamedFile
    <3> QED  BY <3>1 DEF Guarded
  <2> QED  BY <1>12, <2>1, <2>2
<1>13. CASE ReturnFromFile
  <2>1. f.kind = "file"  BY <1>13 DEF ReturnFromFile
  <2> QED  BY <2>1, TopFrame DEF GroupCalls, f
<1>14. CASE EnterGroup
  <2>1. PICK t : frames' = Append(frames, NewFrame("group", f.stream, f.src, f.pos, t, f.i))
        BY <1>14 DEF EnterGroup
  <2> DEFINE g == NewFrame("group", f.stream, f.src, f.pos, t, f.i)
  <2>2. g.kind = "group"  BY DEF NewFrame
  <2> HIDE DEF g
  <2>3. frames \in Seq(Frame) /\ frames' = Append(frames, g)  BY <2>1 DEF TypeOK, g
  <2>4. \A k \in 1..Len(frames') :
           (k \in 1..Len(frames) /\ frames'[k] = frames[k]) \/ frames'[k] = g
        BY <2>3
  <2> QED  BY <1>1, <2>2, <2>4 DEF GroupCalls
<1>15. CASE ReturnFromGroup
  <2> DEFINE g == [caller EXCEPT !.pos = f.pos, !.i = @ + 1]
  <2>1. f.kind # "top" /\ Pop(g)  BY <1>15 DEF ReturnFromGroup
  <2>2. Len(frames) - 1 \in 1..Len(frames) /\ caller \in FrameFields
        BY <2>1, CallerFrame DEF Frame
  <2>3. g.kind = caller.kind /\ g.tuple = caller.tuple  BY <2>2 DEF FrameFields
  <2> HIDE DEF g
  <2> QED  BY <1>1, <2>1, <2>2, <2>3, GroupCallsMoved
<1> QED  BY <1>6, <1>7, <1>8, <1>9, <1>10, <1>11, <1>12, <1>13, <1>14, <1>15
         DEF ParseOption, Impl

\* The check of exclusives_seen lets one option of each group through.
LEMMA OneEachKept ==
    ASSUME ParserOK, SlotsApart(call.tuple), Guarded(call.tuple), OneEach,
           ParseOption \/ Impl \/ Finish
    PROVE  OneEach'
<1> USE DEF ParserOK
<1>1. UNCHANGED call  BY CallUntouched
<1>2. GroupCalls'  BY GroupCallsKept DEF OneEach
<1>3. CASE UNCHANGED <<matched, seen>>
      BY <1>1, <1>2, <1>3 DEF OneEach, GroupsSeen, AtMostOneOfGroup
<1>4. CASE CountShort
  <2>1. AtLeaf /\ opt \in Option /\ Decl[opt].kind = "count"
        BY <1>4, LeafOption DEF CountShort, Looking, IsCounted
  <2>2. \A e \in 1..Len(call.tuple) :
           ~(call.tuple[e].exclusive /\ opt \in GroupOf(call.tuple, e))
        BY <2>1 DEF Guarded
  <2>3. matched' = Append(matched, opt) /\ seen' = seen  BY <1>4 DEF CountShort
  <2> QED  BY <1>1, <1>2, <2>1, <2>2, <2>3, OneMoreMatched DEF OneEach
<1>5. CASE MatchName
  <2>1. AtLeaf /\ opt \in Option
        BY <1>5, LeafOption DEF MatchName, Named, Looking
  <2>2. /\ matched' = Append(matched, opt) /\ f.group \notin seen
        /\ seen' = IF f.group = 0 THEN seen ELSE seen \cup {f.group}
        BY <1>5 DEF MatchName
  <2>3. ASSUME NEW e \in 1..Len(call.tuple), call.tuple[e].exclusive,
               opt \in GroupOf(call.tuple, e)
        PROVE  e \notin seen /\ e \in seen'
    <3>1. f.group = e  BY <2>1, <2>3, GroupOfOption DEF OneEach
    <3> QED  BY <2>2, <3>1
  <2> QED  BY <1>1, <1>2, <2>1, <2>2, <2>3, OneMoreMatched DEF OneEach
<1>6. CASE ~CountShort /\ ~MatchName
  <2>1. UNCHANGED <<matched, seen>>
        BY <1>6 DEF ParseOption, SkipTakenPositional, NoMatch, RejectSecondExclusive,
                    NoArgsLeft, TakeArgs, TooFewArgs, InvalidArg, shared, history,
                    Impl, LoopEnds, OpenAtFile, OpenNamedFile, BeginFold, EnterGroup, EndFold,
                    ReturnFromFile, ReturnFromGroup, Finish
  <2> QED  BY <1>3, <2>1
<1> QED  BY <1>4, <1>5, <1>6

\* Without response files, and without a counted flag in a group, "at most one
\* of the given options is accepted during parsing" (option_groups.hpp 110,
\* parsing.hpp 584-592): whatever is on the command line, no group has two
\* options matched, nor one twice.
THEOREM ExclusivesAreExclusive ==
    ASSUME SlotsApart(OptTuple), Guarded(OptTuple)
    PROVE  Spec => []AtMostOneExclusive
<1>1. Init => OneEach
  <2> SUFFICES ASSUME Init  PROVE OneEach  OBVIOUS
  <2>1. matched = << >> /\ call.tuple = OptTuple  BY DEF Init, Start
  <2>2. PICK b, args : frames = <<NewFrame("top", b, args, 1, OptTuple, 0)>>
        BY DEF Init, Start
  <2>3. Len(frames) = 1 /\ frames[1].kind = "top" /\ frames[1].tuple = call.tuple
        BY <2>1, <2>2 DEF NewFrame
  <2>4. GroupCalls  BY <2>3 DEF GroupCalls
  <2> QED  BY <2>1, <2>4 DEF OneEach, GroupsSeen, AtMostOneOfGroup
<1>2. IInv /\ call.tuple = OptTuple /\ OneEach /\ [Next]_vars => OneEach'
  <2> SUFFICES ASSUME IInv, call.tuple = OptTuple, OneEach, [Next]_vars
               PROVE  OneEach'
      OBVIOUS
  <2>1. CASE ParseOption \/ Impl \/ Finish  BY <2>1, OneEachKept DEF IInv
  <2>2. CASE UNCHANGED vars
        BY <2>2 DEF vars, OneEach, GroupCalls, GroupsSeen, AtMostOneOfGroup
  <2> QED  BY <2>1, <2>2 DEF Next, Stay
<1>3. OneEach => AtMostOneExclusive
      BY DEF OneEach, AtMostOneOfGroup, AtMostOneExclusive, GroupOf
<1> QED  BY <1>1, <1>2, <1>3, Invariance, SameTuple, PTL DEF Spec

=============================================================================
