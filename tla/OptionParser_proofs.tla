------------------------ MODULE OptionParser_proofs ------------------------
(* Theorems about OptionParser, for every declaration, tuple, file system     *)
(* and argument list.                                                         *)
EXTENDS OptionParser, FiniteSetTheorems, TLAPS

-----------------------------------------------------------------------------
(* Lemmas about the data. *)

\* The innermost frame is a frame.
LEMMA TopFrame ==
    ASSUME TypeOK
    PROVE  f \in Frame /\ Len(frames) \in Nat /\ Len(frames) >= 1
BY DEF TypeOK, f

\* And so is the outermost.
LEMMA FirstFrame ==
    ASSUME TypeOK
    PROVE  /\ frames[1] \in FrameFields
           /\ frames[1].pos \in Nat \ {0} /\ frames[1].src \in Seq(Token)
<1>1. frames \in Seq(Frame) /\ Len(frames) \in Nat \ {0}  BY DEF TypeOK
<1>2. frames[1] \in Frame  BY <1>1
<1> QED  BY <1>2 DEF Frame, FrameFields

\* Replacing the innermost frame by a good one.
LEMMA SetTopTyped ==
    ASSUME TypeOK, NEW g \in Frame, SetTop(g)
    PROVE  frames' \in Seq(Frame) /\ frames' # << >>
BY DEF TypeOK, SetTop

\* Pushing one.
LEMMA PushTyped ==
    ASSUME TypeOK, NEW g \in Frame, frames' = Append(frames, g)
    PROVE  frames' \in Seq(Frame) /\ frames' # << >>
BY DEF TypeOK

\* The option a leaf entry stands for, and its declaration.
LEMMA LeafOption ==
    ASSUME TypeOK, AtLeaf
    PROVE  /\ opt \in Option
           /\ Decl[opt] \in Declaration
           /\ f.i \in Nat /\ f.i <= Len(f.tuple)
<1>1. f \in Frame  BY TopFrame DEF Frame
<1>2. f.tuple \in Seq(Entry) /\ f.i \in 1..Len(f.tuple)
      BY <1>1 DEF Frame, FrameFields, AtLeaf
<1>3. f.tuple[f.i] \in Entry  BY <1>2
<1>4. opt \in Option  BY <1>3 DEF Entry, opt
<1> QED  BY <1>2, <1>4, DeclType

\* Going on to the next entry with "first" at p.
LEMMA PastEntryTyped ==
    ASSUME TypeOK, AtLeaf, NEW p \in Nat \ {0}
    PROVE  PastEntry(p) \in Frame
<1> DEFINE x == IF IsPositional(opt) THEN f.pidx + 1 ELSE f.pidx
           g == [f EXCEPT !.pos = p, !.i = f.i + 1, !.stage = "name", !.pidx = x]
<1>1. f \in FrameFields  BY TopFrame DEF Frame
<1>2. x \in Int  BY <1>1 DEF FrameFields
<1>3. f.i + 1 \in Nat /\ f.i + 1 <= Len(f.tuple) + 1
      BY LeafOption, <1>1 DEF FrameFields
<1>4. g \in FrameFields /\ g.i = f.i + 1 /\ g.tuple = f.tuple
      BY <1>1, <1>2, <1>3 DEF FrameFields
<1>5. PastEntry(p) = g  BY <1>1 DEF PastEntry, FrameFields
<1> QED  BY <1>3, <1>4, <1>5 DEF Frame

\* The argument under "first".
LEMMA ArgTyped ==
    ASSUME TypeOK, ~AtEnd
    PROVE  arg \in Token
BY TopFrame DEF Frame, FrameFields, AtEnd, arg

\* Delivering tokens of the innermost frame's list.
LEMMA DeliverTyped ==
    ASSUME TypeOK, NEW p \in Nat, p <= Len(f.src) + 1, Deliver(p)
    PROVE  delivered' \in Seq(Token)
<1>1. f.src \in Seq(Token) /\ f.pos \in Nat \ {0}  BY TopFrame DEF Frame, FrameFields
<1>2. SubSeq(f.src, f.pos, p - 1) \in Seq(Token)  BY <1>1
<1> QED  BY <1>2 DEF TypeOK, Deliver

\* Assigning or inserting tokens keeps a value a value.
LEMMA AssignTyped ==
    ASSUME NEW o \in Option, NEW v \in Value, NEW vals \in Seq(Token)
    PROVE  AssignOrInsert(o, v, vals) \in Value
<1>1. CASE vals = << >>  BY <1>1 DEF AssignOrInsert
<1>2. CASE vals # << >>
  <2>1. vals[Len(vals)] \in Token  BY <1>2
  <2>2. v.val \o vals \in Seq(Token) /\ <<vals[Len(vals)]>> \in Seq(Token)
        BY <2>1 DEF Value
  <2> QED  BY <1>2, <2>2 DEF AssignOrInsert, Value
<1> QED  BY <1>1, <1>2

-----------------------------------------------------------------------------
(* The inductive invariant.                                                  *)
(*                                                                           *)
(* TypeOK alone is not inductive: a call that returns pops its frame, which  *)
(* needs a caller that is at an entry of its own tuple.  CursorsInRange needs *)
(* that a group's call reads its caller's list, and never behind its caller. *)
(* PositionalsInOrder needs what positional_index stands for: the number of  *)
(* positionals before the fold's entry, none of which is still to be matched *)
(* as long as there are arguments.                                           *)

\* The entries of a group's call: its options, each one an entry of its own.
Members(e) == [k \in 1..Len(e.opts) |-> Leaf(e.opts[k])]

\* What a call goes over: the whole tuple t, or one group of it.  A group's call
\* has the group's number, a file's call inside one has not.
PartOf(g, t) ==
    \/ g.tuple = t /\ g.kind # "group"
    \/ \E e \in 1..Len(t) : /\ t[e].exclusive /\ g.tuple = Members(t[e])
                            /\ g.kind = "group" => g.group = e

\* What holds of one frame of a parse of the tuple t, when n positionals were
\* matched.
FrameOK(g, t, n) ==
    /\ g.pos <= Len(g.src) + 1
    /\ PartOf(g, t)
    /\ g.i >= 1 => g.initial <= Len(g.src)
    /\ g.i >= 1 => g.pidx + 1 = Ordinal(g.tuple, g.i - 1)
    /\ g.i >= 1 /\ g.pos <= Len(g.src) => g.pidx + 1 <= n
    /\ g.stage = "args" => /\ g.i \in 1..Len(g.tuple)
                           /\ ~g.tuple[g.i].exclusive
                           /\ ~PositionalAt(g.tuple, g.i)

\* What holds of the frame b of a caller and the frame a of its call.
CallOK(b, a) ==
    /\ b.i <= Len(b.tuple)
    /\ b.i >= 1 => ~PositionalAt(b.tuple, b.i)
    /\ a.kind \in {"file", "group"}
    /\ a.kind = "file" => b.pos <= Len(b.src)
    /\ a.kind = "group" => /\ a.src = b.src /\ b.pos <= a.pos
                           /\ b.i >= 1 /\ b.tuple[b.i].exclusive

StackOK ==
    /\ frames[1].kind = "top"
    /\ \A k \in 1..Len(frames) : FrameOK(frames[k], call.tuple, nextPositional)
    /\ \A k \in 1..(Len(frames) - 1) : CallOK(frames[k], frames[k + 1])

\* The part that holds of any one call of parse_options_into(), whatever calls
\* of it came before, and the part that is about the first.
ParserOK == TypeOK /\ WellGrouped(call.tuple) /\ StackOK
IInv == ParserOK /\ PositionalsInOrder

\* The outermost list stays what it is, and its iterator never moves back.
FirstForward == frames'[1].src = frames[1].src /\ frames[1].pos <= frames'[1].pos

StackStep == StackOK' /\ frames' \in Seq(Frame) /\ frames' # << >> /\ FirstForward

-----------------------------------------------------------------------------
(* How an action may change the stack. *)

\* More positionals matched is no harm to a frame.
LEMMA FrameOKGrows ==
    ASSUME NEW g \in Frame, NEW t, NEW n \in Nat, NEW m \in Nat, n <= m, FrameOK(g, t, n)
    PROVE  FrameOK(g, t, m)
<1>1. g.pidx \in Int  BY DEF Frame, FrameFields
<1> QED  BY <1>1 DEF FrameOK

\* A frame that goes over the same entries of the same call.
LEMMA PartOfSame ==
    ASSUME NEW g, NEW h, NEW t, PartOf(h, t),
           g.tuple = h.tuple, g.kind = h.kind, g.group = h.group
    PROVE  PartOf(g, t)
BY DEF PartOf

\* The entries of a group's call are leaves.
LEMMA MembersTyped ==
    ASSUME NEW e \in Entry
    PROVE  /\ Members(e) \in Seq(Entry) /\ Len(Members(e)) = Len(e.opts)
           /\ \A k \in 1..Len(e.opts) : Members(e)[k] = Leaf(e.opts[k])
<1> DEFINE opts == e.opts
<1>1. opts \in Seq(Option) /\ Len(opts) \in Nat  BY DEF Entry
<1>2. \A k \in 1..Len(opts) : Leaf(opts[k]) \in Entry
  <2>1. ASSUME NEW o \in Option  PROVE Leaf(o) \in Entry
    <3>1. <<o>> \in Seq(Option) /\ <<o>> # << >>  OBVIOUS
    <3> QED  BY <3>1 DEF Leaf, Entry
  <2>2. \A k \in 1..Len(opts) : opts[k] \in Option  BY <1>1
  <2> QED  BY <2>1, <2>2
<1>3. Members(e) = [k \in 1..Len(opts) |-> Leaf(opts[k])]  BY DEF Members
<1> HIDE DEF opts
<1>4. /\ Members(e) \in Seq(Entry) /\ Len(Members(e)) = Len(opts)
      /\ \A k \in 1..Len(opts) : Members(e)[k] = Leaf(opts[k])
      BY <1>1, <1>2, <1>3
<1> QED  BY <1>4 DEF opts

\* Only a call over the whole tuple has groups and positionals.
LEMMA GroupPart ==
    ASSUME TypeOK, WellGrouped(call.tuple), NEW g, PartOf(g, call.tuple),
           NEW k \in 1..Len(g.tuple)
    PROVE  g.tuple = call.tuple \/ (~g.tuple[k].exclusive /\ ~PositionalAt(g.tuple, k))
<1> SUFFICES ASSUME g.tuple # call.tuple
             PROVE  ~g.tuple[k].exclusive /\ ~PositionalAt(g.tuple, k)
    OBVIOUS
<1>1. PICK e \in 1..Len(call.tuple) :
         call.tuple[e].exclusive /\ g.tuple = Members(call.tuple[e])
      BY DEF PartOf
<1> DEFINE entry == call.tuple[e]
<1>2. entry \in Entry
  <2>1. call.tuple \in Seq(Entry)  BY DEF TypeOK, Call
  <2> QED  BY <2>1
<1>3. \A j \in 1..Len(entry.opts) : ~IsPositional(entry.opts[j])
      BY <1>1 DEF WellGrouped
<1>4. g.tuple = Members(entry)  BY <1>1
<1> HIDE DEF entry
<1>5. k \in 1..Len(entry.opts) /\ g.tuple[k] = Leaf(entry.opts[k])
      BY <1>2, <1>4, MembersTyped
<1>6. ~g.tuple[k].exclusive /\ g.tuple[k].opts[1] = entry.opts[k]
      BY <1>5 DEF Leaf
<1> QED  BY <1>3, <1>5, <1>6 DEF PositionalAt

\* The innermost frame moves forward.
LEMMA SetTopStack ==
    ASSUME TypeOK, StackOK, NEW g \in Frame, SetTop(g), UNCHANGED call,
           nextPositional' \in Nat, nextPositional <= nextPositional',
           FrameOK(g, call.tuple, nextPositional'),
           g.kind = f.kind, g.src = f.src, f.pos <= g.pos
    PROVE  StackStep
<1> DEFINE L == Len(frames)
<1>1. /\ L \in Nat /\ L >= 1 /\ frames \in Seq(Frame) /\ nextPositional \in Nat
      /\ Len(frames') = L
      /\ frames'[L] = g
      /\ \A k \in 1..L : k # L => frames'[k] = frames[k]
      /\ f = frames[L]
      BY DEF TypeOK, SetTop, f
<1>2. ASSUME NEW k \in 1..L  PROVE FrameOK(frames'[k], call.tuple, nextPositional')
  <2>1. CASE k = L  BY <2>1, <1>1
  <2>2. CASE k # L
        BY <2>2, <1>1, FrameOKGrows DEF StackOK
  <2> QED  BY <2>1, <2>2
<1>3. ASSUME NEW k \in 1..(L - 1)  PROVE CallOK(frames'[k], frames'[k + 1])
  <2>1. frames'[k] = frames[k] /\ CallOK(frames[k], frames[k + 1])
        BY <1>1 DEF StackOK
  <2>2. CASE k + 1 # L  BY <2>1, <2>2, <1>1
  <2>3. CASE k + 1 = L
    <3>1. frames[k] \in Frame /\ f \in Frame  BY <1>1
    <3>2. frames[k].pos \in Nat /\ f.pos \in Nat /\ g.pos \in Nat
          BY <3>1 DEF Frame, FrameFields
    <3> QED  BY <3>2, <2>1, <2>3, <1>1 DEF CallOK
  <2> QED  BY <2>2, <2>3
<1>4. frames'[1].kind = "top"
  <2>1. frames[1].kind = "top"  BY DEF StackOK
  <2> QED  BY <2>1, <1>1
<1>5. StackOK'  BY <1>1, <1>2, <1>3, <1>4 DEF StackOK
<1>6. FirstForward
  <2>1. frames[1].pos \in Nat  BY FirstFrame
  <2>2. IF L = 1 THEN frames'[1] = g /\ frames[1] = f ELSE frames'[1] = frames[1]
        BY <1>1
  <2> QED  BY <2>1, <2>2 DEF FirstForward
<1> QED  BY <1>5, <1>6, SetTopTyped DEF StackStep

\* A call.
LEMMA PushStack ==
    ASSUME TypeOK, StackOK, NEW g \in Frame, frames' = Append(frames, g),
           UNCHANGED <<call, nextPositional>>,
           FrameOK(g, call.tuple, nextPositional), CallOK(f, g)
    PROVE  StackStep
<1> DEFINE L == Len(frames)
<1>1. /\ L \in Nat /\ L >= 1 /\ frames \in Seq(Frame)
      /\ Len(frames') = L + 1
      /\ frames'[L + 1] = g
      /\ \A k \in 1..L : frames'[k] = frames[k]
      /\ f = frames[L]
      BY DEF TypeOK, f
<1>2. \A k \in 1..(L + 1) : FrameOK(frames'[k], call.tuple, nextPositional')
  <2>1. \A k \in 1..L : FrameOK(frames'[k], call.tuple, nextPositional)  BY <1>1 DEF StackOK
  <2> QED  BY <2>1, <1>1
<1>3. ASSUME NEW k \in 1..L  PROVE CallOK(frames'[k], frames'[k + 1])
  <2>1. CASE k = L  BY <2>1, <1>1
  <2>2. CASE k # L
    <3>1. k \in 1..(L - 1) /\ k + 1 \in 1..L  BY <2>2, <1>1
    <3> QED  BY <3>1, <1>1 DEF StackOK
  <2> QED  BY <2>1, <2>2
<1>4. frames'[1].kind = "top"
  <2>1. frames[1].kind = "top"  BY DEF StackOK
  <2> QED  BY <2>1, <1>1
<1>5. StackOK'  BY <1>1, <1>2, <1>3, <1>4 DEF StackOK
<1>6. FirstForward
  <2>1. frames[1].pos \in Nat  BY FirstFrame
  <2>2. frames'[1] = frames[1]  BY <1>1
  <2> QED  BY <2>1, <2>2 DEF FirstForward
<1> QED  BY <1>5, <1>6, PushTyped DEF StackStep

\* A return: the caller's frame, if it is one, is the innermost again.
LEMMA CallerFrame ==
    ASSUME TypeOK, StackOK, f.kind # "top"
    PROVE  /\ Len(frames) - 1 \in 1..Len(frames)
           /\ caller \in Frame
           /\ FrameOK(caller, call.tuple, nextPositional)
           /\ CallOK(caller, f)
<1> DEFINE L == Len(frames)
<1>1. L \in Nat /\ L >= 1 /\ f = frames[L] /\ frames \in Seq(Frame)  BY DEF TypeOK, f
<1>2. L # 1  BY <1>1 DEF StackOK
<1> HIDE DEF L
<1>3. L - 1 \in 1..(L - 1) /\ L - 1 \in 1..L /\ L = (L - 1) + 1  BY <1>1, <1>2
<1> USE DEF L
<1>4. caller \in Frame  BY <1>1, <1>3 DEF caller
<1>5. CallOK(frames[L - 1], frames[(L - 1) + 1])  BY <1>3 DEF StackOK
<1>6. FrameOK(frames[L - 1], call.tuple, nextPositional)  BY <1>3 DEF StackOK
<1> QED  BY <1>1, <1>3, <1>4, <1>5, <1>6 DEF caller

\* A call returns: its frame goes, and its caller moves forward.
LEMMA PopStack ==
    ASSUME TypeOK, StackOK, f.kind # "top", NEW g \in Frame, Pop(g),
           UNCHANGED <<call, nextPositional>>, FrameOK(g, call.tuple, nextPositional),
           g.kind = caller.kind, g.src = caller.src, caller.pos <= g.pos
    PROVE  StackStep
<1> DEFINE L == Len(frames)
<1>1. L \in Nat /\ L - 1 \in 1..L /\ L >= 2 /\ caller = frames[L - 1]
      BY CallerFrame DEF TypeOK, caller
<1>2. /\ frames' \in Seq(Frame) /\ Len(frames') = L - 1 /\ frames' # << >>
      /\ \A k \in 1..(L - 1) : frames'[k] = IF k = L - 1 THEN g ELSE frames[k]
  <2>1. frames' = [k \in 1..(L - 1) |-> IF k = L - 1 THEN g ELSE frames[k]]
        BY DEF Pop
  <2>2. \A k \in 1..(L - 1) : (IF k = L - 1 THEN g ELSE frames[k]) \in Frame
        BY <1>1 DEF TypeOK
  <2>3. L - 1 \in Nat /\ L - 1 >= 1  BY <1>1
  <2>4. frames' \in Seq(Frame) /\ Len(frames') = L - 1  BY <2>1, <2>2, <2>3
  <2>5. \A k \in 1..(L - 1) : frames'[k] = IF k = L - 1 THEN g ELSE frames[k]
        BY <2>1, Zenon
  <2>6. frames' # << >>  BY <2>3, <2>4
  <2> QED  BY <2>4, <2>5, <2>6
<1>3. \A k \in 1..(L - 1) : FrameOK(frames'[k], call.tuple, nextPositional')
      BY <1>1, <1>2 DEF StackOK
<1>4. ASSUME NEW k \in 1..(L - 2)  PROVE CallOK(frames'[k], frames'[k + 1])
  <2>1. /\ k \in 1..(L - 1) /\ k + 1 \in 1..(L - 1)
        /\ frames'[k] = frames[k] /\ CallOK(frames[k], frames[k + 1])
        BY <1>1, <1>2 DEF StackOK
  <2>2. CASE k + 1 # L - 1  BY <2>1, <2>2, <1>2
  <2>3. CASE k + 1 = L - 1
    <3>1. frames[k] \in Frame /\ caller \in Frame
          BY <2>1, <1>1, CallerFrame DEF TypeOK
    <3>2. frames[k].pos \in Nat /\ caller.pos \in Nat /\ g.pos \in Nat
          BY <3>1 DEF Frame, FrameFields
    <3> QED  BY <3>2, <2>1, <2>3, <1>1, <1>2 DEF CallOK
  <2> QED  BY <2>2, <2>3
<1>5. frames'[1].kind = "top"
  <2>1. frames[1].kind = "top"  BY DEF StackOK
  <2> QED  BY <2>1, <1>1, <1>2
<1>6. (Len(frames') - 1) = L - 2  BY <1>1, <1>2
<1>7. \A k \in 1..Len(frames') : FrameOK(frames'[k], call.tuple, nextPositional')  BY <1>2, <1>3
<1>8. \A k \in 1..(Len(frames') - 1) : CallOK(frames'[k], frames'[k + 1])  BY <1>4, <1>6
<1>9. StackOK'  BY <1>2, <1>5, <1>7, <1>8 DEF StackOK
<1>10. FirstForward
  <2>1. frames[1].pos \in Nat  BY FirstFrame
  <2> HIDE DEF L
  <2>2. 1 \in 1..(L - 1) /\ (1 = L - 1 => caller = frames[1])  BY <1>1
  <2>3. frames'[1] = IF 1 = L - 1 THEN g ELSE frames[1]  BY <1>2, <2>2
  <2> QED  BY <2>1, <2>2, <2>3 DEF FirstForward
<1> QED  BY <1>2, <1>9, <1>10 DEF StackStep

-----------------------------------------------------------------------------
(* The number of positionals before an entry. *)

\* The number of positionals up to an entry is a natural number.
LEMMA OrdinalType ==
    ASSUME NEW t, NEW e \in Nat
    PROVE  /\ IsFiniteSet({j \in 1..e : PositionalAt(t, j)})
           /\ Ordinal(t, e) \in Nat
<1>1. IsFiniteSet(1..e)  BY FS_Interval
<1>2. IsFiniteSet({j \in 1..e : PositionalAt(t, j)})
      BY <1>1, FS_Subset, {j \in 1..e : PositionalAt(t, j)} \subseteq 1..e
<1> QED  BY <1>2, FS_CardinalityType DEF Ordinal

\* There is no positional before the first entry.
LEMMA OrdinalZero ==
    ASSUME NEW t
    PROVE  Ordinal(t, 0) = 0
<1>1. {j \in 1..0 : PositionalAt(t, j)} = {}  OBVIOUS
<1> QED  BY <1>1, FS_EmptySet DEF Ordinal

\* One entry further, there is one more positional or none.
LEMMA OrdinalStep ==
    ASSUME NEW t, NEW e \in Nat \ {0}
    PROVE  Ordinal(t, e) = Ordinal(t, e - 1) + (IF PositionalAt(t, e) THEN 1 ELSE 0)
<1> DEFINE before == {j \in 1..(e - 1) : PositionalAt(t, j)}
           upto == {j \in 1..e : PositionalAt(t, j)}
<1>1. e - 1 \in Nat  OBVIOUS
<1>2. IsFiniteSet(before) /\ Cardinality(before) \in Nat
      BY <1>1, OrdinalType, FS_CardinalityType
<1> HIDE DEF before, upto
<1>0. Ordinal(t, e) = Cardinality(upto) /\ Ordinal(t, e - 1) = Cardinality(before)
      BY DEF Ordinal, before, upto
<1>3. CASE PositionalAt(t, e)
  <2>1. upto = before \cup {e} /\ e \notin before  BY <1>3 DEF before, upto
  <2>2. Cardinality(upto) = Cardinality(before) + 1
        BY <1>2, <2>1, FS_AddElement
  <2> QED  BY <1>0, <1>3, <2>2
<1>4. CASE ~PositionalAt(t, e)
  <2>1. upto = before  BY <1>4 DEF before, upto
  <2> QED  BY <1>0, <1>2, <1>4, <2>1
<1> QED  BY <1>3, <1>4

-----------------------------------------------------------------------------
(* The two ways parse_option() moves the fold. *)

\* What the leaf invariants say of the innermost frame.
LEMMA TopOK ==
    ASSUME TypeOK, StackOK
    PROVE  /\ FrameOK(f, call.tuple, nextPositional)
           /\ f \in FrameFields
           /\ f.pos \in Nat \ {0} /\ Len(f.src) \in Nat /\ f.pidx \in Int
           /\ f.i \in Nat /\ Len(f.tuple) \in Nat
           /\ nextPositional \in Nat
<1>1. f \in FrameFields  BY TopFrame DEF Frame
<1>2. FrameOK(f, call.tuple, nextPositional)  BY TopFrame DEF StackOK, f
<1>3. f.src \in Seq(Token) /\ f.tuple \in Seq(Entry)  BY <1>1 DEF FrameFields
<1> QED  BY <1>1, <1>2, <1>3 DEF FrameFields, TypeOK

\* On to the next entry: a positional that is left behind was matched, unless
\* there is nothing left to match.
LEMMA AdvanceStack ==
    ASSUME TypeOK, StackOK, AtLeaf,
           NEW p \in Nat \ {0}, f.pos <= p, p <= Len(f.src) + 1, Advance(p),
           UNCHANGED call,
           nextPositional' \in Nat, nextPositional <= nextPositional',
           IsPositional(opt) /\ p <= Len(f.src) => f.pidx + 2 <= nextPositional'
    PROVE  StackStep
<1> DEFINE g == PastEntry(p)
<1>1. g \in Frame /\ SetTop(g)  BY PastEntryTyped DEF Advance
<1>2. /\ g.pos = p /\ g.src = f.src /\ g.kind = f.kind /\ g.tuple = f.tuple
      /\ g.i = f.i + 1 /\ g.stage = "name" /\ g.initial = f.initial
      /\ g.group = f.group
      /\ g.pidx = IF IsPositional(opt) THEN f.pidx + 1 ELSE f.pidx
      BY TopOK DEF PastEntry, FrameFields
<1>3. f.i \in Nat \ {0} /\ f.i <= Len(f.tuple)  BY TopOK DEF AtLeaf
<1>4. PositionalAt(f.tuple, f.i) <=> IsPositional(opt)
      BY DEF PositionalAt, opt, AtLeaf
<1>5. f.pidx + 1 = Ordinal(f.tuple, f.i - 1)  BY TopOK, <1>3 DEF FrameOK
<1>6. Ordinal(f.tuple, f.i) =
         Ordinal(f.tuple, f.i - 1) + (IF IsPositional(opt) THEN 1 ELSE 0)
      BY <1>3, <1>4, OrdinalStep
<1>7. g.pidx + 1 = Ordinal(g.tuple, g.i - 1)
      BY <1>2, <1>3, <1>5, <1>6, TopOK
<1>8. g.pos <= Len(g.src) => g.pidx + 1 <= nextPositional'
  <2>1. CASE IsPositional(opt)  BY <2>1, <1>2, TopOK
  <2>2. CASE ~IsPositional(opt)
    <3>1. p <= Len(f.src) => f.pidx + 1 <= nextPositional
          BY TopOK, <1>3 DEF FrameOK
    <3> QED  BY <3>1, <2>2, <1>2, TopOK
  <2> QED  BY <2>1, <2>2
<1>9. FrameOK(g, call.tuple, nextPositional')
  <2>1. PartOf(f, call.tuple) /\ f.initial <= Len(f.src)
        BY <1>3, TopOK DEF FrameOK
  <2> HIDE DEF g
  <2>2. PartOf(g, call.tuple)  BY <1>2, <2>1, PartOfSame
  <2> QED  BY <1>2, <1>7, <1>8, <2>1, <2>2 DEF FrameOK
<1> HIDE DEF g
<1> QED  BY <1>1, <1>2, <1>9, SetTopStack

\* "first" moves within an entry that is no positional, or the call ends here.
LEMMA MoveStack ==
    ASSUME TypeOK, StackOK, AtLeaf,
           NEW p \in Nat \ {0}, f.pos <= p, p <= Len(f.src) + 1,
           NEW s \in {"name", "args"},
           s = "args" => ~IsPositional(opt),
           SetTop([f EXCEPT !.pos = p, !.stage = s]),
           UNCHANGED <<call, nextPositional>>
    PROVE  StackStep
<1> DEFINE g == [f EXCEPT !.pos = p, !.stage = s]
<1>1. g \in FrameFields  BY TopOK DEF FrameFields
<1>2. /\ g.pos = p /\ g.src = f.src /\ g.kind = f.kind /\ g.tuple = f.tuple
      /\ g.i = f.i /\ g.stage = s /\ g.pidx = f.pidx /\ g.initial = f.initial
      /\ g.group = f.group
      BY TopOK DEF FrameFields
<1>3. f.i \in Nat \ {0} /\ f.i <= Len(f.tuple)  BY TopOK DEF AtLeaf
<1>4. g \in Frame
  <2>1. g.i <= Len(g.tuple) + 1  BY <1>2, <1>3, TopOK
  <2> QED  BY <1>1, <2>1 DEF Frame
<1>5. PositionalAt(f.tuple, f.i) <=> IsPositional(opt)
      BY DEF PositionalAt, opt, AtLeaf
<1>6. FrameOK(g, call.tuple, nextPositional)
  <2>1. PartOf(g, call.tuple)
    <3>1. PartOf(f, call.tuple)  BY TopOK DEF FrameOK
    <3> HIDE DEF g
    <3> QED  BY <1>2, <3>1, PartOfSame
  <2> QED  BY <1>2, <1>3, <1>5, <2>1, TopOK DEF FrameOK, AtLeaf
<1>7. SetTop(g) /\ nextPositional' \in Nat /\ nextPositional <= nextPositional'
      BY TopOK
<1>8. FrameOK(g, call.tuple, nextPositional')  BY <1>6
<1> HIDE DEF g
<1> QED  BY <1>2, <1>4, <1>7, <1>8, SetTopStack

-----------------------------------------------------------------------------
(* What the actions share. *)

\* The stack is good as long as neither it nor next_positional changes.
LEMMA StackUntouched ==
    ASSUME TypeOK, StackOK, UNCHANGED <<call, frames, nextPositional>>
    PROVE  StackStep
<1>1. StackOK'  BY DEF StackOK
<1>2. frames \in Seq(Frame) /\ frames # << >>  BY DEF TypeOK
<1>3. frames[1].pos \in Nat  BY FirstFrame
<1> QED  BY <1>1, <1>2, <1>3 DEF StackStep, FirstForward

\* fail() sets a status, an error and a message of the right types.
LEMMA FailTyped ==
    ASSUME TypeOK, NEW err \in Errors, NEW args \in Seq(Token), Fail(err, args)
    PROVE  status' \in Statuses /\ ret' \in Errors /\ diag' \in Errors \X Seq(Token)
BY DEF Fail, Exit1, TypeOK, Statuses

\* An action that changes one slot to a value.
LEMMA ResultTyped ==
    ASSUME TypeOK, NEW s \in Slot, NEW v \in Value,
           result' = [result EXCEPT ![s] = v]
    PROVE  result' \in [Slot -> Value]
BY DEF TypeOK

\* An option has a slot, and the slot a value.
LEMMA SlotOf ==
    ASSUME TypeOK, NEW o \in Option
    PROVE  Decl[o].slot \in Slot /\ result[Decl[o].slot] \in Value
<1>1. Decl[o] \in Declaration  BY DeclType
<1> QED  BY <1>1 DEF Declaration, TypeOK

-----------------------------------------------------------------------------
(* Every action keeps the invariant.  parse_option(): *)

\* Skipping a positional that was already matched.
LEMMA SkipTakenPositionalKeeps ==
    ASSUME ParserOK, SkipTakenPositional
    PROVE  ParserOK' /\ FirstForward
<1> USE DEF ParserOK
<1>1. StackStep
  <2>1. f.pidx + 2 <= nextPositional /\ f.pos <= Len(f.src) + 1
        BY TopOK DEF SkipTakenPositional, FrameOK
  <2>2. /\ AtLeaf /\ Advance(f.pos) /\ UNCHANGED <<call, nextPositional>>
        BY DEF SkipTakenPositional, shared
  <2> QED  BY <2>1, <2>2, TopOK, AdvanceStack
<1>2. TypeOK'  BY <1>1 DEF StackStep, TypeOK, SkipTakenPositional, shared, history
<1> QED  BY <1>1, <1>2 DEF StackStep, SkipTakenPositional

\* An argument that is not the option's.
LEMMA NoMatchKeeps ==
    ASSUME ParserOK, NoMatch
    PROVE  ParserOK' /\ FirstForward
<1> USE DEF ParserOK
<1>1. StackStep
  <2>1. /\ AtLeaf /\ Advance(f.pos) /\ UNCHANGED <<call, nextPositional>>
        /\ IsPositional(opt) => AtEnd
        BY DEF NoMatch, Looking, IsOther, shared
  <2>2. f.pos <= Len(f.src) + 1  BY TopOK DEF FrameOK
  <2>3. AtEnd <=> f.pos > Len(f.src)  BY DEF AtEnd
  <2> QED  BY <2>1, <2>2, <2>3, TopOK, AdvanceStack
<1>2. TypeOK'  BY <1>1 DEF StackStep, TypeOK, NoMatch, shared, history
<1> QED  BY <1>1, <1>2 DEF StackStep, NoMatch

\* The short form of a counted flag.
LEMMA CountShortKeeps ==
    ASSUME ParserOK, CountShort
    PROVE  ParserOK' /\ FirstForward
<1> USE DEF ParserOK
<1>1. /\ AtLeaf /\ f.pos <= Len(f.src) /\ ~IsPositional(opt) /\ ~AtEnd
      /\ opt \in Option /\ Decl[opt] \in Declaration
  <2>1. Decl[opt].kind = "count" /\ AtLeaf /\ ~AtEnd
        BY DEF CountShort, Looking, IsCounted
  <2> QED  BY <2>1, LeafOption, TopOK DEF IsPositional, AtEnd
<1>2. StackStep
  <2>1. Advance(f.pos + 1) /\ UNCHANGED <<call, nextPositional>>  BY DEF CountShort
  <2> QED  BY <1>1, <2>1, TopOK, AdvanceStack
<1>3. result' \in [Slot -> Value]
  <2>1. arg \in Token /\ Decl[opt].counts[arg] \in Int
        BY <1>1, ArgTyped DEF Declaration
  <2> DEFINE v == [result[Decl[opt].slot] EXCEPT !.set = TRUE,
                                                 !.num = Decl[opt].counts[arg]]
  <2>2. v \in Value  BY <1>1, <2>1, SlotOf DEF Value
  <2>3. result' = [result EXCEPT ![Decl[opt].slot] = v]
        BY <1>1, SlotOf DEF CountShort, TypeOK
  <2> QED  BY <1>1, <2>2, <2>3, SlotOf, ResultTyped
<1>4. delivered' \in Seq(Token)
      BY <1>1, TopOK, DeliverTyped DEF CountShort
<1>5. matched' \in Seq(Option)  BY <1>1 DEF CountShort, TypeOK
<1>6. TypeOK'  BY <1>2, <1>3, <1>4, <1>5 DEF StackStep, TypeOK, CountShort
<1> QED  BY <1>2, <1>6 DEF StackStep, CountShort

\* A second option of a group.
LEMMA RejectSecondExclusiveKeeps ==
    ASSUME ParserOK, RejectSecondExclusive
    PROVE  ParserOK' /\ FirstForward
<1> USE DEF ParserOK
<1>1. ~AtEnd /\ Fail("too_many_mutually_exclusives", <<arg>>)
      BY DEF RejectSecondExclusive, Named
<1>2. <<arg>> \in Seq(Token)  BY <1>1, ArgTyped
<1>3. status' \in Statuses /\ ret' \in Errors /\ diag' \in Errors \X Seq(Token)
      BY <1>1, <1>2, FailTyped DEF Errors
<1>4. StackStep  BY StackUntouched DEF RejectSecondExclusive, shared
<1>5. TypeOK'  BY <1>3 DEF StackStep, TypeOK, RejectSecondExclusive, shared, history
<1> QED  BY <1>4, <1>5 DEF StackStep, RejectSecondExclusive

\* What the name alone does to a value.
LEMMA SetNum ==
    ASSUME NEW v \in Value, NEW n \in Int
    PROVE  [v EXCEPT !.set = TRUE, !.num = n] \in Value
BY DEF Value

\* A long counted flag's value.
LEMMA SetOne ==
    ASSUME NEW v \in Value
    PROVE  [v EXCEPT !.set = TRUE, !.num = 1] \in Value
<1>1. 1 \in Int  OBVIOUS
<1> QED  BY <1>1, SetNum

\* An option's default-constructed or assigned value.
LEMMA SetVal ==
    ASSUME NEW v \in Value, NEW val \in Seq(Token)
    PROVE  [v EXCEPT !.set = TRUE, !.val = val] \in Value
BY DEF Value

\* What a matched name alone does to a value.
LEMMA AtNameTyped ==
    ASSUME NEW o \in Option, NEW v \in Value
    PROVE  AtName(o, v) \in Value
<1>1. [v EXCEPT !.set = TRUE] \in Value  BY DEF Value
<1>2. << >> \in Seq(Token)  OBVIOUS
<1>3. [v EXCEPT !.set = TRUE, !.val = << >>] \in Value  BY <1>2, SetVal
<1> QED  BY <1>1, <1>3 DEF AtName

\* A matched name.
LEMMA MatchNameKeeps ==
    ASSUME ParserOK, MatchName
    PROVE  ParserOK' /\ FirstForward
<1> USE DEF ParserOK
<1>1. /\ AtLeaf /\ f.stage = "name" /\ ~AtEnd /\ ~IsPositional(opt)
      /\ f.pos <= Len(f.src) /\ opt \in Option
      BY LeafOption, TopOK DEF MatchName, Named, Looking, AtEnd
<1>2. StackStep /\ status' \in Statuses
  <2>1. /\ UNCHANGED <<call, nextPositional>>
        /\ f.pos + 1 \in Nat \ {0} /\ f.pos <= f.pos + 1 /\ f.pos + 1 <= Len(f.src) + 1
        BY <1>1, TopOK DEF MatchName
  <2>2. CASE Decl[opt].kind \in {"flag", "count"}
    <3>1. Advance(f.pos + 1) /\ UNCHANGED status  BY <2>2 DEF MatchName
    <3>2. StackStep  BY <1>1, <2>1, <3>1, TopOK, AdvanceStack
    <3> QED  BY <3>1, <3>2 DEF TypeOK
  <2>3. CASE Decl[opt].kind \in {"help", "version"}
    <3>1. /\ SetTop([f EXCEPT !.pos = @ + 1])
          /\ status' = IF call.deserializing THEN "assert" ELSE "exit0"
          BY <2>3 DEF MatchName
    <3>2. [f EXCEPT !.pos = @ + 1] = [f EXCEPT !.pos = f.pos + 1, !.stage = "name"]
          BY <1>1, TopOK DEF FrameFields
    <3>3. SetTop([f EXCEPT !.pos = f.pos + 1, !.stage = "name"])
          BY <3>1, <3>2
    <3>4. StackStep  BY <1>1, <2>1, <3>3, MoveStack
    <3> QED  BY <3>1, <3>4 DEF Statuses
  <2>4. CASE Decl[opt].kind \notin {"flag", "count", "help", "version"}
    <3>1. SetTop([f EXCEPT !.pos = @ + 1, !.stage = "args"]) /\ UNCHANGED status
          BY <2>4 DEF MatchName
    <3>2. SetTop([f EXCEPT !.pos = f.pos + 1, !.stage = "args"])  BY <3>1
    <3>3. StackStep  BY <1>1, <2>1, <3>2, MoveStack
    <3> QED  BY <3>1, <3>3 DEF TypeOK
  <2> QED  BY <2>2, <2>3, <2>4
<1>3. result' \in [Slot -> Value]
  <2> DEFINE w == result[Decl[opt].slot]
             v == IF Decl[opt].kind = "count"
                  THEN [w EXCEPT !.set = TRUE, !.num = 1] ELSE AtName(opt, w)
  <2>1. w \in Value  BY <1>1, SlotOf
  <2>2. v \in Value
    <3>1. [w EXCEPT !.set = TRUE, !.num = 1] \in Value
          BY <2>1, SetOne
    <3> QED  BY <1>1, <2>1, <3>1, AtNameTyped
  <2>3. result' = [result EXCEPT ![Decl[opt].slot] = v]
        BY <1>1, SlotOf DEF MatchName, TypeOK
  <2> QED  BY <1>1, <2>2, <2>3, SlotOf, ResultTyped
<1>4. delivered' \in Seq(Token)
      BY <1>1, TopOK, DeliverTyped DEF MatchName
<1>5. seen' \in SUBSET (Nat \ {0})
  <2>1. f.group \in Nat  BY TopOK DEF FrameFields
  <2> QED  BY <2>1 DEF MatchName, TypeOK
<1>6. matched' \in Seq(Option)  BY <1>1 DEF MatchName, TypeOK
<1>7. TypeOK'
      BY <1>2, <1>3, <1>4, <1>5, <1>6 DEF StackStep, TypeOK, MatchName
<1> QED  BY <1>2, <1>7 DEF StackStep, MatchName

\* The arguments that follow are those of a leaf option.
LEMMA ArgsDueLeaf ==
    ASSUME TypeOK, StackOK, ArgsDue
    PROVE  /\ AtLeaf /\ opt \in Option
           /\ f.stage = "args" => ~IsPositional(opt)
           /\ IsPositional(opt) => Looking
<1>1. AtLeaf  BY DEF ArgsDue, Looking
<1>2. f.stage = "args" => ~IsPositional(opt)
      BY <1>1, TopOK DEF FrameOK, PositionalAt, AtLeaf, opt
<1> QED  BY <1>1, <1>2, LeafOption DEF ArgsDue

\* A matched name at the end of the list.
LEMMA NoArgsLeftKeeps ==
    ASSUME ParserOK, NoArgsLeft
    PROVE  ParserOK' /\ FirstForward
<1> USE DEF ParserOK
<1>1. /\ AtLeaf /\ f.pos > Len(f.src) /\ f.pos <= Len(f.src) + 1
      /\ UNCHANGED <<call, nextPositional>>
      BY ArgsDueLeaf, TopOK DEF NoArgsLeft, AtEnd, FrameOK, shared
<1>2. /\ StackStep
      /\ status' \in Statuses /\ ret' \in Errors /\ diag' \in Errors \X Seq(Token)
  <2>1. CASE MinReps(opt) = 0
    <3>1. Advance(f.pos) /\ UNCHANGED <<status, ret, diag>>
          BY <2>1 DEF NoArgsLeft
    <3>2. StackStep  BY <1>1, <3>1, TopOK, AdvanceStack
    <3> QED  BY <3>1, <3>2 DEF TypeOK
  <2>2. CASE MinReps(opt) # 0
    <3>1. Fail("wrong_number_of_args", << >>) /\ UNCHANGED frames
          BY <2>2 DEF NoArgsLeft
    <3>2. << >> \in Seq(Token) /\ "wrong_number_of_args" \in Errors  BY DEF Errors
    <3>3. status' \in Statuses /\ ret' \in Errors /\ diag' \in Errors \X Seq(Token)
          BY <3>1, <3>2, FailTyped
    <3> QED  BY <1>1, <3>1, <3>3, StackUntouched DEF TypeOK
  <2> QED  BY <2>1, <2>2
<1>3. TypeOK'  BY <1>2 DEF StackStep, TypeOK, NoArgsLeft, shared, history
<1> QED  BY <1>2, <1>3 DEF StackStep, NoArgsLeft

\* A run of values lies within the list.
LEMMA RunInRange ==
    ASSUME TypeOK, StackOK, ParsingArgs, NEW n \in 0..Len(f.src), RunOf(n)
    PROVE  /\ n \in Nat /\ f.pos <= Len(f.src) /\ f.pos + n <= Len(f.src) + 1
           /\ Stopped(n) => /\ f.pos + n <= Len(f.src)
                            /\ Stopper(n) \in Token
<1>1. f.src \in Seq(Token)  BY TopOK DEF FrameFields
<1>2. n \in Nat /\ f.pos <= Len(f.src) /\ f.pos + n <= Len(f.src) + 1
      BY TopOK DEF ParsingArgs, AtEnd, RunOf, CanTake
<1>3. Stopped(n) => f.pos + n \in 1..Len(f.src)
      BY <1>2, TopOK DEF Stopped
<1> QED  BY <1>1, <1>2, <1>3, TopOK DEF Stopper

\* Keeping the first m arguments.
LEMMA KeepTyped ==
    ASSUME TypeOK, StackOK, opt \in Option, NEW m \in Nat,
           f.pos + m <= Len(f.src) + 1, Keep(m)
    PROVE  result' \in [Slot -> Value]
<1> DEFINE vals == SubSeq(f.src, f.pos, f.pos + m - 1)
<1>1. vals \in Seq(Token)
  <2>1. f.src \in Seq(Token)  BY TopOK DEF FrameFields
  <2> QED  BY <2>1, TopOK
<1>2. AssignOrInsert(opt, result[Decl[opt].slot], vals) \in Value
      BY <1>1, SlotOf, AssignTyped
<1>3. result' = [result EXCEPT ![Decl[opt].slot] =
                    AssignOrInsert(opt, result[Decl[opt].slot], vals)]
      BY SlotOf DEF Keep, TypeOK
<1> QED  BY <1>2, <1>3, SlotOf, ResultTyped

\* As many arguments as the option asks for.
LEMMA TakeArgsKeeps ==
    ASSUME ParserOK, TakeArgs
    PROVE  ParserOK' /\ FirstForward
<1> USE DEF ParserOK
<1>1. /\ AtLeaf /\ opt \in Option /\ ParsingArgs /\ UNCHANGED call
      /\ IsPositional(opt) => Looking
      BY ArgsDueLeaf DEF TakeArgs, ParsingArgs
<1>2. PICK n \in 0..Len(f.src) :
         RunOf(n) /\ Keep(n) /\ Deliver(f.pos + n) /\ Advance(f.pos + n)
      BY DEF TakeArgs
<1>3. n \in Nat /\ f.pos <= Len(f.src) /\ f.pos + n <= Len(f.src) + 1
      BY <1>1, <1>2, RunInRange
<1>4. /\ nextPositional' = IF IsPositional(opt) THEN nextPositional + 1
                           ELSE nextPositional
      /\ taken' = IF IsPositional(opt) THEN Append(taken, opt) ELSE taken
      BY DEF TakeArgs
<1>5. StackStep
  <2>1. IsPositional(opt) => f.pidx + 2 <= nextPositional'
    <3>1. f.i >= 1  BY <1>1, TopOK DEF AtLeaf
    <3>2. f.pidx + 1 <= nextPositional  BY <1>3, <3>1, TopOK DEF FrameOK
    <3> QED  BY <3>2, <1>4, TopOK
  <2>2. nextPositional' \in Nat /\ nextPositional <= nextPositional'
        BY <1>4, TopOK
  <2>3. f.pos + n \in Nat \ {0} /\ f.pos <= f.pos + n  BY <1>3, TopOK
  <2> QED  BY <1>1, <1>2, <1>3, <2>1, <2>2, <2>3, AdvanceStack
<1>6. result' \in [Slot -> Value]  BY <1>1, <1>2, <1>3, KeepTyped
<1>7. delivered' \in Seq(Token)  BY <1>2, <1>3, TopOK, DeliverTyped
<1>8. taken' \in Seq(Option) /\ nextPositional' \in Nat
      BY <1>1, <1>4 DEF TypeOK
<1>9. TypeOK'  BY <1>5, <1>6, <1>7, <1>8 DEF StackStep, TypeOK, TakeArgs
<1> QED  BY <1>1, <1>5, <1>9 DEF StackStep

\* A run that ends the call: "first" stays within the list.
LEMMA StopAtStack ==
    ASSUME TypeOK, StackOK, AtLeaf, NEW n \in Nat, f.pos + n <= Len(f.src) + 1,
           StopAt(n), UNCHANGED <<call, nextPositional>>
    PROVE  /\ StackStep
           /\ delivered' \in Seq(Token)
<1>1. f.pos + n \in Nat \ {0} /\ f.pos <= f.pos + n  BY TopOK
<1>2. [f EXCEPT !.pos = @ + n] = [f EXCEPT !.pos = f.pos + n, !.stage = f.stage]
      BY TopOK DEF FrameFields
<1>3. SetTop([f EXCEPT !.pos = f.pos + n, !.stage = f.stage])
      BY <1>2 DEF StopAt
<1>4. f.stage \in {"name", "args"} /\ (f.stage = "args" => ~IsPositional(opt))
      BY TopOK DEF FrameFields, FrameOK, PositionalAt, opt, AtLeaf
<1>5. StackStep  BY <1>1, <1>3, <1>4, MoveStack
<1>6. Deliver(f.pos + n)  BY DEF StopAt
<1> QED  BY <1>1, <1>5, <1>6, DeliverTyped

\* The parser's reason for refusing an argument is an error.
LEMMA ParseErrorTyped ==
    ASSUME NEW o, NEW t
    PROVE  ParseError(o, t) \in Errors
BY DEF ParseError, Errors

\* Fewer arguments than the option asks for.
LEMMA TooFewArgsKeeps ==
    ASSUME ParserOK, TooFewArgs
    PROVE  ParserOK' /\ FirstForward
<1> USE DEF ParserOK
<1>1. /\ AtLeaf /\ opt \in Option /\ ParsingArgs
      /\ UNCHANGED <<call, nextPositional, seen, matched, taken>>
      BY ArgsDueLeaf DEF TooFewArgs, ParsingArgs
<1>2. PICK n \in 0..Len(f.src) :
         /\ RunOf(n) /\ Keep(n) /\ StopAt(n)
         /\ IF Stopped(n) /\ (n > 0 => ~KnownDashed(Stopper(n)))
            THEN Fail(ParseError(opt, Stopper(n)), <<Stopper(n)>>)
            ELSE Fail("wrong_number_of_args", << >>)
      BY DEF TooFewArgs
<1>3. /\ n \in Nat /\ f.pos + n <= Len(f.src) + 1
      /\ Stopped(n) => Stopper(n) \in Token
      BY <1>1, <1>2, RunInRange
<1>4. /\ StackStep
      /\ delivered' \in Seq(Token)
      BY <1>1, <1>2, <1>3, StopAtStack
<1>5. status' \in Statuses /\ ret' \in Errors /\ diag' \in Errors \X Seq(Token)
  <2>1. CASE Fail("wrong_number_of_args", << >>)
    <3>1. << >> \in Seq(Token) /\ "wrong_number_of_args" \in Errors  BY DEF Errors
    <3> QED  BY <2>1, <3>1, FailTyped
  <2>2. CASE Stopped(n) /\ Fail(ParseError(opt, Stopper(n)), <<Stopper(n)>>)
    <3>1. <<Stopper(n)>> \in Seq(Token)  BY <2>2, <1>3
    <3> QED  BY <2>2, <3>1, ParseErrorTyped, FailTyped
  <2> QED  BY <1>2, <2>1, <2>2
<1>6. result' \in [Slot -> Value]  BY <1>1, <1>2, <1>3, KeepTyped
<1>7. TypeOK'  BY <1>1, <1>4, <1>5, <1>6 DEF StackStep, TypeOK
<1> QED  BY <1>1, <1>4, <1>7 DEF StackStep

\* An argument that the validator refuses.
LEMMA InvalidArgKeeps ==
    ASSUME ParserOK, InvalidArg
    PROVE  ParserOK' /\ FirstForward
<1> USE DEF ParserOK
<1>1. /\ AtLeaf /\ opt \in Option /\ ParsingArgs
      /\ UNCHANGED <<call, nextPositional, seen, matched, taken>>
      BY ArgsDueLeaf DEF InvalidArg, ParsingArgs
<1>2. PICK n \in 0..Len(f.src) :
         /\ RunOf(n) /\ Invalid(n) /\ Keep(n + 1) /\ StopAt(n)
         /\ Fail("validation_error", <<Stopper(n)>>)
      BY DEF InvalidArg
<1>3. /\ n \in Nat /\ f.pos + n <= Len(f.src) /\ Stopper(n) \in Token
      /\ f.pos + n <= Len(f.src) + 1 /\ f.pos + (n + 1) <= Len(f.src) + 1
  <2>1. Stopped(n)  BY <1>2 DEF Invalid
  <2>2. n \in Nat /\ f.pos + n <= Len(f.src) /\ Stopper(n) \in Token
        BY <1>1, <1>2, <2>1, RunInRange
  <2> QED  BY <2>2, TopOK
<1>4. /\ StackStep
      /\ delivered' \in Seq(Token)
      BY <1>1, <1>2, <1>3, StopAtStack
<1>5. status' \in Statuses /\ ret' \in Errors /\ diag' \in Errors \X Seq(Token)
  <2>1. <<Stopper(n)>> \in Seq(Token) /\ "validation_error" \in Errors
        BY <1>3 DEF Errors
  <2> QED  BY <1>2, <2>1, FailTyped
<1>6. result' \in [Slot -> Value]  BY <1>1, <1>2, <1>3, KeepTyped
<1>7. TypeOK'  BY <1>1, <1>4, <1>5, <1>6 DEF StackStep, TypeOK
<1> QED  BY <1>1, <1>4, <1>7 DEF StackStep

-----------------------------------------------------------------------------
(* parse_options_into_impl(): *)

\* The end of a list.
LEMMA LoopEndsKeeps ==
    ASSUME ParserOK, LoopEnds
    PROVE  ParserOK' /\ FirstForward
<1> USE DEF ParserOK
<1>1. StackStep  BY StackUntouched DEF LoopEnds, shared
<1>2. TypeOK'  BY DEF StackStep, TypeOK, LoopEnds, shared, history, Statuses, Errors
<1> QED  BY <1>1, <1>2 DEF StackStep, LoopEnds

\* A new call of the loop, whatever calls it.
LEMMA NewFrameOK ==
    ASSUME NEW kind \in FrameKind, NEW stream \in BOOLEAN, NEW src \in Seq(Token), NEW pos \in Nat \ {0},
           NEW tuple \in Seq(Entry), NEW group \in Nat, NEW t, NEW n \in Nat,
           pos <= Len(src) + 1,
           \/ tuple = t /\ kind # "group"
           \/ \E e \in 1..Len(t) : /\ t[e].exclusive /\ tuple = Members(t[e])
                                   /\ kind = "group" => group = e
    PROVE  /\ NewFrame(kind, stream, src, pos, tuple, group) \in Frame
           /\ FrameOK(NewFrame(kind, stream, src, pos, tuple, group), t, n)
<1> DEFINE g == NewFrame(kind, stream, src, pos, tuple, group)
<1>1. /\ g.kind = kind /\ g.src = src /\ g.pos = pos /\ g.tuple = tuple
      /\ g.i = 0 /\ g.stage = "name" /\ g.group = group
      BY DEF NewFrame
<1>2. g \in FrameFields  BY DEF NewFrame, FrameFields
<1>3. g.i <= Len(g.tuple) + 1  BY <1>1
<1>4. g \in Frame  BY <1>2, <1>3 DEF Frame
<1> HIDE DEF g
<1>5. PartOf(g, t)  BY <1>1 DEF PartOf
<1>6. FrameOK(g, t, n)  BY <1>1, <1>5 DEF FrameOK
<1> QED  BY <1>4, <1>6 DEF g

\* What a file holds, readable or not, is a sequence of tokens.
LEMMA TokensOfTyped ==
    ASSUME NEW t
    PROVE  TokensOf(t) \in Seq(Token)
BY FileType DEF TokensOf

\* Opening a file, at the head of the loop or for an entry that is no positional.
LEMMA OpenStack ==
    ASSUME TypeOK, StackOK, NEW t, Open(t), UNCHANGED <<call, nextPositional>>,
           f.pos <= Len(f.src), f.i <= Len(f.tuple),
           f.i >= 1 => ~PositionalAt(f.tuple, f.i)
    PROVE  StackStep
<1> DEFINE src == TokensOf(FileOf(t))
           g == NewFrame("file", TRUE, src, 1, f.tuple, 0)
<1>1. src \in Seq(Token) /\ 1 <= Len(src) + 1  BY TokensOfTyped
<1>2. f.tuple \in Seq(Entry) /\ PartOf(f, call.tuple)
      BY TopOK DEF FrameFields, FrameOK
<1>3. g \in Frame /\ FrameOK(g, call.tuple, nextPositional)
  <2>1. "file" \in FrameKind /\ 1 \in Nat \ {0} /\ 0 \in Nat  BY DEF FrameKind
  <2>2. \/ f.tuple = call.tuple
        \/ \E e \in 1..Len(call.tuple) : /\ call.tuple[e].exclusive
                                        /\ f.tuple = Members(call.tuple[e])
        BY <1>2 DEF PartOf
  <2> HIDE DEF src
  <2> QED  BY <1>1, <1>2, <2>1, <2>2, TopOK, NewFrameOK
<1>4. g.kind = "file"  BY DEF NewFrame
<1>5. CallOK(f, g)  BY <1>4 DEF CallOK
<1>6. frames' = Append(frames, g)  BY DEF Open
<1> HIDE DEF g
<1> QED  BY <1>3, <1>5, <1>6, PushStack

\* "@file".
LEMMA OpenAtFileKeeps ==
    ASSUME ParserOK, OpenAtFile
    PROVE  ParserOK' /\ FirstForward
<1> USE DEF ParserOK
<1>1. /\ ~AtEnd /\ f.i = 0 /\ f.pos <= Len(f.src) /\ f.i <= Len(f.tuple)
      /\ UNCHANGED <<call, nextPositional>>
      BY TopOK DEF OpenAtFile, AtLoopHead, AtEnd, shared
<1>2. /\ StackStep
      /\ status' \in Statuses /\ ret' \in Errors /\ diag' \in Errors \X Seq(Token)
  <2>1. CASE AtFile[arg] \in DOMAIN Content
    <3>1. Open(arg) /\ UNCHANGED <<status, ret, diag>>  BY <2>1 DEF OpenAtFile
    <3>2. StackStep  BY <1>1, <3>1, OpenStack
    <3> QED  BY <3>1, <3>2 DEF TypeOK
  <2>2. CASE AtFile[arg] \notin DOMAIN Content
    <3>1. Fail("validation_error", <<arg>>) /\ UNCHANGED frames
          BY <2>2 DEF OpenAtFile
    <3>2. <<arg>> \in Seq(Token) /\ "validation_error" \in Errors
          BY <1>1, ArgTyped DEF Errors
    <3>3. status' \in Statuses /\ ret' \in Errors /\ diag' \in Errors \X Seq(Token)
          BY <3>1, <3>2, FailTyped
    <3> QED  BY <1>1, <3>1, <3>3, StackUntouched DEF TypeOK
  <2> QED  BY <2>1, <2>2
<1>3. TypeOK'  BY <1>2 DEF StackStep, TypeOK, OpenAtFile, shared, history
<1> QED  BY <1>2, <1>3 DEF StackStep, OpenAtFile

\* The file named by a response_file() option.
LEMMA OpenNamedFileKeeps ==
    ASSUME ParserOK, OpenNamedFile
    PROVE  ParserOK' /\ FirstForward
<1> USE DEF ParserOK
<1>1. /\ ~AtEnd /\ f.pos <= Len(f.src) /\ f.i <= Len(f.tuple)
      /\ ~PositionalAt(f.tuple, f.i)
      /\ UNCHANGED <<call, nextPositional>>
  <2>1. ~AtEnd /\ AtLeaf /\ Decl[opt].kind = "response_file"
        BY ArgsDueLeaf DEF OpenNamedFile
  <2> QED  BY <2>1, TopOK
           DEF OpenNamedFile, AtLeaf, AtEnd, shared, PositionalAt, IsPositional, opt
<1>2. /\ StackStep
      /\ status' \in Statuses /\ diag' \in Errors \X Seq(Token)
  <2>1. CASE arg \in DOMAIN Content \/ call.deserializing
    <3>1. Open(arg) /\ UNCHANGED <<status, diag>>  BY <2>1 DEF OpenNamedFile
    <3>2. StackStep  BY <1>1, <3>1, OpenStack
    <3> QED  BY <3>1, <3>2 DEF TypeOK
  <2>2. CASE ~(arg \in DOMAIN Content \/ call.deserializing)
    <3>1. Exit1("validation_error", <<arg>>) /\ UNCHANGED frames
          BY <2>2 DEF OpenNamedFile
    <3>2. <<arg>> \in Seq(Token)  BY <1>1, ArgTyped
    <3>3. status' \in Statuses /\ diag' \in Errors \X Seq(Token)
          BY <3>1, <3>2 DEF Exit1, Statuses, Errors
    <3> QED  BY <1>1, <3>1, <3>3, StackUntouched DEF TypeOK
  <2> QED  BY <2>1, <2>2
<1>3. TypeOK'  BY <1>2 DEF StackStep, TypeOK, OpenNamedFile, shared, history
<1> QED  BY <1>2, <1>3 DEF StackStep, OpenNamedFile

\* The start of a pass over the tuple.
LEMMA BeginFoldKeeps ==
    ASSUME ParserOK, BeginFold
    PROVE  ParserOK' /\ FirstForward
<1> USE DEF ParserOK
<1> DEFINE g == [f EXCEPT !.i = 1, !.initial = f.pos, !.pidx = -1]
<1>1. f.i = 0 /\ f.pos <= Len(f.src) /\ UNCHANGED <<call, nextPositional>> /\ SetTop(g)
      BY TopOK DEF BeginFold, AtLoopHead, AtEnd, shared
<1>2. f.stage = "name"
  <2>1. f.stage # "args"  BY <1>1, TopOK DEF FrameOK
  <2> QED  BY <2>1, TopOK DEF FrameFields
<1>3. /\ g \in FrameFields
      /\ g.pos = f.pos /\ g.src = f.src /\ g.kind = f.kind /\ g.tuple = f.tuple
      /\ g.i = 1 /\ g.stage = "name" /\ g.pidx = -1 /\ g.initial = f.pos
      /\ g.group = f.group
  <2>1. f.pos \in Nat \ {0} /\ -1 \in Int /\ 1 \in Nat  BY TopOK
  <2> QED  BY <1>2, <2>1, TopOK DEF FrameFields
<1>4. g \in Frame
  <2>1. g.i <= Len(g.tuple) + 1  BY <1>3, TopOK
  <2> QED  BY <1>3, <2>1 DEF Frame
<1>5. FrameOK(g, call.tuple, nextPositional)
  <2>1. g.pidx + 1 = Ordinal(g.tuple, g.i - 1)  BY <1>3, OrdinalZero
  <2>2. g.pidx + 1 <= nextPositional  BY <1>3, TopOK
  <2>3. PartOf(f, call.tuple)  BY TopOK DEF FrameOK
  <2> HIDE DEF g
  <2>4. PartOf(g, call.tuple)  BY <1>3, <2>3, PartOfSame
  <2> QED  BY <1>1, <1>3, <2>1, <2>2, <2>4, TopOK DEF FrameOK
<1>6. StackStep
  <2>1. /\ nextPositional' \in Nat /\ nextPositional <= nextPositional'
        /\ FrameOK(g, call.tuple, nextPositional') /\ f.pos <= g.pos
        BY <1>1, <1>3, <1>5, TopOK
  <2> HIDE DEF g
  <2> QED  BY <1>1, <1>3, <1>4, <2>1, SetTopStack
<1>7. TypeOK'  BY <1>6 DEF StackStep, TypeOK, BeginFold, shared, history
<1> QED  BY <1>6, <1>7 DEF StackStep, BeginFold

\* The call for an exclusive group.
LEMMA EnterGroupKeeps ==
    ASSUME ParserOK, EnterGroup
    PROVE  ParserOK' /\ FirstForward
<1> USE DEF ParserOK
<1> DEFINE e == f.tuple[f.i]
           g == NewFrame("group", f.stream, f.src, f.pos, Members(e), f.i)
<1>1. /\ f.i \in 1..Len(f.tuple) /\ f.i \in Nat \ {0} /\ e.exclusive
      /\ frames' = Append(frames, g) /\ UNCHANGED <<call, nextPositional>>
      BY TopOK DEF EnterGroup, Members, shared
<1>2. f.tuple = call.tuple
      BY <1>1, TopOK, GroupPart DEF FrameOK
<1>3. e \in Entry  BY <1>1, TopOK DEF FrameFields
<1>4. Members(e) \in Seq(Entry)  BY <1>3, MembersTyped
<1>5. \E k \in 1..Len(call.tuple) : /\ call.tuple[k].exclusive
                                    /\ Members(e) = Members(call.tuple[k])
                                    /\ f.i = k
      BY <1>1, <1>2
<1>6. g \in Frame /\ FrameOK(g, call.tuple, nextPositional)
  <2>1. /\ "group" \in FrameKind /\ f.src \in Seq(Token) /\ f.i \in Nat
        /\ f.stream \in BOOLEAN
        /\ f.pos <= Len(f.src) + 1
        BY TopOK DEF FrameKind, FrameFields, FrameOK
  <2> HIDE DEF e
  <2> QED  BY <1>4, <1>5, <2>1, TopOK, NewFrameOK
<1>7. CallOK(f, g)
  <2>1. g.kind = "group" /\ g.src = f.src /\ g.pos = f.pos  BY DEF NewFrame
  <2> HIDE DEF g
  <2> QED  BY <1>1, <2>1, TopOK DEF CallOK, PositionalAt
<1>8. StackStep
  <2> HIDE DEF g
  <2> QED  BY <1>1, <1>6, <1>7, PushStack
<1>9. TypeOK'  BY <1>8 DEF StackStep, TypeOK, EnterGroup, shared, history
<1> QED  BY <1>8, <1>9 DEF StackStep, EnterGroup

\* The end of a pass over the tuple.
LEMMA EndFoldKeeps ==
    ASSUME ParserOK, EndFold
    PROVE  ParserOK' /\ FirstForward
<1> USE DEF ParserOK
<1> DEFINE g == [f EXCEPT !.i = 0]
<1>1. f.i > Len(f.tuple) /\ UNCHANGED <<call, nextPositional>>  BY DEF EndFold, shared
<1>2. g \in Frame /\ FrameOK(g, call.tuple, nextPositional)
      /\ g.kind = f.kind /\ g.src = f.src /\ g.pos = f.pos
  <2>1. f.stage # "args"  BY <1>1, TopOK DEF FrameOK
  <2>2. /\ g \in FrameFields /\ g.kind = f.kind /\ g.src = f.src /\ g.pos = f.pos
        /\ g.group = f.group /\ g.tuple = f.tuple /\ g.i = 0 /\ g.stage = f.stage
        BY TopOK DEF FrameFields
  <2>3. g.i <= Len(g.tuple) + 1  BY <2>2, TopOK
  <2>4. g \in Frame  BY <2>2, <2>3 DEF Frame
  <2>5. FrameOK(g, call.tuple, nextPositional)
    <3> HIDE DEF g
    <3>1. PartOf(f, call.tuple)  BY TopOK DEF FrameOK
    <3>2. PartOf(g, call.tuple)  BY <2>2, <3>1, PartOfSame
    <3> QED  BY <2>1, <2>2, <3>2, TopOK DEF FrameOK
  <2> QED  BY <2>2, <2>4, <2>5
<1>3. /\ StackStep
      /\ status' \in Statuses /\ ret' \in Errors /\ diag' \in Errors \X Seq(Token)
  <2>1. CASE ~BackAtInitial
    <3>1. SetTop(g) /\ UNCHANGED <<status, ret, diag>>  BY <2>1 DEF EndFold
    <3>2. /\ nextPositional' \in Nat /\ nextPositional <= nextPositional'
          /\ FrameOK(g, call.tuple, nextPositional') /\ f.pos <= g.pos
          BY <1>1, <1>2, TopOK
    <3> HIDE DEF g
    <3>3. StackStep  BY <1>1, <1>2, <3>1, <3>2, SetTopStack
    <3> QED  BY <3>1, <3>3 DEF TypeOK
  <2>2. CASE BackAtInitial
    <3>1. UNCHANGED frames  BY <2>2 DEF EndFold
    <3>2. CASE call.final
      <4>1. Fail("unknown_arg", <<arg>>)  BY <2>2, <3>2 DEF EndFold
      <4>2. <<arg>> \in Seq(Token) /\ "unknown_arg" \in Errors
        <5>1. f.pos <= Len(f.src)  BY <1>1, <2>2, TopOK DEF FrameOK, FrameFields, BackAtInitial
        <5>2. arg \in Token  BY <5>1, TopOK, ArgTyped DEF AtEnd
        <5> QED  BY <5>2 DEF Errors
      <4> QED  BY <1>1, <3>1, <4>1, <4>2, FailTyped, StackUntouched DEF TypeOK
    <3>3. CASE ~call.final
      <4>1. status' = "return" /\ ret' = "none" /\ UNCHANGED diag
            BY <2>2, <3>3 DEF EndFold
      <4> QED  BY <1>1, <3>1, <4>1, StackUntouched DEF TypeOK, Statuses, Errors
    <3> QED  BY <3>2, <3>3
  <2> QED  BY <2>1, <2>2
<1>4. TypeOK'  BY <1>3 DEF StackStep, TypeOK, EndFold, shared, history
<1> QED  BY <1>3, <1>4 DEF StackStep, EndFold

-----------------------------------------------------------------------------
(* Returning: *)

\* The return of a file's call.
LEMMA ReturnFromFileKeeps ==
    ASSUME ParserOK, ReturnFromFile
    PROVE  ParserOK' /\ FirstForward
<1> USE DEF ParserOK
<1> DEFINE b == caller
           i == IF b.i = 0 THEN 0 ELSE b.i + 1
           g == [b EXCEPT !.pos = b.pos + 1, !.stage = "name", !.i = i]
<1>1. f.kind = "file" /\ UNCHANGED <<call, nextPositional>> /\ Pop(g)
  <2>1. Pop([caller EXCEPT !.pos = @ + 1, !.stage = "name",
                           !.i = IF @ = 0 THEN 0 ELSE @ + 1])
        BY DEF ReturnFromFile
  <2>2. [caller EXCEPT !.pos = @ + 1, !.stage = "name",
                       !.i = IF @ = 0 THEN 0 ELSE @ + 1] = g
        OBVIOUS
  <2> QED  BY <2>1, <2>2 DEF ReturnFromFile, shared
<1>2. /\ b \in FrameFields /\ b.pos \in Nat \ {0} /\ b.i \in Nat
      /\ Len(b.src) \in Nat /\ Len(b.tuple) \in Nat
      /\ FrameOK(b, call.tuple, nextPositional)
      /\ b.pos <= Len(b.src) /\ b.i <= Len(b.tuple)
      /\ b.i >= 1 => ~PositionalAt(b.tuple, b.i)
  <2>1. caller \in FrameFields  BY <1>1, CallerFrame DEF Frame
  <2>2. caller.src \in Seq(Token) /\ caller.tuple \in Seq(Entry)
        BY <2>1 DEF FrameFields
  <2> QED  BY <1>1, <2>1, <2>2, CallerFrame DEF CallOK, FrameFields
<1> HIDE DEF b
<1>3. /\ g \in FrameFields
      /\ g.pos = b.pos + 1 /\ g.src = b.src /\ g.kind = b.kind /\ g.tuple = b.tuple
      /\ g.i = i /\ g.stage = "name" /\ g.pidx = b.pidx /\ g.initial = b.initial
      /\ g.group = b.group
  <2>1. i \in Nat /\ b.pos + 1 \in Nat \ {0}  BY <1>2
  <2> HIDE DEF i
  <2> QED  BY <1>2, <2>1 DEF FrameFields
<1> HIDE DEF g
<1>4. g \in Frame
  <2>1. g.i <= Len(g.tuple) + 1  BY <1>2, <1>3
  <2> QED  BY <1>3, <2>1 DEF Frame
<1>5. FrameOK(g, call.tuple, nextPositional)
  <2>0. PartOf(g, call.tuple)  BY <1>2, <1>3, PartOfSame DEF FrameOK
  <2>1. CASE b.i = 0  BY <2>0, <2>1, <1>2, <1>3 DEF FrameOK
  <2>2. CASE b.i # 0
    <3>1. b.i \in Nat \ {0} /\ b.i >= 1  BY <2>2, <1>2
    <3>2. Ordinal(b.tuple, b.i) = Ordinal(b.tuple, b.i - 1)
      <4>0. b.i - 1 \in Nat  BY <3>1
      <4>1. Ordinal(b.tuple, b.i - 1) \in Nat  BY <4>0, OrdinalType
      <4> QED  BY <3>1, <4>1, <1>2, OrdinalStep
    <3>3. g.pidx + 1 = Ordinal(g.tuple, g.i - 1)
          BY <3>1, <3>2, <1>2, <1>3 DEF FrameOK
    <3>4. g.pidx + 1 <= nextPositional /\ g.initial <= Len(g.src)
          BY <3>1, <1>2, <1>3 DEF FrameOK
    <3> QED  BY <2>0, <3>3, <3>4, <1>2, <1>3 DEF FrameOK
  <2> QED  BY <2>1, <2>2
<1>6. StackStep
  <2>1. g.kind = caller.kind /\ g.src = caller.src /\ caller.pos <= g.pos
        BY <1>2, <1>3 DEF b
  <2> QED  BY <1>1, <1>4, <1>5, <2>1, PopStack
<1>7. TypeOK'
      BY <1>6 DEF StackStep, TypeOK, ReturnFromFile, shared, history, Statuses, Errors
<1> QED  BY <1>6, <1>7 DEF StackStep, ReturnFromFile

\* The return of a group's call.
LEMMA ReturnFromGroupKeeps ==
    ASSUME ParserOK, ReturnFromGroup
    PROVE  ParserOK' /\ FirstForward
<1> USE DEF ParserOK
<1> DEFINE b == caller
           p == f.pos
           g == [b EXCEPT !.pos = p, !.i = b.i + 1]
<1>1. f.kind = "group" /\ UNCHANGED <<call, nextPositional>> /\ Pop(g)
  <2>1. Pop([caller EXCEPT !.pos = f.pos, !.i = @ + 1])  BY DEF ReturnFromGroup
  <2>2. [caller EXCEPT !.pos = f.pos, !.i = @ + 1] = g  OBVIOUS
  <2> QED  BY <2>1, <2>2 DEF ReturnFromGroup, shared
<1>2. /\ b \in FrameFields /\ b.pos \in Nat \ {0} /\ b.i \in Nat \ {0}
      /\ Len(b.src) \in Nat /\ Len(b.tuple) \in Nat
      /\ FrameOK(b, call.tuple, nextPositional)
      /\ b.i <= Len(b.tuple)
      /\ ~PositionalAt(b.tuple, b.i) /\ b.tuple[b.i].exclusive
  <2>1. caller \in FrameFields  BY <1>1, CallerFrame DEF Frame
  <2>2. caller.src \in Seq(Token) /\ caller.tuple \in Seq(Entry)
        BY <2>1 DEF FrameFields
  <2> QED  BY <1>1, <2>1, <2>2, CallerFrame DEF CallOK, FrameFields
<1>3. p \in Nat \ {0} /\ b.pos <= p /\ p <= Len(b.src) + 1
  <2>1. f.src = b.src /\ b.pos <= f.pos  BY <1>1, CallerFrame DEF CallOK
  <2> QED  BY <2>1, TopOK DEF FrameOK
<1> HIDE DEF b, p
<1>4. /\ g \in FrameFields
      /\ g.pos = p /\ g.src = b.src /\ g.kind = b.kind /\ g.tuple = b.tuple
      /\ g.i = b.i + 1 /\ g.stage = b.stage /\ g.pidx = b.pidx
      /\ g.initial = b.initial /\ g.group = b.group
  <2>1. b.i + 1 \in Nat  BY <1>2
  <2> QED  BY <1>2, <1>3, <2>1 DEF FrameFields
<1> HIDE DEF g
<1>5. g \in Frame
  <2>1. g.i <= Len(g.tuple) + 1  BY <1>2, <1>4
  <2> QED  BY <1>4, <2>1 DEF Frame
<1>6. FrameOK(g, call.tuple, nextPositional)
  <2>1. b.stage # "args"  BY <1>2 DEF FrameOK
  <2>2. Ordinal(b.tuple, b.i) = Ordinal(b.tuple, b.i - 1)
    <3>0. b.i - 1 \in Nat  BY <1>2
    <3>1. Ordinal(b.tuple, b.i - 1) \in Nat  BY <3>0, OrdinalType
    <3> QED  BY <3>1, <1>2, OrdinalStep
  <2>3. g.pidx + 1 = Ordinal(g.tuple, g.i - 1)
        BY <2>2, <1>2, <1>4 DEF FrameOK
  <2>4. g.pos <= Len(g.src) => g.pidx + 1 <= nextPositional
        BY <1>2, <1>3, <1>4 DEF FrameOK
  <2>5. g.initial <= Len(g.src) /\ PartOf(g, call.tuple)
        BY <1>2, <1>4, PartOfSame DEF FrameOK
  <2> QED  BY <2>1, <2>3, <2>4, <2>5, <1>3, <1>4 DEF FrameOK
<1>7. StackStep
  <2>1. g.kind = caller.kind /\ g.src = caller.src /\ caller.pos <= g.pos
        BY <1>3, <1>4 DEF b
  <2> QED  BY <1>1, <1>5, <1>6, <2>1, PopStack
<1>8. TypeOK'
      BY <1>7 DEF StackStep, TypeOK, ReturnFromGroup, shared, history, Statuses
<1> QED  BY <1>7, <1>8 DEF StackStep, ReturnFromGroup

\* The defaults are values.
LEMMA DefaultsTyped ==
    ASSUME TypeOK
    PROVE  WithDefaults \in [Slot -> Value]
<1> DEFINE given(s) == {o \in Leaves(call.tuple) :
                           /\ Decl[o].slot = s
                           /\ Decl[o].default # {} /\ ~Decl[o].required}
           o(s) == CHOOSE q \in given(s) : TRUE
           t(s) == CHOOSE d \in Decl[o(s)].default : TRUE
           v(s) == IF result[s].set \/ given(s) = {} THEN result[s]
                   ELSE AssignOrInsert(o(s), result[s], <<t(s)>>)
<1>1. ASSUME NEW s \in Slot  PROVE v(s) \in Value
  <2>1. result[s] \in Value  BY DEF TypeOK
  <2>2. CASE result[s].set \/ given(s) = {}  BY <2>1, <2>2
  <2>3. CASE ~(result[s].set \/ given(s) = {})
    <3>1. o(s) \in given(s)  BY <2>3
    <3>2. o(s) \in Leaves(call.tuple) /\ Decl[o(s)].default # {}  BY <3>1
    <3>3. Leaves(call.tuple) \subseteq Option
      <4>1. call.tuple \in Seq(Entry)  BY DEF TypeOK, Call
      <4>2. \A k \in 1..Len(call.tuple) : call.tuple[k].opts[1] \in Option
        <5>1. ASSUME NEW e \in Entry  PROVE e.opts[1] \in Option
          <6>1. e.opts \in Seq(Option) /\ e.opts # << >>  BY DEF Entry
          <6> QED  BY <6>1
        <5> QED  BY <4>1, <5>1
      <4> QED  BY <4>2 DEF Leaves
    <3> HIDE DEF o, given
    <3>4. o(s) \in Option /\ Decl[o(s)].default \subseteq Token
          BY <3>2, <3>3, DeclType DEF Declaration
    <3>5. t(s) \in Token  BY <3>2, <3>4
    <3> HIDE DEF t
    <3>6. <<t(s)>> \in Seq(Token)  BY <3>5
    <3>7. AssignOrInsert(o(s), result[s], <<t(s)>>) \in Value
          BY <2>1, <3>4, <3>6, AssignTyped
    <3> QED  BY <2>3, <3>7
  <2> QED  BY <2>2, <2>3
<1>2. WithDefaults = [s \in Slot |-> v(s)]  BY DEF WithDefaults
<1> QED
  <2> HIDE DEF v
  <2> QED  BY <1>1, <1>2

\* The end of the whole parse.
LEMMA FinishKeeps ==
    ASSUME ParserOK, Finish
    PROVE  ParserOK' /\ FirstForward
<1> USE DEF ParserOK
<1>1. /\ status' \in Statuses /\ diag' \in Errors \X Seq(Token)
      /\ result' \in [Slot -> Value]
  <2>1. CASE ret # "none"  BY <2>1 DEF Finish, TypeOK, Statuses
  <2>2. CASE ret = "none" /\ MissingPositional
    <3>1. Exit1("missing_positional", << >>) /\ UNCHANGED result
          BY <2>2 DEF Finish
    <3>2. << >> \in Seq(Token) /\ "missing_positional" \in Errors  BY DEF Errors
    <3> QED  BY <3>1, <3>2 DEF Exit1, Statuses, TypeOK
  <2>3. CASE ret = "none" /\ ~MissingPositional
        BY <2>3, DefaultsTyped DEF Finish, TypeOK, Statuses
  <2> QED  BY <2>1, <2>2, <2>3
<1>2. StackStep  BY StackUntouched DEF Finish
<1>3. TypeOK'  BY <1>1 DEF StackStep, TypeOK, Finish, history
<1> QED  BY <1>2, <1>3 DEF StackStep, Finish

\* A step of the parse, whatever calls parse_options_into(): one action or another.
LEMMA ParserStep ==
    ASSUME ParserOK, ParseOption \/ Impl \/ Finish
    PROVE  ParserOK' /\ FirstForward
<1>1. CASE ParseOption
      BY <1>1, SkipTakenPositionalKeeps, NoMatchKeeps, CountShortKeeps,
         RejectSecondExclusiveKeeps, MatchNameKeeps, NoArgsLeftKeeps,
         TakeArgsKeeps, TooFewArgsKeeps, InvalidArgKeeps DEF ParseOption
<1>2. CASE Impl
      BY <1>2, LoopEndsKeeps, OpenAtFileKeeps, OpenNamedFileKeeps,
         BeginFoldKeeps, EnterGroupKeeps, EndFoldKeeps, ReturnFromFileKeeps,
         ReturnFromGroupKeeps DEF Impl
<1>3. CASE Finish  BY <1>3, FinishKeeps
<1> QED  BY <1>1, <1>2, <1>3

\* A stuttering step.
LEMMA ParserStutters ==
    ASSUME ParserOK, UNCHANGED vars
    PROVE  ParserOK' /\ FirstForward
<1>1. TypeOK'  BY DEF ParserOK, TypeOK, vars
<1>2. StackStep  BY StackUntouched DEF ParserOK, vars
<1> QED  BY <1>1, <1>2 DEF ParserOK, StackStep, vars

-----------------------------------------------------------------------------
(* The order of the positionals. *)

\* PositionalsInOrder is about next_positional and its history alone.
LEMMA OrderUntouched ==
    ASSUME PositionalsInOrder, UNCHANGED <<call, nextPositional, taken>>
    PROVE  PositionalsInOrder'
BY DEF PositionalsInOrder

\* One more positional matched, and it is the one whose turn it was.
LEMMA OrderExtended ==
    ASSUME IInv, AtLeaf, f.pos <= Len(f.src), IsPositional(opt), Looking,
           UNCHANGED call,
           nextPositional' = nextPositional + 1, taken' = Append(taken, opt)
    PROVE  PositionalsInOrder'
<1> USE DEF IInv, ParserOK
<1>1. f.i \in Nat \ {0} /\ f.i <= Len(f.tuple)  BY TopOK DEF AtLeaf
<1>2. PositionalAt(f.tuple, f.i)  BY DEF PositionalAt, opt, AtLeaf
<1>3. f.tuple = call.tuple
  <2>1. PartOf(f, call.tuple)  BY TopOK DEF FrameOK
  <2>2. f.i \in 1..Len(f.tuple)  BY <1>1, TopOK
  <2> QED  BY <1>2, <2>1, <2>2, GroupPart
<1>4. f.pidx + 1 = nextPositional
  <2>1. f.pidx + 1 <= nextPositional  BY <1>1, TopOK DEF FrameOK
  <2>2. f.pidx + 1 >= nextPositional  BY DEF Looking
  <2> QED  BY <2>1, <2>2, TopOK
<1>5. Ordinal(f.tuple, f.i) = nextPositional + 1
  <2>1. f.pidx + 1 = Ordinal(f.tuple, f.i - 1)  BY <1>1, TopOK DEF FrameOK
  <2>2. Ordinal(f.tuple, f.i) = Ordinal(f.tuple, f.i - 1) + 1
        BY <1>1, <1>2, OrdinalStep
  <2> QED  BY <1>4, <2>1, <2>2
<1>6. /\ taken \in Seq(Option) /\ opt \in Option /\ Len(taken) = nextPositional
      /\ nextPositional \in Nat
      BY LeafOption DEF TypeOK, PositionalsInOrder
<1>7. Len(taken') = nextPositional'  BY <1>6
<1>8. ASSUME NEW n \in 1..Len(taken')
      PROVE  \E e \in 1..Len(call.tuple) :
                 /\ PositionalAt(call.tuple, e) /\ Ordinal(call.tuple, e) = n
                 /\ taken'[n] = call.tuple[e].opts[1]
  <2>1. CASE n = nextPositional + 1
    <3>1. taken'[n] = opt  BY <2>1, <1>6
    <3>2. f.i \in 1..Len(call.tuple)  BY <1>1, <1>3, TopOK
    <3> QED  BY <3>1, <3>2, <2>1, <1>2, <1>3, <1>5 DEF opt
  <2>2. CASE n # nextPositional + 1
    <3>1. n \in 1..Len(taken) /\ taken'[n] = taken[n]  BY <2>2, <1>6
    <3> QED  BY <3>1 DEF PositionalsInOrder
  <2> QED  BY <2>1, <2>2
<1>9. call' = call  OBVIOUS
<1> QED  BY <1>7, <1>8, <1>9 DEF PositionalsInOrder

\* Only TakeArgs matches a positional.
LEMMA OrderKept ==
    ASSUME IInv, [Next]_vars
    PROVE  PositionalsInOrder'
<1>1. CASE TakeArgs
  <2>1. /\ AtLeaf /\ ParsingArgs /\ UNCHANGED call
        /\ IsPositional(opt) => Looking
        BY <1>1, ArgsDueLeaf DEF TakeArgs, ParsingArgs, IInv, ParserOK
  <2>2. f.pos <= Len(f.src)
        BY <2>1, TopOK DEF ParsingArgs, AtEnd, IInv, ParserOK
  <2>3. CASE IsPositional(opt)
        BY <1>1, <2>1, <2>2, <2>3, OrderExtended DEF TakeArgs
  <2>4. CASE ~IsPositional(opt)
        BY <1>1, <2>1, <2>4, OrderUntouched DEF TakeArgs, IInv
  <2> QED  BY <2>3, <2>4
<1>2. CASE Impl \/ Finish \/ Stay \/ UNCHANGED vars
  <2>1. UNCHANGED <<call, nextPositional, taken>>
        BY <1>2 DEF Impl, LoopEnds, OpenAtFile, OpenNamedFile, BeginFold, EnterGroup, EndFold,
                    ReturnFromFile, ReturnFromGroup, Finish, Stay, vars, shared, history
  <2> QED  BY <2>1, OrderUntouched DEF IInv
<1>3. CASE ParseOption /\ ~TakeArgs
  <2>1. UNCHANGED <<call, nextPositional, taken>>
        BY <1>3 DEF ParseOption, SkipTakenPositional, NoMatch, CountShort, RejectSecondExclusive,
                    MatchName, NoArgsLeft, TooFewArgs, InvalidArg, shared, history
  <2> QED  BY <2>1, OrderUntouched DEF IInv
<1> QED  BY <1>1, <1>2, <1>3 DEF Next

-----------------------------------------------------------------------------
(* The invariant, and what it implies. *)

\* The inductive invariant holds initially.
LEMMA InitIInv ==
    ASSUME Init
    PROVE  IInv
<1>1. PICK args \in ArgLists, m \in Modes :
         /\ call = [tuple |-> OptTuple, final |-> TRUE,
                    deserializing |-> m # "command_line"]
         /\ frames = <<NewFrame("top", m = "response_file", args, 1, OptTuple, 0)>>
      BY DEF Init, Start
<1> DEFINE stream == m = "response_file"
           g == NewFrame("top", stream, args, 1, OptTuple, 0)
<1>2. args \in Seq(Token) /\ OptTuple \in Seq(Entry) /\ stream \in BOOLEAN
      BY ArgsType, TupleType
<1>3. g \in Frame /\ FrameOK(g, OptTuple, 0) /\ g.kind = "top"
  <2>1. "top" \in FrameKind /\ 1 \in Nat \ {0} /\ 0 \in Nat /\ 1 <= Len(args) + 1
        BY <1>2 DEF FrameKind
  <2>2. g \in Frame /\ FrameOK(g, OptTuple, 0)  BY <1>2, <2>1, NewFrameOK
  <2> QED  BY <2>2 DEF NewFrame
<1>4. frames = <<g>>  BY <1>1
<1> HIDE DEF g
<1>5. frames \in Seq(Frame) /\ frames # << >> /\ Len(frames) = 1 /\ frames[1] = g
      BY <1>3, <1>4
<1>6. StackOK
  <2>1. nextPositional = 0  BY DEF Init, Start
  <2>2. 1..(Len(frames) - 1) = {} /\ 1..Len(frames) = {1}  BY <1>5
  <2> QED  BY <2>1, <2>2, <1>1, <1>3, <1>5 DEF StackOK
<1>7. PositionalsInOrder
  <2>1. taken = << >> /\ nextPositional = 0  BY DEF Init, Start
  <2>2. 1..Len(taken) = {} /\ Len(taken) = 0  BY <2>1
  <2> QED  BY <2>1, <2>2 DEF PositionalsInOrder
<1>8. Unset \in Value
  <2>1. << >> \in Seq(Token) /\ 0 \in Int  OBVIOUS
  <2> QED  BY <2>1 DEF Unset, Value
<1>9. call \in Call  BY <1>1, <1>2 DEF Call
<1>10. result \in [Slot -> Value]  BY <1>8 DEF Init, Start
<1>11. << >> \in Seq(Token) /\ << >> \in Seq(Option)  OBVIOUS
<1>12. diag \in Errors \X Seq(Token) /\ ret \in Errors /\ status \in Statuses
       BY <1>11 DEF Init, Start, Errors, Statuses
<1>13. TypeOK  BY <1>5, <1>9, <1>10, <1>11, <1>12 DEF TypeOK, Init, Start
<1>14. WellGrouped(OptTuple)  BY LeafType
<1> QED  BY <1>1, <1>6, <1>7, <1>13, <1>14 DEF IInv, ParserOK

\* Every step keeps the inductive invariant.
LEMMA NextIInv ==
    ASSUME IInv, [Next]_vars
    PROVE  IInv'
<1>1. ParserOK'
      BY ParserStep, ParserStutters DEF IInv, Next, Stay
<1>2. PositionalsInOrder'  BY OrderKept
<1> QED  BY <1>1, <1>2 DEF IInv

\* In every state of every parse the inductive invariant holds.
THEOREM Invariance == Spec => []IInv
<1>1. Init => IInv  BY InitIInv
<1>2. IInv /\ [Next]_vars => IInv'  BY NextIInv
<1> QED  BY <1>1, <1>2, PTL DEF Spec

\* The type invariant: the stack of calls is never empty, and every fold is at
\* an entry of its tuple or just past the last.
THEOREM TypeCorrect == Spec => []TypeOK
<1>1. IInv => TypeOK  BY DEF IInv, ParserOK
<1> QED  BY <1>1, Invariance, PTL

\* No iterator passes the end of its list, and "++sv_it" after a response file
\* (parsing.hpp 840) always steps over the file's name.
THEOREM CursorsStayInRange == Spec => []CursorsInRange
<1>1. IInv => CursorsInRange
  <2> SUFFICES ASSUME IInv  PROVE CursorsInRange  OBVIOUS
  <2>1. Len(frames) \in Nat  BY DEF IInv, ParserOK, TypeOK
  <2>2. ASSUME NEW k \in 1..Len(frames)
        PROVE  /\ frames[k].pos <= Len(frames[k].src) + 1
               /\ k < Len(frames) /\ frames[k + 1].kind = "file"
                     => frames[k].pos <= Len(frames[k].src)
    <3>1. frames[k].pos <= Len(frames[k].src) + 1
          BY DEF IInv, ParserOK, StackOK, FrameOK
    <3>2. k < Len(frames) => CallOK(frames[k], frames[k + 1])
          BY <2>1 DEF IInv, ParserOK, StackOK
    <3> QED  BY <3>1, <3>2 DEF CallOK
  <2> QED  BY <2>2 DEF CursorsInRange
<1> QED  BY <1>1, Invariance, PTL

\* Positionals are matched in the order of their declaration, none skipped and
\* none twice, through every interleaving of options, groups and files.
THEOREM PositionalsMatchInOrder == Spec => []PositionalsInOrder
<1>1. IInv => PositionalsInOrder  BY DEF IInv
<1> QED  BY <1>1, Invariance, PTL

-----------------------------------------------------------------------------
(* How a call ends. *)

\* fail() neither succeeds nor returns without an error.
LEMMA FailFails ==
    ASSUME NEW err, err # "none", NEW args, Fail(err, args)
    PROVE  status' # "ok" /\ (status' = "return" => ret' # "none")
BY DEF Fail, Exit1

\* The parse of one argument ends with an error or goes on.
LEMMA OptionParsed ==
    ASSUME ParseOption
    PROVE  status' # "ok" /\ (status' = "return" => ret' # "none")
<1> USE DEF AtLeaf
<1>1. CASE SkipTakenPositional  BY <1>1 DEF SkipTakenPositional
<1>2. CASE NoMatch  BY <1>2 DEF NoMatch, Looking
<1>3. CASE CountShort  BY <1>3 DEF CountShort, Looking
<1>4. CASE RejectSecondExclusive  BY <1>4, FailFails DEF RejectSecondExclusive
<1>5. CASE MatchName  BY <1>5 DEF MatchName, Named, Looking
<1>6. CASE NoArgsLeft  BY <1>6, FailFails DEF NoArgsLeft, ArgsDue, Looking
<1>7. CASE TakeArgs  BY <1>7 DEF TakeArgs, ParsingArgs, ArgsDue, Looking
<1>8. CASE TooFewArgs
  <2>1. PICK n \in 0..Len(f.src) :
           \/ Fail(ParseError(opt, Stopper(n)), <<Stopper(n)>>)
           \/ Fail("wrong_number_of_args", << >>)
        BY <1>8 DEF TooFewArgs
  <2>2. ParseError(opt, Stopper(n)) # "none"  BY DEF ParseError
  <2> QED  BY <2>1, <2>2, FailFails
<1>9. CASE InvalidArg  BY <1>9, FailFails DEF InvalidArg
<1> QED  BY <1>1, <1>2, <1>3, <1>4, <1>5, <1>6, <1>7, <1>8, <1>9 DEF ParseOption

\* A call of the loop returns without an error only at the end of its list, or
\* where the caller has more options to try.
LEMMA CallReturns ==
    ASSUME Impl
    PROVE  /\ status' # "ok"
           /\ status' = "return" /\ ret' = "none" =>
                 UNCHANGED <<call, frames>> /\ (AtEnd \/ ~call.final)
<1>1. CASE LoopEnds  BY <1>1 DEF LoopEnds
<1>2. CASE OpenAtFile  BY <1>2, FailFails DEF OpenAtFile, AtLoopHead
<1>3. CASE OpenNamedFile  BY <1>3 DEF OpenNamedFile, ArgsDue, Looking, AtLeaf, Exit1
<1>4. CASE BeginFold  BY <1>4 DEF BeginFold, AtLoopHead
<1>5. CASE EnterGroup  BY <1>5 DEF EnterGroup
<1>6. CASE EndFold  BY <1>6, FailFails DEF EndFold
<1>7. CASE ReturnFromFile  BY <1>7 DEF ReturnFromFile
<1>8. CASE ReturnFromGroup  BY <1>8 DEF ReturnFromGroup
<1> QED  BY <1>1, <1>2, <1>3, <1>4, <1>5, <1>6, <1>7, <1>8 DEF Impl

\* While it runs, a call does not succeed: only Finish says "ok".
LEMMA RunningIsNotOk ==
    ASSUME ParseOption \/ Impl
    PROVE  status' # "ok"
BY OptionParsed, CallReturns

\* A final call that returns without an error has read its whole list; what
\* succeeds is the outermost call.
EndOK ==
    /\ status = "return" /\ ret = "none" /\ call.final => AtEnd
    /\ status = "ok" => f.kind = "top" /\ (call.final => AtEnd)

LEMMA EndKept ==
    ASSUME EndOK, ParseOption \/ Impl \/ Finish
    PROVE  EndOK'
<1>1. CASE ParseOption  BY <1>1, OptionParsed DEF EndOK
<1>2. CASE Impl  BY <1>2, CallReturns DEF EndOK, AtEnd, f
<1>3. CASE Finish
  <2>1. /\ status = "return" /\ f.kind = "top" /\ UNCHANGED <<call, frames>>
        /\ status' # "return" /\ (status' = "ok" => ret = "none")
        BY <1>3 DEF Finish, Exit1
  <2> QED  BY <2>1 DEF EndOK, AtEnd, f
<1> QED  BY <1>1, <1>2, <1>3

\* While a file is loaded, fail() returns, and what exits is not looked at.
LEMMA LoadingKept ==
    ASSUME LoadingNeverExits, ParseOption \/ Impl \/ Finish
    PROVE  LoadingNeverExits'
<1> SUFFICES /\ call' = call
             /\ call.deserializing => status' \notin {"exit0", "exit1"}
    BY DEF LoadingNeverExits
<1>1. CASE ParseOption
  <2> USE DEF LoadingNeverExits, Fail
  <2>1. CASE SkipTakenPositional  BY <2>1 DEF SkipTakenPositional
  <2>2. CASE NoMatch  BY <2>2 DEF NoMatch
  <2>3. CASE CountShort  BY <2>3 DEF CountShort
  <2>4. CASE RejectSecondExclusive  BY <2>4 DEF RejectSecondExclusive
  <2>5. CASE MatchName  BY <2>5 DEF MatchName
  <2>6. CASE NoArgsLeft  BY <2>6 DEF NoArgsLeft
  <2>7. CASE TakeArgs  BY <2>7 DEF TakeArgs
  <2>8. CASE TooFewArgs  BY <2>8 DEF TooFewArgs
  <2>9. CASE InvalidArg  BY <2>9 DEF InvalidArg
  <2> QED  BY <1>1, <2>1, <2>2, <2>3, <2>4, <2>5, <2>6, <2>7, <2>8, <2>9
           DEF ParseOption
<1>2. CASE Impl
  <2> USE DEF LoadingNeverExits, Fail
  <2>1. CASE LoopEnds  BY <2>1 DEF LoopEnds
  <2>2. CASE OpenAtFile  BY <2>2 DEF OpenAtFile
  <2>3. CASE OpenNamedFile  BY <2>3 DEF OpenNamedFile
  <2>4. CASE BeginFold  BY <2>4 DEF BeginFold
  <2>5. CASE EnterGroup  BY <2>5 DEF EnterGroup
  <2>6. CASE EndFold  BY <2>6 DEF EndFold
  <2>7. CASE ReturnFromFile  BY <2>7 DEF ReturnFromFile
  <2>8. CASE ReturnFromGroup  BY <2>8 DEF ReturnFromGroup
  <2> QED  BY <1>2, <2>1, <2>2, <2>3, <2>4, <2>5, <2>6, <2>7, <2>8 DEF Impl
<1>3. CASE Finish  BY <1>3 DEF Finish, MissingPositional, LoadingNeverExits
<1> QED  BY <1>1, <1>2, <1>3

\* Whatever a saved file holds, loading it comes back to the caller.
THEOREM LoadingReturns == Spec => []LoadingNeverExits
<1>1. Init => LoadingNeverExits  BY DEF Init, Start, LoadingNeverExits
<1>2. LoadingNeverExits /\ [Next]_vars => LoadingNeverExits'
  <2>1. CASE ParseOption \/ Impl \/ Finish  BY <2>1, LoadingKept
  <2>2. CASE Stay \/ UNCHANGED vars  BY <2>2 DEF Stay, vars, LoadingNeverExits
  <2> QED  BY <2>1, <2>2 DEF Next
<1> QED  BY <1>1, <1>2, PTL DEF Spec

=============================================================================
