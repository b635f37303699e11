------------------------- MODULE CommandLine_proofs -------------------------
(* Theorems about CommandLine, for every tree of commands, whatever options   *)
(* they declare, and every command line.                                      *)
EXTENDS CommandLine, OptionResults_proofs

-----------------------------------------------------------------------------
(* The inductive invariant.                                                  *)
(*                                                                           *)
(* CTypeOK alone is not inductive: that the next argument is the one after   *)
(* the names of the contexts holds only until the contexts are parsed, and   *)
(* that a context's parse is of that context's own options is what makes     *)
(* "first", the result and the end of the command line mean anything.        *)

\* d is the first command in c with the name t.
FirstNamed(c, t, d) ==
    \E k \in 1..Len(SubsOf(c)) :
        /\ SubsOf(c)[k] = d /\ t \in CommandDecl[d].names
        /\ \A j \in 1..Len(SubsOf(c)) : t \in CommandDecl[SubsOf(c)[j]].names => k <= j

\* The contexts are a path of the command tree, and the first arguments name it.
PathOK ==
    /\ contexts \in Seq(Command) /\ contexts # << >> /\ contexts[1] \in Programs
    /\ Len(contexts) <= Len(frames[1].src)
    /\ \A k \in 1..(Len(contexts) - 1) :
          FirstNamed(contexts[k], frames[1].src[k + 1], contexts[k + 1])

\* Until the contexts are parsed, "first" is just past the names of the commands.
PrePassOK ==
    phase \in {"entry", "commands"} =>
        /\ Len(frames) = 1 /\ f.i = 0 /\ status = "run" /\ current = 1
        /\ f.pos = Len(contexts) + 1
        /\ phase = "entry" => Len(contexts) = 1
        /\ phase = "commands" => HasCommands

\* The contexts end with a leaf command, whose parse is the one that is final.
OptionsOK ==
    phase = "options" =>
        /\ SubsOf(contexts[Len(contexts)]) = << >>
        /\ current = Len(contexts) => call.final

CInv ==
    /\ ParserOK /\ EndOK /\ ~call.deserializing
    /\ PathOK /\ PrePassOK /\ OptionsOK
    /\ phase \in {"entry", "commands", "options", "done"}
    /\ current \in 1..Len(contexts)
    /\ call.tuple = OptionsOf(contexts[current])

-----------------------------------------------------------------------------
(* Commands and contexts. *)

\* A command's subcommands and options, in groups or not.
LEMMA CommandTyped ==
    ASSUME NEW c \in Command
    PROVE  /\ SubsOf(c) \in Seq(Command)
           /\ OptionsOf(c) \in Seq(Entry)
           /\ WellGrouped(OptionsOf(c))
BY CommandType DEF SubsOf, OptionsOf

\* A context is a command, and the path of contexts is what it was when no
\* context is added.
LEMMA ContextTyped ==
    ASSUME PathOK
    PROVE  /\ contexts \in Seq(Command) /\ Len(contexts) \in Nat \ {0}
           /\ \A k \in 1..Len(contexts) : contexts[k] \in Command
BY DEF PathOK

LEMMA SamePath ==
    ASSUME PathOK, UNCHANGED contexts, frames'[1].src = frames[1].src
    PROVE  PathOK'
BY DEF PathOK

\* The outermost call is on the stack alone when it is the innermost.
LEMMA TopIsFirst ==
    ASSUME ParserOK, f.kind = "top"
    PROVE  Len(frames) = 1 /\ f = frames[1]
<1> DEFINE L == Len(frames)
<1>1. L \in Nat /\ L >= 1 /\ f = frames[L]  BY DEF ParserOK, TypeOK, f
<1>2. L = 1
  <2> SUFFICES ASSUME L # 1  PROVE FALSE  OBVIOUS
  <2> HIDE DEF L
  <2>1. L - 1 \in 1..(L - 1) /\ (L - 1) + 1 = L  BY <1>1
  <2>2. CallOK(frames[L - 1], frames[(L - 1) + 1])  BY <2>1 DEF ParserOK, StackOK, L
  <2>3. CallOK(frames[L - 1], f)  BY <1>1, <2>1, <2>2
  <2> QED  BY <2>3 DEF CallOK
<1> QED  BY <1>1, <1>2

\* So it is as long as there is one call.
LEMMA OneFrame ==
    ASSUME ParserOK, Len(frames) = 1
    PROVE  /\ f = frames[1] /\ f.kind = "top"
           /\ f.src \in Seq(Token) /\ Len(f.src) \in Nat
           /\ f.pos \in Nat \ {0} /\ f.pos <= Len(f.src) + 1
<1>1. f = frames[1]  BY DEF f
<1>2. f.pos <= Len(f.src) + 1  BY TopOK DEF ParserOK, FrameOK
<1> QED  BY <1>1, <1>2, FirstFrame DEF ParserOK, StackOK

\* A context's parse starts where the shared "first" is.
LEMMA ContextRuns ==
    ASSUME ParserOK, Len(frames) = 1, NEW k, contexts'[k] \in Command,
           NEW p \in Nat, f.pos <= p, p <= Len(f.src) + 1, NEW final \in BOOLEAN,
           RunContext(k, p, final)
    PROVE  /\ ParserOK' /\ EndOK' /\ FirstForward
           /\ ~call'.deserializing /\ call'.final = final
           /\ call'.tuple = OptionsOf(contexts'[k]) /\ current' = k
           /\ status' = "run" /\ f'.pos = p
<1> DEFINE c == contexts'[k]
           t == OptionsOf(c)
           src == f.src
           g == NewFrame("top", FALSE, src, p, t, 0)
<1>1. /\ call' = [tuple |-> t, final |-> final, deserializing |-> FALSE]
      /\ frames' = <<g>> /\ seen' = {} /\ status' = "run" /\ ret' = "none"
      /\ current' = k
      /\ UNCHANGED <<nextPositional, result, diag, history>>
      BY DEF RunContext
<1>2. src \in Seq(Token) /\ p \in Nat \ {0} /\ p <= Len(src) + 1 /\ f = frames[1]
      BY OneFrame
<1>3. t \in Seq(Entry) /\ WellGrouped(t)  BY CommandTyped
<1> HIDE DEF t
<1>4. g \in Frame /\ FrameOK(g, t, nextPositional)
  <2>1. "top" \in FrameKind /\ FALSE \in BOOLEAN /\ 0 \in Nat /\ "top" # "group"
        BY DEF FrameKind
  <2>2. nextPositional \in Nat  BY DEF ParserOK, TypeOK
  <2> HIDE DEF src
  <2> QED  BY <1>2, <1>3, <2>1, <2>2, NewFrameOK
<1>5. g.kind = "top" /\ g.src = src /\ g.pos = p  BY DEF NewFrame
<1> HIDE DEF g, src
<1>6. /\ frames' \in Seq(Frame) /\ frames' # << >> /\ Len(frames') = 1 /\ frames'[1] = g
      BY <1>1, <1>4
<1>7. StackOK'
  <2>1. 1..(Len(frames') - 1) = {} /\ 1..Len(frames') = {1}  BY <1>6
  <2>2. nextPositional' = nextPositional /\ call'.tuple = t  BY <1>1
  <2> QED  BY <1>4, <1>5, <1>6, <2>1, <2>2 DEF StackOK
<1>8. call' \in Call  BY <1>1, <1>3 DEF Call
<1>9. TypeOK'
  <2>1. "run" \in Statuses /\ "none" \in Errors /\ {} \in SUBSET (Nat \ {0})
        BY DEF Statuses, Errors
  <2>2. TypeOK  BY DEF ParserOK
  <2> QED  BY <1>1, <1>6, <1>8, <2>1, <2>2 DEF TypeOK, history
<1>10. ParserOK'  BY <1>1, <1>3, <1>7, <1>9 DEF ParserOK
<1>11. FirstForward  BY <1>2, <1>5, <1>6 DEF FirstForward, src
<1>12. f' = g  BY <1>6 DEF f
<1>13. EndOK'  BY <1>1 DEF EndOK
<1> QED  BY <1>1, <1>5, <1>10, <1>11, <1>12, <1>13 DEF t

\* Every set of numbers has a least one.
LEMMA LeastNumber ==
    ASSUME NEW S \in SUBSET Nat, S # {}
    PROVE  \E n \in S : \A m \in S : n <= m
<1>1. IsWellFoundedOn(OpToRel(<, Nat), Nat)  BY NatLessThanWellFounded
<1>2. PICK n \in S : \A m \in S : ~(<<m, n>> \in OpToRel(<, Nat))
      BY <1>1, WFMin
<1>3. \A m \in S : ~(m < n)  BY <1>2 DEF OpToRel
<1> QED  BY <1>3

\* The command that an argument names is the first with that name.
LEMMA MatchedIsFirst ==
    ASSUME PathOK, Naming
    PROVE  Matched \in Command /\ FirstNamed(contexts[Len(contexts)], arg, Matched)
<1> DEFINE c == contexts[Len(contexts)]
           least == CHOOSE k \in Matching : \A j \in Matching : k <= j
<1>1. c \in Command /\ Candidates = SubsOf(c)  BY ContextTyped DEF Candidates
<1>2. SubsOf(c) \in Seq(Command)  BY <1>1, CommandTyped
<1>3. Matching = {k \in 1..Len(SubsOf(c)) : arg \in CommandDecl[SubsOf(c)[k]].names}
      BY <1>1 DEF Matching
<1>4. \E k \in Matching : \A j \in Matching : k <= j
  <2>1. Matching \in SUBSET Nat /\ Matching # {}  BY <1>3 DEF Naming
  <2> QED  BY <2>1, LeastNumber
<1>5. least \in Matching /\ \A j \in Matching : least <= j  BY <1>4
<1>6. Matched = SubsOf(c)[least]  BY <1>1 DEF Matched
<1> HIDE DEF c, least
<1>7. Matched \in Command  BY <1>2, <1>3, <1>5, <1>6
<1>8. FirstNamed(c, arg, Matched)  BY <1>3, <1>5, <1>6 DEF FirstNamed
<1> QED  BY <1>7, <1>8 DEF c

-----------------------------------------------------------------------------
(* Every action keeps the invariant. *)

\* Nothing but the status changes when a command line is refused or help is shown.
LEMMA StopKeeps ==
    ASSUME CInv, phase' = "done", UNCHANGED <<call, frames, nextPositional, seen, result, ret>>,
           UNCHANGED history, status' \in {"exit0", "exit1"},
           diag' \in Errors \X Seq(Token), current' = current, PathOK',
           contexts'[current] = contexts[current], Len(contexts) <= Len(contexts')
    PROVE  CInv' /\ FirstForward
<1>1. TypeOK'
  <2>1. TypeOK /\ status' \in Statuses  BY DEF CInv, ParserOK, Statuses
  <2> QED  BY <2>1 DEF TypeOK, history
<1>2. StackOK' /\ FirstForward  BY StackUntouched DEF CInv, ParserOK, StackStep
<1>3. ParserOK'  BY <1>1, <1>2 DEF CInv, ParserOK
<1>4. EndOK'  BY DEF EndOK
<1>5. current' \in 1..Len(contexts')
  <2>1. Len(contexts) \in Nat /\ Len(contexts') \in Nat  BY DEF CInv, PathOK
  <2> QED  BY <2>1 DEF CInv
<1>6. PrePassOK' /\ OptionsOK'  BY DEF PrePassOK, OptionsOK
<1> QED  BY <1>2, <1>3, <1>4, <1>5, <1>6 DEF CInv

\* The entry point.
LEMMA EnteringKeeps ==
    ASSUME CInv, Entering
    PROVE  CInv' /\ FirstForward
<1>1. CASE PrintDefaultHelp
  <2>1. /\ status' = "exit0" /\ UNCHANGED <<call, frames, shared, ret, diag, history>>
        /\ phase' = "done" /\ UNCHANGED <<contexts, current>>
        BY <1>1 DEF PrintDefaultHelp, ExitHelp, Stop
  <2>2. PathOK'  BY <2>1, SamePath DEF CInv
  <2>3. diag' \in Errors \X Seq(Token)  BY <2>1 DEF CInv, ParserOK, TypeOK
  <2>4. Len(contexts) <= Len(contexts')  BY <2>1 DEF CInv, PathOK
  <2> QED  BY <2>1, <2>2, <2>3, <2>4, StopKeeps DEF shared
<1>2. CASE ParsePlain
  <2>1. /\ phase = "entry" /\ ~HasCommands /\ phase' = "options" /\ UNCHANGED contexts
        /\ RunContext(1, 2, TRUE)
        BY <1>2 DEF ParsePlain
  <2>2. Len(frames) = 1 /\ f.pos = 2 /\ Len(contexts) = 1
    <3>1. Len(frames) = 1 /\ f.pos = Len(contexts) + 1 /\ Len(contexts) = 1
          BY <2>1 DEF CInv, PrePassOK
    <3> QED  BY <3>1
  <2>3. contexts[1] \in Command  BY <2>2, ContextTyped DEF CInv
  <2>4. /\ ParserOK' /\ EndOK' /\ FirstForward
        /\ ~call'.deserializing /\ call'.final = TRUE
        /\ call'.tuple = OptionsOf(contexts'[1]) /\ current' = 1
    <3>1. contexts'[1] \in Command /\ 2 \in Nat /\ f.pos <= 2 /\ 2 <= Len(f.src) + 1
          BY <2>1, <2>2, <2>3, OneFrame DEF CInv
    <3> QED  BY <2>1, <2>2, <3>1, ContextRuns DEF CInv
  <2>5. PathOK'  BY <2>1, <2>4, SamePath DEF CInv, FirstForward
  <2>6. OptionsOK' /\ PrePassOK'
        BY <2>1, <2>2, <2>4 DEF OptionsOK, PrePassOK, HasCommands
  <2>7. current' \in 1..Len(contexts')  BY <2>1, <2>2, <2>4
  <2> QED  BY <2>1, <2>4, <2>5, <2>6, <2>7 DEF CInv
<1>3. CASE ParseCommands
  <2>1. /\ phase = "entry" /\ phase' = "commands" /\ HasCommands
        /\ UNCHANGED vars /\ UNCHANGED <<contexts, current, shown>>
        BY <1>3 DEF ParseCommands
  <2>2. ParserOK' /\ FirstForward  BY <2>1, ParserStutters DEF CInv
  <2>3. EndOK'  BY <2>1 DEF vars, EndOK, AtEnd, f, CInv
  <2>4. PathOK'  BY <2>1, SamePath DEF CInv, vars
  <2>5. PrePassOK'
    <3>1. /\ Len(frames) = 1 /\ f.i = 0 /\ status = "run" /\ current = 1
          /\ f.pos = Len(contexts) + 1
          BY <2>1 DEF CInv, PrePassOK
    <3>2. UNCHANGED <<frames, status, contexts, current>> /\ f' = f
          BY <2>1 DEF vars, f
    <3> QED  BY <2>1, <3>1, <3>2 DEF PrePassOK, HasCommands
  <2>6. OptionsOK'  BY <2>1 DEF OptionsOK
  <2> QED  BY <2>1, <2>2, <2>3, <2>4, <2>5, <2>6 DEF CInv, vars
<1> QED  BY <1>1, <1>2, <1>3 DEF Entering

\* One more context makes a longer path.
LEMMA PathGrows ==
    ASSUME CInv, Naming, contexts' = Append(contexts, Matched),
           frames'[1].src = frames[1].src
    PROVE  /\ PathOK' /\ Len(contexts') = Len(contexts) + 1
           /\ contexts'[Len(contexts')] = Matched
           /\ \A k \in 1..Len(contexts) : contexts'[k] = contexts[k]
<1> DEFINE n == Len(contexts)
           src == frames[1].src
<1>1. Matched \in Command /\ FirstNamed(contexts[n], arg, Matched)
      BY MatchedIsFirst DEF CInv
<1>2. contexts \in Seq(Command) /\ n \in Nat \ {0}  BY ContextTyped DEF CInv
<1>3. /\ contexts' \in Seq(Command) /\ Len(contexts') = n + 1 /\ contexts'[n + 1] = Matched
      /\ \A k \in 1..n : contexts'[k] = contexts[k]
      BY <1>1, <1>2
<1>4. Len(frames) = 1 /\ f.pos = n + 1 /\ ~AtEnd
      BY DEF CInv, PrePassOK, Naming
<1>5. f = frames[1] /\ Len(src) \in Nat  BY <1>4, OneFrame DEF CInv
<1>6. n + 1 <= Len(src) /\ arg = src[n + 1]  BY <1>2, <1>4, <1>5 DEF AtEnd, arg
<1> HIDE DEF n, src
<1>7. ASSUME NEW k \in 1..n
      PROVE  FirstNamed(contexts'[k], src[k + 1], contexts'[k + 1])
  <2>1. CASE k = n  BY <1>1, <1>2, <1>3, <1>6, <2>1
  <2>2. CASE k # n
    <3>1. k \in 1..(n - 1) /\ k + 1 \in 1..n  BY <1>2, <2>2
    <3>2. FirstNamed(contexts[k], src[k + 1], contexts[k + 1])
          BY <3>1 DEF CInv, PathOK, n, src
    <3> QED  BY <1>3, <3>1, <3>2
  <2> QED  BY <2>1, <2>2
<1>8. contexts'[1] \in Programs  BY <1>2, <1>3 DEF CInv, PathOK
<1>9. PathOK'
  <2>1. Len(contexts') - 1 = n /\ contexts' # << >>  BY <1>2, <1>3
  <2> QED  BY <1>3, <1>6, <1>7, <1>8, <2>1 DEF PathOK, src
<1> QED  BY <1>3, <1>9 DEF n

\* The pre-pass.
LEMMA PrePassKeeps ==
    ASSUME CInv, PrePass
    PROVE  CInv' /\ FirstForward
<1>1. /\ phase = "commands" /\ Len(frames) = 1 /\ f.i = 0 /\ status = "run" /\ current = 1
      /\ f.pos = Len(contexts) + 1 /\ HasCommands
      BY DEF PrePass, ExpectedCommand, HelpForCommand, MatchCommand, MatchLeafCommand, Naming,
             CInv, PrePassOK
<1>2. /\ f = frames[1] /\ f.src \in Seq(Token) /\ Len(f.src) \in Nat
      /\ f.pos \in Nat \ {0} /\ f.pos <= Len(f.src) + 1
      BY <1>1, OneFrame DEF CInv
<1>3. contexts \in Seq(Command) /\ Len(contexts) \in Nat \ {0} /\ contexts[1] \in Command
      BY ContextTyped DEF CInv
<1>4. diag \in Errors \X Seq(Token)  BY DEF CInv, ParserOK, TypeOK
<1>5. CASE ExpectedCommand
  <2>1. /\ status' = "exit1" /\ diag' = <<"expected_command", << >>>>
        /\ UNCHANGED <<call, frames, shared, ret, history>>
        /\ phase' = "done" /\ UNCHANGED <<contexts, current>>
        BY <1>5 DEF ExpectedCommand, Exit1, Stop
  <2>2. << >> \in Seq(Token) /\ "expected_command" \in Errors  BY DEF Errors
  <2>3. diag' \in Errors \X Seq(Token)  BY <2>1, <2>2
  <2>4. PathOK'  BY <2>1, SamePath DEF CInv
  <2>5. Len(contexts) <= Len(contexts')  BY <1>3, <2>1
  <2> QED  BY <2>1, <2>3, <2>4, <2>5, StopKeeps DEF shared
<1>6. CASE HelpForCommand
  <2>1. /\ status' = "exit0" /\ UNCHANGED <<call, frames, shared, ret, diag, history>>
        /\ phase' = "done" /\ UNCHANGED <<contexts, current>>
        BY <1>6 DEF HelpForCommand, ExitHelp, Stop
  <2>2. PathOK'  BY <2>1, SamePath DEF CInv
  <2>3. Len(contexts) <= Len(contexts')  BY <1>3, <2>1
  <2> QED  BY <1>4, <2>1, <2>2, <2>3, StopKeeps DEF shared
<1>7. CASE MatchCommand
  <2> DEFINE p == f.pos + 1
             g == [f EXCEPT !.pos = p]
  <2>1. /\ Naming /\ contexts' = Append(contexts, Matched) /\ SetTop(g)
        /\ UNCHANGED <<call, shared, status, ret, diag, history, phase, current, shown>>
        BY <1>7 DEF MatchCommand
  <2>2. f \in Frame /\ f \in FrameFields /\ p \in Nat \ {0} /\ p <= Len(f.src) + 1
        BY <1>2, <2>1, TopFrame DEF Frame, Naming, AtEnd, CInv, ParserOK
  <2>3. /\ g \in FrameFields /\ g.pos = p /\ g.kind = f.kind /\ g.src = f.src
        /\ g.tuple = f.tuple /\ g.i = f.i /\ g.stage = f.stage /\ g.group = f.group
        /\ g.initial = f.initial /\ g.pidx = f.pidx
    <3> HIDE DEF p
    <3> QED  BY <2>2 DEF FrameFields
  <2>4. FrameOK(f, call.tuple, nextPositional)  BY TopOK DEF CInv, ParserOK
  <2> HIDE DEF g
  <2>5. g \in Frame  BY <2>2, <2>3 DEF Frame
  <2>6. FrameOK(g, call.tuple, nextPositional)
    <3>1. PartOf(g, call.tuple)  BY <2>3, <2>4, PartOfSame DEF FrameOK
    <3>2. g.i = 0 /\ g.stage # "args"
      <4>1. f.i \notin 1..Len(f.tuple)  BY <1>1
      <4> QED  BY <1>1, <2>3, <2>4, <4>1 DEF FrameOK
    <3> QED  BY <2>2, <2>3, <3>1, <3>2 DEF FrameOK
  <2>7. StackStep
    <3>1. /\ UNCHANGED call /\ nextPositional' = nextPositional /\ nextPositional \in Nat
          /\ f.pos <= g.pos
          BY <1>2, <2>1, <2>3 DEF shared, CInv, ParserOK, TypeOK
    <3> QED  BY <2>1, <2>3, <2>5, <2>6, <3>1, SetTopStack DEF CInv, ParserOK
  <2>8. TypeOK'
    <3>1. TypeOK  BY DEF CInv, ParserOK
    <3> QED  BY <2>1, <2>7, <3>1 DEF StackStep, TypeOK, shared, history
  <2>9. ParserOK' /\ FirstForward  BY <2>1, <2>7, <2>8 DEF StackStep, CInv, ParserOK
  <2>10. EndOK'  BY <1>1, <2>1 DEF EndOK
  <2>11. /\ PathOK' /\ Len(contexts') = Len(contexts) + 1
         /\ \A k \in 1..Len(contexts) : contexts'[k] = contexts[k]
         BY <2>1, <2>9, PathGrows DEF FirstForward
  <2>12. Len(frames') = 1 /\ f' = g
    <3>1. frames \in Seq(Frame)  BY DEF CInv, ParserOK, TypeOK
    <3> QED  BY <1>1, <2>1, <3>1 DEF SetTop, f
  <2>13. PrePassOK'
         BY <1>1, <1>3, <2>1, <2>3, <2>11, <2>12 DEF PrePassOK, HasCommands, p
  <2>14. OptionsOK'  BY <1>1, <2>1 DEF OptionsOK
  <2>15. current' \in 1..Len(contexts') /\ contexts'[current'] = contexts[current]
         BY <1>1, <1>3, <2>1, <2>11
  <2> QED  BY <1>1, <2>1, <2>9, <2>10, <2>11, <2>13, <2>14, <2>15 DEF CInv
<1>8. CASE MatchLeafCommand
  <2>1. Naming /\ SubsOf(Matched) = << >> /\ contexts' = Append(contexts, Matched)
        BY <1>8 DEF MatchLeafCommand
  <2>2. CASE AsksForHelp(f.pos + 1)
    <3>1. /\ status' = "exit0" /\ UNCHANGED <<call, frames, shared, ret, diag, history>>
          /\ phase' = "done" /\ UNCHANGED current
          BY <1>8, <2>2 DEF MatchLeafCommand, ExitHelp
    <3>2. /\ PathOK' /\ Len(contexts') = Len(contexts) + 1
          /\ \A k \in 1..Len(contexts) : contexts'[k] = contexts[k]
          BY <2>1, <3>1, PathGrows
    <3>3. Len(contexts) <= Len(contexts') /\ contexts'[current] = contexts[current]
          BY <1>1, <1>3, <3>2
    <3> QED  BY <1>4, <3>1, <3>2, <3>3, StopKeeps DEF shared
  <2>3. CASE ~AsksForHelp(f.pos + 1)
    <3>1. phase' = "options" /\ RunContext(1, f.pos + 1, FALSE)
          BY <1>8, <2>3 DEF MatchLeafCommand
    <3>2. contexts'[1] = contexts[1]  BY <1>3, <2>1, MatchedIsFirst DEF CInv
    <3>3. /\ f.pos + 1 \in Nat /\ f.pos <= f.pos + 1 /\ f.pos + 1 <= Len(f.src) + 1
          BY <1>2, <2>1 DEF Naming, AtEnd
    <3>4. /\ ParserOK' /\ EndOK' /\ FirstForward /\ ~call'.deserializing
          /\ call'.tuple = OptionsOf(contexts'[1]) /\ current' = 1
          BY <1>1, <1>3, <3>1, <3>2, <3>3, ContextRuns DEF CInv
    <3>5. /\ PathOK' /\ Len(contexts') = Len(contexts) + 1
          /\ contexts'[Len(contexts')] = Matched
          BY <2>1, <3>4, PathGrows DEF FirstForward
    <3>6. OptionsOK'  BY <1>3, <2>1, <3>4, <3>5 DEF OptionsOK
    <3>7. PrePassOK'  BY <3>1 DEF PrePassOK
    <3>8. current' \in 1..Len(contexts')  BY <1>3, <3>4, <3>5
    <3> QED  BY <3>1, <3>4, <3>5, <3>6, <3>7, <3>8 DEF CInv
  <2> QED  BY <2>2, <2>3
<1> QED  BY <1>5, <1>6, <1>7, <1>8 DEF PrePass

\* A step of a context's parse.
LEMMA ParseContextKeeps ==
    ASSUME CInv, ParseContext
    PROVE  CInv' /\ FirstForward
<1>1. /\ phase = "options" /\ UNCHANGED <<phase, contexts, current>>
      /\ ParseOption \/ Impl \/ Finish
      BY DEF ParseContext
<1>2. ParserOK' /\ FirstForward /\ EndOK' /\ UNCHANGED call
      BY <1>1, ParserStep, EndKept, CallUntouched DEF CInv
<1>3. PathOK'  BY <1>1, <1>2, SamePath DEF CInv, FirstForward
<1>4. PrePassOK' /\ OptionsOK'  BY <1>1, <1>2 DEF PrePassOK, OptionsOK, CInv
<1> QED  BY <1>1, <1>2, <1>3, <1>4 DEF CInv

\* A context's parse that succeeded leaves its one frame.
LEMMA ContextDone ==
    ASSUME CInv, phase = "options", status = "ok"
    PROVE  /\ Len(frames) = 1 /\ f = frames[1]
           /\ f.src \in Seq(Token) /\ Len(f.src) \in Nat
           /\ f.pos \in Nat /\ f.pos <= Len(f.src) + 1
<1>1. Len(frames) = 1  BY TopIsFirst DEF CInv, EndOK
<1> QED  BY <1>1, OneFrame DEF CInv

\* The next context.
LEMMA NextContextKeeps ==
    ASSUME CInv, NextContext
    PROVE  CInv' /\ FirstForward
<1> DEFINE final == SubsOf(contexts[current + 1]) = << >>
<1>1. /\ phase = "options" /\ status = "ok" /\ current < Len(contexts)
      /\ UNCHANGED <<phase, contexts>> /\ RunContext(current + 1, f.pos, final)
      BY DEF NextContext
<1>2. Len(contexts) \in Nat /\ current \in 1..Len(contexts) /\ final \in BOOLEAN
      BY ContextTyped DEF CInv
<1>3. current + 1 \in 1..Len(contexts) /\ contexts[current + 1] \in Command
      BY <1>1, <1>2, ContextTyped DEF CInv
<1>4. Len(frames) = 1 /\ f.pos \in Nat /\ f.pos <= Len(f.src) + 1 /\ f.pos <= f.pos
      BY <1>1, ContextDone
<1> HIDE DEF final
<1>5. /\ ParserOK' /\ EndOK' /\ FirstForward
      /\ ~call'.deserializing /\ call'.final = final
      /\ call'.tuple = OptionsOf(contexts'[current + 1]) /\ current' = current + 1
      BY <1>1, <1>2, <1>3, <1>4, ContextRuns DEF CInv
<1>6. PathOK'  BY <1>1, <1>5, SamePath DEF CInv, FirstForward
<1>7. PrePassOK'  BY <1>1 DEF PrePassOK
<1>8. OptionsOK'
      BY <1>1, <1>5 DEF OptionsOK, CInv, final
<1> QED  BY <1>1, <1>3, <1>5, <1>6, <1>7, <1>8 DEF CInv

\* A step that changes nothing but the phase, and that to "done".
LEMMA DoneKeeps ==
    ASSUME CInv, UNCHANGED vars, UNCHANGED <<contexts, current>>, phase' \in {phase, "done"}
    PROVE  CInv' /\ FirstForward
<1>1. ParserOK' /\ FirstForward  BY ParserStutters DEF CInv
<1>2. EndOK'  BY DEF vars, EndOK, AtEnd, f, CInv
<1>3. PathOK'  BY SamePath DEF CInv, vars
<1>4. PrePassOK'
  <2>1. UNCHANGED <<frames, status, contexts, current>> /\ f' = f  BY DEF vars, f
  <2> QED  BY <2>1 DEF PrePassOK, HasCommands, CInv
<1>5. OptionsOK'  BY DEF OptionsOK, CInv, vars
<1> QED  BY <1>1, <1>2, <1>3, <1>4, <1>5 DEF CInv, vars

\* Every step keeps the inductive invariant, and moves "first" forward.
LEMMA CNextKeeps ==
    ASSUME CInv, [CNext]_allvars
    PROVE  CInv' /\ FirstForward
<1>1. CASE CallFunction
  <2>1. UNCHANGED vars /\ UNCHANGED <<contexts, current>> /\ phase' = "done"
        BY <1>1 DEF CallFunction
  <2> QED  BY <2>1, DoneKeeps
<1>2. CASE UNCHANGED allvars
  <2>1. UNCHANGED vars /\ UNCHANGED <<contexts, current, phase>>
        BY <1>2 DEF allvars, cvars
  <2> QED  BY <2>1, DoneKeeps
<1> QED  BY <1>1, <1>2, EnteringKeeps, PrePassKeeps, ParseContextKeeps, NextContextKeeps DEF CNext

\* The inductive invariant holds initially.
LEMMA CInitCInv ==
    ASSUME CInit
    PROVE  CInv
<1>1. PICK program \in Programs : \E args \in ArgsOf[program] :
         /\ contexts = <<program>>
         /\ frames = <<NewFrame("top", FALSE, <<Argv0>> \o args, 2, OptionsOf(program), 0)>>
         /\ call = [tuple |-> OptionsOf(program), final |-> TRUE, deserializing |-> FALSE]
      BY DEF CInit
<1>2. PICK args \in ArgsOf[program] :
         /\ contexts = <<program>>
         /\ frames = <<NewFrame("top", FALSE, <<Argv0>> \o args, 2, OptionsOf(program), 0)>>
         /\ call = [tuple |-> OptionsOf(program), final |-> TRUE, deserializing |-> FALSE]
      BY <1>1
<1> DEFINE src == <<Argv0>> \o args
           t == OptionsOf(program)
           g == NewFrame("top", FALSE, src, 2, t, 0)
<1>3. program \in Command /\ args \in Seq(Token) /\ Argv0 \in Token  BY CommandType
<1>4. src \in Seq(Token) /\ Len(src) \in Nat /\ Len(src) >= 1  BY <1>3
<1>5. t \in Seq(Entry) /\ WellGrouped(t)  BY <1>3, CommandTyped
<1> HIDE DEF src, t
<1>6. g \in Frame /\ FrameOK(g, t, 0)
  <2>1. /\ "top" \in FrameKind /\ FALSE \in BOOLEAN /\ 0 \in Nat /\ "top" # "group"
        /\ 2 \in Nat \ {0} /\ 2 <= Len(src) + 1
        BY <1>4 DEF FrameKind
  <2> QED  BY <1>4, <1>5, <2>1, NewFrameOK
<1>7. g.kind = "top" /\ g.src = src /\ g.pos = 2 /\ g.i = 0  BY DEF NewFrame
<1>8. frames = <<g>>  BY <1>2 DEF src, t
<1> HIDE DEF g
<1>9. frames \in Seq(Frame) /\ frames # << >> /\ Len(frames) = 1 /\ frames[1] = g /\ f = g
      BY <1>6, <1>8 DEF f
<1>10. call.tuple = t /\ call.final /\ ~call.deserializing /\ call \in Call
       BY <1>2, <1>5 DEF t, Call
<1>11. StackOK
  <2>1. nextPositional = 0  BY DEF CInit
  <2>2. 1..(Len(frames) - 1) = {} /\ 1..Len(frames) = {1}  BY <1>9
  <2> QED  BY <2>1, <2>2, <1>6, <1>7, <1>9, <1>10 DEF StackOK
<1>12. TypeOK
  <2>1. << >> \in Seq(Token) /\ << >> \in Seq(Option) /\ 0 \in Int  OBVIOUS
  <2>2. result \in [Slot -> Value]
    <3>1. Unset \in Value  BY <2>1 DEF Unset, Value
    <3> QED  BY <3>1 DEF CInit
  <2>3. diag \in Errors \X Seq(Token) /\ ret \in Errors /\ status \in Statuses
        BY <2>1 DEF CInit, Errors, Statuses
  <2>4. /\ nextPositional \in Nat /\ seen \in SUBSET (Nat \ {0})
        /\ matched \in Seq(Option) /\ taken \in Seq(Option) /\ delivered \in Seq(Token)
        BY <2>1 DEF CInit
  <2> QED  BY <1>9, <1>10, <2>2, <2>3, <2>4 DEF TypeOK
<1>13. ParserOK  BY <1>5, <1>10, <1>11, <1>12 DEF ParserOK
<1>14. /\ phase = "entry" /\ status = "run" /\ current = 1 /\ ret = "none"
       BY DEF CInit
<1>15. EndOK  BY <1>14 DEF EndOK
<1>16. contexts \in Seq(Command) /\ Len(contexts) = 1 /\ contexts[1] = program
       BY <1>2, <1>3
<1>17. PathOK
  <2>1. 1..(Len(contexts) - 1) = {}  BY <1>16
  <2>2. contexts # << >>  BY <1>2
  <2> QED  BY <1>4, <1>7, <1>9, <1>16, <2>1, <2>2 DEF PathOK
<1>18. PrePassOK /\ OptionsOK
       BY <1>7, <1>9, <1>14, <1>16 DEF PrePassOK, OptionsOK
<1> QED  BY <1>10, <1>13, <1>14, <1>15, <1>16, <1>17, <1>18 DEF CInv, t

\* In every state of every command line the inductive invariant holds.
THEOREM CInvariance == CSpec => []CInv
<1>1. CInit => CInv  BY CInitCInv
<1>2. CInv /\ [CNext]_allvars => CInv'  BY CNextKeeps
<1> QED  BY <1>1, <1>2, PTL DEF CSpec

\* The contexts are a path of the command tree, and the first arguments of the
\* command line named them (parsing.hpp 1302-1345).
THEOREM CTypeCorrect == CSpec => []CTypeOK
<1>1. CInv => CTypeOK
  <2> SUFFICES ASSUME CInv  PROVE CTypeOK  OBVIOUS
  <2>1. Len(contexts) \in Nat  BY ContextTyped DEF CInv
  <2>2. ASSUME NEW k \in 2..Len(contexts)
        PROVE  /\ \E j \in 1..Len(SubsOf(contexts[k - 1])) : SubsOf(contexts[k - 1])[j] = contexts[k]
               /\ frames[1].src[k] \in CommandDecl[contexts[k]].names
    <3>1. k - 1 \in 1..(Len(contexts) - 1) /\ (k - 1) + 1 = k  BY <2>1
    <3>2. FirstNamed(contexts[k - 1], frames[1].src[(k - 1) + 1], contexts[(k - 1) + 1])
          BY <3>1 DEF CInv, PathOK
    <3>3. FirstNamed(contexts[k - 1], frames[1].src[k], contexts[k])  BY <3>1, <3>2
    <3> QED  BY <3>3 DEF FirstNamed
  <2> QED  BY <2>2 DEF CTypeOK, CInv, PathOK
<1> QED  BY <1>1, CInvariance, PTL

\* The iterator that the contexts share goes on where the last one stopped: no
\* context, group or file moves it back (parsing.hpp 1343-1352, 1601-1615).
THEOREM FirstMovesForward == CSpec => FirstNeverMovesBack
<1>1. CInv => frames[1].pos \in Nat  BY FirstFrame DEF CInv, ParserOK
<1>2. CInv' => (frames[1].pos \in Nat)'  BY <1>1, PTL
<1>3. CInv /\ [CNext]_allvars => [frames'[1].pos >= frames[1].pos]_allvars
  <2> SUFFICES ASSUME CInv, [CNext]_allvars  PROVE frames'[1].pos >= frames[1].pos
      OBVIOUS
  <2>1. FirstForward /\ CInv'  BY CNextKeeps
  <2> QED  BY <1>1, <1>2, <2>1 DEF FirstForward
<1> QED  BY <1>3, CInvariance, PTL DEF CSpec, FirstNeverMovesBack

-----------------------------------------------------------------------------
(* When a command runs. *)

\* A command runs only by its call, and then nothing changes any more.
LEMMA RunsByCall ==
    ASSUME CInv, [CNext]_allvars, Ran'
    PROVE  CallFunction \/ (Ran /\ UNCHANGED allvars)
<1>1. CASE Entering
  <2>1. phase' # "done" \/ status' = "exit0"
        BY <1>1 DEF Entering, PrintDefaultHelp, ParsePlain, ParseCommands, ExitHelp
  <2> QED  BY <2>1 DEF Ran
<1>2. CASE PrePass
  <2>1. phase' # "done" \/ status' \in {"exit0", "exit1"}
    <3>1. CASE ExpectedCommand  BY <3>1 DEF ExpectedCommand, Exit1
    <3>2. CASE HelpForCommand  BY <3>2 DEF HelpForCommand, ExitHelp
    <3>3. CASE MatchCommand  BY <3>3 DEF MatchCommand, Naming
    <3>4. CASE MatchLeafCommand  BY <3>4 DEF MatchLeafCommand, ExitHelp
    <3> QED  BY <1>2, <3>1, <3>2, <3>3, <3>4 DEF PrePass
  <2> QED  BY <2>1 DEF Ran
<1>3. CASE ParseContext \/ NextContext  BY <1>3 DEF ParseContext, NextContext, Ran
<1>4. CASE UNCHANGED allvars  BY <1>4 DEF allvars, vars, cvars, Ran
<1> QED  BY <1>1, <1>2, <1>3, <1>4 DEF CNext

\* A command's function is called only when every argument was understood: what
\* an outer context leaves, an inner one reads, and the innermost leaves nothing
\* (parsing.hpp 1342-1352, 1607-1615).
THEOREM RunsWhenAllIsRead == CSpec => []RunsOnlyWhenAllIsRead
<1>1. CInit => RunsOnlyWhenAllIsRead  BY DEF CInit, RunsOnlyWhenAllIsRead, Ran
<1>2. CInv /\ RunsOnlyWhenAllIsRead /\ [CNext]_allvars => RunsOnlyWhenAllIsRead'
  <2> SUFFICES ASSUME CInv, RunsOnlyWhenAllIsRead, [CNext]_allvars, Ran'
               PROVE  (frames[1].pos = Len(frames[1].src) + 1)'
      BY DEF RunsOnlyWhenAllIsRead
  <2>1. CASE CallFunction
    <3>1. phase = "options" /\ status = "ok" /\ current = Len(contexts) /\ UNCHANGED frames
          BY <2>1 DEF CallFunction, vars
    <3>2. f = frames[1] /\ f.pos \in Nat /\ Len(f.src) \in Nat /\ f.pos <= Len(f.src) + 1
          BY <3>1, ContextDone
    <3>3. call.final  BY <3>1 DEF CInv, OptionsOK
    <3>4. f.pos > Len(f.src)  BY <3>1, <3>3 DEF CInv, EndOK, AtEnd
    <3>5. f.pos = Len(f.src) + 1  BY <3>2, <3>4
    <3> QED  BY <3>1, <3>2, <3>5
  <2>2. CASE Ran /\ UNCHANGED allvars
        BY <2>2 DEF RunsOnlyWhenAllIsRead, allvars, vars
  <2> QED  BY <2>1, <2>2, RunsByCall
<1> QED  BY <1>1, <1>2, CInvariance, PTL DEF CSpec

-----------------------------------------------------------------------------
(* Help that is asked for. *)

\* No argument from the a-th to before the b-th asks for the default help.
NoneAsks(a, b) == ~\E k \in a..(b - 1) : frames[1].src[k] \in DefaultHelp

\* In a program without a help option, what the pre-pass has read asks for no
\* help, and nor does anything else once the contexts are parsed.
NoHelpAsked ==
    NoHelp =>
        /\ phase = "commands" => NoneAsks(2, frames[1].pos)
        /\ phase = "options" \/ Ran => NoneAsks(2, Len(frames[1].src) + 1)

\* Whether a program has a help option does not change.
LEMMA SameHelp ==
    ASSUME CInv, [CNext]_allvars
    PROVE  contexts'[1] = contexts[1] /\ (NoHelp' <=> NoHelp) /\ (HasCommands' <=> HasCommands)
<1>1. contexts'[1] = contexts[1]
  <2>1. contexts \in Seq(Command) /\ Len(contexts) \in Nat \ {0}  BY ContextTyped DEF CInv
  <2>2. CASE UNCHANGED contexts  BY <2>2
  <2>3. CASE Naming /\ contexts' = Append(contexts, Matched)
    <3>1. Matched \in Command  BY <2>3, MatchedIsFirst DEF CInv
    <3> QED  BY <2>1, <2>3, <3>1
  <2>4. UNCHANGED contexts \/ (Naming /\ contexts' = Append(contexts, Matched))
    <3>1. CASE Entering
          BY <3>1 DEF Entering, PrintDefaultHelp, ParsePlain, ParseCommands, Stop
    <3>2. CASE PrePass
          BY <3>2 DEF PrePass, ExpectedCommand, HelpForCommand, MatchCommand,
                      MatchLeafCommand, Stop
    <3>3. CASE ParseContext \/ NextContext \/ CallFunction
          BY <3>3 DEF ParseContext, NextContext, CallFunction
    <3>4. CASE UNCHANGED allvars  BY <3>4 DEF allvars, cvars
    <3> QED  BY <3>1, <3>2, <3>3, <3>4 DEF CNext
  <2> QED  BY <2>2, <2>3, <2>4
<1>2. LastHelp' = LastHelp  BY <1>1 DEF LastHelp
<1> QED  BY <1>1, <1>2 DEF NoHelp, HasCommands

\* The pre-pass asks each argument it reads.
LEMMA PrePassAsks ==
    ASSUME CInv, NoHelpAsked, PrePass
    PROVE  NoHelpAsked'
<1> SUFFICES ASSUME NoHelp'
             PROVE  /\ phase' = "commands" => NoneAsks(2, frames[1].pos)'
                    /\ phase' = "options" \/ Ran' => NoneAsks(2, Len(frames[1].src) + 1)'
    BY DEF NoHelpAsked
<1>1. phase = "commands" /\ Len(frames) = 1 /\ f.pos = Len(contexts) + 1
      BY DEF PrePass, ExpectedCommand, HelpForCommand, MatchCommand, MatchLeafCommand, Naming,
             CInv, PrePassOK
<1>2. f = frames[1] /\ Len(f.src) \in Nat /\ f.pos \in Nat \ {0}
      BY <1>1, OneFrame DEF CInv
<1>3. NoHelp /\ frames'[1].src = f.src
  <2>1. [CNext]_allvars  BY DEF CNext
  <2> QED  BY <1>2, <2>1, SameHelp, CNextKeeps DEF FirstForward
<1>4. \A k \in 2..(f.pos - 1) : f.src[k] \notin DefaultHelp
      BY <1>1, <1>2, <1>3 DEF NoHelpAsked, NoneAsks
<1>5. CASE ExpectedCommand \/ HelpForCommand
  <2>1. phase' = "done" /\ status' \in {"exit0", "exit1"}
        BY <1>5 DEF ExpectedCommand, HelpForCommand, Exit1, ExitHelp, Stop
  <2> QED  BY <2>1 DEF Ran
<1>6. ASSUME Naming  PROVE \A k \in 2..f.pos : f.src[k] \notin DefaultHelp
  <2>1. f.src[f.pos] \notin DefaultHelp  BY <1>3, <1>6 DEF Naming, arg, HelpNames
  <2>2. \A k \in 2..f.pos : k \in 2..(f.pos - 1) \/ k = f.pos  BY <1>2
  <2> QED  BY <1>4, <2>1, <2>2
<1>7. CASE MatchCommand
  <2>1. /\ Naming /\ phase' = "commands"
        /\ frames' = [frames EXCEPT ![Len(frames)] = [f EXCEPT !.pos = f.pos + 1]]
        BY <1>1, <1>7 DEF MatchCommand, SetTop
  <2>2. f \in FrameFields /\ frames \in Seq(Frame)
        BY TopFrame DEF CInv, ParserOK, TypeOK, Frame
  <2>3. frames'[1].pos = f.pos + 1  BY <1>1, <2>1, <2>2 DEF FrameFields
  <2>4. frames'[1].pos - 1 = f.pos  BY <1>2, <2>3
  <2> QED  BY <1>3, <1>6, <2>1, <2>4 DEF NoneAsks, Ran
<1>8. CASE MatchLeafCommand
  <2>1. CASE phase' = "done" /\ status' = "exit0"  BY <2>1 DEF Ran
  <2>2. CASE phase' = "options" /\ ~AsksForHelp(f.pos + 1)
    <3>1. Naming  BY <1>8 DEF MatchLeafCommand
    <3>2. \A k \in (f.pos + 1)..Len(f.src) : f.src[k] \notin DefaultHelp
          BY <1>3, <2>2 DEF AsksForHelp
    <3>3. \A k \in 2..Len(f.src) : k \in 2..f.pos \/ k \in (f.pos + 1)..Len(f.src)
          BY <1>2
    <3>4. \A k \in 2..Len(f.src) : f.src[k] \notin DefaultHelp
          BY <1>6, <3>1, <3>2, <3>3
    <3>5. Len(frames'[1].src) + 1 - 1 = Len(f.src)  BY <1>2, <1>3
    <3> QED  BY <1>3, <2>2, <3>4, <3>5 DEF NoneAsks
  <2> QED  BY <1>8, <2>1, <2>2 DEF MatchLeafCommand, ExitHelp
<1> QED  BY <1>5, <1>7, <1>8 DEF PrePass

\* The entry point does so for a program without commands.
LEMMA EnteringAsks ==
    ASSUME CInv, Entering
    PROVE  NoHelpAsked'
<1> SUFFICES ASSUME NoHelp'
             PROVE  /\ phase' = "commands" => NoneAsks(2, frames[1].pos)'
                    /\ phase' = "options" \/ Ran' => NoneAsks(2, Len(frames[1].src) + 1)'
    BY DEF NoHelpAsked
<1>1. phase = "entry" /\ Len(frames) = 1 /\ f.pos = Len(contexts) + 1 /\ Len(contexts) = 1
      BY DEF Entering, PrintDefaultHelp, ParsePlain, ParseCommands, CInv, PrePassOK
<1>2. f = frames[1] /\ Len(f.src) \in Nat /\ f.pos \in Nat \ {0}
      BY <1>1, OneFrame DEF CInv
<1>3. NoHelp /\ frames'[1].src = f.src
  <2>1. [CNext]_allvars  BY DEF CNext
  <2> QED  BY <1>2, <2>1, SameHelp, CNextKeeps DEF FirstForward
<1>4. CASE PrintDefaultHelp  BY <1>4 DEF PrintDefaultHelp, ExitHelp, Stop, Ran
<1>5. CASE ParsePlain
  <2>1. phase' = "options" /\ ~AsksForHelp(1)  BY <1>5 DEF ParsePlain
  <2>2. \A k \in 1..Len(f.src) : f.src[k] \notin DefaultHelp
        BY <1>3, <2>1 DEF AsksForHelp
  <2>3. \A k \in 2..(Len(f.src) + 1 - 1) : k \in 1..Len(f.src)  BY <1>2
  <2> QED  BY <1>3, <2>1, <2>2, <2>3 DEF NoneAsks
<1>6. CASE ParseCommands
  <2>1. phase' = "commands" /\ UNCHANGED frames  BY <1>6 DEF ParseCommands, vars
  <2>2. frames'[1].pos = 2  BY <1>1, <1>2, <2>1
  <2>3. 2..(2 - 1) = {}  OBVIOUS
  <2> QED  BY <2>1, <2>2, <2>3 DEF NoneAsks, Ran
<1> QED  BY <1>4, <1>5, <1>6 DEF Entering

\* A program without a help option runs no command when any argument asks for
\* help, wherever it is (parsing.hpp 1446-1466, parse_command_line.hpp 176-190).
THEOREM HelpIsGiven == CSpec => []HelpIsNeverIgnored
<1>1. CInit => NoHelpAsked  BY DEF CInit, NoHelpAsked, Ran
<1>2. CInv /\ NoHelpAsked /\ [CNext]_allvars => NoHelpAsked'
  <2> SUFFICES ASSUME CInv, NoHelpAsked, [CNext]_allvars  PROVE NoHelpAsked'
      OBVIOUS
  <2>1. CASE Entering  BY <2>1, EnteringAsks
  <2>2. CASE PrePass  BY <2>2, PrePassAsks
  <2>3. ASSUME phase = "options" \/ Ran, phase' = "options" \/ Ran'
        PROVE  NoHelpAsked'
    <3>1. (NoHelp' <=> NoHelp) /\ frames'[1].src = frames[1].src
          BY SameHelp, CNextKeeps DEF FirstForward
    <3>2. NoHelp => \A k \in 2..(Len(frames[1].src) + 1 - 1) : frames[1].src[k] \notin DefaultHelp
          BY <2>3 DEF NoHelpAsked, NoneAsks
    <3>3. phase' # "commands"  BY <2>3 DEF Ran
    <3> QED  BY <3>1, <3>2, <3>3 DEF NoHelpAsked, NoneAsks
  <2>4. CASE ParseContext \/ NextContext  BY <2>3, <2>4 DEF ParseContext, NextContext
  <2>5. CASE CallFunction  BY <2>3, <2>5 DEF CallFunction, Ran, vars
  <2>6. CASE UNCHANGED allvars
    <3>1. UNCHANGED <<phase, status, frames>>  BY <2>6 DEF allvars, vars, cvars
    <3>2. NoHelp' <=> NoHelp  BY SameHelp
    <3> QED  BY <3>1, <3>2 DEF NoHelpAsked, NoneAsks, Ran
  <2> QED  BY <2>1, <2>2, <2>4, <2>5, <2>6 DEF CNext
<1>3. CInv /\ NoHelpAsked => HelpIsNeverIgnored
  <2> SUFFICES ASSUME CInv, NoHelpAsked, Ran, NoHelp,
                      NEW k \in 2..Len(frames[1].src), frames[1].src[k] \in DefaultHelp
               PROVE  FALSE
      BY DEF HelpIsNeverIgnored
  <2>1. Len(frames[1].src) \in Nat  BY FirstFrame DEF CInv, ParserOK
  <2>2. k \in 2..(Len(frames[1].src) + 1 - 1)  BY <2>1
  <2> QED  BY <2>2 DEF NoHelpAsked, NoneAsks
<1> QED  BY <1>1, <1>2, <1>3, CInvariance, PTL DEF CSpec

-----------------------------------------------------------------------------
(* Whose options get values. *)

\* The contexts that were parsed stay what they are.
LEMMA ContextsStay ==
    ASSUME CInv, [CNext]_allvars
    PROVE  /\ current' \in Nat /\ current <= current'
           /\ \A k \in 1..current : contexts'[k] = contexts[k]
<1>1. Len(contexts) \in Nat /\ current \in 1..Len(contexts)  BY ContextTyped DEF CInv
<1>2. CASE UNCHANGED <<contexts, current>>  BY <1>1, <1>2
<1>3. CASE UNCHANGED contexts /\ current' = current + 1  BY <1>1, <1>3
<1>4. CASE Entering
  <2>1. UNCHANGED contexts /\ (current' = current \/ (current' = 1 /\ phase = "entry"))
        BY <1>4 DEF Entering, PrintDefaultHelp, ParsePlain, ParseCommands, Stop, RunContext
  <2>2. current = 1 \/ phase # "entry"  BY DEF CInv, PrePassOK
  <2> QED  BY <1>1, <2>1, <2>2
<1>5. CASE PrePass
  <2>1. phase = "commands"
        BY <1>5 DEF PrePass, ExpectedCommand, HelpForCommand, MatchCommand, MatchLeafCommand,
                    Naming
  <2>2. current = 1  BY <2>1 DEF CInv, PrePassOK
  <2>3. current' = current \/ current' = 1
        BY <1>5 DEF PrePass, ExpectedCommand, HelpForCommand, MatchCommand, MatchLeafCommand,
                    Stop, RunContext
  <2>4. contexts'[1] = contexts[1]  BY <1>5, SameHelp DEF CNext
  <2> QED  BY <2>2, <2>3, <2>4
<1>6. CASE ParseContext \/ CallFunction  BY <1>2, <1>6 DEF ParseContext, CallFunction
<1>7. CASE NextContext  BY <1>3, <1>7 DEF NextContext, RunContext
<1>8. CASE UNCHANGED allvars  BY <1>2, <1>8 DEF allvars, cvars
<1> QED  BY <1>4, <1>5, <1>6, <1>7, <1>8 DEF CNext

\* Only the parse of a context writes to the result.
LEMMA OnlyParsesWrite ==
    ASSUME [CNext]_allvars
    PROVE  UNCHANGED result \/ ParseContext
<1>1. CASE Entering
      BY <1>1 DEF Entering, PrintDefaultHelp, ParsePlain, ParseCommands, ExitHelp, RunContext,
                  shared, vars
<1>2. CASE PrePass
  <2>1. CASE ExpectedCommand \/ HelpForCommand \/ MatchCommand
        BY <2>1 DEF ExpectedCommand, HelpForCommand, MatchCommand, ExitHelp, shared
  <2>2. CASE MatchLeafCommand  BY <2>2 DEF MatchLeafCommand, ExitHelp, RunContext, shared
  <2> QED  BY <1>2, <2>1, <2>2 DEF PrePass
<1>3. CASE NextContext  BY <1>3 DEF NextContext, RunContext
<1>4. CASE CallFunction \/ UNCHANGED allvars
      BY <1>4 DEF CallFunction, allvars, vars
<1> QED  BY <1>1, <1>2, <1>3, <1>4 DEF CNext

\* Only the options of the commands that were named, as far as they are parsed,
\* get values or defaults in the map that all of them share (parsing.hpp
\* 1342-1352, 1607-1612).
THEOREM CommandsWriteTheirOwn == CSpec => []OtherCommandsUntouched
<1>1. CInit => OtherCommandsUntouched  BY DEF CInit, OtherCommandsUntouched, Unset
<1>2. CInv /\ OtherCommandsUntouched /\ [CNext]_allvars => OtherCommandsUntouched'
  <2> SUFFICES ASSUME CInv, OtherCommandsUntouched, [CNext]_allvars,
                      NEW s \in Slot, result'[s].set
               PROVE  \E k \in 1..current' :
                         \E o \in OptionsIn(OptionsOf(contexts'[k])) : Decl[o].slot = s
      BY DEF OtherCommandsUntouched
  <2>1. /\ current \in Nat \ {0} /\ current' \in Nat /\ current <= current'
        /\ \A k \in 1..current : contexts'[k] = contexts[k]
    <3>1. Len(contexts) \in Nat /\ current \in 1..Len(contexts)
          BY ContextTyped DEF CInv
    <3> QED  BY <3>1, ContextsStay
  <2>2. SUFFICES \E k \in 1..current : \E o \in OptionsIn(OptionsOf(contexts[k])) : Decl[o].slot = s
        BY <2>1
  <2>3. CASE result'[s] = result[s]  BY <2>3 DEF OtherCommandsUntouched
  <2>4. CASE result'[s] # result[s]
    <3>1. ParseOption \/ Impl \/ Finish
          BY <2>4, OnlyParsesWrite DEF ParseContext
    <3>2. PICK o \in OptionsIn(call.tuple) : Decl[o].slot = s
          BY <2>4, <3>1, OwnSlots DEF CInv
    <3>3. o \in OptionsIn(OptionsOf(contexts[current]))  BY <3>2 DEF CInv
    <3> QED  BY <2>1, <3>2, <3>3
  <2> QED  BY <2>3, <2>4
<1> QED  BY <1>1, <1>2, CInvariance, PTL DEF CSpec

-----------------------------------------------------------------------------
(* Which help is shown. *)

\* No command is named like the default help; that none is named like a declared
\* help option follows from its names, which begin with a dash.
HelpNamesNoCommand == \A c \in Command : CommandDecl[c].names \cap DefaultHelp = {}

\* No help is printed until the command line is refused or help is asked for.
HelpIsDue == \/ phase = "done" /\ status # "ok"
             \/ phase = "options" /\ status \in {"exit0", "exit1"}
ShownOK == ~HelpIsDue => shown = << >>

\* The argument after the path's names none of the last command's subcommands.
NoneNamed ==
    Len(contexts) + 1 <= Len(frames[1].src) =>
        \A k \in 1..Len(SubsOf(contexts[Len(contexts)])) :
            frames[1].src[Len(contexts) + 1] \notin
                CommandDecl[SubsOf(contexts[Len(contexts)])[k]].names

\* The contexts, when none is left to name, are the longest path.
LEMMA ContextsAreLongest ==
    ASSUME PathOK, NoneNamed
    PROVE  IsLongestPath(contexts)
<1> DEFINE src == frames[1].src
           n == Len(contexts)
           Choice(k) == {c \in 1..Len(SubsOf(contexts[k])) :
                           src[k + 1] \in CommandDecl[SubsOf(contexts[k])[c]].names}
<1>1. n \in Nat \ {0}  BY ContextTyped
<1>2. n + 1 <= Len(src) => Choice(n) = {}  BY DEF NoneNamed
<1>3. \A k \in 1..(n - 1) : FirstNamed(contexts[k], src[k + 1], contexts[k + 1])
      BY DEF PathOK
<1>4. ASSUME NEW k \in 1..n, k < n
      PROVE  \E c \in Choice(k) : /\ SubsOf(contexts[k])[c] = contexts[k + 1]
                                  /\ \A d \in Choice(k) : c <= d
  <2> HIDE DEF n, src
  <2>1. k \in 1..(n - 1)  BY <1>1, <1>4
  <2>2. FirstNamed(contexts[k], src[k + 1], contexts[k + 1])  BY <1>3, <2>1
  <2> QED  BY <2>2 DEF FirstNamed
<1>5. ASSUME NEW k \in 1..n
      PROVE  IF k < n
             THEN \E c \in Choice(k) : /\ SubsOf(contexts[k])[c] = contexts[k + 1]
                                       /\ \A d \in Choice(k) : c <= d
             ELSE k + 1 <= Len(src) => Choice(k) = {}
  <2>1. CASE k < n  BY <1>4, <2>1
  <2>2. CASE ~(k < n)
    <3> HIDE DEF n, src, Choice
    <3>1. k = n  BY <1>1, <2>2
    <3> QED  BY <1>2, <2>2, <3>1
  <2> QED  BY <2>1, <2>2
<1>6. contexts # << >> /\ contexts[1] = contexts[1]  BY DEF PathOK
<1> QED  BY <1>5, <1>6 DEF IsLongestPath

\* So the help that shows them, after the step that prints it, is of that path.
LEMMA ShownIsLongest ==
    (shown[1] = contexts)' /\ PathOK' /\ NoneNamed' => IsLongestPath(shown[1])'
<1>1. shown[1] = contexts /\ PathOK /\ NoneNamed => IsLongestPath(shown[1])
  <2> SUFFICES ASSUME shown[1] = contexts, PathOK, NoneNamed
               PROVE  IsLongestPath(shown[1])
      OBVIOUS
  <2>1. IsLongestPath(contexts)  BY ContextsAreLongest
  <2> QED  BY <2>1
<1> QED  BY <1>1, PTL

\* Until a help is printed there is nothing to say.
LEMMA NothingShown ==
    ASSUME shown' = << >>, status' # "exit1"
    PROVE  HelpIsOfTheLastCommand' /\ ShownOK'
<1>1. Len(shown') = 0 /\ 1..Len(shown') = {}  OBVIOUS
<1> QED  BY <1>1 DEF HelpIsOfTheLastCommand, ShownOK

\* The first help is the only one.
LEMMA OneShown ==
    ASSUME shown = << >>, NEW path, shown' = Append(shown, path), HelpIsDue', status' # "ok",
           \/ HasCommands' /\ path = contexts' /\ PathOK' /\ NoneNamed'
           \/ ~(HasCommands /\ ~MetHelpOption)' /\ path = << >>
    PROVE  HelpIsOfTheLastCommand' /\ ShownOK'
<1>1. shown' = <<path>> /\ Len(shown') = 1 /\ shown'[1] = path /\ shown' # << >>
      OBVIOUS
<1>2. \A k \in 1..Len(shown') : k = 1  BY <1>1
<1>3. path = contexts' /\ PathOK' /\ NoneNamed' => IsLongestPath(shown[1])'
      BY <1>1, ShownIsLongest
<1>4. ASSUME NEW k \in 1..Len(shown')
      PROVE  (/\ ~HasCommands => shown[k] = << >>
              /\ HasCommands /\ ~MetHelpOption => IsLongestPath(shown[k]))'
  <2>1. k = 1  BY <1>2
  <2> QED  BY <1>1, <1>3, <2>1
<1> QED  BY <1>1, <1>4 DEF HelpIsOfTheLastCommand, Ran, ShownOK

\* The entry point shows the help of a program without commands.
LEMMA EnteringShows ==
    ASSUME CInv, ShownOK, Entering
    PROVE  HelpIsOfTheLastCommand' /\ ShownOK'
<1>1. HasCommands' <=> HasCommands  BY SameHelp DEF CNext
<1>2. phase = "entry" /\ status = "run" /\ shown = << >>
      BY DEF Entering, PrintDefaultHelp, ParsePlain, ParseCommands, CInv, PrePassOK, ShownOK,
             HelpIsDue
<1>3. CASE PrintDefaultHelp
  <2>1. /\ ~HasCommands /\ shown' = Append(shown, << >>)
        /\ phase' = "done" /\ status' = "exit0"
        BY <1>3 DEF PrintDefaultHelp, ShowHelp, ExitHelp, Stop
  <2>2. HelpIsDue'  BY <2>1 DEF HelpIsDue
  <2> QED  BY <1>1, <1>2, <2>1, <2>2, OneShown
<1>4. CASE ParsePlain \/ ParseCommands
  <2>1. shown' = << >> /\ status' = "run"
        BY <1>2, <1>4 DEF ParsePlain, ParseCommands, RunContext, vars
  <2> QED  BY <2>1, NothingShown
<1> QED  BY <1>3, <1>4 DEF Entering

\* The pre-pass shows that of the commands named so far, when the next argument
\* names none or asks for help, or none is left to name.
LEMMA PrePassShows ==
    ASSUME HelpNamesNoCommand, CInv, ShownOK, PrePass
    PROVE  HelpIsOfTheLastCommand' /\ ShownOK'
<1>1. [CNext]_allvars  BY DEF CNext
<1>2. HasCommands' <=> HasCommands  BY <1>1, SameHelp
<1>3. /\ phase = "commands" /\ Len(frames) = 1 /\ status = "run" /\ HasCommands
      /\ f.pos = Len(contexts) + 1 /\ shown = << >>
      BY DEF PrePass, ExpectedCommand, HelpForCommand, MatchCommand, MatchLeafCommand, Naming,
             CInv, PrePassOK, ShownOK, HelpIsDue
<1>4. f = frames[1] /\ Len(f.src) \in Nat  BY <1>3, OneFrame DEF CInv
<1>5. PathOK'  BY <1>1, CNextKeeps DEF CInv
<1>6. contexts \in Seq(Command) /\ Len(contexts) \in Nat \ {0}
      /\ contexts[Len(contexts)] \in Command
      BY ContextTyped DEF CInv
<1>7. SubsOf(contexts[Len(contexts)]) \in Seq(Command)  BY <1>6, CommandTyped
<1>8. CASE ExpectedCommand
  <2>1. /\ ~AtEnd => Matching = {}
        /\ UNCHANGED <<frames, contexts>>
        /\ shown' = Append(shown, contexts') /\ phase' = "done" /\ status' = "exit1"
        BY <1>8 DEF ExpectedCommand, ShowHelp, Exit1, Stop
  <2>2. NoneNamed
    <3> SUFFICES ASSUME Len(contexts) + 1 <= Len(frames[1].src),
                        NEW k \in 1..Len(SubsOf(contexts[Len(contexts)]))
                 PROVE  frames[1].src[Len(contexts) + 1] \notin
                            CommandDecl[SubsOf(contexts[Len(contexts)])[k]].names
        BY DEF NoneNamed
    <3>1. ~AtEnd  BY <1>3, <1>4, <1>6 DEF AtEnd
    <3>2. k \notin Matching  BY <2>1, <3>1
    <3> QED  BY <1>3, <1>4, <3>2 DEF Matching, Candidates, arg
  <2>3. NoneNamed'  BY <2>1, <2>2 DEF NoneNamed
  <2>4. HelpIsDue'  BY <2>1 DEF HelpIsDue
  <2> QED  BY <1>2, <1>3, <1>5, <2>1, <2>3, <2>4, OneShown
<1>9. CASE HelpForCommand
  <2>1. /\ arg \in HelpNames /\ UNCHANGED <<frames, contexts>>
        /\ shown' = Append(shown, contexts') /\ phase' = "done" /\ status' = "exit0"
        BY <1>9 DEF HelpForCommand, ShowHelp, ExitHelp, Stop
  <2>2. \A c \in Command : arg \notin CommandDecl[c].names
    <3>1. CASE NoHelp  BY <2>1, <3>1 DEF HelpNames, HelpNamesNoCommand
    <3>2. CASE ~NoHelp
      <4>1. PICK o \in LastHelp : arg \in Decl[o].names  BY <2>1, <3>2 DEF HelpNames
      <4>2. o \in Option  BY DEF LastHelp, HelpOptionOf, CInv, PathOK
      <4>3. arg \in Dashed  BY <4>1, <4>2, Checked DEF WellDeclared
      <4> QED  BY <4>3, CommandType
    <3> QED  BY <3>1, <3>2
  <2>3. NoneNamed
    <3> SUFFICES ASSUME NEW k \in 1..Len(SubsOf(contexts[Len(contexts)]))
                 PROVE  frames[1].src[Len(contexts) + 1] \notin
                            CommandDecl[SubsOf(contexts[Len(contexts)])[k]].names
        BY DEF NoneNamed
    <3>1. SubsOf(contexts[Len(contexts)])[k] \in Command  BY <1>7
    <3> QED  BY <1>3, <1>4, <2>2, <3>1 DEF arg
  <2>4. NoneNamed'  BY <2>1, <2>3 DEF NoneNamed
  <2>5. HelpIsDue'  BY <2>1 DEF HelpIsDue
  <2> QED  BY <1>2, <1>3, <1>5, <2>1, <2>4, <2>5, OneShown
<1>10. CASE MatchCommand
  <2>1. shown' = << >> /\ status' = "run"  BY <1>3, <1>10 DEF MatchCommand
  <2> QED  BY <2>1, NothingShown
<1>11. CASE MatchLeafCommand
  <2>1. CASE AsksForHelp(f.pos + 1)
    <3>1. /\ Naming /\ SubsOf(Matched) = << >> /\ contexts' = Append(contexts, Matched)
          /\ shown' = Append(shown, contexts') /\ phase' = "done" /\ status' = "exit0"
          BY <1>11, <2>1 DEF MatchLeafCommand, ShowHelp, ExitHelp
    <3>2. Matched \in Command  BY <3>1, MatchedIsFirst DEF CInv
    <3>3. contexts'[Len(contexts')] = Matched  BY <1>6, <3>1, <3>2
    <3>4. NoneNamed'  BY <3>1, <3>3 DEF NoneNamed
    <3>5. HelpIsDue'  BY <3>1 DEF HelpIsDue
    <3> QED  BY <1>2, <1>3, <1>5, <3>1, <3>4, <3>5, OneShown
  <2>2. CASE ~AsksForHelp(f.pos + 1)
    <3>1. shown' = << >> /\ status' = "run"
          BY <1>3, <1>11, <2>2 DEF MatchLeafCommand, RunContext
    <3> QED  BY <3>1, NothingShown
  <2> QED  BY <2>1, <2>2
<1> QED  BY <1>8, <1>9, <1>10, <1>11 DEF PrePass

\* A context's parse shows the help of all the contexts when it fails, and that
\* of the program at a declared help option.
LEMMA ParseContextShows ==
    ASSUME CInv, ShownOK, ParseContext
    PROVE  HelpIsOfTheLastCommand' /\ ShownOK'
<1>1. [CNext]_allvars  BY DEF CNext
<1>2. /\ phase = "options" /\ phase' = "options" /\ UNCHANGED contexts
      /\ ParseOption \/ Impl \/ Finish
      /\ ShowWhatTheParsePrints
      BY DEF ParseContext
<1>3. status \in {"run", "return"}  BY <1>2, StepsWhenActive DEF CInv
<1>4. shown = << >>  BY <1>2, <1>3 DEF ShownOK, HelpIsDue
<1>5. HasCommands' <=> HasCommands  BY <1>1, SameHelp
<1>6. PathOK'  BY <1>1, CNextKeeps DEF CInv
<1>7. NoneNamed'
  <2>1. SubsOf(contexts'[Len(contexts')]) = << >>  BY <1>2 DEF CInv, OptionsOK
  <2> QED  BY <2>1 DEF NoneNamed
<1>8. CASE status' = "exit1"
  <2>1. HelpIsDue'  BY <1>2, <1>8 DEF HelpIsDue
  <2>2. shown' = Append(shown, IF HasCommands THEN contexts' ELSE << >>)
        BY <1>2, <1>8 DEF ShowWhatTheParsePrints, ShowHelp
  <2>3. CASE HasCommands
    <3>1. shown' = Append(shown, contexts')  BY <2>2, <2>3
    <3> QED  BY <1>4, <1>5, <1>6, <1>7, <1>8, <2>1, <2>3, <3>1, OneShown
  <2>4. CASE ~HasCommands
    <3>1. shown' = Append(shown, << >>)  BY <2>2, <2>4
    <3> QED  BY <1>4, <1>5, <1>8, <2>1, <2>4, <3>1, OneShown
  <2> QED  BY <2>3, <2>4
<1>9. CASE status' = "exit0" /\ Decl[opt].kind = "help"
  <2>1. HelpIsDue'  BY <1>2, <1>9 DEF HelpIsDue
  <2>2. shown' = Append(shown, << >>)
        BY <1>2, <1>9 DEF ShowWhatTheParsePrints, ShowHelp
  <2>3. MetHelpOption'  BY <1>2, <1>9 DEF MetHelpOption
  <2> QED  BY <1>4, <1>9, <2>1, <2>2, <2>3, OneShown
<1>10. CASE status' # "exit1" /\ ~(status' = "exit0" /\ Decl[opt].kind = "help")
  <2>1. shown' = << >>  BY <1>2, <1>4, <1>10 DEF ShowWhatTheParsePrints
  <2> QED  BY <1>10, <2>1, NothingShown
<1> QED  BY <1>8, <1>9, <1>10

\* What is printed is one help: that of the last command named, for an error as
\* well as for a help flag that the pre-pass meets, and the program's when it has
\* no commands (parsing.hpp 1285, 1466, 1585-1604).  Of a declared help option
\* that a context meets, which HelpIsOnTheCommand is about, it says only that
\* this is the one help, and the last thing printed.
THEOREM HelpIsOfTheRightCommand ==
    ASSUME HelpNamesNoCommand
    PROVE  CSpec => []HelpIsOfTheLastCommand
<1>1. CInit => HelpIsOfTheLastCommand /\ ShownOK
  <2> SUFFICES ASSUME CInit  PROVE HelpIsOfTheLastCommand /\ ShownOK  OBVIOUS
  <2>1. shown = << >> /\ status = "run"  BY DEF CInit
  <2>2. Len(shown) = 0 /\ 1..Len(shown) = {}  BY <2>1
  <2> QED  BY <2>1, <2>2 DEF HelpIsOfTheLastCommand, ShownOK
<1>2. CInv /\ HelpIsOfTheLastCommand /\ ShownOK /\ [CNext]_allvars
        => HelpIsOfTheLastCommand' /\ ShownOK'
  <2> SUFFICES ASSUME CInv, HelpIsOfTheLastCommand, ShownOK, [CNext]_allvars
               PROVE  HelpIsOfTheLastCommand' /\ ShownOK'
      OBVIOUS
  <2>1. CASE Entering  BY <2>1, EnteringShows
  <2>2. CASE PrePass  BY <2>2, PrePassShows
  <2>3. CASE ParseContext  BY <2>3, ParseContextShows
  <2>4. CASE NextContext \/ CallFunction
    <3>1. shown = << >>
          BY <2>4 DEF NextContext, CallFunction, ShownOK, HelpIsDue
    <3>2. shown' = << >> /\ status' # "exit1"
          BY <2>4, <3>1 DEF NextContext, CallFunction, RunContext, vars
    <3> QED  BY <3>2, NothingShown
  <2>5. CASE UNCHANGED allvars
    <3>1. UNCHANGED <<frames, status, phase, contexts, shown>>
          BY <2>5 DEF allvars, vars, cvars
    <3>2. ShownOK'  BY <3>1 DEF ShownOK, HelpIsDue
    <3>3. HelpIsOfTheLastCommand'
          BY <3>1 DEF HelpIsOfTheLastCommand, HasCommands, MetHelpOption, IsLongestPath, Ran
    <3> QED  BY <3>2, <3>3
  <2> QED  BY <2>1, <2>2, <2>3, <2>4, <2>5 DEF CNext
<1> QED  BY <1>1, <1>2, CInvariance, PTL DEF CSpec

=============================================================================
