------------------------- MODULE JsonReader_proofs -------------------------
(* Theorems about JsonReader, for every text over every set of words.        *)
EXTENDS JsonReader, TLAPS

\* What a bracket that is still open asks for, and what a finished text has: the
\* verdict is on all of the text, with everything in it closed.
Nesting ==
    /\ expects = "more" => stack # << >>
    /\ expects = "end" => stack = << >>
    /\ expects = "accepted" => stack = << >> /\ at = Len(text) + 1

JInv == TypeOK /\ Nesting

Kinds == {"array", "object"}

\* A symbol that carries a word.
LEMMA WordTyped ==
    ASSUME NEW s \in Symbol, s.is \in {"string", "number", "literal"}
    PROVE  s.word \in Word
<1>1. s \notin Structure  BY DEF Structure
<1>2. s \notin Junk  BY DEF Junk
<1>3. s \in Scalar  BY <1>1, <1>2 DEF Symbol
<1> QED  BY <1>3 DEF Scalar

\* Reading one symbol keeps the position in the text.
LEMMA StepTyped ==
    ASSUME TypeOK, NEW kinds, Is(kinds), NEW next, Step(next)
    PROVE  /\ text' \in Seq(Symbol) /\ at' \in 1..(Len(text') + 1)
           /\ text[at] \in Symbol /\ text[at].is \in kinds
           /\ expects' = next
<1>1. ~AtTextEnd  BY DEF Is
<1>2. text[at].is \in kinds  BY DEF Is
<1>3. text \in Seq(Symbol) /\ at \in 1..Len(text)
  <2>1. text \in Seq(Symbol) /\ at \in 1..(Len(text) + 1)  BY DEF TypeOK
  <2> QED  BY <1>1, <2>1 DEF AtTextEnd
<1>4. text[at] \in Symbol  BY <1>3
<1>5. text' = text /\ at' = at + 1 /\ expects' = next  BY DEF Step
<1>6. text' \in Seq(Symbol) /\ at' \in 1..(Len(text') + 1)
      BY <1>3, <1>5
<1> QED  BY <1>2, <1>4, <1>5, <1>6

\* What comes after a value, at every depth.
LEMMA AfterValueTyped ==
    ASSUME NEW s \in Seq(Kinds)
    PROVE  /\ AfterValue(s) \in {"end", "more"}
           /\ AfterValue(s) = "more" => s # << >>
           /\ AfterValue(s) = "end" => s = << >>
BY DEF AfterValue

LEMMA ReadScalarKeeps ==
    ASSUME JInv, ReadScalar
    PROVE  JInv'
<1> USE DEF JInv
<1>1. Step(AfterValue(stack)) /\ Is({"string", "number", "literal"})  BY DEF ReadScalar
<1>2. /\ text' \in Seq(Symbol) /\ at' \in 1..(Len(text') + 1)
      /\ text[at] \in Symbol /\ text[at].is \in {"string", "number", "literal"}
      /\ expects' = AfterValue(stack)
      BY <1>1, StepTyped
<1>3. text[at].word \in Word  BY <1>2, WordTyped
<1>4. words' \in Seq(Word)
  <2>1. words' = Append(words, text[at].word)  BY DEF ReadScalar
  <2>2. words \in Seq(Word)  BY DEF TypeOK
  <2> QED  BY <1>3, <2>1, <2>2
<1>5. stack' = stack /\ stack \in Seq(Kinds)  BY DEF ReadScalar, TypeOK, Kinds
<1>6. expects' \in {"end", "more"} /\ (expects' = "more" => stack' # << >>)
      /\ (expects' = "end" => stack' = << >>)
      BY <1>2, <1>5, AfterValueTyped
<1> QED  BY <1>2, <1>4, <1>5, <1>6 DEF TypeOK, Nesting, Kinds

\* The stack with one more bracket open.
LEMMA Opened ==
    ASSUME NEW s \in Seq(Kinds), NEW kind \in Kinds
    PROVE  Append(s, kind) \in Seq(Kinds) /\ Append(s, kind) # << >>
<1>1. Append(s, kind) \in Seq(Kinds) /\ Len(Append(s, kind)) = Len(s) + 1  OBVIOUS
<1>2. Len(s) + 1 # 0 /\ Len(<< >>) = 0  OBVIOUS
<1> QED  BY <1>1, <1>2

LEMMA OpenKeeps ==
    ASSUME JInv, OpenArray \/ OpenObject
    PROVE  JInv'
<1> USE DEF JInv
<1>1. PICK kind \in Kinds, next \in {"value or ]", "key or }"} :
         \E symbols : Is(symbols) /\ stack' = Append(stack, kind) /\ Step(next) /\ words' = words
      BY DEF OpenArray, OpenObject, Kinds
<1>2. text' \in Seq(Symbol) /\ at' \in 1..(Len(text') + 1) /\ expects' = next
      BY <1>1, StepTyped
<1>3. stack' \in Seq(Kinds) /\ stack' # << >>
  <2>1. stack \in Seq(Kinds)  BY DEF TypeOK, Kinds
  <2>2. stack' = Append(stack, kind)  BY <1>1
  <2> QED  BY <2>1, <2>2, Opened
<1>4. words' \in Seq(Word)  BY <1>1 DEF TypeOK
<1> QED  BY <1>2, <1>3, <1>4 DEF TypeOK, Nesting, Kinds

LEMMA ReadKeyKeeps ==
    ASSUME JInv, ReadKey
    PROVE  JInv'
<1> USE DEF JInv
<1>1. Step(":") /\ Is({"string"})  BY DEF ReadKey
<1>2. /\ text' \in Seq(Symbol) /\ at' \in 1..(Len(text') + 1)
      /\ text[at] \in Symbol /\ text[at].is = "string" /\ expects' = ":"
      BY <1>1, StepTyped
<1>3. text[at].word \in Word  BY <1>2, WordTyped
<1>4. words' \in Seq(Word) /\ stack' = stack
  <2>1. words' = Append(words, text[at].word) /\ stack' = stack  BY DEF ReadKey
  <2>2. words \in Seq(Word)  BY DEF TypeOK
  <2> QED  BY <1>3, <2>1, <2>2
<1> QED  BY <1>2, <1>4 DEF TypeOK, Nesting

LEMMA PunctuationKeeps ==
    ASSUME JInv, ReadColon \/ ReadComma
    PROVE  JInv'
<1> USE DEF JInv
<1>1. PICK next \in {"value", "key"} :
         \E symbols : Is(symbols) /\ Step(next) /\ stack' = stack /\ words' = words
  <2>1. CASE ReadColon  BY <2>1 DEF ReadColon
  <2>2. CASE ReadComma  BY <2>2 DEF ReadComma
  <2> QED  BY <2>1, <2>2
<1>2. text' \in Seq(Symbol) /\ at' \in 1..(Len(text') + 1) /\ expects' = next
      BY <1>1, StepTyped
<1> QED  BY <1>1, <1>2 DEF TypeOK, Nesting

LEMMA CloseKeeps ==
    ASSUME JInv, CloseArray \/ CloseObject
    PROVE  JInv'
<1> USE DEF JInv
<1>1. PICK symbols : Is(symbols) /\ stack # << >> /\ Close
      BY DEF CloseArray, CloseObject, Within
<1>2. text' \in Seq(Symbol) /\ at' \in 1..(Len(text') + 1) /\ expects' = AfterValue(Outer)
      BY <1>1, StepTyped DEF Close
<1>3. stack' = Outer /\ Outer \in Seq(Kinds) /\ words' = words
  <2>0. stack \in Seq(Kinds)  BY DEF TypeOK, Kinds
  <2>1. stack \in Seq(Kinds) /\ Len(stack) - 1 \in 0..Len(stack)
        BY <1>1, <2>0
  <2> QED  BY <1>1, <2>1 DEF Close, Outer
<1>4. expects' \in {"end", "more"} /\ (expects' = "more" => stack' # << >>)
      /\ (expects' = "end" => stack' = << >>)
      BY <1>2, <1>3, AfterValueTyped
<1> QED  BY <1>2, <1>3, <1>4 DEF TypeOK, Nesting, Kinds

LEMMA VerdictKeeps ==
    ASSUME JInv, Mismatch \/ Accept
    PROVE  JInv'
<1>1. UNCHANGED <<text, at, stack, words>>  BY DEF Mismatch, Accept
<1>2. CASE Mismatch  BY <1>1, <1>2 DEF Mismatch, JInv, TypeOK, Nesting
<1>3. CASE Accept
  <2>1. at = Len(text) + 1  BY <1>3 DEF Accept, AtTextEnd, JInv, TypeOK
  <2> QED  BY <1>1, <1>3, <2>1 DEF Accept, JInv, TypeOK, Nesting
<1> QED  BY <1>2, <1>3

\* One symbol, or the verdict: what is open and what is awaited agree.
LEMMA Inductive ==
    ASSUME JInv, [Next]_vars
    PROVE  JInv'
<1>1. CASE ReadSymbol
      BY <1>1, ReadScalarKeeps, OpenKeeps, ReadKeyKeeps, PunctuationKeeps, CloseKeeps
      DEF ReadSymbol
<1>2. CASE Mismatch \/ Accept  BY <1>2, VerdictKeeps
<1>3. CASE UNCHANGED vars  BY <1>3 DEF vars, JInv, TypeOK, Nesting
<1> QED  BY <1>1, <1>2, <1>3 DEF Next

LEMMA Holds == Spec => []JInv
<1>1. Init => JInv
  <2> SUFFICES ASSUME Init PROVE JInv  OBVIOUS
  <2>1. << >> \in Seq({"array", "object"}) /\ << >> \in Seq(Word)  OBVIOUS
  <2>2. Len(text) \in Nat  BY DEF Init
  <2> QED  BY <2>1, <2>2 DEF Init, Start, JInv, TypeOK, Nesting
<1> QED  BY <1>1, Inductive, PTL DEF Spec

\* No text takes the reader past its end, or to a bracket that was not opened: the
\* position, the stack and the words stay what they are (storage.hpp 426-466).
THEOREM JsonTypeCorrect == Spec => []TypeOK
<1>1. JInv => TypeOK  BY DEF JInv
<1> QED  BY <1>1, Holds, PTL

\* A text is accepted only when all of it was read and nothing in it is open: an
\* object or array that is cut off, as a failed save leaves it, never loads
\* (storage.hpp 645-650).
THEOREM AcceptsOnlyWholeTexts ==
    Spec => [](expects = "accepted" => stack = << >> /\ at = Len(text) + 1)
<1>1. JInv => (expects = "accepted" => stack = << >> /\ at = Len(text) + 1)
      BY DEF JInv, Nesting
<1> QED  BY <1>1, Holds, PTL

-----------------------------------------------------------------------------
(* Texts that are cut off.                                                    *)

\* The text of an object without the brace that closes it, and without any other.
Unclosed == /\ \A k \in 1..Len(text) : text[k].is # "}"
            /\ text # << >> => text[1].is = "{"

\* How far the reader gets with it: the object is at the bottom of the stack.
StillOpen == \/ Start
             \/ expects = "malformed"
             \/ stack # << >> /\ stack[1] = "object" /\ expects # "accepted"

LEMMA StaysOpen ==
    ASSUME JInv, Unclosed, StillOpen, [Next]_vars
    PROVE  Unclosed' /\ StillOpen'
<1> USE DEF JInv
<1>1. UNCHANGED text
      BY DEF Next, ReadSymbol, ReadScalar, OpenArray, OpenObject, ReadKey, ReadColon, ReadComma,
             CloseArray, CloseObject, Close, Step, Mismatch, Accept, vars
<1>2. Unclosed'  BY <1>1 DEF Unclosed
<1>3. stack \in Seq(Kinds)  BY DEF TypeOK, Kinds
<1>4. CASE UNCHANGED vars  BY <1>2, <1>4 DEF vars, StillOpen, Start
<1>5. CASE Mismatch  BY <1>2, <1>5 DEF Mismatch, StillOpen
<1>6. CASE Accept
  <2>1. expects = "end"  BY <1>6 DEF Accept
  <2>2. stack = << >>  BY <2>1 DEF Nesting
  <2> QED  BY <2>1, <2>2 DEF StillOpen, Start
<1>7. CASE OpenArray \/ OpenObject
  <2>1. PICK kind \in Kinds : stack' = Append(stack, kind) /\ (OpenObject => kind = "object")
        BY <1>7 DEF OpenArray, OpenObject, Kinds
  <2>2. expects' # "accepted" /\ expects \in Values
        BY <1>7 DEF OpenArray, OpenObject, Step
  <2>3. CASE Start
    <3>1. at = 1 /\ stack = << >> /\ text # << >>
      <4>1. at = 1 /\ stack = << >>  BY <2>3 DEF Start
      <4>2. ~AtTextEnd  BY <1>7 DEF OpenArray, OpenObject, Is
      <4> QED  BY <4>1, <4>2 DEF AtTextEnd
    <3>2. text[at].is = "{"  BY <3>1 DEF Unclosed
    <3>3. OpenObject  BY <1>7, <3>2 DEF OpenArray, Is
    <3>4. stack' = <<"object">>  BY <2>1, <3>1, <3>3
    <3> QED  BY <1>2, <2>2, <3>4 DEF StillOpen
  <2>4. CASE stack # << >> /\ stack[1] = "object"
    <3>1. Len(stack) \in Nat /\ Len(stack) >= 1  BY <1>3, <2>4
    <3>2. stack'[1] = stack[1] /\ stack' # << >>  BY <1>3, <2>1, <3>1
    <3> QED  BY <1>2, <2>2, <2>4, <3>2 DEF StillOpen
  <2> QED  BY <2>2, <2>3, <2>4 DEF StillOpen, Values
<1>8. CASE ReadScalar \/ ReadKey \/ ReadColon \/ ReadComma
  <2>1. /\ stack' = stack /\ expects' # "accepted" /\ expects # "malformed" /\ ~AtTextEnd
        /\ text[at].is # "{"
        BY <1>8 DEF ReadScalar, ReadKey, ReadColon, ReadComma, Step, AfterValue, Is, Reading
  <2>2. ~Start
    <3>1. SUFFICES ASSUME Start  PROVE FALSE  OBVIOUS
    <3>2. at = 1  BY <3>1 DEF Start
    <3>3. text # << >>
      <4>1. ASSUME text = << >>  PROVE at > Len(text)
        <5>1. Len(text) = 0  BY <4>1
        <5> QED  BY <3>2, <5>1
      <4> QED  BY <2>1, <4>1 DEF AtTextEnd
    <3> QED  BY <2>1, <3>2, <3>3 DEF Unclosed
  <2> QED  BY <1>2, <2>1, <2>2 DEF StillOpen
<1>9. CASE CloseArray \/ CloseObject
  <2>1. stack # << >> /\ stack' = Outer /\ expects' # "accepted" /\ expects # "malformed"
        BY <1>9 DEF CloseArray, CloseObject, Within, Close, Step, AfterValue
  <2>2. CloseArray
    <3>1. ~Is({"}"})
      <4>1. at \in Nat \ {0} /\ Len(text) \in Nat
        <5>1. text \in Seq(Symbol) /\ at \in 1..(Len(text) + 1)  BY DEF TypeOK
        <5>2. Len(text) \in Nat  BY <5>1
        <5> QED  BY <5>1, <5>2
      <4>2. ~AtTextEnd => at \in 1..Len(text)  BY <4>1 DEF AtTextEnd
      <4> QED  BY <4>2 DEF Is, Unclosed
    <3> QED  BY <1>9, <3>1 DEF CloseObject
  <2>3. stack[Len(stack)] = "array"  BY <2>2 DEF CloseArray, Within, Innermost
  <2>4. stack[1] = "object"  BY <2>1 DEF StillOpen, Start
  <2> DEFINE n == Len(stack)
  <2>5. n \in Nat /\ n >= 1 /\ n # 1  BY <1>3, <2>1, <2>3, <2>4
  <2>6. Outer = SubSeq(stack, 1, n - 1)  BY DEF Outer
  <2>7. Len(Outer) = n - 1 /\ Outer[1] = stack[1]
    <3> HIDE DEF n
    <3>1. n - 1 \in Nat /\ 1 <= n - 1 /\ n - 1 <= n  BY <2>5
    <3>2. \A s \in Seq(Kinds), m \in Nat :
             1 <= m /\ m <= Len(s) => Len(SubSeq(s, 1, m)) = m /\ SubSeq(s, 1, m)[1] = s[1]
          OBVIOUS
    <3> QED  BY <1>3, <2>6, <3>1, <3>2 DEF n
  <2>8. Outer # << >>  BY <2>5, <2>7
  <2> QED  BY <1>2, <2>1, <2>4, <2>7, <2>8 DEF StillOpen
<1> QED  BY <1>4, <1>5, <1>6, <1>7, <1>8, <1>9 DEF Next, ReadSymbol

\* An object that nothing closes is never accepted, however far it goes: what a save
\* that was interrupted leaves does not load (storage.hpp 536-582, 645-650).
THEOREM CutOffIsRefused == Spec /\ Unclosed => [](expects # "accepted")
<1>1. Init => StillOpen  BY DEF Init, StillOpen
<1>2. JInv /\ Unclosed /\ StillOpen /\ [Next]_vars => Unclosed' /\ StillOpen'  BY StaysOpen
<1>3. JInv /\ StillOpen => expects # "accepted"  BY DEF StillOpen, Start
<1> QED  BY <1>1, <1>2, <1>3, Holds, PTL DEF Spec

=============================================================================
