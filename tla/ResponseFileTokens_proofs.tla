--------------------- MODULE ResponseFileTokens_proofs ---------------------
(* Theorems about ResponseFileTokens, for every text over every character set. *)
EXTENDS ResponseFileTokens, Integers, WellFoundedInduction, TLAPS

\* just_before_end_ says that the word just read was the last; and a reader gives up
\* only between two words, with iterators that compare equal.
EndOK ==
    /\ justBeforeEnd => eos /\ at \in {"skip", "ready"}
    /\ refused => at = "ready" /\ InPass /\ Equal(Iterator, copy)

\* A copy that was made at the last word: the iterator is at that word still, or the
\* word was consumed.
CopyOK ==
    InPass /\ copy.eos =>
        /\ eos /\ copy.justBeforeEnd
        /\ \/ at = "ready" /\ justBeforeEnd /\ Index = copy.index
           \/ at = "skip"
           \/ at = "ready" /\ ~justBeforeEnd

RInv == TypeOK /\ EndOK /\ CopyOK

CopyType == [eos : BOOLEAN, justBeforeEnd : BOOLEAN, index : Nat]

-----------------------------------------------------------------------------

\* Every set of numbers has a least one.
LEMMA LeastNumber ==
    ASSUME NEW S \in SUBSET Nat, S # {}
    PROVE  \E n \in S : \A m \in S : n <= m
<1>1. IsWellFoundedOn(OpToRel(<, Nat), Nat)  BY NatLessThanWellFounded
<1>2. PICK n \in S : \A m \in S : ~(<<m, n>> \in OpToRel(<, Nat))
      BY <1>1, WFMin
<1>3. \A m \in S : ~(m < n)  BY <1>2 DEF OpToRel
<1> QED  BY <1>3

\* A word with more characters.
LEMMA Longer ==
    ASSUME NEW s \in Seq(Char), NEW t \in Seq(Char), NEW x \in Char
    PROVE  Append(s, x) \in Seq(Char) /\ s \o t \in Seq(Char)
OBVIOUS

\* A comment ends, at a line's end or with the text.
LEMMA CommentEnds ==
    ASSUME Len(text) \in Nat, NEW p \in 1..Len(text)
    PROVE  RestOfComment(p) \in p..(Len(text) + 1)
<1> DEFINE ends == {q \in p..(Len(text) + 1) : q <= Len(text) => text[q] \in LineEnd}
<1>1. Len(text) + 1 \in ends  OBVIOUS
<1>2. ends \subseteq Nat  OBVIOUS
<1>3. PICK q \in ends : \A m \in ends : q <= m  BY <1>1, <1>2, LeastNumber
<1>4. q \in p..(Len(text) + 1) /\ (q <= Len(text) => text[q] \in LineEnd)  OBVIOUS
<1>5. \A r \in p..(q - 1) : text[r] \notin LineEnd
  <2> TAKE r \in p..(q - 1)
  <2>1. SUFFICES ASSUME text[r] \in LineEnd PROVE FALSE  OBVIOUS
  <2>2. r \in ends  BY <1>4, <2>1
  <2>3. q <= r  BY <1>3, <2>2
  <2> QED  BY <1>4, <2>3
<1> QED  BY <1>4, <1>5 DEF RestOfComment

\* What TypeOK says of each variable.
LEMMA Typed ==
    ASSUME TypeOK
    PROVE  /\ text \in Seq(Char) /\ Len(text) \in Nat
           /\ it \in 1..(Len(text) + 1)
           /\ current \in Seq(Char) /\ words \in Seq(Seq(Char))
           /\ copy \in CopyType /\ Index \in Nat
<1>1. file.text \in Seq(Char)  BY DEF TypeOK
<1>2. current \in Seq(Char) /\ words \in Seq(Seq(Char))  BY DEF TypeOK
<1>3. it \in 1..(Len(text) + 1) /\ copy \in CopyType  BY DEF TypeOK, CopyType
<1> QED  BY <1>1, <1>2, <1>3 DEF text, Index

\* The character that is read next.
LEMMA NextCharTyped ==
    ASSUME TypeOK, ~eos
    PROVE  it \in 1..Len(text) /\ c \in Char
<1>1. text \in Seq(Char) /\ Len(text) \in Nat /\ it \in 1..(Len(text) + 1)  BY Typed
<1>2. it \in 1..Len(text)  BY <1>1 DEF eos
<1> QED  BY <1>1, <1>2 DEF c

-----------------------------------------------------------------------------

\* An action of ++ that reads a character leaves the reader alone: no copy can be at
\* the last word yet.
LEMMA ReadingKeeps ==
    ASSUME RInv, ~eos, at # "ready",
           at' \in {"skip", "word", "finish"}, it' \in 1..(Len(text) + 1),
           current' \in Seq(Char), inQuotes' \in BOOLEAN,
           UNCHANGED <<file, justBeforeEnd, reader>>
    PROVE  RInv'
<1>1. TypeOK'  BY DEF RInv, TypeOK, reader, text
<1>2. ~justBeforeEnd /\ ~refused  BY DEF RInv, EndOK
<1>3. EndOK'  BY <1>2 DEF EndOK, reader
<1>4. ~(InPass /\ copy.eos)  BY DEF RInv, CopyOK
<1>5. CopyOK'  BY <1>4 DEF CopyOK, InPass, reader
<1> QED  BY <1>1, <1>3, <1>5 DEF RInv

LEMMA SkipKeeps ==
    ASSUME RInv, SkipSpace \/ SkipComment
    PROVE  RInv'
<1>1. /\ at \in {"skip", "finish"} /\ ~eos
      /\ UNCHANGED <<file, current, inQuotes, justBeforeEnd, at, reader>>
      BY DEF SkipSpace, SkipComment, Skipping
<1>2. Len(text) \in Nat /\ it \in 1..Len(text) /\ current \in Seq(Char)
      BY <1>1, Typed, NextCharTyped DEF RInv
<1>3. it' \in 1..(Len(text) + 1)
  <2>1. CASE SkipSpace  BY <1>2, <2>1 DEF SkipSpace
  <2>2. CASE SkipComment
    <3>1. RestOfComment(it) \in it..(Len(text) + 1)  BY <1>2, CommentEnds
    <3> QED  BY <1>2, <2>2, <3>1 DEF SkipComment
  <2> QED  BY <2>1, <2>2
<1>4. inQuotes \in BOOLEAN  BY DEF RInv, TypeOK
<1> QED  BY <1>1, <1>2, <1>3, <1>4, ReadingKeeps

\* The characters of a word.
LEMMA WordKeeps ==
    ASSUME RInv, ReadQuote \/ ReadEscape \/ ReadSeparator \/ ReadOther
    PROVE  RInv'
<1>1. at = "word" /\ ~eos /\ UNCHANGED <<file, justBeforeEnd, reader>>
      BY DEF ReadQuote, ReadEscape, ReadSeparator, ReadOther
<1>2. /\ text \in Seq(Char) /\ Len(text) \in Nat /\ it \in 1..Len(text) /\ c \in Char
      /\ current \in Seq(Char)
      BY <1>1, Typed, NextCharTyped DEF RInv
<1>3. inQuotes \in BOOLEAN  BY DEF RInv, TypeOK
<1>4. /\ at' \in {"skip", "word", "finish"} /\ it' \in 1..(Len(text) + 1)
      /\ current' \in Seq(Char) /\ inQuotes' \in BOOLEAN
  <2>1. CASE ReadQuote  BY <1>2, <1>3, <2>1 DEF ReadQuote
  <2>2. CASE ReadEscape
    <3>1. CASE it = Len(text)  BY <1>1, <1>2, <1>3, <2>2, <3>1 DEF ReadEscape
    <3>2. CASE it # Len(text)
      <4>1. it + 1 \in 1..Len(text)  BY <1>2, <3>2
      <4>2. text[it + 1] \in Char  BY <1>2, <4>1
      <4>3. \A x, y \in Char : <<x, y>> \in Seq(Char)  OBVIOUS
      <4>4. current' \in Seq(Char)
        <5>1. <<c, text[it + 1]>> \in Seq(Char)  BY <1>2, <4>2, <4>3
        <5>2. \/ current' = Append(current, text[it + 1])
              \/ current' = current \o <<c, text[it + 1]>>
              BY <2>2, <3>2 DEF ReadEscape
        <5> QED  BY <1>2, <4>2, <5>1, <5>2, Longer
      <4>5. it' \in 1..(Len(text) + 1)  BY <1>2, <2>2, <3>2, <4>1 DEF ReadEscape
      <4>6. at' = at /\ inQuotes' = inQuotes  BY <2>2 DEF ReadEscape
      <4> QED  BY <1>1, <1>3, <4>4, <4>5, <4>6
    <3> QED  BY <3>1, <3>2
  <2>3. CASE ReadSeparator  BY <1>2, <1>3, <2>3 DEF ReadSeparator
  <2>4. CASE ReadOther  BY <1>1, <1>2, <1>3, <2>4 DEF ReadOther
  <2> QED  BY <2>1, <2>2, <2>3, <2>4
<1> QED  BY <1>1, <1>4, ReadingKeeps

\* The beginning and the end of a word, where the iterator may be at the end.
LEMMA BeginWordKeeps ==
    ASSUME RInv, BeginWord
    PROVE  RInv'
<1>1. /\ at = "skip" /\ inQuotes' = FALSE
      /\ UNCHANGED <<file, it, current, words, copy, refused>>
      BY DEF BeginWord, reader
<1>2. ~refused  BY <1>1 DEF RInv, EndOK
<1>3. CASE eos
  <2>1. justBeforeEnd' = FALSE /\ at' = "ready"  BY <1>3 DEF BeginWord
  <2>2. TypeOK'  BY <1>1, <2>1 DEF RInv, TypeOK, text
  <2>3. EndOK'  BY <1>1, <1>2, <2>1 DEF EndOK
  <2>4. eos' = eos  BY <1>1 DEF eos, text
  <2>5. CopyOK'  BY <1>1, <1>3, <2>1, <2>4 DEF RInv, CopyOK, InPass
  <2> QED  BY <2>2, <2>3, <2>5 DEF RInv
<1>4. CASE ~eos
  <2>1. justBeforeEnd' = justBeforeEnd /\ at' = "word"  BY <1>4 DEF BeginWord
  <2>2. it \in 1..Len(text) /\ Len(text) \in Nat /\ current \in Seq(Char)
        BY <1>4, Typed, NextCharTyped DEF RInv
  <2>3. it' \in 1..(Len(text) + 1)  BY <1>1, <2>2
  <2>4. UNCHANGED <<file, justBeforeEnd, reader>>  BY <1>1, <2>1 DEF reader
  <2>5. current' \in Seq(Char) /\ inQuotes' \in BOOLEAN  BY <1>1, <2>2
  <2> QED  BY <1>1, <1>4, <2>1, <2>3, <2>4, <2>5, ReadingKeeps
<1> QED  BY <1>3, <1>4

LEMMA EndWordKeeps ==
    ASSUME RInv, WordAtEnd \/ FinishWord
    PROVE  RInv'
<1>1. /\ at \in {"word", "finish"}
      /\ UNCHANGED <<file, it, inQuotes, words, copy, refused>>
      BY DEF WordAtEnd, FinishWord, reader
<1>2. ~refused /\ ~justBeforeEnd /\ ~(InPass /\ copy.eos)
      BY <1>1 DEF RInv, EndOK, CopyOK
<1>3. ~(InPass /\ copy.eos)'  BY <1>1, <1>2 DEF InPass
<1>4. eos' = eos  BY <1>1 DEF eos, text
<1>5. CASE WordAtEnd
  <2>1. current' = current /\ justBeforeEnd' = justBeforeEnd /\ at' = "finish"
        BY <1>5 DEF WordAtEnd
  <2>2. TypeOK'  BY <1>1, <2>1 DEF RInv, TypeOK, text
  <2> QED  BY <1>1, <1>2, <1>3, <2>1, <2>2 DEF RInv, EndOK, CopyOK
<1>6. CASE FinishWord
  <2>1. current \in Seq(Char)  BY Typed DEF RInv
  <2>2. current' \in Seq(Char)
    <3>1. CASE IsQuoted
      <4>1. Len(current) \in Nat /\ Len(current) >= 2  BY <2>1, <3>1 DEF IsQuoted
      <4>2. SubSeq(current, 2, Len(current) - 1) \in Seq(Char)  BY <2>1, <4>1
      <4> QED  BY <1>6, <3>1, <4>2 DEF FinishWord
    <3>2. CASE ~IsQuoted  BY <1>6, <2>1, <3>2 DEF FinishWord
    <3> QED  BY <3>1, <3>2
  <2>3. justBeforeEnd' = eos /\ at' = "ready"
    <3>1. at' = "ready" /\ justBeforeEnd' = IF eos THEN TRUE ELSE justBeforeEnd
          BY <1>6 DEF FinishWord
    <3>2. justBeforeEnd = FALSE  BY <1>2 DEF RInv, TypeOK
    <3>3. eos \in BOOLEAN  BY DEF eos
    <3> QED  BY <3>1, <3>2, <3>3
  <2>4. TypeOK'  BY <1>1, <2>2, <2>3 DEF RInv, TypeOK, text, eos
  <2>5. EndOK'  BY <1>1, <1>2, <1>4, <2>3 DEF EndOK
  <2>6. CopyOK'  BY <1>3 DEF CopyOK
  <2> QED  BY <2>4, <2>5, <2>6 DEF RInv
<1> QED  BY <1>5, <1>6

-----------------------------------------------------------------------------

\* A pass begins with a copy, at the last word or before it.
LEMMA BeginPassKeeps ==
    ASSUME RInv, BeginPass
    PROVE  RInv'
<1>1. /\ at = "ready" /\ ~refused /\ ~Equal(Iterator, End) /\ copy' = Iterator
      /\ UNCHANGED <<file, it, current, inQuotes, justBeforeEnd, at, words, refused>>
      BY DEF BeginPass
<1>2. Index \in Nat /\ justBeforeEnd \in BOOLEAN /\ eos \in BOOLEAN
      BY Typed DEF RInv, TypeOK, eos
<1>3. copy' \in CopyType  BY <1>1, <1>2 DEF Iterator, CopyType
<1>4. TypeOK'  BY <1>1, <1>3 DEF RInv, TypeOK, text, CopyType
<1>5. eos' = eos /\ Index' = Index  BY <1>1 DEF eos, text, Index
<1>6. EndOK'  BY <1>1, <1>5 DEF RInv, EndOK
<1>7. copy'.eos = eos /\ copy'.justBeforeEnd = justBeforeEnd /\ copy'.index = Index
      BY <1>1 DEF Iterator
<1>8. eos => justBeforeEnd
  <2> SUFFICES ASSUME eos, ~justBeforeEnd PROVE FALSE  OBVIOUS
  <2>1. eos = TRUE /\ justBeforeEnd = FALSE  BY <1>2
  <2>2. Equal(Iterator, End)  BY <2>1 DEF Equal, Iterator, End
  <2> QED  BY <1>1, <2>2
<1>9. CopyOK'  BY <1>1, <1>2, <1>5, <1>7, <1>8 DEF CopyOK
<1> QED  BY <1>4, <1>6, <1>9 DEF RInv

\* Reading the last word does not yet make the iterator the end: the next ++ does.
LEMMA ReadWordKeeps ==
    ASSUME RInv, ReadWord
    PROVE  RInv'
<1>1. /\ ~refused /\ InPass /\ words' = Append(words, current) /\ current' = << >>
      /\ at' = "skip"
      /\ UNCHANGED <<file, it, inQuotes, justBeforeEnd, copy, refused>>
      BY DEF ReadWord
<1>2. words' \in Seq(Seq(Char)) /\ current' \in Seq(Char)
  <2>1. current \in Seq(Char) /\ words \in Seq(Seq(Char))  BY Typed DEF RInv
  <2>2. << >> \in Seq(Char)  OBVIOUS
  <2> QED  BY <1>1, <2>1, <2>2
<1>3. TypeOK'  BY <1>1, <1>2 DEF RInv, TypeOK, text
<1>4. eos' = eos  BY <1>1 DEF eos, text
<1>5. EndOK'  BY <1>1, <1>4 DEF RInv, EndOK
<1>6. CopyOK'  BY <1>1, <1>4 DEF RInv, CopyOK, InPass
<1> QED  BY <1>3, <1>5, <1>6 DEF RInv

LEMMA EndPassKeeps ==
    ASSUME RInv, EndPass
    PROVE  RInv'
<1>1. /\ at = "ready" /\ ~refused /\ InPass
      /\ UNCHANGED <<file, it, current, inQuotes, justBeforeEnd, at, words>>
      BY DEF EndPass
<1>2. eos' = eos /\ Index' = Index /\ Iterator' = Iterator
      BY <1>1 DEF eos, text, Index, Iterator
<1>3. CASE Equal(Iterator, copy)
  <2>1. refused' = TRUE /\ copy' = copy  BY <1>3 DEF EndPass
  <2>2. TypeOK'  BY <1>1, <2>1 DEF RInv, TypeOK, text
  <2>3. Equal(Iterator, copy)' /\ InPass'
        BY <1>1, <1>2, <1>3, <2>1 DEF Equal, InPass
  <2>4. EndOK'  BY <1>1, <1>2, <2>3 DEF RInv, EndOK
  <2>5. CopyOK'  BY <1>1, <1>2, <2>1 DEF RInv, CopyOK, InPass
  <2> QED  BY <2>2, <2>4, <2>5 DEF RInv
<1>4. CASE ~Equal(Iterator, copy)
  <2>1. refused' = refused /\ copy' = End  BY <1>4 DEF EndPass
  <2>2. End \in CopyType  BY DEF End, CopyType
  <2>3. TypeOK'  BY <1>1, <2>1, <2>2 DEF RInv, TypeOK, text, CopyType
  <2>4. EndOK'  BY <1>1, <1>2, <2>1 DEF RInv, EndOK
  <2>5. CopyOK'  BY <2>1 DEF CopyOK, InPass, End
  <2> QED  BY <2>3, <2>4, <2>5 DEF RInv
<1> QED  BY <1>3, <1>4

-----------------------------------------------------------------------------

LEMMA Initially == Init => RInv
<1> SUFFICES ASSUME Init PROVE RInv  OBVIOUS
<1>1. file \in [text : Seq(Char), words : Seq(Seq(Char))]  BY CharType DEF Init
<1>2. Len(text) \in Nat  BY <1>1 DEF text
<1>3. it \in 1..(Len(text) + 1)  BY <1>2 DEF Init
<1>4. << >> \in Seq(Char) /\ << >> \in Seq(Seq(Char))  OBVIOUS
<1>5. End \in CopyType  BY DEF End, CopyType
<1>6. TypeOK  BY <1>1, <1>3, <1>4, <1>5 DEF Init, TypeOK, CopyType
<1>7. EndOK /\ CopyOK  BY DEF Init, EndOK, CopyOK, InPass
<1> QED  BY <1>6, <1>7 DEF RInv

LEMMA Stuttering ==
    ASSUME RInv, UNCHANGED vars
    PROVE  RInv'
<1>1. UNCHANGED <<file, it, current, inQuotes, justBeforeEnd, at, words, copy, refused>>
      BY DEF vars
<1>2. eos' = eos /\ Index' = Index /\ Iterator' = Iterator
      BY <1>1 DEF eos, text, Index, Iterator
<1>3. TypeOK'  BY <1>1 DEF RInv, TypeOK, text
<1>4. EndOK'  BY <1>1, <1>2 DEF RInv, EndOK, InPass, Equal
<1>5. CopyOK'  BY <1>1, <1>2 DEF RInv, CopyOK, InPass
<1> QED  BY <1>3, <1>4, <1>5 DEF RInv

\* The inductive invariant: types, and what a copy and the iterator have in common.
THEOREM ReadersAgree == Spec => []RInv
<1>1. ASSUME RInv, [Next]_vars PROVE RInv'
  <2>1. CASE Increment
        BY <1>1, <2>1, SkipKeeps, BeginWordKeeps, WordKeeps, EndWordKeeps DEF Increment
  <2>2. CASE BeginPass \/ ReadWord \/ EndPass
        BY <1>1, <2>2, BeginPassKeeps, ReadWordKeeps, EndPassKeeps
  <2>3. CASE UNCHANGED vars  BY <1>1, <2>3, Stuttering
  <2> QED  BY <1>1, <2>1, <2>2, <2>3 DEF Next
<1> QED  BY <1>1, Initially, PTL DEF Spec

\* No character is read past the end of a file, after a backslash, inside a quote or
\* at the end of a comment that nothing follows (arg_view.hpp 220-288).
THEOREM FileTypeCorrect == Spec => []TypeOK
<1>1. RInv => TypeOK  BY DEF RInv
<1> QED  BY <1>1, ReadersAgree, PTL

\* A file is refused for a pass that read nothing, as it should be, or while there is
\* more to read: at the last word and past it a copy compares as it should
\* (arg_view.hpp 295-300, parsing.hpp 967).
THEOREM RefusedEarlyOnly ==
    Spec => [](refused => Index = copy.index \/ (~eos /\ ~copy.eos))
<1>1. ASSUME RInv, refused PROVE Index = copy.index \/ (~eos /\ ~copy.eos)
  <2>1. at = "ready" /\ InPass /\ Equal(Iterator, copy)  BY <1>1 DEF RInv, EndOK
  <2>2. eos = copy.eos /\ justBeforeEnd = copy.justBeforeEnd
        BY <2>1 DEF Equal, Iterator
  <2>3. CASE copy.eos  BY <1>1, <2>1, <2>2, <2>3 DEF RInv, CopyOK
  <2>4. CASE ~copy.eos  BY <2>2, <2>4
  <2> QED  BY <2>3, <2>4
<1> QED  BY <1>1, ReadersAgree, PTL

=============================================================================
