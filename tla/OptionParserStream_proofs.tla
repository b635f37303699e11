--------------------- MODULE OptionParserStream_proofs ---------------------
(* OptionParser implements TokenStream, for every declaration, tuple, file   *)
(* system and argument list.                                                 *)
EXTENDS OptionParserStream, OptionResults_proofs, WellFoundedInduction,
        SequenceTheorems

-----------------------------------------------------------------------------
(* What FlattenSeq, a recursive function inside a definition, computes.      *)

\* The concatenations of the first i of some sequences.
Concats(g, s, n) == g = [i \in 1..n |-> IF i = 1 THEN s[i] ELSE g[i - 1] \o s[i]]

Lists(g, n, T) == \A i \in 1..n : g[i] \in Seq(T)
Shifted(t, s, n) == \A i \in 1..n : t[i + 1] = s[i]
Joined(a, b, c) == a = b \o c
Steps(g, s, n) == \A i \in 1..n : g[i] = IF i = 1 THEN s[i] ELSE g[i - 1] \o s[i]

\* Every set of numbers has a least one.
LEMMA Least ==
    ASSUME NEW S \in SUBSET Nat, S # {}
    PROVE  \E n \in S : \A m \in S : n <= m
<1>1. IsWellFoundedOn(OpToRel(<, Nat), Nat)  BY NatLessThanWellFounded
<1>2. PICK n \in S : \A m \in S : ~(<<m, n>> \in OpToRel(<, Nat))
      BY <1>1, WFMin
<1>3. \A m \in S : ~(m < n)  BY <1>2 DEF OpToRel
<1> QED  BY <1>3

\* The concatenations exist, and so FlattenSeq's choice is one of them.
LEMMA ConcatsExist ==
    ASSUME NEW s, NEW n \in Nat
    PROVE  \E g : Concats(g, s, n)
<1> DEFINE bad == {m \in Nat : ~\E g : Concats(g, s, m)}
<1>1. SUFFICES ASSUME bad # {}  PROVE FALSE  OBVIOUS
<1>2. PICK m \in bad : \A k \in bad : m <= k  BY <1>1, Least
<1>3. m # 0
  <2>1. Concats([i \in 1..0 |-> s[i]], s, 0)  BY DEF Concats
  <2> QED  BY <2>1
<1>4. m - 1 \in Nat /\ m - 1 \notin bad  BY <1>2, <1>3
<1>5. PICK g : Concats(g, s, m - 1)  BY <1>4
<1> DEFINE h == [i \in 1..m |-> IF i # m THEN g[i]
                                ELSE IF m = 1 THEN s[m] ELSE g[m - 1] \o s[m]]
<1>6. \A i \in 1..(m - 1) : g[i] = IF i = 1 THEN s[i] ELSE g[i - 1] \o s[i]
      BY <1>5 DEF Concats
<1>7. ASSUME NEW i \in 1..m
      PROVE  h[i] = IF i = 1 THEN s[i] ELSE h[i - 1] \o s[i]
  <2>1. CASE i = 1  BY <2>1, <1>4, <1>6
  <2>2. CASE i # 1
    <3>1. i - 1 \in 1..m /\ i - 1 # m  BY <2>2, <1>4
    <3>2. h[i - 1] = g[i - 1]  BY <3>1
    <3>3. CASE i = m  BY <3>2, <3>3, <2>2
    <3>4. CASE i # m
      <4>1. i \in 1..(m - 1)  BY <3>4, <1>4
      <4>2. g[i] = g[i - 1] \o s[i]  BY <4>1, <1>6, <2>2
      <4> QED  BY <4>2, <3>2, <3>4, <2>2
    <3> QED  BY <3>3, <3>4
  <2> QED  BY <2>1, <2>2
<1>8. h = [i \in 1..m |-> IF i = 1 THEN s[i] ELSE h[i - 1] \o s[i]]
  <2> HIDE DEF h
  <2>1. h = [i \in 1..m |-> h[i]]  BY DEF h
  <2>2. [i \in 1..m |-> h[i]] = [i \in 1..m |-> IF i = 1 THEN s[i] ELSE h[i - 1] \o s[i]]
        BY <1>7
  <2> QED  BY <2>1, <2>2
<1>9. Concats(h, s, m)
  <2> HIDE DEF h
  <2> QED  BY <1>8 DEF Concats
<1> QED  BY <1>9, <1>2

LEMMA FlattenIsConcat ==
    ASSUME NEW s, Len(s) \in Nat, Len(s) # 0
    PROVE  \E g : Concats(g, s, Len(s)) /\ FlattenSeq(s) = g[Len(s)]
<1> DEFINE g == CHOOSE h : Concats(h, s, Len(s))
<1>1. Concats(g, s, Len(s))  BY ConcatsExist
<1>2. FlattenSeq(s) = g[Len(s)]  BY DEF FlattenSeq, Concats
<1> QED  BY <1>1, <1>2

\* Sequences of tokens flatten to a sequence of tokens.
LEMMA ConcatsTyped ==
    ASSUME NEW T, NEW s \in Seq(Seq(T)), NEW g, Concats(g, s, Len(s)), NEW n \in 1..Len(s)
    PROVE  g[n] \in Seq(T)
<1> DEFINE bad == {m \in 1..Len(s) : g[m] \notin Seq(T)}
<1>0. Len(s) \in Nat /\ bad \in SUBSET Nat  OBVIOUS
<1>1. SUFFICES ASSUME bad # {}  PROVE FALSE  OBVIOUS
<1>2. PICK m \in bad : \A k \in bad : m <= k  BY <1>0, <1>1, Least
<1>3. \A i \in 1..Len(s) : g[i] = IF i = 1 THEN s[i] ELSE g[i - 1] \o s[i]
      BY DEF Concats
<1>4. s[m] \in Seq(T)  OBVIOUS
<1>5. m # 1  BY <1>3, <1>4
<1>6. m - 1 \in 1..Len(s) /\ m - 1 \notin bad  BY <1>2, <1>5
<1>7. g[m - 1] \in Seq(T)  BY <1>6
<1>8. g[m] = g[m - 1] \o s[m]  BY <1>3, <1>5
<1> QED  BY <1>4, <1>7, <1>8, ConcatProperties

LEMMA FlattenTyped ==
    ASSUME NEW T, NEW s \in Seq(Seq(T))
    PROVE  FlattenSeq(s) \in Seq(T)
<1>1. CASE Len(s) = 0
  <2>1. s = << >>  BY <1>1
  <2>2. FlattenSeq(s) = s  BY <1>1 DEF FlattenSeq
  <2> QED  BY <2>1, <2>2, EmptySeq
<1>2. CASE Len(s) # 0
  <2>1. PICK g : Concats(g, s, Len(s)) /\ FlattenSeq(s) = g[Len(s)]
        BY <1>2, FlattenIsConcat
  <2>2. Len(s) \in 1..Len(s)  BY <1>2
  <2> QED  BY <2>1, <2>2, ConcatsTyped
<1> QED  BY <1>1, <1>2

LEMMA StepAt ==
    ASSUME NEW g, NEW s, NEW n, Steps(g, s, n), NEW i \in 1..n, i # 1
    PROVE  Joined(g[i], g[i - 1], s[i])
BY DEF Steps, Joined

\* One more sequence at the front is in front of every concatenation.
LEMMA ConcatsFirst ==
    ASSUME NEW T, NEW n \in Nat, NEW l \in Nat, l = n + 1,
           NEW g, NEW h, NEW s, NEW t,
           Lists(g, n, T), Lists(s, n, T), Shifted(t, s, n), t[1] \in Seq(T),
           Steps(g, s, n), Steps(h, t, l), NEW k \in 1..n
    PROVE  Joined(h[k + 1], t[1], g[k])
<1> DEFINE Fits(m) == Joined(h[m + 1], t[1], g[m])
           bad == {m \in Nat : m \in 1..n /\ ~Fits(m)}
<1> HIDE DEF Fits
<1>1. SUFFICES ASSUME bad # {}  PROVE FALSE
  <2>1. k \in Nat /\ k \in 1..n  OBVIOUS
  <2>2. bad = {} => Fits(k)  BY <2>1
  <2> QED  BY <2>2 DEF Fits, Joined
<1>2. PICK m \in bad : \A j \in bad : m <= j
  <2>1. bad \in SUBSET Nat  OBVIOUS
  <2> QED  BY <2>1, <1>1, Least
<1>3. m \in Nat /\ m \in 1..n /\ ~Fits(m)  BY <1>2
<1>4. m + 1 \in 1..l /\ m + 1 # 1 /\ m + 1 - 1 = m  BY <1>3
<1>5. h[m + 1] = h[m] \o s[m]
  <2> DEFINE i == m + 1
  <2>1. i \in 1..l /\ i # 1 /\ i - 1 = m /\ t[i] = s[m]
        BY <1>3, <1>4 DEF Shifted
  <2> HIDE DEF i
  <2>2. Joined(h[i], h[i - 1], t[i])  BY <2>1, StepAt
  <2>3. Joined(h[i], h[m], s[m])  BY <2>1, <2>2
  <2> QED  BY <2>3 DEF i, Joined
<1>6. CASE m = 1
  <2>1. 1 \in 1..l /\ 1 \in 1..n  BY <1>6, <1>3
  <2>2. g[1] = s[1]  BY <2>1 DEF Steps
  <2>3. h[1] = t[1]  BY <2>1 DEF Steps
  <2> QED  BY <2>2, <2>3, <1>3, <1>5, <1>6 DEF Fits, Joined
<1>7. CASE m # 1
  <2>1. m - 1 \in Nat /\ m - 1 \in 1..n /\ m - 1 + 1 = m /\ ~(m <= m - 1)
        BY <1>7, <1>3
  <2>2. Fits(m - 1)  BY <2>1, <1>2
  <2>3. h[m] = t[1] \o g[m - 1]  BY <2>1, <2>2 DEF Fits, Joined
  <2>4. g[m] = g[m - 1] \o s[m]  BY <1>7, <1>3 DEF Steps
  <2>5. g[m - 1] \in Seq(T) /\ s[m] \in Seq(T)  BY <2>1, <1>3 DEF Lists
  <2>6. \A u, v, w \in Seq(T) : (u \o v) \o w = u \o (v \o w)
        BY ConcatAssociative
  <2>7. (t[1] \o g[m - 1]) \o s[m] = t[1] \o (g[m - 1] \o s[m])
        BY <2>5, <2>6
  <2> QED  BY <2>3, <2>4, <2>7, <1>3, <1>5 DEF Fits, Joined
<1> QED  BY <1>6, <1>7

\* The first of the sequences comes first.
LEMMA FlattenFirst ==
    ASSUME NEW T, NEW s \in Seq(Seq(T)), NEW t \in Seq(Seq(T)), Len(t) = Len(s) + 1,
           \A i \in 1..Len(s) : t[i + 1] = s[i]
    PROVE  FlattenSeq(t) = t[1] \o FlattenSeq(s)
<1>1. Len(s) \in Nat /\ Len(t) \in Nat /\ Len(t) # 0 /\ t[1] \in Seq(T)  OBVIOUS
<1>2. PICK h : Concats(h, t, Len(t)) /\ FlattenSeq(t) = h[Len(t)]
      BY <1>1, FlattenIsConcat
<1>3. Steps(h, t, Len(t))  BY <1>2 DEF Concats, Steps
<1>4. CASE Len(s) = 0
  <2>1. s = << >>  BY <1>4
  <2>2. FlattenSeq(s) = << >>  BY <1>4, <2>1 DEF FlattenSeq
  <2>3. h[Len(t)] = t[1]  BY <1>3, <1>4 DEF Steps
  <2> QED  BY <2>2, <2>3, <1>1, <1>2, ConcatEmptySeq
<1>5. CASE Len(s) # 0
  <2>1. PICK g : Concats(g, s, Len(s)) /\ FlattenSeq(s) = g[Len(s)]
        BY <1>1, <1>5, FlattenIsConcat
  <2>2. Steps(g, s, Len(s))  BY <2>1 DEF Concats, Steps
  <2>3. \A i \in 1..Len(s) : g[i] \in Seq(T) /\ s[i] \in Seq(T) /\ t[i + 1] = s[i]
        BY <2>1, ConcatsTyped
  <2>4. Len(s) \in 1..Len(s)  BY <1>1, <1>5
  <2>5. \A k \in 1..Len(s) : Joined(h[k + 1], t[1], g[k])
    <3> DEFINE n == Len(s)
               l == Len(t)
    <3>1. /\ n \in Nat /\ l \in Nat /\ l = n + 1 /\ Steps(g, s, n) /\ Steps(h, t, l)
          /\ Lists(g, n, T) /\ Lists(s, n, T) /\ Shifted(t, s, n)
          BY <1>1, <1>3, <2>2, <2>3 DEF Lists, Shifted
    <3> HIDE DEF n, l
    <3>2. \A k \in 1..n : Joined(h[k + 1], t[1], g[k])  BY <1>1, <3>1, ConcatsFirst
    <3> QED  BY <3>2 DEF n
  <2> QED  BY <2>1, <2>4, <2>5, <1>2 DEF Joined
<1> QED  BY <1>4, <1>5

-----------------------------------------------------------------------------
(* What a stack of calls has still to read.                                  *)

Left(g) == SubSeq(g.src, g.pos, Len(g.src))

\* Rest, of any stack.
RestOf(fs, k) ==
    LET g == fs[k]
        above == IF k = Len(fs) THEN "none" ELSE fs[k + 1].kind
    IN CASE above = "none"  -> SubSeq(g.src, g.pos, Len(g.src))
         [] above = "group" -> << >>
         [] above = "file"  -> SubSeq(g.src, g.pos + 1, Len(g.src))

\* The rests of the innermost call's callers, the nearest first.
Under(fs) == [k \in 1..(Len(fs) - 1) |-> RestOf(fs, Len(fs) - k)]
Below(fs) == FlattenSeq(Under(fs))
Unread(fs) == FlattenSeq([k \in 1..Len(fs) |-> RestOf(fs, Len(fs) + 1 - k)])

Stack(fs) ==
    /\ fs \in Seq(Frame) /\ Len(fs) \in Nat \ {0}
    /\ \A k \in 2..Len(fs) : fs[k].kind \in {"file", "group"}
    /\ fs[Len(fs)].pos <= Len(fs[Len(fs)].src) + 1

LEMMA FrameParts ==
    ASSUME NEW fs, Stack(fs), NEW k \in 1..Len(fs)
    PROVE  /\ fs[k] \in FrameFields
           /\ fs[k].src \in Seq(Token) /\ fs[k].pos \in Nat \ {0}
           /\ Len(fs[k].src) \in Nat
<1>1. fs[k] \in FrameFields  BY DEF Stack, Frame
<1>2. fs[k].src \in Seq(Token) /\ fs[k].pos \in Nat \ {0}  BY <1>1 DEF FrameFields
<1> QED  BY <1>1, <1>2

\* The end of a list.
LEMMA TailTyped ==
    ASSUME NEW T, NEW s \in Seq(T), NEW m \in Nat \ {0}
    PROVE  /\ SubSeq(s, m, Len(s)) \in Seq(T)
           /\ m <= Len(s) + 1 => Len(SubSeq(s, m, Len(s))) = Len(s) - m + 1
<1>1. \A i \in m..Len(s) : s[i] \in T  OBVIOUS
<1>2. Len(s) \in Int /\ m \in Int  OBVIOUS
<1> QED  BY <1>1, <1>2, SubSeqProperties

LEMMA RestTyped ==
    ASSUME NEW fs, Stack(fs), NEW k \in 1..Len(fs)
    PROVE  RestOf(fs, k) \in Seq(Token)
<1>1. fs[k].src \in Seq(Token) /\ fs[k].pos \in Nat \ {0} /\ fs[k].pos + 1 \in Nat \ {0}
      BY FrameParts
<1>2. k # Len(fs) => fs[k + 1].kind \in {"file", "group"}  BY DEF Stack
<1>3. /\ SubSeq(fs[k].src, fs[k].pos, Len(fs[k].src)) \in Seq(Token)
      /\ SubSeq(fs[k].src, fs[k].pos + 1, Len(fs[k].src)) \in Seq(Token)
      /\ << >> \in Seq(Token)
      BY <1>1, TailTyped
<1> QED  BY <1>2, <1>3 DEF RestOf

\* A list made of n lists.
LEMMA ListOfLists ==
    ASSUME NEW T, NEW n \in Nat, NEW s, s = [k \in 1..n |-> s[k]],
           \A k \in 1..n : s[k] \in Seq(T)
    PROVE  s \in Seq(Seq(T)) /\ Len(s) = n
OBVIOUS

\* What is left of the innermost call's list, then what its callers have left.
LEMMA UnreadSplits ==
    ASSUME NEW fs, Stack(fs)
    PROVE  /\ Unread(fs) = Left(fs[Len(fs)]) \o Below(fs)
           /\ Left(fs[Len(fs)]) \in Seq(Token)
           /\ Below(fs) \in Seq(Token)
<1> DEFINE n == Len(fs)
           s == Under(fs)
           t == [k \in 1..n |-> RestOf(fs, n + 1 - k)]
<1>1. n \in Nat /\ n # 0 /\ n - 1 \in Nat  BY DEF Stack
<1>2. \A j \in 1..n : RestOf(fs, j) \in Seq(Token)  BY RestTyped
<1>3. Left(fs[n]) = RestOf(fs, n)  BY DEF Left, RestOf
<1>4. Unread(fs) = FlattenSeq(t)  BY DEF Unread
<1> HIDE DEF n
<1>5. s \in Seq(Seq(Token)) /\ Len(s) = n - 1 /\ \A k \in 1..(n - 1) : s[k] = RestOf(fs, n - k)
  <2>1. s = [k \in 1..(n - 1) |-> RestOf(fs, n - k)]  BY DEF n, Under
  <2>2. \A k \in 1..(n - 1) : s[k] = RestOf(fs, n - k) /\ n - k \in 1..n  BY <2>1, <1>1
  <2>3. s = [k \in 1..(n - 1) |-> s[k]]  BY <2>1
  <2> HIDE DEF s
  <2>4. \A k \in 1..(n - 1) : s[k] \in Seq(Token)
    <3> TAKE k \in 1..(n - 1)
    <3>1. s[k] = RestOf(fs, n - k) /\ n - k \in 1..n  BY <2>2
    <3> QED  BY <3>1, <1>2
  <2>5. s \in Seq(Seq(Token)) /\ Len(s) = n - 1  BY <1>1, <2>3, <2>4, ListOfLists
  <2> QED  BY <2>2, <2>5
<1>6. t \in Seq(Seq(Token)) /\ Len(t) = n /\ \A k \in 1..n : t[k] = RestOf(fs, n + 1 - k)
  <2>1. \A k \in 1..n : t[k] = RestOf(fs, n + 1 - k) /\ n + 1 - k \in 1..n  BY <1>1
  <2>2. t = [k \in 1..n |-> t[k]]  OBVIOUS
  <2> HIDE DEF t
  <2>3. \A k \in 1..n : t[k] \in Seq(Token)
    <3> TAKE k \in 1..n
    <3>1. t[k] = RestOf(fs, n + 1 - k) /\ n + 1 - k \in 1..n  BY <2>1
    <3> QED  BY <3>1, <1>2
  <2>4. t \in Seq(Seq(Token)) /\ Len(t) = n  BY <1>1, <2>2, <2>3, ListOfLists
  <2> QED  BY <2>1, <2>4
<1> HIDE DEF s, t
<1>7. t[1] = RestOf(fs, n)
  <2>1. 1 \in 1..n /\ n + 1 - 1 = n  BY <1>1
  <2> QED  BY <2>1, <1>6
<1>8. \A i \in 1..(n - 1) : t[i + 1] = s[i]
  <2> TAKE i \in 1..(n - 1)
  <2>1. i + 1 \in 1..n /\ n + 1 - (i + 1) = n - i  BY <1>1
  <2> QED  BY <2>1, <1>5, <1>6
<1>9. FlattenSeq(t) = t[1] \o FlattenSeq(s)
  <2>1. Len(t) = Len(s) + 1 /\ \A i \in 1..Len(s) : t[i + 1] = s[i]
        BY <1>1, <1>5, <1>6, <1>8
  <2> QED  BY <2>1, <1>5, <1>6, FlattenFirst
<1>10. FlattenSeq(s) \in Seq(Token)  BY <1>5, FlattenTyped
<1>11. Left(fs[n]) \in Seq(Token)
  <2>1. n \in 1..n  BY <1>1
  <2> QED  BY <2>1, <1>2, <1>3
<1> QED  BY <1>3, <1>4, <1>7, <1>9, <1>10, <1>11 DEF n, s, Below

\* Two stacks whose calls but the innermost are the same.
SameCallers(fs, gs) ==
    /\ \A k \in 1..(Len(fs) - 1) : gs[k] = fs[k]
    /\ gs[Len(fs)].kind = fs[Len(fs)].kind

\* The callers' rests do not depend on how far the innermost call is.
LEMMA RestsAgree ==
    ASSUME NEW fs, Stack(fs), NEW gs, Stack(gs), Len(fs) <= Len(gs), SameCallers(fs, gs),
           NEW k \in 1..(Len(fs) - 1)
    PROVE  RestOf(gs, k) = RestOf(fs, k)
<1>1. Len(fs) \in Nat /\ Len(gs) \in Nat  BY DEF Stack
<1>2. gs[k] = fs[k]  BY DEF SameCallers
<1>3. k # Len(fs) /\ k # Len(gs) /\ k \in Nat  BY <1>1
<1>4. gs[k + 1].kind = fs[k + 1].kind
  <2>1. CASE k + 1 = Len(fs)  BY <2>1 DEF SameCallers
  <2>2. CASE k + 1 # Len(fs)
    <3>1. k + 1 \in 1..(Len(fs) - 1)  BY <2>2, <1>1
    <3> QED  BY <3>1 DEF SameCallers
  <2> QED  BY <2>1, <2>2
<1> QED  BY <1>2, <1>3, <1>4 DEF RestOf

LEMMA BelowSame ==
    ASSUME NEW fs, Stack(fs), NEW gs, Stack(gs), Len(gs) = Len(fs), SameCallers(fs, gs)
    PROVE  Below(gs) = Below(fs)
<1>1. Len(fs) \in Nat  BY DEF Stack
<1>2. ASSUME NEW k \in 1..(Len(fs) - 1)
      PROVE  RestOf(gs, Len(fs) - k) = RestOf(fs, Len(fs) - k)
  <2>1. Len(fs) - k \in 1..(Len(fs) - 1)  BY <1>1
  <2>2. Len(fs) <= Len(gs)  BY <1>1
  <2> QED  BY <2>1, <2>2, RestsAgree
<1>3. Under(gs) = Under(fs)  BY <1>2 DEF Under
<1> QED  BY <1>3 DEF Below

\* A call on top leaves its caller the rest of the caller's list.
LEMMA BelowGrows ==
    ASSUME NEW fs, Stack(fs), NEW gs, Stack(gs), Len(gs) = Len(fs) + 1, SameCallers(fs, gs)
    PROVE  /\ Below(gs) = RestOf(gs, Len(fs)) \o Below(fs)
           /\ RestOf(gs, Len(fs)) \in Seq(Token)
<1> DEFINE n == Len(fs)
           s == Under(fs)
           t == Under(gs)
<1>1. n \in Nat /\ n # 0 /\ n - 1 \in Nat /\ Len(gs) = n + 1  BY DEF Stack
<1>2. \A j \in 1..n : RestOf(fs, j) \in Seq(Token)  BY RestTyped
<1>3. \A j \in 1..n : RestOf(gs, j) \in Seq(Token)
  <2>1. \A j \in 1..n : j \in 1..Len(gs)  BY <1>1
  <2> QED  BY <2>1, RestTyped
<1>4. \A j \in 1..(n - 1) : RestOf(gs, j) = RestOf(fs, j)
  <2>1. Len(fs) <= Len(gs)  BY <1>1
  <2> QED  BY <2>1, RestsAgree
<1>5. s = [k \in 1..(n - 1) |-> RestOf(fs, n - k)]  BY DEF Under
<1>6. t = [k \in 1..n |-> t[k]] /\ \A k \in 1..n : t[k] = RestOf(gs, n + 1 - k)
  <2> DEFINE m == Len(gs)
  <2>1. n \in Nat /\ m \in Nat /\ m - 1 = n /\ m = n + 1  BY <1>1
  <2>2. t = [k \in 1..(m - 1) |-> RestOf(gs, m - k)]  BY DEF Under
  <2> HIDE DEF t, m, n
  <2>3. t = [k \in 1..(m - 1) |-> t[k]] /\ \A k \in 1..(m - 1) : t[k] = RestOf(gs, m - k)
        BY <2>2
  <2>4. t = [k \in 1..n |-> t[k]]  BY <2>1, <2>3
  <2>5. ASSUME NEW k \in 1..n  PROVE t[k] = RestOf(gs, n + 1 - k)
    <3>1. t[k] = RestOf(gs, m - k)  BY <2>1, <2>3
    <3>2. m - k = n + 1 - k  BY <2>1
    <3> QED  BY <3>1, <3>2
  <2> QED  BY <2>4, <2>5
<1> HIDE DEF n, s, t
<1>7. s \in Seq(Seq(Token)) /\ Len(s) = n - 1 /\ \A k \in 1..(n - 1) : s[k] = RestOf(fs, n - k)
  <2>1. \A k \in 1..(n - 1) : s[k] = RestOf(fs, n - k) /\ n - k \in 1..n  BY <1>1, <1>5
  <2>2. s = [k \in 1..(n - 1) |-> s[k]]  BY <1>5
  <2>3. \A k \in 1..(n - 1) : s[k] \in Seq(Token)  BY <1>2, <2>1
  <2>4. s \in Seq(Seq(Token)) /\ Len(s) = n - 1  BY <1>1, <2>2, <2>3, ListOfLists
  <2> QED  BY <2>1, <2>4
<1>8. t \in Seq(Seq(Token)) /\ Len(t) = n /\ \A k \in 1..n : t[k] = RestOf(gs, n + 1 - k)
  <2>1. \A k \in 1..n : t[k] = RestOf(gs, n + 1 - k) /\ n + 1 - k \in 1..n  BY <1>1, <1>6
  <2>2. t = [k \in 1..n |-> t[k]]  BY <1>6
  <2>3. \A k \in 1..n : t[k] \in Seq(Token)  BY <1>3, <2>1
  <2>4. t \in Seq(Seq(Token)) /\ Len(t) = n  BY <1>1, <2>2, <2>3, ListOfLists
  <2> QED  BY <2>1, <2>4
<1>9. t[1] = RestOf(gs, n) /\ n \in 1..n
  <2>1. 1 \in 1..n /\ n + 1 - 1 = n  BY <1>1
  <2> QED  BY <2>1, <1>1, <1>8
<1>10. ASSUME NEW i \in 1..(n - 1)  PROVE t[i + 1] = s[i]
  <2>1. i + 1 \in 1..n /\ n + 1 - (i + 1) = n - i /\ n - i \in 1..(n - 1)  BY <1>1
  <2> QED  BY <2>1, <1>4, <1>7, <1>8
<1>11. FlattenSeq(t) = t[1] \o FlattenSeq(s)
  <2>1. Len(t) = Len(s) + 1 /\ \A i \in 1..Len(s) : t[i + 1] = s[i]
        BY <1>1, <1>7, <1>8, <1>10
  <2> QED  BY <2>1, <1>7, <1>8, FlattenFirst
<1> QED  BY <1>3, <1>9, <1>11 DEF n, s, t, Below

-----------------------------------------------------------------------------
(* The three ways the stack changes, and what they do to the stream.         *)

\* Taking from the front of a list that another follows.
LEMMA FrontOfBoth ==
    ASSUME NEW T, NEW s \in Seq(T), NEW t \in Seq(T), NEW n \in 0..Len(s)
    PROVE  /\ SubSeq(s \o t, 1, n) = SubSeq(s, 1, n)
           /\ SubSeq(s \o t, n + 1, Len(s \o t)) = SubSeq(s, n + 1, Len(s)) \o t
           /\ Len(s \o t) \in Nat /\ n <= Len(s \o t)
<1> DEFINE u == s \o t
           x == SubSeq(u, n + 1, Len(u))
           y == SubSeq(s, n + 1, Len(s))
           z == y \o t
<1>1. Len(s) \in Nat /\ Len(t) \in Nat /\ n \in Nat /\ n <= Len(s)  OBVIOUS
<1>2. /\ u \in Seq(T) /\ Len(u) = Len(s) + Len(t)
      /\ \A i \in 1..Len(u) : u[i] = IF i <= Len(s) THEN s[i] ELSE t[i - Len(s)]
  <2>1. /\ s \o t \in Seq(T) /\ Len(s \o t) = Len(s) + Len(t)
        /\ \A i \in 1..(Len(s) + Len(t)) :
              (s \o t)[i] = IF i <= Len(s) THEN s[i] ELSE t[i - Len(s)]
        BY ConcatProperties
  <2> QED  BY <2>1
<1>3. y \in Seq(T) /\ Len(y) = Len(s) - n /\ \A i \in 1..Len(y) : y[i] = s[n + i]
      BY <1>1
<1> HIDE DEF u, y
<1>4. x \in Seq(T) /\ Len(x) = Len(u) - n /\ \A i \in 1..Len(x) : x[i] = u[n + i]
  <2>1. Len(u) \in Nat /\ n <= Len(u)  BY <1>1, <1>2
  <2> QED  BY <1>1, <1>2, <2>1
<1>5. /\ z \in Seq(T) /\ Len(z) = Len(y) + Len(t)
      /\ \A i \in 1..Len(z) : z[i] = IF i <= Len(y) THEN y[i] ELSE t[i - Len(y)]
  <2>1. /\ y \o t \in Seq(T) /\ Len(y \o t) = Len(y) + Len(t)
        /\ \A i \in 1..(Len(y) + Len(t)) :
              (y \o t)[i] = IF i <= Len(y) THEN y[i] ELSE t[i - Len(y)]
        BY <1>3, ConcatProperties
  <2> QED  BY <2>1
<1> HIDE DEF x, z
<1>6. Len(x) = Len(z) /\ Len(x) \in Nat  BY <1>1, <1>2, <1>3, <1>4, <1>5
<1>7. ASSUME NEW i \in 1..Len(x)  PROVE x[i] = z[i]
  <2>1. i \in Nat /\ n + i \in 1..Len(u) /\ x[i] = u[n + i]  BY <1>1, <1>2, <1>4
  <2>2. CASE i <= Len(y)
    <3>1. z[i] = y[i] /\ y[i] = s[n + i]
      <4>1. i \in 1..Len(z)  BY <1>6
      <4>2. Len(y) \in Nat  BY <1>3
      <4>3. i \in 1..Len(y)  BY <2>1, <2>2, <4>1, <4>2
      <4>4. z[i] = y[i]  BY <2>2, <4>1, <1>5
      <4>5. y[i] = s[n + i]  BY <4>3, <1>3
      <4> QED  BY <4>4, <4>5
    <3>2. n + i <= Len(s)  BY <2>1, <2>2, <1>1, <1>3
    <3>3. u[n + i] = s[n + i]  BY <2>1, <3>2, <1>2
    <3> QED  BY <2>1, <3>1, <3>3
  <2>3. CASE ~(i <= Len(y))
    <3>1. z[i] = t[i - Len(y)]
      <4>1. i \in 1..Len(z)  BY <1>6
      <4> QED  BY <2>3, <4>1, <1>5
    <3>2. ~(n + i <= Len(s)) /\ n + i - Len(s) = i - Len(y)  BY <2>1, <2>3, <1>1, <1>3
    <3>3. u[n + i] = t[n + i - Len(s)]  BY <2>1, <3>2, <1>2
    <3> QED  BY <2>1, <3>1, <3>2, <3>3
  <2> QED  BY <2>2, <2>3
<1>8. x = z  BY <1>4, <1>5, <1>6, <1>7, SeqEqual
<1>9. SubSeq(u, 1, n) = SubSeq(s, 1, n)
  <2>1. CASE n = 0  BY <2>1, SubSeqEmpty
  <2>2. CASE n # 0
    <3>1. 1 \in 1..Len(s) /\ n \in 1..Len(s)  BY <2>2, <1>1
    <3> QED  BY <3>1, SubSeqOfConcat1 DEF u
  <2> QED  BY <2>1, <2>2
<1>10. Len(u) \in Nat /\ n <= Len(u)  BY <1>1, <1>2
<1> QED  BY <1>8, <1>9, <1>10 DEF u, x, y, z

\* Going on in the end of a list.
LEMMA EndOfEnd ==
    ASSUME NEW T, NEW src \in Seq(T), NEW m \in Nat \ {0}, NEW p \in Nat,
           m <= p, p <= Len(src) + 1
    PROVE  LET s == SubSeq(src, m, Len(src)) IN
           /\ s \in Seq(T) /\ p - m \in 0..Len(s)
           /\ SubSeq(s, 1, p - m) = SubSeq(src, m, p - 1)
           /\ SubSeq(s, p - m + 1, Len(s)) = SubSeq(src, p, Len(src))
OBVIOUS

\* The innermost call's frame a is at b later on, and the stream's first n
\* tokens are those between.
Ahead(a, b) == b.src = a.src /\ a.pos <= b.pos
Took(a, b, u, v) ==
    LET n == b.pos - a.pos IN
    /\ n \in 0..Len(u)
    /\ SubSeq(u, 1, n) = SubSeq(a.src, a.pos, b.pos - 1)
    /\ v = SubSeq(u, n + 1, Len(u))

LEMMA StepsOver ==
    ASSUME NEW fs, Stack(fs), NEW gs, Stack(gs), Len(gs) = Len(fs), SameCallers(fs, gs),
           Ahead(fs[Len(fs)], gs[Len(fs)])
    PROVE  Took(fs[Len(fs)], gs[Len(fs)], Unread(fs), Unread(gs))
<1> DEFINE f0 == fs[Len(fs)]
           g0 == gs[Len(fs)]
           s == Left(f0)
           t == Below(fs)
           n == g0.pos - f0.pos
<1>1. Len(fs) \in 1..Len(fs)  BY DEF Stack
<1>2. /\ f0.src \in Seq(Token) /\ f0.pos \in Nat \ {0} /\ g0.pos \in Nat
      /\ g0.pos <= Len(f0.src) + 1
      BY <1>1, FrameParts DEF Stack, Ahead
<1>3. Unread(fs) = s \o t /\ s \in Seq(Token) /\ t \in Seq(Token)  BY UnreadSplits
<1>4. Unread(gs) = Left(g0) \o t  BY UnreadSplits, BelowSame
<1>5. /\ n \in 0..Len(s)
      /\ SubSeq(s, 1, n) = SubSeq(f0.src, f0.pos, g0.pos - 1)
      /\ SubSeq(s, n + 1, Len(s)) = Left(g0)
  <2> DEFINE src == f0.src
             m == f0.pos
             p == g0.pos
  <2>1. /\ src \in Seq(Token) /\ m \in Nat \ {0} /\ p \in Nat
        /\ m <= p /\ p <= Len(src) + 1
        BY <1>2 DEF Ahead
  <2>2. s = SubSeq(src, m, Len(src)) /\ Left(g0) = SubSeq(src, p, Len(src)) /\ n = p - m
        BY DEF Left, Ahead
  <2> HIDE DEF src, m, p
  <2>3. LET r == SubSeq(src, m, Len(src)) IN
        /\ p - m \in 0..Len(r)
        /\ SubSeq(r, 1, p - m) = SubSeq(src, m, p - 1)
        /\ SubSeq(r, p - m + 1, Len(r)) = SubSeq(src, p, Len(src))
        BY <2>1, EndOfEnd
  <2> HIDE DEF s, n
  <2> QED  BY <2>2, <2>3 DEF src, m, p
<1> HIDE DEF f0, g0, s, t, n
<1>6. /\ SubSeq(s \o t, 1, n) = SubSeq(s, 1, n)
      /\ SubSeq(s \o t, n + 1, Len(s \o t)) = SubSeq(s, n + 1, Len(s)) \o t
      /\ Len(s \o t) \in Nat /\ n <= Len(s \o t)
      BY <1>3, <1>5, FrontOfBoth
<1>7. n \in 0..Len(s \o t)  BY <1>3, <1>5, <1>6
<1>8. Took(f0, g0, Unread(fs), Unread(gs))  BY <1>3, <1>4, <1>5, <1>6, <1>7 DEF n, Took
<1> QED  BY <1>8 DEF f0, g0

-----------------------------------------------------------------------------
(* The steps of the stream.                                                  *)

LEMMA StackNow == ParserOK => Stack(frames)
<1> SUFFICES ASSUME ParserOK  PROVE Stack(frames)  OBVIOUS
<1>1. frames \in Seq(Frame) /\ Len(frames) \in Nat \ {0}  BY DEF ParserOK, TypeOK
<1>2. ASSUME NEW k \in 2..Len(frames)  PROVE frames[k].kind \in {"file", "group"}
  <2>1. k - 1 \in 1..(Len(frames) - 1) /\ k - 1 + 1 = k  BY <1>1
  <2>2. CallOK(frames[k - 1], frames[k - 1 + 1])  BY <2>1 DEF ParserOK, StackOK
  <2> QED  BY <2>1, <2>2 DEF CallOK
<1>3. f.pos <= Len(f.src) + 1  BY TopOK DEF ParserOK, FrameOK
<1> QED  BY <1>1, <1>2, <1>3 DEF Stack, f

LEMMA StackNext == ParserOK' => Stack(frames')
<1>1. ParserOK' => Stack(frames)'  BY StackNow, PTL
<1>2. Stack(frames)' => Stack(frames')  BY DEF Stack
<1> QED  BY <1>1, <1>2

LEMMA PendingUnread == Pending = Unread(frames) /\ Pending' = Unread(frames')
BY DEF Pending, Unread, Rest, RestOf

\* Where the calls of a parse are, its verdict is open.
Going(s) == s \in {"run", "return"}
Refusable(s) == s \in Statuses \ {"ok"}

LEMMA Verdicts ==
    ASSUME Going(status), Refusable(status')
    PROVE  Verdict = "open" /\ Verdict' \in {"open", "rejected"}
BY DEF Going, Refusable, Statuses, Verdict

\* An option takes tokens from the front, perhaps none.
LEMMA Delivers ==
    ASSUME ParserOK, ParserOK', Going(status), Refusable(status'), UNCHANGED call,
           NEW g, SetTop(g), g.src = f.src, g.kind = f.kind, f.pos <= g.pos,
           delivered' = delivered \o SubSeq(f.src, f.pos, g.pos - 1)
    PROVE  [Stream!Next]_Stream!vars
<1> DEFINE n == g.pos - f.pos
<1>1. Stack(frames) /\ Stack(frames')  BY StackNow, StackNext
<1>2. frames \in Seq(Frame) /\ Len(frames) \in Nat /\ Len(frames) \in 1..Len(frames)
      BY TopFrame DEF ParserOK, TypeOK
<1>3. /\ Len(frames') = Len(frames) /\ frames'[Len(frames)] = g
      /\ \A k \in 1..(Len(frames) - 1) : frames'[k] = frames[k]
      BY <1>2 DEF SetTop
<1>4. SameCallers(frames, frames')  BY <1>3 DEF SameCallers, f
<1>5. /\ n \in 0..Len(Pending)
      /\ SubSeq(Pending, 1, n) = SubSeq(f.src, f.pos, g.pos - 1)
      /\ Pending' = SubSeq(Pending, n + 1, Len(Pending))
  <2> DEFINE fs == frames
             gs == frames'
  <2>1. /\ Stack(fs) /\ Stack(gs) /\ Len(gs) = Len(fs) /\ SameCallers(fs, gs)
        /\ f = fs[Len(fs)] /\ g = gs[Len(fs)]
        BY <1>1, <1>3, <1>4 DEF f
  <2>2. Pending = Unread(fs) /\ Pending' = Unread(gs)  BY PendingUnread
  <2> HIDE DEF fs, gs, n
  <2>3. Ahead(fs[Len(fs)], gs[Len(fs)])  BY <2>1 DEF Ahead
  <2>4. Took(fs[Len(fs)], gs[Len(fs)], Unread(fs), Unread(gs))  BY <2>1, <2>3, StepsOver
  <2> QED  BY <2>1, <2>2, <2>4 DEF n, Took
<1>6. Pending \in Seq(Token)
  <2>1. Left(frames[Len(frames)]) \o Below(frames) \in Seq(Token)
        BY <1>1, UnreadSplits, ConcatProperties
  <2> QED  BY <2>1, <1>1, UnreadSplits, PendingUnread
<1> HIDE DEF n
<1>7. CASE n = 0
  <2>1. Pending' = Pending  BY <1>5, <1>6, <1>7, SubSeqFull
  <2>2. delivered' = delivered
    <3>1. SubSeq(Pending, 1, 0) = << >>  BY SubSeqEmpty
    <3>2. delivered \in Seq(Token)  BY DEF ParserOK, TypeOK
    <3> QED  BY <3>1, <3>2, <1>5, <1>7, ConcatEmptySeq
  <2>3. CASE Verdict' = "open"  BY <2>1, <2>2, <2>3, Verdicts DEF Stream!vars
  <2>4. CASE Verdict' = "rejected"
        BY <2>1, <2>2, <2>4, Verdicts DEF Stream!Next, Stream!Reject, Stream!Open
  <2> QED  BY <2>3, <2>4, Verdicts
<1>8. CASE n # 0
  <2>1. n \in 1..Len(Pending)
    <3>1. Len(Pending) \in Nat  BY <1>6
    <3> QED  BY <3>1, <1>5, <1>8
  <2>2. Stream!Deliver  BY <2>1, <1>5, Verdicts DEF Stream!Deliver, Stream!Open
  <2> QED  BY <2>2 DEF Stream!Next
<1> QED  BY <1>7, <1>8

\* The parse is refused, or goes on where it was.
LEMMA Refuses ==
    ASSUME Going(status), Refusable(status'), UNCHANGED <<call, frames, delivered>>
    PROVE  [Stream!Next]_Stream!vars
<1>1. Pending' = Pending  BY PendingUnread
<1>2. CASE Verdict' = "open"  BY <1>1, <1>2, Verdicts DEF Stream!vars
<1>3. CASE Verdict' = "rejected"
      BY <1>1, <1>3, Verdicts DEF Stream!Next, Stream!Reject, Stream!Open
<1> QED  BY <1>2, <1>3, Verdicts

-----------------------------------------------------------------------------
(* Calls of the loop.                                                        *)

\* The stack after a call, from what its caller has left.
LEMMA CallSplits ==
    ASSUME NEW fs, Stack(fs), NEW gs, Stack(gs), Len(gs) = Len(fs) + 1, SameCallers(fs, gs)
    PROVE  /\ Unread(gs) = Left(gs[Len(gs)]) \o (RestOf(gs, Len(fs)) \o Below(fs))
           /\ Unread(fs) = Left(fs[Len(fs)]) \o Below(fs)
           /\ Left(gs[Len(gs)]) \in Seq(Token) /\ Left(fs[Len(fs)]) \in Seq(Token)
           /\ RestOf(gs, Len(fs)) \in Seq(Token) /\ Below(fs) \in Seq(Token)
BY UnreadSplits, BelowGrows

LEMMA PushSplits ==
    ASSUME ParserOK, ParserOK', NEW h, frames' = Append(frames, h)
    PROVE  /\ Pending' = Left(h) \o (RestOf(frames', Len(frames)) \o Below(frames))
           /\ Pending = Left(f) \o Below(frames)
           /\ Left(h) \in Seq(Token) /\ Left(f) \in Seq(Token)
           /\ RestOf(frames', Len(frames)) \in Seq(Token) /\ Below(frames) \in Seq(Token)
           /\ frames'[Len(frames)] = f /\ frames'[Len(frames) + 1] = h
           /\ Len(frames') = Len(frames) + 1 /\ Len(frames) \in Nat \ {0}
<1> DEFINE gs == frames'
<1>1. frames \in Seq(Frame) /\ Len(frames) \in Nat \ {0}  BY DEF ParserOK, TypeOK
<1>2. /\ Len(gs) = Len(frames) + 1 /\ gs[Len(frames) + 1] = h
      /\ \A k \in 1..Len(frames) : gs[k] = frames[k]
      BY <1>1
<1>3. Len(frames) \in 1..Len(frames)
      /\ \A k \in 1..(Len(frames) - 1) : k \in 1..Len(frames)  BY <1>1
<1>4. gs[Len(frames)] = f  BY <1>2, <1>3 DEF f
<1>5. SameCallers(frames, gs)  BY <1>2, <1>3 DEF SameCallers
<1>6. Stack(frames) /\ Stack(gs)  BY StackNow, StackNext
<1>7. Pending = Unread(frames) /\ Pending' = Unread(gs)  BY PendingUnread
<1> HIDE DEF gs
<1>8. /\ Unread(gs) = Left(gs[Len(gs)]) \o (RestOf(gs, Len(frames)) \o Below(frames))
      /\ Unread(frames) = Left(frames[Len(frames)]) \o Below(frames)
      /\ Left(gs[Len(gs)]) \in Seq(Token) /\ Left(frames[Len(frames)]) \in Seq(Token)
      /\ RestOf(gs, Len(frames)) \in Seq(Token) /\ Below(frames) \in Seq(Token)
      BY <1>2, <1>5, <1>6, CallSplits
<1>9. gs[Len(gs)] = h /\ frames[Len(frames)] = f  BY <1>2 DEF f
<1> QED  BY <1>1, <1>2, <1>4, <1>7, <1>8, <1>9 DEF gs

\* A group's call goes on where its caller is.
LEMMA EntersGroup ==
    ASSUME ParserOK, ParserOK', NEW h, frames' = Append(frames, h),
           h.kind = "group", h.src = f.src, h.pos = f.pos
    PROVE  Pending' = Pending
<1>1. Left(h) = Left(f)  BY DEF Left
<1>2. RestOf(frames', Len(frames)) = << >>
  <2>1. Len(frames) # Len(frames')  BY PushSplits
  <2>2. frames'[Len(frames) + 1].kind = "group"  BY PushSplits
  <2> QED  BY <2>1, <2>2 DEF RestOf
<1>3. RestOf(frames', Len(frames)) \o Below(frames) = Below(frames)
      BY <1>2, PushSplits, ConcatEmptySeq
<1>4. /\ Pending' = Left(h) \o (RestOf(frames', Len(frames)) \o Below(frames))
      /\ Pending = Left(f) \o Below(frames)
      BY PushSplits
<1> QED  BY <1>1, <1>3, <1>4

\* The head and the tail of a list that another follows.
LEMMA HeadOfBoth ==
    ASSUME NEW T, NEW s \in Seq(T), NEW t \in Seq(T), s # << >>
    PROVE  Head(s \o t) = Head(s) /\ Tail(s \o t) = Tail(s) \o t /\ s \o t # << >>
<1>1. Len(s) \in Nat \ {0} /\ 1 \in 0..Len(s)  OBVIOUS
<1>2. s \o t \in Seq(T) /\ Len(s \o t) = Len(s) + Len(t) /\ Len(t) \in Nat
      BY ConcatProperties
<1>3. s \o t # << >>  BY <1>1, <1>2
<1>4. SubSeq(s \o t, 2, Len(s \o t)) = SubSeq(s, 2, Len(s)) \o t
      BY <1>1, FrontOfBoth
<1>5. Tail(s \o t) = Tail(s) \o t  BY <1>2, <1>3, <1>4, TailIsSubSeq
<1>6. Head(s \o t) = Head(s)  BY <1>1, <1>2
<1> QED  BY <1>3, <1>5, <1>6

\* A file's call reads the file in place of the argument that names it.
LEMMA OpensFile ==
    ASSUME ParserOK, ParserOK', Open(arg), ~AtEnd, status = "run", status' = "run",
           UNCHANGED <<call, delivered>>
    PROVE  Stream!Next
<1> DEFINE h == NewFrame("file", TRUE, TokensOf(FileOf(arg)), 1, f.tuple, 0)
           r == SubSeq(f.src, f.pos + 1, Len(f.src))
           t == Below(frames)
<1>1. frames' = Append(frames, h) /\ h.kind = "file" /\ h.pos = 1
      /\ h.src = FileContents(arg)
      BY DEF Open, NewFrame, FileContents
<1>2. f.src \in Seq(Token) /\ f.pos \in 1..Len(f.src)
      BY TopOK DEF ParserOK, FrameFields, AtEnd
<1>3. arg \in Token /\ arg = f.src[f.pos]  BY ArgTyped DEF ParserOK, arg
<1> HIDE DEF h
<1>4. Left(h) = FileContents(arg)
  <2>1. FileContents(arg) \in Seq(Token)  BY <1>3, TokensOfTyped DEF FileContents
  <2> QED  BY <1>1, <2>1, SubSeqFull DEF Left
<1>5. RestOf(frames', Len(frames)) = r
  <2>1. Len(frames) # Len(frames')  BY <1>1, PushSplits
  <2>2. frames'[Len(frames) + 1].kind = "file" /\ frames'[Len(frames)] = f
        BY <1>1, PushSplits
  <2> QED  BY <2>1, <2>2 DEF RestOf
<1>6. Head(Left(f)) = arg /\ Tail(Left(f)) = r /\ Left(f) # << >>
  <2> DEFINE src == f.src
             m == f.pos
  <2>1. src \in Seq(Token) /\ m \in 1..Len(src)  BY <1>2
  <2> HIDE DEF src, m
  <2>2. Head(SubSeq(src, m, Len(src))) = src[m]
        /\ Tail(SubSeq(src, m, Len(src))) = SubSeq(src, m + 1, Len(src))
        /\ SubSeq(src, m, Len(src)) # << >>
    <3>1. m \in 1..Len(src) /\ Len(src) \in m..Len(src)  BY <2>1
    <3>2. SubSeq(src, m, Len(src)) # << >>
      <4>1. m \in Nat \ {0} /\ m <= Len(src) + 1 /\ Len(src) - m + 1 # 0  BY <2>1
      <4> QED  BY <2>1, <4>1, TailTyped, EmptySeq
    <3> QED  BY <2>1, <3>1, <3>2, HeadTailOfSubSeq
  <2> QED  BY <2>2, <1>3 DEF src, m, Left
<1>7. /\ Left(f) \in Seq(Token) /\ r \in Seq(Token) /\ t \in Seq(Token)
      /\ Pending = Left(f) \o t /\ Pending' = Left(h) \o (r \o t)
      BY <1>1, <1>5, PushSplits
<1> HIDE DEF r, t
<1>8. Head(Pending) = arg /\ Tail(Pending) = r \o t /\ Pending # << >>
  <2> DEFINE s == Left(f)
  <2>1. s \in Seq(Token) /\ s # << >> /\ t \in Seq(Token)  BY <1>6, <1>7
  <2> HIDE DEF s
  <2>2. Head(s \o t) = Head(s) /\ Tail(s \o t) = Tail(s) \o t /\ s \o t # << >>
        BY <2>1, HeadOfBoth
  <2> QED  BY <2>2, <1>6, <1>7 DEF s
<1>9. Stream!Splice
      BY <1>4, <1>7, <1>8 DEF Stream!Splice, Stream!Open, Verdict
<1> QED  BY <1>9 DEF Stream!Next

LEMMA PopSplits ==
    ASSUME ParserOK, ParserOK', f.kind # "top", NEW g, Pop(g), g.kind = caller.kind
    PROVE  /\ Pending = Left(f) \o (RestOf(frames, Len(frames) - 1) \o Below(frames'))
           /\ Pending' = Left(g) \o Below(frames')
           /\ Left(f) \in Seq(Token) /\ Left(g) \in Seq(Token)
           /\ Below(frames') \in Seq(Token)
           /\ Len(frames) - 1 # Len(frames) /\ frames[Len(frames) - 1 + 1] = f
<1> DEFINE gs == frames
           fs == frames'
           L == Len(frames)
<1>1. L \in Nat /\ L - 1 \in 1..L /\ L - 1 \in Nat \ {0} /\ L - 1 + 1 = L /\ L - 1 # L
  <2>1. L \in Nat  BY DEF ParserOK, TypeOK
  <2>2. L - 1 \in 1..L  BY CallerFrame DEF ParserOK
  <2> HIDE DEF L
  <2> QED  BY <2>1, <2>2
<1>2. /\ Len(fs) = L - 1 /\ fs[L - 1] = g
      /\ \A k \in 1..(L - 1) : k # L - 1 => fs[k] = frames[k]
  <2>1. fs = [k \in 1..(L - 1) |-> IF k = L - 1 THEN g ELSE frames[k]]
        BY DEF Pop
  <2> HIDE DEF L, fs
  <2>2. \A k \in 1..(L - 1) : fs[k] = IF k = L - 1 THEN g ELSE frames[k]
        BY <2>1
  <2>3. Len(fs) = L - 1  BY <1>1, <2>1
  <2>4. L - 1 \in 1..(L - 1)  BY <1>1
  <2>5. fs[L - 1] = g  BY <2>2, <2>4
  <2>6. \A k \in 1..(L - 1) : k # L - 1 => fs[k] = frames[k]  BY <2>2
  <2> QED  BY <2>3, <2>5, <2>6
<1>3. frames[L] = f /\ frames[L - 1].kind = g.kind  BY DEF f, caller
<1>4. Stack(fs) /\ Stack(gs)  BY StackNow, StackNext
<1>5. Pending = Unread(gs) /\ Pending' = Unread(fs)  BY PendingUnread
<1>6. Len(gs) = L  OBVIOUS
<1> HIDE DEF L, fs
<1>7. SameCallers(fs, gs)
  <2>1. \A k \in 1..(L - 1 - 1) : k \in 1..(L - 1) /\ k # L - 1  BY <1>1
  <2>2. \A k \in 1..(Len(fs) - 1) : gs[k] = fs[k]  BY <1>2, <2>1
  <2>3. gs[Len(fs)].kind = fs[Len(fs)].kind  BY <1>2, <1>3
  <2> HIDE DEF gs
  <2> QED  BY <2>2, <2>3 DEF SameCallers
<1> HIDE DEF gs
<1>8. /\ Unread(gs) = Left(gs[Len(gs)]) \o (RestOf(gs, Len(fs)) \o Below(fs))
      /\ Unread(fs) = Left(fs[Len(fs)]) \o Below(fs)
      /\ Left(gs[Len(gs)]) \in Seq(Token) /\ Left(fs[Len(fs)]) \in Seq(Token)
      /\ Below(fs) \in Seq(Token)
  <2>1. Len(gs) = Len(fs) + 1  BY <1>1, <1>2, <1>6
  <2> QED  BY <2>1, <1>4, <1>7, CallSplits
<1>9. gs[Len(gs)] = f /\ frames[L - 1 + 1] = f  BY <1>1, <1>3, <1>6 DEF gs
<1> QED  BY <1>1, <1>2, <1>5, <1>8, <1>9 DEF gs, fs, L

\* A group's caller goes on where its call ended.
LEMMA LeavesGroup ==
    ASSUME ParserOK, ParserOK', f.kind = "group", NEW g, Pop(g), g.kind = caller.kind,
           g.src = caller.src, g.pos = f.pos
    PROVE  Pending' = Pending
<1>1. f.src = caller.src  BY CallerFrame DEF ParserOK, CallOK
<1>2. Left(g) = Left(f)  BY <1>1 DEF Left
<1>3. RestOf(frames, Len(frames) - 1) = << >>  BY PopSplits DEF RestOf
<1>4. << >> \o Below(frames') = Below(frames')  BY PopSplits, ConcatEmptySeq
<1>5. /\ Pending = Left(f) \o (RestOf(frames, Len(frames) - 1) \o Below(frames'))
      /\ Pending' = Left(g) \o Below(frames')
      BY PopSplits
<1> QED  BY <1>2, <1>3, <1>4, <1>5

\* A file's caller steps over its name; what the file has left is dropped.
LEMMA LeavesFile ==
    ASSUME ParserOK, ParserOK', f.kind = "file", NEW g, Pop(g), g.kind = caller.kind,
           g.src = caller.src, g.pos = caller.pos + 1,
           status = "return", status' = "run", UNCHANGED <<call, delivered>>,
           AtEnd \/ call.deserializing
    PROVE  [Stream!Next]_Stream!vars
<1> DEFINE s == Left(f)
           t == Left(g) \o Below(frames')
<1>1. RestOf(frames, Len(frames) - 1) = Left(g)
  <2>1. /\ Len(frames) - 1 # Len(frames) /\ frames[Len(frames) - 1 + 1].kind = "file"
        BY PopSplits
  <2> QED  BY <2>1 DEF RestOf, Left, caller
<1>2. Pending = s \o t /\ Pending' = t /\ s \in Seq(Token) /\ t \in Seq(Token)
  <2>1. /\ Left(f) \in Seq(Token) /\ Left(g) \in Seq(Token) /\ Below(frames') \in Seq(Token)
        /\ Pending = Left(f) \o (RestOf(frames, Len(frames) - 1) \o Below(frames'))
        /\ Pending' = Left(g) \o Below(frames')
        BY PopSplits
  <2>2. t \in Seq(Token)  BY <2>1, ConcatProperties
  <2> QED  BY <1>1, <2>1, <2>2
<1> HIDE DEF s, t
<1>3. Verdict = "open" /\ Verdict' = "open"  BY DEF Verdict
<1>4. CASE s = << >>
  <2>1. Pending' = Pending  BY <1>2, <1>4, ConcatEmptySeq
  <2> QED  BY <2>1, <1>3 DEF Stream!vars
<1>5. CASE s # << >>
  <2>1. call.deserializing
    <3>1. CASE AtEnd
      <4>1. f.pos \in Int /\ Len(f.src) \in Int /\ Len(f.src) < f.pos
            BY <3>1, TopOK DEF ParserOK, AtEnd
      <4>2. s = << >>  BY <4>1, SubSeqEmpty DEF s, Left
      <4> QED  BY <4>2, <1>5
    <3> QED  BY <3>1
  <2>2. Len(s) \in Nat \ {0} /\ Len(s) \in 0..Len(s)  BY <1>2, <1>5
  <2>3. /\ SubSeq(s \o t, Len(s) + 1, Len(s \o t)) = SubSeq(s, Len(s) + 1, Len(s)) \o t
        /\ Len(s \o t) \in Nat /\ Len(s) <= Len(s \o t)
        BY <1>2, <2>2, FrontOfBoth
  <2>4. SubSeq(s, Len(s) + 1, Len(s)) = << >>
    <3>1. Len(s) + 1 \in Int /\ Len(s) \in Int /\ Len(s) < Len(s) + 1  BY <2>2
    <3> QED  BY <3>1, SubSeqEmpty
  <2>5. Pending' = SubSeq(Pending, Len(s) + 1, Len(Pending))
        BY <1>2, <2>3, <2>4, ConcatEmptySeq
  <2>6. Len(s) \in 1..Len(Pending)  BY <1>2, <2>2, <2>3
  <2>7. Stream!Drop  BY <1>3, <2>1, <2>5, <2>6 DEF Stream!Drop, Stream!Open
  <2> QED  BY <2>7 DEF Stream!Next
<1> QED  BY <1>4, <1>5

-----------------------------------------------------------------------------
(* Every action of the parser is a step of the stream or no step of it.      *)

StreamStep == [Stream!Next]_Stream!vars

\* Tokens from "first" to p go to an option, and "first" is at p.
LEMMA MovesTo ==
    ASSUME ParserOK, ParserOK', status = "run", status' # "ok", UNCHANGED call,
           NEW p, f.pos <= p, Deliver(p),
           NEW g, SetTop(g), g.src = f.src, g.kind = f.kind, g.pos = p
    PROVE  StreamStep
<1>1. Going(status) /\ Refusable(status')  BY DEF Going, Refusable, ParserOK, TypeOK
<1>2. delivered' = delivered \o SubSeq(f.src, f.pos, g.pos - 1)  BY DEF Deliver
<1> QED  BY <1>1, <1>2, Delivers DEF StreamStep

LEMMA AdvancesTo ==
    ASSUME ParserOK, ParserOK', status = "run", status' # "ok", UNCHANGED call,
           NEW p, f.pos <= p, Deliver(p), Advance(p)
    PROVE  StreamStep
<1>1. f \in FrameFields  BY TopOK DEF ParserOK
<1>2. /\ PastEntry(p).src = f.src /\ PastEntry(p).kind = f.kind
      /\ PastEntry(p).pos = p
      BY <1>1 DEF PastEntry, FrameFields
<1>3. SetTop(PastEntry(p))  BY DEF Advance
<1> QED  BY <1>2, <1>3, MovesTo

\* No token at all.
LEMMA DeliversNone ==
    ASSUME ParserOK, UNCHANGED delivered
    PROVE  Deliver(f.pos)
<1>1. f.pos \in Int /\ f.pos - 1 \in Int /\ f.pos - 1 < f.pos  BY TopOK DEF ParserOK
<1>2. SubSeq(f.src, f.pos, f.pos - 1) = << >>  BY <1>1, SubSeqEmpty
<1>3. delivered \in Seq(Token)  BY DEF ParserOK, TypeOK
<1> QED  BY <1>2, <1>3, ConcatEmptySeq DEF Deliver

\* Staying with the entry that the fold is at.
LEMMA StopsAt ==
    ASSUME ParserOK, ParserOK', status = "run", status' # "ok", UNCHANGED call,
           NEW n \in Nat, StopAt(n)
    PROVE  StreamStep
<1> DEFINE g == [f EXCEPT !.pos = @ + n]
<1>1. f \in FrameFields /\ f.pos \in Nat  BY TopOK DEF ParserOK
<1>2. g.src = f.src /\ g.kind = f.kind /\ g.pos = f.pos + n  BY <1>1 DEF FrameFields
<1>3. SetTop(g) /\ Deliver(f.pos + n)  BY DEF StopAt
<1>4. f.pos <= f.pos + n  BY <1>1
<1> HIDE DEF g
<1> QED  BY <1>2, <1>3, <1>4, MovesTo

LEMMA MatchNameSteps ==
    ASSUME ParserOK, ParserOK', MatchName
    PROVE  StreamStep
<1>1. f \in FrameFields /\ f.pos \in Nat /\ f.pos <= f.pos + 1 /\ f.pos <= f.pos
      BY TopOK DEF ParserOK
<1>2. Deliver(f.pos + 1) /\ UNCHANGED call /\ status = "run"
      BY DEF MatchName, Named, Looking, AtLeaf
<1>3. status' # "ok"  BY OptionParsed DEF ParseOption
<1>4. CASE Advance(f.pos + 1)  BY <1>1, <1>2, <1>3, <1>4, AdvancesTo
<1>5. CASE SetTop([f EXCEPT !.pos = @ + 1])
  <2> DEFINE g == [f EXCEPT !.pos = @ + 1]
  <2>1. g.src = f.src /\ g.kind = f.kind /\ g.pos = f.pos + 1  BY <1>1 DEF FrameFields
  <2>2. SetTop(g)  BY <1>5
  <2> HIDE DEF g
  <2> QED  BY <1>1, <1>2, <1>3, <2>1, <2>2, MovesTo
<1>6. CASE SetTop([f EXCEPT !.pos = @ + 1, !.stage = "args"])
  <2> DEFINE g == [f EXCEPT !.pos = @ + 1, !.stage = "args"]
  <2>1. g.src = f.src /\ g.kind = f.kind /\ g.pos = f.pos + 1  BY <1>1 DEF FrameFields
  <2>2. SetTop(g)  BY <1>6
  <2> HIDE DEF g
  <2> QED  BY <1>1, <1>2, <1>3, <2>1, <2>2, MovesTo
<1> QED  BY <1>4, <1>5, <1>6 DEF MatchName

\* The outcomes of parse_option().
LEMMA ParseOptionSteps ==
    ASSUME ParserOK, ParserOK', ParseOption
    PROVE  StreamStep
<1>1. f.pos \in Nat /\ f.pos <= f.pos /\ f.pos <= f.pos + 1 /\ f.pos + 1 \in Nat
      BY TopOK DEF ParserOK
<1>2. status' # "ok" /\ UNCHANGED call  BY OptionParsed, CallUntouched
<1>3. status = "run"
      BY DEF ParseOption, SkipTakenPositional, NoMatch, CountShort, RejectSecondExclusive,
             MatchName, NoArgsLeft, TakeArgs, TooFewArgs, InvalidArg, Named, Looking,
             ParsingArgs, ArgsDue, AtLeaf
<1>4. CASE SkipTakenPositional \/ NoMatch
  <2>1. Advance(f.pos) /\ UNCHANGED delivered
        BY <1>4 DEF SkipTakenPositional, NoMatch, history
  <2> QED  BY <1>1, <1>2, <1>3, <2>1, DeliversNone, AdvancesTo
<1>5. CASE CountShort
  <2>1. Advance(f.pos + 1) /\ Deliver(f.pos + 1)  BY <1>5 DEF CountShort
  <2> QED  BY <1>1, <1>2, <1>3, <2>1, AdvancesTo
<1>6. ASSUME UNCHANGED <<frames, delivered>>  PROVE StreamStep
  <2>1. Going(status) /\ Refusable(status')
        BY <1>2, <1>3 DEF Going, Refusable, ParserOK, TypeOK
  <2> QED  BY <1>2, <1>6, <2>1, Refuses DEF StreamStep
<1>7. CASE RejectSecondExclusive  BY <1>6, <1>7 DEF RejectSecondExclusive, history
<1>8. CASE NoArgsLeft
  <2>1. UNCHANGED delivered /\ (Advance(f.pos) \/ UNCHANGED frames)
        BY <1>8 DEF NoArgsLeft, history
  <2> QED  BY <1>1, <1>2, <1>3, <1>6, <2>1, DeliversNone, AdvancesTo
<1>9. CASE MatchName  BY <1>9, MatchNameSteps
<1>10. CASE TakeArgs
  <2>1. PICK n \in 0..Len(f.src) : Deliver(f.pos + n) /\ Advance(f.pos + n)
        BY <1>10 DEF TakeArgs
  <2>2. Len(f.src) \in Nat  BY TopOK DEF ParserOK
  <2>3. f.pos <= f.pos + n  BY <1>1, <2>2
  <2> QED  BY <1>2, <1>3, <2>1, <2>3, AdvancesTo
<1>11. CASE TooFewArgs \/ InvalidArg
  <2>1. PICK n \in 0..Len(f.src) : StopAt(n)  BY <1>11 DEF TooFewArgs, InvalidArg
  <2>2. n \in Nat
    <3>1. Len(f.src) \in Nat  BY TopOK DEF ParserOK
    <3> QED  BY <3>1
  <2> QED  BY <1>2, <1>3, <2>1, <2>2, StopsAt
<1> QED  BY <1>4, <1>5, <1>7, <1>8, <1>9, <1>10, <1>11 DEF ParseOption

\* A call that returns an error is loading a file; one that returns none has
\* read its list, because the outermost call is the final one.
Returning ==
    /\ EndOK
    /\ call.final
    /\ status = "return" /\ ret # "none" => call.deserializing

\* fail() returns an error only to what loads a file.
LEMMA FailReturns ==
    ASSUME NEW err, NEW args, Fail(err, args)
    PROVE  status' = "return" => call.deserializing
BY DEF Fail, Exit1

LEMMA ReturningKept ==
    ASSUME Returning, ParseOption \/ Impl \/ Finish
    PROVE  Returning'
<1>1. EndOK' /\ UNCHANGED call  BY EndKept, CallUntouched DEF Returning
<1>2. ASSUME status' = "return", ret' # "none"  PROVE call.deserializing
  <2>1. CASE \E err, args : Fail(err, args)  BY <1>2, <2>1, FailReturns
  <2>2. CASE ParseOption
    <3>1. \/ \E err, args : Fail(err, args)
          \/ UNCHANGED status
          \/ status' \in {"assert", "exit0"}
          BY <2>2
          DEF ParseOption, SkipTakenPositional, NoMatch, CountShort, RejectSecondExclusive,
              MatchName, NoArgsLeft, TakeArgs, TooFewArgs, InvalidArg
    <3>2. status = "run"
          BY <2>2
          DEF ParseOption, SkipTakenPositional, NoMatch, CountShort, RejectSecondExclusive,
              MatchName, NoArgsLeft, TakeArgs, TooFewArgs, InvalidArg, Named, Looking,
              ParsingArgs, ArgsDue, AtLeaf
    <3> QED  BY <1>2, <2>1, <3>1, <3>2
  <2>3. CASE LoopEnds  BY <1>2, <2>3 DEF LoopEnds
  <2>4. CASE OpenAtFile  BY <1>2, <2>1, <2>4 DEF OpenAtFile, AtLoopHead
  <2>5. CASE OpenNamedFile
        BY <1>2, <2>5 DEF OpenNamedFile, Exit1, ArgsDue, Looking, AtLeaf
  <2>6. CASE BeginFold  BY <1>2, <2>6 DEF BeginFold, AtLoopHead
  <2>7. CASE EnterGroup  BY <1>2, <2>7 DEF EnterGroup
  <2>8. CASE EndFold  BY <1>2, <2>1, <2>8 DEF EndFold
  <2>9. CASE ReturnFromFile  BY <1>2, <2>9 DEF ReturnFromFile
  <2>10. CASE ReturnFromGroup  BY <1>2, <2>10 DEF ReturnFromGroup, Returning
  <2>11. CASE Finish  BY <1>2, <2>11 DEF Finish, Exit1
  <2> QED  BY <2>2, <2>3, <2>4, <2>5, <2>6, <2>7, <2>8, <2>9, <2>10, <2>11 DEF Impl
<1> QED  BY <1>1, <1>2 DEF Returning

\* A step of the fold that takes no token.
LEMMA FoldSteps ==
    ASSUME ParserOK, ParserOK', status = "run", status' # "ok", UNCHANGED <<call, delivered>>,
           NEW g, SetTop(g), g.src = f.src, g.kind = f.kind, g.pos = f.pos
    PROVE  StreamStep
<1>1. f.pos <= f.pos  BY TopOK DEF ParserOK
<1> QED  BY <1>1, DeliversNone, MovesTo

LEMMA SameStream ==
    ASSUME Going(status), Going(status'), UNCHANGED <<call, delivered>>, Pending' = Pending
    PROVE  StreamStep
BY DEF Going, Verdict, Stream!vars, StreamStep

\* The loop, its calls and their returns.
LEMMA ImplSteps ==
    ASSUME ParserOK, ParserOK', Returning, Impl
    PROVE  StreamStep
<1>1. status' # "ok" /\ UNCHANGED <<call, delivered>>
  <2>1. UNCHANGED delivered
        BY DEF Impl, LoopEnds, OpenAtFile, OpenNamedFile, BeginFold, EnterGroup, EndFold,
               ReturnFromFile, ReturnFromGroup, history
  <2> QED  BY <2>1, CallReturns, CallUntouched
<1>2. f \in FrameFields  BY TopOK DEF ParserOK
<1>3. ASSUME status = "run", UNCHANGED frames  PROVE StreamStep
  <2>1. Going(status) /\ Refusable(status')
        BY <1>1, <1>3 DEF Going, Refusable, ParserOK, TypeOK
  <2> QED  BY <1>1, <1>3, <2>1, Refuses DEF StreamStep
<1>4. CASE LoopEnds
  <2>1. status = "run" /\ UNCHANGED frames  BY <1>4 DEF LoopEnds, AtLoopHead
  <2> QED  BY <1>3, <2>1
<1>5. CASE OpenAtFile
  <2>1. status = "run" /\ ~AtEnd  BY <1>5 DEF OpenAtFile, AtLoopHead
  <2>2. (Open(arg) /\ UNCHANGED status) \/ UNCHANGED frames  BY <1>5 DEF OpenAtFile
  <2>3. CASE Open(arg) /\ UNCHANGED status
        BY <1>1, <2>1, <2>3, OpensFile DEF StreamStep
  <2> QED  BY <1>3, <2>1, <2>2, <2>3
<1>6. CASE OpenNamedFile
  <2>1. status = "run" /\ ~AtEnd
        BY <1>6 DEF OpenNamedFile, ArgsDue, Looking, AtLeaf
  <2>2. (Open(arg) /\ UNCHANGED status) \/ UNCHANGED frames  BY <1>6 DEF OpenNamedFile
  <2>3. CASE Open(arg) /\ UNCHANGED status
        BY <1>1, <2>1, <2>3, OpensFile DEF StreamStep
  <2> QED  BY <1>3, <2>1, <2>2, <2>3
<1>7. CASE BeginFold
  <2> DEFINE g == [f EXCEPT !.i = 1, !.initial = f.pos, !.pidx = -1]
  <2>1. g.src = f.src /\ g.kind = f.kind /\ g.pos = f.pos  BY <1>2 DEF FrameFields
  <2>2. SetTop(g) /\ status = "run"  BY <1>7 DEF BeginFold, AtLoopHead
  <2> HIDE DEF g
  <2> QED  BY <1>1, <2>1, <2>2, FoldSteps
<1>8. CASE EnterGroup
  <2>1. PICK leaves :
           frames' = Append(frames, NewFrame("group", f.stream, f.src, f.pos, leaves, f.i))
        BY <1>8 DEF EnterGroup
  <2>2. status = "run" /\ status' = "run"  BY <1>8 DEF EnterGroup
  <2> DEFINE h == NewFrame("group", f.stream, f.src, f.pos, leaves, f.i)
  <2>3. h.kind = "group" /\ h.src = f.src /\ h.pos = f.pos  BY DEF NewFrame
  <2>4. frames' = Append(frames, h)  BY <2>1
  <2> HIDE DEF h
  <2>5. Pending' = Pending  BY <2>3, <2>4, EntersGroup
  <2> QED  BY <1>1, <2>2, <2>5, SameStream DEF Going
<1>9. CASE EndFold
  <2>1. SetTop([f EXCEPT !.i = 0]) \/ UNCHANGED frames  BY <1>9 DEF EndFold
  <2>2. status = "run"  BY <1>9 DEF EndFold
  <2>3. CASE SetTop([f EXCEPT !.i = 0])
    <3> DEFINE g == [f EXCEPT !.i = 0]
    <3>1. g.src = f.src /\ g.kind = f.kind /\ g.pos = f.pos  BY <1>2 DEF FrameFields
    <3>2. SetTop(g)  BY <2>3
    <3> HIDE DEF g
    <3> QED  BY <1>1, <2>2, <3>1, <3>2, FoldSteps
  <2> QED  BY <1>3, <2>1, <2>2, <2>3
<1>10. CASE ReturnFromFile
  <2> DEFINE i == IF caller.i = 0 THEN 0 ELSE caller.i + 1
             g == [caller EXCEPT !.pos = caller.pos + 1, !.stage = "name", !.i = i]
  <2>1. f.kind = "file" /\ status = "return" /\ status' = "run"
        BY <1>10 DEF ReturnFromFile
  <2>2. caller \in FrameFields  BY <2>1, CallerFrame DEF ParserOK, Frame
  <2>3. Pop(g)
    <3>1. Pop([caller EXCEPT !.pos = @ + 1, !.stage = "name",
                             !.i = IF @ = 0 THEN 0 ELSE @ + 1])
          BY <1>10 DEF ReturnFromFile
    <3>2. [caller EXCEPT !.pos = @ + 1, !.stage = "name",
                         !.i = IF @ = 0 THEN 0 ELSE @ + 1] = g
          OBVIOUS
    <3> QED  BY <3>1, <3>2
  <2> HIDE DEF i
  <2>4. g.kind = caller.kind /\ g.src = caller.src /\ g.pos = caller.pos + 1
        BY <2>2 DEF FrameFields
  <2>5. AtEnd \/ call.deserializing  BY <2>1 DEF Returning, EndOK
  <2> HIDE DEF g
  <2> QED  BY <1>1, <2>1, <2>3, <2>4, <2>5, LeavesFile DEF StreamStep
<1>11. CASE ReturnFromGroup
  <2> DEFINE g == [caller EXCEPT !.pos = f.pos, !.i = caller.i + 1]
  <2>1. f.kind = "group" /\ status = "return" /\ status' \in {"run", "return"}
        BY <1>11 DEF ReturnFromGroup
  <2>2. caller \in FrameFields  BY <2>1, CallerFrame DEF ParserOK, Frame
  <2>3. Pop(g)
    <3>1. Pop([caller EXCEPT !.pos = f.pos, !.i = @ + 1])  BY <1>11 DEF ReturnFromGroup
    <3>2. [caller EXCEPT !.pos = f.pos, !.i = @ + 1] = g  OBVIOUS
    <3> QED  BY <3>1, <3>2
  <2>4. g.kind = caller.kind /\ g.src = caller.src /\ g.pos = f.pos
        BY <2>2 DEF FrameFields
  <2> HIDE DEF g
  <2>5. Pending' = Pending  BY <2>1, <2>3, <2>4, LeavesGroup
  <2> QED  BY <1>1, <2>1, <2>5, SameStream DEF Going
<1> QED  BY <1>4, <1>5, <1>6, <1>7, <1>8, <1>9, <1>10, <1>11 DEF Impl

\* The end of the outermost call: it succeeds when nothing is left.
LEMMA FinishSteps ==
    ASSUME ParserOK, ParserOK', Returning, Finish
    PROVE  StreamStep
<1>1. status = "return" /\ f.kind = "top" /\ UNCHANGED <<call, frames, delivered>>
      BY DEF Finish, history
<1>2. CASE status' # "ok"
  <2>1. Going(status) /\ Refusable(status')
        BY <1>1, <1>2 DEF Going, Refusable, ParserOK, TypeOK
  <2> QED  BY <1>1, <2>1, Refuses DEF StreamStep
<1>3. CASE status' = "ok"
  <2>1. AtEnd  BY <1>1, <1>3 DEF Finish, Returning, EndOK, Exit1
  <2>2. Left(f) = << >>
    <3>1. f.pos \in Int /\ Len(f.src) \in Int /\ Len(f.src) < f.pos
          BY <2>1, TopOK DEF ParserOK, AtEnd
    <3> QED  BY <3>1, SubSeqEmpty DEF Left
  <2>3. Len(frames) = 1
    <3> DEFINE n == Len(frames)
    <3>1. n \in Nat \ {0} /\ \A k \in 2..n : frames[k].kind \in {"file", "group"}
          BY StackNow DEF Stack
    <3>2. frames[n].kind = "top"  BY <1>1 DEF f
    <3> HIDE DEF n
    <3>3. n \notin 2..n  BY <3>1, <3>2
    <3>4. n = 1  BY <3>1, <3>3
    <3> QED  BY <3>4 DEF n
  <2>4. Below(frames) = << >>
    <3>1. \A s : DOMAIN s = {} /\ s = [k \in DOMAIN s |-> s[k]] => s = << >>
          OBVIOUS
    <3>2. \A n : n = 1 => 1..(n - 1) = {}  OBVIOUS
    <3>3. 1..(Len(frames) - 1) = {}  BY <2>3, <3>2
    <3>4. DOMAIN Under(frames) = {}
          /\ Under(frames) = [k \in DOMAIN Under(frames) |-> Under(frames)[k]]
          BY <3>3 DEF Under
    <3>5. Under(frames) = << >>  BY <3>1, <3>4
    <3>6. Len(<< >>) = 0  BY EmptySeq
    <3> QED  BY <3>5, <3>6 DEF Below, FlattenSeq
  <2>5. Pending = << >>
    <3>1. Unread(frames) = Left(f) \o Below(frames)  BY StackNow, UnreadSplits DEF f
    <3> QED  BY <2>2, <2>4, <3>1, PendingUnread, ConcatEmptySeq, EmptySeq
  <2>6. Pending' = Pending  BY <1>1, PendingUnread
  <2>7. Stream!Accept
        BY <1>1, <1>3, <2>5, <2>6 DEF Stream!Accept, Stream!Open, Verdict
  <2> QED  BY <2>7 DEF Stream!Next, StreamStep
<1> QED  BY <1>2, <1>3

\* Every step keeps Returning.
LEMMA NextReturning ==
    ASSUME Returning, [Next]_vars
    PROVE  Returning'
<1>1. CASE UNCHANGED vars
      BY <1>1 DEF Returning, EndOK, AtEnd, f, vars
<1> QED  BY <1>1, ReturningKept DEF Next, Stay

\* A parse starts where the stream does, with the whole command line to read.
LEMMA StreamStarts ==
    ASSUME Init
    PROVE  Stream!Init
<1>1. Stack(frames)  BY InitIInv, StackNow DEF IInv
<1>2. Pending \in Seq(Token)
  <2>1. Left(frames[Len(frames)]) \o Below(frames) \in Seq(Token)
        BY <1>1, UnreadSplits, ConcatProperties
  <2> QED  BY <2>1, <1>1, UnreadSplits, PendingUnread
<1>3. delivered = << >> /\ Verdict = "open"  BY DEF Init, Start, Verdict
<1>4. call.deserializing \in BOOLEAN
      BY InitIInv DEF IInv, ParserOK, TypeOK, Call
<1> QED  BY <1>2, <1>3, <1>4 DEF Stream!Init

\* Every step of a parse is a step of the stream, or none.
LEMMA StreamKept ==
    ASSUME ParserOK, ParserOK', Returning, [Next]_vars
    PROVE  StreamStep
<1>1. CASE UNCHANGED vars
  <2>1. Pending' = Pending  BY <1>1, PendingUnread DEF vars
  <2> QED  BY <1>1, <2>1 DEF StreamStep, Stream!vars, Verdict, vars
<1> QED  BY <1>1, ParseOptionSteps, ImplSteps, FinishSteps DEF Next, Stay

\* Every token of the command line and of its response files reaches exactly one
\* option, in order; a file's tokens are read in place of the one that names it;
\* and success means that none is left (parse_options_into and the iterators it
\* shares, parsing.hpp 764-981).
THEOREM ImplementsTokenStream == Spec => ImplementsStream
<1>1. Init => Stream!Init  BY StreamStarts
<1>2. Init => Returning
      BY DEF Init, Start, Returning, EndOK
<1>3. Returning /\ [Next]_vars => Returning'  BY NextReturning
<1>4. ParserOK /\ ParserOK' /\ Returning /\ [Next]_vars => [Stream!Next]_Stream!vars
      BY StreamKept DEF StreamStep
<1>5. IInv => ParserOK  BY DEF IInv
<1>6. Spec => []IInv  BY Invariance
<1> QED  BY <1>1, <1>2, <1>3, <1>4, <1>5, <1>6, PTL
         DEF Spec, ImplementsStream, Stream!Spec

=============================================================================
