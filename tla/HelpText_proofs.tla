--------------------------- MODULE HelpText_proofs ---------------------------
(* Theorems about HelpText, for every program, whatever its options, groups   *)
(* and commands are and however wide their texts.                             *)
EXTENDS HelpText, FiniteSetTheorems, SequenceTheorems, WellFoundedInduction, TLAPS

-----------------------------------------------------------------------------
(* Functions that are defined by recursion on a depth.                        *)

\* Every set of numbers has a least one.
LEMMA Least ==
    ASSUME NEW S \in SUBSET Nat, S # {}
    PROVE  \E n \in S : \A m \in S : n <= m
<1>1. IsWellFoundedOn(OpToRel(<, Nat), Nat)  BY NatLessThanWellFounded
<1>2. PICK n \in S : \A m \in S : ~(<<m, n>> \in OpToRel(<, Nat))
      BY <1>1, WFMin
<1>3. \A m \in S : ~(m < n)  BY <1>2 DEF OpToRel
<1> QED  BY <1>3

\* Of things that have depths, some are the least deep.
LEMMA Shallowest ==
    ASSUME NEW I, NEW n \in Nat, NEW d \in [I -> 0..n], NEW S \in SUBSET I, S # {}
    PROVE  \E i \in S : \A j \in S : ~(d[j] < d[i])
<1> DEFINE depths == {d[i] : i \in S}
<1>1. depths \in SUBSET Nat /\ depths # {}  OBVIOUS
<1>2. PICK m \in depths : \A k \in depths : m <= k  BY <1>1, Least
<1>3. PICK i \in S : m = d[i]  OBVIOUS
<1>4. ASSUME NEW j \in S  PROVE ~(d[j] < d[i])
  <2>1. d[j] \in depths /\ d[j] \in Nat /\ d[i] \in Nat  OBVIOUS
  <2>2. m <= d[j]  BY <1>2, <2>1
  <2> HIDE DEF depths
  <2> QED  BY <1>3, <2>1, <2>2
<1> QED  BY <1>4

\* What B says of i depends on what is less deep only.
Local(B, I, V, d) ==
    \A i \in I : \A g, h \in [I -> V] :
        (\A j \in I : d[j] < d[i] => g[j] = h[j]) => B[<<i, g>>] = B[<<i, h>>]

\* What B says of each i is what f has; and so for those less deep than m.
Solution(f, B, I) == \A i \in I : f[i] = B[<<i, f>>]
Solves(f, B, I, d, m) == \A i \in I : d[i] < m => f[i] = B[<<i, f>>]

\* A solution one level deeper.
LEMMA OneDeeper ==
    ASSUME NEW I, NEW V, NEW n \in Nat, NEW d \in [I -> 0..n],
           NEW B \in [I \X [I -> V] -> V], Local(B, I, V, d),
           NEW m \in Nat, NEW g \in [I -> V], Solves(g, B, I, d, m)
    PROVE  \E h \in [I -> V] : Solves(h, B, I, d, m + 1)
<1> DEFINE h == [i \in I |-> B[<<i, g>>]]
<1>1. h \in [I -> V]
  <2>1. \A i \in I : <<i, g>> \in I \X [I -> V]  OBVIOUS
  <2> QED  BY <2>1
<1>2. \A i \in I : h[i] = B[<<i, g>>]  OBVIOUS
<1> HIDE DEF h
<1>3. ASSUME NEW i \in I, d[i] < m + 1  PROVE h[i] = B[<<i, h>>]
  <2>1. ASSUME NEW j \in I, d[j] < d[i]  PROVE g[j] = h[j]
    <3>1. d[i] \in Nat /\ d[j] \in Nat  OBVIOUS
    <3>2. d[j] < m  BY <3>1, <2>1, <1>3
    <3> QED  BY <3>2, <1>2 DEF Solves
  <2>2. B[<<i, g>>] = B[<<i, h>>]  BY <2>1, <1>1 DEF Local
  <2> QED  BY <2>2, <1>2
<1> QED  BY <1>1, <1>3 DEF Solves

\* Such a recursion has a solution.
LEMMA Recursion ==
    ASSUME NEW I, NEW V, V # {}, NEW n \in Nat, NEW d \in [I -> 0..n],
           NEW B \in [I \X [I -> V] -> V], Local(B, I, V, d)
    PROVE  \E f \in [I -> V] : Solution(f, B, I)
<1> DEFINE Solvable(m) == \E f \in [I -> V] : Solves(f, B, I, d, m)
           bad == {m \in Nat : ~Solvable(m)}
<1>1. ASSUME NEW m \in Nat, Solvable(m)  PROVE Solvable(m + 1)
  <2>1. PICK g \in [I -> V] : Solves(g, B, I, d, m)  BY <1>1
  <2> QED  BY <2>1, OneDeeper
<1>2. Solvable(0)
  <2>1. PICK v \in V : TRUE  OBVIOUS
  <2>2. [i \in I |-> v] \in [I -> V]  OBVIOUS
  <2>3. \A i \in I : ~(d[i] < 0)  OBVIOUS
  <2> QED  BY <2>2, <2>3 DEF Solves
<1> HIDE DEF Solvable
<1>3. bad = {}
  <2> SUFFICES ASSUME bad # {}  PROVE FALSE  OBVIOUS
  <2>1. PICK m \in bad : \A k \in bad : m <= k
    <3>1. bad \in SUBSET Nat  OBVIOUS
    <3> HIDE DEF bad
    <3> QED  BY <3>1, Least
  <2>2. m \in Nat /\ ~Solvable(m) /\ m # 0  BY <1>2
  <2>3. m - 1 \in Nat /\ ~(m <= m - 1) /\ (m - 1) + 1 = m  BY <2>2
  <2>4. Solvable(m - 1)  BY <2>1, <2>3
  <2> QED  BY <1>1, <2>2, <2>3, <2>4
<1>4. PICK f \in [I -> V] : Solves(f, B, I, d, n + 1)
  <2>1. n + 1 \in Nat  OBVIOUS
  <2>2. Solvable(n + 1)  BY <1>3, <2>1
  <2> QED  BY <2>2 DEF Solvable
<1>5. \A i \in I : d[i] < n + 1  OBVIOUS
<1> QED  BY <1>4, <1>5 DEF Solves, Solution

-----------------------------------------------------------------------------
(* Concatenations. *)

\* The concatenations of the first i of some sequences.
Concats(g, s, n) == g = [i \in 1..n |-> IF i = 1 THEN s[i] ELSE g[i - 1] \o s[i]]

\* They exist, so that FlattenSeq's choice is one of them.
LEMMA ConcatsExist ==
    ASSUME NEW V, \A u, v \in V : u \o v \in V,
           NEW n \in Nat \ {0}, NEW s, \A k \in 1..n : s[k] \in V
    PROVE  \E g : Concats(g, s, n)
<1> DEFINE I == 1..n
           d == [i \in I |-> i]
           B == [p \in I \X [I -> V] |->
                    IF p[1] = 1 THEN s[p[1]] ELSE p[2][p[1] - 1] \o s[p[1]]]
<1>1. d \in [I -> 0..n] /\ V # {}  OBVIOUS
<1>2. ASSUME NEW i \in I, NEW g \in [I -> V]
      PROVE  /\ B[<<i, g>>] = IF i = 1 THEN s[i] ELSE g[i - 1] \o s[i]
             /\ (IF i = 1 THEN s[i] ELSE g[i - 1] \o s[i]) \in V
  <2>1. i # 1 => i - 1 \in I  OBVIOUS
  <2>2. i # 1 => g[i - 1] \in V /\ s[i] \in V  BY <2>1
  <2> QED  BY <2>2
<1>3. B \in [I \X [I -> V] -> V]
  <2>1. ASSUME NEW p \in I \X [I -> V]
        PROVE  (IF p[1] = 1 THEN s[p[1]] ELSE p[2][p[1] - 1] \o s[p[1]]) \in V
        BY <1>2
  <2> QED  BY <2>1
<1>4. Local(B, I, V, d)
  <2> SUFFICES ASSUME NEW i \in I, NEW g \in [I -> V], NEW h \in [I -> V],
                      \A j \in I : d[j] < d[i] => g[j] = h[j]
               PROVE  B[<<i, g>>] = B[<<i, h>>]
      BY DEF Local
  <2>1. i # 1 => i - 1 \in I /\ d[i - 1] < d[i]  OBVIOUS
  <2>2. i # 1 => g[i - 1] = h[i - 1]  BY <2>1
  <2> HIDE DEF B
  <2> QED  BY <1>2, <2>2
<1>5. PICK f \in [I -> V] : Solution(f, B, I)
  <2>1. n \in Nat  OBVIOUS
  <2> HIDE DEF I, d, B
  <2> QED  BY <2>1, <1>1, <1>3, <1>4, Recursion
<1> HIDE DEF B
<1>6. \A i \in I : f[i] = IF i = 1 THEN s[i] ELSE f[i - 1] \o s[i]  BY <1>2, <1>5 DEF Solution
<1>7. f = [i \in I |-> f[i]]  OBVIOUS
<1>8. f = [i \in I |-> IF i = 1 THEN s[i] ELSE f[i - 1] \o s[i]]  BY <1>6, <1>7
<1> QED  BY <1>8 DEF Concats

\* What holds of some sequences, and of two when they are joined, holds of all of
\* them joined.
LEMMA FlattenIn ==
    ASSUME NEW V, \A u, v \in V : u \o v \in V,
           NEW s, Len(s) \in Nat \ {0}, \A k \in 1..Len(s) : s[k] \in V
    PROVE  FlattenSeq(s) \in V
<1> DEFINE n == Len(s)
           g == CHOOSE h : Concats(h, s, n)
<1>1. Concats(g, s, n)  BY ConcatsExist
<1>2. FlattenSeq(s) = g[n]  BY DEF FlattenSeq, Concats
<1> HIDE DEF g
<1>3. \A i \in 1..n : g[i] = IF i = 1 THEN s[i] ELSE g[i - 1] \o s[i]
      BY <1>1 DEF Concats
<1> DEFINE bad == {i \in 1..n : g[i] \notin V}
<1>4. bad = {}
  <2> SUFFICES ASSUME bad # {}  PROVE FALSE  OBVIOUS
  <2>1. PICK i \in bad : \A j \in bad : i <= j
    <3>1. bad \in SUBSET Nat  OBVIOUS
    <3> HIDE DEF bad
    <3> QED  BY <3>1, Least
  <2>2. i # 1  BY <1>3
  <2>3. i - 1 \in 1..n /\ i - 1 \notin bad  BY <2>1, <2>2
  <2>4. g[i - 1] \in V  BY <2>3
  <2>5. g[i] = g[i - 1] \o s[i]  BY <1>3, <2>2
  <2> QED  BY <2>4, <2>5
<1>5. n \in 1..n  OBVIOUS
<1> QED  BY <1>2, <1>4, <1>5

LEMMA FlattenTyped ==
    ASSUME NEW T, NEW s \in Seq(Seq(T))
    PROVE  FlattenSeq(s) \in Seq(T)
<1>1. CASE Len(s) = 0
  <2>1. s = << >>  BY <1>1
  <2>2. FlattenSeq(s) = s  BY <1>1 DEF FlattenSeq
  <2> QED  BY <2>1, <2>2, EmptySeq
<1>2. CASE Len(s) # 0
  <2>1. \A u, v \in Seq(T) : u \o v \in Seq(T)  BY ConcatProperties
  <2>2. Len(s) \in Nat \ {0} /\ \A k \in 1..Len(s) : s[k] \in Seq(T)  BY <1>2
  <2> QED  BY <2>1, <2>2, FlattenIn
<1> QED  BY <1>1, <1>2

\* When none of some sequences is empty, their concatenation is not.
LEMMA FlattenNotEmpty ==
    ASSUME NEW T, NEW s \in Seq(Seq(T)), s # << >>, \A k \in 1..Len(s) : s[k] # << >>
    PROVE  FlattenSeq(s) \in Seq(T) /\ FlattenSeq(s) # << >>
<1> DEFINE V == Seq(T) \ {<< >>}
<1>1. ASSUME NEW u \in V, NEW v \in V  PROVE u \o v \in V
  <2>1. u \o v \in Seq(T) /\ Len(u \o v) = Len(u) + Len(v)  BY ConcatProperties
  <2>2. Len(u) \in Nat /\ Len(v) \in Nat /\ Len(u) # 0  BY EmptySeq
  <2>3. Len(u \o v) # 0  BY <2>1, <2>2
  <2> QED  BY <2>1, <2>3
<1>2. Len(s) \in Nat \ {0} /\ \A k \in 1..Len(s) : s[k] \in V  OBVIOUS
<1> HIDE DEF V
<1>3. FlattenSeq(s) \in V  BY <1>1, <1>2, FlattenIn
<1> QED  BY <1>3 DEF V

-----------------------------------------------------------------------------
(* Items, and what is in them. *)

D == Cardinality(Item)

LEMMA ItemTyped ==
    ASSUME NEW i \in Item
    PROVE  /\ KindOf(i) \in OptionKind \cup GroupKind
           /\ Printable[i].names \in Nat
           /\ ItemsOf(i) \in Seq(Item)
           /\ DOMAIN ItemsOf(i) = 1..Len(ItemsOf(i)) /\ Len(ItemsOf(i)) \in Nat
           /\ \A k \in DOMAIN ItemsOf(i) : ItemsOf(i)[k] \in ToSet(ItemsOf(i))
<1>1. Printable[i] \in [kind : OptionKind \cup GroupKind, names : Nat, items : Seq(Item)]
      BY PrintableType
<1> QED  BY <1>1 DEF KindOf, ItemsOf, ToSet

\* What is in a list of items is an item, and less deep than the list's owner.
LEMMA Deeper ==
    /\ D \in Nat /\ Depth \in [Item -> 0..D]
    /\ \A i \in Item : \A j \in ToSet(ItemsOf(i)) :
          j \in Item /\ Depth[j] < Depth[i] /\ j \notin {DefaultHelp, Placeholder}
<1>1. D \in Nat /\ Depth \in [Item -> 0..D]  BY DepthType, FS_CardinalityType DEF D
<1>2. ASSUME NEW i \in Item, NEW j \in ToSet(ItemsOf(i))
      PROVE  j \in Item /\ Depth[j] < Depth[i] /\ j \notin {DefaultHelp, Placeholder}
  <2>1. j \in Item  BY ItemTyped DEF ToSet
  <2> QED  BY <2>1, DepthType DEF ItemsOf
<1> QED  BY <1>1, <1>2

\* A list made of the lists of an item's items.
Each(g, i) == [k \in DOMAIN ItemsOf(i) |-> g[ItemsOf(i)[k]]]

LEMMA EachTyped ==
    ASSUME NEW i \in Item, NEW T, NEW g, \A j \in ToSet(ItemsOf(i)) : g[j] \in Seq(T)
    PROVE  /\ Each(g, i) \in Seq(Seq(T)) /\ Len(Each(g, i)) = Len(ItemsOf(i))
           /\ FlattenSeq(Each(g, i)) \in Seq(T)
<1>1. /\ DOMAIN ItemsOf(i) = 1..Len(ItemsOf(i)) /\ Len(ItemsOf(i)) \in Nat
      /\ \A k \in DOMAIN ItemsOf(i) : g[ItemsOf(i)[k]] \in Seq(T)
      BY ItemTyped
<1>2. Each(g, i) \in Seq(Seq(T)) /\ Len(Each(g, i)) = Len(ItemsOf(i))
      BY <1>1 DEF Each
<1> QED  BY <1>2, FlattenTyped

LEMMA EachSame ==
    ASSUME NEW i \in Item, NEW g, NEW h,
           \A j \in Item : Depth[j] < Depth[i] => g[j] = h[j]
    PROVE  Each(g, i) = Each(h, i)
<1>1. \A k \in DOMAIN ItemsOf(i) : g[ItemsOf(i)[k]] = h[ItemsOf(i)[k]]
      BY ItemTyped, Deeper
<1> QED  BY <1>1 DEF Each

\* Of the items that have some property, one is less deep than none.
LEMMA LeastDeep ==
    ASSUME NEW S \in SUBSET Item, S # {}
    PROVE  \E i \in S : \A j \in S : ~(Depth[j] < Depth[i])
BY Deeper, Shallowest

-----------------------------------------------------------------------------
(* Under. *)

UnderBody(g, i) ==
    {i} \cup (IF KindOf(i) = "command" THEN {} ELSE UNION {g[j] : j \in ToSet(ItemsOf(i))})
IsUnder(g) == g = [i \in Item |-> UnderBody(g, i)]

LEMMA UnderExists == \E g : IsUnder(g)
<1> DEFINE V == SUBSET Item
           B == [p \in Item \X [Item -> V] |-> UnderBody(p[2], p[1])]
<1>1. ASSUME NEW i \in Item, NEW g \in [Item -> V]  PROVE UnderBody(g, i) \in V
      BY Deeper DEF UnderBody
<1>2. \A i \in Item : \A g \in [Item -> V] : B[<<i, g>>] = UnderBody(g, i)  OBVIOUS
<1>3. B \in [Item \X [Item -> V] -> V]  BY <1>1
<1>4. Local(B, Item, V, Depth)
  <2> SUFFICES ASSUME NEW i \in Item, NEW g \in [Item -> V], NEW h \in [Item -> V],
                      \A j \in Item : Depth[j] < Depth[i] => g[j] = h[j]
               PROVE  B[<<i, g>>] = B[<<i, h>>]
      BY DEF Local
  <2>1. \A j \in ToSet(ItemsOf(i)) : g[j] = h[j]  BY Deeper
  <2>2. UnderBody(g, i) = UnderBody(h, i)  BY <2>1 DEF UnderBody
  <2> QED  BY <1>2, <2>2
<1>5. PICK f \in [Item -> V] : Solution(f, B, Item)
  <2>1. V # {}  OBVIOUS
  <2> HIDE DEF V, B
  <2> QED  BY <2>1, <1>3, <1>4, Deeper, Recursion
<1>6. \A i \in Item : f[i] = UnderBody(f, i)  BY <1>2, <1>5 DEF Solution
<1>7. f = [i \in Item |-> f[i]]  OBVIOUS
<1>8. f = [i \in Item |-> UnderBody(f, i)]  BY <1>6, <1>7
<1> QED  BY <1>8 DEF IsUnder

LEMMA UnderIs == \A i \in Item : Under[i] = UnderBody(Under, i)
<1>1. Under = CHOOSE g : IsUnder(g)  BY DEF Under, IsUnder, UnderBody
<1>2. IsUnder(Under)  BY <1>1, UnderExists
<1> QED  BY <1>2 DEF IsUnder

\* Everything in an item is an item and no deeper, and nothing that the help adds.
LEMMA UnderTyped ==
    ASSUME NEW i \in Item
    PROVE  /\ \A j \in Under[i] : j \in Item /\ Depth[j] <= Depth[i]
           /\ \A j \in Under[i] : j # i => j \notin {DefaultHelp, Placeholder}
<1> DEFINE Good(k) == \A j \in Under[k] : /\ j \in Item /\ Depth[j] <= Depth[k]
                                          /\ j # k => j \notin {DefaultHelp, Placeholder}
           bad == {k \in Item : ~Good(k)}
<1>1. bad = {}
  <2> SUFFICES ASSUME bad # {}  PROVE FALSE  OBVIOUS
  <2>1. PICK k \in bad : \A j \in bad : ~(Depth[j] < Depth[k])
    <3>1. bad \in SUBSET Item  OBVIOUS
    <3> HIDE DEF bad
    <3> QED  BY <3>1, LeastDeep
  <2>2. ASSUME NEW j \in Under[k]
        PROVE  /\ j \in Item /\ Depth[j] <= Depth[k]
               /\ j # k => j \notin {DefaultHelp, Placeholder}
    <3>1. j = k \/ \E l \in ToSet(ItemsOf(k)) : j \in Under[l]  BY UnderIs DEF UnderBody
    <3>2. Depth[k] \in Nat  BY Deeper
    <3>3. CASE j = k  BY <3>2, <3>3
    <3>4. CASE j # k
      <4>1. PICK l \in ToSet(ItemsOf(k)) : j \in Under[l]  BY <3>1, <3>4
      <4>2. l \in Item /\ Depth[l] < Depth[k] /\ l \notin {DefaultHelp, Placeholder}
            BY Deeper
      <4>3. Good(l)  BY <2>1, <4>2
      <4>4. /\ j \in Item /\ Depth[j] <= Depth[l]
            /\ j # l => j \notin {DefaultHelp, Placeholder}
            BY <4>1, <4>3
      <4>5. Depth[j] \in Nat /\ Depth[l] \in Nat  BY <4>2, <4>4, Deeper
      <4>6. Depth[j] <= Depth[k]  BY <3>2, <4>2, <4>4, <4>5
      <4> QED  BY <4>2, <4>4, <4>6
    <3> QED  BY <3>3, <3>4
  <2> QED  BY <2>2
<1> QED  BY <1>1

-----------------------------------------------------------------------------
(* Flattened and InSynopsis. *)

LEMMA SeqInSeq ==
    ASSUME NEW S, NEW T, S \subseteq T, NEW s \in Seq(S)
    PROVE  s \in Seq(T)
OBVIOUS

LEMMA One ==
    ASSUME NEW T, NEW x \in T
    PROVE  <<x>> \in Seq(T) /\ << >> \in Seq(T) /\ <<x>> # << >>
OBVIOUS

FlattenedBody(g, i) == IF KindOf(i) = "group" THEN FlattenSeq(Each(g, i)) ELSE <<i>>
IsFlattened(g) == g = [i \in Item |-> FlattenedBody(g, i)]

LEMMA FlattenedExists == \E g : IsFlattened(g)
<1> DEFINE V == Seq(Item)
           B == [p \in Item \X [Item -> V] |-> FlattenedBody(p[2], p[1])]
<1>1. ASSUME NEW i \in Item, NEW g \in [Item -> V]  PROVE FlattenedBody(g, i) \in V
  <2>1. \A j \in ToSet(ItemsOf(i)) : g[j] \in Seq(Item)  BY Deeper
  <2>2. FlattenSeq(Each(g, i)) \in Seq(Item)  BY <2>1, EachTyped
  <2> QED  BY <2>2, One DEF FlattenedBody
<1>2. \A i \in Item : \A g \in [Item -> V] : B[<<i, g>>] = FlattenedBody(g, i)  OBVIOUS
<1>3. B \in [Item \X [Item -> V] -> V]  BY <1>1
<1>4. Local(B, Item, V, Depth)
  <2> SUFFICES ASSUME NEW i \in Item, NEW g \in [Item -> V], NEW h \in [Item -> V],
                      \A j \in Item : Depth[j] < Depth[i] => g[j] = h[j]
               PROVE  B[<<i, g>>] = B[<<i, h>>]
      BY DEF Local
  <2>1. FlattenedBody(g, i) = FlattenedBody(h, i)  BY EachSame DEF FlattenedBody
  <2> QED  BY <1>2, <2>1
<1>5. PICK f \in [Item -> V] : Solution(f, B, Item)
  <2>1. V # {}  BY EmptySeq
  <2> HIDE DEF V, B
  <2> QED  BY <2>1, <1>3, <1>4, Deeper, Recursion
<1>6. \A i \in Item : f[i] = FlattenedBody(f, i)  BY <1>2, <1>5 DEF Solution
<1>7. f = [i \in Item |-> f[i]]  OBVIOUS
<1>8. f = [i \in Item |-> FlattenedBody(f, i)]  BY <1>6, <1>7
<1> QED  BY <1>8 DEF IsFlattened

LEMMA FlattenedIs == \A i \in Item : Flattened[i] = FlattenedBody(Flattened, i)
<1>1. Flattened = CHOOSE g : IsFlattened(g)
      BY DEF Flattened, IsFlattened, FlattenedBody, Each
<1>2. IsFlattened(Flattened)  BY <1>1, FlattenedExists
<1> QED  BY <1>2 DEF IsFlattened

LEMMA FlattenedTyped == \A i \in Item : Flattened[i] \in Seq(Item)
<1> DEFINE bad == {k \in Item : Flattened[k] \notin Seq(Item)}
<1> SUFFICES ASSUME bad # {}  PROVE FALSE  OBVIOUS
<1>1. PICK k \in bad : \A j \in bad : ~(Depth[j] < Depth[k])
  <2>1. bad \in SUBSET Item  OBVIOUS
  <2> HIDE DEF bad
  <2> QED  BY <2>1, LeastDeep
<1>2. \A j \in ToSet(ItemsOf(k)) : Flattened[j] \in Seq(Item)  BY <1>1, Deeper
<1>3. FlattenSeq(Each(Flattened, k)) \in Seq(Item)  BY <1>2, EachTyped
<1>4. Flattened[k] \in Seq(Item)  BY <1>3, One, FlattenedIs DEF FlattenedBody
<1> QED  BY <1>4

\* What a group holds, or a command, is items.
LEMMA ContentsTyped ==
    ASSUME NEW c \in Item
    PROVE  Contents(c) \in Seq(Item)
<1>1. \A j \in ToSet(ItemsOf(c)) : Flattened[j] \in Seq(Item)  BY FlattenedTyped, Deeper
<1> QED  BY <1>1, EachTyped DEF Contents, Each

SynopsisBody(g, i) ==
    IF ~IsGroup(i) THEN <<i>>
    ELSE IF KindOf(i) = "command" THEN << >> ELSE FlattenSeq(Each(g, i))
IsSynopsis(g) == g = [i \in Item |-> SynopsisBody(g, i)]

LEMMA SynopsisExists == \E g : IsSynopsis(g)
<1> DEFINE V == Seq(Item)
           B == [p \in Item \X [Item -> V] |-> SynopsisBody(p[2], p[1])]
<1>1. ASSUME NEW i \in Item, NEW g \in [Item -> V]  PROVE SynopsisBody(g, i) \in V
  <2>1. \A j \in ToSet(ItemsOf(i)) : g[j] \in Seq(Item)  BY Deeper
  <2>2. FlattenSeq(Each(g, i)) \in Seq(Item)  BY <2>1, EachTyped
  <2> QED  BY <2>2, One DEF SynopsisBody
<1>2. \A i \in Item : \A g \in [Item -> V] : B[<<i, g>>] = SynopsisBody(g, i)  OBVIOUS
<1>3. B \in [Item \X [Item -> V] -> V]  BY <1>1
<1>4. Local(B, Item, V, Depth)
  <2> SUFFICES ASSUME NEW i \in Item, NEW g \in [Item -> V], NEW h \in [Item -> V],
                      \A j \in Item : Depth[j] < Depth[i] => g[j] = h[j]
               PROVE  B[<<i, g>>] = B[<<i, h>>]
      BY DEF Local
  <2>1. SynopsisBody(g, i) = SynopsisBody(h, i)  BY EachSame DEF SynopsisBody
  <2> QED  BY <1>2, <2>1
<1>5. PICK f \in [Item -> V] : Solution(f, B, Item)
  <2>1. V # {}  BY EmptySeq
  <2> HIDE DEF V, B
  <2> QED  BY <2>1, <1>3, <1>4, Deeper, Recursion
<1>6. \A i \in Item : f[i] = SynopsisBody(f, i)  BY <1>2, <1>5 DEF Solution
<1>7. f = [i \in Item |-> f[i]]  OBVIOUS
<1>8. f = [i \in Item |-> SynopsisBody(f, i)]  BY <1>6, <1>7
<1> QED  BY <1>8 DEF IsSynopsis

LEMMA SynopsisIs == \A i \in Item : InSynopsis[i] = SynopsisBody(InSynopsis, i)
<1>1. InSynopsis = CHOOSE g : IsSynopsis(g)
      BY DEF InSynopsis, IsSynopsis, SynopsisBody, Each
<1>2. IsSynopsis(InSynopsis)  BY <1>1, SynopsisExists
<1> QED  BY <1>2 DEF IsSynopsis

\* The options in an item, without its groups.
OptionsUnder(i) == {j \in Under[i] : ~IsGroup(j)}

\* The synopsis of an item names options that it has.
LEMMA SynopsisTyped == \A i \in Item : InSynopsis[i] \in Seq(OptionsUnder(i))
<1> DEFINE bad == {k \in Item : InSynopsis[k] \notin Seq(OptionsUnder(k))}
<1> SUFFICES ASSUME bad # {}  PROVE FALSE  OBVIOUS
<1>1. PICK k \in bad : \A j \in bad : ~(Depth[j] < Depth[k])
  <2>1. bad \in SUBSET Item  OBVIOUS
  <2> HIDE DEF bad
  <2> QED  BY <2>1, LeastDeep
<1>2. Under[k] = UnderBody(Under, k) /\ InSynopsis[k] = SynopsisBody(InSynopsis, k)
      BY UnderIs, SynopsisIs
<1>3. CASE ~IsGroup(k)
  <2>1. k \in OptionsUnder(k)  BY <1>2, <1>3 DEF OptionsUnder, UnderBody
  <2> QED  BY <1>2, <1>3, <2>1, One DEF SynopsisBody
<1>4. CASE IsGroup(k) /\ KindOf(k) = "command"
      BY <1>2, <1>4, EmptySeq DEF SynopsisBody
<1>5. CASE IsGroup(k) /\ KindOf(k) # "command"
  <2>1. ASSUME NEW j \in ToSet(ItemsOf(k))  PROVE InSynopsis[j] \in Seq(OptionsUnder(k))
    <3>1. j \in Item /\ Depth[j] < Depth[k]  BY Deeper
    <3>2. InSynopsis[j] \in Seq(OptionsUnder(j))  BY <1>1, <3>1
    <3>3. OptionsUnder(j) \subseteq OptionsUnder(k)
          BY <1>2, <1>5 DEF OptionsUnder, UnderBody
    <3> QED  BY <3>2, <3>3, SeqInSeq
  <2>2. FlattenSeq(Each(InSynopsis, k)) \in Seq(OptionsUnder(k))  BY <2>1, EachTyped
  <2> QED  BY <1>2, <1>5, <2>2 DEF SynopsisBody
<1> QED  BY <1>3, <1>4, <1>5

LEMMA SynopsisOfTyped ==
    ASSUME NEW c \in Item
    PROVE  SynopsisOf(c) \in Seq({j \in Contained(c) : ~IsGroup(j)})
<1> DEFINE T == {j \in Contained(c) : ~IsGroup(j)}
<1>1. ASSUME NEW j \in ToSet(ItemsOf(c))  PROVE InSynopsis[j] \in Seq(T)
  <2>1. InSynopsis[j] \in Seq(OptionsUnder(j))  BY SynopsisTyped, Deeper
  <2>2. OptionsUnder(j) \subseteq T  BY DEF OptionsUnder, Contained
  <2> HIDE DEF T
  <2> QED  BY <2>1, <2>2, SeqInSeq
<1> HIDE DEF T
<1>2. FlattenSeq(Each(InSynopsis, c)) \in Seq(T)  BY <1>1, EachTyped
<1> QED  BY <1>2 DEF T, SynopsisOf, Each

LEMMA ContainedTyped ==
    ASSUME NEW i \in Item, NEW j \in Contained(i)
    PROVE  j \in Item /\ Depth[j] < Depth[i] /\ j \notin {DefaultHelp, Placeholder}
<1>1. PICK l \in ToSet(ItemsOf(i)) : j \in Under[l]  BY DEF Contained
<1>2. l \in Item /\ Depth[l] < Depth[i] /\ l \notin {DefaultHelp, Placeholder}  BY Deeper
<1>3. j \in Item /\ Depth[j] <= Depth[l] /\ (j # l => j \notin {DefaultHelp, Placeholder})
      BY <1>1, <1>2, UnderTyped
<1>4. Depth[i] \in Nat /\ Depth[j] \in Nat /\ Depth[l] \in Nat  BY <1>2, <1>3, Deeper
<1> QED  BY <1>2, <1>3, <1>4

\* An exclusive group has options, and so have the groups in it.
LEMMA ExclusiveHasOptions ==
    ASSUME NEW e \in Item, KindOf(e) = "exclusive"
    PROVE  InSynopsis[e] # << >>
<1> DEFINE Plain(k) == /\ KindOf(k) \in OptionKind \cup {"group", "exclusive"}
                       /\ \A j \in Under[k] \ {k} : KindOf(j) \in OptionKind \cup {"group"}
           bad == {k \in Item : Plain(k) /\ InSynopsis[k] = << >>}
<1>1. bad = {}
  <2> SUFFICES ASSUME bad # {}  PROVE FALSE  OBVIOUS
  <2>1. PICK k \in bad : \A j \in bad : ~(Depth[j] < Depth[k])
    <3>1. bad \in SUBSET Item  OBVIOUS
    <3> HIDE DEF bad
    <3> QED  BY <3>1, LeastDeep
  <2>2. k \in Item /\ Plain(k) /\ InSynopsis[k] = << >>  OBVIOUS
  <2>3. IsGroup(k)
    <3>1. ~IsGroup(k) => InSynopsis[k] = <<k>>  BY <2>2, SynopsisIs DEF SynopsisBody
    <3> QED  BY <2>2, <3>1, One
  <2>4. KindOf(k) \in {"group", "exclusive"}
        BY <2>2, <2>3 DEF IsGroup, GroupKind, OptionKind
  <2>5. InSynopsis[k] = FlattenSeq(Each(InSynopsis, k))
        BY <2>2, <2>3, <2>4, SynopsisIs DEF SynopsisBody
  <2>6. ASSUME NEW j \in ToSet(ItemsOf(k))  PROVE InSynopsis[j] # << >>
    <3>1. j \in Item /\ Depth[j] < Depth[k]  BY <2>2, Deeper
    <3>2. Under[j] \subseteq Under[k] /\ j \in Under[j]
          BY <2>2, <2>4, <3>1, UnderIs DEF UnderBody
    <3>3. \A l \in Under[j] : l # k
      <4>1. \A l \in Under[j] : Depth[l] <= Depth[j] /\ Depth[l] \in Nat
            BY <3>1, UnderTyped, Deeper
      <4>2. Depth[j] \in Nat /\ Depth[k] \in Nat  BY <2>2, <3>1, Deeper
      <4> QED  BY <3>1, <4>1, <4>2
    <3>4. Plain(j)  BY <2>2, <3>2, <3>3
    <3> QED  BY <2>1, <3>1, <3>4
  <2>7. ItemsOf(k) # << >> /\ Len(ItemsOf(k)) # 0
    <3>1. ItemsOf(k) # << >>  BY <2>2, <2>4, ExclusiveType
    <3>2. ItemsOf(k) \in Seq(Item)  BY <2>2, ItemTyped
    <3> QED  BY <3>1, <3>2, EmptySeq
  <2>8. \A j \in ToSet(ItemsOf(k)) : InSynopsis[j] \in Seq(Item)
    <3>1. ASSUME NEW j \in ToSet(ItemsOf(k))  PROVE InSynopsis[j] \in Seq(Item)
      <4>1. j \in Item  BY <2>2, Deeper
      <4>2. OptionsUnder(j) \subseteq Item  BY <4>1, UnderTyped DEF OptionsUnder
      <4> QED  BY <4>1, <4>2, SynopsisTyped, SeqInSeq
    <3> QED  BY <3>1
  <2>9. /\ Each(InSynopsis, k) \in Seq(Seq(Item))
        /\ Len(Each(InSynopsis, k)) = Len(ItemsOf(k))
        BY <2>2, <2>8, EachTyped
  <2>10. Each(InSynopsis, k) # << >>  BY <2>7, <2>9, EmptySeq
  <2>11. \A n \in 1..Len(Each(InSynopsis, k)) : Each(InSynopsis, k)[n] # << >>
         BY <2>2, <2>6, <2>9, ItemTyped DEF Each
  <2> QED  BY <2>2, <2>5, <2>9, <2>10, <2>11, FlattenNotEmpty
<1>2. Plain(e)  BY ExclusiveType
<1> QED  BY <1>1, <1>2

-----------------------------------------------------------------------------
(* The width of names. *)

\* NamesWidth, up to each of the names.
WidthBody(g, items, gap, k) == IF k = 0 THEN 0 ELSE g[k - 1] + gap + Printable[items[k]].names
IsWidths(g, items, gap) == g = [k \in 0..Len(items) |-> WidthBody(g, items, gap, k)]

LEMMA WidthsExist ==
    ASSUME NEW items \in Seq(Item), NEW gap \in Nat
    PROVE  \E g : IsWidths(g, items, gap)
<1> DEFINE I == 0..Len(items)
           d == [k \in I |-> k]
           B == [p \in I \X [I -> Nat] |-> WidthBody(p[2], items, gap, p[1])]
<1>0. Len(items) \in Nat  OBVIOUS
<1>1. d \in [I -> 0..Len(items)]  OBVIOUS
<1>2. ASSUME NEW k \in I, NEW g \in [I -> Nat]  PROVE WidthBody(g, items, gap, k) \in Nat
  <2>1. CASE k = 0  BY <2>1 DEF WidthBody
  <2>2. CASE k # 0
    <3>1. k - 1 \in I /\ items[k] \in Item  BY <2>2, <1>0
    <3>2. g[k - 1] \in Nat /\ Printable[items[k]].names \in Nat  BY <3>1, ItemTyped
    <3> QED  BY <2>2, <3>2 DEF WidthBody
  <2> QED  BY <2>1, <2>2
<1>3. \A k \in I : \A g \in [I -> Nat] : B[<<k, g>>] = WidthBody(g, items, gap, k)  OBVIOUS
<1>4. B \in [I \X [I -> Nat] -> Nat]  BY <1>2
<1>5. Local(B, I, Nat, d)
  <2> SUFFICES ASSUME NEW k \in I, NEW g \in [I -> Nat], NEW h \in [I -> Nat],
                      \A j \in I : d[j] < d[k] => g[j] = h[j]
               PROVE  B[<<k, g>>] = B[<<k, h>>]
      BY DEF Local
  <2>1. k # 0 => k - 1 \in I /\ d[k - 1] < d[k]  BY <1>0
  <2>2. WidthBody(g, items, gap, k) = WidthBody(h, items, gap, k)  BY <2>1 DEF WidthBody
  <2> QED  BY <1>3, <2>2
<1>6. PICK f \in [I -> Nat] : Solution(f, B, I)
  <2> HIDE DEF I, d, B
  <2> QED  BY <1>0, <1>1, <1>4, <1>5, Recursion
<1>7. \A k \in I : f[k] = WidthBody(f, items, gap, k)  BY <1>3, <1>6 DEF Solution
<1>8. f = [k \in I |-> f[k]]  OBVIOUS
<1>9. f = [k \in I |-> WidthBody(f, items, gap, k)]  BY <1>7, <1>8
<1> QED  BY <1>9 DEF IsWidths

LEMMA NamesWidthTyped ==
    ASSUME NEW items \in Seq(Item), NEW gap \in Nat
    PROVE  /\ NamesWidth(items, gap) \in Nat
           /\ items # << >> => gap <= NamesWidth(items, gap)
<1> DEFINE n == Len(items)
           g == CHOOSE h : IsWidths(h, items, gap)
<1>1. IsWidths(g, items, gap)  BY WidthsExist
<1>2. NamesWidth(items, gap) = g[n]  BY DEF NamesWidth, IsWidths, WidthBody
<1> HIDE DEF g
<1>3. \A k \in 0..n : g[k] = WidthBody(g, items, gap, k)  BY <1>1 DEF IsWidths
<1>4. n \in Nat  OBVIOUS
<1> DEFINE bad == {k \in 0..n : g[k] \notin Nat}
<1>5. ASSUME NEW k \in 1..n, g[k - 1] \in Nat  PROVE g[k] \in Nat /\ gap <= g[k]
  <2>1. g[k] = g[k - 1] + gap + Printable[items[k]].names  BY <1>3, <1>4 DEF WidthBody
  <2>2. Printable[items[k]].names \in Nat  BY ItemTyped
  <2> QED  BY <2>1, <2>2, <1>5
<1>6. bad = {}
  <2> SUFFICES ASSUME bad # {}  PROVE FALSE  OBVIOUS
  <2>1. PICK k \in bad : \A j \in bad : k <= j
    <3>1. bad \in SUBSET Nat  BY <1>4
    <3> HIDE DEF bad
    <3> QED  BY <3>1, Least
  <2>2. k # 0  BY <1>3, <1>4 DEF WidthBody
  <2>3. k \in 1..n /\ k - 1 \in 0..n /\ ~(k <= k - 1)  BY <1>4, <2>2
  <2>4. g[k - 1] \in Nat  BY <2>1, <2>3
  <2> QED  BY <1>5, <2>3, <2>4
<1>7. g[n] \in Nat  BY <1>4, <1>6
<1>8. ASSUME items # << >>  PROVE gap <= g[n]
  <2>1. n # 0  BY <1>8, EmptySeq
  <2>2. n \in 1..n /\ n - 1 \in 0..n  BY <1>4, <2>1
  <2> QED  BY <1>5, <1>6, <2>2
<1> QED  BY <1>2, <1>7, <1>8

\* A row has the width of a name at least.
LEMMA RowWidthTyped ==
    ASSUME NEW i \in Item
    PROVE  RowWidth(i) \in Nat /\ RowWidth(i) >= 2
<1> DEFINE items == IF KindOf(i) = "exclusive" THEN InSynopsis[i] ELSE <<i>>
<1>1. items \in Seq(Item) /\ items # << >>
  <2>1. OptionsUnder(i) \subseteq Item  BY UnderTyped DEF OptionsUnder
  <2>2. InSynopsis[i] \in Seq(Item)  BY <2>1, SynopsisTyped, SeqInSeq
  <2> QED  BY <2>2, ExclusiveHasOptions, One
<1> HIDE DEF items
<1>2. NamesWidth(items, 2) \in Nat /\ 2 <= NamesWidth(items, 2)
      BY <1>1, NamesWidthTyped
<1> QED  BY <1>2 DEF RowWidth, items

-----------------------------------------------------------------------------
(* The contexts. *)

PathsBody(g, i) ==
    {<<i>>} \cup UNION {{<<i>> \o path : path \in g[j]} :
                           j \in {c \in Contained(i) : KindOf(c) = "command"}}
IsPaths(g) == g = [i \in Item |-> PathsBody(g, i)]

\* Sequences of items, which are not empty.
Paths == {path \in Seq(Item) : path # << >>}

LEMMA PathsStep ==
    ASSUME NEW i \in Item, NEW g, \A j \in Item : Depth[j] < Depth[i] => g[j] \subseteq Paths
    PROVE  PathsBody(g, i) \subseteq Paths
<1> SUFFICES ASSUME NEW p \in PathsBody(g, i)  PROVE p \in Paths  OBVIOUS
<1>1. CASE p = <<i>>  BY <1>1, One DEF Paths
<1>2. CASE p # <<i>>
  <2>1. PICK j \in Contained(i) : \E path \in g[j] : p = <<i>> \o path
        BY <1>2 DEF PathsBody
  <2>2. j \in Item /\ Depth[j] < Depth[i]  BY ContainedTyped
  <2>3. PICK path \in Paths : p = <<i>> \o path  BY <2>1, <2>2
  <2>4. path \in Seq(Item) /\ <<i>> \in Seq(Item) /\ Len(<<i>>) = 1  BY <2>3 DEF Paths
  <2>5. p \in Seq(Item) /\ Len(p) = 1 + Len(path) /\ Len(path) \in Nat
        BY <2>3, <2>4, ConcatProperties
  <2> QED  BY <2>5, EmptySeq DEF Paths
<1> QED  BY <1>1, <1>2

LEMMA PathsExist == \E g : IsPaths(g)
<1> DEFINE V == SUBSET Paths
           B == [p \in Item \X [Item -> V] |-> PathsBody(p[2], p[1])]
<1>1. ASSUME NEW i \in Item, NEW g \in [Item -> V]  PROVE PathsBody(g, i) \in V
      BY PathsStep
<1>2. \A i \in Item : \A g \in [Item -> V] : B[<<i, g>>] = PathsBody(g, i)  OBVIOUS
<1>3. B \in [Item \X [Item -> V] -> V]  BY <1>1
<1>4. Local(B, Item, V, Depth)
  <2> SUFFICES ASSUME NEW i \in Item, NEW g \in [Item -> V], NEW h \in [Item -> V],
                      \A j \in Item : Depth[j] < Depth[i] => g[j] = h[j]
               PROVE  B[<<i, g>>] = B[<<i, h>>]
      BY DEF Local
  <2>1. \A j \in Contained(i) : g[j] = h[j]  BY ContainedTyped
  <2>2. PathsBody(g, i) = PathsBody(h, i)  BY <2>1 DEF PathsBody
  <2> QED  BY <1>2, <2>2
<1>5. PICK f \in [Item -> V] : Solution(f, B, Item)
  <2>1. V # {}  OBVIOUS
  <2> HIDE DEF V, B
  <2> QED  BY <2>1, <1>3, <1>4, Deeper, Recursion
<1>6. \A i \in Item : f[i] = PathsBody(f, i)  BY <1>2, <1>5 DEF Solution
<1>7. f = [i \in Item |-> f[i]]  OBVIOUS
<1>8. f = [i \in Item |-> PathsBody(f, i)]  BY <1>6, <1>7
<1> QED  BY <1>8 DEF IsPaths

LEMMA PathsTyped == \A i \in Item : PathsFrom[i] \subseteq Paths
<1>1. PathsFrom = CHOOSE g : IsPaths(g)  BY DEF PathsFrom, IsPaths, PathsBody
<1>2. IsPaths(PathsFrom)  BY <1>1, PathsExist
<1>3. \A i \in Item : PathsFrom[i] = PathsBody(PathsFrom, i)  BY <1>2 DEF IsPaths
<1> DEFINE bad == {i \in Item : ~(PathsFrom[i] \subseteq Paths)}
<1> SUFFICES ASSUME bad # {}  PROVE FALSE  OBVIOUS
<1>4. PICK k \in bad : \A j \in bad : ~(Depth[j] < Depth[k])
  <2>1. bad \in SUBSET Item  OBVIOUS
  <2> HIDE DEF bad
  <2> QED  BY <2>1, LeastDeep
<1>5. \A j \in Item : Depth[j] < Depth[k] => PathsFrom[j] \subseteq Paths  BY <1>4
<1>6. PathsBody(PathsFrom, k) \subseteq Paths  BY <1>5, PathsStep
<1> QED  BY <1>3, <1>6

-----------------------------------------------------------------------------
(* What a behaviour is of. *)

ConfigOK ==
    /\ program \in Item
    /\ contexts \in Seq(Item)
    /\ \A i \in Accepted \cup {DefaultHelp} : width[i] \in Nat

LEMMA SameConfig ==
    ASSUME UNCHANGED <<program, contexts, width>>
    PROVE  /\ IsLeaf' = IsLeaf /\ Described' = Described /\ Accepted' = Accepted
           /\ ProgramEnd' = ProgramEnd
           /\ ConfigOK => ConfigOK'
           /\ \A i : WidthOf(i)' = WidthOf(i)
<1>1. IsLeaf' = IsLeaf  BY DEF IsLeaf
<1>2. Described' = Described  BY <1>1 DEF Described
<1>3. Accepted' = Accepted  BY <1>2 DEF Accepted
<1>4. ProgramEnd' = ProgramEnd  BY DEF ProgramEnd
<1>5. ConfigOK => ConfigOK'  BY <1>3 DEF ConfigOK
<1>6. \A i : WidthOf(i)' = WidthOf(i)  BY DEF WidthOf
<1> QED  BY <1>1, <1>2, <1>3, <1>4, <1>5, <1>6

LEMMA DescribedItems ==
    ASSUME program \in Item, contexts \in Seq(Item)
    PROVE  Described \in Seq(Item) /\ DOMAIN Described = 1..Len(Described)
<1>1. contexts # << >> => Last(contexts) \in Item
  <2>1. contexts # << >> => Len(contexts) \in 1..Len(contexts)  BY EmptySeq
  <2> QED  BY <2>1 DEF Last
<1>2. Described \in Seq(Item)  BY <1>1, One DEF Described
<1> QED  BY <1>2

LEMMA DescribedTyped ==
    ASSUME ConfigOK
    PROVE  Described \in Seq(Item) /\ DOMAIN Described = 1..Len(Described)
BY DescribedItems DEF ConfigOK

\* What the described contexts accept is options, and not the text COMMAND.
LEMMA AcceptedTyped ==
    ASSUME ConfigOK, NEW i \in Accepted
    PROVE  i \in Item /\ ~IsGroup(i) /\ i # Placeholder /\ width[i] \in Nat
           /\ WidthOf(i) = width[i]
<1>1. PICK k \in DOMAIN Described : i \in Contained(Described[k])  BY DEF Accepted
<1>2. Described[k] \in Item  BY <1>1, DescribedTyped
<1>3. i \in Item /\ i # Placeholder  BY <1>1, <1>2, ContainedTyped
<1>4. ~IsGroup(i) /\ width[i] \in Nat  BY DEF Accepted, ConfigOK
<1> QED  BY <1>3, <1>4 DEF WidthOf

LEMMA ProgramEndTyped ==
    ASSUME ConfigOK
    PROVE  ProgramEnd \in Nat /\ UsageWidth \in Nat /\ UsageWidth <= ProgramEnd
<1>1. UsageWidth \in Nat  BY PrintableType
<1>2. Printable[program].names \in Nat  BY ItemTyped DEF ConfigOK
<1>3. contexts # << >> => NamesWidth(Tail(contexts), 1) \in Nat
  <2>1. contexts # << >> => Tail(contexts) \in Seq(Item)  BY DEF ConfigOK
  <2> QED  BY <2>1, NamesWidthTyped
<1> DEFINE names == Printable[program].names
           rest == IF contexts = << >> THEN 0 ELSE NamesWidth(Tail(contexts), 1)
<1>4. names \in Nat /\ rest \in Nat  BY <1>2, <1>3
<1>5. ProgramEnd = UsageWidth + 1 + names + rest  BY DEF ProgramEnd
<1> HIDE DEF names, rest
<1> QED  BY <1>1, <1>4, <1>5

\* The two lists that the parts of the help are made from.
LEMMA SynopsisListTyped ==
    ASSUME ConfigOK
    PROVE  FlattenSeq([k \in DOMAIN Described |-> SynopsisOf(Described[k])]) \in Seq(Accepted)
<1> DEFINE s == [k \in DOMAIN Described |-> SynopsisOf(Described[k])]
<1>1. ASSUME NEW k \in 1..Len(Described)  PROVE s[k] \in Seq(Accepted)
  <2>1. Described[k] \in Item /\ k \in DOMAIN Described  BY DescribedTyped
  <2>2. {j \in Contained(Described[k]) : ~IsGroup(j)} \subseteq Accepted
        BY <2>1 DEF Accepted
  <2>3. SynopsisOf(Described[k]) \in Seq(Accepted)
        BY <2>1, <2>2, SynopsisOfTyped, SeqInSeq
  <2> QED  BY <2>1, <2>3
<1>2. s = [k \in 1..Len(Described) |-> s[k]] /\ Len(Described) \in Nat  BY DescribedTyped
<1> HIDE DEF s
<1>3. s \in Seq(Seq(Accepted))  BY <1>1, <1>2
<1>4. FlattenSeq(s) \in Seq(Accepted)  BY <1>3, FlattenTyped
<1> QED  BY <1>4 DEF s

ToCollect == FlattenSeq([k \in DOMAIN Described |-> Contents(Described[k])])

LEMMA CollectListTyped ==
    ASSUME ConfigOK
    PROVE  ToCollect \in Seq(Item)
<1> DEFINE s == [k \in DOMAIN Described |-> Contents(Described[k])]
<1>1. ASSUME NEW k \in 1..Len(Described)  PROVE s[k] \in Seq(Item)
  <2>1. Described[k] \in Item /\ k \in DOMAIN Described  BY DescribedTyped
  <2> QED  BY <2>1, ContentsTyped
<1>2. s = [k \in 1..Len(Described) |-> s[k]] /\ Len(Described) \in Nat  BY DescribedTyped
<1> HIDE DEF s
<1>3. s \in Seq(Seq(Item))  BY <1>1, <1>2
<1>4. FlattenSeq(s) \in Seq(Item)  BY <1>3, FlattenTyped
<1> QED  BY <1>4 DEF s, ToCollect

-----------------------------------------------------------------------------
(* The lines of the synopsis. *)

Line == [used : Nat, items : Seq(Item)]

\* By how much a line is wider than the code counts: the program's name on the
\* first one, and on another the item that broke the line before.
Slack(k) == IF k = 1 THEN ProgramEnd - first_column ELSE WidthOf(lines[k].items[1])

LinesOK ==
    /\ lines \in Seq(Line) /\ lines # << >>
    /\ first_column \in 0..ProgramEnd /\ column \in Nat
    /\ \A k \in 2..Len(lines) :
          lines[k].items # << >> /\ WidthOf(lines[k].items[1]) \in Nat
    /\ lines[Len(lines)].used = column + Slack(Len(lines))

LEMMA LineTyped ==
    ASSUME LinesOK, ConfigOK, NEW k \in 1..Len(lines)
    PROVE  /\ Len(lines) \in Nat \ {0}
           /\ lines[k].used \in Nat /\ lines[k].items \in Seq(Item) /\ Slack(k) \in Nat
<1>1. lines \in Seq(Line) /\ lines # << >>  BY DEF LinesOK
<1>2. Len(lines) \in Nat \ {0} /\ lines[k] \in Line  BY <1>1, EmptySeq
<1>3. first_column \in 0..ProgramEnd /\ ProgramEnd \in Nat
      BY ProgramEndTyped DEF LinesOK
<1>4. ProgramEnd - first_column \in Nat  BY <1>3
<1>5. k # 1 => WidthOf(lines[k].items[1]) \in Nat
  <2>1. k # 1 => k \in 2..Len(lines)  OBVIOUS
  <2> QED  BY <2>1 DEF LinesOK
<1> QED  BY <1>2, <1>4, <1>5 DEF Line, Slack

\* An item is on a line of its own, or at the end of the line before it.
Broken(i, w, indent) ==
    lines' = Append(lines, [used |-> indent + w, items |-> <<i>>]) /\ column' = indent
Continued(i, w) ==
    /\ lines' = [lines EXCEPT ![Len(lines)] =
                    [used |-> @.used + w, items |-> Append(@.items, i)]]
    /\ column' = column + w

LEMMA BrokenKeeps ==
    ASSUME LinesOK, ConfigOK, UNCHANGED <<program, contexts, width, first_column>>,
           NEW i \in Item, NEW indent \in Nat, WidthOf(i) \in Nat,
           Broken(i, WidthOf(i), indent)
    PROVE  /\ LinesOK'
           /\ Len(lines') = Len(lines) + 1
           /\ lines'[Len(lines')].used = indent + WidthOf(i)
           /\ Slack(Len(lines))' = WidthOf(i)
           /\ \A k \in 1..Len(lines) : lines'[k] = lines[k] /\ Slack(k)' = Slack(k)
<1> DEFINE line == [used |-> indent + WidthOf(i), items |-> <<i>>]
<1>0. PICK n \in Nat : n = Len(lines)  BY DEF LinesOK
<1>1. lines \in Seq(Line) /\ n \in Nat \ {0}  BY <1>0, EmptySeq DEF LinesOK
<1>2. line \in Line /\ line.items[1] = i /\ line.items # << >>
      /\ line.used = indent + WidthOf(i)
      BY One DEF Line
<1>3. lines' = Append(lines, line)  BY DEF Broken
<1> HIDE DEF line
<1>4. /\ lines' \in Seq(Line) /\ Len(lines') = n + 1 /\ lines'[n + 1] = line
      /\ \A k \in 1..n : lines'[k] = lines[k]
      BY <1>0, <1>1, <1>2, <1>3, AppendProperties
<1>5. lines' # << >>  BY <1>1, <1>4, EmptySeq
<1>6. \A j : WidthOf(j)' = WidthOf(j)  BY SameConfig
<1>7. ProgramEnd' = ProgramEnd /\ first_column' = first_column  BY SameConfig
<1>8. \A k \in 1..n : Slack(k)' = Slack(k)  BY <1>4, <1>6, <1>7 DEF Slack
<1>9. Slack(n + 1)' = WidthOf(i)
  <2>1. n + 1 # 1  BY <1>1
  <2> QED  BY <1>2, <1>4, <1>6, <2>1 DEF Slack
<1>10. ASSUME NEW k \in 2..Len(lines')
       PROVE  lines'[k].items # << >> /\ WidthOf(lines[k].items[1])' \in Nat
  <2>1. CASE k = n + 1  BY <2>1, <1>2, <1>4, <1>6
  <2>2. CASE k # n + 1
    <3>1. k \in 2..n /\ k \in 1..n /\ n = Len(lines)  BY <1>0, <1>1, <1>4, <2>2
    <3>2. lines[k].items # << >> /\ WidthOf(lines[k].items[1]) \in Nat
          BY <3>1 DEF LinesOK
    <3> QED  BY <3>1, <3>2, <1>4, <1>6
  <2> QED  BY <2>1, <2>2
<1>11. lines'[n + 1].used = indent + WidthOf(i) /\ column' = indent
       BY <1>2, <1>4 DEF Broken
<1>12. LinesOK'
  <2>1. lines'[Len(lines')].used = column' + Slack(Len(lines))'
        BY <1>4, <1>9, <1>11
  <2>2. first_column' \in 0..ProgramEnd' /\ column' \in Nat
        BY <1>7, <1>11 DEF LinesOK
  <2> QED  BY <1>4, <1>5, <1>10, <2>1, <2>2 DEF LinesOK
<1> QED  BY <1>0, <1>4, <1>8, <1>9, <1>11, <1>12

LEMMA ContinuedKeeps ==
    ASSUME LinesOK, ConfigOK, UNCHANGED <<program, contexts, width, first_column>>,
           NEW i \in Item, NEW w \in Nat, Continued(i, w)
    PROVE  /\ LinesOK'
           /\ Len(lines') = Len(lines)
           /\ \A k \in 1..Len(lines) : Slack(k)' = Slack(k)
           /\ \A k \in 1..(Len(lines) - 1) : lines'[k] = lines[k]
           /\ lines'[Len(lines)].used = column' + Slack(Len(lines))
<1>0. PICK n \in Nat : n = Len(lines)  BY DEF LinesOK
<1> DEFINE line == [used |-> lines[n].used + w, items |-> Append(lines[n].items, i)]
<1>1. lines \in Seq(Line) /\ n \in Nat \ {0} /\ n \in 1..n  BY <1>0, EmptySeq DEF LinesOK
<1>2. lines[n].used \in Nat /\ lines[n].items \in Seq(Item) /\ Slack(n) \in Nat
      BY <1>0, <1>1, LineTyped
<1>3. /\ Append(lines[n].items, i) \in Seq(Item) /\ Append(lines[n].items, i) # << >>
      /\ lines[n].items # << >> => Append(lines[n].items, i)[1] = lines[n].items[1]
  <2>1. Len(Append(lines[n].items, i)) = Len(lines[n].items) + 1 /\ Len(lines[n].items) \in Nat
        BY <1>2
  <2>2. lines[n].items # << >> => 1 \in 1..Len(lines[n].items)  BY <1>2, EmptySeq
  <2> QED  BY <1>2, <2>1, <2>2, AppendProperties
<1>4. line \in Line /\ line.used = lines[n].used + w
      /\ line.items = Append(lines[n].items, i)
      BY <1>2, <1>3 DEF Line
<1>5. lines' = [lines EXCEPT ![n] = line]  BY <1>0 DEF Continued
<1> HIDE DEF line
<1>6. /\ lines' \in Seq(Line) /\ Len(lines') = n /\ lines'[n] = line
      /\ \A k \in 1..n : k # n => lines'[k] = lines[k]
      BY <1>0, <1>1, <1>4, <1>5, ExceptSeq
<1>7. lines' # << >>  BY <1>1, <1>6, EmptySeq
<1>8. \A j : WidthOf(j)' = WidthOf(j)  BY SameConfig
<1>9. ProgramEnd' = ProgramEnd /\ first_column' = first_column  BY SameConfig
<1>10. ASSUME NEW k \in 2..n
       PROVE  /\ lines'[k].items # << >> /\ lines'[k].items[1] = lines[k].items[1]
              /\ WidthOf(lines[k].items[1]) \in Nat
  <2>1. lines[k].items # << >> /\ WidthOf(lines[k].items[1]) \in Nat  BY <1>0 DEF LinesOK
  <2>2. k \in 1..n  OBVIOUS
  <2> QED  BY <1>3, <1>4, <1>6, <2>1, <2>2
<1>11. ASSUME NEW k \in 1..n  PROVE Slack(k)' = Slack(k)
  <2>1. k # 1 => k \in 2..n  OBVIOUS
  <2> QED  BY <1>8, <1>9, <1>10, <2>1 DEF Slack
<1>12. lines'[n].used = column' + Slack(n)
  <2>1. lines[n].used = column + Slack(n) /\ column \in Nat /\ column' = column + w
        BY <1>0 DEF LinesOK, Continued
  <2> QED  BY <1>2, <1>4, <1>6, <2>1
<1>13. LinesOK'
  <2>1. first_column' \in 0..ProgramEnd' /\ column' \in Nat
        BY <1>9 DEF LinesOK, Continued
  <2>2. lines'[Len(lines')].used = column' + Slack(Len(lines))'
        BY <1>1, <1>6, <1>11, <1>12
  <2>3. \A k \in 2..Len(lines') :
           lines'[k].items # << >> /\ WidthOf(lines[k].items[1])' \in Nat
        BY <1>6, <1>8, <1>10
  <2> QED  BY <1>6, <1>7, <2>1, <2>2, <2>3 DEF LinesOK
<1>14. \A k \in 1..(n - 1) : lines'[k] = lines[k]  BY <1>1, <1>6
<1> QED  BY <1>0, <1>6, <1>11, <1>12, <1>13, <1>14

LEMMA PutIs ==
    ASSUME NEW i, NEW w, NEW indent, Put(i, w, indent)
    PROVE  /\ UNCHANGED first_column
           /\ IF MaxCol < column + w THEN Broken(i, w, indent) ELSE Continued(i, w)
BY DEF Put, Broken, Continued

LEMMA PutKeeps ==
    ASSUME LinesOK, ConfigOK, UNCHANGED <<program, contexts, width>>,
           NEW i \in Item, NEW indent \in Nat, WidthOf(i) \in Nat,
           Put(i, WidthOf(i), indent)
    PROVE  LinesOK'
BY PutIs, BrokenKeeps, ContinuedKeeps

\* No line takes more than max_col_width and what is not counted of it.
LinesFit ==
    /\ column <= MaxCol /\ first_column <= MaxCol
    /\ \A k \in 1..Len(lines) : lines[k].used <= MaxCol + Slack(k)

LEMMA PutFits ==
    ASSUME LinesOK, ConfigOK, LinesFit, UNCHANGED <<program, contexts, width>>,
           NEW i \in Item, NEW indent \in {0, first_column}, WidthOf(i) \in Nat,
           Put(i, WidthOf(i), indent)
    PROVE  LinesFit'
<1>0. PICK n, w : n = Len(lines) /\ w = WidthOf(i)  OBVIOUS
<1>1. n \in Nat \ {0} /\ w \in Nat /\ MaxCol \in Nat
      BY <1>0, EmptySeq, PrintableType DEF LinesOK
<1>2. indent \in Nat /\ indent <= MaxCol /\ column \in Nat /\ first_column \in Nat
      BY <1>1, ProgramEndTyped DEF LinesOK, LinesFit
<1>3. UNCHANGED first_column  BY PutIs
<1>4. CASE Broken(i, w, indent)
  <2>1. /\ Len(lines') = n + 1
        /\ lines'[n + 1].used = indent + w /\ Slack(n + 1)' = w
        /\ \A k \in 1..n : lines'[k] = lines[k] /\ Slack(k)' = Slack(k)
        BY <1>0, <1>2, <1>3, <1>4, BrokenKeeps
  <2>2. lines'[n + 1].used <= MaxCol + Slack(n + 1)'  BY <1>1, <1>2, <2>1
  <2>3. ASSUME NEW k \in 1..Len(lines')  PROVE lines'[k].used <= MaxCol + Slack(k)'
    <3>1. k = n + 1 \/ k \in 1..n  BY <1>1, <2>1
    <3> QED  BY <1>0, <2>1, <2>2, <3>1 DEF LinesFit
  <2>4. column' = indent  BY <1>4 DEF Broken
  <2> QED  BY <1>2, <1>3, <2>3, <2>4 DEF LinesFit
<1>5. CASE Continued(i, w) /\ ~(MaxCol < column + w)
  <2>1. /\ Len(lines') = n
        /\ \A k \in 1..n : Slack(k)' = Slack(k)
        /\ \A k \in 1..(n - 1) : lines'[k] = lines[k]
        /\ lines'[n].used = column' + Slack(n)
        BY <1>0, <1>1, <1>3, <1>5, ContinuedKeeps
  <2>2. column' = column + w /\ column' <= MaxCol /\ column' \in Nat
        BY <1>1, <1>2, <1>5 DEF Continued
  <2>3. n \in 1..n /\ Slack(n) \in Nat  BY <1>0, <1>1, LineTyped
  <2>4. lines'[n].used <= MaxCol + Slack(n)'  BY <1>1, <2>1, <2>2, <2>3
  <2>5. ASSUME NEW k \in 1..Len(lines')  PROVE lines'[k].used <= MaxCol + Slack(k)'
    <3>1. k = n \/ (k \in 1..(n - 1) /\ k \in 1..n)  BY <1>1, <2>1
    <3> QED  BY <1>0, <2>1, <2>4, <3>1 DEF LinesFit
  <2> QED  BY <1>2, <1>3, <2>2, <2>5 DEF LinesFit
<1> QED  BY <1>0, <1>4, <1>5, PutIs


-----------------------------------------------------------------------------
(* The sections. *)

\* The items whose rows are no wider than n, and the sections of such rows.
Narrow(n) == {i \in Item : RowWidth(i) <= n}
Section(n) == [title : Item \cup {"positional", "optional"}, rows : Seq(Narrow(n))]

SectionsOK(s, n) ==
    /\ s \in Seq(Section(n)) /\ Len(s) >= 2
    /\ s[1].title = "positional" /\ s[2].title = "optional"

\* No two sections have one title, and that of the commands is the third.
TitlesOK(s) ==
    /\ \A j, k \in 1..Len(s) : s[j].title = s[k].title => j = k
    /\ \A k \in 1..Len(s) : s[k].title = Placeholder => k = 3

\* The sections of s, each with the rows it had and perhaps some more.
SamePlaces(s, t) ==
    /\ Len(t) = Len(s)
    /\ \A k \in 1..Len(s) : t[k].title = s[k].title /\ IsPrefix(s[k].rows, t[k].rows)
Grown(s, t) ==
    \A k \in 1..Len(s) : \E j \in 1..Len(t) :
        t[j].title = s[k].title /\ IsPrefix(s[k].rows, t[j].rows)

\* The titles of t: those of s, and perhaps g.
TitlesFrom(s, t, g) ==
    \A k \in 1..Len(t) : t[k].title = g \/ \E l \in 1..Len(s) : t[k].title = s[l].title
Untitled(s, g) == \A k \in 1..Len(s) : s[k].title # g

LEMMA PrefixOfConcat ==
    ASSUME NEW T, NEW a \in Seq(T), NEW b \in Seq(T)
    PROVE  IsPrefix(a, a) /\ IsPrefix(a, a \o b) /\ a \o b \in Seq(T)
<1>1. a \o b \in Seq(T) /\ Len(a \o b) = Len(a) + Len(b)  BY ConcatProperties
<1>2. Len(a) \in Nat /\ Len(b) \in Nat  OBVIOUS
<1>3. SubSeq(a \o b, 1, Len(a)) = SubSeq(a, 1, Len(a))
  <2>1. 1 \in 1..Len(a) + 1 /\ Len(a) \in 0..Len(a)  BY <1>2
  <2> QED  BY <2>1, SubSeqOfConcat1
<1> QED  BY <1>1, <1>2, <1>3 DEF IsPrefix

LEMMA SectionTyped ==
    ASSUME NEW n, NEW s, SectionsOK(s, n), NEW k \in 1..Len(s)
    PROVE  /\ Len(s) \in Nat /\ s[k] \in Section(n) /\ s[k].rows \in Seq(Narrow(n))
           /\ s[k] = [title |-> s[k].title, rows |-> s[k].rows]
           /\ DOMAIN s = 1..Len(s)
<1>1. s \in Seq(Section(n))  BY DEF SectionsOK
<1>2. Len(s) \in Nat /\ s[k] \in Section(n) /\ DOMAIN s = 1..Len(s)  BY <1>1
<1> QED  BY <1>2 DEF Section

LEMMA Widen ==
    ASSUME NEW m \in Nat, NEW n \in Nat, m <= n, NEW s, SectionsOK(s, m)
    PROVE  SectionsOK(s, n)
<1>1. Narrow(m) \subseteq Narrow(n)  BY RowWidthTyped DEF Narrow
<1>2. Section(m) \subseteq Section(n)  BY <1>1, SeqInSeq DEF Section
<1> QED  BY <1>2, SeqInSeq DEF SectionsOK

\* Sections in their places, with more rows.
LEMMA SamePlacesKeep ==
    ASSUME NEW n, NEW s, SectionsOK(s, n), NEW t \in Seq(Section(n)), SamePlaces(s, t)
    PROVE  /\ SectionsOK(t, n) /\ Grown(s, t)
           /\ \A g : TitlesFrom(s, t, g)
           /\ TitlesOK(s) => TitlesOK(t)
           /\ CommandSection(t) <=> CommandSection(s)
<1>1. Len(s) \in Nat /\ Len(s) >= 2  BY DEF SectionsOK
<1>2. Len(t) = Len(s) /\ \A k \in 1..Len(s) : t[k].title = s[k].title
      BY DEF SamePlaces
<1>3. SectionsOK(t, n)  BY <1>1, <1>2 DEF SectionsOK
<1>4. Grown(s, t)  BY <1>2 DEF Grown, SamePlaces
<1>5. TitlesOK(s) => TitlesOK(t)  BY <1>2 DEF TitlesOK
<1>6. CommandSection(t) <=> CommandSection(s)
  <2>1. Len(s) >= 3 => 3 \in 1..Len(s)  BY <1>1
  <2> QED  BY <1>2, <2>1 DEF CommandSection
<1>7. \A g : TitlesFrom(s, t, g)  BY <1>2 DEF TitlesFrom
<1> QED  BY <1>3, <1>4, <1>5, <1>6, <1>7

LEMMA AddRowKeeps ==
    ASSUME NEW n, NEW s, SectionsOK(s, n), NEW k \in 1..Len(s), NEW i \in Narrow(n),
           NEW t, t = AddRow(s, k, i)
    PROVE  t \in Seq(Section(n)) /\ SamePlaces(s, t)
<1> DEFINE new == [s[k] EXCEPT !.rows = Append(s[k].rows, i)]
<1>1. s \in Seq(Section(n)) /\ s[k] \in Section(n) /\ s[k].rows \in Seq(Narrow(n))
      BY SectionTyped DEF SectionsOK
<1>2. /\ Append(s[k].rows, i) \in Seq(Narrow(n))
      /\ Append(s[k].rows, i) = s[k].rows \o <<i>> /\ <<i>> \in Seq(Narrow(n))
      BY <1>1, AppendProperties, AppendIsConcat, One
<1>3. new \in Section(n) /\ new.title = s[k].title /\ new.rows = Append(s[k].rows, i)
      BY <1>1, <1>2 DEF Section
<1>4. t = [s EXCEPT ![k] = new]  BY <1>1, SectionTyped DEF AddRow
<1> HIDE DEF new
<1>5. /\ t \in Seq(Section(n)) /\ Len(t) = Len(s)
      /\ \A j \in 1..Len(s) : t[j] = IF j = k THEN new ELSE s[j]
      BY <1>1, <1>3, <1>4, ExceptSeq
<1>6. IsPrefix(s[k].rows, new.rows)
  <2>1. PICK a, b : a = s[k].rows /\ b = <<i>> /\ new.rows = a \o b  BY <1>2, <1>3
  <2>2. IsPrefix(a, a \o b)  BY <1>1, <1>2, <2>1, PrefixOfConcat
  <2> QED  BY <2>1, <2>2
<1>7. \A j \in 1..Len(s) : IsPrefix(s[j].rows, s[j].rows)  BY SectionTyped, PrefixOfConcat
<1> QED  BY <1>3, <1>5, <1>6, <1>7 DEF SamePlaces

\* The rows that a section gets of an exclusive group's.
RowsFor(rows, k) == Those(rows, LAMBDA o : SectionOf(o) = k)

LEMMA RowsForTyped ==
    ASSUME NEW T, NEW rows \in Seq(T), NEW k
    PROVE  RowsFor(rows, k) \in Seq(T)
<1> DEFINE s == [j \in DOMAIN rows |->
                    IF SectionOf(rows[j]) = k THEN <<rows[j]>> ELSE << >>]
<1>1. s \in Seq(Seq(T))
  <2>1. \A j \in 1..Len(rows) : rows[j] \in T  OBVIOUS
  <2>2. DOMAIN rows = 1..Len(rows) /\ Len(rows) \in Nat  OBVIOUS
  <2>3. \A j \in 1..Len(rows) : s[j] \in Seq(T)  BY <2>1, <2>2, One
  <2> QED  BY <2>2, <2>3
<1>2. RowsFor(rows, k) = FlattenSeq(s)  BY DEF RowsFor, Those
<1> QED  BY <1>1, <1>2, FlattenTyped


LEMMA AddRowsKeeps ==
    ASSUME NEW n, NEW s, SectionsOK(s, n), NEW rows \in Seq(Narrow(n)),
           NEW t, t = AddRows(s, rows)
    PROVE  t \in Seq(Section(n)) /\ SamePlaces(s, t)
<1>1. Len(s) \in Nat /\ DOMAIN s = 1..Len(s)  BY DEF SectionsOK
<1>2. \A k \in 1..Len(s) : RowsFor(rows, k) \in Seq(Narrow(n))  BY RowsForTyped
<1>3. t = [k \in 1..Len(s) |-> [s[k] EXCEPT !.rows = s[k].rows \o RowsFor(rows, k)]]
      BY <1>1 DEF AddRows, RowsFor
<1>4. ASSUME NEW k \in 1..Len(s)
      PROVE  t[k] \in Section(n) /\ t[k].title = s[k].title /\ IsPrefix(s[k].rows, t[k].rows)
  <2>1. PICK a, b : a = s[k].rows /\ b = RowsFor(rows, k)  OBVIOUS
  <2>2. a \in Seq(Narrow(n)) /\ b \in Seq(Narrow(n)) /\ s[k] \in Section(n)
        BY <1>2, <2>1, SectionTyped
  <2>3. a \o b \in Seq(Narrow(n)) /\ IsPrefix(a, a \o b)  BY <2>2, PrefixOfConcat
  <2>4. t[k] = [s[k] EXCEPT !.rows = a \o b]  BY <1>3, <2>1
  <2>5. t[k] \in Section(n) /\ t[k].title = s[k].title /\ t[k].rows = a \o b
        BY <2>2, <2>3, <2>4 DEF Section
  <2> QED  BY <2>1, <2>3, <2>5
<1>5. t = [k \in 1..Len(s) |-> t[k]]  BY <1>3
<1>6. t \in Seq(Section(n)) /\ Len(t) = Len(s)  BY <1>1, <1>4, <1>5
<1> QED  BY <1>4, <1>6 DEF SamePlaces

\* The section of the commands is put before those of the named groups.
LEMMA InsertKeeps ==
    ASSUME NEW n, NEW s, SectionsOK(s, n), ~CommandSection(s),
           NEW t, t = InsertAt(s, 3, [title |-> Placeholder, rows |-> << >>])
    PROVE  /\ SectionsOK(t, n) /\ Len(t) = Len(s) + 1
           /\ Grown(s, t) /\ CommandSection(t)
           /\ TitlesFrom(s, t, Placeholder) /\ (TitlesOK(s) => TitlesOK(t))
<1> DEFINE new == [title |-> Placeholder, rows |-> << >>]
           a == SubSeq(s, 1, 2)
           b == SubSeq(s, 3, Len(s))
<1>1. s \in Seq(Section(n)) /\ Len(s) \in Nat /\ Len(s) >= 2
      /\ \A k \in 1..Len(s) : s[k] \in Section(n)
      BY DEF SectionsOK
<1>2. new \in Section(n) /\ new.title = Placeholder  BY PrintableType, EmptySeq DEF Section
<1>3. /\ a \in Seq(Section(n)) /\ Len(a) = 2
      /\ \A k \in 1..2 : a[k] = s[k]
  <2>1. \A k \in 1..2 : s[k] \in Section(n)  BY <1>1
  <2>2. \A k \in 1..2 - 1 + 1 : a[k] = s[1 + k - 1]  BY <2>1, SubSeqProperties
  <2> QED  BY <2>1, <2>2, SubSeqProperties
<1>4. /\ b \in Seq(Section(n)) /\ Len(b) = Len(s) - 2
      /\ \A k \in 1..Len(s) - 2 : b[k] = s[k + 2]
  <2>1. \A k \in 3..Len(s) : s[k] \in Section(n)  BY <1>1
  <2>2. 3 \in Int /\ Len(s) \in Int  BY <1>1
  <2>3. /\ b \in Seq(Section(n)) /\ Len(b) = IF 3 <= Len(s) THEN Len(s) - 3 + 1 ELSE 0
        /\ \A k \in 1..Len(s) - 3 + 1 : b[k] = s[3 + k - 1]
        BY <2>1, <2>2, SubSeqProperties
  <2> HIDE DEF b
  <2>4. Len(b) = Len(s) - 2
    <3>1. PICK m \in Nat : m = Len(s) /\ m >= 2  BY <1>1
    <3>2. Len(b) = IF 3 <= m THEN m - 3 + 1 ELSE 0  BY <2>3, <3>1
    <3> QED  BY <3>1, <3>2
  <2>5. \A k \in 1..Len(s) - 2 : k \in 1..Len(s) - 3 + 1 /\ 3 + k - 1 = k + 2
        BY <1>1
  <2> QED  BY <2>3, <2>4, <2>5
<1>5. t = a \o <<new>> \o b  BY DEF InsertAt
<1> HIDE DEF a, b, new
<1>6. <<new>> \in Seq(Section(n)) /\ Len(<<new>>) = 1  BY <1>2, One
<1>7. /\ a \o <<new>> \in Seq(Section(n)) /\ Len(a \o <<new>>) = 3
      /\ \A k \in 1..2 : (a \o <<new>>)[k] = a[k]
      /\ (a \o <<new>>)[3] = new
      BY <1>3, <1>6, ConcatProperties
<1>8. /\ t \in Seq(Section(n)) /\ Len(t) = Len(s) + 1
      /\ t[1] = s[1] /\ t[2] = s[2] /\ t[3] = new
      /\ \A k \in 4..Len(s) + 1 : t[k] = s[k - 1]
  <2>1. PICK c \in Seq(Section(n)) : c = a \o <<new>>  BY <1>7
  <2>2. /\ t \in Seq(Section(n)) /\ Len(t) = Len(c) + Len(b)
        /\ \A k \in 1..Len(c) + Len(b) : t[k] = IF k <= Len(c) THEN c[k] ELSE b[k - Len(c)]
    <3>1. t = c \o b /\ b \in Seq(Section(n))  BY <1>4, <1>5, <2>1
    <3> QED  BY <3>1, ConcatProperties
  <2>3. Len(c) = 3 /\ c[1] = s[1] /\ c[2] = s[2] /\ c[3] = new  BY <1>3, <1>7, <2>1
  <2>4. Len(t) = Len(s) + 1  BY <1>1, <1>4, <2>2, <2>3
  <2>5. t[1] = c[1] /\ t[2] = c[2] /\ t[3] = c[3]
    <3>1. Len(b) \in Nat  BY <1>4
    <3>2. \A k \in {1, 2, 3} : k \in 1..Len(c) + Len(b) /\ k <= Len(c)  BY <2>3, <3>1
    <3> QED  BY <2>2, <3>2
  <2>6. ASSUME NEW k \in 4..Len(s) + 1  PROVE t[k] = s[k - 1]
    <3>1. /\ k \in 1..Len(c) + Len(b) /\ ~(k <= Len(c))
          /\ k - 3 \in 1..Len(s) - 2 /\ (k - 3) + 2 = k - 1
          BY <1>1, <1>4, <2>3
    <3>2. t[k] = b[k - 3]  BY <2>2, <2>3, <3>1
    <3> QED  BY <1>4, <3>1, <3>2
  <2> QED  BY <2>2, <2>3, <2>4, <2>5, <2>6
<1>9. SectionsOK(t, n)  BY <1>1, <1>8 DEF SectionsOK
<1>10. CommandSection(t)  BY <1>1, <1>2, <1>8 DEF CommandSection
<1>11. ASSUME NEW k \in 1..Len(s)
       PROVE  \E j \in 1..Len(t) : t[j] = s[k] /\ j = IF k <= 2 THEN k ELSE k + 1
       BY <1>1, <1>8
<1>12. Grown(s, t)
  <2>1. \A k \in 1..Len(s) : IsPrefix(s[k].rows, s[k].rows)  BY SectionTyped, PrefixOfConcat
  <2> QED  BY <1>11, <2>1 DEF Grown
<1>13. ASSUME NEW k \in 1..Len(t), k # 3
       PROVE  \E l \in 1..Len(s) : t[k] = s[l] /\ k = IF l <= 2 THEN l ELSE l + 1
  <2>1. CASE k \in 1..2  BY <1>1, <1>8, <2>1
  <2>2. CASE k > 3
    <3>1. k - 1 \in 1..Len(s) /\ k \in 4..Len(s) + 1 /\ ~(k - 1 <= 2) /\ k = (k - 1) + 1
          BY <1>1, <1>8, <2>2
    <3> QED  BY <1>8, <3>1
  <2> QED  BY <1>1, <1>8, <1>13, <2>1, <2>2
<1>14. TitlesFrom(s, t, Placeholder)  BY <1>2, <1>8, <1>13 DEF TitlesFrom
<1>15. ASSUME TitlesOK(s)  PROVE TitlesOK(t)
  <2>1. \A k \in 1..Len(s) : s[k].title # Placeholder
        BY <1>1, <1>15 DEF TitlesOK, CommandSection
  <2>2. ASSUME NEW j \in 1..Len(t), NEW k \in 1..Len(t), t[j].title = t[k].title
        PROVE  j = k
    <3>1. CASE j = 3 \/ k = 3  BY <1>2, <1>8, <1>13, <2>1, <2>2, <3>1
    <3>2. CASE j # 3 /\ k # 3
      <4>1. PICK l \in 1..Len(s) : t[j] = s[l] /\ j = IF l <= 2 THEN l ELSE l + 1
            BY <1>13, <3>2
      <4>2. PICK m \in 1..Len(s) : t[k] = s[m] /\ k = IF m <= 2 THEN m ELSE m + 1
            BY <1>13, <3>2
      <4>3. l = m  BY <1>15, <2>2, <4>1, <4>2 DEF TitlesOK
      <4> QED  BY <4>1, <4>2, <4>3
    <3> QED  BY <3>1, <3>2
  <2>3. \A k \in 1..Len(t) : t[k].title = Placeholder => k = 3  BY <1>13, <2>1
  <2> QED  BY <2>2, <2>3 DEF TitlesOK
<1> QED  BY <1>8, <1>9, <1>10, <1>12, <1>14, <1>15

\* A named group has a section of its own, after the others.
LEMMA AppendKeeps ==
    ASSUME NEW n, NEW s, SectionsOK(s, n), NEW g \in Item, g # Placeholder,
           NEW new \in Section(n), new.title = g, NEW t, t = Append(s, new)
    PROVE  /\ SectionsOK(t, n) /\ Grown(s, t)
           /\ CommandSection(t) <=> CommandSection(s)
           /\ TitlesOK(s) /\ Untitled(s, g) => TitlesOK(t)
           /\ TitlesFrom(s, t, g)
<1>1. s \in Seq(Section(n)) /\ Len(s) \in Nat /\ Len(s) >= 2  BY DEF SectionsOK
<1>2. new \in Section(n) /\ new.title = g  OBVIOUS
<1>3. /\ t \in Seq(Section(n)) /\ Len(t) = Len(s) + 1 /\ t[Len(s) + 1] = new
      /\ \A k \in 1..Len(s) : t[k] = s[k]
      BY <1>1, <1>2, AppendProperties
<1>4. SectionsOK(t, n)  BY <1>1, <1>3 DEF SectionsOK
<1>5. Grown(s, t)
  <2>1. \A k \in 1..Len(s) : IsPrefix(s[k].rows, s[k].rows)  BY SectionTyped, PrefixOfConcat
  <2> QED  BY <1>1, <1>3, <2>1 DEF Grown
<1>6. CommandSection(t) <=> CommandSection(s)
  <2>1. CASE Len(s) = 2  BY <1>2, <1>3, <2>1 DEF CommandSection
  <2>2. CASE Len(s) >= 3
    <3>1. 3 \in 1..Len(s)  BY <1>1, <2>2
    <3>2. t[3] = s[3] /\ Len(t) >= 3  BY <1>1, <1>3, <2>2, <3>1
    <3> QED  BY <2>2, <3>2 DEF CommandSection
  <2>3. Len(s) = 2 \/ Len(s) >= 3
    <3>1. PICK m \in Nat : m = Len(s) /\ m >= 2  BY <1>1
    <3> QED  BY <3>1
  <2> QED  BY <2>1, <2>2, <2>3
<1>7. \A k \in 1..Len(t) : k = Len(s) + 1 \/ k \in 1..Len(s)  BY <1>1, <1>3
<1>8. TitlesOK(s) /\ Untitled(s, g) => TitlesOK(t)
      BY <1>2, <1>3, <1>7 DEF TitlesOK, Untitled
<1>9. TitlesFrom(s, t, g)  BY <1>2, <1>3, <1>7 DEF TitlesFrom
<1> QED  BY <1>4, <1>5, <1>6, <1>8, <1>9


LEMMA MeasureTyped ==
    ASSUME longest \in Nat, NEW rows \in Seq(Item), Measure(rows)
    PROVE  longest' \in Nat /\ longest <= longest' /\ rows \in Seq(Narrow(longest'))
<1>1. \A k \in 1..Len(rows) : rows[k] \in Item /\ RowWidth(rows[k]) \in Nat  BY RowWidthTyped
<1>2. DOMAIN rows = 1..Len(rows) /\ Len(rows) \in Nat  OBVIOUS
<1>3. longest' \in Nat /\ longest <= longest'  BY <1>1, <1>2 DEF Measure
<1>4. \A k \in 1..Len(rows) : rows[k] \in Narrow(longest')  BY <1>1, <1>2 DEF Measure, Narrow
<1> QED  BY <1>2, <1>3, <1>4

-----------------------------------------------------------------------------
(* The invariant. *)

PhaseOK == phase \in {"usage", "help", "placeholder", "synopsis", "collect", "sections", "done"}

SynopsisOK == IF phase = "usage" THEN lines = << >> ELSE LinesOK

TodoOK == todo \in Seq(Item) /\ (phase = "synopsis" => todo \in Seq(Accepted))

CollectedOK ==
    /\ longest \in Nat /\ SectionsOK(sections, longest)
    /\ commands_printed \in BOOLEAN /\ (commands_printed <=> CommandSection(sections))

\* A printed section.
Printout == [title : Item \cup {"positional", "optional"},
             rows : Seq({Row(i) : i \in Narrow(longest)})]

OutputOK ==
    /\ order \in Seq(1..Len(sections))
    /\ phase \notin {"sections", "done"} => order = << >> /\ printed = << >>
    /\ printed \in Seq(Printout)

HInv == PhaseOK /\ ConfigOK /\ SynopsisOK /\ TodoOK /\ CollectedOK /\ OutputOK

\* With a usage text that fits, so does every line.
FitInv == phase # "usage" => LinesFit

\* A help meets each named group once at most; these are still to collect, or
\* have sections of their own.
NamedOnce(s) == \A j, k \in 1..Len(s) : KindOf(s[j]) = "named" /\ s[j] = s[k] => j = k
GroupsOnce == NamedOnce(ToCollect)
GroupsInv ==
    /\ GroupsOnce /\ TitlesOK(sections)
    /\ phase \notin {"collect", "sections", "done"} => Len(sections) = 2
    /\ phase = "collect" =>
          /\ NamedOnce(todo)
          /\ \A k \in 1..Len(todo) : KindOf(todo[k]) = "named" => Untitled(sections, todo[k])


LEMMA InitTyped ==
    ASSUME Init
    PROVE  HInv
<1>1. program \in Item /\ contexts \in Seq(Item)
  <2>1. program \in Item  BY PrintableType DEF Init
  <2>2. PathsFrom[program] \subseteq Seq(Item)  BY <2>1, PathsTyped DEF Paths
  <2>3. contexts = << >> \/ contexts \in PathsFrom[program]  BY DEF Init
  <2> QED  BY <2>1, <2>2, <2>3, EmptySeq
<1>2. ASSUME NEW i \in Accepted \cup {DefaultHelp}
      PROVE  width[i] \in Nat
  <2>1. i \in Item /\ KindOf(i) \in OptionKind
    <3>1. CASE i = DefaultHelp  BY <3>1, PrintableType DEF KindOf, OptionKind
    <3>2. CASE i \in Accepted
      <4>1. PICK k \in DOMAIN Described : i \in Contained(Described[k]) /\ ~IsGroup(i)
            BY <3>2 DEF Accepted
      <4>2. Described[k] \in Item  BY <1>1, <4>1, DescribedItems
      <4>3. i \in Item  BY <4>1, <4>2, ContainedTyped
      <4> QED  BY <4>1, <4>3, ItemTyped DEF IsGroup
    <3> QED  BY <3>1, <3>2
  <2>2. Widths[i] \subseteq Nat  BY <2>1, PrintableType DEF KindOf
  <2>3. width[i] \in Widths[i]  BY DEF Init
  <2> QED  BY <2>2, <2>3
<1>3. ConfigOK  BY <1>1, <1>2 DEF ConfigOK
<1>4. PhaseOK /\ SynopsisOK  BY DEF Init, PhaseOK, SynopsisOK
<1>5. TodoOK  BY EmptySeq DEF Init, TodoOK
<1>6. CollectedOK
  <2>1. [title |-> "positional", rows |-> << >>] \in Section(0)
        /\ [title |-> "optional", rows |-> << >>] \in Section(0)
        BY EmptySeq DEF Section
  <2>2. /\ sections = <<[title |-> "positional", rows |-> << >>],
                        [title |-> "optional", rows |-> << >>]>>
        /\ longest = 0 /\ commands_printed = FALSE
        BY DEF Init
  <2>3. sections \in Seq(Section(0)) /\ Len(sections) = 2
        /\ sections[1].title = "positional" /\ sections[2].title = "optional"
        BY <2>1, <2>2
  <2>4. SectionsOK(sections, longest)  BY <2>2, <2>3 DEF SectionsOK
  <2>5. ~CommandSection(sections)  BY <2>3 DEF CommandSection
  <2> QED  BY <2>2, <2>4, <2>5 DEF CollectedOK
<1>7. OutputOK  BY EmptySeq DEF Init, OutputOK
<1> QED  BY <1>3, <1>4, <1>5, <1>6, <1>7 DEF HInv

\* What a step leaves alone.
LEMMA SameLayout ==
    ASSUME UNCHANGED <<program, contexts, width, layout>>, LinesOK
    PROVE  LinesOK' /\ (LinesFit => LinesFit')
<1>1. \A k : Slack(k)' = Slack(k)
  <2>1. ProgramEnd' = ProgramEnd /\ (\A i : WidthOf(i)' = WidthOf(i))  BY SameConfig
  <2> QED  BY <2>1 DEF Slack, layout
<1>2. ProgramEnd' = ProgramEnd /\ (\A i : WidthOf(i)' = WidthOf(i))  BY SameConfig
<1>3. lines' = lines /\ first_column' = first_column /\ column' = column  BY DEF layout
<1>4. LinesOK'  BY <1>1, <1>2, <1>3 DEF LinesOK
<1>5. LinesFit => LinesFit'  BY <1>1, <1>3 DEF LinesFit
<1> QED  BY <1>4, <1>5

LEMMA SameCollected ==
    ASSUME UNCHANGED collected, CollectedOK
    PROVE  CollectedOK'
BY DEF collected, CollectedOK

LEMMA NoOutput ==
    ASSUME order = << >> /\ printed = << >>, UNCHANGED output
    PROVE  OutputOK'
<1>1. order' = << >> /\ printed' = << >>  BY DEF output
<1>2. printed' \in Seq(Printout')  BY <1>1, EmptySeq
<1>3. order' \in Seq(1..Len(sections'))  BY <1>1, EmptySeq
<1> QED  BY <1>1, <1>2, <1>3 DEF OutputOK

LEMMA PrintUsageKeeps ==
    ASSUME HInv, PrintUsage
    PROVE  HInv' /\ (UsageWidth <= MaxCol => LinesFit')
<1>1. ConfigOK /\ CollectedOK /\ todo \in Seq(Item) /\ order = << >> /\ printed = << >>
      BY DEF HInv, TodoOK, OutputOK, PrintUsage
<1>2. ConfigOK' /\ ProgramEnd' = ProgramEnd  BY <1>1, SameConfig DEF PrintUsage
<1>3. ProgramEnd \in Nat /\ UsageWidth \in Nat /\ UsageWidth <= ProgramEnd /\ MaxCol \in Nat
      BY <1>1, ProgramEndTyped, PrintableType
<1>4. first_column' \in 0..ProgramEnd /\ column' = first_column'
      BY <1>3 DEF PrintUsage
<1> DEFINE line == [used |-> ProgramEnd, items |-> << >>]
<1>5. lines' = <<line>> /\ line \in Line /\ line.used = ProgramEnd
      BY <1>3, EmptySeq DEF PrintUsage, Line
<1> HIDE DEF line
<1>6. lines' \in Seq(Line) /\ lines' # << >> /\ Len(lines') = 1 /\ lines'[1] = line
      BY <1>5, One
<1>7. Slack(1)' = ProgramEnd - first_column'  BY <1>2 DEF Slack
<1>8. LinesOK'
  <2>1. lines'[Len(lines')].used = column' + Slack(Len(lines))'
        BY <1>3, <1>4, <1>5, <1>6, <1>7
  <2>2. first_column' \in 0..ProgramEnd' /\ column' \in Nat  BY <1>2, <1>3, <1>4
  <2> QED  BY <1>6, <2>1, <2>2 DEF LinesOK
<1>9. ASSUME UsageWidth <= MaxCol  PROVE LinesFit'
  <2>1. first_column' <= MaxCol  BY <1>3, <1>9 DEF PrintUsage
  <2>2. first_column' \in Nat  BY <1>3, <1>4
  <2>3. lines'[1].used <= MaxCol + Slack(1)'  BY <1>3, <1>5, <1>6, <1>7, <2>1, <2>2
  <2> QED  BY <1>4, <1>6, <2>1, <2>3 DEF LinesFit
<1>10. phase' = "help"  BY DEF PrintUsage
<1>11. PhaseOK' /\ SynopsisOK'  BY <1>8, <1>10 DEF PhaseOK, SynopsisOK
<1>12. TodoOK'  BY <1>1, <1>10 DEF TodoOK, PrintUsage
<1>13. CollectedOK' /\ OutputOK'  BY <1>1, SameCollected, NoOutput DEF PrintUsage
<1> QED  BY <1>2, <1>9, <1>11, <1>12, <1>13 DEF HInv

\* A step of the synopsis after the usage text.
LEMMA SynopsisKeeps ==
    ASSUME HInv, UNCHANGED <<program, contexts, width, collected, output>>,
           LinesOK', phase' \in {"placeholder", "synopsis", "collect"},
           order = << >>, printed = << >>,
           todo' \in Seq(Item), phase' = "synopsis" => todo' \in Seq(Accepted)
    PROVE  HInv'
<1>1. ConfigOK' /\ Accepted' = Accepted  BY SameConfig DEF HInv
<1>2. PhaseOK' /\ SynopsisOK'  BY DEF PhaseOK, SynopsisOK
<1>3. TodoOK'  BY <1>1 DEF TodoOK
<1>4. CollectedOK' /\ OutputOK'  BY SameCollected, NoOutput DEF HInv
<1> QED  BY <1>1, <1>2, <1>3, <1>4 DEF HInv

LEMMA WidthsTyped ==
    ASSUME ConfigOK
    PROVE  /\ WidthOf(DefaultHelp) = width[DefaultHelp] /\ WidthOf(DefaultHelp) \in Nat
           /\ WidthOf(Placeholder) = PlaceholderWidth /\ WidthOf(Placeholder) \in Nat
           /\ DefaultHelp \in Item /\ Placeholder \in Item
<1>1. DefaultHelp \in Item /\ Placeholder \in Item /\ DefaultHelp # Placeholder
      BY PrintableType
<1>2. Printable[Placeholder].names \in Nat  BY <1>1, ItemTyped
<1> QED  BY <1>1, <1>2 DEF WidthOf, PlaceholderWidth, ConfigOK

LEMMA PrintDefaultHelpKeeps ==
    ASSUME HInv, PrintDefaultHelp
    PROVE  HInv' /\ (LinesFit => LinesFit')
<1>1. ConfigOK /\ LinesOK /\ todo \in Seq(Item) /\ order = << >> /\ printed = << >>
      BY DEF HInv, SynopsisOK, TodoOK, OutputOK, PrintDefaultHelp
<1>2. first_column \in Nat  BY <1>1, ProgramEndTyped DEF LinesOK
<1>3. UNCHANGED <<program, contexts, width, todo, collected, output>> /\ phase' = "placeholder"
      BY DEF PrintDefaultHelp
<1>4. LinesOK' /\ (LinesFit => LinesFit')
  <2>1. CASE Put(DefaultHelp, width[DefaultHelp], first_column)
        BY <2>1, <1>1, <1>2, <1>3, WidthsTyped, PutKeeps, PutFits
  <2>2. CASE UNCHANGED layout  BY <2>2, <1>1, <1>3, SameLayout
  <2> QED  BY <2>1, <2>2 DEF PrintDefaultHelp
<1> QED  BY <1>1, <1>3, <1>4, SynopsisKeeps

LEMMA PrintPlaceholderKeeps ==
    ASSUME HInv, PrintPlaceholder
    PROVE  HInv' /\ (LinesFit => LinesFit')
<1>1. ConfigOK /\ LinesOK /\ order = << >> /\ printed = << >>
      BY DEF HInv, SynopsisOK, OutputOK, PrintPlaceholder
<1>2. UNCHANGED <<program, contexts, width, collected, output>> /\ phase' = "synopsis"
      BY DEF PrintPlaceholder
<1>3. LinesOK' /\ (LinesFit => LinesFit')
  <2>1. CASE Put(Placeholder, PlaceholderWidth, 0)
    <3>1. Put(Placeholder, WidthOf(Placeholder), 0) /\ 0 \in Nat  BY <2>1, <1>1, WidthsTyped
    <3> QED  BY <3>1, <1>1, <1>2, WidthsTyped, PutKeeps, PutFits
  <2>2. CASE UNCHANGED layout  BY <2>2, <1>1, <1>2, SameLayout
  <2> QED  BY <2>1, <2>2 DEF PrintPlaceholder
<1>4. todo' \in Seq(Accepted)
  <2>1. << >> \in Seq(Accepted)  BY EmptySeq
  <2> QED  BY <1>1, <2>1, SynopsisListTyped DEF PrintPlaceholder
<1>5. Accepted \subseteq Item  BY <1>1, AcceptedTyped
<1>6. todo' \in Seq(Item)  BY <1>4, <1>5, SeqInSeq
<1> QED  BY <1>1, <1>2, <1>3, <1>4, <1>6, SynopsisKeeps

LEMMA PrintOptionKeeps ==
    ASSUME HInv, PrintOption
    PROVE  HInv' /\ (LinesFit => LinesFit')
<1>1. ConfigOK /\ LinesOK /\ order = << >> /\ printed = << >> /\ todo \in Seq(Accepted)
      BY DEF HInv, SynopsisOK, TodoOK, OutputOK, PrintOption
<1>2. first_column \in Nat  BY <1>1, ProgramEndTyped DEF LinesOK
<1>3. UNCHANGED <<phase, program, contexts, width, collected, output>> /\ phase' = "synopsis"
      /\ todo # << >> /\ todo' = Tail(todo)
      BY DEF PrintOption
<1>4. Head(todo) \in Accepted /\ todo' \in Seq(Accepted)
      BY <1>1, <1>3, HeadTailProperties
<1>5. PICK i \in Accepted : i = Head(todo)  BY <1>4
<1>6. i \in Item /\ WidthOf(i) \in Nat /\ Put(i, WidthOf(i), first_column)
      BY <1>1, <1>5, AcceptedTyped DEF PrintOption
<1>7. LinesOK' /\ (LinesFit => LinesFit')
      BY <1>1, <1>2, <1>3, <1>6, PutKeeps, PutFits
<1>8. Accepted \subseteq Item  BY <1>1, AcceptedTyped
<1>9. todo' \in Seq(Item)  BY <1>4, <1>8, SeqInSeq
<1> QED  BY <1>1, <1>3, <1>4, <1>7, <1>9, SynopsisKeeps

LEMMA EndSynopsisKeeps ==
    ASSUME HInv, EndSynopsis
    PROVE  HInv' /\ (LinesFit => LinesFit')
<1>1. ConfigOK /\ LinesOK /\ order = << >> /\ printed = << >>
      BY DEF HInv, SynopsisOK, OutputOK, EndSynopsis
<1>2. UNCHANGED <<program, contexts, width, layout, collected, output>> /\ phase' = "collect"
      BY DEF EndSynopsis
<1>3. todo' = (IF NoHelp THEN <<DefaultHelp>> ELSE << >>) \o ToCollect
      BY DEF EndSynopsis, ToCollect
<1>4. (IF NoHelp THEN <<DefaultHelp>> ELSE << >>) \in Seq(Item)  BY <1>1, WidthsTyped, One
<1>5. ToCollect \in Seq(Item)  BY <1>1, CollectListTyped
<1>6. todo' \in Seq(Item)  BY <1>3, <1>4, <1>5, ConcatProperties
<1> QED  BY <1>1, <1>2, <1>6, SameLayout, SynopsisKeeps


\* A step that collects: what the sections become, and from where their titles are.
Kept(s, t) ==
    Grown(s, t) /\ TitlesFrom(s, t, Placeholder) /\ (TitlesOK(s) => TitlesOK(t))
Titled(s, t, g) ==
    Grown(s, t) /\ TitlesFrom(s, t, g) /\ (TitlesOK(s) /\ Untitled(s, g) => TitlesOK(t))

LEMMA CollectKeeps ==
    ASSUME HInv, phase = "collect", Collected, CollectedOK', todo # << >>
    PROVE  HInv' /\ (LinesFit => LinesFit')
<1>1. ConfigOK /\ LinesOK /\ order = << >> /\ printed = << >> /\ todo \in Seq(Item)
      BY DEF HInv, SynopsisOK, OutputOK, TodoOK
<1>2. UNCHANGED <<phase, program, contexts, width, layout, output>> /\ todo' = Tail(todo)
      BY DEF Collected
<1>3. ConfigOK'  BY <1>1, <1>2, SameConfig
<1>4. PhaseOK' /\ SynopsisOK' /\ (LinesFit => LinesFit')
      BY <1>1, <1>2, SameLayout DEF HInv, PhaseOK, SynopsisOK
<1>5. TodoOK'
  <2>1. todo' \in Seq(Item)  BY <1>1, <1>2, HeadTailProperties
  <2> QED  BY <1>2, <2>1 DEF TodoOK
<1>6. OutputOK'  BY <1>1, <1>2, NoOutput
<1> QED  BY <1>3, <1>4, <1>5, <1>6 DEF HInv

LEMMA ToCollectHead ==
    ASSUME HInv, todo # << >>
    PROVE  Head(todo) \in Item
<1>1. todo \in Seq(Item)  BY DEF HInv, TodoOK
<1> QED  BY <1>1, HeadTailProperties

LEMMA CollectOptionKeeps ==
    ASSUME HInv, CollectOption
    PROVE  HInv' /\ (LinesFit => LinesFit') /\ Kept(sections, sections')
<1>1. phase = "collect" /\ todo # << >> /\ Collected /\ UNCHANGED commands_printed
      BY DEF CollectOption, Collecting
<1>2. PICK o \in Item : o = Head(todo)  BY <1>1, ToCollectHead
<1>3. sections' = AddRow(sections, SectionOf(o), o) /\ Measure(<<o>>)
      BY <1>2 DEF CollectOption
<1>4. longest \in Nat /\ SectionsOK(sections, longest)  BY DEF HInv, CollectedOK
<1>5. longest' \in Nat /\ longest <= longest' /\ <<o>> \in Seq(Narrow(longest'))
      BY <1>3, <1>4, One, MeasureTyped
<1>6. o \in Narrow(longest')
  <2>1. PICK s : s = <<o>>  OBVIOUS
  <2>2. s[1] \in Narrow(longest')  BY <1>5, <2>1
  <2> QED  BY <2>1, <2>2
<1>7. SectionsOK(sections, longest')  BY <1>4, <1>5, Widen
<1>8. SectionOf(o) \in 1..Len(sections)  BY <1>4 DEF SectionOf, SectionsOK
<1>9. sections' \in Seq(Section(longest')) /\ SamePlaces(sections, sections')
      BY <1>3, <1>6, <1>7, <1>8, AddRowKeeps
<1>10. /\ SectionsOK(sections', longest') /\ Kept(sections, sections')
       /\ CommandSection(sections') <=> CommandSection(sections)
       BY <1>7, <1>9, SamePlacesKeep DEF Kept
<1>11. CollectedOK'  BY <1>1, <1>5, <1>10 DEF HInv, CollectedOK, CommandSection
<1> QED  BY <1>1, <1>10, <1>11, CollectKeeps

LEMMA CollectExclusiveKeeps ==
    ASSUME HInv, CollectExclusive
    PROVE  HInv' /\ (LinesFit => LinesFit') /\ Kept(sections, sections')
<1>1. phase = "collect" /\ todo # << >> /\ Collected /\ UNCHANGED commands_printed
      BY DEF CollectExclusive, Collecting
<1>2. PICK rows \in Seq(Item) : rows = Contents(Head(todo))
      BY <1>1, ToCollectHead, ContentsTyped
<1>3. sections' = AddRows(sections, rows) /\ Measure(rows)
      BY <1>2 DEF CollectExclusive
<1>4. longest \in Nat /\ SectionsOK(sections, longest)  BY DEF HInv, CollectedOK
<1>5. longest' \in Nat /\ longest <= longest' /\ rows \in Seq(Narrow(longest'))
      BY <1>3, <1>4, MeasureTyped
<1>6. SectionsOK(sections, longest')  BY <1>4, <1>5, Widen
<1>7. sections' \in Seq(Section(longest')) /\ SamePlaces(sections, sections')
      BY <1>3, <1>5, <1>6, AddRowsKeeps
<1>8. /\ SectionsOK(sections', longest') /\ Kept(sections, sections')
      /\ CommandSection(sections') <=> CommandSection(sections)
      BY <1>6, <1>7, SamePlacesKeep DEF Kept
<1>9. CollectedOK'  BY <1>1, <1>5, <1>8 DEF HInv, CollectedOK, CommandSection
<1> QED  BY <1>1, <1>8, <1>9, CollectKeeps

LEMMA PrefixIs ==
    ASSUME NEW T, NEW a \in Seq(T), NEW b \in Seq(T)
    PROVE  IsPrefix(a, b) <=> Len(a) <= Len(b) /\ \A k \in 1..Len(a) : a[k] = b[k]
<1>1. PICK n \in Nat : n = Len(a)  OBVIOUS
<1>2. SubSeq(a, 1, n) = a  BY <1>1, SubSeqFull
<1>3. ASSUME n <= Len(b)
      PROVE  /\ SubSeq(b, 1, n) \in Seq(T) /\ Len(SubSeq(b, 1, n)) = n
             /\ \A k \in 1..n : SubSeq(b, 1, n)[k] = b[k]
  <2>1. \A k \in 1..n : b[k] \in T  BY <1>1, <1>3
  <2>2. /\ SubSeq(b, 1, n) \in Seq(T)
        /\ Len(SubSeq(b, 1, n)) = IF 1 <= n THEN n - 1 + 1 ELSE 0
        /\ \A k \in 1..n - 1 + 1 : SubSeq(b, 1, n)[k] = b[1 + k - 1]
        BY <1>1, <2>1, SubSeqProperties
  <2> QED  BY <1>1, <2>2
<1>4. ASSUME n <= Len(b), \A k \in 1..n : a[k] = b[k]  PROVE SubSeq(b, 1, n) = a
  <2>1. PICK c \in Seq(T) : c = SubSeq(b, 1, n)  BY <1>3, <1>4
  <2>2. Len(c) = Len(a) /\ \A k \in 1..Len(a) : c[k] = a[k]  BY <1>1, <1>3, <1>4, <2>1
  <2>3. c = a  BY <2>2, SeqEqual
  <2> QED  BY <2>1, <2>3
<1>5. ASSUME IsPrefix(a, b)  PROVE Len(a) <= Len(b) /\ \A k \in 1..Len(a) : a[k] = b[k]
  <2>1. n <= Len(b) /\ a = SubSeq(b, 1, n)  BY <1>1, <1>2, <1>5 DEF IsPrefix
  <2> QED  BY <1>1, <1>3, <2>1
<1> QED  BY <1>1, <1>2, <1>4, <1>5 DEF IsPrefix

LEMMA GrownTwice ==
    ASSUME NEW n, NEW s, NEW t, NEW u, SectionsOK(s, n), SectionsOK(t, n), SectionsOK(u, n),
           Grown(s, t), SamePlaces(t, u)
    PROVE  Grown(s, u)
<1> SUFFICES ASSUME NEW k \in 1..Len(s)
             PROVE  \E j \in 1..Len(u) : u[j].title = s[k].title /\ IsPrefix(s[k].rows, u[j].rows)
    BY DEF Grown
<1>1. PICK j \in 1..Len(t) : t[j].title = s[k].title /\ IsPrefix(s[k].rows, t[j].rows)
      BY DEF Grown
<1>2. j \in 1..Len(u) /\ u[j].title = t[j].title /\ IsPrefix(t[j].rows, u[j].rows)
      BY DEF SamePlaces
<1>3. PICK a, b, c : a = s[k].rows /\ b = t[j].rows /\ c = u[j].rows  OBVIOUS
<1>4. a \in Seq(Narrow(n)) /\ b \in Seq(Narrow(n)) /\ c \in Seq(Narrow(n))
      BY <1>2, <1>3, SectionTyped
<1>5. IsPrefix(a, b) /\ IsPrefix(b, c)  BY <1>1, <1>2, <1>3
<1>6. Len(a) <= Len(b) /\ Len(b) <= Len(c)
      /\ (\A l \in 1..Len(a) : a[l] = b[l]) /\ (\A l \in 1..Len(b) : b[l] = c[l])
      BY <1>4, <1>5, PrefixIs
<1>7. Len(a) <= Len(c) /\ \A l \in 1..Len(a) : a[l] = c[l]  BY <1>4, <1>6
<1>8. IsPrefix(a, c)  BY <1>4, <1>7, PrefixIs
<1> QED  BY <1>1, <1>2, <1>3, <1>8

LEMMA CollectCommandKeeps ==
    ASSUME HInv, CollectCommand
    PROVE  HInv' /\ (LinesFit => LinesFit') /\ Kept(sections, sections')
<1>1. phase = "collect" /\ todo # << >> /\ Collected /\ commands_printed' = TRUE
      BY DEF CollectCommand, Collecting
<1>2. PICK c \in Item : c = Head(todo)  BY <1>1, ToCollectHead
<1> DEFINE t == IF CommandSection(sections) THEN sections
                ELSE InsertAt(sections, 3, [title |-> Placeholder, rows |-> << >>])
<1>3. sections' = AddRow(t, 3, c) /\ Measure(<<c>>)  BY <1>2 DEF CollectCommand
<1>4. longest \in Nat /\ SectionsOK(sections, longest)  BY DEF HInv, CollectedOK
<1>5. longest' \in Nat /\ longest <= longest' /\ <<c>> \in Seq(Narrow(longest'))
      BY <1>3, <1>4, One, MeasureTyped
<1>6. c \in Narrow(longest')
  <2>1. PICK s : s = <<c>>  OBVIOUS
  <2>2. s[1] \in Narrow(longest')  BY <1>5, <2>1
  <2> QED  BY <2>1, <2>2
<1>7. SectionsOK(sections, longest')  BY <1>4, <1>5, Widen
<1>8. SectionsOK(t, longest') /\ CommandSection(t) /\ Kept(sections, t)
  <2>1. CASE CommandSection(sections)
    <3>1. Grown(sections, sections)
      <4>1. \A k \in 1..Len(sections) : IsPrefix(sections[k].rows, sections[k].rows)
            BY <1>7, SectionTyped, PrefixOfConcat
      <4> QED  BY <4>1 DEF Grown
    <3>2. TitlesFrom(sections, sections, Placeholder)  BY DEF TitlesFrom
    <3> QED  BY <1>7, <2>1, <3>1, <3>2 DEF Kept
  <2>2. CASE ~CommandSection(sections)  BY <1>7, <2>2, InsertKeeps DEF Kept
  <2> QED  BY <2>1, <2>2
<1> HIDE DEF t
<1>9. 3 \in 1..Len(t)  BY <1>8 DEF CommandSection, SectionsOK
<1>10. sections' \in Seq(Section(longest')) /\ SamePlaces(t, sections')
       BY <1>3, <1>6, <1>8, <1>9, AddRowKeeps
<1>11. /\ SectionsOK(sections', longest') /\ CommandSection(sections')
       /\ TitlesOK(t) => TitlesOK(sections')
       BY <1>8, <1>10, SamePlacesKeep
<1>12. Grown(sections, sections')  BY <1>7, <1>8, <1>10, <1>11, GrownTwice DEF Kept
<1>13. TitlesFrom(sections, sections', Placeholder)
       BY <1>8, <1>10 DEF Kept, TitlesFrom, SamePlaces
<1>14. Kept(sections, sections')  BY <1>8, <1>11, <1>12, <1>13 DEF Kept
<1>15. CollectedOK'  BY <1>1, <1>5, <1>11 DEF CollectedOK, CommandSection
<1> QED  BY <1>1, <1>14, <1>15, CollectKeeps

LEMMA CollectNamedGroupKeeps ==
    ASSUME HInv, CollectNamedGroup
    PROVE  /\ HInv' /\ (LinesFit => LinesFit')
           /\ KindOf(Head(todo)) = "named" /\ Titled(sections, sections', Head(todo))
<1>1. phase = "collect" /\ todo # << >> /\ Collected /\ UNCHANGED commands_printed
      /\ KindOf(Head(todo)) = "named"
      BY DEF CollectNamedGroup, Collecting
<1>2. PICK g \in Item : g = Head(todo)  BY <1>1, ToCollectHead
<1>3. PICK rows \in Seq(Item) : rows = Contents(g)  BY ContentsTyped
<1>4. sections' = Append(sections, [title |-> g, rows |-> rows]) /\ Measure(rows)
      BY <1>2, <1>3 DEF CollectNamedGroup
<1>5. longest \in Nat /\ SectionsOK(sections, longest)  BY DEF HInv, CollectedOK
<1>6. longest' \in Nat /\ longest <= longest' /\ rows \in Seq(Narrow(longest'))
      BY <1>4, <1>5, MeasureTyped
<1>7. SectionsOK(sections, longest')  BY <1>5, <1>6, Widen
<1>8. g # Placeholder  BY <1>1, <1>2, PrintableType DEF KindOf
<1>9. /\ SectionsOK(sections', longest') /\ Titled(sections, sections', g)
      /\ CommandSection(sections') <=> CommandSection(sections)
  <2>1. PICK s, n : s = sections /\ n = longest'  OBVIOUS
  <2>2. PICK new : new = [title |-> g, rows |-> rows]  OBVIOUS
  <2>3. new \in Section(n) /\ new.title = g  BY <1>6, <2>1, <2>2 DEF Section
  <2>4. PICK t : t = Append(s, new)  OBVIOUS
  <2>5. SectionsOK(s, n) /\ sections' = t  BY <1>4, <1>7, <2>1, <2>2, <2>4
  <2>6. /\ SectionsOK(t, n) /\ Grown(s, t) /\ TitlesFrom(s, t, g)
        /\ CommandSection(t) <=> CommandSection(s)
        /\ TitlesOK(s) /\ Untitled(s, g) => TitlesOK(t)
        BY <1>8, <2>3, <2>4, <2>5, AppendKeeps
  <2> QED  BY <2>1, <2>5, <2>6 DEF Titled
<1>10. CollectedOK'  BY <1>1, <1>6, <1>9 DEF HInv, CollectedOK, CommandSection
<1> QED  BY <1>1, <1>2, <1>9, <1>10, CollectKeeps

LEMMA SkipKeeps ==
    ASSUME HInv, SkipCommand \/ SkipNamedGroup
    PROVE  HInv' /\ (LinesFit => LinesFit') /\ UNCHANGED sections
<1>1. phase = "collect" /\ todo # << >> /\ Collected /\ UNCHANGED collected
      BY DEF SkipCommand, SkipNamedGroup, Collecting
<1>2. CollectedOK'  BY <1>1, SameCollected DEF HInv
<1> QED  BY <1>1, <1>2, CollectKeeps DEF collected


LEMMA SomeOf ==
    ASSUME NEW T, NEW s \in Seq(T), NEW f, f = [j \in DOMAIN s |-> f[j]],
           \A j \in DOMAIN s : f[j] \in {<<s[j]>>, << >>}
    PROVE  FlattenSeq(f) \in Seq(T)
<1>1. DOMAIN s = 1..Len(s) /\ Len(s) \in Nat /\ \A j \in DOMAIN s : s[j] \in T  OBVIOUS
<1>2. \A j \in DOMAIN s : f[j] \in Seq(T)  BY <1>1, One
<1>3. f \in Seq(Seq(T))  BY <1>1, <1>2
<1> QED  BY <1>3, FlattenTyped

\* The sections that are printed when there are no commands, and those of groups.
GeneralOrder == Those(<<1, 2>>, LAMBDA k : sections[k].rows # << >>)
GroupsOrder == Those([k \in 1..Len(sections) - 2 |-> k + 2],
                     LAMBDA k : sections[k].title # Placeholder)

LEMMA OrderTyped ==
    ASSUME Len(sections) \in Nat, Len(sections) >= 2
    PROVE  GeneralOrder \in Seq(1..Len(sections)) /\ GroupsOrder \in Seq(1..Len(sections))
<1>0. PICK n \in Nat : n = Len(sections) /\ n >= 2  OBVIOUS
<1>1. GeneralOrder \in Seq(1..n)
  <2>1. PICK s \in Seq(1..n) : s = <<1, 2>>
    <3>1. 1 \in 1..n /\ 2 \in 1..n  BY <1>0
    <3>2. <<1, 2>> \in Seq(1..n)  BY <3>1
    <3> QED  BY <3>2
  <2> DEFINE f == [j \in DOMAIN <<1, 2>> |->
                      IF sections[<<1, 2>>[j]].rows # << >> THEN <<<<1, 2>>[j]>> ELSE << >>]
  <2>2. GeneralOrder = FlattenSeq(f)  BY DEF GeneralOrder, Those
  <2>3. f = [j \in DOMAIN s |-> f[j]] /\ \A j \in DOMAIN s : f[j] \in {<<s[j]>>, << >>}
        BY <2>1
  <2> HIDE DEF f
  <2> QED  BY <2>2, <2>3, SomeOf
<1>2. GroupsOrder \in Seq(1..n)
  <2>1. PICK s \in Seq(1..n) : s = [k \in 1..Len(sections) - 2 |-> k + 2]
    <3>1. \A k \in 1..n - 2 : k + 2 \in 1..n  BY <1>0
    <3>2. n - 2 \in Nat  BY <1>0
    <3>3. [k \in 1..n - 2 |-> k + 2] \in Seq(1..n)  BY <3>1, <3>2
    <3> QED  BY <1>0, <3>3
  <2> DEFINE all == [k \in 1..Len(sections) - 2 |-> k + 2]
             f == [j \in DOMAIN all |->
                      IF sections[all[j]].title # Placeholder THEN <<all[j]>> ELSE << >>]
  <2>2. GroupsOrder = FlattenSeq(f)  BY DEF GroupsOrder, Those
  <2>3. f = [j \in DOMAIN s |-> f[j]] /\ \A j \in DOMAIN s : f[j] \in {<<s[j]>>, << >>}
        BY <2>1
  <2> HIDE DEF f
  <2> QED  BY <2>2, <2>3, SomeOf
<1> QED  BY <1>0, <1>1, <1>2

LEMMA EndCollectKeeps ==
    ASSUME HInv, EndCollect
    PROVE  HInv' /\ (LinesFit => LinesFit') /\ UNCHANGED sections
<1>1. ConfigOK /\ LinesOK /\ CollectedOK /\ todo \in Seq(Item) /\ printed = << >>
      BY DEF HInv, SynopsisOK, TodoOK, OutputOK, EndCollect
<1>2. UNCHANGED <<program, contexts, width, todo, layout, collected, printed>>
      /\ phase' = "sections"
      BY DEF EndCollect
<1>3. ConfigOK' /\ CollectedOK'  BY <1>1, <1>2, SameConfig, SameCollected
<1>4. PhaseOK' /\ SynopsisOK' /\ (LinesFit => LinesFit')
      BY <1>1, <1>2, SameLayout DEF PhaseOK, SynopsisOK
<1>5. TodoOK'  BY <1>1, <1>2 DEF TodoOK
<1>6. sections' = sections  BY <1>2 DEF collected
<1>7. order' \in Seq(1..Len(sections))
  <2>1. Len(sections) \in Nat /\ Len(sections) >= 2
        BY <1>1 DEF CollectedOK, SectionsOK
  <2>2. order' = (IF commands_printed THEN <<3>> ELSE GeneralOrder) \o GroupsOrder
        BY DEF EndCollect, GeneralOrder, GroupsOrder
  <2>3. (IF commands_printed THEN <<3>> ELSE GeneralOrder) \in Seq(1..Len(sections))
    <3>1. commands_printed => 3 \in 1..Len(sections)
          BY <1>1, <2>1 DEF CollectedOK, CommandSection
    <3> QED  BY <2>1, <3>1, OrderTyped, One
  <2> QED  BY <2>1, <2>2, <2>3, OrderTyped, ConcatProperties
<1>8. OutputOK'
  <2>1. printed' \in Seq(Printout')  BY <1>1, <1>2, EmptySeq
  <2> QED  BY <1>2, <1>6, <1>7, <2>1 DEF OutputOK
<1> QED  BY <1>3, <1>4, <1>5, <1>6, <1>8 DEF HInv

LEMMA PrintSectionKeeps ==
    ASSUME HInv, PrintSection
    PROVE  HInv' /\ (LinesFit => LinesFit') /\ UNCHANGED sections
<1>1. ConfigOK /\ LinesOK /\ CollectedOK /\ todo \in Seq(Item) /\ OutputOK
      BY DEF HInv, SynopsisOK, TodoOK, PrintSection
<1>2. UNCHANGED <<phase, program, contexts, width, todo, layout, collected>>
      /\ phase = "sections"
      BY DEF PrintSection
<1>3. ConfigOK' /\ CollectedOK'  BY <1>1, <1>2, SameConfig, SameCollected
<1>4. PhaseOK' /\ SynopsisOK' /\ (LinesFit => LinesFit')
      BY <1>1, <1>2, SameLayout DEF PhaseOK, SynopsisOK
<1>5. TodoOK'  BY <1>1, <1>2 DEF TodoOK
<1>6. sections' = sections /\ longest' = longest  BY <1>2 DEF collected
<1>7. order \in Seq(1..Len(sections)) /\ order # << >>  BY <1>1 DEF OutputOK, PrintSection
<1>8. PICK j \in 1..Len(sections) : j = Head(order)  BY <1>7, HeadTailProperties
<1>9. order' \in Seq(1..Len(sections))  BY <1>7, HeadTailProperties DEF PrintSection
<1>10. printed' \in Seq(Printout)
  <2> DEFINE rows == [k \in DOMAIN sections[j].rows |-> Row(sections[j].rows[k])]
             new == [title |-> sections[j].title, rows |-> rows]
  <2>1. /\ sections[j].rows \in Seq(Narrow(longest))
        /\ sections[j].title \in Item \cup {"positional", "optional"}
        BY <1>1, SectionTyped DEF CollectedOK, Section
  <2>2. rows \in Seq({Row(i) : i \in Narrow(longest)})
    <3>1. PICK a \in Seq(Narrow(longest)) : a = sections[j].rows  BY <2>1
    <3>2. /\ DOMAIN a = 1..Len(a) /\ Len(a) \in Nat
          /\ \A k \in DOMAIN a : Row(a[k]) \in {Row(i) : i \in Narrow(longest)}
          OBVIOUS
    <3> QED  BY <3>1, <3>2
  <2> HIDE DEF rows
  <2>3. new \in Printout  BY <2>1, <2>2 DEF Printout
  <2> HIDE DEF new
  <2>4. printed' = Append(printed, new)  BY <1>8 DEF PrintSection, new, rows
  <2>5. printed \in Seq(Printout)  BY <1>1 DEF OutputOK
  <2> QED  BY <2>3, <2>4, <2>5, AppendProperties
<1>11. Printout' = Printout  BY <1>6 DEF Printout, Row, DescriptionColumn, Narrow
<1>12. OutputOK'  BY <1>2, <1>6, <1>9, <1>10, <1>11 DEF OutputOK
<1> QED  BY <1>3, <1>4, <1>5, <1>6, <1>12 DEF HInv

\* The end of the help, and nothing after it.
LEMMA RestKeeps ==
    ASSUME HInv,
           \/ EndHelp
           \/ UNCHANGED vars
    PROVE  /\ HInv' /\ UNCHANGED <<sections, todo>>
           /\ phase # "usage" => phase' # "usage" /\ (LinesFit => LinesFit')
           /\ phase = "usage" <=> phase' = "usage"
           /\ phase = "collect" <=> phase' = "collect"
<1>1. UNCHANGED <<program, contexts, width, todo, layout, collected, order, printed>>
      BY DEF EndHelp, vars, output
<1>2. phase' = phase \/ (phase = "sections" /\ phase' = "done")  BY DEF EndHelp, vars
<1>3. ConfigOK' /\ CollectedOK' /\ Accepted' = Accepted
      BY <1>1, SameConfig, SameCollected DEF HInv
<1>4. PhaseOK' /\ SynopsisOK' /\ (phase # "usage" => (LinesFit => LinesFit'))
  <2>1. CASE phase = "usage"  BY <1>1, <1>2, <2>1 DEF HInv, PhaseOK, SynopsisOK, layout
  <2>2. CASE phase # "usage"
    <3>1. LinesOK /\ PhaseOK  BY <2>2 DEF HInv, SynopsisOK
    <3>2. LinesOK' /\ (LinesFit => LinesFit')  BY <1>1, <3>1, SameLayout
    <3> QED  BY <1>2, <2>2, <3>1, <3>2 DEF PhaseOK, SynopsisOK
  <2> QED  BY <2>1, <2>2
<1>5. TodoOK'  BY <1>1, <1>2, <1>3 DEF HInv, TodoOK
<1>6. sections' = sections /\ longest' = longest  BY <1>1 DEF collected
<1>7. Printout' = Printout  BY <1>6 DEF Printout, Row, DescriptionColumn, Narrow
<1>8. OutputOK'  BY <1>1, <1>2, <1>6, <1>7 DEF HInv, OutputOK
<1> QED  BY <1>1, <1>2, <1>3, <1>4, <1>5, <1>6, <1>8 DEF HInv


-----------------------------------------------------------------------------
(* The theorems. *)

LEMMA InvariantKept ==
    ASSUME HInv, [Next]_vars
    PROVE  HInv' /\ (UsageWidth <= MaxCol /\ FitInv => FitInv')
<1>1. CASE PrintUsage
  <2>1. phase = "usage"  BY <1>1 DEF PrintUsage
  <2> QED  BY <1>1, <2>1, PrintUsageKeeps DEF FitInv
<1>2. CASE EndHelp \/ UNCHANGED vars  BY <1>2, RestKeeps DEF FitInv
<1>3. ASSUME \/ PrintDefaultHelp \/ PrintPlaceholder \/ PrintOption \/ EndSynopsis
             \/ CollectOption \/ CollectCommand \/ SkipCommand \/ CollectExclusive
             \/ SkipNamedGroup \/ CollectNamedGroup \/ EndCollect \/ PrintSection
      PROVE  HInv' /\ (FitInv => FitInv')
  <2>1. phase # "usage"
        BY <1>3 DEF PrintDefaultHelp, PrintPlaceholder, PrintOption, EndSynopsis,
           CollectOption, CollectCommand, SkipCommand, CollectExclusive, SkipNamedGroup,
           CollectNamedGroup, Collecting, EndCollect, PrintSection
  <2>2. HInv' /\ (LinesFit => LinesFit')
        BY <1>3, PrintDefaultHelpKeeps, PrintPlaceholderKeeps, PrintOptionKeeps,
           EndSynopsisKeeps, CollectOptionKeeps, CollectCommandKeeps, SkipKeeps,
           CollectExclusiveKeeps, CollectNamedGroupKeeps, EndCollectKeeps, PrintSectionKeeps
  <2> QED  BY <2>1, <2>2 DEF FitInv
<1> QED  BY <1>1, <1>2, <1>3 DEF Next, Synopsis, Collect

THEOREM Invariant == Spec => []HInv
<1>1. Init => HInv  BY InitTyped
<1>2. HInv /\ [Next]_vars => HInv'  BY InvariantKept
<1> QED  BY <1>1, <1>2, PTL DEF Spec

\* The lists that print_help() works on hold options, groups and commands of the
\* program; the section of the commands is the third as soon as there is one, and
\* there is a section for each number in the order they are printed in.
THEOREM HelpIsTyped == Spec => []HTypeOK
<1>1. ASSUME HInv  PROVE HTypeOK
  <2>1. \A k \in DOMAIN todo : todo[k] \in Item  BY <1>1 DEF HInv, TodoOK
  <2>2. ASSUME phase # "usage"  PROVE column <= lines[Len(lines)].used
    <3>1. LinesOK /\ ConfigOK  BY <1>1, <2>2 DEF HInv, SynopsisOK
    <3>2. lines \in Seq(Line) /\ lines # << >>  BY <3>1 DEF LinesOK
    <3>3. Len(lines) \in 1..Len(lines)  BY <3>2, EmptySeq
    <3>4. PICK n \in 1..Len(lines) : n = Len(lines)  BY <3>3
    <3>5. Slack(n) \in Nat  BY <3>1, LineTyped
    <3>6. column \in Nat /\ lines[n].used = column + Slack(n)  BY <3>1, <3>4 DEF LinesOK
    <3> QED  BY <3>4, <3>5, <3>6
  <2>3. sections[1].title = "positional" /\ sections[2].title = "optional"
        /\ (commands_printed <=> CommandSection(sections))
        BY <1>1 DEF HInv, CollectedOK, SectionsOK
  <2>4. \A k \in DOMAIN order : order[k] \in 1..Len(sections)
        BY <1>1 DEF HInv, OutputOK
  <2> QED  BY <2>1, <2>2, <2>3, <2>4 DEF HTypeOK
<1> QED  BY <1>1, Invariant, PTL

\* However wide the options of a program are, a line of the usage is wider than
\* max_col_width by no more than what print_option_final() did not count: the item
\* that broke the line before it or, on the first line, the part of the program's
\* name that is after the margin; for a usage text that fits the width.
THEOREM LinesOverrun ==
    ASSUME UsageWidth <= MaxCol
    PROVE  Spec => []LinesOverrunByOneItem
<1>1. Init => FitInv  BY DEF Init, FitInv
<1>2. HInv /\ FitInv /\ [Next]_vars => FitInv'  BY InvariantKept
<1>3. HInv /\ FitInv => LinesOverrunByOneItem
  <2> SUFFICES ASSUME HInv, FitInv, NEW k \in DOMAIN lines
               PROVE  lines[k].used <= MaxCol + Slack(k)
      BY DEF LinesOverrunByOneItem, Slack
  <2>1. phase # "usage"  BY DEF HInv, SynopsisOK
  <2>2. LinesFit /\ lines \in Seq(Line)
        BY <2>1 DEF HInv, FitInv, SynopsisOK, LinesOK
  <2>3. k \in 1..Len(lines)  BY <2>2
  <2> QED  BY <2>2, <2>3 DEF LinesFit
<1> QED  BY <1>1, <1>2, <1>3, Invariant, PTL DEF Spec

\* print_options_and_descs() starts every description of a help in one column, at
\* most max_option_col_width, and on a row of its own just where the names come
\* within two columns of that limit.
THEOREM DescriptionsAreAligned == Spec => []DescriptionsAlign
<1>1. ASSUME HInv  PROVE DescriptionsAlign
  <2> SUFFICES ASSUME NEW s \in DOMAIN printed, NEW r \in DOMAIN printed[s].rows
               PROVE  LET row == printed[s].rows[r] IN
                      /\ row.at = DescriptionColumn /\ row.at <= MaxOptionCol
                      /\ row.newline <=> RowWidth(row.item) + 2 > MaxOptionCol
      BY DEF DescriptionsAlign
  <2>1. printed \in Seq(Printout) /\ longest \in Nat
        BY <1>1 DEF HInv, OutputOK, CollectedOK
  <2>2. printed[s].rows \in Seq({Row(i) : i \in Narrow(longest)})
    <3>1. printed[s] \in Printout  BY <2>1
    <3> QED  BY <3>1 DEF Printout
  <2>3. PICK i \in Narrow(longest) : printed[s].rows[r] = Row(i)  BY <2>2
  <2>4. PICK w \in Nat : w = RowWidth(i) /\ w >= 2 /\ w <= longest
        BY RowWidthTyped DEF Narrow
  <2>5. PICK c \in Nat : c = DescriptionColumn /\ c <= MaxOptionCol
                         /\ c = (IF longest + 2 < MaxOptionCol THEN longest + 2 ELSE MaxOptionCol)
        BY <2>1, PrintableType DEF DescriptionColumn
  <2>6. MaxOptionCol \in Nat  BY PrintableType
  <2>7. PICK spacing \in Int : spacing = IF w <= c - 2 THEN c - 2 - w + 2 ELSE c
    <3>1. (IF w <= c - 2 THEN c - 2 - w + 2 ELSE c) \in Int  OBVIOUS
    <3> QED  BY <3>1
  <2>8. Row(i) = [item |-> i, newline |-> spacing = c,
                  at |-> (IF spacing = c THEN 0 ELSE w) + spacing]
        BY <2>4, <2>5, <2>7 DEF Row
  <2>9. (IF spacing = c THEN 0 ELSE w) + spacing = c  BY <2>4, <2>7
  <2>10. (spacing = c) <=> w + 2 > MaxOptionCol  BY <2>1, <2>4, <2>5, <2>6, <2>7
  <2>11. Row(i).at = c /\ Row(i).item = i  BY <2>8, <2>9
  <2>12. Row(i).newline = (spacing = c)  BY <2>8
  <2> QED  BY <2>3, <2>4, <2>5, <2>10, <2>11, <2>12
<1> QED  BY <1>1, Invariant, PTL


LEMMA GrownItself ==
    ASSUME HInv, UNCHANGED sections
    PROVE  Grown(sections, sections')
<1>1. SectionsOK(sections, longest)  BY DEF HInv, CollectedOK
<1>2. \A k \in 1..Len(sections) : IsPrefix(sections[k].rows, sections[k].rows)
      BY <1>1, SectionTyped, PrefixOfConcat
<1> QED  BY <1>2 DEF Grown

\* What a help collects does not change, nor does it before the options are met.
LEMMA SynopsisGroups ==
    ASSUME HInv, GroupsInv, Synopsis
    PROVE  GroupsInv' /\ UNCHANGED sections
<1>1. UNCHANGED <<program, contexts, width, collected>>
      BY DEF Synopsis, PrintUsage, PrintDefaultHelp, PrintPlaceholder, PrintOption, EndSynopsis
<1>2. GroupsOnce'
  <2>1. Described' = Described  BY <1>1, SameConfig
  <2>2. ToCollect' = ToCollect  BY <2>1 DEF ToCollect
  <2> QED  BY <2>2 DEF GroupsInv, GroupsOnce
<1>3. sections' = sections  BY <1>1 DEF collected
<1>4. TitlesOK(sections') /\ Len(sections') = 2
      BY <1>3 DEF GroupsInv, Synopsis, PrintUsage, PrintDefaultHelp, PrintPlaceholder,
         PrintOption, EndSynopsis
<1>5. ASSUME phase' = "collect"
      PROVE  /\ NamedOnce(todo')
             /\ \A k \in 1..Len(todo') : KindOf(todo'[k]) = "named" => Untitled(sections', todo'[k])
  <2>1. EndSynopsis /\ ConfigOK
        BY <1>5 DEF HInv, Synopsis, PrintUsage, PrintDefaultHelp, PrintPlaceholder, PrintOption
  <2>2. PICK a \in {<<DefaultHelp>>, << >>} : todo' = a \o ToCollect
        BY <2>1 DEF EndSynopsis, ToCollect
  <2>3. PICK c \in Seq(Item) : c = ToCollect /\ NamedOnce(c)
        BY <2>1, CollectListTyped DEF GroupsInv, GroupsOnce
  <2>4. KindOf(DefaultHelp) # "named" /\ DefaultHelp \in Item
        BY PrintableType DEF KindOf
  <2>5. a \in Seq(Item)  BY <2>4, One
  <2>6. /\ todo' \in Seq(Item) /\ Len(todo') = Len(a) + Len(c)
        /\ \A k \in 1..Len(a) + Len(c) : todo'[k] = IF k <= Len(a) THEN a[k] ELSE c[k - Len(a)]
        BY <2>2, <2>3, <2>5, ConcatProperties
  <2>7. PICK m \in Nat : m = Len(a) /\ \A k \in 1..m : KindOf(a[k]) # "named"
        BY <2>4
  <2>8. PICK n \in Nat : n = Len(c)  OBVIOUS
  <2>9. \A k \in 1..m + n : KindOf(todo'[k]) = "named" =>
            k - m \in 1..n /\ todo'[k] = c[k - m]
        BY <2>6, <2>7, <2>8
  <2>10. NamedOnce(todo')
    <3> SUFFICES ASSUME NEW j \in 1..m + n, NEW k \in 1..m + n,
                        KindOf(todo'[j]) = "named", todo'[j] = todo'[k]
                 PROVE  j = k
        BY <2>6, <2>7, <2>8 DEF NamedOnce
    <3>1. j - m \in 1..n /\ k - m \in 1..n /\ c[j - m] = c[k - m] /\ KindOf(c[j - m]) = "named"
          BY <2>9
    <3>2. j - m = k - m  BY <2>3, <2>8, <3>1 DEF NamedOnce
    <3> QED  BY <3>2
  <2>11. ASSUME NEW k \in 1..Len(todo')  PROVE Untitled(sections', todo'[k])
    <3>1. todo'[k] \in Item  BY <2>6
    <3>2. \A l \in 1..Len(sections) : sections[l].title \notin Item
      <4>1. SectionsOK(sections, longest)  BY DEF HInv, CollectedOK
      <4>2. sections[1].title \notin Item /\ sections[2].title \notin Item
            BY <4>1, PrintableType DEF SectionsOK
      <4>3. Len(sections) = 2  BY <1>3, <1>4
      <4>4. \A l \in 1..2 : l = 1 \/ l = 2  OBVIOUS
      <4> QED  BY <4>2, <4>3, <4>4
    <3> QED  BY <1>3, <3>1, <3>2 DEF Untitled
  <2> QED  BY <2>10, <2>11
<1>6. GroupsInv'  BY <1>2, <1>4, <1>5 DEF GroupsInv
<1> QED  BY <1>3, <1>6

\* A step that collects takes the first of what is to collect.
LEMMA CollectGroups ==
    ASSUME HInv, HInv', GroupsInv, phase = "collect", todo # << >>, Collected,
           \/ Kept(sections, sections')
           \/ UNCHANGED sections
           \/ KindOf(Head(todo)) = "named" /\ Titled(sections, sections', Head(todo))
    PROVE  GroupsInv' /\ Grown(sections, sections')
<1>1. UNCHANGED <<phase, program, contexts, width>> /\ todo' = Tail(todo)
      BY DEF Collected
<1>2. GroupsOnce'
  <2>1. Described' = Described  BY <1>1, SameConfig
  <2>2. ToCollect' = ToCollect  BY <2>1 DEF ToCollect
  <2> QED  BY <2>2 DEF GroupsInv, GroupsOnce
<1>3. PICK n \in Nat : n = Len(todo) /\ n > 0
  <2>1. todo \in Seq(Item)  BY DEF HInv, TodoOK
  <2> QED  BY <2>1, EmptySeq
<1>4. /\ Len(todo') = n - 1 /\ Head(todo) = todo[1]
      /\ \A k \in 1..n - 1 : todo'[k] = todo[k + 1] /\ todo[k + 1] \in Item
  <2>1. todo \in Seq(Item)  BY DEF HInv, TodoOK
  <2>2. \A k \in 1..n - 1 : k + 1 \in 1..n  BY <1>3
  <2> QED  BY <1>1, <1>3, <2>1, <2>2, HeadTailProperties
<1>5. /\ TitlesOK(sections) /\ NamedOnce(todo)
      /\ \A k \in 1..n : KindOf(todo[k]) = "named" => Untitled(sections, todo[k])
      BY <1>3 DEF GroupsInv
<1>6. NamedOnce(todo')
  <2> SUFFICES ASSUME NEW j \in 1..n - 1, NEW k \in 1..n - 1,
                      KindOf(todo'[j]) = "named", todo'[j] = todo'[k]
               PROVE  j = k
      BY <1>4 DEF NamedOnce
  <2>1. j + 1 \in 1..n /\ k + 1 \in 1..n  BY <1>3
  <2>2. j + 1 = k + 1  BY <1>3, <1>4, <1>5, <2>1 DEF NamedOnce
  <2> QED  BY <2>2
<1>7. ASSUME NEW g, TitlesFrom(sections, sections', g),
             NEW k \in 1..n - 1, KindOf(todo'[k]) = "named", todo'[k] # g
      PROVE  Untitled(sections', todo'[k])
  <2>1. k + 1 \in 1..n  BY <1>3
  <2>2. Untitled(sections, todo'[k])  BY <1>4, <1>5, <1>7, <2>1
  <2> QED  BY <1>7, <2>2 DEF TitlesFrom, Untitled
<1>8. /\ TitlesOK(sections') /\ Grown(sections, sections')
      /\ \A k \in 1..n - 1 : KindOf(todo'[k]) = "named" => Untitled(sections', todo'[k])
  <2>1. CASE Kept(sections, sections')
    <3>1. KindOf(Placeholder) # "named"  BY PrintableType DEF KindOf
    <3>2. TitlesFrom(sections, sections', Placeholder)  BY <2>1 DEF Kept
    <3>3. \A k \in 1..n - 1 : KindOf(todo'[k]) = "named" => Untitled(sections', todo'[k])
          BY <1>7, <3>1, <3>2
    <3> QED  BY <1>5, <2>1, <3>3 DEF Kept
  <2>2. CASE UNCHANGED sections
    <3>1. \A k \in 1..n - 1 : k + 1 \in 1..n  BY <1>3
    <3>2. \A k \in 1..n - 1 : KindOf(todo'[k]) = "named" => Untitled(sections', todo'[k])
          BY <1>4, <1>5, <2>2, <3>1
    <3>3. TitlesOK(sections')  BY <1>5, <2>2
    <3> QED  BY <2>2, <3>2, <3>3, GrownItself
  <2>3. CASE KindOf(Head(todo)) = "named" /\ Titled(sections, sections', Head(todo))
    <3>1. 1 \in 1..n  BY <1>3
    <3>2. Untitled(sections, Head(todo))  BY <1>4, <1>5, <2>3, <3>1
    <3>3. \A k \in 1..n - 1 : todo'[k] # Head(todo)
      <4> SUFFICES ASSUME NEW k \in 1..n - 1, todo'[k] = Head(todo)  PROVE FALSE  OBVIOUS
      <4>1. k + 1 \in 1..n /\ k + 1 # 1  BY <1>3
      <4>2. todo[1] = todo[k + 1] /\ KindOf(todo[1]) = "named"  BY <1>4, <2>3
      <4> QED  BY <1>3, <1>5, <3>1, <4>1, <4>2 DEF NamedOnce
    <3>4. TitlesFrom(sections, sections', Head(todo))  BY <2>3 DEF Titled
    <3>5. \A k \in 1..n - 1 : KindOf(todo'[k]) = "named" => Untitled(sections', todo'[k])
          BY <1>7, <3>3, <3>4
    <3> QED  BY <1>5, <2>3, <3>2, <3>5 DEF Titled
  <2> QED  BY <2>1, <2>2, <2>3
<1>9. GroupsInv'
  <2>1. phase' = "collect"  BY <1>1
  <2> QED  BY <1>2, <1>4, <1>6, <1>8, <2>1 DEF GroupsInv
<1> QED  BY <1>8, <1>9

LEMMA OtherGroups ==
    ASSUME HInv, GroupsInv, EndCollect \/ PrintSection \/ EndHelp \/ UNCHANGED vars
    PROVE  GroupsInv' /\ UNCHANGED sections
<1>1. UNCHANGED <<program, contexts, width, todo, sections>>
      BY DEF EndCollect, PrintSection, EndHelp, vars, collected
<1>2. GroupsOnce'
  <2>1. Described' = Described  BY <1>1, SameConfig
  <2>2. ToCollect' = ToCollect  BY <2>1 DEF ToCollect
  <2> QED  BY <2>2 DEF GroupsInv, GroupsOnce
<1>3. phase' = phase \/ phase' \in {"sections", "done"}
      BY DEF EndCollect, PrintSection, EndHelp, vars
<1> QED  BY <1>1, <1>2, <1>3 DEF GroupsInv

LEMMA GroupsKept ==
    ASSUME HInv, HInv', GroupsInv, [Next]_vars
    PROVE  GroupsInv' /\ Grown(sections, sections')
<1>1. CASE Synopsis  BY <1>1, SynopsisGroups, GrownItself
<1>2. CASE EndCollect \/ PrintSection \/ EndHelp \/ UNCHANGED vars
      BY <1>2, OtherGroups, GrownItself
<1>3. CASE CollectOption \/ CollectCommand \/ CollectExclusive
  <2>1. phase = "collect" /\ todo # << >> /\ Collected
        BY <1>3 DEF CollectOption, CollectCommand, CollectExclusive, Collecting
  <2>2. Kept(sections, sections')
        BY <1>3, CollectOptionKeeps, CollectCommandKeeps, CollectExclusiveKeeps
  <2> QED  BY <2>1, <2>2, CollectGroups
<1>4. CASE SkipCommand \/ SkipNamedGroup
  <2>1. phase = "collect" /\ todo # << >> /\ Collected
        BY <1>4 DEF SkipCommand, SkipNamedGroup, Collecting
  <2> QED  BY <1>4, <2>1, SkipKeeps, CollectGroups
<1>5. CASE CollectNamedGroup
  <2>1. phase = "collect" /\ todo # << >> /\ Collected
        BY <1>5 DEF CollectNamedGroup, Collecting
  <2> QED  BY <1>5, <2>1, CollectNamedGroupKeeps, CollectGroups
<1> QED  BY <1>1, <1>2, <1>3, <1>4, <1>5 DEF Next, Collect

\* What a program's help collects goes into sections that stay where they are or
\* move on, each with its title and its rows in their order, although the vector of
\* the sections grows in its middle while print_post_synopsis_option() holds
\* references into it; for the programs and contexts that meet no named group twice.
THEOREM RowsStay == Spec /\ GroupsOnce => RowsStayInTheirSection
<1>1. Init /\ GroupsOnce => GroupsInv
  <2> SUFFICES ASSUME Init, GroupsOnce  PROVE GroupsInv  OBVIOUS
  <2>1. Len(sections) = 2 /\ sections[1].title = "positional" /\ sections[2].title = "optional"
        BY DEF Init
  <2>2. \A k \in 1..2 : k = 1 \/ k = 2  OBVIOUS
  <2>3. Placeholder # "positional" /\ Placeholder # "optional"  BY PrintableType
  <2>4. TitlesOK(sections)  BY <2>1, <2>2, <2>3 DEF TitlesOK
  <2> QED  BY <2>1, <2>4 DEF Init, GroupsInv
<1>2. HInv /\ HInv' /\ GroupsInv /\ [Next]_vars => GroupsInv'  BY GroupsKept
<1>3. ASSUME HInv, HInv', GroupsInv, GroupsInv', [Next]_vars
      PROVE  \A k \in DOMAIN sections : \E j \in DOMAIN sections' :
                 /\ sections'[j].title = sections[k].title
                 /\ IsPrefix(sections[k].rows, sections'[j].rows)
                 /\ \A l \in DOMAIN sections' : sections'[l].title = sections[k].title => l = j
  <2>1. Grown(sections, sections') /\ TitlesOK(sections')  BY <1>3, GroupsKept DEF GroupsInv
  <2>2. DOMAIN sections = 1..Len(sections) /\ DOMAIN sections' = 1..Len(sections')
    <3>1. sections \in Seq(Section(longest))  BY <1>3 DEF HInv, CollectedOK, SectionsOK
    <3>2. sections' \in Seq(Section(longest'))
      <4>1. CollectedOK'  BY <1>3 DEF HInv
      <4>2. SectionsOK(sections', longest')  BY <4>1 DEF CollectedOK
      <4> QED  BY <4>2 DEF SectionsOK
    <3> QED  BY <3>1, <3>2
  <2> SUFFICES ASSUME NEW k \in DOMAIN sections
               PROVE  \E j \in DOMAIN sections' :
                          /\ sections'[j].title = sections[k].title
                          /\ IsPrefix(sections[k].rows, sections'[j].rows)
                          /\ \A l \in DOMAIN sections' :
                                sections'[l].title = sections[k].title => l = j
      OBVIOUS
  <2>3. PICK j \in 1..Len(sections') :
            sections'[j].title = sections[k].title
            /\ IsPrefix(sections[k].rows, sections'[j].rows)
        BY <2>1, <2>2 DEF Grown
  <2>4. \A l \in 1..Len(sections') : sections'[l].title = sections'[j].title => l = j
        BY <2>1 DEF TitlesOK
  <2> QED  BY <2>2, <2>3, <2>4
<1> QED  BY <1>1, <1>2, <1>3, Invariant, PTL DEF Spec, RowsStayInTheirSection

=============================================================================
