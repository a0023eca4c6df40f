------------------------------- MODULE Lemmas -------------------------------
(***************************************************************************)
(* Facts about numbers, sequences and sums that the proofs about several   *)
(* components use.                                                         *)
(***************************************************************************)
EXTENDS Integers, SequencesExt, SequenceTheorems, FiniteSetTheorems, NaturalsInduction, WellFoundedInduction, TLAPS

(* The least element of a set of numbers. *)

Less == {p \in Nat \X Nat : p[1] < p[2]}

(* Min of the library is what its name says, on natural numbers.            *)
LEMMA MinOfNats ==
    ASSUME NEW T, T \subseteq Nat, T # {}
    PROVE  Min(T) \in T /\ \A y \in T : Min(T) <= y
<1>1. IsWellFoundedOn(Less, Nat)
  BY NatLessThanWellFounded DEF OpToRel, Less
<1>2. PICK x \in T : \A y \in T : <<y, x>> \notin Less
  BY <1>1, WFMin
<1>3. \A y \in T : x <= y
  <2> SUFFICES ASSUME NEW y \in T PROVE x <= y
    OBVIOUS
  <2>1. x \in Nat /\ y \in Nat /\ <<y, x>> \notin Less
    BY <1>2
  <2> QED
    BY <2>1 DEF Less
<1> QED
  BY <1>3 DEF Min

(* So is Max, on a bounded set.                                             *)
LEMMA MaxOfNats ==
    ASSUME NEW n \in Nat, NEW T, T \subseteq 0 .. n, T # {}
    PROVE  Max(T) \in T /\ \A y \in T : Max(T) >= y
<1> DEFINE U == {k \in Nat : n - k \in T}
<1>1. U \subseteq Nat /\ U # {}
  <2>1. PICK x \in T : TRUE
    OBVIOUS
  <2>2. x \in 0 .. n
    BY <2>1
  <2>3. n - x \in Nat /\ n - (n - x) = x
    BY <2>2
  <2>4. n - x \in U
    BY <2>1, <2>3
  <2> QED
    BY <2>4
<1>2. PICK k \in U : \A y \in U : k <= y
  BY <1>1, MinOfNats
<1>3. \A y \in T : n - k >= y
  <2> TAKE y \in T
  <2>1. y \in 0 .. n
    OBVIOUS
  <2>2. n - y \in Nat /\ n - (n - y) = y
    BY <2>1
  <2>3. k <= n - y /\ k \in Nat
    BY <1>2, <2>2
  <2> QED
    BY <2>1, <2>3
<1>4. n - k \in T
  BY <1>2
<1>5. \E x \in T : \A y \in T : x >= y
  BY <1>3, <1>4
<1> QED
  BY <1>5 DEF Max

(* The smaller of two numbers.                                              *)
LEMMA MinOfTwo ==
    ASSUME NEW a \in Nat, NEW b \in Nat
    PROVE  /\ Min({a, b}) \in Nat /\ Min({a, b}) <= a /\ Min({a, b}) <= b
           /\ Min({a, b}) = a \/ Min({a, b}) = b
<1>1. {a, b} \subseteq Nat /\ {a, b} # {}
  OBVIOUS
<1> QED
  BY <1>1, MinOfNats

----------------------------------------------------------------------------
(* Sums. *)

(* A sum over a set is the number of its pairs <<x, i>> with i below the    *)
(* x-th summand: so it does not depend on the order of the folding.         *)
Chosen(T)   == CHOOSE x \in T : TRUE
Column(f, x) == {x} \X (1 .. f[x])
Pairs(f, T) == UNION {Column(f, x) : x \in T}

(* Each column has as many pairs as its summand says, and a set of columns  *)
(* has finitely many.                                                       *)
LEMMA PairsFinite ==
    ASSUME NEW T, IsFiniteSet(T), NEW f \in [T -> Nat]
    PROVE  /\ IsFiniteSet(Pairs(f, T))
           /\ \A x \in T : IsFiniteSet(Column(f, x)) /\ Cardinality(Column(f, x)) = f[x]
<1>1. ASSUME NEW x \in T PROVE IsFiniteSet(Column(f, x)) /\ Cardinality(Column(f, x)) = f[x]
  <2>1. f[x] \in Nat
    OBVIOUS
  <2>2. IsFiniteSet({x}) /\ Cardinality({x}) = 1
    BY FS_Singleton
  <2>3. IsFiniteSet(1 .. f[x]) /\ Cardinality(1 .. f[x]) = f[x]
    BY <2>1, FS_Interval
  <2>4. 1 * f[x] = f[x]
    BY <2>1
  <2>5. /\ IsFiniteSet({x} \X (1 .. f[x]))
        /\ Cardinality({x} \X (1 .. f[x])) = Cardinality({x}) * Cardinality(1 .. f[x])
    BY <2>2, <2>3, FS_Product
  <2> QED
    BY <2>2, <2>3, <2>4, <2>5 DEF Column
<1> DEFINE U == {Column(f, x) : x \in T}
           h == [x \in T |-> Column(f, x)]
<1>2. h \in Surjection(T, U)
  BY DEF Surjection
<1>3. IsFiniteSet(U)
  <2> HIDE DEF U, h
  <2> QED
    BY <1>2, FS_Surjection
<1>4. \A V \in U : IsFiniteSet(V)
  BY <1>1
<1>5. IsFiniteSet(UNION U)
  <2> HIDE DEF U
  <2> QED
    BY <1>3, <1>4, FS_UNION
<1> QED
  BY <1>1, <1>5 DEF Pairs

(* A column more or less.                                                   *)
LEMMA PairsOfOneMore ==
    ASSUME NEW T, IsFiniteSet(T), NEW f \in [T -> Nat], NEW x \in T
    PROVE  /\ Cardinality(Pairs(f, T)) \in Nat /\ Cardinality(Pairs(f, T \ {x})) \in Nat
           /\ Cardinality(Pairs(f, T)) = f[x] + Cardinality(Pairs(f, T \ {x}))
<1> DEFINE P == Pairs(f, T \ {x})
           C == Column(f, x)
<1>1. Pairs(f, T) = C \cup P
  BY DEF Pairs
<1>2. C \cap P = {}
  BY DEF Pairs, Column
<1>3. /\ IsFiniteSet(Pairs(f, T)) /\ IsFiniteSet(C) /\ Cardinality(C) = f[x]
  BY PairsFinite
<1>4. IsFiniteSet(P) /\ f[x] \in Nat
  <2>1. P \in SUBSET Pairs(f, T)
    BY <1>1
  <2> QED
    BY <1>3, <2>1, FS_Subset
<1> HIDE DEF P, C
<1>5. Cardinality(C \cup P) = Cardinality(C) + Cardinality(P) - Cardinality(C \cap P)
  BY <1>3, <1>4, FS_Union
<1>6. Cardinality(C \cap P) = 0 /\ Cardinality(P) \in Nat /\ Cardinality(Pairs(f, T)) \in Nat
  BY <1>2, <1>3, <1>4, FS_EmptySet, FS_CardinalityType
<1>7. Cardinality(Pairs(f, T)) = f[x] + Cardinality(P)
  BY <1>1, <1>3, <1>4, <1>5, <1>6
<1> QED
  BY <1>6, <1>7 DEF P

(* What the fold of SumFunction defines.                                    *)
Folds(g, f, S) ==
    g = [T \in SUBSET S |-> IF T = {} THEN 0 ELSE f[Chosen(T)] + g[T \ {Chosen(T)}]]

(* One function at most is computed by a fold: two that differ would differ *)
(* on a smallest set.                                                       *)
LEMMA FoldIsUnique ==
    ASSUME NEW S, IsFiniteSet(S), NEW f, NEW g, NEW h,
           Folds(g, f, S), Folds(h, f, S)
    PROVE  g = h
<1> DEFINE Bad == {T \in SUBSET S : g[T] # h[T]}
           sizes == {Cardinality(T) : T \in Bad}
<1>1. \A T \in SUBSET S : IsFiniteSet(T) /\ Cardinality(T) \in Nat
  BY FS_Subset, FS_CardinalityType
<1>2. SUFFICES ASSUME Bad # {} PROVE FALSE
  BY <1>2 DEF Folds
<1>3. sizes \subseteq Nat /\ sizes # {}
  BY <1>1, <1>2
<1>4. PICK T \in Bad : \A V \in Bad : Cardinality(T) <= Cardinality(V)
  <2> HIDE DEF sizes
  <2>1. Min(sizes) \in sizes /\ \A n \in sizes : Min(sizes) <= n
    BY <1>3, MinOfNats
  <2>2. PICK T \in Bad : Cardinality(T) = Min(sizes)
    BY <2>1 DEF sizes
  <2>3. \A V \in Bad : Cardinality(V) \in sizes
    BY DEF sizes
  <2> QED
    BY <2>1, <2>2, <2>3
<1> DEFINE x == Chosen(T)
           less == T \ {x}
<1>5. T # {}
  BY <1>4 DEF Folds
<1>6. x \in T
  BY <1>5 DEF Chosen
<1>7. less \in SUBSET S /\ Cardinality(less) = Cardinality(T) - 1
  BY <1>1, <1>4, <1>6, FS_RemoveElement
<1>8. less \notin Bad
  <2>1. Cardinality(T) \in Nat
    BY <1>1, <1>4
  <2>2. ~ (Cardinality(T) <= Cardinality(less))
    BY <1>7, <2>1
  <2> QED
    BY <1>4, <2>2
<1>9. g[less] = h[less]
  BY <1>7, <1>8
<1>10. g[T] = f[x] + g[less] /\ h[T] = f[x] + h[less]
  <2>1. T \in SUBSET S
    BY <1>4
  <2> HIDE DEF less, x
  <2>2. /\ \A V \in SUBSET S : V # {} => g[V] = f[Chosen(V)] + g[V \ {Chosen(V)}]
        /\ \A V \in SUBSET S : V # {} => h[V] = f[Chosen(V)] + h[V \ {Chosen(V)}]
    BY DEF Folds
  <2> QED
    BY <1>5, <2>1, <2>2 DEF less, x
<1> QED
  BY <1>4, <1>9, <1>10

(* The sum of the community modules counts the pairs.                       *)
LEMMA SumIsCount ==
    ASSUME NEW S, IsFiniteSet(S), NEW f \in [S -> Nat]
    PROVE  SumFunction(f) = Cardinality(Pairs(f, S))
<1> DEFINE count == [T \in SUBSET S |-> Cardinality(Pairs(f, T))]
<1>1. Folds(count, f, S)
  <2>1. ASSUME NEW T \in SUBSET S
        PROVE  Cardinality(Pairs(f, T)) =
                   IF T = {} THEN 0 ELSE f[Chosen(T)] + Cardinality(Pairs(f, T \ {Chosen(T)}))
    <3>1. CASE T = {}
      <4>1. Pairs(f, T) = {}
        BY <3>1 DEF Pairs
      <4> QED
        BY <3>1, <4>1, FS_EmptySet
    <3>2. CASE T # {}
      <4> DEFINE r == [x \in T |-> f[x]]
      <4>1. Chosen(T) \in T
        BY <3>2 DEF Chosen
      <4>2. IsFiniteSet(T) /\ r \in [T -> Nat]
        BY FS_Subset
      <4>3. Pairs(r, T) = Pairs(f, T) /\ Pairs(r, T \ {Chosen(T)}) = Pairs(f, T \ {Chosen(T)})
        BY DEF Pairs, Column
      <4>4. r[Chosen(T)] = f[Chosen(T)]
        BY <4>1
      <4> HIDE DEF r
      <4>5. Cardinality(Pairs(r, T)) = r[Chosen(T)] + Cardinality(Pairs(r, T \ {Chosen(T)}))
        BY <4>1, <4>2, PairsOfOneMore
      <4> QED
        BY <3>2, <4>3, <4>4, <4>5
    <3> QED
      BY <3>1, <3>2
  <2>2. \A T \in SUBSET S : T \ {Chosen(T)} \in SUBSET S
    OBVIOUS
  <2> QED
    BY <2>1, <2>2 DEF Folds
<1>2. DOMAIN f = S
  OBVIOUS
<1>3. SumFunction(f) = (CHOOSE g : Folds(g, f, S))[S]
  BY <1>2 DEF SumFunction, SumFunctionOnSet, FoldFunctionOnSet, MapThenFoldSet, Chosen, Folds
<1> DEFINE g == CHOOSE g : Folds(g, f, S)
<1>4. Folds(g, f, S)
  BY <1>1
<1>5. g = count
  <2> HIDE DEF g, count
  <2> QED
    BY <1>1, <1>4, FoldIsUnique
<1>6. count[S] = Cardinality(Pairs(f, S))
  OBVIOUS
<1> QED
  BY <1>3, <1>5, <1>6

(* The sum of nothing but zeros.                                            *)
LEMMA SumOfZeros ==
    ASSUME NEW S, IsFiniteSet(S), NEW f \in [S -> Nat], \A x \in S : f[x] = 0
    PROVE  SumFunction(f) = 0
<1>1. Pairs(f, S) = {}
  <2>1. \A x \in S : 1 .. f[x] = {}
    OBVIOUS
  <2> QED
    BY <2>1 DEF Pairs, Column
<1> QED
  BY <1>1, SumIsCount, FS_EmptySet

(* Two sums that differ in one summand.                                     *)
LEMMA SumChanges ==
    ASSUME NEW S, IsFiniteSet(S), NEW f \in [S -> Nat], NEW g \in [S -> Nat], NEW x \in S,
           \A y \in S \ {x} : g[y] = f[y]
    PROVE  /\ SumFunction(f) \in Nat /\ SumFunction(g) \in Nat
           /\ SumFunction(g) + f[x] = SumFunction(f) + g[x]
<1>1. Pairs(f, S \ {x}) = Pairs(g, S \ {x})
  BY DEF Pairs, Column
<1>2. /\ Cardinality(Pairs(f, S)) = f[x] + Cardinality(Pairs(f, S \ {x}))
      /\ Cardinality(Pairs(g, S)) = g[x] + Cardinality(Pairs(g, S \ {x}))
      /\ Cardinality(Pairs(f, S)) \in Nat /\ Cardinality(Pairs(g, S)) \in Nat
      /\ Cardinality(Pairs(f, S \ {x})) \in Nat
  BY PairsOfOneMore
<1>3. SumFunction(f) = Cardinality(Pairs(f, S)) /\ SumFunction(g) = Cardinality(Pairs(g, S))
  BY SumIsCount
<1>4. f[x] \in Nat /\ g[x] \in Nat
  OBVIOUS
<1> QED
  BY <1>1, <1>2, <1>3, <1>4

(* The empty sum.                                                           *)
LEMMA SumOfNothing ==
    ASSUME NEW f, DOMAIN f = {}, f = [x \in {} |-> 0]
    PROVE  SumFunction(f) = 0
BY SumOfZeros, FS_EmptySet

(* One more summand.                                                        *)
LEMMA SumOfOneMore ==
    ASSUME NEW S, IsFiniteSet(S), NEW x, x \notin S,
           NEW f \in [S -> Nat], NEW g \in [S \cup {x} -> Nat], \A y \in S : g[y] = f[y]
    PROVE  /\ SumFunction(f) \in Nat /\ SumFunction(g) \in Nat
           /\ SumFunction(g) = g[x] + SumFunction(f)
<1> DEFINE T == S \cup {x}
<1>1. IsFiniteSet(T) /\ x \in T /\ T \ {x} = S
  BY FS_AddElement
<1>2. Pairs(g, S) = Pairs(f, S)
  BY DEF Pairs, Column
<1>3. g \in [T -> Nat]
  OBVIOUS
<1> HIDE DEF T
<1>4. /\ Cardinality(Pairs(g, T)) = g[x] + Cardinality(Pairs(g, S))
      /\ Cardinality(Pairs(g, T)) \in Nat /\ Cardinality(Pairs(g, S)) \in Nat
  BY <1>1, <1>3, PairsOfOneMore
<1>5. SumFunction(g) = Cardinality(Pairs(g, T)) /\ SumFunction(f) = Cardinality(Pairs(f, S))
  BY <1>1, <1>3, SumIsCount
<1> QED
  BY <1>2, <1>4, <1>5

----------------------------------------------------------------------------
(* Joined sequences. *)

(* What is taken from the front of the first part.                          *)
LEMMA TailOfJoin ==
    ASSUME NEW S, NEW s \in Seq(S), NEW t \in Seq(S), s # << >>
    PROVE  s \o t # << >> /\ Head(s \o t) = Head(s) /\ Tail(s \o t) = Tail(s) \o t
<1> DEFINE u == s \o t
<1>1. /\ Len(s) \in Nat \ {0} /\ Len(t) \in Nat
      /\ u \in Seq(S) /\ Len(u) = Len(s) + Len(t)
      /\ \A i \in 1 .. Len(u) : u[i] = IF i <= Len(s) THEN s[i] ELSE t[i - Len(s)]
  BY ConcatProperties, EmptySeq, LenProperties
<1> HIDE DEF u
<1>2. u # << >>
  BY <1>1
<1>3. Head(u) = Head(s)
  BY <1>1, <1>2
<1>4. /\ Tail(u) \in Seq(S) /\ Len(Tail(u)) = Len(u) - 1
      /\ \A i \in 1 .. Len(u) - 1 : Tail(u)[i] = u[i + 1]
  BY <1>1, <1>2, HeadTailProperties
<1>5. /\ Tail(s) \in Seq(S) /\ Len(Tail(s)) = Len(s) - 1
      /\ \A i \in 1 .. Len(s) - 1 : Tail(s)[i] = s[i + 1]
  BY HeadTailProperties
<1> DEFINE w == Tail(s) \o t
<1>6. /\ w \in Seq(S) /\ Len(w) = Len(u) - 1
      /\ \A i \in 1 .. Len(u) - 1 : w[i] = IF i <= Len(s) - 1 THEN Tail(s)[i] ELSE t[i - (Len(s) - 1)]
  BY <1>1, <1>5, ConcatProperties
<1> HIDE DEF w
<1>7. \A i \in 1 .. Len(u) - 1 : Tail(u)[i] = w[i]
  <2> TAKE i \in 1 .. Len(u) - 1
  <2>1. i + 1 \in 1 .. Len(u) /\ (i <= Len(s) - 1 <=> i + 1 <= Len(s)) /\ i - (Len(s) - 1) = i + 1 - Len(s)
    BY <1>1
  <2>2. CASE i <= Len(s) - 1
    BY <1>1, <1>4, <1>5, <1>6, <2>1, <2>2
  <2>3. CASE ~ (i <= Len(s) - 1)
    <3>1. w[i] = t[i - (Len(s) - 1)]
      BY <1>6, <2>3
    <3>2. u[i + 1] = t[i + 1 - Len(s)]
      BY <1>1, <2>1, <2>3
    <3> QED
      BY <1>4, <2>1, <3>1, <3>2
  <2> QED
    BY <2>2, <2>3
<1>8. Tail(u) = w
  BY <1>4, <1>6, <1>7, SeqEqual
<1> QED
  BY <1>2, <1>3, <1>8 DEF u, w

(* Moving the first element of the second part to the end of the first.     *)
LEMMA HeadMoves ==
    ASSUME NEW S, NEW s \in Seq(S), NEW t \in Seq(S), t # << >>
    PROVE  /\ Head(t) \in S /\ Tail(t) \in Seq(S) /\ Append(s, Head(t)) \in Seq(S)
           /\ Append(s, Head(t)) \o Tail(t) = s \o t
<1>1. Head(t) \in S /\ Tail(t) \in Seq(S)
  BY HeadTailProperties
<1>2. <<Head(t)>> \in Seq(S) /\ <<Head(t)>> # << >>
  BY <1>1
<1>3. Append(s, Head(t)) = s \o <<Head(t)>> /\ Append(s, Head(t)) \in Seq(S)
  BY <1>1, AppendIsConcat, AppendProperties
<1>4. <<Head(t)>> \o Tail(t) = t
  <2>1. /\ Len(t) \in Nat \ {0} /\ Len(Tail(t)) = Len(t) - 1
        /\ \A i \in 1 .. Len(t) - 1 : Tail(t)[i] = t[i + 1]
    BY EmptySeq, HeadTailProperties
  <2>2. Len(<<Head(t)>>) = 1 /\ <<Head(t)>>[1] = t[1]
    BY <2>1
  <2> DEFINE h == <<Head(t)>>
             w == h \o Tail(t)
  <2> HIDE DEF h
  <2>3. /\ w \in Seq(S) /\ Len(w) = Len(t)
        /\ \A i \in 1 .. Len(t) : w[i] = IF i <= 1 THEN h[i] ELSE Tail(t)[i - 1]
    BY <1>1, <1>2, <2>1, <2>2, ConcatProperties DEF h
  <2> HIDE DEF w
  <2>4. \A i \in 1 .. Len(t) : w[i] = t[i]
    <3> TAKE i \in 1 .. Len(t)
    <3>1. CASE i = 1
      BY <2>1, <2>2, <2>3, <3>1 DEF h
    <3>2. CASE i # 1
      BY <2>1, <2>3, <3>2
    <3> QED
      BY <3>1, <3>2
  <2>5. w = t
    BY <2>3, <2>4, SeqEqual
  <2> QED
    BY <2>5 DEF w, h
<1> QED
  BY <1>1, <1>2, <1>3, <1>4, ConcatAssociative

----------------------------------------------------------------------------
(* Sequences cut in two. *)

(* Cutting a sequence anywhere and joining the parts gives it back.         *)
LEMMA CutJoin ==
    ASSUME NEW S, NEW s \in Seq(S), NEW k \in 0 .. Len(s)
    PROVE  /\ SubSeq(s, 1, k) \in Seq(S) /\ Len(SubSeq(s, 1, k)) = k
           /\ SubSeq(s, k + 1, Len(s)) \in Seq(S) /\ Len(SubSeq(s, k + 1, Len(s))) = Len(s) - k
           /\ s = SubSeq(s, 1, k) \o SubSeq(s, k + 1, Len(s))
<1>1. Len(s) \in Nat /\ k \in Int /\ k + 1 \in Int
  BY LenProperties
<1>2. \A i \in 1 .. Len(s) : s[i] \in S
  BY ElementOfSeq
<1>3. SubSeq(s, 1, k) \in Seq(S) /\ Len(SubSeq(s, 1, k)) = k
  BY <1>1, <1>2, SubSeqProperties
<1>4. /\ SubSeq(s, k + 1, Len(s)) \in Seq(S)
      /\ Len(SubSeq(s, k + 1, Len(s))) = Len(s) - k
  BY <1>1, <1>2, SubSeqProperties
<1>5. SubSeq(s, 1, k) \o SubSeq(s, k + 1, Len(s)) = SubSeq(s, 1, Len(s))
  <2>1. 1 \in 1 .. Len(s) + 1 /\ k \in 1 - 1 .. Len(s) /\ Len(s) \in k .. Len(s)
    BY <1>1
  <2> QED
    BY <2>1, ConcatAdjacentSubSeq
<1>6. SubSeq(s, 1, Len(s)) = s
  BY SubSeqFull
<1> QED
  BY <1>3, <1>4, <1>5, <1>6

(* The beginning of a joined sequence that lies in its first part.          *)
LEMMA PrefixOfJoin ==
    ASSUME NEW S, NEW s \in Seq(S), NEW t \in Seq(S), NEW k \in 0 .. Len(s)
    PROVE  SubSeq(s \o t, 1, k) = SubSeq(s, 1, k)
<1>1. CASE k = 0
  <2>1. 0 < 1 /\ 1 \in Int /\ 0 \in Int
    OBVIOUS
  <2> QED
    BY <1>1, <2>1, SubSeqEmpty
<1>2. CASE k # 0
  <2>1. k \in 1 .. Len(s) /\ 1 \in 1 .. Len(s)
    BY <1>2, LenProperties
  <2> QED
    BY <2>1, SubSeqOfConcat1
<1> QED
  BY <1>1, <1>2

(* A beginning of a joined sequence that reaches into its second part.      *)
LEMMA LongPrefixOfJoin ==
    ASSUME NEW S, NEW s \in Seq(S), NEW t \in Seq(S), NEW k \in 0 .. Len(t)
    PROVE  SubSeq(s \o t, 1, Len(s) + k) = s \o SubSeq(t, 1, k)
<1> DEFINE head == SubSeq(t, 1, k)
           rest == SubSeq(t, k + 1, Len(t))
<1>1. head \in Seq(S) /\ Len(head) = k /\ rest \in Seq(S) /\ t = head \o rest
  BY CutJoin
<1> SUFFICES SubSeq(s \o t, 1, Len(s) + k) = s \o head
  OBVIOUS
<1> HIDE DEF head, rest
<1>2. s \o t = (s \o head) \o rest
  BY <1>1, ConcatAssociative
<1>3. s \o head \in Seq(S) /\ Len(s \o head) = Len(s) + k
  BY <1>1, ConcatProperties
<1>4. Len(s) + k \in 0 .. Len(s \o head)
  BY <1>3, LenProperties
<1>5. SubSeq((s \o head) \o rest, 1, Len(s) + k) = SubSeq(s \o head, 1, Len(s) + k)
  BY <1>1, <1>3, <1>4, PrefixOfJoin
<1> QED
  BY <1>2, <1>3, <1>5, SubSeqFull

(* What follows the first part of a joined sequence is its second part.     *)
LEMMA DropOfJoin ==
    ASSUME NEW S, NEW s \in Seq(S), NEW t \in Seq(S)
    PROVE  SubSeq(s \o t, Len(s) + 1, Len(s \o t)) = t
<1> DEFINE j == s \o t
           n == Len(s)
<1>1. j \in Seq(S) /\ Len(j) = n + Len(t) /\ n \in Nat /\ Len(t) \in Nat
  BY ConcatProperties, LenProperties
<1>2. SubSeq(j, 1, n) = s
  <2>1. n \in 0 .. n
    BY <1>1
  <2> QED
    BY <2>1, PrefixOfJoin, SubSeqFull
<1>3. n \in 0 .. Len(j)
  BY <1>1
<1> DEFINE drop == SubSeq(j, n + 1, Len(j))
<1> SUFFICES drop = t
  OBVIOUS
<1>4. j = s \o t
  OBVIOUS
<1> HIDE DEF j, n
<1>5. drop \in Seq(S) /\ j = s \o drop
  BY <1>1, <1>2, <1>3, CutJoin
<1> HIDE DEF drop
<1> QED
  BY <1>4, <1>5, ConcatSimplifications, Zenon

----------------------------------------------------------------------------
(* Short sequences, written out. *)

(* A pair as a sequence.                                                    *)
LEMMA TwoElements ==
    ASSUME NEW S, NEW a \in S, NEW b \in S
    PROVE  /\ <<a, b>> \in Seq(S) /\ Len(<<a, b>>) = 2
           /\ <<a, b>>[1] = a /\ <<a, b>>[2] = b
OBVIOUS

(* A sequence that agrees with v and has e after it.                        *)
LEMMA OneMore ==
    ASSUME NEW S, NEW v \in Seq(S), NEW x \in Seq(S), NEW e \in S,
           Len(x) = Len(v) + 1, x[Len(v) + 1] = e, \A i \in 1 .. Len(v) : x[i] = v[i]
    PROVE  Append(v, e) = x
<1> DEFINE w == Append(v, e)
<1>1. /\ w \in Seq(S) /\ Len(w) = Len(v) + 1 /\ w[Len(v) + 1] = e /\ Len(v) \in Nat
      /\ \A i \in 1 .. Len(v) : w[i] = v[i]
  BY AppendProperties, LenProperties
<1> HIDE DEF w
<1>2. \A i \in 1 .. Len(v) + 1 : i \in 1 .. Len(v) \/ i = Len(v) + 1
  BY <1>1
<1>3. \A i \in 1 .. Len(w) : w[i] = x[i]
  BY <1>1, <1>2
<1>4. w = x
  BY <1>1, <1>3, SeqEqual
<1> QED
  BY <1>4 DEF w

(* Appending to a sequence of four.                                         *)
LEMMA FourAndOne ==
    ASSUME NEW S, NEW a \in S, NEW b \in S, NEW c \in S, NEW d \in S, NEW e \in S
    PROVE  Append(<<a, b, c, d>>, e) = <<a, b, c, d, e>>
<1> DEFINE v == <<a, b, c, d>>
           x == <<a, b, c, d, e>>
<1>1. v \in Seq(S) /\ Len(v) = 4 /\ x \in Seq(S) /\ Len(x) = 5 /\ x[5] = e
  OBVIOUS
<1>2. x[1] = v[1] /\ x[2] = v[2] /\ x[3] = v[3] /\ x[4] = v[4]
  OBVIOUS
<1> HIDE DEF v, x
<1>3. \A i \in 1 .. Len(v) : i = 1 \/ i = 2 \/ i = 3 \/ i = 4
  BY <1>1
<1>4. \A i \in 1 .. Len(v) : x[i] = v[i]
  BY <1>2, <1>3
<1>5. Len(x) = Len(v) + 1 /\ x[Len(v) + 1] = e /\ v \in Seq(S) /\ x \in Seq(S) /\ e \in S
  BY <1>1
<1>6. Append(v, e) = x
  BY <1>4, <1>5, OneMore
<1> QED
  BY <1>6 DEF v, x

(* Appending to a sequence of six.                                          *)
LEMMA SixAndOne ==
    ASSUME NEW S, NEW a \in S, NEW b \in S, NEW c \in S, NEW d \in S, NEW e \in S, NEW f \in S, NEW g \in S
    PROVE  Append(<<a, b, c, d, e, f>>, g) = <<a, b, c, d, e, f, g>>
<1> DEFINE v == <<a, b, c, d, e, f>>
           x == <<a, b, c, d, e, f, g>>
<1>1. v \in Seq(S) /\ Len(v) = 6 /\ x \in Seq(S) /\ Len(x) = 7 /\ x[7] = g
  OBVIOUS
<1>2. x[1] = v[1] /\ x[2] = v[2] /\ x[3] = v[3] /\ x[4] = v[4] /\ x[5] = v[5] /\ x[6] = v[6]
  OBVIOUS
<1> HIDE DEF v, x
<1>3. \A i \in 1 .. Len(v) : i = 1 \/ i = 2 \/ i = 3 \/ i = 4 \/ i = 5 \/ i = 6
  BY <1>1
<1>4. \A i \in 1 .. Len(v) : x[i] = v[i]
  BY <1>2, <1>3
<1>5. Len(x) = Len(v) + 1 /\ x[Len(v) + 1] = g /\ v \in Seq(S) /\ x \in Seq(S) /\ g \in S
  BY <1>1
<1>6. Append(v, g) = x
  BY <1>4, <1>5, OneMore
<1> QED
  BY <1>6 DEF v, x

(* A sequence that begins with u and goes on with v.                        *)
LEMMA JoinIs ==
    ASSUME NEW S, NEW u \in Seq(S), NEW v \in Seq(S), NEW x \in Seq(S),
           Len(x) = Len(u) + Len(v),
           \A i \in 1 .. Len(u) : x[i] = u[i], \A i \in 1 .. Len(v) : x[Len(u) + i] = v[i]
    PROVE  u \o v = x
<1> DEFINE w == u \o v
<1>1. /\ w \in Seq(S) /\ Len(w) = Len(u) + Len(v) /\ Len(u) \in Nat /\ Len(v) \in Nat
      /\ \A i \in 1 .. Len(u) + Len(v) : w[i] = IF i <= Len(u) THEN u[i] ELSE v[i - Len(u)]
  BY ConcatProperties, LenProperties
<1> HIDE DEF w
<1>2. \A i \in 1 .. Len(w) : w[i] = x[i]
  <2> TAKE i \in 1 .. Len(w)
  <2>1. CASE i <= Len(u)
    BY <1>1, <2>1
  <2>2. CASE ~ (i <= Len(u))
    <3>1. i - Len(u) \in 1 .. Len(v) /\ Len(u) + (i - Len(u)) = i
      BY <1>1, <2>2
    <3>2. w[i] = v[i - Len(u)]
      BY <1>1, <2>2
    <3>3. x[Len(u) + (i - Len(u))] = v[i - Len(u)]
      BY <3>1
    <3> QED
      BY <3>1, <3>2, <3>3
  <2> QED
    BY <2>1, <2>2
<1>3. w = x
  BY <1>1, <1>2, SeqEqual
<1> QED
  BY <1>3 DEF w

(* Joining two elements and three.                                          *)
LEMMA TwoAndThree ==
    ASSUME NEW S, NEW a \in S, NEW b \in S, NEW c \in S, NEW d \in S, NEW e \in S
    PROVE  <<a, b>> \o <<c, d, e>> = <<a, b, c, d, e>>
<1> DEFINE u == <<a, b>>
           v == <<c, d, e>>
           x == <<a, b, c, d, e>>
<1>1. u \in Seq(S) /\ Len(u) = 2 /\ v \in Seq(S) /\ Len(v) = 3 /\ x \in Seq(S) /\ Len(x) = 5
  OBVIOUS
<1>2. x[1] = u[1] /\ x[2] = u[2]
  OBVIOUS
<1>3. x[3] = v[1] /\ x[4] = v[2] /\ x[5] = v[3]
  OBVIOUS
<1> HIDE DEF u, v, x
<1>4. \A i \in 1 .. Len(u) : x[i] = u[i]
  BY <1>1, <1>2
<1>5. \A i \in 1 .. Len(v) : i = 1 \/ i = 2 \/ i = 3
  BY <1>1
<1>6. \A i \in 1 .. Len(v) : x[Len(u) + i] = v[i]
  BY <1>1, <1>3, <1>5
<1>7. Len(x) = Len(u) + Len(v)
  BY <1>1
<1>8. u \o v = x
  BY <1>1, <1>4, <1>6, <1>7, JoinIs
<1> QED
  BY <1>8 DEF u, v, x

(* Joining two elements and four.                                           *)
LEMMA TwoAndFour ==
    ASSUME NEW S, NEW a \in S, NEW b \in S, NEW c \in S, NEW d \in S, NEW e \in S, NEW f \in S
    PROVE  <<a, b>> \o <<c, d, e, f>> = <<a, b, c, d, e, f>>
<1> DEFINE u == <<a, b>>
           v == <<c, d, e, f>>
           x == <<a, b, c, d, e, f>>
<1>1. u \in Seq(S) /\ Len(u) = 2 /\ v \in Seq(S) /\ Len(v) = 4 /\ x \in Seq(S) /\ Len(x) = 6
  OBVIOUS
<1>2. x[1] = u[1] /\ x[2] = u[2]
  OBVIOUS
<1>3. x[3] = v[1] /\ x[4] = v[2] /\ x[5] = v[3] /\ x[6] = v[4]
  OBVIOUS
<1> HIDE DEF u, v, x
<1>4. \A i \in 1 .. Len(u) : x[i] = u[i]
  BY <1>1, <1>2
<1>5. \A i \in 1 .. Len(v) : i = 1 \/ i = 2 \/ i = 3 \/ i = 4
  BY <1>1
<1>6. \A i \in 1 .. Len(v) : x[Len(u) + i] = v[i]
  BY <1>1, <1>3, <1>5
<1>7. Len(x) = Len(u) + Len(v)
  BY <1>1
<1>8. u \o v = x
  BY <1>1, <1>4, <1>6, <1>7, JoinIs
<1> QED
  BY <1>8 DEF u, v, x

(* Joining two elements and five.                                           *)
LEMMA TwoAndFive ==
    ASSUME NEW S, NEW a \in S, NEW b \in S, NEW c \in S, NEW d \in S, NEW e \in S, NEW f \in S, NEW g \in S
    PROVE  <<a, b>> \o <<c, d, e, f, g>> = <<a, b, c, d, e, f, g>>
<1> DEFINE u == <<a, b>>
           v == <<c, d, e, f, g>>
           x == <<a, b, c, d, e, f, g>>
<1>1. u \in Seq(S) /\ Len(u) = 2 /\ v \in Seq(S) /\ Len(v) = 5 /\ x \in Seq(S) /\ Len(x) = 7
  OBVIOUS
<1>2. x[1] = u[1] /\ x[2] = u[2]
  OBVIOUS
<1>3. x[3] = v[1] /\ x[4] = v[2] /\ x[5] = v[3] /\ x[6] = v[4] /\ x[7] = v[5]
  OBVIOUS
<1> HIDE DEF u, v, x
<1>4. \A i \in 1 .. Len(u) : x[i] = u[i]
  BY <1>1, <1>2
<1>5. \A i \in 1 .. Len(v) : i = 1 \/ i = 2 \/ i = 3 \/ i = 4 \/ i = 5
  BY <1>1
<1>6. \A i \in 1 .. Len(v) : x[Len(u) + i] = v[i]
  BY <1>1, <1>3, <1>5
<1>7. Len(x) = Len(u) + Len(v)
  BY <1>1
<1>8. u \o v = x
  BY <1>1, <1>4, <1>6, <1>7, JoinIs
<1> QED
  BY <1>8 DEF u, v, x

----------------------------------------------------------------------------
(* Sequences of sequences, joined. *)

\* f is what the recursion of FlattenSeq defines, up to the n-th sequence.
Joins(seqs, n, f) == f = [i \in 1 .. n |-> IF i = 1 THEN seqs[i] ELSE f[i - 1] \o seqs[i]]

(* There is such a function for any number of sequences.                    *)
LEMMA JoinsExist == ASSUME NEW seqs, NEW n \in Nat PROVE \E f : Joins(seqs, n, f)
<1> DEFINE Bad == {m \in Nat : ~ \E f : Joins(seqs, m, f)}
<1> SUFFICES ASSUME Bad # {} PROVE FALSE
  OBVIOUS
<1> DEFINE m == Min(Bad)
<1>1. m \in Bad /\ \A l \in Bad : m <= l
  BY MinOfNats
<1> HIDE DEF m
<1>2. CASE m = 0
  <2>1. Joins(seqs, 0, [i \in 1 .. 0 |-> 0])
    BY DEF Joins
  <2> QED
    BY <1>1, <1>2, <2>1
<1>3. CASE m # 0
  <2>1. m \in Nat /\ m - 1 \in Nat /\ m \in 1 .. m /\ m - 1 \notin Bad
    BY <1>1, <1>3
  <2>2. PICK f : Joins(seqs, m - 1, f)
    BY <2>1
  <2> DEFINE last == IF m = 1 THEN seqs[m] ELSE f[m - 1] \o seqs[m]
             g == [i \in 1 .. m |-> IF i = m THEN last ELSE f[i]]
  <2> HIDE DEF last
  <2>3. ASSUME NEW i \in 1 .. m PROVE g[i] = IF i = 1 THEN seqs[i] ELSE g[i - 1] \o seqs[i]
    <3>1. i # 1 => i - 1 \in 1 .. m /\ i - 1 # m /\ g[i - 1] = f[i - 1]
      BY <2>1
    <3>2. CASE i = m
      BY <3>1, <3>2 DEF last
    <3>3. CASE i # m
      <4>1. i \in 1 .. m - 1 /\ g[i] = f[i]
        BY <2>1, <3>3
      <4>2. f[i] = IF i = 1 THEN seqs[i] ELSE f[i - 1] \o seqs[i]
        BY <2>2, <4>1 DEF Joins
      <4> HIDE DEF g
      <4> QED
        BY <3>1, <4>1, <4>2
    <3> QED
      BY <3>2, <3>3
  <2>4. g = [i \in 1 .. m |-> g[i]]
    OBVIOUS
  <2> HIDE DEF g
  <2>5. Joins(seqs, m, g)
    BY <2>3, <2>4 DEF Joins
  <2> QED
    BY <1>1, <2>5
<1> QED
  BY <1>2, <1>3

(* So FlattenSeq is the last value of one.                                  *)
LEMMA FlattenIs ==
    ASSUME NEW seqs, Len(seqs) \in Nat \ {0}
    PROVE  \E f : Joins(seqs, Len(seqs), f) /\ FlattenSeq(seqs) = f[Len(seqs)]
<1> DEFINE f == CHOOSE g : Joins(seqs, Len(seqs), g)
<1>1. Joins(seqs, Len(seqs), f)
  BY JoinsExist
<1>2. FlattenSeq(seqs) = f[Len(seqs)]
  BY DEF FlattenSeq, Joins
<1> QED
  BY <1>1, <1>2

\* marks[k] is where the k-th sequence marks in their join.
Laid(s, seqs, n, marks) ==
    \A k \in 1 .. n : \A j \in 1 .. Len(seqs[k]) : s[marks[k - 1] + j] = seqs[k][j]
Marks(seqs, n, marks) ==
    /\ marks \in [0 .. n -> Nat] /\ marks[0] = 0
    /\ \A k \in 1 .. n : marks[k] = marks[k - 1] + Len(seqs[k])

(* Two sequences joined.                                                    *)
Joined(p, q, r) ==
    /\ Len(r) = Len(p) + Len(q)
    /\ \A i \in 1 .. Len(p) + Len(q) : r[i] = IF i <= Len(p) THEN p[i] ELSE q[i - Len(p)]

(* What concatenation makes of two is that.                                 *)
LEMMA JoinedPair ==
    ASSUME NEW S, NEW p \in Seq(S), NEW q \in Seq(S)
    PROVE  p \o q \in Seq(S) /\ Joined(p, q, p \o q)
BY ConcatProperties DEF Joined

(* The marks grow.                                                           *)
LEMMA MarksGrow ==
    ASSUME NEW S, NEW seqs \in Seq(Seq(S)), NEW n \in 0 .. Len(seqs), NEW marks, Marks(seqs, n, marks),
           NEW i \in 0 .. n, NEW k \in i .. n
    PROVE  marks[i] <= marks[k]
<1> DEFINE Bad == {m \in Nat : m \in i .. n /\ ~ marks[i] <= marks[m]}
<1> SUFFICES ASSUME Bad # {} PROVE FALSE
  <2>1. n \in Nat /\ k \in Nat
    BY LenProperties
  <2> QED
    BY <2>1
<1> DEFINE m == Min(Bad)
<1>1. m \in Bad /\ \A l \in Bad : m <= l
  BY MinOfNats
<1> HIDE DEF m
<1>2. m \in i .. n /\ ~ marks[i] <= marks[m] /\ marks[i] \in Nat /\ marks[m] \in Nat /\ Len(seqs) \in Nat /\ i \in Nat
  BY <1>1, LenProperties DEF Marks
<1>3. m # i
  BY <1>2
<1>4. m - 1 \in i .. n /\ m - 1 \in Nat /\ ~ m <= m - 1 /\ m \in 1 .. n /\ m \in 1 .. Len(seqs)
  BY <1>2, <1>3
<1>5. marks[i] <= marks[m - 1]
  BY <1>1, <1>4
<1>6. marks[m] = marks[m - 1] + Len(seqs[m]) /\ marks[m - 1] \in Nat
  BY <1>4 DEF Marks
<1>7. Len(seqs[m]) \in Nat
  BY <1>4, ElementOfSeq, LenProperties
<1> QED
  BY <1>2, <1>5, <1>6, <1>7

(* A join is laid out without gaps.                                         *)
LEMMA FlattenLays ==
    ASSUME NEW S, NEW seqs \in Seq(Seq(S))
    PROVE  /\ FlattenSeq(seqs) \in Seq(S)
           /\ \E marks : /\ Marks(seqs, Len(seqs), marks)
                        /\ Len(FlattenSeq(seqs)) = marks[Len(seqs)]
                        /\ Laid(FlattenSeq(seqs), seqs, Len(seqs), marks)
<1> DEFINE n == Len(seqs)
<1>1. n \in Nat
  BY LenProperties
<1>2. CASE n = 0
  <2>1. seqs = << >>
    BY <1>2, EmptySeq
  <2>2. FlattenSeq(seqs) = << >> /\ << >> \in Seq(S) /\ Len(<< >>) = 0
    BY <1>2, <2>1, EmptySeq DEF FlattenSeq
  <2> DEFINE marks == [i \in 0 .. 0 |-> 0]
  <2>3. Marks(seqs, 0, marks) /\ Laid(<< >>, seqs, 0, marks) /\ marks[0] = 0
    BY DEF Marks, Laid
  <2> QED
    BY <1>2, <2>2, <2>3
<1>3. CASE n # 0
  <2>1. PICK f : Joins(seqs, n, f) /\ FlattenSeq(seqs) = f[n]
    BY <1>1, <1>3, FlattenIs
  <2> HIDE DEF n
  <2> DEFINE marks == [k \in 0 .. n |-> IF k = 0 THEN 0 ELSE Len(f[k])]
  <2>2. \A k \in 1 .. n : seqs[k] \in Seq(S) /\ Len(seqs[k]) \in Nat
    BY ElementOfSeq, LenProperties DEF n
  <2>3. /\ \A k \in 1 .. n : k # 1 => f[k] = f[k - 1] \o seqs[k]
        /\ f[1] = seqs[1]
    <3>1. \A k \in 1 .. n : f[k] = IF k = 1 THEN seqs[k] ELSE f[k - 1] \o seqs[k]
      BY <2>1, Zenon DEF Joins
    <3>2. 1 \in 1 .. n
      BY <1>1, <1>3
    <3> QED
      BY <3>1, <3>2, Zenon
  <2> DEFINE Good(k) == /\ f[k] \in Seq(S) /\ marks[k - 1] \in Nat
                        /\ Len(f[k]) = marks[k - 1] + Len(seqs[k])
                        /\ \A i \in 1 .. k : \A j \in 1 .. Len(seqs[i]) :
                              f[k][marks[i - 1] + j] = seqs[i][j] /\ marks[i - 1] + j \in 1 .. Len(f[k])
  <2>4. Good(1)
    <3>1. 1 \in 1 .. n /\ marks[0] = 0
      BY <1>1, <1>3
    <3> HIDE DEF marks
    <3>2. seqs[1] \in Seq(S) /\ Len(seqs[1]) \in Nat
      BY <2>2, <3>1
    <3> QED
      BY <2>3, <3>1, <3>2
  <2>5. ASSUME NEW k \in 1 .. n, k # 1, Good(k - 1) PROVE Good(k)
    <3>1. /\ k - 1 \in 1 .. n /\ k - 1 # 0 /\ k - 1 \in 0 .. n /\ marks[k - 1] = Len(f[k - 1])
          /\ f[k - 1] \in Seq(S) /\ Len(f[k - 1]) \in Nat
      BY <1>1, <2>5, LenProperties
    <3>2. f[k] = f[k - 1] \o seqs[k] /\ seqs[k] \in Seq(S) /\ Len(seqs[k]) \in Nat
      BY <2>2, <2>3, <2>5
    <3>3. /\ f[k] \in Seq(S) /\ Len(f[k]) = Len(f[k - 1]) + Len(seqs[k])
          /\ \A i \in 1 .. Len(f[k - 1]) + Len(seqs[k]) :
                f[k][i] = IF i <= Len(f[k - 1]) THEN f[k - 1][i] ELSE seqs[k][i - Len(f[k - 1])]
      <4>1. f[k - 1] \o seqs[k] \in Seq(S) /\ Joined(f[k - 1], seqs[k], f[k - 1] \o seqs[k])
        BY ONLY <3>1, <3>2, JoinedPair
      <4>2. f[k] \in Seq(S) /\ Joined(f[k - 1], seqs[k], f[k])
        BY <3>2, <4>1, Zenon
      <4> QED
        BY <4>2, Zenon DEF Joined
    <3> DEFINE a == Len(f[k - 1])
               b == Len(seqs[k])
    <3>5. a \in Nat /\ b \in Nat
      BY <3>1, <3>2
    <3>6. \A i \in 1 .. a + b : f[k][i] = IF i <= a THEN f[k - 1][i] ELSE seqs[k][i - a]
      BY <3>3
    <3>7. Len(f[k]) = a + b
      BY <3>3
    <3>4. ASSUME NEW i \in 1 .. k, NEW j \in 1 .. Len(seqs[i])
          PROVE  f[k][marks[i - 1] + j] = seqs[i][j] /\ marks[i - 1] + j \in 1 .. Len(f[k])
      <4>1. CASE i = k
        <5>1. j \in 1 .. b /\ marks[i - 1] = a
          BY <3>1, <4>1
        <5> HIDE DEF marks, a, b
        <5>2. a + j \in 1 .. a + b /\ ~ a + j <= a /\ (a + j) - a = j
          BY <3>5, <5>1
        <5> QED
          BY <3>6, <3>7, <4>1, <5>1, <5>2
      <4>2. CASE i # k
        <5>1. i \in 1 .. k - 1
          BY <1>1, <2>5, <4>2
        <5> DEFINE e == marks[i - 1] + j
        <5>2. f[k - 1][e] = seqs[i][j] /\ e \in 1 .. a
          BY <2>5, <5>1
        <5> HIDE DEF marks, a, b, e
        <5>3. e \in 1 .. a + b /\ e <= a
          BY <3>5, <5>2
        <5>4. f[k][e] = seqs[i][j] /\ e \in 1 .. Len(f[k])
          BY <3>6, <3>7, <5>2, <5>3
        <5> QED
          BY <5>4 DEF e
      <4> QED
        BY <4>1, <4>2
    <3> HIDE DEF marks
    <3> QED
      BY <3>1, <3>3, <3>4
  <2>6. ASSUME NEW k \in 1 .. n PROVE Good(k)
    <3> DEFINE Bad == {i \in Nat : i \in 1 .. n /\ ~ Good(i)}
    <3> HIDE DEF Good
    <3> SUFFICES ASSUME Bad # {} PROVE FALSE
      BY <1>1
    <3> DEFINE m == Min(Bad)
    <3>1. m \in Bad /\ \A l \in Bad : m <= l
      BY MinOfNats
    <3> HIDE DEF m
    <3>2. m \in 1 .. n /\ ~ Good(m)
      BY <3>1
    <3>3. m # 1
      BY <2>4, <3>2
    <3>4. m - 1 \in 1 .. n /\ m - 1 \in Nat /\ ~ m <= m - 1
      BY <1>1, <3>2, <3>3
    <3>5. Good(m - 1)
      BY <3>1, <3>4
    <3> QED
      BY <2>5, <3>2, <3>3, <3>5
  <2>7. n \in 1 .. n
    BY <1>1, <1>3
  <2>8. marks \in [0 .. n -> Nat] /\ marks[0] = 0
    <3>1. ASSUME NEW k \in 0 .. n PROVE marks[k] \in Nat
      <4>1. k # 0 => f[k] \in Seq(S)
        <5>1. k # 0 => k \in 1 .. n
          BY <1>1
        <5> QED
          BY <2>6, <5>1
      <4> QED
        BY <4>1, LenProperties
    <3> QED
      BY <1>1, <3>1
  <2>9. ASSUME NEW k \in 1 .. n PROVE marks[k] = marks[k - 1] + Len(seqs[k])
    <3>1. marks[k] = Len(f[k])
      BY <1>1
    <3> QED
      BY <2>6, <3>1
  <2>10. marks[n] = Len(f[n])
    BY <1>1, <1>3
  <2>11. Marks(seqs, n, marks)
    <3> HIDE DEF marks
    <3> QED
      BY <2>8, <2>9 DEF Marks
  <2>12. Laid(f[n], seqs, n, marks) /\ f[n] \in Seq(S)
    BY <2>6, <2>7 DEF Laid
  <2> HIDE DEF marks, Good
  <2> QED
    BY <2>1, <2>10, <2>11, <2>12 DEF n
<1> QED
  BY <1>1, <1>2, <1>3
=============================================================================
