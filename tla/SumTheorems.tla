---------------------------- MODULE SumTheorems ----------------------------
(***************************************************************************)
(* Induction over the natural numbers and over a finite set, stated for a  *)
(* set of numbers or of sets so that the provers can use it, and with them *)
(* what the modules need to know of a sum over a finite set: the sums of   *)
(* the models are MapThenSumSet of the community modules, and the function *)
(* that one is defined with is a Summation here.                           *)
(***************************************************************************)
EXTENDS Integers, FiniteSets, FiniteSetTheorems, WellFoundedInduction, TLAPS

AnyOf(s) == CHOOSE x \in s : TRUE

\* g gives the sum of f over each of the subsets of S.
Summation(g, f, S) ==
    g = [s \in SUBSET S |-> IF s = {} THEN 0 ELSE f[AnyOf(s)] + g[s \ {AnyOf(s)}]]

\* The sum of f over S.
SumOver(f, S) == (CHOOSE g : Summation(g, f, S))[S]

-----------------------------------------------------------------------------
(* Induction.                                                              *)

\* A set with 0 in it, and with each number the next one, has them all.
LEMMA NaturalsAre ==
    ASSUME NEW G, 0 \in G, \A n \in Nat : n \in G => n + 1 \in G
    PROVE  \A n \in Nat : n \in G
<1> DEFINE R == OpToRel(<, Nat)
           T == Nat \ G
<1> SUFFICES ASSUME T # {} PROVE FALSE
  OBVIOUS
<1>1. IsWellFoundedOn(R, Nat)
  BY NatLessThanWellFounded
<1>2. PICK m \in T : \A n \in T : ~(<<n, m>> \in R)
  <2>1. T \subseteq Nat
    OBVIOUS
  <2> HIDE DEF R, T
  <2> QED
    BY <1>1, <2>1, WFMin
<1>3. m \in Nat \ {0} /\ m - 1 \in Nat /\ m - 1 < m
  OBVIOUS
<1>4. <<m - 1, m>> \in R
  BY <1>3 DEF OpToRel
<1>5. m - 1 \in G
  BY <1>2, <1>3, <1>4
<1> QED
  BY <1>3, <1>5

\* What the subsets of a finite set, and a set without one of its elements,
\* count.
LEMMA Counting ==
    ASSUME NEW S, IsFiniteSet(S), NEW T \in SUBSET S
    PROVE  /\ IsFiniteSet(T)
           /\ Cardinality(T) \in Nat
           /\ Cardinality(T) = 0 <=> T = {}
           /\ \A x \in T : Cardinality(T \ {x}) = Cardinality(T) - 1
<1>1. IsFiniteSet(T) /\ Cardinality(T) \in Nat
  BY FS_Subset, FS_CardinalityType
<1>2. Cardinality(T) = 0 <=> T = {}
  BY <1>1, FS_EmptySet
<1>3. ASSUME NEW x \in T PROVE Cardinality(T \ {x}) = Cardinality(T) - 1
  <2>1. Cardinality(T \ {x}) = IF x \in T THEN Cardinality(T) - 1 ELSE Cardinality(T)
    BY <1>1, FS_RemoveElement
  <2> QED
    BY <2>1
<1> QED
  BY <1>1, <1>2, <1>3

\* A set of sets with the empty one in it, and with each subset of S the same
\* with one element more, has all the subsets of S.
LEMMA SubsetsAre ==
    ASSUME NEW S, IsFiniteSet(S), NEW G, {} \in G,
           \A T \in SUBSET S, x \in S : x \notin T /\ T \in G => T \cup {x} \in G
    PROVE  \A T \in SUBSET S : T \in G
<1> DEFINE N == {n \in Nat : \A T \in SUBSET S : Cardinality(T) = n => T \in G}
<1>1. 0 \in N
  BY Counting
<1>2. ASSUME NEW n \in Nat, n \in N PROVE n + 1 \in N
  <2> SUFFICES ASSUME NEW T \in SUBSET S, Cardinality(T) = n + 1 PROVE T \in G
    OBVIOUS
  <2>1. PICK x : x \in T
    BY Counting
  <2>2. Cardinality(T \ {x}) = n
    BY <2>1, Counting
  <2>3. T \ {x} \in G
    BY <1>2, <2>2
  <2>4. T = (T \ {x}) \cup {x} /\ x \in S /\ T \ {x} \in SUBSET S
    BY <2>1
  <2> QED
    BY <2>3, <2>4
<1>3. \A n \in Nat : n \in N
  <2> HIDE DEF N
  <2> QED
    BY <1>1, <1>2, NaturalsAre
<1> QED
  BY <1>3, Counting

-----------------------------------------------------------------------------
(* Sums.                                                                   *)

\* AnyOf picks an element.
LEMMA AnyOfIsOne ==
    ASSUME NEW s, s # {}
    PROVE  AnyOf(s) \in s
BY DEF AnyOf

\* There is a Summation of every function of integers over a finite set.
LEMMA SummationExists ==
    ASSUME NEW S, IsFiniteSet(S), NEW f, \A x \in S : f[x] \in Int
    PROVE  \E g \in [SUBSET S -> Int] : Summation(g, f, S)
<1> DEFINE Next(g) ==
        [s \in SUBSET S |-> IF s = {} THEN 0 ELSE f[AnyOf(s)] + g[s \ {AnyOf(s)}]]
    UpTo(g, n) == \A s \in SUBSET S : Cardinality(s) <= n => g[s] = Next(g)[s]
    N == {n \in Nat : \E g \in [SUBSET S -> Int] : UpTo(g, n)}
<1>1. ASSUME NEW g \in [SUBSET S -> Int] PROVE Next(g) \in [SUBSET S -> Int]
  BY AnyOfIsOne
<1>2. 0 \in N
  <2> DEFINE g == [s \in SUBSET S |-> 0]
  <2>1. g \in [SUBSET S -> Int]
    OBVIOUS
  <2>2. UpTo(g, 0)
    BY Counting
  <2> QED
    BY <2>1, <2>2
<1>3. ASSUME NEW n \in Nat, n \in N PROVE n + 1 \in N
  <2>1. PICK g \in [SUBSET S -> Int] : UpTo(g, n)
    BY <1>3
  <2>2. UpTo(Next(g), n + 1)
    <3> SUFFICES ASSUME NEW s \in SUBSET S, Cardinality(s) <= n + 1
                 PROVE  Next(g)[s] = Next(Next(g))[s]
      OBVIOUS
    <3>1. CASE s = {}
      BY <3>1
    <3>2. CASE s # {}
      <4>1. AnyOf(s) \in s /\ s \ {AnyOf(s)} \in SUBSET S
        BY <3>2, AnyOfIsOne
      <4>2. Cardinality(s \ {AnyOf(s)}) <= n
        BY <4>1, Counting
      <4>3. g[s \ {AnyOf(s)}] = Next(g)[s \ {AnyOf(s)}]
        BY <2>1, <4>1, <4>2
      <4> QED
        BY <3>2, <4>1, <4>3
    <3> QED
      BY <3>1, <3>2
  <2>3. \E h \in [SUBSET S -> Int] : UpTo(h, n + 1)
    <3> HIDE DEF Next, UpTo
    <3> QED
      BY <1>1, <2>2
  <2> HIDE DEF UpTo
  <2> QED
    BY <2>3
<1>4. \A n \in Nat : n \in N
  <2> HIDE DEF N
  <2> QED
    BY <1>2, <1>3, NaturalsAre
<1>5. PICK g \in [SUBSET S -> Int] : UpTo(g, Cardinality(S))
  <2>1. Cardinality(S) \in N
    BY <1>4, Counting
  <2> QED
    BY <2>1
<1>6. \A s \in SUBSET S : Cardinality(s) <= Cardinality(S)
  BY FS_Subset
<1>7. g = Next(g)
  <2>1. \A s \in SUBSET S : g[s] = Next(g)[s]
    BY <1>5, <1>6
  <2> QED
    BY <1>1, <2>1
<1> QED
  BY <1>7 DEF Summation

\* A Summation, opened.
LEMMA SummationStep ==
    ASSUME NEW S, NEW f, NEW g, Summation(g, f, S)
    PROVE  /\ g[{}] = 0
           /\ \A s \in SUBSET S : s # {} => g[s] = f[AnyOf(s)] + g[s \ {AnyOf(s)}]
BY DEF Summation

\* Its values are integers.
LEMMA SummationType ==
    ASSUME NEW S, IsFiniteSet(S), NEW f, \A x \in S : f[x] \in Int,
           NEW g, Summation(g, f, S)
    PROVE  \A s \in SUBSET S : g[s] \in Int
<1> DEFINE N == {n \in Nat : \A s \in SUBSET S : Cardinality(s) = n => g[s] \in Int}
<1>0. /\ g[{}] = 0
      /\ \A s \in SUBSET S : s # {} => g[s] = f[AnyOf(s)] + g[s \ {AnyOf(s)}]
  BY SummationStep
<1>1. 0 \in N
  <2>1. \A s \in SUBSET S : Cardinality(s) = 0 => s = {}
    BY Counting
  <2>2. g[{}] \in Int
    BY <1>0
  <2> QED
    BY <2>1, <2>2
<1>2. ASSUME NEW n \in Nat, n \in N PROVE n + 1 \in N
  <2> SUFFICES ASSUME NEW s \in SUBSET S, Cardinality(s) = n + 1 PROVE g[s] \in Int
    OBVIOUS
  <2>1. s # {}
    BY Counting
  <2>2. AnyOf(s) \in s /\ s \ {AnyOf(s)} \in SUBSET S
    BY <2>1, AnyOfIsOne
  <2>3. Cardinality(s \ {AnyOf(s)}) = n
    BY <2>2, Counting
  <2>4. g[s \ {AnyOf(s)}] \in Int
    BY <1>2, <2>2, <2>3
  <2>5. g[s] = f[AnyOf(s)] + g[s \ {AnyOf(s)}]
    BY <1>0, <2>1
  <2>6. f[AnyOf(s)] \in Int
    BY <2>2
  <2> QED
    BY <2>4, <2>5, <2>6
<1>3. \A n \in Nat : n \in N
  <2> HIDE DEF N
  <2> QED
    BY <1>1, <1>2, NaturalsAre
<1> QED
  BY <1>3, Counting

\* Two of them agree on a set on which the functions do.
LEMMA SummationsAgree ==
    ASSUME NEW S, IsFiniteSet(S), NEW f, NEW g, Summation(g, f, S),
           NEW R, NEW e, NEW h, Summation(h, e, R),
           NEW T \in SUBSET (S \cap R), \A x \in T : f[x] = e[x]
    PROVE  g[T] = h[T]
<1> DEFINE N == {n \in Nat : \A s \in SUBSET T : Cardinality(s) = n => g[s] = h[s]}
<1>g. /\ g[{}] = 0
      /\ \A s \in SUBSET S : s # {} => g[s] = f[AnyOf(s)] + g[s \ {AnyOf(s)}]
  BY SummationStep
<1>h. /\ h[{}] = 0
      /\ \A s \in SUBSET R : s # {} => h[s] = e[AnyOf(s)] + h[s \ {AnyOf(s)}]
  BY DEF Summation
<1>1. 0 \in N
  <2>1. \A s \in SUBSET T : Cardinality(s) = 0 => s = {}
    BY Counting
  <2>2. g[{}] = 0 /\ h[{}] = 0
    BY <1>g, <1>h
  <2> QED
    BY <2>1, <2>2
<1>2. ASSUME NEW n \in Nat, n \in N PROVE n + 1 \in N
  <2> SUFFICES ASSUME NEW s \in SUBSET T, Cardinality(s) = n + 1 PROVE g[s] = h[s]
    OBVIOUS
  <2>1. s # {}
    BY Counting
  <2>2. AnyOf(s) \in s /\ s \ {AnyOf(s)} \in SUBSET T
    BY <2>1, AnyOfIsOne
  <2>3. Cardinality(s \ {AnyOf(s)}) = n
    BY <2>2, Counting
  <2>4. g[s \ {AnyOf(s)}] = h[s \ {AnyOf(s)}]
    BY <1>2, <2>2, <2>3
  <2>5. g[s] = f[AnyOf(s)] + g[s \ {AnyOf(s)}]
    BY <1>g, <2>1
  <2>6. h[s] = e[AnyOf(s)] + h[s \ {AnyOf(s)}]
    BY <1>h, <2>1
  <2> QED
    BY <2>2, <2>4, <2>5, <2>6
<1>3. \A n \in Nat : n \in N
  <2> HIDE DEF N
  <2> QED
    BY <1>1, <1>2, NaturalsAre
<1> QED
  BY <1>3, Counting

\* It does not matter which element is taken first.
LEMMA SummationTakes ==
    ASSUME NEW S, IsFiniteSet(S), NEW f, \A x \in S : f[x] \in Int,
           NEW g, Summation(g, f, S)
    PROVE  \A T \in SUBSET S : \A x \in T : g[T] = f[x] + g[T \ {x}]
<1> DEFINE N == {n \in Nat : \A T \in SUBSET S : Cardinality(T) = n =>
                                \A x \in T : g[T] = f[x] + g[T \ {x}]}
<1>0. /\ g[{}] = 0
      /\ \A s \in SUBSET S : s # {} => g[s] = f[AnyOf(s)] + g[s \ {AnyOf(s)}]
  BY SummationStep
<1>1. 0 \in N
  BY Counting
<1>2. ASSUME NEW n \in Nat, n \in N PROVE n + 1 \in N
  <2> SUFFICES ASSUME NEW T \in SUBSET S, Cardinality(T) = n + 1, NEW x \in T
               PROVE  g[T] = f[x] + g[T \ {x}]
    OBVIOUS
  <2> DEFINE y == AnyOf(T)
  <2>1. y \in T
    BY AnyOfIsOne
  <2>2. g[T] = f[y] + g[T \ {y}]
    BY <1>0
  <2> HIDE DEF y
  <2>3. CASE x = y
    BY <2>2, <2>3
  <2>4. CASE x # y
    <3>1. Cardinality(T \ {x}) = n /\ Cardinality(T \ {y}) = n
      BY <2>1, Counting
    <3>2. g[T \ {y}] = f[x] + g[(T \ {y}) \ {x}]
      BY <1>2, <2>1, <2>4, <3>1
    <3>3. g[T \ {x}] = f[y] + g[(T \ {x}) \ {y}]
      BY <1>2, <2>1, <2>4, <3>1
    <3>4. (T \ {x}) \ {y} = (T \ {y}) \ {x} /\ (T \ {x}) \ {y} \in SUBSET S
      OBVIOUS
    <3>5. g[(T \ {x}) \ {y}] \in Int
      BY <3>4, SummationType
    <3>6. f[x] \in Int /\ f[y] \in Int
      BY <2>1
    <3> DEFINE rest == g[(T \ {x}) \ {y}]
    <3>7. g[T \ {y}] = f[x] + rest /\ g[T \ {x}] = f[y] + rest /\ rest \in Int
      BY <3>2, <3>3, <3>4, <3>5
    <3> HIDE DEF rest
    <3> QED
      BY <2>2, <3>6, <3>7
  <2> QED
    BY <2>3, <2>4
<1>3. \A n \in Nat : n \in N
  <2> HIDE DEF N
  <2> QED
    BY <1>1, <1>2, NaturalsAre
<1> QED
  BY <1>3, Counting

\* The sum over no elements.
LEMMA SumOfNone == ASSUME NEW f PROVE SumOver(f, {}) = 0
<1>1. \E g : Summation(g, f, {})
  <2>1. \A x \in {} : f[x] \in Int
    OBVIOUS
  <2> QED
    BY <2>1, FS_EmptySet, SummationExists
<1>2. Summation(CHOOSE g : Summation(g, f, {}), f, {})
  BY <1>1
<1> QED
  BY <1>2, SummationStep DEF SumOver

\* A sum is what any Summation says that has the set among its subsets.
LEMMA SumIs ==
    ASSUME NEW S, IsFiniteSet(S), NEW f, \A x \in S : f[x] \in Int,
           NEW g, Summation(g, f, S), NEW T \in SUBSET S
    PROVE  SumOver(f, T) = g[T]
<1>1. IsFiniteSet(T) /\ \A x \in T : f[x] \in Int
  BY FS_Subset
<1>2. \E h : Summation(h, f, T)
  BY <1>1, SummationExists
<1> DEFINE h == CHOOSE h : Summation(h, f, T)
<1>3. Summation(h, f, T)
  BY <1>2
<1>4. SumOver(f, T) = h[T]
  BY DEF SumOver
<1> HIDE DEF h
<1>5. T \in SUBSET (S \cap T)
  OBVIOUS
<1>6. h[T] = g[T]
  BY <1>1, <1>3, <1>5, SummationsAgree
<1> QED
  BY <1>4, <1>6

\* A sum of integers is one, and any of its elements may be taken out of it.
LEMMA SumTakes ==
    ASSUME NEW S, IsFiniteSet(S), NEW f, \A x \in S : f[x] \in Int
    PROVE  /\ SumOver(f, S) \in Int
           /\ \A x \in S : SumOver(f, S) = f[x] + SumOver(f, S \ {x})
<1>1. PICK g : Summation(g, f, S)
  BY SummationExists
<1>2. \A T \in SUBSET S : SumOver(f, T) = g[T]
  BY <1>1, SumIs
<1>3. g[S] \in Int
  BY <1>1, SummationType
<1>4. \A x \in S : g[S] = f[x] + g[S \ {x}]
  BY <1>1, SummationTakes
<1> QED
  BY <1>2, <1>3, <1>4

\* An element that is new adds its own.
LEMMA SumAdds ==
    ASSUME NEW S, IsFiniteSet(S), NEW x, x \notin S,
           NEW f, \A y \in S \cup {x} : f[y] \in Int
    PROVE  /\ IsFiniteSet(S \cup {x})
           /\ SumOver(f, S) \in Int
           /\ SumOver(f, S \cup {x}) = SumOver(f, S) + f[x]
<1>1. IsFiniteSet(S \cup {x})
  BY FS_AddElement
<1>2. SumOver(f, S \cup {x}) = f[x] + SumOver(f, (S \cup {x}) \ {x})
  BY <1>1, SumTakes
<1>3. (S \cup {x}) \ {x} = S
  OBVIOUS
<1>4. SumOver(f, S) \in Int /\ f[x] \in Int
  BY SumTakes
<1>5. SumOver(f, S \cup {x}) = f[x] + SumOver(f, S)
  BY <1>2, <1>3
<1>6. SumOver(f, S \cup {x}) = SumOver(f, S) + f[x]
  BY <1>4, <1>5
<1> QED
  BY <1>1, <1>4, <1>6

\* Functions that agree on a set have the same sum over it.
LEMMA SumsAgree ==
    ASSUME NEW S, IsFiniteSet(S), NEW f, \A x \in S : f[x] \in Int,
           NEW e, \A x \in S : f[x] = e[x]
    PROVE  SumOver(f, S) = SumOver(e, S)
<1>1. PICK g : Summation(g, f, S)
  BY SummationExists
<1>2. PICK h : Summation(h, e, S)
  <2>1. \A x \in S : e[x] \in Int
    OBVIOUS
  <2> QED
    BY <2>1, SummationExists
<1>3. g[S] = h[S]
  BY <1>1, <1>2, SummationsAgree
<1>4. SumOver(f, S) = g[S] /\ SumOver(e, S) = h[S]
  <2>1. \A x \in S : e[x] \in Int
    OBVIOUS
  <2> QED
    BY <1>1, <1>2, <2>1, SumIs
<1> QED
  BY <1>3, <1>4

\* A sum of natural numbers is one, and no part of it is more than the whole.
LEMMA PartsAreLess ==
    ASSUME NEW S, IsFiniteSet(S), NEW f, \A x \in S : f[x] \in Nat, NEW T \in SUBSET S
    PROVE  /\ SumOver(f, T) \in Nat
           /\ SumOver(f, T) <= SumOver(f, S)
<1>1. \A U \in SUBSET S : IsFiniteSet(U) /\ SumOver(f, U) \in Int
  <2> TAKE U \in SUBSET S
  <2>1. IsFiniteSet(U) /\ \A x \in U : f[x] \in Int
    BY FS_Subset
  <2> QED
    BY <2>1, SumTakes
<1> DEFINE G == {U \in SUBSET (S \ T) : SumOver(f, T) <= SumOver(f, T \cup U)}
           H == {U \in SUBSET S : SumOver(f, U) >= 0}
<1>2. ASSUME NEW U \in SUBSET S, NEW x \in S, x \notin U
      PROVE  SumOver(f, U) <= SumOver(f, U \cup {x})
  <2>1. \A y \in U \cup {x} : f[y] \in Int
    OBVIOUS
  <2>2. SumOver(f, U \cup {x}) = SumOver(f, U) + f[x]
    BY <1>1, <1>2, <2>1, SumAdds
  <2>3. SumOver(f, U) \in Int /\ f[x] \in Nat
    BY <1>1
  <2> QED
    BY <2>2, <2>3
<1>3. \A U \in SUBSET S : U \in H
  <2>1. {} \in H
    BY SumOfNone
  <2>2. ASSUME NEW U \in SUBSET S, NEW x \in S, x \notin U, U \in H PROVE U \cup {x} \in H
    <3>1. SumOver(f, U) <= SumOver(f, U \cup {x}) /\ SumOver(f, U) >= 0
      BY <1>2, <2>2
    <3>2. U \cup {x} \in SUBSET S
      OBVIOUS
    <3>3. SumOver(f, U) \in Int /\ SumOver(f, U \cup {x}) \in Int
      BY <1>1, <3>2
    <3> QED
      BY <3>1, <3>2, <3>3
  <2> HIDE DEF H
  <2> QED
    BY <2>1, <2>2, SubsetsAre
<1>4. \A U \in SUBSET (S \ T) : U \in G
  <2>1. {} \in G
    <3>1. T \cup {} = T /\ SumOver(f, T) \in Int
      BY <1>1
    <3> QED
      BY <3>1
  <2>2. ASSUME NEW U \in SUBSET (S \ T), NEW x \in S \ T, x \notin U, U \in G
        PROVE  U \cup {x} \in G
    <3>1. T \cup U \in SUBSET S /\ x \in S /\ x \notin T \cup U
      BY <2>2
    <3>2. SumOver(f, T \cup U) <= SumOver(f, (T \cup U) \cup {x})
      BY <1>2, <3>1
    <3>3. (T \cup U) \cup {x} = T \cup (U \cup {x}) /\ U \cup {x} \in SUBSET (S \ T)
      OBVIOUS
    <3>4. /\ SumOver(f, T) \in Int /\ SumOver(f, T \cup U) \in Int
          /\ SumOver(f, T \cup (U \cup {x})) \in Int
      <4>1. T \cup (U \cup {x}) \in SUBSET S
        OBVIOUS
      <4> QED
        BY <1>1, <3>1, <4>1
    <3>5. SumOver(f, T) <= SumOver(f, T \cup U)
      BY <2>2
    <3>6. SumOver(f, T) <= SumOver(f, T \cup (U \cup {x}))
      BY <3>2, <3>3, <3>4, <3>5
    <3> QED
      BY <3>3, <3>6
  <2>3. IsFiniteSet(S \ T)
    BY <1>1
  <2> HIDE DEF G
  <2> QED
    BY SMTT(30), <2>1, <2>2, <2>3, SubsetsAre
<1>5. SumOver(f, T) \in Nat
  <2>1. T \in H
    BY <1>3
  <2> QED
    BY <1>1, <2>1
<1>6. SumOver(f, T) <= SumOver(f, S)
  <2>1. T \cup (S \ T) = S /\ S \ T \in G
    BY <1>4
  <2> QED
    BY <2>1
<1> QED
  BY <1>5, <1>6

=============================================================================
