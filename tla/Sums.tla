------------------------------- MODULE Sums -------------------------------
(***************************************************************************)
(* Facts about sums, numbers, finite sets and sequences that the proofs of *)
(* the components share.                                                   *)
(*                                                                         *)
(* Induction is stated for a set T of numbers, or of subsets, that is      *)
(* closed under one more step: a set can be an argument of a lemma where a *)
(* predicate cannot.  It rests on WFMin of WellFoundedInduction.  From it  *)
(* follows what SumFunction of the community modules promises: any term    *)
(* can be taken out of a sum, a sum follows its terms, and what goes on    *)
(* step by step along a recursive function can be followed.                *)
(***************************************************************************)
EXTENDS Integers, FiniteSetsExt, Functions, FiniteSetTheorems, SequenceTheorems,
        WellFoundedInduction, TLAPS

\* The order of the natural numbers as a relation
Below == {ss \in Nat \X Nat : ss[1] < ss[2]}

\* Induction over the natural numbers, of a set rather than a predicate.
LEMMA NatSetInduction ==
    ASSUME NEW T, 0 \in T, \A n \in Nat : n \in T => n + 1 \in T
    PROVE  Nat \subseteq T
  <1>. SUFFICES ASSUME Nat \ T # {} PROVE FALSE
    OBVIOUS
  <1>1. IsWellFoundedOn(Below, Nat)
    BY NatLessThanWellFounded DEF OpToRel, Below
  <1>2. PICK n \in Nat \ T : \A m \in Nat \ T : ~(<<m, n>> \in Below)
    BY <1>1, WFMin
  <1>3. n # 0 /\ n - 1 \in Nat
    OBVIOUS
  <1>4. <<n - 1, n>> \in Below
    BY <1>3 DEF Below
  <1>. QED
    BY <1>2, <1>3, <1>4

\* Induction over the subsets of a finite set
LEMMA SubsetInduction ==
    ASSUME NEW S, IsFiniteSet(S), NEW T, {} \in T,
           \A s \in SUBSET S : s # {} /\ (\A x \in s : s \ {x} \in T) => s \in T
    PROVE  SUBSET S \subseteq T
  <1>1. \A s \in SUBSET S : IsFiniteSet(s) /\ Cardinality(s) \in Nat
    BY FS_Subset, FS_CardinalityType
  <1>. DEFINE Upto == {n \in Nat : \A s \in SUBSET S : Cardinality(s) = n => s \in T}
  <1>2. 0 \in Upto
    BY <1>1, FS_EmptySet
  <1>3. ASSUME NEW n \in Nat, n \in Upto PROVE n + 1 \in Upto
    <2>. SUFFICES ASSUME NEW s \in SUBSET S, Cardinality(s) = n + 1 PROVE s \in T
      OBVIOUS
    <2>1. s # {}
      <3>1. Cardinality({}) = 0 /\ n + 1 # 0
        BY FS_EmptySet
      <3>. QED
        BY <3>1
    <2>2. ASSUME NEW x \in s PROVE s \ {x} \in T
      <3>1. Cardinality(s \ {x}) = Cardinality(s) - 1
        BY <1>1, FS_RemoveElement
      <3>. QED
        BY <3>1, <1>3
    <2>. QED
      BY <2>1, <2>2
  <1>4. Nat \subseteq Upto
    <2>. HIDE DEF Upto
    <2>. QED
      BY <1>2, <1>3, NatSetInduction
  <1>. QED
    BY <1>1, <1>4

-----------------------------------------------------------------------------
\* The element that a sum over s takes first
OneOf(s) == CHOOSE x \in s : TRUE

\* g sums f up along the subsets of S, one element after the other.
Along(g, f, S) ==
    \A s \in SUBSET S : g[s] = IF s = {} THEN 0 ELSE f[OneOf(s)] + g[s \ {OneOf(s)}]

\* Such a g exists.
LEMMA AlongExists ==
    ASSUME NEW S, IsFiniteSet(S), NEW f
    PROVE  \E g : Along(g, f, S)
  <1>1. \A s \in SUBSET S : IsFiniteSet(s) /\ Cardinality(s) \in Nat
    BY FS_Subset, FS_CardinalityType
  <1>. DEFINE Eq(g, s) == g[s] = IF s = {} THEN 0 ELSE f[OneOf(s)] + g[s \ {OneOf(s)}]
              Sized(n) == \E g : \A s \in SUBSET S : Cardinality(s) <= n => Eq(g, s)
              Upto == {n \in Nat : Sized(n)}
  <1>2. 0 \in Upto
    <2>. DEFINE g == [s \in SUBSET S |-> 0]
    <2>1. \A s \in SUBSET S : Cardinality(s) <= 0 => s = {}
      BY <1>1, FS_EmptySet
    <2>2. \A s \in SUBSET S : Cardinality(s) <= 0 => Eq(g, s)
      BY <2>1
    <2>. QED
      BY <2>2
  <1>3. ASSUME NEW n \in Nat, n \in Upto PROVE n + 1 \in Upto
    <2>1. PICK g : \A s \in SUBSET S : Cardinality(s) <= n => Eq(g, s)
      BY <1>3
    <2>. DEFINE h == [s \in SUBSET S |->
                        IF Cardinality(s) <= n THEN g[s]
                        ELSE IF s = {} THEN 0 ELSE f[OneOf(s)] + g[s \ {OneOf(s)}]]
    <2>2. ASSUME NEW s \in SUBSET S, s # {}
          PROVE  /\ OneOf(s) \in s /\ s \ {OneOf(s)} \in SUBSET S
                 /\ Cardinality(s \ {OneOf(s)}) = Cardinality(s) - 1
      <3>1. OneOf(s) \in s
        BY <2>2 DEF OneOf
      <3>. QED
        BY <1>1, <3>1, FS_RemoveElement
    <2>3. ASSUME NEW s \in SUBSET S, Cardinality(s) <= n + 1 PROVE Eq(h, s)
      <3>1. CASE s = {}
        <4>1. Cardinality(s) = 0
          BY <3>1, FS_EmptySet
        <4>. QED
          BY <2>1, <3>1, <4>1
      <3>2. CASE s # {}
        <4>1. h[s \ {OneOf(s)}] = g[s \ {OneOf(s)}]
          BY <1>1, <2>2, <2>3, <3>2
        <4>2. h[s] = f[OneOf(s)] + g[s \ {OneOf(s)}]
          BY <2>1, <2>3, <3>2
        <4>. QED
          BY <3>2, <4>1, <4>2
      <3>. QED
        BY <3>1, <3>2
    <2>. HIDE DEF h
    <2>4. Sized(n + 1)
      BY <2>3
    <2>. HIDE DEF Sized
    <2>. QED
      BY <2>4
  <1>4. Nat \subseteq Upto
    <2>. HIDE DEF Upto
    <2>. QED
      BY <1>2, <1>3, NatSetInduction
  <1>5. PICK g : \A s \in SUBSET S : Cardinality(s) <= Cardinality(S) => Eq(g, s)
    BY <1>1, <1>4
  <1>6. \A s \in SUBSET S : Cardinality(s) <= Cardinality(S)
    BY FS_Subset
  <1>. QED
    BY <1>5, <1>6 DEF Along

\* The library's sum is the last value of one.
LEMMA SumAlong ==
    ASSUME NEW S, IsFiniteSet(S), NEW f, DOMAIN f = S
    PROVE  \E g : Along(g, f, S) /\ SumFunction(f) = g[S]
  <1>. DEFINE Eq(g) == g = [s \in SUBSET S |-> IF s = {} THEN 0 ELSE f[OneOf(s)] + g[s \ {OneOf(s)}]]
  <1>1. SumFunction(f) = (CHOOSE g : Eq(g))[S]
    BY DEF SumFunction, SumFunctionOnSet, FoldFunctionOnSet, MapThenFoldSet, OneOf
  <1>2. PICK g : Along(g, f, S)
    BY AlongExists
  <1>. DEFINE h == [s \in SUBSET S |-> g[s]]
  <1>3. \A s \in SUBSET S : s \ {OneOf(s)} \in SUBSET S
    OBVIOUS
  <1>4. Eq(h)
    BY <1>2, <1>3 DEF Along
  <1>5. Eq(CHOOSE x : Eq(x))
    <2>. HIDE DEF Eq
    <2>. QED
      BY <1>4
  <1>6. Along(CHOOSE x : Eq(x), f, S)
    <2>. DEFINE k == CHOOSE x : Eq(x)
    <2>1. k = [s \in SUBSET S |-> IF s = {} THEN 0 ELSE f[OneOf(s)] + k[s \ {OneOf(s)}]]
      BY <1>5
    <2>. HIDE DEF k
    <2>2. Along(k, f, S)
      BY <2>1 DEF Along
    <2>. QED
      BY <2>2 DEF k
  <1>. QED
    BY <1>1, <1>6

\* It does not matter which set it runs along.
LEMMA AlongAgree ==
    ASSUME NEW S, IsFiniteSet(S), NEW f, NEW g, Along(g, f, S),
           NEW R, R \subseteq S, NEW e, NEW h, Along(h, e, R), \A x \in R : e[x] = f[x]
    PROVE  g[R] = h[R]
  <1>1. IsFiniteSet(R)
    BY FS_Subset
  <1>. DEFINE T == {s \in SUBSET R : g[s] = h[s]}
  <1>2. {} \in T
    BY DEF Along
  <1>3. ASSUME NEW s \in SUBSET R, s # {}, \A x \in s : s \ {x} \in T PROVE s \in T
    <2>1. OneOf(s) \in s
      BY <1>3 DEF OneOf
    <2>2. s \in SUBSET S /\ e[OneOf(s)] = f[OneOf(s)]
      BY <2>1
    <2>3. g[s \ {OneOf(s)}] = h[s \ {OneOf(s)}]
      BY <1>3, <2>1
    <2>4. g[s] = f[OneOf(s)] + g[s \ {OneOf(s)}] /\ h[s] = e[OneOf(s)] + h[s \ {OneOf(s)}]
      BY <1>3, <2>2 DEF Along
    <2>. QED
      BY <2>2, <2>3, <2>4
  <1>4. SUBSET R \subseteq T
    <2>. HIDE DEF T
    <2>. QED
      BY <1>1, <1>2, <1>3, SubsetInduction
  <1>. QED
    BY <1>4

\* It adds integers up to integers,
LEMMA AlongInt ==
    ASSUME NEW S, IsFiniteSet(S), NEW f, \A x \in S : f[x] \in Int, NEW g, Along(g, f, S)
    PROVE  \A s \in SUBSET S : g[s] \in Int
  <1>. DEFINE T == {s \in SUBSET S : g[s] \in Int}
  <1>1. {} \in T
    <2>1. {} \in SUBSET S /\ g[{}] = 0
      BY DEF Along
    <2>. QED
      BY <2>1
  <1>2. ASSUME NEW s \in SUBSET S, s # {}, \A x \in s : s \ {x} \in T PROVE s \in T
    <2>1. OneOf(s) \in s
      BY <1>2 DEF OneOf
    <2>2. g[s] = f[OneOf(s)] + g[s \ {OneOf(s)}]
      BY <1>2 DEF Along
    <2>3. f[OneOf(s)] \in Int /\ g[s \ {OneOf(s)}] \in Int
      BY <1>2, <2>1
    <2>4. g[s] \in Int
      BY <2>2, <2>3
    <2>. QED
      BY <1>2, <2>4
  <1>3. SUBSET S \subseteq T
    <2>. HIDE DEF T
    <2>. QED
      BY <1>1, <1>2, SubsetInduction
  <1>. QED
    BY <1>3

\* and the order does not matter.
LEMMA AlongAnyOrder ==
    ASSUME NEW S, IsFiniteSet(S), NEW f, \A x \in S : f[x] \in Int, NEW g, Along(g, f, S)
    PROVE  \A s \in SUBSET S : \A x \in s : g[s] = f[x] + g[s \ {x}]
  <1>. DEFINE Right(s) == \A x \in s : g[s] = f[x] + g[s \ {x}]
              T == {s \in SUBSET S : Right(s)}
  <1>1. {} \in T
    OBVIOUS
  <1>2. ASSUME NEW s \in SUBSET S, s # {}, \A x \in s : s \ {x} \in T PROVE s \in T
    <2>. DEFINE a == OneOf(s)
    <2>1. a \in s
      BY <1>2 DEF OneOf
    <2>2. g[s] = f[a] + g[s \ {a}]
      BY <1>2 DEF Along
    <2>3. \A x \in s : Right(s \ {x})
      BY <1>2
    <2>. HIDE DEF a
    <2>4. ASSUME NEW x \in s PROVE g[s] = f[x] + g[s \ {x}]
      <3>1. CASE x = a
        BY <2>2, <3>1
      <3>2. CASE x # a
        <4>. DEFINE r == (s \ {x}) \ {a}
        <4>1. x \in s \ {a} /\ a \in s \ {x} /\ (s \ {a}) \ {x} = r /\ r \in SUBSET S
          BY <2>1, <3>2
        <4>2. g[s \ {a}] = f[x] + g[r] /\ g[s \ {x}] = f[a] + g[r]
          BY <2>1, <2>3, <4>1
        <4>3. g[r] \in Int /\ f[x] \in Int /\ f[a] \in Int
          BY <2>1, <4>1, AlongInt
        <4>. HIDE DEF r
        <4>. QED
          BY <2>2, <4>2, <4>3
      <3>. QED
        BY <3>1, <3>2
    <2>. QED
      BY <2>4
  <1>3. SUBSET S \subseteq T
    <2>. HIDE DEF T
    <2>. QED
      BY <1>1, <1>2, SubsetInduction
  <1>. QED
    BY <1>3

-----------------------------------------------------------------------------
\* What the proofs need of a sum: it is an integer,
LEMMA SumInt ==
    ASSUME NEW S, IsFiniteSet(S), NEW f \in [S -> Int]
    PROVE  SumFunction(f) \in Int
  BY SumAlong, AlongInt

\* nothing adds up to 0,
LEMMA SumOfNone ==
    ASSUME NEW f, DOMAIN f = {}
    PROVE  SumFunction(f) = 0
  <1>1. PICK g : Along(g, f, {}) /\ SumFunction(f) = g[{}]
    BY SumAlong, FS_EmptySet
  <1>. QED
    BY <1>1 DEF Along

\* and one term can be taken out.
LEMMA SumTerm ==
    ASSUME NEW S, IsFiniteSet(S), NEW f \in [S -> Int], NEW x \in S
    PROVE  SumFunction(f) = f[x] + SumFunction([y \in S \ {x} |-> f[y]])
  <1>1. PICK g : Along(g, f, S) /\ SumFunction(f) = g[S]
    BY SumAlong
  <1>. DEFINE e == [y \in S \ {x} |-> f[y]]
  <1>2. IsFiniteSet(S \ {x})
    BY FS_RemoveElement
  <1>3. DOMAIN e = S \ {x} /\ \A y \in S \ {x} : e[y] = f[y]
    OBVIOUS
  <1>. HIDE DEF e
  <1>4. PICK h : Along(h, e, S \ {x}) /\ SumFunction(e) = h[S \ {x}]
    BY <1>2, <1>3, SumAlong
  <1>5. g[S \ {x}] = h[S \ {x}]
    BY <1>1, <1>3, <1>4, AlongAgree
  <1>6. g[S] = f[x] + g[S \ {x}]
    BY <1>1, AlongAnyOrder
  <1>. QED
    BY <1>1, <1>4, <1>5, <1>6 DEF e

\* The same with the other terms as a function of their own
LEMMA TermOut ==
    ASSUME NEW S, IsFiniteSet(S), NEW f \in [S -> Int], NEW x \in S,
           NEW e, e = [y \in S \ {x} |-> e[y]], \A y \in S \ {x} : e[y] = f[y]
    PROVE  SumFunction(f) = f[x] + SumFunction(e)
  <1>. DEFINE rest == [y \in S \ {x} |-> f[y]]
  <1>1. e = rest
    OBVIOUS
  <1>2. SumFunction(f) = f[x] + SumFunction(rest)
    BY SumTerm
  <1>. HIDE DEF rest
  <1>. QED
    BY <1>1, <1>2

\* Terms of 0 may be left out.
LEMMA SumOfRest ==
    ASSUME NEW S, IsFiniteSet(S), NEW f \in [S -> Int], NEW R \in SUBSET S, \A x \in S \ R : f[x] = 0
    PROVE  SumFunction(f) = SumFunction([x \in R |-> f[x]])
  <1>. DEFINE part(s) == [x \in R \cup s |-> f[x]]
              D == S \ R
              T == {s \in SUBSET D : SumFunction(part(s)) = SumFunction(part({}))}
  <1>1. IsFiniteSet(D)
    BY FS_Difference
  <1>2. {} \in T
    OBVIOUS
  <1>3. ASSUME NEW s \in SUBSET D, s # {}, \A x \in s : s \ {x} \in T PROVE s \in T
    <2>1. PICK x \in s : TRUE
      BY <1>3
    <2>. DEFINE U == R \cup s
                g == part(s)
    <2>2. /\ U \in SUBSET S /\ x \in U /\ U \ {x} = R \cup (s \ {x})
          /\ g \in [U -> Int] /\ g[x] = 0 /\ \A y \in U : g[y] = f[y]
      BY <1>3, <2>1
    <2>3. IsFiniteSet(U)
      BY <2>2, FS_Subset
    <2>4. [y \in U \ {x} |-> g[y]] = part(s \ {x})
      BY <2>2
    <2>. HIDE DEF U, g
    <2>5. SumFunction(g) = g[x] + SumFunction([y \in U \ {x} |-> g[y]])
      BY <2>2, <2>3, SumTerm
    <2>6. SumFunction(part(s \ {x})) = SumFunction(part({}))
      BY <1>3, <2>1
    <2>7. SumFunction(part({})) \in Int
      <3>1. part({}) \in [R -> Int] /\ IsFiniteSet(R)
        BY FS_Subset
      <3>. HIDE DEF part
      <3>. QED
        BY <3>1, SumInt
    <2>8. SumFunction(g) = SumFunction(part({}))
      <3>. HIDE DEF part
      <3>. QED
        BY <2>2, <2>4, <2>5, <2>6, <2>7
    <2>. QED
      BY <2>8 DEF g
  <1>4. SUBSET D \subseteq T
    <2>. HIDE DEF T, D
    <2>. QED
      BY <1>1, <1>2, <1>3, SubsetInduction
  <1>5. SumFunction(part(D)) = SumFunction(part({}))
    BY <1>4
  <1>6. part(D) = f /\ part({}) = [x \in R |-> f[x]]
    <2>1. R \cup D = S /\ R \cup {} = R
      OBVIOUS
    <2>. QED
      BY <2>1
  <1>. QED
    BY <1>5, <1>6

-----------------------------------------------------------------------------
\* A finite set has a subset of every size up to its own.
LEMMA SubsetOfSize ==
    ASSUME NEW S, IsFiniteSet(S), NEW k \in 0 .. Cardinality(S)
    PROVE  kSubset(k, S) # {}
  <1>. DEFINE T == {s \in SUBSET S : k <= Cardinality(s) => \E r \in SUBSET s : Cardinality(r) = k}
  <1>0. \A s \in SUBSET S : IsFiniteSet(s) /\ Cardinality(s) \in Nat
    BY FS_Subset, FS_CardinalityType
  <1>1. {} \in T
    <2>1. Cardinality({}) = 0
      BY FS_EmptySet
    <2>. QED
      BY <2>1
  <1>2. ASSUME NEW s \in SUBSET S, s # {}, \A x \in s : s \ {x} \in T PROVE s \in T
    <2>. SUFFICES ASSUME k < Cardinality(s) PROVE \E r \in SUBSET s : Cardinality(r) = k
      BY <1>0
    <2>1. PICK x \in s : TRUE
      BY <1>2
    <2>2. Cardinality(s \ {x}) = Cardinality(s) - 1
      BY <1>0, <2>1, FS_RemoveElement
    <2>3. s \ {x} \in T /\ k <= Cardinality(s \ {x})
      BY <1>0, <1>2, <2>2
    <2>. QED
      BY <2>3
  <1>3. SUBSET S \subseteq T
    <2>. HIDE DEF T
    <2>. QED
      BY <1>1, <1>2, SubsetInduction
  <1>4. S \in T
    BY <1>3
  <1>. QED
    BY <1>0, <1>4 DEF kSubset

\* The smaller and the greater of two numbers
LEMMA MinOfTwo ==
    ASSUME NEW x \in Int, NEW y \in Int
    PROVE  Min({x, y}) = IF x <= y THEN x ELSE y
  <1>. DEFINE z == IF x <= y THEN x ELSE y
  <1>1. z \in {x, y} /\ \A v \in {x, y} : z <= v
    OBVIOUS
  <1>. QED
    BY <1>1 DEF Min

\* The larger of two numbers.
LEMMA MaxOfTwo ==
    ASSUME NEW x \in Int, NEW y \in Int
    PROVE  Max({x, y}) = IF x >= y THEN x ELSE y
  <1>. DEFINE z == IF x >= y THEN x ELSE y
  <1>1. z \in {x, y} /\ \A v \in {x, y} : z >= v
    OBVIOUS
  <1>. QED
    BY <1>1 DEF Max

\* A product is not negative if its factors are not, and not positive if one
\* of them is negative.
LEMMA ProductSign ==
    /\ \A x, y \in Nat : x * y \in Nat
    /\ \A x \in Nat : \A y \in Int : y <= 0 => x * y <= 0
  OBVIOUS

\* A sequence of whatever
IsSequence(seq) == \E S : seq \in Seq(S)

\* A setup I, two steps o and s, and a rest T follow old: where each of them
\* is found
Joined(new, old, I, o, s, T) ==
    LET n == Len(old) + Len(I)
    IN  /\ IsSequence(new) /\ Len(new) = n + 2 + Len(T)
        /\ \A k \in 1 .. Len(old) : new[k] = old[k]
        /\ \A k \in 1 .. Len(I) : new[Len(old) + k] = I[k]
        /\ new[n + 1] = o /\ new[n + 2] = s
        /\ \A k \in 1 .. Len(T) : new[n + 2 + k] = T[k]

\* Where a setup, two steps and a rest are found once they are appended.
LEMMA Appended ==
    ASSUME NEW A, NEW old \in Seq(A), NEW B, NEW I \in Seq(B), NEW o, NEW s, NEW C, NEW T \in Seq(C)
    PROVE  Joined(old \o (I \o <<o>> \o <<s>> \o T), old, I, o, s, T)
  <1>. DEFINE S == A \cup B \cup {o, s} \cup C
  <1>1. /\ old \in Seq(S) /\ I \in Seq(S) /\ T \in Seq(S) /\ <<o>> \in Seq(S) /\ <<s>> \in Seq(S)
        /\ Len(<<o>>) = 1 /\ Len(<<s>>) = 1 /\ <<o>>[1] = o /\ <<s>>[1] = s
    OBVIOUS
  <1>. HIDE DEF S
  <1>2. \A p, q \in Seq(S) : /\ p \o q \in Seq(S) /\ Len(p \o q) = Len(p) + Len(q)
                             /\ \A k \in 1 .. Len(p) : (p \o q)[k] = p[k]
                             /\ \A k \in 1 .. Len(q) : (p \o q)[Len(p) + k] = q[k]
    BY ConcatProperties
  <1>. DEFINE io == I \o <<o>>
              ios == io \o <<s>>
              all == ios \o T
              new == old \o all
  <1>l. Len(old) \in Nat /\ Len(I) \in Nat /\ Len(T) \in Nat
    BY <1>1
  <1>3. /\ io \in Seq(S) /\ Len(io) = Len(I) + 1
        /\ \A k \in 1 .. Len(I) : io[k] = I[k]
        /\ io[Len(I) + 1] = o
    <2>1. 1 \in 1 .. 1
      OBVIOUS
    <2>. QED
      BY <1>1, <1>2, <2>1
  <1>. HIDE DEF io
  <1>4. /\ ios \in Seq(S) /\ Len(ios) = Len(I) + 2
        /\ \A k \in 1 .. Len(I) : ios[k] = I[k]
        /\ ios[Len(I) + 1] = o /\ ios[Len(I) + 2] = s
    <2>1. \A k \in 1 .. Len(I) + 1 : ios[k] = io[k]
      BY <1>1, <1>2, <1>3
    <2>2. ios[Len(io) + 1] = s
      BY <1>1, <1>2, <1>3
    <2>. QED
      BY <1>1, <1>2, <1>3, <2>1, <2>2, <1>l
  <1>. HIDE DEF ios
  <1>5. /\ all \in Seq(S) /\ Len(all) = Len(I) + 2 + Len(T)
        /\ \A k \in 1 .. Len(I) : all[k] = I[k]
        /\ all[Len(I) + 1] = o /\ all[Len(I) + 2] = s
        /\ \A k \in 1 .. Len(T) : all[Len(I) + 2 + k] = T[k]
    <2>1. \A k \in 1 .. Len(I) + 2 : all[k] = ios[k]
      BY <1>1, <1>2, <1>4
    <2>2. \A k \in 1 .. Len(T) : all[Len(ios) + k] = T[k]
      BY <1>1, <1>2, <1>4
    <2>3. all \in Seq(S) /\ Len(all) = Len(ios) + Len(T)
      BY <1>1, <1>2, <1>4
    <2>. QED
      BY <1>4, <2>1, <2>2, <2>3, <1>l
  <1>. HIDE DEF all
  <1>6. /\ new \in Seq(S) /\ Len(new) = Len(old) + Len(all)
        /\ \A k \in 1 .. Len(old) : new[k] = old[k]
        /\ \A k \in 1 .. Len(all) : new[Len(old) + k] = all[k]
    BY <1>1, <1>2, <1>5
  <1>. HIDE DEF new
  <1>7. /\ \A k \in 1 .. Len(I) : new[Len(old) + k] = I[k]
        /\ new[Len(old) + Len(I) + 1] = o /\ new[Len(old) + Len(I) + 2] = s
        /\ \A k \in 1 .. Len(T) : new[Len(old) + Len(I) + 2 + k] = T[k]
    <2>1. \A k \in 1 .. Len(all) : new[Len(old) + k] = all[k]
      BY <1>6
    <2>2. \A k \in 1 .. Len(I) : new[Len(old) + k] = I[k]
      BY <2>1, <1>5, <1>l
    <2>3. new[Len(old) + (Len(I) + 1)] = o /\ new[Len(old) + (Len(I) + 2)] = s
      BY <2>1, <1>5, <1>l
    <2>4. \A k \in 1 .. Len(T) : new[Len(old) + (Len(I) + 2 + k)] = T[k]
      BY <2>1, <1>5, <1>l
    <2>. QED
      BY <2>2, <2>3, <2>4, <1>l
  <1>8. IsSequence(new) /\ Len(new) = Len(old) + Len(I) + 2 + Len(T)
    BY <1>5, <1>6, <1>l DEF IsSequence
  <1>. QED
    BY <1>6, <1>7, <1>8 DEF Joined, new, all, ios, io

---------------------------------------------------------------------------
\* How many elements a set has

\* A finite set of numbers that is not empty has a least and a greatest one.
LEMMA Extremes ==
    ASSUME NEW S \in SUBSET Int, IsFiniteSet(S), S # {}
    PROVE  /\ \E a \in S : \A x \in S : a <= x
           /\ \E b \in S : \A x \in S : x <= b
  <1>. DEFINE Low(s) == \E a \in s : \A x \in s : a <= x
              High(s) == \E b \in s : \A x \in s : x <= b
              T == {s \in SUBSET S : s = {} \/ (Low(s) /\ High(s))}
  <1>1. {} \in T
    OBVIOUS
  <1>2. ASSUME NEW s \in SUBSET S, s # {}, \A x \in s : s \ {x} \in T
        PROVE  s \in T
    <2>1. PICK y \in s : TRUE
      BY <1>2
    <2>2. CASE s \ {y} = {}
      <3>1. \A x \in s : x = y
        BY <2>2
      <3>2. y \in Int /\ y <= y
        OBVIOUS
      <3>3. Low(s) /\ High(s)
        BY <3>1, <3>2
      <3>. QED
        BY <3>3
    <2>3. CASE s \ {y} # {}
      <3>1. Low(s \ {y}) /\ High(s \ {y})
        BY <1>2, <2>3
      <3>2. Low(s)
        <4>1. PICK a \in s \ {y} : \A x \in s \ {y} : a <= x
          BY <3>1
        <4>2. a \in Int /\ y \in Int /\ \A x \in s : x \in Int
          OBVIOUS
        <4>3. CASE a <= y
          BY <4>1, <4>2, <4>3
        <4>4. CASE y <= a
          <5>1. y <= y /\ \A x \in s \ {y} : y <= x
            BY <4>1, <4>2, <4>4
          <5>. QED
            BY <5>1
        <4>. QED
          BY <4>2, <4>3, <4>4
      <3>3. High(s)
        <4>1. PICK b \in s \ {y} : \A x \in s \ {y} : x <= b
          BY <3>1
        <4>2. b \in Int /\ y \in Int /\ \A x \in s : x \in Int
          OBVIOUS
        <4>3. CASE y <= b
          BY <4>1, <4>2, <4>3
        <4>4. CASE b <= y
          <5>1. y <= y /\ \A x \in s \ {y} : x <= y
            BY <4>1, <4>2, <4>4
          <5>. QED
            BY <5>1
        <4>. QED
          BY <4>2, <4>3, <4>4
      <3>. QED
        BY <3>2, <3>3
    <2>. QED
      BY <2>2, <2>3
  <1>3. SUBSET S \subseteq T
    <2>. HIDE DEF T
    <2>. QED
      BY <1>1, <1>2, SubsetInduction
  <1>. QED
    BY <1>3

\* A set that a function reaches from S is no bigger than S.
LEMMA ImageSize ==
    ASSUME NEW S, IsFiniteSet(S), NEW f, NEW T, \A y \in T : \E x \in S : y = f[x]
    PROVE  IsFiniteSet(T) /\ Cardinality(T) <= Cardinality(S) /\ Cardinality(T) \in Nat
  <1>. DEFINE I == {f[x] : x \in S}
  <1>1. [x \in S |-> f[x]] \in Surjection(S, I)
    BY DEF Surjection
  <1>2. IsFiniteSet(I) /\ Cardinality(I) <= Cardinality(S)
    BY <1>1, FS_Surjection
  <1>3. T \in SUBSET I
    OBVIOUS
  <1>. HIDE DEF I
  <1>4. IsFiniteSet(T) /\ Cardinality(T) <= Cardinality(I)
    BY <1>2, <1>3, FS_Subset
  <1>5. Cardinality(T) \in Nat /\ Cardinality(I) \in Nat /\ Cardinality(S) \in Nat
    BY <1>2, <1>4, FS_CardinalityType
  <1>. QED
    BY <1>2, <1>4, <1>5

\* Two sets together are no bigger than the sum of them.
LEMMA UnionSize ==
    ASSUME NEW S, IsFiniteSet(S), NEW T, IsFiniteSet(T)
    PROVE  /\ IsFiniteSet(S \cup T) /\ Cardinality(S \cup T) <= Cardinality(S) + Cardinality(T)
           /\ Cardinality(S) \in Nat /\ Cardinality(T) \in Nat /\ Cardinality(S \cup T) \in Nat
  <1>1. /\ IsFiniteSet(S \cup T)
        /\ Cardinality(S \cup T) = Cardinality(S) + Cardinality(T) - Cardinality(S \cap T)
    BY FS_Union
  <1>2. IsFiniteSet(S \cap T)
    BY FS_Intersection
  <1>3. /\ Cardinality(S \cap T) \in Nat /\ Cardinality(S) \in Nat
        /\ Cardinality(T) \in Nat /\ Cardinality(S \cup T) \in Nat
    BY <1>1, <1>2, FS_CardinalityType
  <1>. QED
    BY <1>1, <1>3

\* The pairs of different elements
LEMMA PairsSize ==
    ASSUME NEW S, IsFiniteSet(S)
    PROVE  LET D == {q \in S \X S : q[1] # q[2]}
               n == Cardinality(S)
           IN  IsFiniteSet(D) /\ Cardinality(D) = n * (n - 1)
  <1>. DEFINE P == S \X S
              D == {q \in P : q[1] # q[2]}
              E == {<<x, x>> : x \in S}
              n == Cardinality(S)
  <1>1. n \in Nat
    BY FS_CardinalityType
  <1>2. IsFiniteSet(P) /\ Cardinality(P) = n * n
    BY FS_Product
  <1>3. [x \in S |-> <<x, x>>] \in Bijection(S, E)
    <2>. DEFINE f == [x \in S |-> <<x, x>>]
    <2>1. f \in [S -> E] /\ \A e \in E : \E x \in S : f[x] = e
      OBVIOUS
    <2>2. \A x, y \in S : f[x] = f[y] => x = y
      <3>. TAKE x, y \in S
      <3>. HAVE f[x] = f[y]
      <3>1. <<x, x>> = <<y, y>>
        OBVIOUS
      <3>2. <<x, x>>[1] = <<y, y>>[1]
        BY <3>1
      <3>. QED
        BY <3>2
    <2>. HIDE DEF f
    <2>. QED
      BY <2>1, <2>2 DEF Bijection, Injection, Surjection, IsInjective
  <1>4. Cardinality(E) = n
    BY <1>3, FS_Bijection DEF ExistsBijection
  <1>5. D = P \ E /\ P \cap E = E
    <2>1. \A q \in P : q = <<q[1], q[2]>>
      OBVIOUS
    <2>2. \A q \in E : q[1] = q[2] /\ q \in P
      OBVIOUS
    <2>3. \A q \in P : q[1] = q[2] => q \in E
      BY <2>1
    <2>. QED
      BY <2>2, <2>3
  <1>. HIDE DEF P, D, E, n
  <1>6. IsFiniteSet(D) /\ Cardinality(D) = Cardinality(P) - Cardinality(E)
    BY <1>2, <1>5, FS_Difference
  <1>7. n * n - n = n * (n - 1)
    BY <1>1
  <1>8. IsFiniteSet(D) /\ Cardinality(D) = n * (n - 1)
    BY <1>2, <1>4, <1>6, <1>7
  <1>. QED
    BY <1>8 DEF D, P, n

\* Products grow with their factors.
LEMMA ProductGrows ==
    ASSUME NEW a \in Nat, NEW b \in Nat, NEW c \in Nat, NEW d \in Nat, a <= c, b <= d
    PROVE  a * b <= c * d /\ a * b \in Nat /\ c * d \in Nat
  <1>1. a * b <= c * b
    OBVIOUS
  <1>2. c * b <= c * d
    OBVIOUS
  <1>3. a * b \in Nat /\ c * b \in Nat /\ c * d \in Nat
    OBVIOUS
  <1>. QED
    BY <1>1, <1>2, <1>3

\* A set that a function reaches from pairs is no bigger than their number.
LEMMA ProductImage ==
    ASSUME NEW S, IsFiniteSet(S), NEW R, IsFiniteSet(R), NEW n \in Nat, Cardinality(S) <= n,
           NEW f, NEW T, \A y \in T : \E q \in S \X R : y = f[q]
    PROVE  IsFiniteSet(T) /\ Cardinality(T) \in Nat /\ Cardinality(T) <= n * Cardinality(R)
  <1>. DEFINE P == S \X R
  <1>1. IsFiniteSet(P) /\ Cardinality(P) = Cardinality(S) * Cardinality(R)
    BY FS_Product
  <1>2. \A y \in T : \E q \in P : y = f[q]
    OBVIOUS
  <1>. HIDE DEF P
  <1>3. IsFiniteSet(T) /\ Cardinality(T) <= Cardinality(P) /\ Cardinality(T) \in Nat
    BY <1>1, <1>2, ImageSize
  <1>4. Cardinality(S) \in Nat /\ Cardinality(R) \in Nat
    BY FS_CardinalityType
  <1>5. /\ Cardinality(S) * Cardinality(R) <= n * Cardinality(R)
        /\ Cardinality(S) * Cardinality(R) \in Nat /\ n * Cardinality(R) \in Nat
    BY <1>4, ProductGrows
  <1>. QED
    BY <1>1, <1>3, <1>5

\* Sums of which one term differs differ by that.
LEMMA SumChanges ==
    ASSUME NEW S, IsFiniteSet(S), NEW f \in [S -> Int], NEW g \in [S -> Int], NEW x \in S,
           \A y \in S \ {x} : f[y] = g[y]
    PROVE  SumFunction(g) = SumFunction(f) + (g[x] - f[x]) /\ SumFunction(f) \in Int
  <1>. DEFINE e == [y \in S \ {x} |-> f[y]]
              r == SumFunction(e)
  <1>1. SumFunction(f) = f[x] + r /\ SumFunction(g) = g[x] + SumFunction([y \in S \ {x} |-> g[y]])
    BY SumTerm
  <1>2. [y \in S \ {x} |-> g[y]] = e
    OBVIOUS
  <1>3. e \in [S \ {x} -> Int] /\ IsFiniteSet(S \ {x})
    BY FS_RemoveElement
  <1>4. r \in Int
    BY <1>3, SumInt
  <1>5. f[x] \in Int /\ g[x] \in Int
    OBVIOUS
  <1>. HIDE DEF e, r
  <1>. QED
    BY <1>1, <1>2, <1>4, <1>5 DEF r

\* The same for all functions that differ in one place
LEMMA OneTermChanges ==
    ASSUME NEW S, IsFiniteSet(S), NEW x \in S
    PROVE  \A f, g \in [S -> Int] :
              (\A y \in S \ {x} : f[y] = g[y]) => SumFunction(g) = SumFunction(f) + (g[x] - f[x])
  <1>. SUFFICES ASSUME NEW f \in [S -> Int], NEW g \in [S -> Int], \A y \in S \ {x} : f[y] = g[y]
                PROVE  SumFunction(g) = SumFunction(f) + (g[x] - f[x])
    OBVIOUS
  <1>. QED
    BY SumChanges

\* A sum of terms no greater is no greater,
LEMMA SumOrder ==
    ASSUME NEW S, IsFiniteSet(S), NEW f \in [S -> Int], NEW g \in [S -> Int],
           \A x \in S : f[x] <= g[x]
    PROVE  SumFunction(f) <= SumFunction(g)
  <1>1. PICK u : Along(u, f, S) /\ SumFunction(f) = u[S]
    BY SumAlong
  <1>2. PICK v : Along(v, g, S) /\ SumFunction(g) = v[S]
    BY SumAlong
  <1>3. \A s \in SUBSET S : u[s] \in Int /\ v[s] \in Int
    BY <1>1, <1>2, AlongInt
  <1>. DEFINE T == {s \in SUBSET S : u[s] <= v[s]}
  <1>4. {} \in T
    <2>1. {} \in SUBSET S
      OBVIOUS
    <2>2. u[{}] = 0 /\ v[{}] = 0
      BY <1>1, <1>2, <2>1 DEF Along
    <2>. QED
      BY <2>2
  <1>5. ASSUME NEW s \in SUBSET S, s # {}, \A x \in s : s \ {x} \in T PROVE s \in T
    <2>1. PICK x \in s : TRUE
      BY <1>5
    <2>2. u[s] = f[x] + u[s \ {x}] /\ v[s] = g[x] + v[s \ {x}]
      BY <1>1, <1>2, AlongAnyOrder
    <2>3. u[s \ {x}] <= v[s \ {x}]
      BY <1>5
    <2>4. f[x] \in Int /\ g[x] \in Int /\ f[x] <= g[x] /\ u[s \ {x}] \in Int /\ v[s \ {x}] \in Int
      BY <1>3
    <2>. QED
      BY <2>2, <2>3, <2>4
  <1>6. SUBSET S \subseteq T
    <2>. HIDE DEF T
    <2>. QED
      BY <1>4, <1>5, SubsetInduction
  <1>. QED
    BY <1>1, <1>2, <1>6

\* and a lesser one with a lesser term.
LEMMA SumStrict ==
    ASSUME NEW S, IsFiniteSet(S), NEW f \in [S -> Int], NEW g \in [S -> Int],
           \A x \in S : f[x] <= g[x], NEW x \in S, f[x] < g[x]
    PROVE  SumFunction(f) < SumFunction(g)
  <1>. DEFINE h == [g EXCEPT ![x] = f[x]]
  <1>1. h \in [S -> Int] /\ h[x] = f[x] /\ (\A y \in S \ {x} : h[y] = g[y])
    OBVIOUS
  <1>. HIDE DEF h
  <1>2. \A y \in S : f[y] <= h[y]
    BY <1>1
  <1>3. SumFunction(f) <= SumFunction(h)
    BY <1>1, <1>2, SumOrder
  <1>4. SumFunction(g) = SumFunction(h) + (g[x] - h[x]) /\ SumFunction(h) \in Int
    BY <1>1, SumChanges
  <1>5. SumFunction(f) \in Int /\ f[x] \in Int /\ g[x] \in Int
    BY SumInt
  <1>. QED
    BY <1>1, <1>3, <1>4, <1>5

\* Terms of at least 0 add up to that.
LEMMA SumNat ==
    ASSUME NEW S, IsFiniteSet(S), NEW f \in [S -> Nat]
    PROVE  SumFunction(f) \in Nat
  <1>. DEFINE z == [x \in S |-> 0]
  <1>1. z \in [S -> Int] /\ f \in [S -> Int] /\ \A x \in S : z[x] = 0 /\ z[x] <= f[x]
    OBVIOUS
  <1>2. SumFunction(z) = 0
    <2>1. {} \in SUBSET S /\ \A x \in S \ {} : z[x] = 0
      OBVIOUS
    <2>. DEFINE e == [x \in {} |-> z[x]]
    <2>2. SumFunction(z) = SumFunction(e)
      <3>. HIDE DEF z
      <3>. QED
        BY <1>1, <2>1, SumOfRest
    <2>3. DOMAIN e = {}
      OBVIOUS
    <2>. HIDE DEF e
    <2>. QED
      BY <2>2, <2>3, SumOfNone
  <1>. HIDE DEF z
  <1>3. SumFunction(z) <= SumFunction(f)
    BY <1>1, SumOrder
  <1>. QED
    BY <1>1, <1>2, <1>3, SumInt

-----------------------------------------------------------------------------
(* What goes on step by step *)

\* From a start, step by step of a function
Iterates(h, N, X, s, F) ==
    h \in [0 .. N -> X] /\ h[0] = s /\ \A n \in 1 .. N : h[n] = F[<<n, h[n - 1]>>]

\* There is what goes on so.
LEMMA Iterated ==
    \A N, X, s, F :
        N \in Nat /\ s \in X /\ F \in [(1 .. N) \X X -> X] => \E h : Iterates(h, N, X, s, F)
  <1>. SUFFICES ASSUME NEW N \in Nat, NEW X, NEW s \in X, NEW F \in [(1 .. N) \X X -> X]
                PROVE  \E h : Iterates(h, N, X, s, F)
    OBVIOUS
  <1>. DEFINE Runs(h, k) == /\ h \in [0 .. k -> X] /\ h[0] = s
                            /\ \A n \in 1 .. k : h[n] = F[<<n, h[n - 1]>>]
              T == {k \in Nat : k <= N => \E h : Runs(h, k)}
  <1>1. 0 \in T
    <2>1. Runs([n \in 0 .. 0 |-> s], 0)
      OBVIOUS
    <2>. QED
      BY <2>1
  <1>2. ASSUME NEW k \in Nat, k \in T PROVE k + 1 \in T
    <2>. SUFFICES ASSUME k + 1 <= N PROVE \E h : Runs(h, k + 1)
      OBVIOUS
    <2>1. PICK h : Runs(h, k)
      BY <1>2
    <2>. DEFINE g == [n \in 0 .. k + 1 |-> IF n = k + 1 THEN F[<<k + 1, h[k]>>] ELSE h[n]]
    <2>2. h[k] \in X /\ k + 1 \in 1 .. N
      BY <2>1
    <2>3. F[<<k + 1, h[k]>>] \in X
      BY <2>2
    <2>4. \A n \in 0 .. k : g[n] = h[n] /\ g[n] \in X
      BY <2>1
    <2>5. g[k + 1] = F[<<k + 1, h[k]>>]
      OBVIOUS
    <2>6. g \in [0 .. k + 1 -> X]
      <3>1. \A n \in 0 .. k + 1 : n \in 0 .. k \/ n = k + 1
        OBVIOUS
      <3>. QED
        BY <2>3, <2>4, <2>5, <3>1
    <2>7. ASSUME NEW n \in 1 .. k + 1 PROVE g[n] = F[<<n, g[n - 1]>>]
      <3>1. CASE n = k + 1
        <4>1. g[n - 1] = h[k]
          BY <2>4, <3>1
        <4>. QED
          BY <2>5, <3>1, <4>1
      <3>2. CASE n # k + 1
        <4>1. n \in 1 .. k /\ n \in 0 .. k /\ n - 1 \in 0 .. k
          BY <3>2
        <4>2. g[n] = h[n] /\ g[n - 1] = h[n - 1] /\ h[n] = F[<<n, h[n - 1]>>]
          BY <2>1, <2>4, <4>1
        <4>. QED
          BY <4>2
      <3>. QED
        BY <3>1, <3>2
    <2>8. g[0] = s
      BY <2>1, <2>4
    <2>9. Runs(g, k + 1)
      <3>. HIDE DEF g
      <3>. QED
        BY <2>6, <2>7, <2>8
    <2>. QED
      BY <2>9
  <1>. HIDE DEF T
  <1>3. N \in T
    BY <1>1, <1>2, NatSetInduction
  <1>. QED
    BY <1>3 DEF T, Iterates

\* What goes on by the function from what it is defined for stays there.
LEMMA IteratesStay ==
    ASSUME NEW N \in Nat, NEW X, NEW k, k[0] \in X, \A n \in 1 .. N : k[n - 1] \in X => k[n] \in X
    PROVE  \A n \in 0 .. N : k[n] \in X
  <1>. DEFINE T == {n \in Nat : n <= N => k[n] \in X}
  <1>1. 0 \in T
    OBVIOUS
  <1>2. ASSUME NEW n \in Nat, n \in T PROVE n + 1 \in T
    <2>. SUFFICES ASSUME n + 1 <= N PROVE k[n + 1] \in X
      OBVIOUS
    <2>. DEFINE j == n + 1
    <2>1. k[n] \in X /\ j \in 1 .. N /\ j - 1 = n
      BY <1>2
    <2>. HIDE DEF j
    <2>2. k[j - 1] \in X
      BY <2>1
    <2>3. k[j] \in X
      BY <2>1, <2>2
    <2>. QED
      BY <2>3 DEF j
  <1>. HIDE DEF T
  <1>3. Nat \subseteq T
    BY <1>1, <1>2, NatSetInduction
  <1>. QED
    BY <1>3 DEF T

\* What goes on step by step from a set to the next is in the last.
LEMMA IteratesPass ==
    ASSUME NEW N \in Nat, NEW Y, NEW k, k[0] \in Y[0],
           \A n \in 1 .. N : k[n - 1] \in Y[n - 1] => k[n] \in Y[n]
    PROVE  k[N] \in Y[N]
  <1>. DEFINE T == {n \in Nat : n <= N => k[n] \in Y[n]}
  <1>1. 0 \in T
    OBVIOUS
  <1>2. ASSUME NEW n \in Nat, n \in T PROVE n + 1 \in T
    <2>. SUFFICES ASSUME n + 1 <= N PROVE k[n + 1] \in Y[n + 1]
      OBVIOUS
    <2>. DEFINE j == n + 1
    <2>1. k[n] \in Y[n] /\ j \in 1 .. N /\ j - 1 = n
      BY <1>2
    <2>. HIDE DEF j
    <2>2. k[j - 1] \in Y[j - 1]
      BY <2>1
    <2>3. k[j] \in Y[j]
      BY <2>1, <2>2
    <2>. QED
      BY <2>3 DEF j
  <1>. HIDE DEF T
  <1>3. Nat \subseteq T
    BY <1>1, <1>2, NatSetInduction
  <1>. QED
    BY <1>3 DEF T

=============================================================================
