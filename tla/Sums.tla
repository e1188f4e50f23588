-------------------------------- MODULE Sums --------------------------------
(***************************************************************************)
(* What sums over finite sets are worth, for the modules that count; that  *)
(* finitely many elements can be put in order; what pages that are cut     *)
(* from a list are together; and what a fold over a list computes.  The    *)
(* community modules define sums by a recursion that takes the elements in *)
(* an order that is not specified, and folds by one over sets of places.   *)
(* Instead of an induction theorem, each proof looks at a smallest         *)
(* counterexample, which LeastNat or Smallest names.                       *)
(***************************************************************************)
EXTENDS Integers, Sequences, Functions, FiniteSetsExt, SequencesExt, FiniteSetTheorems,
        NaturalsInduction, WellFoundedInduction, Sorting, TLAPS

\* Some number of a set of them is the smallest.
LEMMA LeastNat ==
  ASSUME NEW T \in SUBSET Nat, T # {}
  PROVE  \E n \in T : \A m \in T : n <= m
  <1> DEFINE R == OpToRel(<, Nat)
  <1>1. IsWellFoundedOn(R, Nat)
    BY NatLessThanWellFounded
  <1>2. PICK n \in T : \A m \in T : ~ (<<m, n>> \in R)
    <2> HIDE DEF R
    <2> QED
      BY <1>1, WFMin
  <1>3. \A m \in T : ~(m < n)
    BY <1>2 DEF OpToRel
  <1> QED
    BY <1>3

\* Of the finite sets of a collection one has the fewest elements.
LEMMA Smallest ==
  ASSUME NEW C, C # {}, \A s \in C : IsFiniteSet(s)
  PROVE  \E s \in C : \A t \in C : ~(Cardinality(t) < Cardinality(s))
  <1> DEFINE T == {Cardinality(s) : s \in C}
  <1>1. T \in SUBSET Nat /\ T # {}
    BY FS_CardinalityType
  <1>2. PICK n \in T : \A m \in T : n <= m
    BY <1>1, LeastNat
  <1>3. PICK s \in C : Cardinality(s) = n
    BY <1>2
  <1>4. ASSUME NEW t \in C PROVE ~(Cardinality(t) < Cardinality(s))
    <2>1. Cardinality(t) \in T
      OBVIOUS
    <2>2. n <= Cardinality(t) /\ n \in Nat /\ Cardinality(t) \in Nat
      BY <1>1, <1>2, <2>1
    <2> QED
      BY <1>3, <2>2
  <1> QED
    BY <1>4

\* An element that is left out makes a finite set smaller.
LEMMA WithoutOne ==
  ASSUME NEW s, IsFiniteSet(s), NEW x \in s
  PROVE  /\ IsFiniteSet(s \ {x})
         /\ Cardinality(s \ {x}) < Cardinality(s)
  <1>1. IsFiniteSet(s \ {x}) /\ Cardinality(s \ {x}) = Cardinality(s) - 1
    BY FS_RemoveElement
  <1> QED
    BY <1>1, FS_CardinalityType

-----------------------------------------------------------------------------
\* One step of the recursion, and a function that follows it.
Picked(s) == CHOOSE x \in s : TRUE
StepOf(f, g, s) == IF s = {} THEN 0 ELSE f[Picked(s)] + g[s \ {Picked(s)}]
SumIter(f, S) == CHOOSE g : g = [s \in SUBSET S |-> StepOf(f, g, s)]

\* A sum is computed by an iteration over the subsets.
LEMMA SumIsIter ==
  ASSUME NEW f, NEW S
  PROVE  SumFunctionOnSet(f, S) = SumIter(f, S)[S]
  BY DEF SumFunctionOnSet, FoldFunctionOnSet, MapThenFoldSet, SumIter, StepOf, Picked

\* What is picked of a set is in it.
LEMMA PickedIn ==
  ASSUME NEW s, s # {}
  PROVE  Picked(s) \in s
  BY DEF Picked

\* What SumIter is meant to be.
Follows(f, S) == SumIter(f, S) = [s \in SUBSET S |-> StepOf(f, SumIter(f, S), s)]

\* The function exists.
LEMMA SumIterExists ==
  ASSUME NEW f, NEW S, IsFiniteSet(S)
  PROVE  Follows(f, S)
  <1> DEFINE Upto(g, n) == \A s \in SUBSET S : Cardinality(s) <= n => g[s] = StepOf(f, g, s)
             Bad == {n \in Nat : ~ \E g : g = [s \in SUBSET S |-> g[s]] /\ Upto(g, n)}
  <1>0. \A s \in SUBSET S : IsFiniteSet(s) /\ Cardinality(s) \in Nat /\ Cardinality(s) <= Cardinality(S)
    BY FS_Subset, FS_CardinalityType
  <1>1. ASSUME Bad # {} PROVE FALSE
    <2>1. PICK n \in Bad : \A m \in Bad : n <= m
      BY <1>1, LeastNat
    <2>2. CASE n = 0
      <3> DEFINE g == [s \in SUBSET S |-> 0]
      <3>1. \A s \in SUBSET S : Cardinality(s) <= 0 => s = {}
        BY <1>0, FS_EmptySet
      <3>2. Upto(g, 0)
        BY <3>1 DEF StepOf
      <3>3. g = [s \in SUBSET S |-> g[s]]
        OBVIOUS
      <3> QED
        BY <2>1, <2>2, <3>2, <3>3
    <2>3. CASE n # 0
      <3>0. n \in Nat
        BY <2>1
      <3>1. n - 1 \in Nat /\ n - 1 \notin Bad
        <4> HIDE DEF Bad
        <4> QED
          BY <2>1, <2>3, <3>0
      <3>2. PICK g : g = [s \in SUBSET S |-> g[s]] /\ Upto(g, n - 1)
        BY <3>1
      <3> DEFINE h == [s \in SUBSET S |-> StepOf(f, g, s)]
      <3>3. ASSUME NEW s \in SUBSET S, Cardinality(s) <= n PROVE h[s] = StepOf(f, h, s)
        <4>1. CASE s = {}
          BY <4>1 DEF StepOf
        <4>2. CASE s # {}
          <5> DEFINE t == s \ {Picked(s)}
          <5>1. t \in SUBSET S /\ Cardinality(t) < Cardinality(s)
            BY <1>0, <4>2, PickedIn, WithoutOne
          <5>2. Cardinality(t) <= n - 1
            BY <1>0, <3>1, <3>3, <5>1
          <5>3. g[t] = StepOf(f, g, t)
            BY <3>2, <5>1, <5>2
          <5>4. h[t] = g[t]
            BY <5>1, <5>3
          <5> HIDE DEF h
          <5>5. StepOf(f, g, s) = StepOf(f, h, s)
            BY <4>2, <5>4 DEF StepOf
          <5> QED
            BY <5>5 DEF h
        <4> QED
          BY <4>1, <4>2
      <3>4. h = [s \in SUBSET S |-> h[s]]
        OBVIOUS
      <3> HIDE DEF h
      <3>5. Upto(h, n)
        BY <3>3
      <3> QED
        BY <2>1, <3>4, <3>5
    <2> QED
      BY <2>2, <2>3
  <1>2. PICK g : g = [s \in SUBSET S |-> g[s]] /\ Upto(g, Cardinality(S))
    <2>1. Cardinality(S) \in Nat
      BY <1>0
    <2> QED
      BY <1>1, <2>1
  <1>3. g = [s \in SUBSET S |-> StepOf(f, g, s)]
    BY <1>0, <1>2
  <1> QED
    BY <1>3 DEF SumIter, Follows

\* Nothing makes a difference but the elements that are summed up.
LEMMA SumIterSame ==
  ASSUME NEW f, NEW g, NEW S, NEW T, IsFiniteSet(S), IsFiniteSet(T),
         NEW u \in SUBSET (S \cap T), \A x \in u : f[x] = g[x]
  PROVE  SumIter(f, S)[u] = SumIter(g, T)[u]
  <1>a. SumIter(f, S) = [s \in SUBSET S |-> StepOf(f, SumIter(f, S), s)]
    <2>1. Follows(f, S)
      BY SumIterExists
    <2> QED
      BY <2>1 DEF Follows
  <1>b. SumIter(g, T) = [s \in SUBSET T |-> StepOf(g, SumIter(g, T), s)]
    <2>1. Follows(g, T)
      BY SumIterExists
    <2> QED
      BY <2>1 DEF Follows
  <1> DEFINE a == SumIter(f, S)
             b == SumIter(g, T)
             Bad == {s \in SUBSET u : a[s] # b[s]}
  <1>1. /\ a = [s \in SUBSET S |-> StepOf(f, a, s)]
        /\ b = [s \in SUBSET T |-> StepOf(g, b, s)]
    BY <1>a, <1>b
  <1> HIDE DEF a, b
  <1>2. \A s \in SUBSET u : IsFiniteSet(s)
    BY FS_Subset
  <1>3. ASSUME Bad # {} PROVE FALSE
    <2>1. PICK s \in Bad : \A t \in Bad : ~(Cardinality(t) < Cardinality(s))
      BY <1>2, <1>3, Smallest
    <2>2. a[s] = StepOf(f, a, s) /\ b[s] = StepOf(g, b, s)
      <3>1. s \in SUBSET S /\ s \in SUBSET T
        OBVIOUS
      <3> HIDE DEF Bad
      <3> QED
        BY <1>1, <3>1
    <2>3. s # {}
      BY <2>1, <2>2 DEF StepOf
    <2>4. Picked(s) \in s /\ f[Picked(s)] = g[Picked(s)]
      BY <2>3, PickedIn
    <2>5. Cardinality(s \ {Picked(s)}) < Cardinality(s)
      BY <1>2, <2>4, WithoutOne
    <2>6. a[s \ {Picked(s)}] = b[s \ {Picked(s)}]
      BY <2>1, <2>5
    <2> QED
      BY <2>1, <2>2, <2>4, <2>6 DEF StepOf
  <1>4. u \in SUBSET u
    OBVIOUS
  <1> QED
    BY <1>3, <1>4 DEF a, b

\* The sum over nothing is zero.
LEMMA SumEmpty ==
  ASSUME NEW f
  PROVE  SumFunctionOnSet(f, {}) = 0
  <1>1. SumIter(f, {}) = [s \in SUBSET {} |-> StepOf(f, SumIter(f, {}), s)]
    <2>1. Follows(f, {})
      BY FS_EmptySet, SumIterExists
    <2> QED
      BY <2>1 DEF Follows
  <1> QED
    BY <1>1, SumIsIter DEF StepOf

\* A sum takes one element at a time.
LEMMA SumPicked ==
  ASSUME NEW f, NEW S, IsFiniteSet(S), S # {}
  PROVE  SumFunctionOnSet(f, S) = f[Picked(S)] + SumFunctionOnSet(f, S \ {Picked(S)})
  <1> DEFINE R == S \ {Picked(S)}
  <1>1. IsFiniteSet(R)
    BY FS_Subset
  <1>2. SumIter(f, S) = [s \in SUBSET S |-> StepOf(f, SumIter(f, S), s)]
    <2>1. Follows(f, S)
      BY SumIterExists
    <2> QED
      BY <2>1 DEF Follows
  <1>3. SumIter(f, S)[S] = StepOf(f, SumIter(f, S), S)
    BY <1>2
  <1>4. SumIter(f, S)[S] = f[Picked(S)] + SumIter(f, S)[R]
    BY <1>3 DEF StepOf
  <1>5. SumIter(f, S)[R] = SumIter(f, R)[R]
    BY <1>1, SumIterSame
  <1> QED
    BY <1>4, <1>5, SumIsIter

\* Sums of the same numbers are the same.
LEMMA SumSame ==
  ASSUME NEW f, NEW g, NEW S, IsFiniteSet(S), \A x \in S : f[x] = g[x]
  PROVE  SumFunctionOnSet(f, S) = SumFunctionOnSet(g, S)
  BY SumIsIter, SumIterSame
\* The sum over all but the element picked, whatever is picked: induction on
\* the size of the set.  Stated for an element x that is in the set.
LEMMA SumWithout ==
  ASSUME NEW f, NEW S, IsFiniteSet(S), \A y \in S : f[y] \in Int, NEW x \in S
  PROVE  /\ SumFunctionOnSet(f, S) \in Int
         /\ SumFunctionOnSet(f, S \ {x}) \in Int
         /\ SumFunctionOnSet(f, S) = f[x] + SumFunctionOnSet(f, S \ {x})
  <1> DEFINE Good(s) == /\ SumFunctionOnSet(f, s) \in Int
                        /\ \A y \in s : /\ SumFunctionOnSet(f, s \ {y}) \in Int
                                        /\ SumFunctionOnSet(f, s) = f[y] + SumFunctionOnSet(f, s \ {y})
             Bad == {s \in SUBSET S : ~Good(s)}
  <1>1. \A s \in SUBSET S : IsFiniteSet(s)
    BY FS_Subset
  <1>2. ASSUME Bad # {} PROVE FALSE
    <2>1. PICK s \in Bad : \A t \in Bad : ~(Cardinality(t) < Cardinality(s))
      <3> HIDE DEF Good
      <3> QED
        BY <1>1, <1>2, Smallest
    <2>2. s \in SUBSET S /\ ~Good(s)
      OBVIOUS
    <2>3. ASSUME NEW t \in SUBSET S, Cardinality(t) < Cardinality(s) PROVE Good(t)
      <3> HIDE DEF Good
      <3> QED
        BY <2>1, <2>3
    <2>4. s # {}
      BY <2>2, SumEmpty
    <2> DEFINE p == Picked(s)
    <2>5. p \in s /\ f[p] \in Int
      BY <2>2, <2>4, PickedIn
    <2>6. IsFiniteSet(s)
      BY <1>1, <2>2
    <2>7. SumFunctionOnSet(f, s) = f[p] + SumFunctionOnSet(f, s \ {p})
      BY <2>4, <2>6, SumPicked
    <2> HIDE DEF p
    <2>8. Good(s \ {p})
      <3>1. Cardinality(s \ {p}) < Cardinality(s)
        BY <2>5, <2>6, WithoutOne
      <3> HIDE DEF Good
      <3> QED
        BY <2>2, <2>3, <3>1
    <2>9. ASSUME NEW y \in s, y # p
          PROVE  /\ SumFunctionOnSet(f, s \ {y}) \in Int
                 /\ SumFunctionOnSet(f, s) = f[y] + SumFunctionOnSet(f, s \ {y})
      <3>1. f[y] \in Int
        BY <2>2
      <3>2. /\ SumFunctionOnSet(f, (s \ {p}) \ {y}) \in Int
            /\ SumFunctionOnSet(f, s \ {p}) = f[y] + SumFunctionOnSet(f, (s \ {p}) \ {y})
        BY <2>8, <2>9
      <3>3. Good(s \ {y})
        <4>1. Cardinality(s \ {y}) < Cardinality(s)
          BY <2>6, WithoutOne
        <4> HIDE DEF Good
        <4> QED
          BY <2>2, <2>3, <4>1
      <3>4. /\ SumFunctionOnSet(f, s \ {y}) \in Int
            /\ SumFunctionOnSet(f, s \ {y}) = f[p] + SumFunctionOnSet(f, (s \ {y}) \ {p})
        BY <2>5, <2>9, <3>3
      <3>5. (s \ {y}) \ {p} = (s \ {p}) \ {y}
        OBVIOUS
      <3>6. SumFunctionOnSet(f, s \ {y}) = f[p] + SumFunctionOnSet(f, (s \ {p}) \ {y})
        BY <3>4, <3>5
      <3> DEFINE whole == SumFunctionOnSet(f, s)
                 noP == SumFunctionOnSet(f, s \ {p})
                 noY == SumFunctionOnSet(f, s \ {y})
                 neither == SumFunctionOnSet(f, (s \ {p}) \ {y})
      <3>7. /\ whole = f[p] + noP /\ noP = f[y] + neither /\ noY = f[p] + neither
            /\ neither \in Int
        BY <2>7, <3>2, <3>6
      <3>8. noY \in Int
        BY <3>4
      <3> HIDE DEF whole, noP, noY, neither
      <3>9. whole = f[y] + noY
        BY <2>5, <3>1, <3>7
      <3> QED
        BY <3>8, <3>9 DEF whole, noY
    <2>10. SumFunctionOnSet(f, s) \in Int /\ SumFunctionOnSet(f, s \ {p}) \in Int
      BY <2>5, <2>7, <2>8
    <2> QED
      BY <2>2, <2>7, <2>9, <2>10
  <1>3. Good(S)
    <2> HIDE DEF Good
    <2> QED
      BY <1>2
  <1> QED
    BY <1>3
\* A sum of natural numbers is one.
LEMMA SumNat ==
  ASSUME NEW f, NEW S, IsFiniteSet(S), \A x \in S : f[x] \in Nat
  PROVE  SumFunctionOnSet(f, S) \in Nat
  <1> DEFINE Bad == {s \in SUBSET S : ~(SumFunctionOnSet(f, s) \in Nat)}
  <1>1. \A s \in SUBSET S : IsFiniteSet(s)
    BY FS_Subset
  <1>2. ASSUME Bad # {} PROVE FALSE
    <2>1. PICK s \in Bad : \A t \in Bad : ~(Cardinality(t) < Cardinality(s))
      BY <1>1, <1>2, Smallest
    <2>2. s \in SUBSET S /\ ~(SumFunctionOnSet(f, s) \in Nat)
      OBVIOUS
    <2>3. s # {}
      BY <2>2, SumEmpty
    <2>4. PICK x \in s : TRUE
      BY <2>3
    <2>5. IsFiniteSet(s) /\ f[x] \in Nat /\ \A y \in s : f[y] \in Int
      BY <1>1, <2>2
    <2>6. SumFunctionOnSet(f, s) = f[x] + SumFunctionOnSet(f, s \ {x})
      BY <2>5, SumWithout
    <2>7. Cardinality(s \ {x}) < Cardinality(s)
      BY <2>5, WithoutOne
    <2>8. SumFunctionOnSet(f, s \ {x}) \in Nat
      BY <2>1, <2>2, <2>7
    <2> QED
      BY <2>2, <2>5, <2>6, <2>8
  <1> QED
    BY <1>2

\* Nothing adds up to nothing.
LEMMA SumNone ==
  ASSUME NEW f, NEW S, IsFiniteSet(S), \A x \in S : f[x] = 0
  PROVE  SumFunctionOnSet(f, S) = 0
  <1> DEFINE Bad == {s \in SUBSET S : SumFunctionOnSet(f, s) # 0}
  <1>1. \A s \in SUBSET S : IsFiniteSet(s)
    BY FS_Subset
  <1>2. ASSUME Bad # {} PROVE FALSE
    <2>1. PICK s \in Bad : \A t \in Bad : ~(Cardinality(t) < Cardinality(s))
      BY <1>1, <1>2, Smallest
    <2>2. s \in SUBSET S /\ SumFunctionOnSet(f, s) # 0
      OBVIOUS
    <2>3. s # {}
      BY <2>2, SumEmpty
    <2>4. PICK x \in s : TRUE
      BY <2>3
    <2>5. IsFiniteSet(s) /\ f[x] = 0 /\ \A y \in s : f[y] \in Int
      BY <1>1, <2>2
    <2>6. SumFunctionOnSet(f, s) = f[x] + SumFunctionOnSet(f, s \ {x})
      BY <2>5, SumWithout
    <2>7. Cardinality(s \ {x}) < Cardinality(s)
      BY <2>5, WithoutOne
    <2>8. SumFunctionOnSet(f, s \ {x}) = 0
      BY <2>1, <2>2, <2>7
    <2> QED
      BY <2>2, <2>5, <2>6, <2>8
  <1> QED
    BY <1>2

\* Fewer natural numbers add up to no more.
LEMMA SumMono ==
  ASSUME NEW f, NEW S, IsFiniteSet(S), \A x \in S : f[x] \in Nat, NEW T \in SUBSET S
  PROVE  SumFunctionOnSet(f, T) <= SumFunctionOnSet(f, S)
  <1> DEFINE Between == {s \in SUBSET S : T \subseteq s}
             Bad == {s \in Between : ~(SumFunctionOnSet(f, T) <= SumFunctionOnSet(f, s))}
  <1>1. \A s \in SUBSET S : IsFiniteSet(s) /\ SumFunctionOnSet(f, s) \in Nat
    BY FS_Subset, SumNat
  <1>2. ASSUME Bad # {} PROVE FALSE
    <2>1. PICK s \in Bad : \A t \in Bad : ~(Cardinality(t) < Cardinality(s))
      BY <1>1, <1>2, Smallest
    <2>2. /\ s \in SUBSET S /\ T \subseteq s
          /\ ~(SumFunctionOnSet(f, T) <= SumFunctionOnSet(f, s))
      OBVIOUS
    <2>3. s # T
      BY <1>1, <2>2
    <2>4. PICK x \in s : x \notin T
      BY <2>2, <2>3
    <2>5. IsFiniteSet(s) /\ f[x] \in Nat /\ \A y \in s : f[y] \in Int
      BY <1>1, <2>2
    <2>6. SumFunctionOnSet(f, s) = f[x] + SumFunctionOnSet(f, s \ {x})
      <3> HIDE DEF Bad
      <3> QED
        BY <2>5, SumWithout
    <2>7. Cardinality(s \ {x}) < Cardinality(s)
      BY <2>5, WithoutOne
    <2>8. s \ {x} \in SUBSET S /\ T \subseteq s \ {x}
      BY <2>2, <2>4
    <2>9. SumFunctionOnSet(f, T) <= SumFunctionOnSet(f, s \ {x})
      BY <2>1, <2>7, <2>8
    <2>10. SumFunctionOnSet(f, s) \in Nat /\ SumFunctionOnSet(f, s \ {x}) \in Nat /\ SumFunctionOnSet(f, T) \in Nat
      BY <1>1, <2>2, <2>8
    <2> QED
      BY <2>2, <2>5, <2>6, <2>9, <2>10
  <1> QED
    BY <1>2

\* One more number.
LEMMA SumWith ==
  ASSUME NEW f, NEW S, IsFiniteSet(S), NEW x, x \notin S, \A y \in S \cup {x} : f[y] \in Int
  PROVE  SumFunctionOnSet(f, S \cup {x}) = f[x] + SumFunctionOnSet(f, S)
  <1>1. IsFiniteSet(S \cup {x})
    BY FS_AddElement
  <1>2. (S \cup {x}) \ {x} = S
    OBVIOUS
  <1>3. x \in S \cup {x}
    OBVIOUS
  <1>4. SumFunctionOnSet(f, S \cup {x}) = f[x] + SumFunctionOnSet(f, (S \cup {x}) \ {x})
    BY <1>1, <1>3, SumWithout
  <1> QED
    BY <1>2, <1>4

\* Two lists of numbers that differ in one.
LEMMA SumChange ==
  ASSUME NEW f, NEW g, NEW S, IsFiniteSet(S), NEW x \in S,
         \A y \in S : f[y] \in Int /\ g[y] \in Int,
         \A y \in S \ {x} : f[y] = g[y]
  PROVE  /\ SumFunctionOnSet(f, S) \in Int
         /\ SumFunctionOnSet(g, S) = SumFunctionOnSet(f, S) - f[x] + g[x]
  <1> DEFINE a == SumFunctionOnSet(f, S)
             b == SumFunctionOnSet(g, S)
             c == SumFunctionOnSet(f, S \ {x})
  <1>1. a \in Int /\ c \in Int /\ a = f[x] + c
    BY SumWithout
  <1>2. b = g[x] + SumFunctionOnSet(g, S \ {x})
    BY SumWithout
  <1>3. c = SumFunctionOnSet(g, S \ {x})
    <2>1. IsFiniteSet(S \ {x})
      BY FS_Subset
    <2> QED
      BY <2>1, SumSame
  <1>4. b = g[x] + c
    BY <1>2, <1>3
  <1>5. f[x] \in Int /\ g[x] \in Int
    OBVIOUS
  <1> HIDE DEF a, b, c
  <1>6. b = a - f[x] + g[x]
    BY <1>1, <1>4, <1>5
  <1> QED
    BY <1>1, <1>6 DEF a, b

\* Numbers that are nowhere larger add up to no more.
LEMMA SumLeq ==
  ASSUME NEW f, NEW g, NEW S, IsFiniteSet(S),
         \A y \in S : f[y] \in Nat /\ g[y] \in Nat /\ f[y] <= g[y]
  PROVE  SumFunctionOnSet(f, S) <= SumFunctionOnSet(g, S)
  <1> DEFINE Bad == {s \in SUBSET S : ~(SumFunctionOnSet(f, s) <= SumFunctionOnSet(g, s))}
  <1>1. \A s \in SUBSET S : IsFiniteSet(s) /\ SumFunctionOnSet(f, s) \in Nat /\ SumFunctionOnSet(g, s) \in Nat
    BY FS_Subset, SumNat
  <1>2. ASSUME Bad # {} PROVE FALSE
    <2>1. PICK s \in Bad : \A t \in Bad : ~(Cardinality(t) < Cardinality(s))
      BY <1>1, <1>2, Smallest
    <2>2. s \in SUBSET S /\ ~(SumFunctionOnSet(f, s) <= SumFunctionOnSet(g, s))
      OBVIOUS
    <2>3. s # {}
      BY <2>2, SumEmpty
    <2>4. PICK x \in s : TRUE
      BY <2>3
    <2>5. /\ IsFiniteSet(s) /\ f[x] \in Nat /\ g[x] \in Nat /\ f[x] <= g[x]
          /\ \A y \in s : f[y] \in Int /\ g[y] \in Int
      BY <1>1, <2>2
    <2>6a. SumFunctionOnSet(f, s) = f[x] + SumFunctionOnSet(f, s \ {x})
      BY <2>5, SumWithout
    <2>6b. SumFunctionOnSet(g, s) = g[x] + SumFunctionOnSet(g, s \ {x})
      BY <2>5, SumWithout
    <2>7. Cardinality(s \ {x}) < Cardinality(s)
      BY <2>5, WithoutOne
    <2>8. s \ {x} \in SUBSET S
      BY <2>2
    <2>9. SumFunctionOnSet(f, s \ {x}) <= SumFunctionOnSet(g, s \ {x})
      BY <2>1, <2>7, <2>8
    <2>10. SumFunctionOnSet(f, s \ {x}) \in Nat /\ SumFunctionOnSet(g, s \ {x}) \in Nat
      BY <1>1, <2>8
    <2> QED
      BY <2>2, <2>5, <2>6a, <2>6b, <2>9, <2>10
  <1> QED
    BY <1>2

\* The sums of two parts.
LEMMA SumParts ==
  ASSUME NEW f, NEW S, IsFiniteSet(S), \A x \in S : f[x] \in Int, NEW T \in SUBSET S
  PROVE  /\ SumFunctionOnSet(f, T) \in Int
         /\ SumFunctionOnSet(f, S \ T) \in Int
         /\ SumFunctionOnSet(f, S) = SumFunctionOnSet(f, T) + SumFunctionOnSet(f, S \ T)
  <1> DEFINE Good(s) == SumFunctionOnSet(f, s) = SumFunctionOnSet(f, T) + SumFunctionOnSet(f, s \ T)
             Between == {s \in SUBSET S : T \subseteq s}
             Bad == {s \in Between : ~Good(s)}
  <1>1. \A s \in SUBSET S : IsFiniteSet(s)
    BY FS_Subset
  <1>1a. ASSUME NEW s \in SUBSET S PROVE SumFunctionOnSet(f, s) \in Int
    <2>1. CASE s = {}
      BY <2>1, SumEmpty
    <2>2. CASE s # {}
      <3>1. PICK x \in s : TRUE
        BY <2>2
      <3> QED
        BY <1>1, <3>1, SumWithout
    <2> QED
      BY <2>1, <2>2
  <1>2. ASSUME Bad # {} PROVE FALSE
    <2>1. PICK s \in Bad : \A t \in Bad : ~(Cardinality(t) < Cardinality(s))
      <3>1. \A s \in Bad : IsFiniteSet(s)
        BY <1>1
      <3> HIDE DEF Bad
      <3> QED
        BY <1>2, <3>1, Smallest
    <2>2. s \in SUBSET S /\ T \subseteq s /\ ~Good(s)
      OBVIOUS
    <2>3. s # T
      <3>1. T \ T = {} /\ SumFunctionOnSet(f, T) \in Int /\ SumFunctionOnSet(f, {}) = 0
        BY <1>1a, SumEmpty
      <3> DEFINE whole == SumFunctionOnSet(f, T)
                 none == SumFunctionOnSet(f, T \ T)
      <3>a. whole \in Int /\ none = 0
        BY <3>1
      <3> HIDE DEF whole, none
      <3>b. whole = whole + none
        BY <3>a
      <3>2. Good(T)
        BY <3>b DEF whole, none
      <3> HIDE DEF Good
      <3> QED
        BY <2>2, <3>2
    <2>4. PICK x \in s : x \notin T
      BY <2>2, <2>3
    <2>5. IsFiniteSet(s) /\ IsFiniteSet(s \ T) /\ f[x] \in Int /\ \A y \in s : f[y] \in Int
      <3>1. s \ T \in SUBSET S
        BY <2>2
      <3> QED
        BY <1>1, <2>2, <3>1
    <2>6. SumFunctionOnSet(f, s) = f[x] + SumFunctionOnSet(f, s \ {x})
      BY <2>5, SumWithout
    <2>7. SumFunctionOnSet(f, s \ T) = f[x] + SumFunctionOnSet(f, (s \ T) \ {x})
      <3>1. x \in s \ T /\ \A y \in s \ T : f[y] \in Int
        BY <2>4, <2>5
      <3> QED
        BY <2>5, <3>1, SumWithout
    <2>8. Cardinality(s \ {x}) < Cardinality(s)
      BY <2>5, WithoutOne
    <2>9. s \ {x} \in SUBSET S /\ T \subseteq s \ {x}
      BY <2>2, <2>4
    <2>10. Good(s \ {x})
      <3> HIDE DEF Good
      <3> QED
        BY <2>1, <2>8, <2>9
    <2>11. (s \ {x}) \ T = (s \ T) \ {x}
      OBVIOUS
    <2>12. (s \ T) \ {x} \in SUBSET S
      BY <2>2
    <2> DEFINE whole == SumFunctionOnSet(f, s)
               less == SumFunctionOnSet(f, s \ {x})
               part == SumFunctionOnSet(f, T)
               rest == SumFunctionOnSet(f, s \ T)
               restLess == SumFunctionOnSet(f, (s \ T) \ {x})
    <2>13. /\ whole = f[x] + less /\ rest = f[x] + restLess /\ less = part + restLess
      BY <2>6, <2>7, <2>10, <2>11
    <2>14. part \in Int /\ restLess \in Int
      BY <1>1a, <2>12
    <2> HIDE DEF whole, less, part, rest, restLess
    <2>15. whole = part + rest
      BY <2>5, <2>13, <2>14
    <2> QED
      BY <2>2, <2>15 DEF whole, part, rest
  <1>3. Good(S)
    <2> HIDE DEF Good
    <2> QED
      BY <1>2
  <1> QED
    BY <1>1a, <1>3

-----------------------------------------------------------------------------
(* Orders.                                                                 *)

\* A strict total order of the elements of a set.
Orders(order, set) ==
  /\ \A x \in set : <<x, x>> \notin order
  /\ \A x, y, z \in set : <<x, y>> \in order /\ <<y, z>> \in order => <<x, z>> \in order
  /\ \A x, y \in set : x = y \/ <<x, y>> \in order \/ <<y, x>> \in order

\* Of finitely many one is the last.
LEMMA LastOne ==
  ASSUME NEW set, NEW order, IsFiniteSet(set), Orders(order, set), set # {}
  PROVE  \E x \in set : \A y \in set \ {x} : <<y, x>> \in order
  <1> DEFINE HasLast(s) == \E x \in s : \A y \in s \ {x} : <<y, x>> \in order
             Bad == {s \in SUBSET set : s # {} /\ ~HasLast(s)}
  <1>1. \A s \in SUBSET set : IsFiniteSet(s)
    BY FS_Subset
  <1>2. ASSUME Bad # {} PROVE FALSE
    <2>1. PICK s \in Bad : \A t \in Bad : ~(Cardinality(t) < Cardinality(s))
      BY <1>1, <1>2, Smallest
    <2>2. PICK x \in s : TRUE
      OBVIOUS
    <2>3. Cardinality(s \ {x}) < Cardinality(s)
      BY <1>1, WithoutOne
    <2>4. s \ {x} \notin Bad
      BY <2>1, <2>3
    <2>5. CASE s \ {x} = {}
      BY <2>5
    <2>6. CASE HasLast(s \ {x})
      <3>1. PICK z \in s \ {x} : \A y \in (s \ {x}) \ {z} : <<y, z>> \in order
        BY <2>6
      <3>2. x \in set /\ z \in set /\ x # z /\ s \in SUBSET set
        BY <3>1
      <3>3. CASE <<x, z>> \in order
        <4>1. \A y \in s \ {z} : <<y, z>> \in order
          BY <3>1, <3>3
        <4> QED
          BY <3>1, <4>1
      <3>4. CASE <<z, x>> \in order
        <4>1. \A y \in s \ {x} : <<y, x>> \in order
          BY <3>1, <3>2, <3>4 DEF Orders
        <4> QED
          BY <4>1
      <3> QED
        BY <3>2, <3>3, <3>4 DEF Orders
    <2> QED
      BY <2>4, <2>5, <2>6
  <1>3. set \notin Bad
    BY <1>2
  <1> QED
    BY <1>3

InOrderOf(s, set, order) ==
  /\ s \in [1..Cardinality(set) -> set]
  /\ \A i, j \in 1..Cardinality(set) : i < j => <<s[i], s[j]>> \in order

\* Finitely many can be put in order.
LEMMA SortedExists ==
  ASSUME NEW set, NEW order, IsFiniteSet(set), Orders(order, set)
  PROVE  \E s : InOrderOf(s, set, order)
  <1> DEFINE Bad == {t \in SUBSET set : ~ \E s : InOrderOf(s, t, order)}
  <1>1. \A s \in SUBSET set : IsFiniteSet(s)
    BY FS_Subset
  <1>2. ASSUME Bad # {} PROVE FALSE
    <2>1. PICK t \in Bad : \A u \in Bad : ~(Cardinality(u) < Cardinality(t))
      BY <1>1, <1>2, Smallest
    <2>2. CASE t = {}
      <3> DEFINE s == [i \in 1..0 |-> {}]
      <3>1. Cardinality({}) = 0
        BY FS_EmptySet
      <3>2. InOrderOf(s, {}, order)
        BY <3>1 DEF InOrderOf
      <3> QED
        BY <2>1, <2>2, <3>2
    <2>3. CASE t # {}
      <3>1. IsFiniteSet(t) /\ Orders(order, t) /\ t \in SUBSET set
        BY <1>1 DEF Orders
      <3>2. PICK x \in t : \A y \in t \ {x} : <<y, x>> \in order
        BY <2>3, <3>1, LastOne
      <3>3. Cardinality(t \ {x}) < Cardinality(t)
        BY <3>1, WithoutOne
      <3>4. PICK r : InOrderOf(r, t \ {x}, order)
        BY <2>1, <3>1, <3>3
      <3> DEFINE n == Cardinality(t)
      <3>5. n \in Nat \ {0} /\ Cardinality(t \ {x}) = n - 1
        BY <2>3, <3>1, FS_RemoveElement, FS_CardinalityType, FS_EmptySet
      <3> HIDE DEF n
      <3> DEFINE s == [i \in 1..n |-> IF i = n THEN x ELSE r[i]]
      <3>6. \A i \in 1..(n - 1) : r[i] \in t \ {x} /\ i \in 1..n /\ s[i] = r[i]
        <4>1. r \in [1..(n - 1) -> t \ {x}]
          BY <3>4, <3>5 DEF InOrderOf
        <4>2. \A i \in 1..(n - 1) : i \in 1..n /\ i # n
          BY <3>5
        <4> QED
          BY <4>1, <4>2
      <3>7. n \in 1..n /\ s[n] = x
        BY <3>5
      <3>8. s \in [1..n -> t]
        <4>1. ASSUME NEW i \in 1..n PROVE s[i] \in t
          <5>1. i = n \/ i \in 1..(n - 1)
            BY <3>5
          <5> QED
            BY <3>6, <3>7, <5>1
        <4> QED
          BY <4>1
      <3>9. ASSUME NEW i \in 1..n, NEW j \in 1..n, i < j PROVE <<s[i], s[j]>> \in order
        <4>1. i \in 1..(n - 1)
          BY <3>5, <3>9
        <4>2. CASE j = n
          BY <3>2, <3>6, <3>7, <4>1, <4>2
        <4>3. CASE j # n
          <5>1. j \in 1..(n - 1)
            BY <3>5, <3>9, <4>3
          <5>2. <<r[i], r[j]>> \in order
            BY <3>4, <3>5, <3>9, <4>1, <5>1 DEF InOrderOf
          <5> QED
            BY <3>6, <4>1, <5>1, <5>2
        <4> QED
          BY <4>2, <4>3
      <3> HIDE DEF s
      <3>10. InOrderOf(s, t, order)
        BY <3>8, <3>9 DEF InOrderOf, n
      <3> QED
        BY <2>1, <3>10
    <2> QED
      BY <2>2, <2>3
  <1>3. set \notin Bad
    BY <1>2
  <1> QED
    BY <1>3

\* Sorted is what it says: in order, and everything once.
LEMMA SortedIs ==
  ASSUME NEW set, NEW order, IsFiniteSet(set), Orders(order, set)
  PROVE  LET s == Sorted(set, order)
             n == Cardinality(set)
         IN  /\ n \in Nat
             /\ s \in [1..n -> set]
             /\ \A i, j \in 1..n : i < j => <<s[i], s[j]>> \in order
             /\ \A i, j \in 1..n : s[i] = s[j] => i = j
             /\ \A x \in set : \E i \in 1..n : s[i] = x
  <1> DEFINE n == Cardinality(set)
             s == Sorted(set, order)
  <1>1. n \in Nat
    BY FS_CardinalityType
  <1>2. InOrderOf(s, set, order)
    BY SortedExists DEF Sorted, InOrderOf
  <1>3. s \in [1..n -> set] /\ \A i, j \in 1..n : i < j => <<s[i], s[j]>> \in order
    BY <1>2 DEF InOrderOf
  <1> HIDE DEF s, n
  <1>4. ASSUME NEW i \in 1..n, NEW j \in 1..n, s[i] = s[j] PROVE i = j
    <2>1. i < j \/ j < i \/ i = j
      BY <1>1
    <2>2. <<s[i], s[j]>> \notin order /\ <<s[j], s[i]>> \notin order
      BY <1>3, <1>4 DEF Orders
    <2> QED
      BY <1>3, <2>1, <2>2
  <1>5. s \in Injection(1..n, set)
    BY <1>3, <1>4 DEF Injection, IsInjective
  <1>6. IsFiniteSet(1..n) /\ Cardinality(1..n) = n
    BY <1>1, FS_Interval
  <1>7. s \in Surjection(1..n, set)
    BY <1>5, <1>6, FS_Injection DEF n
  <1>8. \A x \in set : \E i \in 1..n : s[i] = x
    BY <1>7 DEF Surjection
  <1> QED
    BY <1>1, <1>3, <1>4, <1>8 DEF s, n

\* The largest of finitely many numbers.
LEMMA MaxIs ==
  ASSUME NEW set \in SUBSET Nat, IsFiniteSet(set), set # {}
  PROVE  Max(set) \in set /\ \A x \in set : x <= Max(set)
  <1> DEFINE order == {xy \in set \X set : xy[1] < xy[2]}
  <1>1. \A x, y \in set : <<x, y>> \in order <=> x < y
    OBVIOUS
  <1> HIDE DEF order
  <1>2. Orders(order, set)
    BY <1>1 DEF Orders
  <1>3. PICK m \in set : \A y \in set \ {m} : <<y, m>> \in order
    BY <1>2, LastOne
  <1>4. \A y \in set : y <= m
    <2>1. \A y \in set : y = m \/ y < m
      BY <1>1, <1>3
    <2>2. \A y \in set : y \in Nat
      OBVIOUS
    <2> QED
      BY <2>1, <2>2
  <1> QED
    BY <1>3, <1>4 DEF Max

-----------------------------------------------------------------------------
(* Pages.                                                                  *)

\* The smaller of two.
Least(a, b) == IF a <= b THEN a ELSE b

\* It is what the community modules say it is.
LEMMA LeastIsMin ==
  ASSUME NEW a \in Nat, NEW b \in Nat
  PROVE  Min({a, b}) = Least(a, b)
  BY DEF Min, Least

\* The part of a list that a page of so many results, after so many, shows,
\* and how long it is.
Cut(all, offset, limit) == SubSeq(all, offset + 1, Least(offset + limit, Len(all)))
CutLength(n, offset, limit) == IF offset >= n THEN 0 ELSE Least(limit, n - offset)

\* What is cut from a list.
CutShows(S, all, o, l) ==
  /\ Cut(all, o, l) \in Seq(S) /\ CutLength(Len(all), o, l) \in Nat
  /\ Len(Cut(all, o, l)) = CutLength(Len(all), o, l)
  /\ \A i \in 1..CutLength(Len(all), o, l) : Cut(all, o, l)[i] = all[o + i]

\* A page shows the part of the list that it is meant to.
LEMMA CutIs ==
  ASSUME NEW S, NEW all \in Seq(S), NEW o \in Nat, NEW l \in Nat
  PROVE  CutShows(S, all, o, l)
  <1> PICK n : n = Len(all)
    OBVIOUS
  <1> PICK k : k = CutLength(n, o, l)
    OBVIOUS
  <1> PICK top : top = Least(o + l, n)
    OBVIOUS
  <1>1. n \in Nat /\ k \in Nat /\ top \in Nat /\ top <= n /\ (o < n => top - o = k) /\ (o >= n => top <= o /\ k = 0)
    BY DEF Least, CutLength
  <1> PICK cut : cut = SubSeq(all, o + 1, top)
    OBVIOUS
  <1>2. CASE o < n
    <2>1. cut \in Seq(S) /\ Len(cut) = k /\ \A i \in 1..k : cut[i] = all[o + i]
      <3>1. o + 1 \in 1..(n + 1) /\ top \in o..n
        BY <1>1, <1>2
      <3>2. cut = [i \in 1..k |-> all[o + i]]
        BY <1>1, <1>2
      <3>3. \A i \in 1..k : all[o + i] \in S
        BY <1>1, <1>2
      <3> QED
        BY <1>1, <3>2, <3>3
    <2> QED
      BY <1>1, <2>1 DEF Cut, CutShows
  <1>3. CASE o >= n
    <2>1. cut = <<>>
      BY <1>1, <1>3
    <2> QED
      BY <1>1, <1>3, <2>1 DEF Cut, CutShows
  <1> QED
    BY <1>1, <1>2, <1>3 DEF CutShows

\* A list is determined by its length and its elements.
LEMMA SameList ==
  ASSUME NEW S, NEW a \in Seq(S), NEW b \in Seq(S), Len(a) = Len(b), \A i \in 1..Len(a) : a[i] = b[i]
  PROVE  a = b
  OBVIOUS

\* A list of some is a list of more.
LEMMA ListOfMore ==
  ASSUME NEW S, NEW T, S \subseteq T, NEW s \in Seq(S)
  PROVE  s \in Seq(T)
  <1>1. Len(s) \in Nat /\ s \in [1..Len(s) -> S]
    OBVIOUS
  <1>2. s \in [1..Len(s) -> T]
    BY <1>1
  <1> QED
    BY <1>1, <1>2

\* What one list after the other is.
LEMMA Joined ==
  ASSUME NEW S, NEW a \in Seq(S), NEW b \in Seq(S)
  PROVE  /\ a \o b \in Seq(S) /\ Len(a \o b) = Len(a) + Len(b)
         /\ \A i \in 1..Len(a) : (a \o b)[i] = a[i]
         /\ \A i \in 1..Len(b) : (a \o b)[Len(a) + i] = b[i]
  OBVIOUS

\* Page after page is what one long page is.
LEMMA NextCut ==
  ASSUME NEW S, NEW all \in Seq(S), NEW s \in Nat, NEW l \in Nat
  PROVE  Cut(all, 0, s) \o Cut(all, s, l) = Cut(all, 0, s + l)
  <1> DEFINE n == Len(all)
             p == CutLength(n, 0, s)
             q == CutLength(n, s, l)
             r == CutLength(n, 0, s + l)
             front == Cut(all, 0, s)
             back == Cut(all, s, l)
             both == Cut(all, 0, s + l)
             whole == front \o back
  <1>1. n \in Nat
    OBVIOUS
  <1>2. p \in Nat /\ q \in Nat /\ r = p + q /\ (q > 0 => p = s)
    <2> HIDE DEF n
    <2> QED
      BY <1>1 DEF CutLength, Least
  <1>0. 0 \in Nat /\ s + l \in Nat
    OBVIOUS
  <1>3. front \in Seq(S) /\ Len(front) = p /\ \A i \in 1..p : front[i] = all[0 + i]
    <2>1. CutShows(S, all, 0, s)
      BY <1>0, CutIs
    <2> QED
      BY <2>1, Zenon DEF CutShows
  <1>4. back \in Seq(S) /\ Len(back) = q /\ \A i \in 1..q : back[i] = all[s + i]
    <2>1. CutShows(S, all, s, l)
      BY CutIs
    <2> QED
      BY <2>1, Zenon DEF CutShows
  <1>5. both \in Seq(S) /\ Len(both) = r /\ \A i \in 1..r : both[i] = all[0 + i]
    <2>1. CutShows(S, all, 0, s + l)
      BY <1>0, CutIs
    <2> QED
      BY <2>1, Zenon DEF CutShows
  <1> HIDE DEF front, back, n, p, q, r
  <1>6. whole \in Seq(S) /\ Len(whole) = Len(front) + Len(back)
        /\ (\A i \in 1..Len(front) : whole[i] = front[i]) /\ \A i \in 1..Len(back) : whole[Len(front) + i] = back[i]
    <2>1. front \in Seq(S) /\ back \in Seq(S)
      BY <1>3, <1>4
    <2> QED
      BY <2>1, Joined
  <1> HIDE DEF whole, both
  <1>7. ASSUME NEW i \in 1..r PROVE both[i] = whole[i]
    <2>1. CASE i <= p
      <3>1. i \in 1..p /\ i = 0 + i
        BY <1>2, <2>1
      <3> QED
        BY <1>3, <1>5, <1>6, <3>1
    <2>2. CASE i > p
      <3> PICK j : j = i - p
        OBVIOUS
      <3>1. j \in 1..q /\ i = p + j /\ 0 + i = s + j
        BY <1>2, <2>2
      <3>2. both[i] = all[0 + i] /\ back[j] = all[s + j] /\ whole[p + j] = back[j]
        BY <1>3, <1>4, <1>5, <1>6, <3>1
      <3> QED
        BY <3>1, <3>2
    <2> QED
      BY <1>2, <2>1, <2>2
  <1>8. both = whole
    <2>1. Len(both) = Len(whole) /\ Len(both) = r
      BY <1>2, <1>3, <1>4, <1>5, <1>6
    <2> QED
      BY <1>5, <1>6, <1>7, <2>1, SameList
  <1> QED
    BY <1>8 DEF both, whole, front, back

\* The first so many of a list.
LEMMA FirstCut ==
  ASSUME NEW S, NEW all \in Seq(S), NEW s \in Nat
  PROVE  /\ Cut(all, 0, s) \in Seq(S) /\ Len(Cut(all, 0, s)) = CutLength(Len(all), 0, s)
         /\ \A i \in 1..CutLength(Len(all), 0, s) : Cut(all, 0, s)[i] = all[i]
  <1>1. CutShows(S, all, 0, s)
    <2>1. 0 \in Nat
      OBVIOUS
    <2> QED
      BY <2>1, CutIs
  <1>2. /\ Cut(all, 0, s) \in Seq(S) /\ Len(Cut(all, 0, s)) = CutLength(Len(all), 0, s)
        /\ \A i \in 1..CutLength(Len(all), 0, s) : Cut(all, 0, s)[i] = all[0 + i]
    BY <1>1, Zenon DEF CutShows
  <1>3. CutLength(Len(all), 0, s) \in Nat
    BY <1>1, Zenon DEF CutShows
  <1>4. \A i \in 1..CutLength(Len(all), 0, s) : 0 + i = i
    BY <1>3
  <1> QED
    BY <1>2, <1>4

\* One page after the other.
JoinedStep(h, pages) ==
  h = [i \in 1..Len(pages) |-> IF i = 1 THEN pages[i] ELSE h[i - 1] \o pages[i]]

\* Lists are joined by that recursion, if there is one.
LEMMA FlattenSteps ==
  ASSUME NEW pages, Len(pages) # 0, NEW g, JoinedStep(g, pages)
  PROVE  \E h : JoinedStep(h, pages) /\ FlattenSeq(pages) = h[Len(pages)]
  <1> DEFINE h == CHOOSE k : k = [i \in 1..Len(pages) |-> IF i = 1 THEN pages[i] ELSE k[i - 1] \o pages[i]]
  <1>1. JoinedStep(h, pages)
    BY DEF JoinedStep
  <1>2. FlattenSeq(pages) = h[Len(pages)]
    BY DEF FlattenSeq
  <1> QED
    BY <1>1, <1>2

CutUp(all, l, n) == [i \in 1..n |-> Cut(all, (i - 1) * l, l)]

\* Pages of so many, one after the other, are the list they were cut from.
LEMMA PagesAreTheList ==
  ASSUME NEW S, NEW all \in Seq(S), NEW l \in Nat \ {0}, NEW n \in Nat \ {0}, Len(all) <= n
  PROVE  FlattenSeq(CutUp(all, l, n)) = all
  <1> PICK pages : pages = [i \in 1..n |-> Cut(all, (i - 1) * l, l)]
    OBVIOUS
  <1>0. l \in Nat /\ 0 \in Nat
    OBVIOUS
  <1>1. Len(pages) = n
    OBVIOUS
  <1> DEFINE g == [i \in 1..n |-> Cut(all, 0, i * l)]
  <1>2. ASSUME NEW i \in 1..n PROVE g[i] = IF i = 1 THEN pages[i] ELSE g[i - 1] \o pages[i]
    <2>1. CASE i = 1
      <3>1. (i - 1) * l = 0 /\ i * l = l
        BY <2>1
      <3> QED
        BY <2>1, <3>1
    <2>2. CASE i # 1
      <3> PICK s : s = (i - 1) * l
        OBVIOUS
      <3>1. i - 1 \in 1..n /\ i - 1 \in Nat
        BY <2>2
      <3>2. s \in Nat
        BY <1>0, <3>1
      <3>3. i * l = s + l
        <4> PICK j : j = i - 1
          OBVIOUS
        <4>1. (j + 1) * l = j * l + l /\ j \in Nat
          BY <1>0, <3>1
        <4>2. i = j + 1
          OBVIOUS
        <4> QED
          BY <4>1, <4>2
      <3>4. Cut(all, 0, s) \o Cut(all, s, l) = Cut(all, 0, s + l)
        BY <1>0, <3>2, NextCut
      <3>5. g[i - 1] = Cut(all, 0, s) /\ pages[i] = Cut(all, s, l) /\ g[i] = Cut(all, 0, s + l)
        BY <3>1, <3>3
      <3> QED
        BY <2>2, <3>4, <3>5
    <2> QED
      BY <2>1, <2>2
  <1>3. JoinedStep(g, pages)
    <2> HIDE DEF g
    <2>1. g = [i \in 1..n |-> g[i]]
      BY DEF g
    <2>2. [i \in 1..n |-> g[i]] = [i \in 1..n |-> IF i = 1 THEN pages[i] ELSE g[i - 1] \o pages[i]]
      BY <1>2
    <2> QED
      BY <1>1, <2>1, <2>2 DEF JoinedStep
  <1>4. PICK h : JoinedStep(h, pages) /\ FlattenSeq(pages) = h[n]
    <2>1. Len(pages) # 0
      BY <1>1
    <2> HIDE DEF g
    <2> QED
      BY <1>1, <1>3, <2>1, FlattenSteps
  <1>5. \A i \in 1..n : h[i] = IF i = 1 THEN pages[i] ELSE h[i - 1] \o pages[i]
    BY <1>1, <1>4 DEF JoinedStep
  <1> HIDE DEF g
  <1> DEFINE Bad == {i \in 1..n : h[i] # g[i]}
  <1>6. Bad = {}
    <2> SUFFICES ASSUME Bad # {} PROVE FALSE
      OBVIOUS
    <2>1. Bad \in SUBSET Nat
      OBVIOUS
    <2>2. PICK i \in Bad : \A j \in Bad : i <= j
      BY <2>1, LeastNat
    <2>3. CASE i = 1
      BY <1>2, <1>5, <2>2, <2>3
    <2>4. CASE i # 1
      <3>1. i - 1 \in 1..n /\ i - 1 \notin Bad
        BY <2>2, <2>4
      <3>2. h[i - 1] = g[i - 1]
        BY <3>1
      <3> QED
        BY <1>2, <1>5, <2>2, <2>4, <3>2
    <2> QED
      BY <2>3, <2>4
  <1>7. h[n] = Cut(all, 0, n * l)
    <2>1. n \in 1..n
      OBVIOUS
    <2>2. h[n] = g[n]
      BY <1>6, <2>1
    <2> QED
      BY <2>1, <2>2 DEF g
  <1>8. Cut(all, 0, n * l) = all
    <2>0. \A a, b, c \in Nat : a >= c /\ b <= c => Least(0 + a, b) = b
      BY DEF Least
    <2> PICK t, m : t = n * l /\ m = Len(all)
      OBVIOUS
    <2>1. t >= n /\ t \in Nat /\ m \in Nat /\ m <= n
      <3> PICK k : k = l - 1
        OBVIOUS
      <3>1. k \in Nat /\ l = k + 1
        OBVIOUS
      <3>2. n * k \in Nat /\ n * (k + 1) = n * k + n
        BY <3>1
      <3> QED
        BY <3>1, <3>2
    <2>2. Least(0 + t, m) = m
      <3>1. n \in Nat
        OBVIOUS
      <3> QED
        BY <2>0, <2>1, <3>1, Zenon
    <2>3. Cut(all, 0, t) = SubSeq(all, 1, m)
      BY <2>2 DEF Cut
    <2>4. SubSeq(all, 1, m) = all
      BY <2>1
    <2> QED
      BY <2>3, <2>4
  <1> QED
    BY <1>4, <1>7, <1>8 DEF CutUp

-----------------------------------------------------------------------------
(* Folds.                                                                  *)

\* One step of a fold over a list, and a function that follows it: of each
\* set of places the last one is taken last.
FoldStep(h, base, seq, it, s) == IF s = {} THEN base ELSE h[<<it[s \ {Max(s)}], seq[Max(s)]>>]
FoldedBy(h, base, seq, it) == \A s \in SUBSET DOMAIN seq : it[s] = FoldStep(h, base, seq, it, s)

\* The places of a list that are in a set: one is the last.
LEMMA LastPlace ==
  ASSUME NEW n \in Nat, NEW s \in SUBSET (1..n), s # {}
  PROVE  /\ IsFiniteSet(s) /\ Cardinality(s) \in Nat
         /\ Max(s) \in s /\ (\A i \in s : i <= Max(s))
         /\ s \ {Max(s)} \in SUBSET (1..n)
         /\ Cardinality(s \ {Max(s)}) \in Nat
         /\ Cardinality(s \ {Max(s)}) < Cardinality(s)
  <1>1. IsFiniteSet(s)
    <2>1. IsFiniteSet(1..n)
      BY FS_Interval
    <2> QED
      BY <2>1, FS_Subset
  <1>2. s \in SUBSET Nat
    OBVIOUS
  <1>3. Max(s) \in s /\ \A i \in s : i <= Max(s)
    BY <1>1, <1>2, MaxIs
  <1>4. IsFiniteSet(s \ {Max(s)}) /\ Cardinality(s \ {Max(s)}) < Cardinality(s)
    BY <1>1, <1>3, WithoutOne
  <1> QED
    BY <1>1, <1>3, <1>4, FS_CardinalityType

\* There is a function that follows a fold.
LEMMA FoldExists ==
  ASSUME NEW A, NEW D, NEW h \in [A \X D -> A], NEW base \in A, NEW seq \in Seq(D)
  PROVE  \E it : it \in [SUBSET DOMAIN seq -> A] /\ FoldedBy(h, base, seq, it)
  <1> DEFINE n == Len(seq)
             P == SUBSET (1..n)
             Upto(it, m) == it \in [P -> A] /\ \A s \in P : Cardinality(s) <= m => it[s] = FoldStep(h, base, seq, it, s)
             Bad == {m \in Nat : ~ \E it : Upto(it, m)}
  <1>0. n \in Nat /\ DOMAIN seq = 1..n /\ \A i \in 1..n : seq[i] \in D
    OBVIOUS
  <1>1. \A s \in P : Cardinality(s) \in Nat /\ Cardinality(s) <= n
    <2>1. IsFiniteSet(1..n) /\ Cardinality(1..n) = n
      <3> HIDE DEF n
      <3> QED
        BY <1>0, FS_Interval
    <2> QED
      BY <2>1, FS_Subset, FS_CardinalityType
  <1>2. \A it \in [P -> A], s \in P : FoldStep(h, base, seq, it, s) \in A
    <2> TAKE it \in [P -> A], s \in P
    <2>1. CASE s = {}
      BY <2>1 DEF FoldStep
    <2>2. CASE s # {}
      <3>1. Max(s) \in 1..n /\ s \ {Max(s)} \in P
        BY <1>0, <2>2, LastPlace
      <3> QED
        BY <1>0, <2>2, <3>1 DEF FoldStep
    <2> QED
      BY <2>1, <2>2
  <1>3. ASSUME Bad # {} PROVE FALSE
    <2>1. PICK m \in Bad : \A k \in Bad : m <= k
      BY <1>3, LeastNat
    <2>2. PICK g : g \in [P -> A] /\ (m # 0 => Upto(g, m - 1))
      <3>1. CASE m = 0
        <4>1. [s \in P |-> base] \in [P -> A]
          OBVIOUS
        <4> QED
          BY <3>1, <4>1
      <3>2. CASE m # 0
        <4>1. m - 1 \in Nat /\ m - 1 \notin Bad
          <5> HIDE DEF Upto
          <5> QED
            BY <2>1, <3>2
        <4> QED
          BY <3>2, <4>1
      <3> QED
        BY <3>1, <3>2
    <2> DEFINE it == [s \in P |-> FoldStep(h, base, seq, g, s)]
    <2>3. it \in [P -> A] /\ \A s \in P : it[s] = FoldStep(h, base, seq, g, s)
      BY <1>2, <2>2
    <2> HIDE DEF it
    <2>4. ASSUME NEW s \in P, Cardinality(s) <= m PROVE it[s] = FoldStep(h, base, seq, it, s)
      <3>1. CASE s = {}
        BY <2>3, <3>1 DEF FoldStep
      <3>2. CASE s # {}
        <4> PICK t : t = s \ {Max(s)}
          OBVIOUS
        <4>1. t \in P /\ Cardinality(t) \in Nat /\ Cardinality(t) < Cardinality(s) /\ Cardinality(s) \in Nat
          BY <1>0, <3>2, LastPlace
        <4>2. m # 0 /\ Cardinality(t) <= m - 1
          BY <2>1, <2>4, <4>1
        <4>3. g[t] = it[t]
          BY <2>2, <2>3, <4>1, <4>2
        <4> QED
          BY <2>3, <3>2, <4>3 DEF FoldStep
      <3> QED
        BY <3>1, <3>2
    <2> QED
      BY <2>1, <2>3, <2>4
  <1>4. PICK it : Upto(it, n)
    BY <1>0, <1>3
  <1>5. FoldedBy(h, base, seq, it)
    BY <1>0, <1>1, <1>4 DEF FoldedBy
  <1> QED
    BY <1>0, <1>4, <1>5

\* The places of a list up to one.
LEMMA LastOfPlaces ==
  ASSUME NEW n \in Nat, NEW k \in 1..n
  PROVE  /\ 1..k \in SUBSET (1..n) /\ 1..k # {} /\ Max(1..k) = k
         /\ (1..k) \ {k} = 1..(k - 1)
  <1>1. 1..k \in SUBSET (1..n) /\ k \in 1..k
    OBVIOUS
  <1>2. Max(1..k) \in 1..k /\ k <= Max(1..k)
    BY <1>1, LastPlace
  <1> QED
    BY <1>1, <1>2

\* A fold is what the last step makes, one step after the other.
Folding(g, h, base, seq) ==
  /\ g[0] = base
  /\ \A k \in 1..Len(seq) : g[k] = h[<<g[k - 1], seq[k]>>]

\* What a function says of the sets of places, as far as it stays in A.
FoldsIn(it, A, h, base, seq) ==
  \A s \in SUBSET DOMAIN seq :
    /\ s = {} => it[s] = base
    /\ s # {} /\ it[s \ {Max(s)}] \in A => it[s] = h[<<it[s \ {Max(s)}], seq[Max(s)]>>]

\* What a fold ends in.
FoldsTo(A, h, base, seq, end) ==
  \E g \in [0..Len(seq) -> A] : Folding(g, h, base, seq) /\ g[Len(seq)] = end

\* It is a fold.
LEMMA FoldIs ==
  ASSUME NEW A, NEW D, NEW h \in [A \X D -> A], NEW base \in A, NEW seq \in Seq(D),
         NEW it, FoldsIn(it, A, h, base, seq)
  PROVE  FoldsTo(A, h, base, seq, it[DOMAIN seq])
  <1> PICK n : n = Len(seq)
    OBVIOUS
  <1>0. n \in Nat /\ DOMAIN seq = 1..n /\ \A i \in 1..n : seq[i] \in D
    OBVIOUS
  <1> DEFINE g == [k \in 0..n |-> it[1..k]]
             Bad == {k \in 0..n : ~(g[k] \in A)}
  <1>1. g[0] = base
    <2>1. {} \in SUBSET (1..n) /\ 1..0 = {} /\ 0 \in 0..n
      BY <1>0
    <2> QED
      BY <1>0, <2>1 DEF FoldsIn
  <1>2. ASSUME NEW k \in 1..n, g[k - 1] \in A PROVE g[k] = h[<<g[k - 1], seq[k]>>]
    <2>1. 1..k \in SUBSET (1..n) /\ 1..k # {} /\ Max(1..k) = k /\ (1..k) \ {k} = 1..(k - 1)
      BY <1>0, LastOfPlaces
    <2>2. k \in 0..n /\ k - 1 \in 0..n
      BY <1>0
    <2>3. it[1..(k - 1)] \in A
      BY <1>2, <2>2
    <2>4. it[1..k] = h[<<it[1..(k - 1)], seq[k]>>]
      BY <1>0, <2>1, <2>3 DEF FoldsIn
    <2> QED
      BY <2>2, <2>4
  <1>3. g = [k \in 0..n |-> g[k]] /\ g[n] = it[DOMAIN seq]
    BY <1>0
  <1> HIDE DEF g
  <1>4. ASSUME Bad # {} PROVE FALSE
    <2>1. Bad \in SUBSET Nat
      BY <1>0
    <2>2. PICK k \in Bad : \A j \in Bad : k <= j
      BY <1>4, <2>1, LeastNat
    <2>3. k \in 0..n /\ k # 0
      BY <1>1, <2>2
    <2>4. k \in 1..n /\ k - 1 \in 0..n /\ k - 1 \notin Bad
      BY <1>0, <2>2, <2>3
    <2>5. g[k - 1] \in A /\ seq[k] \in D
      BY <1>0, <2>4
    <2>6. g[k] \in A
      BY <1>2, <2>4, <2>5
    <2> QED
      BY <2>2, <2>6
  <1>5. \A k \in 0..n : g[k] \in A
    BY <1>4
  <1>6. g \in [0..n -> A]
    BY <1>3, <1>5
  <1>7. \A k \in 1..n : g[k] = h[<<g[k - 1], seq[k]>>]
    <2>1. \A k \in 1..n : k - 1 \in 0..n
      BY <1>0
    <2> QED
      BY <1>2, <1>5, <2>1
  <1> QED
    BY <1>1, <1>3, <1>6, <1>7 DEF Folding, FoldsTo

-----------------------------------------------------------------------------
(* Lists that are joined.                                                  *)

\* Lists can be joined one after the other.
LEMMA JoinedExists ==
  ASSUME NEW S, NEW n \in Nat, n # 0, NEW pages, Len(pages) = n, \A i \in 1..n : pages[i] \in Seq(S)
  PROVE  \E h : h \in [1..n -> Seq(S)] /\ JoinedStep(h, pages)
  <1>0. n \in Nat /\ n # 0 /\ \A i \in 1..n : pages[i] \in Seq(S)
    OBVIOUS
  <1> DEFINE Upto(g, m) == g \in [1..n -> Seq(S)] /\ \A i \in 1..n : i <= m => g[i] = IF i = 1 THEN pages[i] ELSE g[i - 1] \o pages[i]
             Bad == {m \in Nat : ~ \E g : Upto(g, m)}
  <1>1. ASSUME Bad # {} PROVE FALSE
    <2>1. PICK m \in Bad : \A k \in Bad : m <= k
      BY <1>1, LeastNat
    <2>2. PICK g : g \in [1..n -> Seq(S)] /\ (m # 0 => Upto(g, m - 1))
      <3>1. CASE m = 0
        <4>1. [i \in 1..n |-> pages[i]] \in [1..n -> Seq(S)]
          BY <1>0
        <4> QED
          BY <3>1, <4>1
      <3>2. CASE m # 0
        <4>1. m - 1 \in Nat /\ m - 1 \notin Bad
          <5> HIDE DEF Upto
          <5> QED
            BY <2>1, <3>2
        <4> QED
          BY <3>2, <4>1
      <3> QED
        BY <3>1, <3>2
    <2> DEFINE it == [i \in 1..n |-> IF i = 1 THEN pages[i] ELSE g[i - 1] \o pages[i]]
    <2>3. it \in [1..n -> Seq(S)]
      <3>1. ASSUME NEW i \in 1..n PROVE it[i] \in Seq(S)
        <4>1. i = 1 \/ i - 1 \in 1..n
          BY <1>0
        <4>2. i - 1 \in 1..n => g[i - 1] \o pages[i] \in Seq(S)
          BY <1>0, <2>2, Joined
        <4> QED
          BY <1>0, <4>1, <4>2
      <3> QED
        BY <3>1
    <2>4. \A i \in 1..n : it[i] = IF i = 1 THEN pages[i] ELSE g[i - 1] \o pages[i]
      OBVIOUS
    <2> HIDE DEF it
    <2>5. ASSUME NEW i \in 1..n, i <= m PROVE it[i] = IF i = 1 THEN pages[i] ELSE it[i - 1] \o pages[i]
      <3>1. CASE i = 1
        BY <2>4, <3>1
      <3>2. CASE i # 1
        <4>1. i - 1 \in 1..n /\ i - 1 <= m - 1 /\ m # 0
          BY <1>0, <2>1, <2>5, <3>2
        <4>2. g[i - 1] = it[i - 1]
          BY <2>2, <2>4, <4>1
        <4> QED
          BY <2>4, <3>2, <4>2
      <3> QED
        BY <3>1, <3>2
    <2> QED
      BY <2>1, <2>3, <2>5
  <1>2. PICK g : Upto(g, n)
    <2>1. n \notin Bad
      BY <1>1
    <2> HIDE DEF Upto
    <2> QED
      BY <1>0, <2>1
  <1>3. \A i \in 1..n : i <= n /\ g[i] = IF i = 1 THEN pages[i] ELSE g[i - 1] \o pages[i]
    BY <1>0, <1>2, SMTT(30)
  <1>4. g = [i \in 1..n |-> IF i = 1 THEN pages[i] ELSE g[i - 1] \o pages[i]]
    BY <1>2, <1>3
  <1> QED
    BY <1>2, <1>4 DEF JoinedStep

\* What one list after the other is.
JoinedAs(h, pages, n, S) ==
  /\ h \in [1..n -> Seq(S)]
  /\ h[1] = pages[1]
  /\ \A i \in 2..n : h[i] = h[i - 1] \o pages[i]
  /\ FlattenSeq(pages) = h[n]

\* What lists are together.
LEMMA FlattenIs ==
  ASSUME NEW S, NEW n \in Nat, n # 0, NEW pages, Len(pages) = n, \A i \in 1..n : pages[i] \in Seq(S)
  PROVE  \E h : JoinedAs(h, pages, n, S)
  <1>0. n \in Nat /\ n # 0 /\ \A i \in 1..n : pages[i] \in Seq(S)
    OBVIOUS
  <1>1. PICK h : JoinedStep(h, pages) /\ FlattenSeq(pages) = h[n]
    BY JoinedExists, FlattenSteps
  <1>2. /\ DOMAIN h = 1..n /\ h = [i \in 1..n |-> h[i]]
        /\ \A i \in 1..n : h[i] = IF i = 1 THEN pages[i] ELSE h[i - 1] \o pages[i]
    BY <1>1 DEF JoinedStep
  <1>3. h[1] = pages[1] /\ \A i \in 2..n : h[i] = h[i - 1] \o pages[i]
    <2>1. 1 \in 1..n /\ \A i \in 2..n : i \in 1..n /\ i # 1
      BY <1>0
    <2> QED
      BY <1>2, <2>1, Zenon
  <1> DEFINE Bad == {i \in 1..n : ~(h[i] \in Seq(S))}
  <1>4. ASSUME Bad # {} PROVE FALSE
    <2>1. Bad \in SUBSET Nat
      OBVIOUS
    <2>2. PICK i \in Bad : \A j \in Bad : i <= j
      BY <1>4, <2>1, LeastNat
    <2>3. i # 1
      BY <1>0, <1>3
    <2>4. i - 1 \in 1..n /\ i - 1 \notin Bad /\ i \in 2..n
      BY <1>0, <2>2, <2>3
    <2>5. h[i - 1] \in Seq(S) /\ pages[i] \in Seq(S)
      BY <1>0, <2>4
    <2>6. h[i - 1] \o pages[i] \in Seq(S)
      BY <2>5, Joined
    <2> QED
      BY <1>3, <2>4, <2>6
  <1>5. h \in [1..n -> Seq(S)]
    <2>1. \A i \in 1..n : h[i] \in Seq(S)
      BY <1>4
    <2> QED
      BY <1>2, <2>1
  <1> QED
    BY <1>1, <1>3, <1>5 DEF JoinedAs

\* The first of lists that are joined alone are the same.
LEMMA FlattenMore ==
  ASSUME NEW S, NEW T, \A x \in T : x \in Seq(S), NEW pages \in Seq(T), NEW page \in T
  PROVE  /\ FlattenSeq(pages) \in Seq(S)
         /\ FlattenSeq(Append(pages, page)) = FlattenSeq(pages) \o page
  <1>a. PICK n : n = Len(pages)
    OBVIOUS
  <1>b. PICK more : more = Append(pages, page)
    OBVIOUS
  <1>0. Len(pages) = n /\ n \in Nat /\ page \in Seq(S) /\ \A i \in 1..n : pages[i] \in Seq(S)
    BY <1>a
  <1>1. /\ Len(more) = n + 1 /\ more[n + 1] = page
        /\ \A i \in 1..n : more[i] = pages[i]
        /\ \A i \in 1..(n + 1) : more[i] \in Seq(S)
    <2>0. n = Len(pages) /\ more = Append(pages, page)
      BY <1>a, <1>b
    <2>1. /\ more \in Seq(T) /\ Len(more) = n + 1 /\ more[n + 1] = page
          /\ \A i \in 1..n : more[i] = pages[i]
      BY <2>0
    <2> QED
      BY <1>0, <2>1
  <1>2. PICK h : JoinedAs(h, more, n + 1, S)
    <2>1. n + 1 # 0 /\ n + 1 \in Nat
      BY <1>0
    <2> QED
      BY <1>1, <2>1, FlattenIs, Zenon
  <1>c. /\ h \in [1..(n + 1) -> Seq(S)] /\ h[1] = more[1]
        /\ \A i \in 2..(n + 1) : h[i] = h[i - 1] \o more[i]
        /\ FlattenSeq(Append(pages, page)) = h[n + 1]
    BY <1>b, <1>2, Zenon DEF JoinedAs
  <1>3. CASE n = 0
    <2>1. pages = <<>>
      BY <1>0, <1>3
    <2>2. FlattenSeq(pages) = <<>>
      BY <2>1 DEF FlattenSeq
    <2>3. <<>> \o page = page /\ <<>> \in Seq(S)
      BY <1>0
    <2>4. h[1] = page
      BY <1>1, <1>c, <1>3
    <2>5. FlattenSeq(Append(pages, page)) = h[1]
      BY <1>c, <1>3
    <2> QED
      BY <2>2, <2>3, <2>4, <2>5
  <1>4. CASE n # 0
    <2>0. PICK g : JoinedAs(g, pages, n, S)
      BY <1>0, <1>4, FlattenIs, Zenon
    <2>1. /\ g \in [1..n -> Seq(S)] /\ g[1] = pages[1]
          /\ \A i \in 2..n : g[i] = g[i - 1] \o pages[i]
          /\ FlattenSeq(pages) = g[n]
      BY <2>0, Zenon DEF JoinedAs
    <2> DEFINE Bad == {i \in 1..n : h[i] # g[i]}
    <2>2. ASSUME Bad # {} PROVE FALSE
      <3>1. Bad \in SUBSET Nat
        OBVIOUS
      <3>2. PICK i \in Bad : \A j \in Bad : i <= j
        BY <2>2, <3>1, LeastNat
      <3>3. i # 1
        BY <1>0, <1>1, <1>c, <2>1
      <3>a. i \in 1..n
        BY <3>2
      <3>b. i - 1 \in 1..n /\ i \in 2..n /\ i \in 2..(n + 1) /\ i - 1 < i
        BY <1>0, <3>3, <3>a
      <3>4. i - 1 \in 1..n /\ i - 1 \notin Bad /\ i \in 2..n /\ i \in 2..(n + 1)
        <4> HIDE DEF Bad
        <4>1. ASSUME i - 1 \in Bad PROVE FALSE
          <5>1. i <= i - 1
            BY <3>2, <4>1
          <5> QED
            BY <3>a, <3>b, <5>1
        <4> QED
          BY <3>b, <4>1
      <3>5. h[i - 1] = g[i - 1] /\ more[i] = pages[i]
        BY <1>1, <3>4
      <3> QED
        BY <1>c, <2>1, <3>2, <3>4, <3>5
    <2>3. n \in 1..n /\ n + 1 \in 2..(n + 1) /\ (n + 1) - 1 = n
      BY <1>0, <1>4
    <2>4. h[n] = g[n]
      BY <2>2, <2>3
    <2>5. h[n + 1] = g[n] \o page
      BY <1>1, <1>c, <2>3, <2>4
    <2>6. g[n] \in Seq(S)
      BY <2>1, <2>3
    <2> QED
      BY <1>c, <2>1, <2>5, <2>6, Zenon
  <1> QED
    BY <1>3, <1>4

\* No lists are nothing together.
LEMMA FlattenNone == FlattenSeq(<<>>) = <<>>
  BY DEF FlattenSeq

\* A list that is not empty is one that something was appended to.
LEMMA LastAppended ==
  ASSUME NEW S, NEW s \in Seq(S), Len(s) # 0
  PROVE  \E t \in Seq(S), x \in S : s = Append(t, x) /\ Len(s) = Len(t) + 1
  <1> PICK n : n = Len(s)
    OBVIOUS
  <1>1. n \in Nat /\ n # 0 /\ \A i \in 1..n : s[i] \in S
    OBVIOUS
  <1> DEFINE t == SubSeq(s, 1, n - 1)
  <1>2. t \in Seq(S) /\ Len(t) = n - 1 /\ \A i \in 1..(n - 1) : t[i] = s[i]
    BY <1>1
  <1> HIDE DEF t
  <1> PICK r : r = Append(t, s[n])
    OBVIOUS
  <1>3. s[n] \in S
    BY <1>1
  <1>4. r \in Seq(S) /\ Len(r) = n /\ (\A i \in 1..(n - 1) : r[i] = t[i]) /\ r[n] = s[n]
    BY <1>1, <1>2, <1>3
  <1>5. \A i \in 1..n : s[i] = r[i]
    BY <1>1, <1>2, <1>4
  <1>6. s = r
    BY <1>4, <1>5, SameList
  <1> QED
    BY <1>1, <1>2, <1>3, <1>6
=============================================================================
