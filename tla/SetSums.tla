------------------------------ MODULE SetSums -------------------------------
(***************************************************************************)
(* Sums over finite sets, as the accounts of the code cache and of the     *)
(* compilation scheduler need them: resident_code_bytes and queued_bytes   *)
(* are kept by adding and subtracting one entry at a time, and the lemmas  *)
(* say that this keeps them equal to the sum over what is there.           *)
(***************************************************************************)
EXTENDS Naturals, FiniteSets, FiniteSetsExt, FiniteSetTheorems, WellFoundedInduction, TLAPS

\* The sum of f over S.
SumOver(f, S) == MapThenSumSet(LAMBDA x : f[x], S)

\* The element of T that a fold takes first.
First(T) == CHOOSE x \in T : TRUE

\* g gives the sum of f over every subset of S, one element at a time.
PartialSums(g, f, S) ==
  g = [T \in SUBSET S |-> IF T = {} THEN 0 ELSE f[First(T)] + g[T \ {First(T)}]]

\* The numbers that f takes on S.
NatOn(f, S) == \A x \in S : f[x] \in Nat

\* f and e are the same on S.
AgreeOn(f, e, S) == \A x \in S : f[x] = e[x]

-----------------------------------------------------------------------------
(* Induction with a set in place of a predicate.                            *)

\* A set of numbers that holds 0 and is closed under successor is Nat.
LEMMA NatSetInduction ==
  ASSUME NEW N \in SUBSET Nat, 0 \in N, \A n \in N : n + 1 \in N
  PROVE  N = Nat
<1> DEFINE R == OpToRel(<, Nat)
<1> DEFINE Missing == Nat \ N
<1>1. IsWellFoundedOn(R, Nat)
  BY NatLessThanWellFounded
<1> SUFFICES ASSUME Missing # {} PROVE FALSE
  OBVIOUS
<1> HIDE DEF R
<1>2. PICK m \in Missing : \A k \in Missing : ~(<<k, m>> \in R)
  BY <1>1, WFMin
<1>3. m \in Nat /\ m # 0 /\ m - 1 \in Nat /\ m - 1 + 1 = m
  BY <1>2
<1>4. ~(<<m - 1, m>> \in R) \/ m - 1 \in N
  BY <1>2, <1>3
<1>5. <<m - 1, m>> \in R
  BY <1>3 DEF R, OpToRel
<1>. QED  BY <1>2, <1>3, <1>4, <1>5

\* A family of subsets of a finite set holds all of them when it holds {} and
\* every set whose elements can all be taken out one by one within the family.
LEMMA FiniteSubsetInduction ==
  ASSUME NEW S, IsFiniteSet(S), NEW C, {} \in C,
         \A T \in SUBSET S : T # {} /\ (\A x \in T : T \ {x} \in C) => T \in C
  PROVE  \A T \in SUBSET S : T \in C
<1> DEFINE N == {n \in Nat : \A T \in SUBSET S : Cardinality(T) = n => T \in C}
<1>1. \A T \in SUBSET S : IsFiniteSet(T) /\ Cardinality(T) \in Nat
  BY FS_Subset, FS_CardinalityType
<1>2. 0 \in N
  BY <1>1, FS_EmptySet
<1>3. ASSUME NEW n \in N PROVE n + 1 \in N
  <2> SUFFICES ASSUME NEW T \in SUBSET S, Cardinality(T) = n + 1 PROVE T \in C
    OBVIOUS
  <2>1. T # {}
    BY <1>1, FS_EmptySet
  <2>2. \A x \in T : Cardinality(T \ {x}) = n
    BY <1>1, FS_RemoveElement
  <2>. QED  BY <2>1, <2>2
<1> HIDE DEF N
<1>4. N = Nat
  BY <1>2, <1>3, NatSetInduction DEF N
<1>. QED  BY <1>1, <1>4 DEF N

-----------------------------------------------------------------------------
(* The recursion of the fold has a solution, and only one.                  *)

\* CHOOSE picks an element if there is one.
LEMMA FirstIsMember == \A T : T # {} => First(T) \in T
BY DEF First

\* There is a function with the sum of every subset.
LEMMA PartialSumsExist ==
  ASSUME NEW S, IsFiniteSet(S), NEW f, NatOn(f, S)
  PROVE  \E g : PartialSums(g, f, S)
<1> DEFINE D(n) == {T \in SUBSET S : Cardinality(T) <= n}
           Value(g, T) == IF T = {} THEN 0 ELSE f[First(T)] + g[T \ {First(T)}]
           G(n) == {g \in [D(n) -> Nat] : \A T \in D(n) : g[T] = Value(g, T)}
           N == {n \in Nat : G(n) # {}}
<1>1. \A T \in SUBSET S : IsFiniteSet(T) /\ Cardinality(T) \in Nat
  BY FS_Subset, FS_CardinalityType
<1>2. 0 \in N
  <2>1. \A T \in D(0) : T = {}
    BY <1>1, FS_EmptySet
  <2>2. [T \in D(0) |-> 0] \in G(0)
    BY <2>1
  <2>. QED  BY <2>2
<1>3. ASSUME NEW n \in N PROVE n + 1 \in N
  <2>1. PICK g \in G(n) : TRUE
    OBVIOUS
  <2> DEFINE h == [T \in D(n + 1) |-> Value(g, T)]
  <2>2. \A T \in D(n + 1) : T # {} => T \ {First(T)} \in D(n) /\ T \ {First(T)} \in D(n + 1)
                                      /\ f[First(T)] \in Nat
    <3> SUFFICES ASSUME NEW T \in D(n + 1), T # {}
                 PROVE  T \ {First(T)} \in D(n) /\ T \ {First(T)} \in D(n + 1)
                        /\ f[First(T)] \in Nat
      OBVIOUS
    <3>1. First(T) \in T
      BY FirstIsMember
    <3>2. Cardinality(T \ {First(T)}) = Cardinality(T) - 1
      BY <1>1, <3>1, FS_RemoveElement
    <3>. QED  BY <1>1, <3>1, <3>2 DEF NatOn
  <2>3. h \in [D(n + 1) -> Nat]
    BY <2>1, <2>2
  <2>4. \A T \in D(n) : T \in D(n + 1) /\ h[T] = g[T]
    BY <1>1, <2>1
  <2>5. \A T \in D(n + 1) : h[T] = Value(h, T)
    BY <2>2, <2>4
  <2>6. h \in G(n + 1)
    BY <2>3, <2>5
  <2>7. n + 1 \in Nat
    OBVIOUS
  <2>8. G(n + 1) # {}
    BY <2>6
  <2> HIDE DEF G
  <2>. QED  BY <2>7, <2>8
<1> HIDE DEF N
<1>4. N = Nat
  BY <1>2, <1>3, NatSetInduction DEF N
<1>5. PICK g \in G(Cardinality(S)) : TRUE
  BY <1>1, <1>4 DEF N
<1>6. D(Cardinality(S)) = SUBSET S
  BY <1>1, FS_Subset
<1>7. PartialSums(g, f, S)
  BY <1>5, <1>6 DEF PartialSums
<1>. QED  BY <1>7

\* The sum of a nonempty subset is its first element and the rest.
LEMMA PartialSumsStep ==
  ASSUME NEW g, NEW f, NEW S, PartialSums(g, f, S)
  PROVE  /\ g[{}] = 0
         /\ \A T \in SUBSET S : T # {} => g[T] = f[First(T)] + g[T \ {First(T)}]
BY DEF PartialSums

\* Partial sums are numbers.
LEMMA PartialSumsType ==
  ASSUME NEW S, IsFiniteSet(S), NEW g, NEW f, NatOn(f, S), PartialSums(g, f, S)
  PROVE  \A T \in SUBSET S : g[T] \in Nat
<1> DEFINE C == {T \in SUBSET S : g[T] \in Nat}
<1>1. {} \in C
  BY PartialSumsStep
<1>2. ASSUME NEW T \in SUBSET S, T # {}, \A x \in T : T \ {x} \in C PROVE T \in C
  <2>1. First(T) \in T
    BY <1>2, FirstIsMember
  <2>2. g[T] = f[First(T)] + g[T \ {First(T)}]
    BY <1>2, PartialSumsStep
  <2>. QED  BY <1>2, <2>1, <2>2 DEF NatOn
<1> HIDE DEF C
<1>3. \A T \in SUBSET S : T \in C
  BY <1>1, <1>2, FiniteSubsetInduction
<1>. QED  BY <1>3 DEF C

\* The order in which the elements are taken does not matter.
LEMMA PartialSumsRemove ==
  ASSUME NEW S, IsFiniteSet(S), NEW g, NEW f, NatOn(f, S), PartialSums(g, f, S)
  PROVE  \A T \in SUBSET S : \A x \in T : g[T] = f[x] + g[T \ {x}]
<1> DEFINE C == {T \in SUBSET S : \A x \in T : g[T] = f[x] + g[T \ {x}]}
<1>1. {} \in C
  OBVIOUS
<1>2. ASSUME NEW T \in SUBSET S, T # {}, \A x \in T : T \ {x} \in C PROVE T \in C
  <2> SUFFICES ASSUME NEW x \in T PROVE g[T] = f[x] + g[T \ {x}]
    OBVIOUS
  <2> DEFINE c == First(T)
  <2>1. c \in T /\ g[T] = f[c] + g[T \ {c}]
    BY <1>2, FirstIsMember, PartialSumsStep
  <2> HIDE DEF c
  <2>2. CASE x = c
    BY <2>1, <2>2
  <2>3. CASE x # c
    <3> DEFINE U == (T \ {c}) \ {x}
    <3>1. g[T \ {c}] = f[x] + g[U]
      BY <1>2, <2>1, <2>3
    <3>2. g[T \ {x}] = f[c] + g[(T \ {x}) \ {c}]
      BY <1>2, <2>1, <2>3
    <3>3. (T \ {x}) \ {c} = U
      OBVIOUS
    <3>4. g[U] \in Nat /\ f[x] \in Nat /\ f[c] \in Nat
      <4>1. U \in SUBSET S
        OBVIOUS
      <4>. QED  BY <4>1, <2>1, PartialSumsType DEF NatOn
    <3> HIDE DEF U
    <3>. QED  BY <2>1, <3>1, <3>2, <3>3, <3>4
  <2>. QED  BY <2>2, <2>3
<1> HIDE DEF C
<1>3. \A T \in SUBSET S : T \in C
  BY <1>1, <1>2, FiniteSubsetInduction
<1>. QED  BY <1>3 DEF C

\* Sums of functions that agree on a set are equal on it.
LEMMA PartialSumsAgree ==
  ASSUME NEW S, NEW V, NEW W, IsFiniteSet(S), S \subseteq V, S \subseteq W,
         NEW g, NEW f, PartialSums(g, f, V),
         NEW h, NEW e, PartialSums(h, e, W),
         AgreeOn(f, e, S)
  PROVE  g[S] = h[S]
<1> DEFINE C == {T \in SUBSET S : g[T] = h[T]}
<1>a. g[{}] = 0 /\ \A T \in SUBSET V : T # {} => g[T] = f[First(T)] + g[T \ {First(T)}]
  BY PartialSumsStep
<1>b. h[{}] = 0 /\ \A T \in SUBSET W : T # {} => h[T] = e[First(T)] + h[T \ {First(T)}]
  BY PartialSumsStep
<1>1. {} \in C
  BY <1>a, <1>b
<1>2. ASSUME NEW T \in SUBSET S, T # {}, \A x \in T : T \ {x} \in C PROVE T \in C
  <2>1. First(T) \in T
    BY <1>2, FirstIsMember
  <2>2. T \in SUBSET V /\ T \in SUBSET W
    OBVIOUS
  <2>3. g[T] = f[First(T)] + g[T \ {First(T)}]
    BY <1>2, <2>2, <1>a
  <2>4. h[T] = e[First(T)] + h[T \ {First(T)}]
    BY <1>2, <2>2, <1>b
  <2>. QED  BY <1>2, <2>1, <2>3, <2>4 DEF AgreeOn
<1> HIDE DEF C
<1>3. \A T \in SUBSET S : T \in C
  BY <1>1, <1>2, FiniteSubsetInduction
<1>. QED  BY <1>3 DEF C

\* SumOver is the partial sum of the whole set.
LEMMA SumIsPartialSum ==
  ASSUME NEW f, NEW S, IsFiniteSet(S), NatOn(f, S)
  PROVE  \E g : PartialSums(g, f, S) /\ SumOver(f, S) = g[S]
<1> DEFINE G == CHOOSE g : PartialSums(g, f, S)
<1>1. PartialSums(G, f, S)
  BY PartialSumsExist
<1>2. SumOver(f, S) = G[S]
  BY DEF SumOver, MapThenSumSet, MapThenFoldSet, PartialSums, First
<1>. QED  BY <1>1, <1>2

-----------------------------------------------------------------------------
(* What the accounts rely on.                                               *)

\* A sum of numbers is a number, and nothing sums to 0.
THEOREM SumOverType ==
  ASSUME NEW f, NEW S, IsFiniteSet(S), NatOn(f, S)
  PROVE  SumOver(f, S) \in Nat
BY SumIsPartialSum, PartialSumsType

\* Nothing sums to zero.
THEOREM SumOverEmpty == ASSUME NEW f PROVE SumOver(f, {}) = 0
<1>1. IsFiniteSet({}) /\ NatOn(f, {})
  BY FS_EmptySet DEF NatOn
<1>2. PICK g : PartialSums(g, f, {}) /\ SumOver(f, {}) = g[{}]
  BY <1>1, SumIsPartialSum
<1>. QED  BY <1>2, PartialSumsStep

\* The sum depends on the values on the set alone.
THEOREM SumOverAgree ==
  ASSUME NEW S, IsFiniteSet(S), NEW f, NatOn(f, S), NEW e, AgreeOn(f, e, S)
  PROVE  SumOver(f, S) = SumOver(e, S)
<1>1. NatOn(e, S)
  BY DEF NatOn, AgreeOn
<1>2. PICK g : PartialSums(g, f, S) /\ SumOver(f, S) = g[S]
  BY SumIsPartialSum
<1>3. PICK h : PartialSums(h, e, S) /\ SumOver(e, S) = h[S]
  BY <1>1, SumIsPartialSum
<1>4. S \subseteq S
  OBVIOUS
<1>5. g[S] = h[S]
  BY <1>2, <1>3, <1>4, PartialSumsAgree
<1>. QED  BY <1>2, <1>3, <1>5

\* Taking an element away takes its value away.
THEOREM SumOverRemove ==
  ASSUME NEW S, IsFiniteSet(S), NEW f, NatOn(f, S), NEW x \in S
  PROVE  SumOver(f, S) = f[x] + SumOver(f, S \ {x})
<1>1. IsFiniteSet(S \ {x}) /\ NatOn(f, S \ {x})
  BY FS_RemoveElement DEF NatOn
<1>2. PICK g : PartialSums(g, f, S) /\ SumOver(f, S) = g[S]
  BY SumIsPartialSum
<1>3. PICK h : PartialSums(h, f, S \ {x}) /\ SumOver(f, S \ {x}) = h[S \ {x}]
  BY <1>1, SumIsPartialSum
<1>4. g[S \ {x}] = h[S \ {x}]
  <2>1. S \ {x} \subseteq S /\ S \ {x} \subseteq S \ {x} /\ AgreeOn(f, f, S \ {x})
    BY DEF AgreeOn
  <2>. QED  BY <1>1, <1>2, <1>3, <2>1, PartialSumsAgree
<1>5. g[S] = f[x] + g[S \ {x}]
  BY <1>2, PartialSumsRemove
<1>. QED  BY <1>2, <1>3, <1>4, <1>5

\* Adding an element adds its value.
THEOREM SumOverAdd ==
  ASSUME NEW S, IsFiniteSet(S), NEW x, x \notin S, NEW f, NatOn(f, S \cup {x})
  PROVE  SumOver(f, S \cup {x}) = f[x] + SumOver(f, S)
<1>1. (S \cup {x}) \ {x} = S /\ x \in S \cup {x} /\ IsFiniteSet(S \cup {x})
  BY FS_AddElement
<1>. QED  BY <1>1, SumOverRemove
=============================================================================
