-------------------------------- MODULE Sums --------------------------------
(***************************************************************************)
(* Facts about SumFunctionOnSet(f, S), the sum of f[x] for the x of a      *)
(* finite set S, that the proofs about byte totals and counters rest on.   *)
(* The sum is defined by recursion over the subsets of S, so that first    *)
(* the recursion is shown to have one solution.  Every induction over the  *)
(* subsets is put as the choice of a smallest one that is wrong.           *)
(***************************************************************************)
EXTENDS Integers, FiniteSets, Functions, FiniteSetTheorems, WellFoundedInduction, TLAPS

\* The member of a set that the sum takes first, and one step of the recursion.
First(s) == CHOOSE x \in s : TRUE
Step(f, g, s) == IF s = {} THEN 0 ELSE f[First(s)] + g[s \ {First(s)}]
Solves(f, g, T) == g = [s \in SUBSET T |-> Step(f, g, s)]

\* Among sets of subsets of a finite set there is one that has no smaller one.
LEMMA SmallestSubset ==
  ASSUME NEW S, IsFiniteSet(S), NEW W, W \subseteq SUBSET S, W # {}
  PROVE  \E m \in W : \A y \in W : y \subseteq m => y = m
<1>1. IsWellFoundedOn(StrictSubsetOrdering(S), FiniteSubsetsOf(S))
  BY FS_StrictSubsetOrderingWellFounded
<1>2. W \subseteq FiniteSubsetsOf(S)
  BY FS_FiniteSubsetsOfFinite
<1>3. PICK m \in W : \A y \in W : ~(<<y, m>> \in StrictSubsetOrdering(S))
  BY <1>1, <1>2, WFMin
<1> QED
  BY <1>3, Zenon DEF StrictSubsetOrdering

LEMMA FirstIsIn == \A s : s # {} => First(s) \in s
BY Zenon DEF First

\* Two solutions agree, wherever both are defined.
LEMMA SolutionsAgree ==
  ASSUME NEW f, NEW S, IsFiniteSet(S), NEW T \in SUBSET S, NEW g, NEW h,
         Solves(f, g, S), Solves(f, h, T)
  PROVE  \A s \in SUBSET T : g[s] = h[s]
<1> DEFINE W == {s \in SUBSET T : g[s] # h[s]}
<1> SUFFICES ASSUME W # {} PROVE FALSE
  OBVIOUS
<1>1. IsFiniteSet(T)
  BY FS_Subset
<1>2. PICK m \in W : \A y \in W : y \subseteq m => y = m
  <2>1. W \subseteq SUBSET T
    OBVIOUS
  <2> HIDE DEF W
  <2> QED BY <1>1, <2>1, SmallestSubset
<1>3. g[m] = Step(f, g, m) /\ h[m] = Step(f, h, m)
  <2>1. \A s \in SUBSET S : g[s] = Step(f, g, s)
    BY Zenon DEF Solves
  <2>2. \A s \in SUBSET T : h[s] = Step(f, h, s)
    BY Zenon DEF Solves
  <2> QED BY <2>1, <2>2
<1>4. CASE m = {}
  BY <1>3, <1>4 DEF Step
<1>5. CASE m # {}
  <2> DEFINE r == m \ {First(m)}
  <2>1. r \in SUBSET T /\ r \subseteq m /\ r # m
    BY <1>5, FirstIsIn
  <2>2. g[r] = h[r]
    BY <1>2, <2>1
  <2> QED BY <1>3, <1>5, <2>2 DEF Step
<1> QED BY <1>4, <1>5

\* A solution for a set is one for its subsets.
LEMMA SolutionRestricted ==
  ASSUME NEW f, NEW S, NEW T \in SUBSET S, NEW g, Solves(f, g, S)
  PROVE  Solves(f, [s \in SUBSET T |-> g[s]], T)
<1> DEFINE h == [s \in SUBSET T |-> g[s]]
<1>1. \A s \in SUBSET T : h[s] = Step(f, h, s)
  <2> TAKE s \in SUBSET T
  <2>1. g[s] = Step(f, g, s)
    <3>1. \A r \in SUBSET S : g[r] = Step(f, g, r)
      BY Zenon DEF Solves
    <3> QED BY <3>1
  <2>2. h[s] = g[s] /\ s \ {First(s)} \in SUBSET T
    OBVIOUS
  <2>3. h[s \ {First(s)}] = g[s \ {First(s)}]
    BY <2>2
  <2> HIDE DEF h
  <2> QED BY <2>1, <2>2, <2>3 DEF Step
<1>2. h = [s \in SUBSET T |-> h[s]]
  OBVIOUS
<1> HIDE DEF h
<1>3. h = [s \in SUBSET T |-> Step(f, h, s)]
  BY <1>1, <1>2, Zenon
<1> QED BY <1>3 DEF Solves, h

\* There is a solution for every finite set.
LEMMA SolutionExists ==
  ASSUME NEW f, NEW S, IsFiniteSet(S)
  PROVE  \E g : Solves(f, g, S)
<1> DEFINE W == {T \in SUBSET S : ~\E g : Solves(f, g, T)}
<1> SUFFICES ASSUME W # {} PROVE FALSE
  OBVIOUS
<1>1. PICK m \in W : \A y \in W : y \subseteq m => y = m
  <2>1. W \subseteq SUBSET S
    OBVIOUS
  <2> HIDE DEF W
  <2> QED BY <2>1, SmallestSubset
<1> DEFINE Of(s) == CHOOSE g : Solves(f, g, s)
           Value(s) == Of(s)[s]
<1>2. \A s \in SUBSET m : s # m => Solves(f, Of(s), s)
  <2> TAKE s \in SUBSET m
  <2> HAVE s # m
  <2>1. \E g : Solves(f, g, s)
    BY <1>1
  <2> QED BY <2>1, Zenon
<1>3. \A s \in SUBSET m : s # m => Value(s) = IF s = {} THEN 0
                                              ELSE f[First(s)] + Value(s \ {First(s)})
  <2> TAKE s \in SUBSET m
  <2> HAVE s # m
  <2>1. Solves(f, Of(s), s)
    BY <1>2
  <2>2. \A t \in SUBSET s : Of(s)[t] = Step(f, Of(s), t)
    <3> HIDE DEF Of
    <3> QED BY <2>1, Zenon DEF Solves
  <2>3. Value(s) = Step(f, Of(s), s)
    BY <2>2
  <2>4. CASE s = {}
    BY <2>3, <2>4 DEF Step
  <2>5. CASE s # {}
    <3> DEFINE r == s \ {First(s)}
    <3>1. r \in SUBSET s /\ r \in SUBSET m /\ r # m
      BY <2>5, FirstIsIn
    <3>2. Solves(f, Of(r), r)
      BY <1>2, <3>1
    <3>3. IsFiniteSet(s)
      BY FS_Subset
    <3>4. Of(s)[r] = Value(r)
      <4> HIDE DEF Of, r
      <4>1. \A t \in SUBSET r : Of(s)[t] = Of(r)[t]
        BY <2>1, <3>1, <3>2, <3>3, SolutionsAgree
      <4> QED BY <4>1 DEF Value
    <3> QED BY <2>3, <2>5, <3>4 DEF Step
  <2> QED BY <2>4, <2>5
<1> DEFINE Top == IF m = {} THEN 0 ELSE f[First(m)] + Value(m \ {First(m)})
           g == [s \in SUBSET m |-> IF s = m THEN Top ELSE Value(s)]
<1>4. \A s \in SUBSET m : g[s] = Step(f, g, s)
  <2> HIDE DEF Value
  <2> TAKE s \in SUBSET m
  <2>1. g[s] = IF s = {} THEN 0 ELSE f[First(s)] + Value(s \ {First(s)})
    BY <1>3
  <2>2. CASE s = {}
    BY <2>1, <2>2 DEF Step
  <2>3. CASE s # {}
    <3>1. s \ {First(s)} \in SUBSET m /\ s \ {First(s)} # m
      BY <2>3, FirstIsIn
    <3>2. g[s \ {First(s)}] = Value(s \ {First(s)})
      BY <3>1
    <3> HIDE DEF g
    <3> QED BY <2>1, <2>3, <3>2 DEF Step
  <2> QED BY <2>2, <2>3
<1>5. g = [s \in SUBSET m |-> g[s]]
  OBVIOUS
<1>6. Solves(f, g, m)
  <2> HIDE DEF g
  <2>1. g = [s \in SUBSET m |-> Step(f, g, s)]
    BY <1>4, <1>5, Zenon
  <2> QED BY <2>1 DEF Solves
<1> QED
  <2> HIDE DEF g
  <2> QED BY <1>6, Zenon

-----------------------------------------------------------------------------
(* The sum. *)

\* The sum is the value of any solution.
LEMMA SumIs ==
  ASSUME NEW f, NEW S, IsFiniteSet(S), NEW T \in SUBSET S, NEW g, Solves(f, g, S)
  PROVE  SumFunctionOnSet(f, T) = g[T]
<1> DEFINE h == CHOOSE h : Solves(f, h, T)
<1>1. SumFunctionOnSet(f, T) = h[T]
  BY Zenon DEF SumFunctionOnSet, FoldFunctionOnSet, MapThenFoldSet, Solves, Step, First
<1>2. IsFiniteSet(T)
  BY FS_Subset
<1>3. Solves(f, h, T)
  <2>1. \E x : Solves(f, x, T)
    BY <1>2, SolutionExists
  <2> QED BY <2>1, Zenon
<1>4. g[T] = h[T]
  <2> HIDE DEF h
  <2> QED BY <1>3, SolutionsAgree
<1> QED BY <1>1, <1>4

\* The sum by its recursion.
LEMMA SumStep ==
  ASSUME NEW f, NEW S, IsFiniteSet(S)
  PROVE  SumFunctionOnSet(f, S) =
           IF S = {} THEN 0 ELSE f[First(S)] + SumFunctionOnSet(f, S \ {First(S)})
<1>1. PICK g : Solves(f, g, S)
  BY SolutionExists
<1>2. SumFunctionOnSet(f, S) = g[S] /\ SumFunctionOnSet(f, S \ {First(S)}) = g[S \ {First(S)}]
  BY <1>1, SumIs
<1>3. g[S] = Step(f, g, S)
  <2>1. \A s \in SUBSET S : g[s] = Step(f, g, s)
    BY <1>1, Zenon DEF Solves
  <2> QED BY <2>1
<1> QED BY <1>2, <1>3 DEF Step

LEMMA SumOfNone == ASSUME NEW f PROVE SumFunctionOnSet(f, {}) = 0
BY SumStep, FS_EmptySet

\* A sum of integers is one, and of naturals too.
LEMMA SumIn ==
  ASSUME NEW f, NEW S, IsFiniteSet(S), NEW N \in {Nat, Int}, \A x \in S : f[x] \in N
  PROVE  SumFunctionOnSet(f, S) \in N
<1> DEFINE W == {T \in SUBSET S : SumFunctionOnSet(f, T) \notin N}
<1> SUFFICES ASSUME W # {} PROVE FALSE
  <2>1. S \in SUBSET S
    OBVIOUS
  <2> QED BY <2>1
<1>1. PICK m \in W : \A y \in W : y \subseteq m => y = m
  <2>1. W \subseteq SUBSET S
    OBVIOUS
  <2> HIDE DEF W
  <2> QED BY <2>1, SmallestSubset
<1>2. IsFiniteSet(m)
  BY FS_Subset
<1>3. CASE m = {}
  BY <1>3, SumOfNone
<1>4. CASE m # {}
  <2> DEFINE r == m \ {First(m)}
  <2>1. r \in SUBSET S /\ r \subseteq m /\ r # m /\ f[First(m)] \in N
    BY <1>4, FirstIsIn
  <2>2. SumFunctionOnSet(f, r) \in N
    BY <1>1, <2>1
  <2>3. SumFunctionOnSet(f, m) = f[First(m)] + SumFunctionOnSet(f, r)
    BY <1>2, <1>4, SumStep
  <2>4. \A a, b \in N : a + b \in N
    OBVIOUS
  <2> HIDE DEF r
  <2> QED BY <2>1, <2>2, <2>3, <2>4
<1> QED BY <1>3, <1>4

\* Any member may be taken out of the sum.
LEMMA SumWithout ==
  ASSUME NEW f, NEW S, IsFiniteSet(S), \A x \in S : f[x] \in Int, NEW e \in S
  PROVE  SumFunctionOnSet(f, S) = f[e] + SumFunctionOnSet(f, S \ {e})
<1> DEFINE W == {T \in SUBSET S : \E x \in T :
                   SumFunctionOnSet(f, T) # f[x] + SumFunctionOnSet(f, T \ {x})}
<1> SUFFICES ASSUME W # {} PROVE FALSE
  <2>1. S \in SUBSET S
    OBVIOUS
  <2> QED BY <2>1
<1>1. PICK m \in W : \A y \in W : y \subseteq m => y = m
  <2>1. W \subseteq SUBSET S
    OBVIOUS
  <2> HIDE DEF W
  <2> QED BY <2>1, SmallestSubset
<1>2. PICK x \in m : SumFunctionOnSet(f, m) # f[x] + SumFunctionOnSet(f, m \ {x})
  OBVIOUS
<1> DEFINE c == First(m)
           both == (m \ {c}) \ {x}
<1>3. c \in m /\ x \in S /\ c \in S /\ m \subseteq S
  BY <1>2, FirstIsIn
<1>4. \A T \in SUBSET S : IsFiniteSet(T) /\ SumFunctionOnSet(f, T) \in Int
  BY SumIn, FS_Subset
<1>5. SumFunctionOnSet(f, m) = f[c] + SumFunctionOnSet(f, m \ {c})
  BY <1>2, <1>3, <1>4, SumStep
<1>6. CASE x = c
  BY <1>2, <1>5, <1>6
<1>7. CASE x # c
  <2> HIDE DEF c
  <2>1. m \ {c} \in SUBSET S /\ m \ {c} \notin W /\ x \in m \ {c}
    BY <1>1, <1>3, <1>7
  <2>2. SumFunctionOnSet(f, m \ {c}) = f[x] + SumFunctionOnSet(f, both)
    BY <2>1
  <2>3. m \ {x} \in SUBSET S /\ m \ {x} \notin W /\ c \in m \ {x}
    BY <1>1, <1>3, <1>7
  <2>4. (m \ {x}) \ {c} = both
    OBVIOUS
  <2>5. SumFunctionOnSet(f, m \ {x}) = f[c] + SumFunctionOnSet(f, both)
    BY <2>3, <2>4
  <2>6. f[x] \in Int /\ f[c] \in Int /\ SumFunctionOnSet(f, both) \in Int
    <3>1. both \in SUBSET S
      BY <1>3
    <3> HIDE DEF both
    <3> QED BY <1>3, <1>4, <3>1
  <2> HIDE DEF both
  <2> QED BY <1>2, <1>5, <2>2, <2>5, <2>6
<1> QED BY <1>6, <1>7

\* A member that is added adds its value.
LEMMA SumWith ==
  ASSUME NEW f, NEW S, IsFiniteSet(S), NEW e, e \notin S, \A x \in S \cup {e} : f[x] \in Int
  PROVE  SumFunctionOnSet(f, S \cup {e}) = f[e] + SumFunctionOnSet(f, S)
<1>1. IsFiniteSet(S \cup {e}) /\ (S \cup {e}) \ {e} = S
  BY FS_AddElement
<1> QED BY <1>1, SumWithout

\* The sum depends on the values at the members only.
LEMMA SumSame ==
  ASSUME NEW f, NEW g, NEW S, IsFiniteSet(S), \A x \in S : f[x] = g[x]
  PROVE  SumFunctionOnSet(f, S) = SumFunctionOnSet(g, S)
<1> DEFINE W == {T \in SUBSET S : SumFunctionOnSet(f, T) # SumFunctionOnSet(g, T)}
<1> SUFFICES ASSUME W # {} PROVE FALSE
  <2>1. S \in SUBSET S
    OBVIOUS
  <2> QED BY <2>1
<1>1. PICK m \in W : \A y \in W : y \subseteq m => y = m
  <2>1. W \subseteq SUBSET S
    OBVIOUS
  <2> HIDE DEF W
  <2> QED BY <2>1, SmallestSubset
<1>2. IsFiniteSet(m)
  BY FS_Subset
<1>3. CASE m = {}
  BY <1>3, SumOfNone
<1>4. CASE m # {}
  <2> DEFINE r == m \ {First(m)}
  <2>1. r \in SUBSET S /\ r \subseteq m /\ r # m /\ f[First(m)] = g[First(m)]
    BY <1>4, FirstIsIn
  <2>2. SumFunctionOnSet(f, r) = SumFunctionOnSet(g, r)
    BY <1>1, <2>1
  <2>3. /\ SumFunctionOnSet(f, m) = f[First(m)] + SumFunctionOnSet(f, r)
        /\ SumFunctionOnSet(g, m) = g[First(m)] + SumFunctionOnSet(g, r)
    BY <1>2, <1>4, SumStep
  <2> HIDE DEF r
  <2> QED BY <2>1, <2>2, <2>3
<1> QED BY <1>3, <1>4

\* One value that grows by n makes the sum grow by n.
LEMMA SumRaised ==
  ASSUME NEW f, NEW S, IsFiniteSet(S), \A x \in S : f[x] \in Int, NEW e \in S, NEW n \in Int,
         NEW g, g[e] = f[e] + n, \A x \in S \ {e} : g[x] = f[x]
  PROVE  SumFunctionOnSet(g, S) = SumFunctionOnSet(f, S) + n
<1> DEFINE r == S \ {e}
<1>1. IsFiniteSet(r) /\ \A x \in r : f[x] \in Int
  BY FS_RemoveElement
<1>2. SumFunctionOnSet(g, r) = SumFunctionOnSet(f, r) /\ SumFunctionOnSet(f, r) \in Int
  BY <1>1, SumSame, SumIn
<1>3. \A x \in S : g[x] \in Int
  OBVIOUS
<1>4. /\ SumFunctionOnSet(f, S) = f[e] + SumFunctionOnSet(f, r)
      /\ SumFunctionOnSet(g, S) = g[e] + SumFunctionOnSet(g, r)
  BY <1>3, SumWithout
<1> HIDE DEF r
<1> QED BY <1>2, <1>4

\* No natural number of a sum exceeds it.
LEMMA SumBounds ==
  ASSUME NEW f, NEW S, IsFiniteSet(S), \A x \in S : f[x] \in Nat, NEW e \in S
  PROVE  f[e] <= SumFunctionOnSet(f, S)
<1> DEFINE r == S \ {e}
<1>1. IsFiniteSet(r) /\ \A x \in r : f[x] \in Nat
  BY FS_RemoveElement
<1>2. SumFunctionOnSet(f, r) \in Nat
  BY <1>1, SumIn
<1>3. SumFunctionOnSet(f, S) = f[e] + SumFunctionOnSet(f, r)
  BY SumWithout
<1> HIDE DEF r
<1> QED BY <1>2, <1>3

\* Zeros add up to zero.
LEMMA SumOfZeros ==
  ASSUME NEW f, NEW S, IsFiniteSet(S), \A x \in S : f[x] = 0
  PROVE  SumFunctionOnSet(f, S) = 0
<1> DEFINE W == {T \in SUBSET S : SumFunctionOnSet(f, T) # 0}
<1> SUFFICES ASSUME W # {} PROVE FALSE
  <2>1. S \in SUBSET S
    OBVIOUS
  <2> QED BY <2>1
<1>1. PICK m \in W : \A y \in W : y \subseteq m => y = m
  <2>1. W \subseteq SUBSET S
    OBVIOUS
  <2> HIDE DEF W
  <2> QED BY <2>1, SmallestSubset
<1>2. m # {} /\ IsFiniteSet(m)
  BY FS_Subset, SumOfNone
<1> DEFINE r == m \ {First(m)}
<1>3. r \in SUBSET S /\ r \subseteq m /\ r # m /\ f[First(m)] = 0
  BY <1>2, FirstIsIn
<1>4. SumFunctionOnSet(f, r) = 0
  BY <1>1, <1>3
<1>5. SumFunctionOnSet(f, m) = f[First(m)] + SumFunctionOnSet(f, r)
  BY <1>2, SumStep
<1> HIDE DEF r
<1> QED BY <1>3, <1>4, <1>5

\* A function that takes no two members of a finite set to one value keeps its size.
LEMMA SameSize ==
  ASSUME NEW S, IsFiniteSet(S), NEW h, \A a, b \in S : h[a] = h[b] => a = b
  PROVE  /\ IsFiniteSet({h[x] : x \in S})
         /\ Cardinality({h[x] : x \in S}) = Cardinality(S)
<1> DEFINE T == {h[x] : x \in S}
           g == [x \in S |-> h[x]]
<1>1. g \in Bijection(S, T)
  <2>1. g \in [S -> T]
    OBVIOUS
  <2>2. \A a, b \in S : g[a] = g[b] => a = b
    OBVIOUS
  <2>3. \A y \in T : \E x \in S : g[x] = y
    OBVIOUS
  <2> QED BY <2>1, <2>2, <2>3 DEF Bijection, Injection, Surjection, IsInjective
<1>2. ExistsBijection(S, T)
  BY <1>1 DEF ExistsBijection
<1> QED BY <1>2, FS_Bijection

\* Members that are renamed, no two to one, carry their values with them.
LEMMA SumRenamed ==
  ASSUME NEW f, NEW S, IsFiniteSet(S), \A x \in S : f[x] \in Int,
         NEW h, \A a, b \in S : h[a] = h[b] => a = b,
         NEW g, \A x \in S : g[h[x]] = f[x]
  PROVE  SumFunctionOnSet(g, {h[x] : x \in S}) = SumFunctionOnSet(f, S)
<1> DEFINE Named(T) == {h[x] : x \in T}
           W == {T \in SUBSET S : SumFunctionOnSet(g, Named(T)) # SumFunctionOnSet(f, T)}
<1> SUFFICES ASSUME W # {} PROVE FALSE
  <2>1. S \in SUBSET S
    OBVIOUS
  <2> QED BY <2>1
<1>1. PICK m \in W : \A y \in W : y \subseteq m => y = m
  <2>1. W \subseteq SUBSET S
    OBVIOUS
  <2> HIDE DEF W
  <2> QED BY <2>1, SmallestSubset
<1>2. m # {}
  <2>1. Named({}) = {}
    OBVIOUS
  <2> HIDE DEF Named
  <2> QED BY <2>1, SumOfNone
<1> DEFINE c == First(m)
           r == m \ {c}
<1>3. c \in m /\ c \in S /\ r \in SUBSET S /\ r \subseteq m /\ r # m
  BY <1>2, FirstIsIn
<1>4. SumFunctionOnSet(g, Named(r)) = SumFunctionOnSet(f, r)
  <2> HIDE DEF r, Named
  <2> QED BY <1>1, <1>3
<1>5. Named(m) = Named(r) \cup {h[c]} /\ h[c] \notin Named(r)
  <2> HIDE DEF c
  <2> QED BY <1>3
<1>6. IsFiniteSet(m) /\ IsFiniteSet(Named(r))
  <2>1. IsFiniteSet(m) /\ IsFiniteSet(r)
    BY <1>3, FS_Subset
  <2>2. [x \in r |-> h[x]] \in Surjection(r, Named(r))
    <3> HIDE DEF r
    <3> QED BY DEF Surjection
  <2> HIDE DEF r, Named
  <2> QED BY <2>1, <2>2, FS_Surjection
<1>7. SumFunctionOnSet(g, Named(m)) = g[h[c]] + SumFunctionOnSet(g, Named(r))
  <2>1. \A y \in Named(r) \cup {h[c]} : g[y] \in Int
    BY <1>3
  <2> HIDE DEF Named, c, r
  <2> QED BY <1>5, <1>6, <2>1, SumWith
<1>8. SumFunctionOnSet(f, m) = f[c] + SumFunctionOnSet(f, r)
  <2> HIDE DEF c
  <2> QED BY <1>3, <1>6, SumWithout
<1> HIDE DEF r, Named, c
<1> QED BY <1>1, <1>3, <1>4, <1>7, <1>8
=============================================================================
