----------------------------- MODULE FiniteSums -----------------------------
(***************************************************************************)
(* What SumFunctionOnSet, the sum of f[x] for the x of a finite set, is:   *)
(* the properties of a sum that the proofs need, from its definition as a  *)
(* fold that takes the elements in an unknown order.                       *)
(***************************************************************************)
EXTENDS Functions, FiniteSets, Integers, FiniteSetTheorems, WellFoundedInduction, TLAPS

\* The element the fold takes next, and one step of the fold.
Taken(s) == CHOOSE x \in s : TRUE
Step(f, g, s) == IF s = {} THEN 0 ELSE f[Taken(s)] + g[s \ {Taken(s)}]

\* g computes the fold for every subset of T.
Computes(f, g, T) == g = [s \in SUBSET T |-> Step(f, g, s)]

LEMMA SumIsFold ==
  ASSUME NEW f, NEW S
  PROVE  SumFunctionOnSet(f, S) = (CHOOSE g : Computes(f, g, S))[S]
BY Zenon DEF SumFunctionOnSet, FoldFunctionOnSet, MapThenFoldSet, Computes, Step, Taken

LEMMA TakenIn ==
  ASSUME NEW s, s # {}
  PROVE  Taken(s) \in s
BY Zenon DEF Taken

\* Every nonempty set of subsets of a finite set has a smallest one.
LEMMA Smallest ==
  ASSUME NEW S, IsFiniteSet(S), NEW B, B \subseteq SUBSET S, B # {}
  PROVE  \E s \in B : \A t \in B : ~(t \subseteq s /\ t # s)
<1>1. IsWellFoundedOn(StrictSubsetOrdering(S), SUBSET S)
  BY FS_StrictSubsetOrderingWellFounded, FS_FiniteSubsetsOfFinite
<1>2. \E s \in B : \A t \in B : ~(<<t, s>> \in StrictSubsetOrdering(S))
  BY <1>1, WFMin, Zenon
<1>3. ASSUME NEW s \in B, NEW t \in B, t \subseteq s, t # s
      PROVE  <<t, s>> \in StrictSubsetOrdering(S)
  BY <1>3 DEF StrictSubsetOrdering
<1> QED
  BY <1>2, <1>3

LEMMA ComputesStep ==
  ASSUME NEW f, NEW g, NEW T, Computes(f, g, T), NEW s, s \subseteq T
  PROVE  g[s] = Step(f, g, s)
<1>1. s \in SUBSET T
  OBVIOUS
<1> DEFINE h == [u \in SUBSET T |-> Step(f, g, u)]
<1>2. h[s] = Step(f, g, s)
  BY <1>1
<1>3. g = h
  BY DEF Computes
<1> HIDE DEF h
<1> QED
  BY <1>2, <1>3

\* Two computations agree where both are defined.
LEMMA ComputesUnique ==
  ASSUME NEW f, NEW T, NEW U, NEW g, NEW h, IsFiniteSet(T),
         Computes(f, g, T), Computes(f, h, U),
         NEW s, s \subseteq T, s \subseteq U
  PROVE  g[s] = h[s]
<1> DEFINE B == {t \in SUBSET s : g[t] # h[t]}
<1>1. SUFFICES ASSUME B # {} PROVE FALSE
  BY <1>1
<1>2. IsFiniteSet(s)
  BY FS_Subset
<1>3. PICK t \in B : \A u \in B : ~(u \subseteq t /\ u # t)
  <2>1. B \subseteq SUBSET s
    OBVIOUS
  <2> HIDE DEF B
  <2> QED
    BY <1>1, <1>2, <2>1, Smallest
<1>4. g[t] = Step(f, g, t) /\ h[t] = Step(f, h, t)
  BY ComputesStep
<1>5. CASE t = {}
  BY <1>4, <1>5 DEF Step
<1>6. CASE t # {}
  <2>1. Taken(t) \in t
    BY <1>6, TakenIn
  <2> DEFINE u == t \ {Taken(t)}
  <2>2. u \subseteq t /\ u # t /\ u \in SUBSET s
    BY <2>1
  <2>3. g[u] = h[u]
    BY <1>3, <2>2
  <2> QED
    BY <1>4, <1>6, <2>3 DEF Step
<1> QED
  BY <1>5, <1>6

\* The fold computes something: what it does for s depends on less than s.
LEMMA ComputesExists ==
  ASSUME NEW f, NEW S, IsFiniteSet(S)
  PROVE  \E g : Computes(f, g, S)
<1> DEFINE B == {t \in SUBSET S : \A g : ~Computes(f, g, t)}
<1>1. SUFFICES ASSUME B # {} PROVE FALSE
  BY <1>1
<1>2. PICK t \in B : \A u \in B : ~(u \subseteq t /\ u # t)
  <2>1. B \subseteq SUBSET S
    OBVIOUS
  <2> HIDE DEF B
  <2> QED
    BY <1>1, <2>1, Smallest
<1> DEFINE G(u) == CHOOSE g : Computes(f, g, u)
<1>3. ASSUME NEW u \in SUBSET t, u # t PROVE Computes(f, G(u), u)
  <2>1. u \in SUBSET S /\ u \notin B
    BY <1>2, <1>3
  <2>2. \E g : Computes(f, g, u)
    BY <2>1
  <2> QED
    BY <2>2, Zenon
<1> DEFINE g == [u \in SUBSET t |-> IF u = {} THEN 0
                   ELSE f[Taken(u)] + G(u \ {Taken(u)})[u \ {Taken(u)}]]
<1>4. ASSUME NEW u \in SUBSET t, u # t PROVE g[u] = G(u)[u]
  <2>1. G(u)[u] = Step(f, G(u), u)
    BY <1>3, <1>4, ComputesStep
  <2>2. CASE u = {}
    BY <2>1, <2>2 DEF Step
  <2>3. CASE u # {}
    <3> DEFINE v == u \ {Taken(u)}
    <3>1. Taken(u) \in u
      BY <2>3, TakenIn
    <3>2. v \in SUBSET t /\ v # t /\ v \subseteq u
      BY <3>1
    <3>3. Computes(f, G(v), v) /\ Computes(f, G(u), u)
      BY <1>3, <1>4, <3>2
    <3>4. IsFiniteSet(v)
      BY <3>2, FS_Subset
    <3> HIDE DEF G
    <3>5. G(v)[v] = G(u)[v]
      BY <3>2, <3>3, <3>4, ComputesUnique
    <3> QED
      BY <2>1, <2>3, <3>5 DEF Step
  <2> QED
    BY <2>2, <2>3
<1>5. ASSUME NEW u \in SUBSET t PROVE g[u] = Step(f, g, u)
  <2>1. CASE u = {}
    BY <2>1 DEF Step
  <2>2. CASE u # {}
    <3> DEFINE v == u \ {Taken(u)}
    <3>1. Taken(u) \in u
      BY <2>2, TakenIn
    <3>2. v \in SUBSET t /\ v # t
      BY <3>1
    <3>3. g[v] = G(v)[v]
      BY <1>4, <3>2
    <3>4. g[u] = f[Taken(u)] + G(v)[v]
      BY <2>2
    <3> HIDE DEF g, G
    <3> QED
      BY <2>2, <3>3, <3>4 DEF Step
  <2> QED
    BY <2>1, <2>2
<1>6. DOMAIN g = SUBSET t /\ g = [u \in SUBSET t |-> g[u]]
  OBVIOUS
<1>7. Computes(f, g, t)
  <2> HIDE DEF g
  <2> QED
    BY <1>5, <1>6 DEF Computes
<1> QED
  BY <1>2, <1>7

\* The sum over the part T of S, as the computation for S has it.
LEMMA SumComputed ==
  ASSUME NEW f, NEW S, IsFiniteSet(S)
  PROVE  \E g : \A T \in SUBSET S : /\ SumFunctionOnSet(f, T) = g[T]
                                    /\ g[T] = Step(f, g, T)
<1>1. PICK g : Computes(f, g, S)
  BY ComputesExists
<1>2. ASSUME NEW T \in SUBSET S PROVE SumFunctionOnSet(f, T) = g[T]
  <2> DEFINE h == CHOOSE x : Computes(f, x, T)
  <2>1. IsFiniteSet(T)
    BY FS_Subset
  <2>2. \E x : Computes(f, x, T)
    BY <2>1, ComputesExists
  <2>3. Computes(f, h, T)
    BY <2>2, Zenon
  <2>4. SumFunctionOnSet(f, T) = h[T]
    BY SumIsFold
  <2> HIDE DEF h
  <2> QED
    BY <1>1, <2>1, <2>3, <2>4, ComputesUnique
<1>3. ASSUME NEW T \in SUBSET S PROVE g[T] = Step(f, g, T)
  BY <1>1, ComputesStep
<1> QED
  BY <1>2, <1>3

LEMMA SumEmpty ==
  ASSUME NEW f
  PROVE  SumFunctionOnSet(f, {}) = 0
<1>1. IsFiniteSet({})
  BY FS_EmptySet
<1>2. PICK g : \A T \in SUBSET {} : /\ SumFunctionOnSet(f, T) = g[T]
                                    /\ g[T] = Step(f, g, T)
  BY <1>1, SumComputed
<1> QED
  BY <1>2 DEF Step

LEMMA SumTaken ==
  ASSUME NEW f, NEW S, IsFiniteSet(S), S # {}
  PROVE  SumFunctionOnSet(f, S) = f[Taken(S)] + SumFunctionOnSet(f, S \ {Taken(S)})
<1>1. PICK g : \A T \in SUBSET S : /\ SumFunctionOnSet(f, T) = g[T]
                                   /\ g[T] = Step(f, g, T)
  BY SumComputed
<1>2. S \in SUBSET S /\ S \ {Taken(S)} \in SUBSET S
  OBVIOUS
<1> QED
  BY <1>1, <1>2 DEF Step

LEMMA SumType ==
  ASSUME NEW S, IsFiniteSet(S), NEW f, \A x \in S : f[x] \in Int
  PROVE  SumFunctionOnSet(f, S) \in Int
<1> DEFINE B == {t \in SUBSET S : SumFunctionOnSet(f, t) \notin Int}
<1>1. SUFFICES ASSUME B # {} PROVE FALSE
  BY <1>1
<1>2. PICK t \in B : \A u \in B : ~(u \subseteq t /\ u # t)
  <2>1. B \subseteq SUBSET S
    OBVIOUS
  <2> HIDE DEF B
  <2> QED
    BY <1>1, <2>1, Smallest
<1>3. t # {}
  BY SumEmpty
<1>4. Taken(t) \in t /\ IsFiniteSet(t)
  BY <1>3, TakenIn, FS_Subset
<1>5. SumFunctionOnSet(f, t) = f[Taken(t)] + SumFunctionOnSet(f, t \ {Taken(t)})
  BY <1>3, <1>4, SumTaken
<1>6. SumFunctionOnSet(f, t \ {Taken(t)}) \in Int
  BY <1>2, <1>4
<1> QED
  BY <1>2, <1>4, <1>5, <1>6

\* The order in which the fold takes the elements does not matter.
LEMMA SumRemove ==
  ASSUME NEW S, IsFiniteSet(S), NEW f, \A x \in S : f[x] \in Int, NEW y \in S
  PROVE  SumFunctionOnSet(f, S) = f[y] + SumFunctionOnSet(f, S \ {y})
<1> DEFINE B == {t \in SUBSET S :
              \E z \in t : SumFunctionOnSet(f, t) # f[z] + SumFunctionOnSet(f, t \ {z})}
<1>1. SUFFICES ASSUME B # {} PROVE FALSE
  BY <1>1
<1>2. PICK t \in B : \A u \in B : ~(u \subseteq t /\ u # t)
  <2>1. B \subseteq SUBSET S
    OBVIOUS
  <2> HIDE DEF B
  <2> QED
    BY <1>1, <2>1, Smallest
<1>3. PICK z \in t : SumFunctionOnSet(f, t) # f[z] + SumFunctionOnSet(f, t \ {z})
  BY <1>2
<1> DEFINE x == Taken(t)
<1>4. x \in t /\ IsFiniteSet(t)
  BY <1>3, TakenIn, FS_Subset
<1>5. SumFunctionOnSet(f, t) = f[x] + SumFunctionOnSet(f, t \ {x})
  BY <1>3, <1>4, SumTaken
<1>6. z # x
  BY <1>3, <1>5
<1> HIDE DEF x
<1>7. SumFunctionOnSet(f, t \ {x}) = f[z] + SumFunctionOnSet(f, (t \ {x}) \ {z})
  <2>1. t \ {x} \notin B /\ t \ {x} \in SUBSET S
    BY <1>2, <1>4
  <2> QED
    BY <1>6, <2>1
<1>8. SumFunctionOnSet(f, t \ {z}) = f[x] + SumFunctionOnSet(f, (t \ {z}) \ {x})
  <2>1. t \ {z} \notin B /\ t \ {z} \in SUBSET S
    BY <1>2, <1>4
  <2> QED
    BY <1>4, <1>6, <2>1
<1>9. (t \ {x}) \ {z} = (t \ {z}) \ {x}
  OBVIOUS
<1>10. SumFunctionOnSet(f, (t \ {z}) \ {x}) \in Int
  <2>1. IsFiniteSet((t \ {z}) \ {x})
    BY <1>4, FS_Subset
  <2> QED
    BY <2>1, SumType
<1>11. f[x] \in Int /\ f[z] \in Int
  BY <1>4
<1> DEFINE r == SumFunctionOnSet(f, (t \ {z}) \ {x})
<1>12. f[x] + (f[z] + r) = f[z] + (f[x] + r)
  BY <1>10, <1>11
<1> HIDE DEF B, r
<1> QED
  BY <1>3, <1>5, <1>7, <1>8, <1>9, <1>12 DEF r
LEMMA SumAdd ==
  ASSUME NEW S, IsFiniteSet(S), NEW f, \A x \in S : f[x] \in Int,
         NEW y, y \notin S, f[y] \in Int
  PROVE  SumFunctionOnSet(f, S \cup {y}) = f[y] + SumFunctionOnSet(f, S)
<1> DEFINE T == S \cup {y}
<1>1. IsFiniteSet(T)
  BY FS_AddElement
<1>2. y \in T /\ T \ {y} = S /\ \A x \in T : f[x] \in Int
  OBVIOUS
<1> HIDE DEF T
<1>3. SumFunctionOnSet(f, T) = f[y] + SumFunctionOnSet(f, T \ {y})
  BY <1>1, <1>2, SumRemove
<1> QED
  BY <1>2, <1>3 DEF T

LEMMA SumSingleton ==
  ASSUME NEW f, NEW y, f[y] \in Int
  PROVE  SumFunctionOnSet(f, {y}) = f[y]
<1>1. IsFiniteSet({}) /\ {} \cup {y} = {y}
  BY FS_EmptySet
<1>2. SumFunctionOnSet(f, {} \cup {y}) = f[y] + SumFunctionOnSet(f, {})
  BY <1>1, SumAdd
<1> QED
  BY <1>1, <1>2, SumEmpty

\* A property of subsets that the empty set has, and that a set has when it has
\* an element without which it has it, is a property of the whole set.  (The
\* property is the set P of the subsets that have it.)
LEMMA Grows ==
  ASSUME NEW S, IsFiniteSet(S), NEW P, {} \in P,
         \A t \in SUBSET S : (\E x \in t : t \ {x} \in P) => t \in P
  PROVE  S \in P
<1> DEFINE B == {t \in SUBSET S : t \notin P}
<1>1. SUFFICES ASSUME B # {} PROVE FALSE
  BY <1>1
<1>2. PICK t \in B : \A u \in B : ~(u \subseteq t /\ u # t)
  <2>1. B \subseteq SUBSET S
    OBVIOUS
  <2> HIDE DEF B
  <2> QED
    BY <1>1, <2>1, Smallest
<1>3. PICK x \in t : TRUE
  <2>1. t \notin P
    OBVIOUS
  <2>2. t # {}
    BY <2>1
  <2> QED
    BY <2>2
<1>4. t \ {x} \in P
  BY <1>2, <1>3
<1> QED
  BY <1>2, <1>3, <1>4

\* Sums of functions that agree on the set.
LEMMA SumSame ==
  ASSUME NEW S, IsFiniteSet(S), NEW f, NEW g,
         \A x \in S : f[x] \in Int /\ g[x] = f[x]
  PROVE  SumFunctionOnSet(g, S) = SumFunctionOnSet(f, S)
<1> DEFINE P == {t \in SUBSET S : SumFunctionOnSet(g, t) = SumFunctionOnSet(f, t)}
<1>1. {} \in P
  BY SumEmpty
<1>2. ASSUME NEW t \in SUBSET S, NEW x \in t, t \ {x} \in P PROVE t \in P
  <2>1. IsFiniteSet(t) /\ \A y \in t : f[y] \in Int /\ g[y] \in Int
    BY FS_Subset
  <2>2. /\ SumFunctionOnSet(f, t) = f[x] + SumFunctionOnSet(f, t \ {x})
        /\ SumFunctionOnSet(g, t) = g[x] + SumFunctionOnSet(g, t \ {x})
    BY <2>1, SumRemove
  <2> QED
    BY <1>2, <2>2
<1> HIDE DEF P
<1>3. S \in P
  BY <1>1, <1>2, Grows
<1> QED
  BY <1>3 DEF P

\* Parts that have nothing in common.
LEMMA SumUnion ==
  ASSUME NEW S, IsFiniteSet(S), NEW T, IsFiniteSet(T), S \cap T = {},
         NEW f, \A x \in S \cup T : f[x] \in Int
  PROVE  SumFunctionOnSet(f, S \cup T) = SumFunctionOnSet(f, S) + SumFunctionOnSet(f, T)
<1> DEFINE P == {t \in SUBSET T :
              SumFunctionOnSet(f, S \cup t) = SumFunctionOnSet(f, S) + SumFunctionOnSet(f, t)}
<1>1. SumFunctionOnSet(f, S) \in Int
  BY SumType
<1>2. {} \in P
  <2>1. S \cup {} = S
    OBVIOUS
  <2> QED
    BY <1>1, <2>1, SumEmpty
<1>3. ASSUME NEW t \in SUBSET T, NEW x \in t, t \ {x} \in P PROVE t \in P
  <2> DEFINE r == t \ {x}
  <2>1. IsFiniteSet(r) /\ \A y \in r : f[y] \in Int
    BY FS_Subset
  <2>2. IsFiniteSet(S \cup r) /\ \A y \in S \cup r : f[y] \in Int
    BY <2>1, FS_Union
  <2>3. x \notin r /\ x \notin S \cup r /\ f[x] \in Int
    BY <1>3
  <2>4. r \cup {x} = t /\ (S \cup r) \cup {x} = S \cup t
    BY <1>3
  <2>7. SumFunctionOnSet(f, S \cup r) = SumFunctionOnSet(f, S) + SumFunctionOnSet(f, r)
    BY <1>3
  <2> HIDE DEF r
  <2>5. SumFunctionOnSet(f, r \cup {x}) = f[x] + SumFunctionOnSet(f, r)
    BY <2>1, <2>3, SumAdd
  <2>6. SumFunctionOnSet(f, (S \cup r) \cup {x}) = f[x] + SumFunctionOnSet(f, S \cup r)
    BY <2>2, <2>3, SumAdd
  <2>8. SumFunctionOnSet(f, r) \in Int
    BY <2>1, SumType
  <2>9. /\ SumFunctionOnSet(f, S \cup t) = f[x] + SumFunctionOnSet(f, S \cup r)
        /\ SumFunctionOnSet(f, t) = f[x] + SumFunctionOnSet(f, r)
    BY <2>4, <2>5, <2>6
  <2>10. SumFunctionOnSet(f, S \cup t) = SumFunctionOnSet(f, S) + SumFunctionOnSet(f, t)
    BY <1>1, <2>3, <2>7, <2>8, <2>9
  <2> QED
    BY <2>10
<1> HIDE DEF P
<1>4. T \in P
  BY <1>2, <1>3, Grows
<1> QED
  BY <1>4 DEF P

\* No term above n, no sum above n times the number of terms.
LEMMA SumAtMost ==
  ASSUME NEW S, IsFiniteSet(S), NEW n \in Nat, NEW f, \A x \in S : f[x] \in 0 .. n
  PROVE  SumFunctionOnSet(f, S) \in 0 .. Cardinality(S) * n
<1> DEFINE P == {t \in SUBSET S : SumFunctionOnSet(f, t) \in 0 .. Cardinality(t) * n}
<1>1. {} \in P
  BY SumEmpty, FS_EmptySet
<1>2. ASSUME NEW t \in SUBSET S, NEW x \in t, t \ {x} \in P PROVE t \in P
  <2> DEFINE r == t \ {x}
  <2>1. IsFiniteSet(t) /\ \A y \in t : f[y] \in Int
    BY FS_Subset
  <2>2. SumFunctionOnSet(f, t) = f[x] + SumFunctionOnSet(f, r)
    BY <2>1, SumRemove
  <2>3. IsFiniteSet(r) /\ Cardinality(r) = Cardinality(t) - 1
    BY <2>1, FS_RemoveElement
  <2>4. Cardinality(r) \in Nat /\ Cardinality(t) = Cardinality(r) + 1
    BY <2>1, <2>3, FS_CardinalityType
  <2>5. f[x] \in 0 .. n /\ SumFunctionOnSet(f, r) \in 0 .. Cardinality(r) * n
    BY <1>2
  <2> HIDE DEF r
  <2>6. (Cardinality(r) + 1) * n = Cardinality(r) * n + n /\ Cardinality(r) * n \in Nat
    BY <2>4
  <2>7. SumFunctionOnSet(f, t) \in 0 .. (Cardinality(r) + 1) * n
    BY <2>2, <2>5, <2>6
  <2> QED
    BY <2>4, <2>7
<1> HIDE DEF P
<1>3. S \in P
  BY <1>1, <1>2, Grows
<1> QED
  BY <1>3 DEF P

LEMMA SumNat ==
  ASSUME NEW S, IsFiniteSet(S), NEW f, \A x \in S : f[x] \in Nat
  PROVE  SumFunctionOnSet(f, S) \in Nat
<1> DEFINE P == {t \in SUBSET S : SumFunctionOnSet(f, t) \in Nat}
<1>1. {} \in P
  BY SumEmpty
<1>2. ASSUME NEW t \in SUBSET S, NEW x \in t, t \ {x} \in P PROVE t \in P
  <2>1. IsFiniteSet(t) /\ \A y \in t : f[y] \in Int
    BY FS_Subset
  <2>2. SumFunctionOnSet(f, t) = f[x] + SumFunctionOnSet(f, t \ {x})
    BY <2>1, SumRemove
  <2> QED
    BY <1>2, <2>2
<1> HIDE DEF P
<1>3. S \in P
  BY <1>1, <1>2, Grows
<1> QED
  BY <1>3 DEF P

LEMMA SumNotPositive ==
  ASSUME NEW S, IsFiniteSet(S), NEW f, \A x \in S : f[x] \in Int /\ f[x] <= 0
  PROVE  SumFunctionOnSet(f, S) \in Int /\ SumFunctionOnSet(f, S) <= 0
<1> DEFINE P == {t \in SUBSET S : /\ SumFunctionOnSet(f, t) \in Int
                                  /\ SumFunctionOnSet(f, t) <= 0}
<1>1. {} \in P
  BY SumEmpty
<1>2. ASSUME NEW t \in SUBSET S, NEW x \in t, t \ {x} \in P PROVE t \in P
  <2>1. IsFiniteSet(t) /\ \A y \in t : f[y] \in Int
    BY FS_Subset
  <2>2. SumFunctionOnSet(f, t) = f[x] + SumFunctionOnSet(f, t \ {x})
    BY <2>1, SumRemove
  <2> QED
    BY <1>2, <2>2
<1> HIDE DEF P
<1>3. S \in P
  BY <1>1, <1>2, Grows
<1> QED
  BY <1>3 DEF P

\* A part and the rest.
LEMMA SumPart ==
  ASSUME NEW S, IsFiniteSet(S), NEW T, T \subseteq S, NEW f, \A x \in S : f[x] \in Int
  PROVE  SumFunctionOnSet(f, S) = SumFunctionOnSet(f, T) + SumFunctionOnSet(f, S \ T)
<1>1. IsFiniteSet(T) /\ IsFiniteSet(S \ T) /\ T \cap (S \ T) = {} /\ T \cup (S \ T) = S
  BY FS_Subset
<1> DEFINE R == S \ T
<1>2. \A x \in T \cup R : f[x] \in Int
  BY <1>1
<1> HIDE DEF R
<1>3. SumFunctionOnSet(f, T \cup R) = SumFunctionOnSet(f, T) + SumFunctionOnSet(f, R)
  BY <1>1, <1>2, SumUnion DEF R
<1> QED
  BY <1>1, <1>3 DEF R

\* Terms that are not negative.
LEMMA SumGrows ==
  ASSUME NEW S, IsFiniteSet(S), NEW T, T \subseteq S, NEW f, \A x \in S : f[x] \in Nat
  PROVE  SumFunctionOnSet(f, T) <= SumFunctionOnSet(f, S)
<1>1. SumFunctionOnSet(f, S) = SumFunctionOnSet(f, T) + SumFunctionOnSet(f, S \ T)
  BY SumPart
<1>2. IsFiniteSet(T) /\ IsFiniteSet(S \ T)
  BY FS_Subset
<1>3. SumFunctionOnSet(f, T) \in Nat /\ SumFunctionOnSet(f, S \ T) \in Nat
  BY <1>2, SumNat
<1> QED
  BY <1>1, <1>3

\* What a function makes of a finite set is finite.
LEMMA FiniteImage ==
  ASSUME NEW S, IsFiniteSet(S), NEW h
  PROVE  IsFiniteSet({h[x] : x \in S})
<1> DEFINE image(t) == {h[x] : x \in t}
           P == {t \in SUBSET S : IsFiniteSet(image(t))}
<1>1. {} \in P
  <2>1. image({}) = {}
    OBVIOUS
  <2> QED
    BY <2>1, FS_EmptySet
<1>2. ASSUME NEW t \in SUBSET S, NEW x \in t, t \ {x} \in P PROVE t \in P
  <2> DEFINE r == image(t \ {x})
  <2>1. IsFiniteSet(r)
    BY <1>2
  <2>2. image(t) = r \cup {h[x]}
    OBVIOUS
  <2> HIDE DEF r, image
  <2>3. IsFiniteSet(image(t))
    BY <2>1, <2>2, FS_AddElement
  <2> QED
    BY <2>3
<1> HIDE DEF P
<1>3. S \in P
  BY <1>1, <1>2, Grows
<1> QED
  BY <1>3 DEF P

\* The same terms under other names.
LEMMA SumImage ==
  ASSUME NEW S, IsFiniteSet(S), NEW f, NEW g, NEW h,
         \A x \in S : f[x] \in Int /\ g[h[x]] = f[x],
         \A x, y \in S : h[x] = h[y] => x = y
  PROVE  /\ IsFiniteSet({h[x] : x \in S})
         /\ SumFunctionOnSet(g, {h[x] : x \in S}) = SumFunctionOnSet(f, S)
<1> DEFINE image(t) == {h[x] : x \in t}
           P == {t \in SUBSET S : SumFunctionOnSet(g, image(t)) = SumFunctionOnSet(f, t)}
<1>0. \A t \in SUBSET S : IsFiniteSet(image(t))
  BY FS_Subset, FiniteImage
<1>1. {} \in P
  <2>1. image({}) = {}
    OBVIOUS
  <2> QED
    BY <2>1, SumEmpty
<1>2. ASSUME NEW t \in SUBSET S, NEW x \in t, t \ {x} \in P PROVE t \in P
  <2> DEFINE r == t \ {x}
  <2>1. IsFiniteSet(t) /\ \A y \in t : f[y] \in Int
    BY FS_Subset
  <2>2. SumFunctionOnSet(f, t) = f[x] + SumFunctionOnSet(f, r)
    BY <2>1, SumRemove
  <2>3. IsFiniteSet(image(r)) /\ SumFunctionOnSet(g, image(r)) = SumFunctionOnSet(f, r)
    BY <1>0, <1>2
  <2>4. image(t) = image(r) \cup {h[x]} /\ h[x] \notin image(r)
    OBVIOUS
  <2>5. g[h[x]] = f[x] /\ f[x] \in Int /\ \A z \in image(r) : g[z] \in Int
    OBVIOUS
  <2> HIDE DEF r, image
  <2>7. SumFunctionOnSet(g, image(r) \cup {h[x]}) = g[h[x]] + SumFunctionOnSet(g, image(r))
    BY <2>3, <2>4, <2>5, SumAdd
  <2>8. SumFunctionOnSet(g, image(t)) = SumFunctionOnSet(f, t)
    BY <2>2, <2>3, <2>4, <2>5, <2>7
  <2> QED
    BY <2>8
<1> HIDE DEF P
<1>3. S \in P
  BY <1>1, <1>2, Grows
<1> QED
  BY <1>0, <1>3 DEF P

-----------------------------------------------------------------------------
(* Finite sets of numbers, and of elements with numbers.                   *)

\* One of a finite set has the greatest number.
LEMMA Greatest ==
  ASSUME NEW S, IsFiniteSet(S), S # {}, NEW f, \A x \in S : f[x] \in Int
  PROVE  \E x \in S : \A y \in S : f[y] <= f[x]
<1> DEFINE above(x) == {y \in S : f[y] > f[x]}
           B        == {above(x) : x \in S}
<1>1. PICK s \in B : \A t \in B : ~(t \subseteq s /\ t # s)
  <2>1. B \subseteq SUBSET S /\ B # {}
    OBVIOUS
  <2> HIDE DEF B
  <2> QED
    BY <2>1, Smallest
<1>2. PICK x \in S : s = above(x)
  OBVIOUS
<1>3. ASSUME NEW y \in S, f[y] > f[x] PROVE FALSE
  <2>1. y \in above(x) /\ y \notin above(y) /\ above(y) \subseteq above(x)
    BY <1>3
  <2>2. above(y) \in B
    OBVIOUS
  <2> QED
    BY <1>1, <1>2, <2>1, <2>2
<1> QED
  BY <1>3
=============================================================================
