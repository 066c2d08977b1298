------------------------------- MODULE DataLemmas -------------------------------
(***************************************************************************)
(* Facts about the data operators of the models.  The theorems of the      *)
(* library that state induction take an operator; what is needed of it is  *)
(* derived here from a relation that is well founded, by way of a least    *)
(* element.                                                                *)
(***************************************************************************)
EXTENDS FiniteSetsExt, Functions, FiniteSetTheorems, TLAPS

(* A nonempty set of natural numbers has a least element: of the sets      *)
(* 0..(n - 1) for its numbers n one contains no other.                     *)
LEMMA MinProperty ==
    ASSUME NEW S \in SUBSET Nat, S # {}
    PROVE  Min(S) \in S /\ \A y \in S : Min(S) <= y
  <1> DEFINE below(n) == 0..(n - 1)
             T == {below(n) : n \in S}
  <1>1. T \subseteq FiniteSubsetsOf(Nat)
    <2> SUFFICES ASSUME NEW n \in S PROVE below(n) \in FiniteSubsetsOf(Nat)
      OBVIOUS
    <2>1. IsFiniteSet(below(n))
      BY FS_Interval
    <2> QED BY <2>1 DEF FiniteSubsetsOf
  <1>2. T # {}
    OBVIOUS
  <1>3. IsWellFoundedOn(StrictSubsetOrdering(Nat), FiniteSubsetsOf(Nat))
    BY FS_StrictSubsetOrderingWellFounded
  <1>4. \E b \in T : \A c \in T : <<c, b>> \notin StrictSubsetOrdering(Nat)
    <2> HIDE DEF T
    <2> QED BY <1>1, <1>2, <1>3, WFMin
  <1>5. PICK x \in S : \A c \in T : <<c, below(x)>> \notin StrictSubsetOrdering(Nat)
    BY <1>4
  <1>6. \A y \in S : x <= y
    <2> SUFFICES ASSUME NEW y \in S, y < x PROVE FALSE
      OBVIOUS
    <2>1. y \in below(x) /\ y \notin below(y)
      OBVIOUS
    <2>2. below(y) \subseteq below(x) /\ below(y) # below(x)
      BY <2>1
    <2>3. below(y) \in SUBSET Nat /\ below(x) \in SUBSET Nat /\ below(y) \in T
      OBVIOUS
    <2>4. <<below(y), below(x)>> \in StrictSubsetOrdering(Nat)
      <3> HIDE DEF below
      <3> QED BY <2>2, <2>3 DEF StrictSubsetOrdering
    <2> QED BY <2>3, <2>4, <1>5
  <1> QED BY <1>6 DEF Min

(* A nonempty set of natural numbers with a bound has a greatest element.  *)
LEMMA MaxProperty ==
    ASSUME NEW n \in Nat, NEW S \in SUBSET Nat, S # {}, \A x \in S : x <= n
    PROVE  Max(S) \in S /\ \A y \in S : y <= Max(S)
  <1> DEFINE T == {n - x : x \in S}
  <1>1. Min(T) \in T /\ \A t \in T : Min(T) <= t
    <2>1. T \in SUBSET Nat /\ T # {}
      <3>1. \A x \in S : n - x \in Nat
        OBVIOUS
      <3> QED BY <3>1
    <2> HIDE DEF T
    <2> QED BY <2>1, MinProperty
  <1>2. PICK x \in S : Min(T) = n - x
    BY <1>1
  <1>3. \A y \in S : y <= x
    <2> TAKE y \in S
    <2>1. n - x <= n - y
      BY <1>1, <1>2
    <2> QED BY <2>1
  <1> QED BY <1>3 DEF Max

-----------------------------------------------------------------------------
(* Sums over a finite set: SumFunctionOnSet is defined by a recursion that *)
(* takes the elements in an order of its own, and any other order will do. *)

(* Of some subsets of a finite set one contains no other. *)
LEMMA LeastSubset ==
    ASSUME NEW S, IsFiniteSet(S), NEW B \in SUBSET (SUBSET S), B # {}
    PROVE  \E T \in B : \A U \in SUBSET T : U # T => U \notin B
  <1>1. B \subseteq FiniteSubsetsOf(S)
    BY FS_Subset DEF FiniteSubsetsOf
  <1>2. IsWellFoundedOn(StrictSubsetOrdering(S), FiniteSubsetsOf(S))
    BY FS_StrictSubsetOrderingWellFounded
  <1>3. PICK T \in B : \A U \in B : <<U, T>> \notin StrictSubsetOrdering(S)
    BY <1>1, <1>2, WFMin
  <1>4. ASSUME NEW U \in SUBSET T, U # T, U \in B
        PROVE  FALSE
    <2>1. <<U, T>> \in StrictSubsetOrdering(S)
      BY <1>4 DEF StrictSubsetOrdering
    <2> QED BY <1>3, <1>4, <2>1
  <1> QED BY <1>4

(* The element the recursion takes of a set, one step of it, and what a    *)
(* function on the subsets of S must satisfy to be its result.             *)
Taken(s) == CHOOSE x \in s : TRUE

Summed(f, g, s) == IF s = {} THEN 0 ELSE f[Taken(s)] + g[s \ {Taken(s)}]

Sums(f, S, g) == g = [s \in SUBSET S |-> Summed(f, g, s)]

SumsOf(f, S) == CHOOSE g : Sums(f, S, g)

LEMMA SumIs ==
    ASSUME NEW f, NEW S
    PROVE  SumFunctionOnSet(f, S) = SumsOf(f, S)[S]
  BY DEF SumFunctionOnSet, FoldFunctionOnSet, MapThenFoldSet, SumsOf, Sums, Summed, Taken

LEMMA TakenIn ==
    ASSUME NEW s, s # {}
    PROVE  Taken(s) \in s /\ s \ {Taken(s)} \in SUBSET s /\ s \ {Taken(s)} # s
  <1>1. Taken(s) \in s
    BY DEF Taken
  <1> QED BY <1>1

LEMMA SumsUnique ==
    ASSUME NEW f, NEW S, IsFiniteSet(S), NEW g, Sums(f, S, g), NEW h, Sums(f, S, h)
    PROVE  g = h
  <1> DEFINE B == {s \in SUBSET S : g[s] # h[s]}
  <1>1. CASE B = {}
    BY <1>1 DEF Sums
  <1>2. CASE B # {}
    <2>1. PICK s \in B : \A u \in SUBSET s : u # s => u \notin B
      <3>1. B \in SUBSET (SUBSET S)
        OBVIOUS
      <3> HIDE DEF B
      <3> QED BY <1>2, <3>1, LeastSubset
    <2>2. g[s] = Summed(f, g, s) /\ h[s] = Summed(f, h, s) /\ s \in SUBSET S
      BY DEF Sums
    <2>3. s # {}
      BY <2>2 DEF Summed
    <2>4. g[s \ {Taken(s)}] = h[s \ {Taken(s)}]
      BY <2>1, <2>2, <2>3, TakenIn
    <2> QED BY <2>2, <2>3, <2>4 DEF Summed
  <1> QED BY <1>1, <1>2

LEMMA SumsRestricted ==
    ASSUME NEW f, NEW S, NEW g, Sums(f, S, g), NEW T \in SUBSET S
    PROVE  Sums(f, T, [s \in SUBSET T |-> g[s]])
  <1> DEFINE h == [s \in SUBSET T |-> g[s]]
  <1>1. ASSUME NEW s \in SUBSET T
        PROVE  h[s] = Summed(f, h, s)
    <2>1. g[s] = Summed(f, g, s) /\ h[s] = g[s]
      BY DEF Sums
    <2>2. s # {} => h[s \ {Taken(s)}] = g[s \ {Taken(s)}]
      BY TakenIn
    <2> QED BY <2>1, <2>2 DEF Summed
  <1> QED BY <1>1 DEF Sums

LEMMA SumsExist ==
    ASSUME NEW f, NEW S, IsFiniteSet(S)
    PROVE  Sums(f, S, SumsOf(f, S))
  <1> DEFINE B == {T \in SUBSET S : \A g : ~Sums(f, T, g)}
  <1>1. SUFFICES ASSUME B # {} PROVE FALSE
    BY DEF SumsOf
  <1>2. PICK T \in B : \A U \in SUBSET T : U # T => U \notin B
    <2>1. B \in SUBSET (SUBSET S)
      OBVIOUS
    <2> HIDE DEF B
    <2> QED BY <1>1, <2>1, LeastSubset
  <1>3. T \in SUBSET S /\ \A g : ~Sums(f, T, g)
    OBVIOUS
  <1>4. ASSUME NEW U \in SUBSET T, U # T
        PROVE  Sums(f, U, SumsOf(f, U)) /\ IsFiniteSet(U)
    <2>1. \E g : Sums(f, U, g)
      BY <1>2, <1>3, <1>4
    <2> QED BY <1>3, <2>1, FS_Subset DEF SumsOf
  <1> DEFINE g == [s \in SUBSET T |-> IF s = {} THEN 0
                                      ELSE f[Taken(s)] + SumsOf(f, s \ {Taken(s)})[s \ {Taken(s)}]]
  <1>5. ASSUME NEW s \in SUBSET T, s # T
        PROVE  g[s] = SumsOf(f, s)[s]
    <2> DEFINE h == SumsOf(f, s)
               r == s \ {Taken(s)}
    <2>1. Sums(f, s, h) /\ h[s] = Summed(f, h, s)
      BY <1>4, <1>5 DEF Sums
    <2>2. CASE s = {}
      BY <2>1, <2>2 DEF Summed
    <2>3. CASE s # {}
      <3>1. r \in SUBSET s /\ r \in SUBSET T /\ r # T
        BY <1>5, <2>3, TakenIn
      <3>2. Sums(f, r, [u \in SUBSET r |-> h[u]]) /\ Sums(f, r, SumsOf(f, r)) /\ IsFiniteSet(r)
        <4> HIDE DEF h, r
        <4> QED BY <1>4, <2>1, <3>1, SumsRestricted
      <3>3. [u \in SUBSET r |-> h[u]] = SumsOf(f, r)
        <4> HIDE DEF h, r
        <4> QED BY <3>2, SumsUnique
      <3>4. SumsOf(f, r)[r] = h[r]
        <4> HIDE DEF h, r
        <4>1. [u \in SUBSET r |-> h[u]][r] = h[r]
          OBVIOUS
        <4> QED BY <3>3, <4>1
      <3>5. h[s] = f[Taken(s)] + h[r]
        <4> HIDE DEF h
        <4> QED BY <2>1, <2>3 DEF Summed
      <3>6. g[s] = f[Taken(s)] + SumsOf(f, r)[r]
        BY <2>3
      <3> HIDE DEF g, h, r
      <3> QED BY <3>4, <3>5, <3>6 DEF h
    <2> QED BY <2>2, <2>3
  <1>6. ASSUME NEW s \in SUBSET T
        PROVE  g[s] = Summed(f, g, s)
    <2>1. CASE s = {}
      BY <2>1 DEF Summed
    <2>2. CASE s # {}
      <3> DEFINE r == s \ {Taken(s)}
      <3>1. r \in SUBSET T /\ r # T
        BY <2>2, TakenIn
      <3>2. g[r] = SumsOf(f, r)[r]
        <4> HIDE DEF g, r
        <4> QED BY <1>5, <3>1
      <3>3. g[s] = f[Taken(s)] + SumsOf(f, r)[r]
        BY <2>2
      <3> HIDE DEF g
      <3> QED BY <2>2, <3>2, <3>3 DEF Summed
    <2> QED BY <2>1, <2>2
  <1>7. g = [s \in SUBSET T |-> g[s]]
    OBVIOUS
  <1> HIDE DEF g
  <1>8. Sums(f, T, g)
    BY <1>6, <1>7 DEF Sums
  <1> QED BY <1>3, <1>8

LEMMA SumTaken ==
    ASSUME NEW f, NEW S, IsFiniteSet(S)
    PROVE  SumFunctionOnSet(f, S) =
             IF S = {} THEN 0
             ELSE f[Taken(S)] + SumFunctionOnSet(f, S \ {Taken(S)})
  <1> DEFINE h == SumsOf(f, S)
             r == S \ {Taken(S)}
  <1>1. Sums(f, S, h)
    BY SumsExist
  <1>2. h[S] = Summed(f, h, S)
    <2> HIDE DEF h
    <2> QED BY <1>1 DEF Sums
  <1>3. CASE S = {}
    BY <1>2, <1>3, SumIs DEF Summed
  <1>4. CASE S # {}
    <2>1. r \in SUBSET S /\ IsFiniteSet(r)
      BY FS_Subset
    <2> HIDE DEF h, r
    <2>2. Sums(f, r, [u \in SUBSET r |-> h[u]])
      BY <1>1, <2>1, SumsRestricted
    <2>3. [u \in SUBSET r |-> h[u]] = SumsOf(f, r)
      BY <2>1, <2>2, SumsExist, SumsUnique
    <2>4. [u \in SUBSET r |-> h[u]][r] = h[r]
      OBVIOUS
    <2>5. h[r] = SumFunctionOnSet(f, r)
      BY <2>3, <2>4, SumIs
    <2>6. h[S] = f[Taken(S)] + h[r]
      BY <1>2, <1>4 DEF Summed, r
    <2>7. SumFunctionOnSet(f, S) = h[S]
      BY SumIs DEF h
    <2> QED BY <1>4, <2>5, <2>6, <2>7 DEF r
  <1> QED BY <1>3, <1>4

LEMMA SumNat ==
    ASSUME NEW D, NEW f \in [D -> Nat], NEW S \in SUBSET D, IsFiniteSet(S)
    PROVE  SumFunctionOnSet(f, S) \in Nat
  <1> DEFINE B == {T \in SUBSET S : SumFunctionOnSet(f, T) \notin Nat}
  <1>1. SUFFICES ASSUME B # {} PROVE FALSE
    OBVIOUS
  <1>2. PICK T \in B : \A U \in SUBSET T : U # T => U \notin B
    <2>1. B \in SUBSET (SUBSET S)
      OBVIOUS
    <2> HIDE DEF B
    <2> QED BY <1>1, <2>1, LeastSubset
  <1>3. T \in SUBSET S /\ IsFiniteSet(T) /\ SumFunctionOnSet(f, T) \notin Nat
    BY FS_Subset
  <1>4. CASE T = {}
    <2>1. SumFunctionOnSet(f, T) = 0
      BY <1>3, <1>4, SumTaken
    <2> QED BY <1>3, <2>1
  <1>5. CASE T # {}
    <2>1. SumFunctionOnSet(f, T) = f[Taken(T)] + SumFunctionOnSet(f, T \ {Taken(T)})
      BY <1>3, <1>5, SumTaken
    <2>2. SumFunctionOnSet(f, T \ {Taken(T)}) \in Nat /\ f[Taken(T)] \in Nat
      BY <1>2, <1>3, <1>5, TakenIn
    <2> QED BY <1>3, <2>1, <2>2
  <1> QED BY <1>4, <1>5

(* Any element may be taken first. *)
LEMMA SumRemove ==
    ASSUME NEW D, NEW f \in [D -> Nat], NEW S \in SUBSET D, IsFiniteSet(S), NEW y \in S
    PROVE  SumFunctionOnSet(f, S) = f[y] + SumFunctionOnSet(f, S \ {y})
  <1> DEFINE sum(T) == SumFunctionOnSet(f, T)
             B == {T \in SUBSET S : \E z \in T : sum(T) # f[z] + sum(T \ {z})}
  <1>1. SUFFICES ASSUME B # {} PROVE FALSE
    OBVIOUS
  <1>2. PICK T \in B : \A U \in SUBSET T : U # T => U \notin B
    <2>1. B \in SUBSET (SUBSET S)
      OBVIOUS
    <2> HIDE DEF B
    <2> QED BY <1>1, <2>1, LeastSubset
  <1>3. PICK z \in T : sum(T) # f[z] + sum(T \ {z})
    OBVIOUS
  <1> DEFINE x == Taken(T)
  <1>4. T \in SUBSET S /\ IsFiniteSet(T)
    BY FS_Subset
  <1>5. x \in T /\ sum(T) = f[x] + sum(T \ {x})
    BY <1>4, SumTaken, TakenIn
  <1> HIDE DEF x
  <1>6. x # z
    BY <1>3, <1>5
  <1>7. sum(T \ {x}) = f[z] + sum((T \ {x}) \ {z})
    BY <1>2, <1>4, <1>5, <1>6
  <1>8. sum(T \ {z}) = f[x] + sum((T \ {z}) \ {x})
    BY <1>2, <1>4, <1>5, <1>6
  <1>9. (T \ {x}) \ {z} = (T \ {z}) \ {x}
    OBVIOUS
  <1>10. sum((T \ {x}) \ {z}) \in Nat /\ f[x] \in Nat /\ f[z] \in Nat
    <2>1. (T \ {x}) \ {z} \in SUBSET D /\ IsFiniteSet((T \ {x}) \ {z})
      BY <1>4, FS_Subset
    <2> QED BY <1>4, <1>5, <2>1, SumNat
  <1> HIDE DEF sum
  <1> QED BY <1>3, <1>5, <1>7, <1>8, <1>9, <1>10

LEMMA SumAdd ==
    ASSUME NEW D, NEW f \in [D -> Nat], NEW S \in SUBSET D, IsFiniteSet(S),
           NEW y \in D, y \notin S
    PROVE  SumFunctionOnSet(f, S \cup {y}) = f[y] + SumFunctionOnSet(f, S)
  <1>1. (S \cup {y}) \ {y} = S /\ S \cup {y} \in SUBSET D /\ IsFiniteSet(S \cup {y})
    BY FS_AddElement
  <1> QED BY <1>1, SumRemove

(* The sum is of the values on the set, whatever else the functions do. *)
LEMMA SumSame ==
    ASSUME NEW f, NEW g, NEW S, IsFiniteSet(S), \A x \in S : f[x] = g[x]
    PROVE  SumFunctionOnSet(f, S) = SumFunctionOnSet(g, S)
  <1> DEFINE B == {T \in SUBSET S : SumFunctionOnSet(f, T) # SumFunctionOnSet(g, T)}
  <1>1. SUFFICES ASSUME B # {} PROVE FALSE
    OBVIOUS
  <1>2. PICK T \in B : \A U \in SUBSET T : U # T => U \notin B
    <2>1. B \in SUBSET (SUBSET S)
      OBVIOUS
    <2> HIDE DEF B
    <2> QED BY <1>1, <2>1, LeastSubset
  <1>3. /\ T \in SUBSET S /\ IsFiniteSet(T)
        /\ SumFunctionOnSet(f, T) # SumFunctionOnSet(g, T)
    BY FS_Subset
  <1>4. T # {}
    BY <1>3, SumTaken
  <1>5. /\ Taken(T) \in T
        /\ SumFunctionOnSet(f, T \ {Taken(T)}) = SumFunctionOnSet(g, T \ {Taken(T)})
    BY <1>2, <1>3, <1>4, TakenIn
  <1> QED BY <1>3, <1>4, <1>5, SumTaken
=============================================================================
