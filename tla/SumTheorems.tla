------------------------------ MODULE SumTheorems ------------------------------
(***************************************************************************)
(* Sums over finite sets, for the components that add up payments or       *)
(* marks.  SumFunctionOnSet is a recursive function that takes the summands *)
(* in an order of its own; what is needed of it is that the order does not *)
(* matter.                                                                 *)
(*                                                                         *)
(* Every induction here is the search for a smallest counterexample: the   *)
(* subsets of a finite set are well founded, so a class of them that is    *)
(* not empty has a member no other member is part of.                      *)
(***************************************************************************)
EXTENDS Integers, FiniteSetsExt, FiniteSetTheorems, TLAPS

First(S) == CHOOSE x \in S : TRUE
Rest(S) == S \ {First(S)}

\* g adds up f over every part of S, in the order of the recursion.
Adds(g, f, S) == g = [T \in SUBSET S |-> IF T = {} THEN 0 ELSE f[First(T)] + g[Rest(T)]]
Adder(f, S) == CHOOSE g : Adds(g, f, S)

LEMMA SumIsAdder ==
  ASSUME NEW f, NEW S
  PROVE  SumFunctionOnSet(f, S) = Adder(f, S)[S]
BY DEF SumFunctionOnSet, FoldFunctionOnSet, MapThenFoldSet, Adder, Adds, First, Rest

LEMMA Smallest ==
  ASSUME NEW S, IsFiniteSet(S), NEW C, C \subseteq SUBSET S, C # {}
  PROVE  \E T \in C : \A U \in C : U \subseteq T => U = T
<1>1. IsWellFoundedOn(StrictSubsetOrdering(S), SUBSET S)
  BY FS_StrictSubsetOrderingWellFounded, FS_FiniteSubsetsOfFinite
<1>2. PICK T \in C : \A U \in C : ~ (<<U, T>> \in StrictSubsetOrdering(S))
  BY <1>1, WFMin
<1>3. ASSUME NEW U \in C, U \subseteq T PROVE U = T
  BY <1>2, <1>3 DEF StrictSubsetOrdering
<1> QED BY <1>3

LEMMA RestIsLess ==
  ASSUME NEW T, T # {}
  PROVE  First(T) \in T /\ Rest(T) \subseteq T /\ Rest(T) # T
BY DEF First, Rest

LEMMA AddsAt ==
  ASSUME NEW f, NEW S, NEW g, Adds(g, f, S), NEW T \in SUBSET S
  PROVE  g[T] = IF T = {} THEN 0 ELSE f[First(T)] + g[Rest(T)]
BY Zenon DEF Adds

\* Two functions that add up f agree where both are defined.
LEMMA AddersAgree ==
  ASSUME NEW f, NEW A, NEW B, IsFiniteSet(A),
         NEW g, Adds(g, f, A), NEW h, Adds(h, f, B),
         NEW T0, T0 \subseteq A, T0 \subseteq B
  PROVE  g[T0] = h[T0]
<1> DEFINE C == {T \in SUBSET A : T \subseteq B /\ g[T] # h[T]}
<1>1. SUFFICES ASSUME C # {} PROVE FALSE
  OBVIOUS
<1>2. PICK T \in C : \A U \in C : U \subseteq T => U = T
  <2>1. C \subseteq SUBSET A
    OBVIOUS
  <2> HIDE DEF C
  <2> QED BY <1>1, <2>1, Smallest
<1>3. T # {}
  BY AddsAt
<1>4. g[Rest(T)] = h[Rest(T)]
  BY <1>2, <1>3, RestIsLess
<1>5. g[T] = f[First(T)] + g[Rest(T)] /\ h[T] = f[First(T)] + h[Rest(T)]
  BY <1>3, AddsAt
<1> QED BY <1>4, <1>5

\* There is such a function on every finite set.
LEMMA AdderExists ==
  ASSUME NEW f, NEW S, IsFiniteSet(S)
  PROVE  Adds(Adder(f, S), f, S)
<1> DEFINE C == {T \in SUBSET S : ~ \E g : Adds(g, f, T)}
<1>1. SUFFICES ASSUME C # {} PROVE FALSE
  <2>1. \E g : Adds(g, f, S)
    BY <1>1
  <2> QED BY <2>1 DEF Adder
<1>2. PICK T \in C : \A U \in C : U \subseteq T => U = T
  <2>1. C \subseteq SUBSET S
    OBVIOUS
  <2> HIDE DEF C
  <2> QED BY <1>1, <2>1, Smallest
<1>3. ASSUME NEW U \in SUBSET T, U # T PROVE Adds(Adder(f, U), f, U)
  <2>1. \E g : Adds(g, f, U)
    BY <1>2, <1>3
  <2> QED BY <2>1 DEF Adder
<1> DEFINE At(U) == IF U = {} THEN 0 ELSE f[First(U)] + Adder(f, Rest(U))[Rest(U)]
           G == [U \in SUBSET T |-> At(U)]
<1>4. ASSUME NEW W \in SUBSET T, W # T PROVE At(W) = Adder(f, W)[W]
  <2>1. Adds(Adder(f, W), f, W)
    BY <1>3, <1>4
  <2>2. CASE W = {}
    BY <2>1, <2>2, AddsAt
  <2>3. CASE W # {}
    <3>1. Rest(W) \in SUBSET T /\ Rest(W) # T /\ Rest(W) \subseteq W
      BY <2>3, RestIsLess
    <3>2. Adds(Adder(f, Rest(W)), f, Rest(W))
      BY <1>3, <3>1
    <3>3. IsFiniteSet(Rest(W))
      BY <3>1, FS_Subset
    <3>4. Adder(f, Rest(W))[Rest(W)] = Adder(f, W)[Rest(W)]
      BY <2>1, <3>1, <3>2, <3>3, AddersAgree
    <3>5. Adder(f, W)[W] = f[First(W)] + Adder(f, W)[Rest(W)]
      BY <2>1, <2>3, AddsAt
    <3> QED BY <2>3, <3>4, <3>5
  <2> QED BY <2>2, <2>3
<1>5. ASSUME NEW U \in SUBSET T PROVE At(U) = IF U = {} THEN 0 ELSE f[First(U)] + G[Rest(U)]
  <2>1. CASE U = {}
    BY <2>1
  <2>2. CASE U # {}
    <3>1. Rest(U) \in SUBSET T /\ Rest(U) # T
      BY <2>2, RestIsLess
    <3>2. G[Rest(U)] = Adder(f, Rest(U))[Rest(U)]
      BY <3>1, <1>4
    <3> QED BY <2>2, <3>2
  <2> QED BY <2>1, <2>2
<1>6. Adds(G, f, T)
  BY <1>5 DEF Adds
<1> QED BY <1>2, <1>6

----------------------------------------------------------------------------
LEMMA SumOfNone ==
  ASSUME NEW f
  PROVE  SumFunctionOnSet(f, {}) = 0
BY AdderExists, FS_EmptySet, AddsAt, SumIsAdder

LEMMA SumByFirst ==
  ASSUME NEW f, NEW S, IsFiniteSet(S), S # {}
  PROVE  SumFunctionOnSet(f, S) = f[First(S)] + SumFunctionOnSet(f, Rest(S))
<1>1. Rest(S) \subseteq S /\ IsFiniteSet(Rest(S))
  BY RestIsLess, FS_Subset
<1>2. Adder(f, S)[Rest(S)] = Adder(f, Rest(S))[Rest(S)]
  BY <1>1, AdderExists, AddersAgree
<1>3. Adder(f, S)[S] = f[First(S)] + Adder(f, S)[Rest(S)]
  BY AdderExists, AddsAt
<1> QED BY <1>2, <1>3, SumIsAdder

LEMMA SumIsNat ==
  ASSUME NEW f, NEW S, IsFiniteSet(S), \A x \in S : f[x] \in Nat
  PROVE  SumFunctionOnSet(f, S) \in Nat
<1> DEFINE C == {T \in SUBSET S : SumFunctionOnSet(f, T) \notin Nat}
<1>1. SUFFICES ASSUME C # {} PROVE FALSE
  OBVIOUS
<1>2. PICK T \in C : \A U \in C : U \subseteq T => U = T
  <2>1. C \subseteq SUBSET S
    OBVIOUS
  <2> HIDE DEF C
  <2> QED BY <1>1, <2>1, Smallest
<1>3. T # {}
  BY SumOfNone
<1>4. First(T) \in S /\ SumFunctionOnSet(f, Rest(T)) \in Nat
  BY <1>2, <1>3, RestIsLess
<1>5. SumFunctionOnSet(f, T) = f[First(T)] + SumFunctionOnSet(f, Rest(T))
  BY <1>3, SumByFirst, FS_Subset
<1> QED BY <1>4, <1>5

\* Any summand may be taken out first.
THEOREM SumTakesOut ==
  ASSUME NEW f, NEW S, IsFiniteSet(S), \A x \in S : f[x] \in Nat, NEW x \in S
  PROVE  SumFunctionOnSet(f, S) = f[x] + SumFunctionOnSet(f, S \ {x})
<1> DEFINE Sum(T) == SumFunctionOnSet(f, T)
           C == {T \in SUBSET S : \E y \in T : Sum(T) # f[y] + Sum(T \ {y})}
<1> HIDE DEF Sum
<1>1. SUFFICES ASSUME C # {} PROVE FALSE
  BY DEF Sum
<1>2. PICK T \in C : \A U \in C : U \subseteq T => U = T
  <2>1. C \subseteq SUBSET S
    OBVIOUS
  <2> HIDE DEF C
  <2> QED BY <1>1, <2>1, Smallest
<1>3. PICK y \in T : Sum(T) # f[y] + Sum(T \ {y})
  BY <1>2
<1> DEFINE c == First(T)
<1>4. c \in T /\ IsFiniteSet(T) /\ T # {}
  BY <1>3, RestIsLess, FS_Subset
<1>5. Sum(T) = f[c] + Sum(T \ {c})
  BY <1>4, SumByFirst DEF Sum, Rest
<1>6. y # c
  BY <1>3, <1>5
<1> HIDE DEF c
<1>13. ASSUME NEW z \in T, NEW u \in T \ {z} PROVE Sum(T \ {z}) = f[u] + Sum((T \ {z}) \ {u})
  <2>1. T \ {z} \in SUBSET S /\ T \ {z} \subseteq T /\ T \ {z} # T
    OBVIOUS
  <2>2. T \ {z} \notin C
    BY <1>2, <2>1
  <2> QED BY <2>1, <2>2
<1>7. Sum(T \ {c}) = f[y] + Sum((T \ {c}) \ {y})
  BY <1>4, <1>6, <1>13
<1>8. Sum(T \ {y}) = f[c] + Sum((T \ {y}) \ {c})
  BY <1>4, <1>6, <1>13
<1>9. (T \ {c}) \ {y} = (T \ {y}) \ {c}
  OBVIOUS
<1>10. IsFiniteSet((T \ {y}) \ {c}) /\ \A z \in (T \ {y}) \ {c} : f[z] \in Nat
  BY <1>4, FS_Subset
<1>11. Sum((T \ {y}) \ {c}) \in Nat
  BY <1>10, SumIsNat DEF Sum
<1>12. f[c] \in Nat /\ f[y] \in Nat
  BY <1>4
<1>14. f[c] + (f[y] + Sum((T \ {y}) \ {c})) = f[y] + (f[c] + Sum((T \ {y}) \ {c}))
  BY <1>11, <1>12
<1>15. Sum(T) = f[y] + Sum(T \ {y})
  BY Zenon, <1>5, <1>7, <1>8, <1>9, <1>14
<1> QED BY <1>3, <1>15

\* One summand more adds just that summand.
THEOREM SumPutsIn ==
  ASSUME NEW f, NEW S, IsFiniteSet(S), NEW x, x \notin S, \A y \in S \cup {x} : f[y] \in Nat
  PROVE  SumFunctionOnSet(f, S \cup {x}) = SumFunctionOnSet(f, S) + f[x]
<1>1. (S \cup {x}) \ {x} = S /\ x \in S \cup {x} /\ IsFiniteSet(S \cup {x})
  BY FS_AddElement
<1>2. SumFunctionOnSet(f, S \cup {x}) = f[x] + SumFunctionOnSet(f, S)
  BY <1>1, SumTakesOut
<1>3. SumFunctionOnSet(f, S) \in Nat
  BY SumIsNat
<1> QED BY <1>2, <1>3

\* A sum depends on its summands only.
THEOREM SumOfTheSame ==
  ASSUME NEW f, NEW g, NEW S, IsFiniteSet(S), \A x \in S : f[x] = g[x]
  PROVE  SumFunctionOnSet(f, S) = SumFunctionOnSet(g, S)
<1> DEFINE C == {T \in SUBSET S : SumFunctionOnSet(f, T) # SumFunctionOnSet(g, T)}
<1>1. SUFFICES ASSUME C # {} PROVE FALSE
  OBVIOUS
<1>2. PICK T \in C : \A U \in C : U \subseteq T => U = T
  <2>1. C \subseteq SUBSET S
    OBVIOUS
  <2> HIDE DEF C
  <2> QED BY <1>1, <2>1, Smallest
<1>3. T # {}
  BY SumOfNone
<1>4. f[First(T)] = g[First(T)] /\ SumFunctionOnSet(f, Rest(T)) = SumFunctionOnSet(g, Rest(T))
  BY <1>2, <1>3, RestIsLess
<1>5. SumFunctionOnSet(f, T) = f[First(T)] + SumFunctionOnSet(f, Rest(T))
  BY <1>3, SumByFirst, FS_Subset
<1>6. SumFunctionOnSet(g, T) = g[First(T)] + SumFunctionOnSet(g, Rest(T))
  BY <1>3, SumByFirst, FS_Subset
<1> QED BY <1>4, <1>5, <1>6
================================================================================
