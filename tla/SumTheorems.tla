---------------------------- MODULE SumTheorems ----------------------------
(***************************************************************************)
(* Sums over finite sets, as SumFunctionOnSet of module Functions folds    *)
(* them.  The fold takes the elements in an order that CHOOSE fixes; these *)
(* are the facts that do not depend on it.                                 *)
(*                                                                         *)
(* An induction over finite sets is made by taking a smallest              *)
(* counterexample (SmallestSubset), a form that names a set and no         *)
(* operator.                                                               *)
(***************************************************************************)
EXTENDS Functions, FiniteSetTheorems, WellFoundedInduction, TLAPS

\* A set of subsets of a finite set has a member that contains no other one.
LEMMA SmallestSubset ==
  ASSUME NEW S, IsFiniteSet(S), NEW Bad \in SUBSET (SUBSET S), Bad # {}
  PROVE  \E s \in Bad : \A t \in SUBSET s : t # s => t \notin Bad
<1>1. IsWellFoundedOn(StrictSubsetOrdering(S), FiniteSubsetsOf(S))
  BY FS_StrictSubsetOrderingWellFounded
<1>2. Bad \subseteq FiniteSubsetsOf(S)
  BY FS_FiniteSubsetsOfFinite
<1>3. PICK s \in Bad : \A t \in Bad : ~(<<t, s>> \in StrictSubsetOrdering(S))
  BY <1>1, <1>2, WFMin, Zenon
<1> QED
  BY <1>3 DEF StrictSubsetOrdering

-----------------------------------------------------------------------------
(* The recursive function behind the fold *)

Pick(s) == CHOOSE x \in s : TRUE

\* g sums f over every subset of S.
Sums(g, f, S) ==
  g = [s \in SUBSET S |-> IF s = {} THEN 0 ELSE f[Pick(s)] + g[s \ {Pick(s)}]]

\* The fold is the value at S of such a function.
LEMMA SumUnfolded ==
  ASSUME NEW f, NEW S
  PROVE  SumFunctionOnSet(f, S) = (CHOOSE g : Sums(g, f, S))[S]
BY Zenon DEF SumFunctionOnSet, FoldFunctionOnSet, MapThenFoldSet, Sums, Pick

\* One step of the recursion.
LEMMA SumsAt ==
  ASSUME NEW g, NEW f, NEW S, Sums(g, f, S), NEW s \in SUBSET S
  PROVE  /\ s = {} => g[s] = 0
         /\ s # {} => /\ Pick(s) \in s
                      /\ s \ {Pick(s)} \in SUBSET S
                      /\ g[s] = f[Pick(s)] + g[s \ {Pick(s)}]
<1>1. s # {} => Pick(s) \in s
  BY Zenon DEF Pick
<1>2. g[s] = IF s = {} THEN 0 ELSE f[Pick(s)] + g[s \ {Pick(s)}]
  BY Zenon DEF Sums
<1> QED
  BY <1>1, <1>2

\* What is summed over a set depends on the values there and nothing else.
LEMMA SumsAgree ==
  ASSUME NEW f, NEW e, NEW S, NEW T, T \subseteq S, IsFiniteSet(T),
         NEW g, NEW h, Sums(g, f, S), Sums(h, e, T),
         \A x \in T : f[x] = e[x]
  PROVE  g[T] = h[T]
<1> DEFINE Bad == {s \in SUBSET T : g[s] # h[s]}
<1> SUFFICES ASSUME Bad # {} PROVE FALSE
  OBVIOUS
<1>1. PICK s \in Bad : \A t \in SUBSET s : t # s => t \notin Bad
  <2>1. Bad \in SUBSET (SUBSET T)
    OBVIOUS
  <2> HIDE DEF Bad
  <2> QED
    BY <2>1, SmallestSubset
<1>2. s \in SUBSET T /\ s \in SUBSET S /\ g[s] # h[s]
  BY <1>1
<1>3. s # {}
  BY <1>2, SumsAt
<1> DEFINE p == Pick(s)
<1>4. p \in s /\ g[s] = f[p] + g[s \ {p}] /\ h[s] = e[p] + h[s \ {p}]
  BY <1>2, <1>3, SumsAt
<1>5. s \ {p} \in SUBSET s /\ s \ {p} # s /\ s \ {p} \in SUBSET T
  BY <1>2, <1>4
<1>6. g[s \ {p}] = h[s \ {p}]
  BY <1>1, <1>5
<1>7. f[p] = e[p]
  BY <1>2, <1>4
<1> QED
  BY <1>2, <1>4, <1>6, <1>7, Zenon

\* Every finite set has its sums.
LEMMA SumsExist ==
  ASSUME NEW f, NEW S, IsFiniteSet(S)
  PROVE  \E g : Sums(g, f, S)
<1> DEFINE Bad == {s \in SUBSET S : ~ \E g : Sums(g, f, s)}
<1>0. SUFFICES ASSUME S \in Bad PROVE FALSE
  BY Zenon
<1>1. PICK s \in Bad : \A t \in SUBSET s : t # s => t \notin Bad
  <2>1. Bad \in SUBSET (SUBSET S)
    OBVIOUS
  <2> HIDE DEF Bad
  <2> QED
    BY <1>0, <2>1, SmallestSubset
<1>2. s \in SUBSET S /\ ~ \E g : Sums(g, f, s)
  BY <1>1
<1> DEFINE G(t) == CHOOSE g : Sums(g, f, t)
           V(t) == IF t = {} THEN 0
                   ELSE f[Pick(t)] + G(t \ {Pick(t)})[t \ {Pick(t)}]
           h    == [t \in SUBSET s |-> V(t)]
<1>3. ASSUME NEW t \in SUBSET s, t # s
      PROVE  Sums(G(t), f, t) /\ IsFiniteSet(t) /\ V(t) = G(t)[t]
  <2>1. ASSUME NEW r \in SUBSET s, r # s
        PROVE  Sums(G(r), f, r) /\ IsFiniteSet(r)
    <3>1. \E g : Sums(g, f, r)
      BY <1>1, <1>2, <2>1
    <3>2. Sums(G(r), f, r)
      BY <3>1, Zenon
    <3> QED
      BY <1>2, <3>2, FS_Subset
  <2>2. Sums(G(t), f, t) /\ IsFiniteSet(t)
    BY <1>3, <2>1
  <2> DEFINE r == t \ {Pick(t)}
  <2>3. CASE t = {}
    <3>1. V(t) = 0
      BY <2>3
    <3> HIDE DEF G, V
    <3> QED
      BY <2>2, <2>3, <3>1, SumsAt
  <2>4. CASE t # {}
    <3>1. /\ Pick(t) \in t /\ r \in SUBSET t
          /\ G(t)[t] = f[Pick(t)] + G(t)[r]
      BY <2>2, <2>4, SumsAt
    <3>2. r \in SUBSET s /\ r # s
      BY <1>3, <3>1
    <3>3. Sums(G(r), f, r) /\ IsFiniteSet(r)
      BY <2>1, <3>2
    <3> HIDE DEF G, r
    <3>4. r \subseteq t /\ \A x \in r : f[x] = f[x]
      BY <3>1
    <3>5. G(t)[r] = G(r)[r]
      BY <2>2, <3>3, <3>4, SumsAgree
    <3>6. V(t) = f[Pick(t)] + G(r)[r]
      BY <2>4 DEF r
    <3> QED
      BY <2>2, <3>1, <3>5, <3>6
  <2> QED
    BY <2>2, <2>3, <2>4
<1>4. ASSUME NEW t \in SUBSET s
      PROVE  h[t] = IF t = {} THEN 0 ELSE f[Pick(t)] + h[t \ {Pick(t)}]
  <2>1. CASE t = {}
    BY <2>1
  <2>2. CASE t # {}
    <3> DEFINE r == t \ {Pick(t)}
    <3>1. Pick(t) \in t
      BY <2>2, Zenon DEF Pick
    <3>2. r \in SUBSET s /\ r # s
      BY <3>1
    <3>3. h[r] = G(r)[r]
      BY <1>3, <3>2
    <3>4. h[t] = f[Pick(t)] + G(r)[r]
      BY <2>2
    <3> QED
      BY <2>2, <3>3, <3>4
  <2> QED
    BY <2>1, <2>2
<1>5. Sums(h, f, s)
  <2> HIDE DEF V
  <2>1. h = [t \in SUBSET s |-> h[t]]
    OBVIOUS
  <2> HIDE DEF h
  <2> QED
    BY <1>4, <2>1 DEF Sums
<1> QED
  BY <1>2, <1>5

-----------------------------------------------------------------------------
(* Sums *)

\* The fold is the value of any function that satisfies its recursion.
LEMMA SumIs ==
  ASSUME NEW f, NEW S, IsFiniteSet(S), NEW g, Sums(g, f, S), NEW T \in SUBSET S
  PROVE  SumFunctionOnSet(f, T) = g[T]
<1>1. IsFiniteSet(T)
  BY FS_Subset
<1>2. PICK h : Sums(h, f, T) /\ SumFunctionOnSet(f, T) = h[T]
  <2>1. Sums(CHOOSE k : Sums(k, f, T), f, T)
    BY <1>1, SumsExist, Zenon
  <2> QED
    BY <2>1, SumUnfolded, Zenon
<1>3. g[T] = h[T]
  BY <1>1, <1>2, SumsAgree
<1> QED
  BY <1>2, <1>3

\* Nothing adds up to 0.
THEOREM SumEmpty ==
  ASSUME NEW f
  PROVE  SumFunctionOnSet(f, {}) = 0
<1>1. IsFiniteSet({})
  BY FS_EmptySet
<1>2. PICK g : Sums(g, f, {})
  BY <1>1, SumsExist
<1>3. SumFunctionOnSet(f, {}) = g[{}]
  BY <1>1, <1>2, SumIs
<1> QED
  BY <1>2, <1>3, SumsAt

\* The sum depends on the values at the members only.
THEOREM SumCongruent ==
  ASSUME NEW f, NEW e, NEW S, IsFiniteSet(S), \A x \in S : f[x] = e[x]
  PROVE  SumFunctionOnSet(f, S) = SumFunctionOnSet(e, S)
<1>1. PICK g : Sums(g, f, S)
  BY SumsExist
<1>2. PICK h : Sums(h, e, S)
  BY SumsExist
<1>3. g[S] = h[S]
  BY <1>1, <1>2, SumsAgree
<1> QED
  BY <1>1, <1>2, <1>3, SumIs

\* A sum of integers is an integer, and one of natural numbers natural.
THEOREM SumType ==
  ASSUME NEW N \in {Int, Nat}, NEW f, NEW S, IsFiniteSet(S),
         \A x \in S : f[x] \in N
  PROVE  SumFunctionOnSet(f, S) \in N
<1>1. PICK g : Sums(g, f, S)
  BY SumsExist
<1> DEFINE Bad == {s \in SUBSET S : g[s] \notin N}
<1>2. SUFFICES ASSUME Bad # {} PROVE FALSE
  BY <1>1, SumIs
<1>3. PICK s \in Bad : \A t \in SUBSET s : t # s => t \notin Bad
  <2>1. Bad \in SUBSET (SUBSET S)
    OBVIOUS
  <2> HIDE DEF Bad
  <2> QED
    BY <1>2, <2>1, SmallestSubset
<1>4. s \in SUBSET S /\ g[s] \notin N
  BY <1>3
<1> DEFINE p == Pick(s)
<1>5. s # {} /\ p \in s /\ g[s] = f[p] + g[s \ {p}]
  BY <1>1, <1>4, SumsAt
<1>6. s \ {p} \in SUBSET s /\ s \ {p} # s /\ s \ {p} \in SUBSET S
  BY <1>4, <1>5
<1>7. g[s \ {p}] \in N /\ f[p] \in N
  BY <1>3, <1>4, <1>5, <1>6
<1> QED
  BY <1>4, <1>5, <1>7

\* Any member may be split off, not only the one that CHOOSE takes.
THEOREM SumSplit ==
  ASSUME NEW f, NEW S, IsFiniteSet(S), \A x \in S : f[x] \in Int, NEW d \in S
  PROVE  SumFunctionOnSet(f, S) = f[d] + SumFunctionOnSet(f, S \ {d})
<1>1. PICK g : Sums(g, f, S)
  BY SumsExist
<1>2. \A s \in SUBSET S : g[s] \in Int /\ SumFunctionOnSet(f, s) = g[s]
  <2> SUFFICES ASSUME NEW s \in SUBSET S
               PROVE  g[s] \in Int /\ SumFunctionOnSet(f, s) = g[s]
    OBVIOUS
  <2>1. IsFiniteSet(s) /\ SumFunctionOnSet(f, s) = g[s]
    BY <1>1, SumIs, FS_Subset
  <2>2. SumFunctionOnSet(f, s) \in Int
    BY <2>1, SumType
  <2> QED
    BY <2>1, <2>2
<1> DEFINE Bad == {s \in SUBSET S : \E x \in s : g[s] # f[x] + g[s \ {x}]}
<1>3. SUFFICES ASSUME Bad # {} PROVE FALSE
  BY <1>2
<1>4. PICK s \in Bad : \A t \in SUBSET s : t # s => t \notin Bad
  <2>1. Bad \in SUBSET (SUBSET S)
    OBVIOUS
  <2> HIDE DEF Bad
  <2> QED
    BY <1>3, <2>1, SmallestSubset
<1>5. PICK x \in s : g[s] # f[x] + g[s \ {x}]
  BY <1>4
<1> DEFINE p == Pick(s)
<1>6. s \in SUBSET S /\ p \in s /\ g[s] = f[p] + g[s \ {p}]
  <2>1. s \in SUBSET S /\ s # {}
    BY <1>4, <1>5
  <2> QED
    BY <1>1, <2>1, SumsAt
<1>7. p # x
  BY <1>5, <1>6
<1> DEFINE both == s \ {p, x}
<1>8. /\ (s \ {p}) \ {x} = both /\ (s \ {x}) \ {p} = both
      /\ s \ {p} \in SUBSET s /\ s \ {p} # s /\ x \in s \ {p}
      /\ s \ {x} \in SUBSET s /\ s \ {x} # s /\ p \in s \ {x}
      /\ s \ {p} \in SUBSET S /\ s \ {x} \in SUBSET S /\ both \in SUBSET S
  BY <1>5, <1>6, <1>7
<1>9. g[s \ {p}] = f[x] + g[both] /\ g[s \ {x}] = f[p] + g[both]
  <2>1. s \ {p} \notin Bad /\ s \ {x} \notin Bad
    BY <1>4, <1>8
  <2> HIDE DEF p, both
  <2> QED
    BY <1>8, <2>1
<1>10. f[p] \in Int /\ f[x] \in Int /\ g[both] \in Int
  BY <1>2, <1>5, <1>6, <1>8
<1> HIDE DEF p, both
<1> QED
  BY <1>5, <1>6, <1>9, <1>10

\* A member that comes in adds its value.
THEOREM SumAdd ==
  ASSUME NEW f, NEW S, IsFiniteSet(S), NEW d, d \notin S,
         \A x \in S \cup {d} : f[x] \in Int
  PROVE  SumFunctionOnSet(f, S \cup {d}) = f[d] + SumFunctionOnSet(f, S)
<1>1. IsFiniteSet(S \cup {d})
  BY FS_AddElement
<1>2. (S \cup {d}) \ {d} = S
  OBVIOUS
<1>3. SumFunctionOnSet(f, S \cup {d})
        = f[d] + SumFunctionOnSet(f, (S \cup {d}) \ {d})
  BY <1>1, SumSplit
<1> QED
  BY <1>2, <1>3

\* With natural values, fewer members have no larger sum.
THEOREM SumMonotone ==
  ASSUME NEW f, NEW S, IsFiniteSet(S), \A x \in S : f[x] \in Nat,
         NEW T \in SUBSET S
  PROVE  SumFunctionOnSet(f, T) <= SumFunctionOnSet(f, S)
<1> DEFINE sum(s) == SumFunctionOnSet(f, s)
           Bad == {s \in SUBSET S : T \subseteq s /\ ~(sum(T) <= sum(s))}
<1>1. \A s \in SUBSET S : IsFiniteSet(s) /\ sum(s) \in Nat
  BY FS_Subset, SumType
<1> HIDE DEF sum
<1>2. SUFFICES ASSUME Bad # {} PROVE FALSE
  BY DEF sum
<1>3. PICK s \in Bad : \A t \in SUBSET s : t # s => t \notin Bad
  <2>1. Bad \in SUBSET (SUBSET S)
    OBVIOUS
  <2> HIDE DEF Bad
  <2> QED
    BY <1>2, <2>1, SmallestSubset
<1>4. s # T
  BY <1>1, <1>3
<1>5. PICK d \in s : d \notin T
  BY <1>3, <1>4
<1>6. sum(s) = f[d] + sum(s \ {d})
  BY <1>1, <1>3, <1>5, SumSplit DEF sum
<1>7. s \ {d} \in SUBSET s /\ s \ {d} # s /\ T \subseteq s \ {d}
  BY <1>3, <1>5
<1>8. sum(T) <= sum(s \ {d})
  BY <1>3, <1>7
<1> QED
  BY <1>1, <1>3, <1>5, <1>6, <1>7, <1>8
=============================================================================
