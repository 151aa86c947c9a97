-------------------------- MODULE MergeOrder_proofs --------------------------
(***************************************************************************)
(* The resolution order of conflict.py is total, _pick_winner returns the  *)
(* stronger event, and merging is therefore independent of order and of    *)
(* repetition, for every set of events and replicas.                       *)
(***************************************************************************)
EXTENDS MergeOrder, TLAPS

\* What the lemmas need of an event.
Comparable == DeviceEvent({e.event_id : e \in Events})

\* Every event has fields that can be compared.
LEMMA EventsComparable == Events \subseteq Comparable
BY EventsAssumption DEF Comparable

\* The resolution matrix is a total preorder, antisymmetric on keys.
LEMMA LeqTotal ==
  ASSUME NEW a \in Comparable, NEW b \in Comparable
  PROVE  Leq(a, b) \/ Leq(b, a)
BY DEF Comparable, DeviceEvent, Leq

\* The resolution matrix orders events transitively ...
LEMMA LeqTransitive ==
  ASSUME NEW a \in Comparable, NEW b \in Comparable, NEW c \in Comparable,
         Leq(a, b), Leq(b, c)
  PROVE  Leq(a, c)
BY DEF Comparable, DeviceEvent, Leq

\* ... antisymmetrically, up to the fields compared ...
LEMMA LeqAntisymmetric ==
  ASSUME NEW a \in Comparable, NEW b \in Comparable, Leq(a, b), Leq(b, a)
  PROVE  Key(a) = Key(b)
BY DEF Comparable, DeviceEvent, Leq, Key

\* _pick_winner returns one of its arguments, at least as strong as both.
LEMMA WinnerStrongest ==
  ASSUME NEW a \in Comparable, NEW b \in Comparable
  PROVE  /\ Winner(a, b) \in {a, b}
         /\ Leq(a, Winner(a, b))
         /\ Leq(b, Winner(a, b))
BY DEF Comparable, DeviceEvent, Leq, Winner, _pick_winner

\* Swapping the arguments of _pick_winner can only exchange events that tie
\* on all four fields.
THEOREM WinnerCommutes ==
  ASSUME NEW a \in Comparable, NEW b \in Comparable
  PROVE  Key(Winner(a, b)) = Key(Winner(b, a))
<1>1. /\ Winner(a, b) \in {a, b}
      /\ Leq(a, Winner(a, b))
      /\ Leq(b, Winner(a, b))
  BY WinnerStrongest
<1>2. /\ Winner(b, a) \in {a, b}
      /\ Leq(a, Winner(b, a))
      /\ Leq(b, Winner(b, a))
  BY WinnerStrongest
<1> HIDE DEF Winner, Leq
<1> QED
  BY <1>1, <1>2, LeqAntisymmetric

\* Grouping does not matter either: resolving a with b and then with c gives
\* the same key as resolving a with the winner of b and c.
THEOREM WinnerAssociates ==
  ASSUME NEW a \in Comparable, NEW b \in Comparable, NEW c \in Comparable
  PROVE  Key(Winner(Winner(a, b), c)) = Key(Winner(a, Winner(b, c)))
<1> DEFINE ab == Winner(a, b)
           bc == Winner(b, c)
           l  == Winner(ab, c)
           r  == Winner(a, bc)
<1>1. ab \in {a, b} /\ Leq(a, ab) /\ Leq(b, ab)
  BY WinnerStrongest
<1>2. bc \in {b, c} /\ Leq(b, bc) /\ Leq(c, bc)
  BY WinnerStrongest
<1>3. l \in {ab, c} /\ Leq(ab, l) /\ Leq(c, l)
  BY <1>1, WinnerStrongest
<1>4. r \in {a, bc} /\ Leq(a, r) /\ Leq(bc, r)
  BY <1>2, WinnerStrongest
<1> HIDE DEF ab, bc, l, r
<1>5. l \in Comparable /\ r \in Comparable
      /\ ab \in Comparable /\ bc \in Comparable
  BY <1>1, <1>2, <1>3, <1>4
<1>6. Leq(a, l) /\ Leq(b, l) /\ Leq(c, l)
  BY <1>1, <1>3, <1>5, LeqTransitive
<1>7. Leq(a, r) /\ Leq(b, r) /\ Leq(c, r)
  BY <1>2, <1>4, <1>5, LeqTransitive
<1>8. l \in {a, b, c} /\ r \in {a, b, c}
  BY <1>1, <1>2, <1>3, <1>4
<1>9. Leq(l, r) /\ Leq(r, l)
  BY <1>6, <1>7, <1>8
<1>10. Key(l) = Key(r)
  BY <1>5, <1>9, LeqAntisymmetric
<1> QED
  BY <1>10 DEF ab, bc, l, r

-----------------------------------------------------------------------------

IInv == TypeOK /\ HoldsStrongest

\* resolve's winner is _pick_winner's.
LEMMA MergeStronger ==
  ASSUME NEW s \in Events, NEW e \in Events
  PROVE  /\ Merge(s, e) \in {s, e}
         /\ Leq(s, Merge(s, e))
         /\ Leq(e, Merge(s, e))
<1>1. Merge(s, e) = Winner(s, e)
  BY EventsAssumption DEF Merge, resolve, Winner
<1> QED
  BY <1>1, EventsComparable, WinnerStrongest

\* ... and reflexively.
LEMMA LeqReflexive == \A e \in Events : Leq(e, e)
BY EventsComparable, LeqTotal

\* One merge keeps the strongest event.
LEMMA Step ==
  ASSUME IInv, NEW r \in Replicas, NEW e \in Events, Receive(r, e)
  PROVE  IInv'
<1> DEFINE m == Merge(state[r], e)
<1>1. /\ merged' = [merged EXCEPT ![r] = merged[r] \cup {e}]
      /\ state' = [state EXCEPT ![r] = m]
  BY DEF Receive
<1>2. CASE state[r] = None
  <2>1. m = e /\ merged[r] = {}
    BY <1>2 DEF Merge, IInv, HoldsStrongest
  <2> QED
    BY <1>1, <1>2, <2>1, LeqReflexive, EventsAssumption
       DEF IInv, TypeOK, HoldsStrongest
<1>3. CASE state[r] # None
  <2>1. /\ state[r] \in Events
        /\ state[r] \in merged[r]
        /\ merged[r] \subseteq Events
        /\ \A x \in merged[r] : Leq(x, state[r])
    BY <1>3 DEF IInv, TypeOK, HoldsStrongest
  <2>2. m \in {state[r], e} /\ Leq(state[r], m) /\ Leq(e, m)
    BY <2>1, MergeStronger
  <2> HIDE DEF m
  <2>3. \A x \in merged[r] \cup {e} : Leq(x, m)
    BY <2>1, <2>2, LeqTransitive, EventsComparable
  <2>4. m \in Events /\ m # None /\ m \in merged[r] \cup {e}
    BY <2>1, <2>2, EventsAssumption
  <2>5. TypeOK'
    BY <1>1, <2>4 DEF IInv, TypeOK
  <2>6. HoldsStrongest'
    BY <1>1, <2>3, <2>4 DEF IInv, TypeOK, HoldsStrongest
  <2> QED
    BY <2>5, <2>6 DEF IInv
<1> QED
  BY <1>2, <1>3

\* IInv is inductive.
THEOREM Inductive == Spec => []IInv
<1>1. Init => IInv
  BY DEF Init, IInv, TypeOK, HoldsStrongest
<1>2. IInv /\ [Next]_vars => IInv'
  <2>1. CASE UNCHANGED vars
    BY <2>1 DEF vars, IInv, TypeOK, HoldsStrongest
  <2> QED
    BY <2>1, Step DEF Next
<1> QED
  BY <1>1, <1>2, PTL DEF Spec

\* Every replica always holds a strongest event of those it merged.
THEOREM StrongestHeld == Spec => []HoldsStrongest
BY Inductive, PTL DEF IInv

\* Order and repetition of events never show in the merged key.
THEOREM OrderIndependent == Spec => []Converges
<1>1. IInv => Converges
  BY LeqAntisymmetric, EventsComparable
     DEF IInv, TypeOK, HoldsStrongest, Converges
<1> QED
  BY <1>1, Inductive, PTL
=============================================================================
