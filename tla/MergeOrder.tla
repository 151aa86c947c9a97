----------------------------- MODULE MergeOrder -----------------------------
(***************************************************************************)
(* Two replicas merge the same device events with resolve(), each in an    *)
(* order of its own, keeping the winner so far: the "deterministic,        *)
(* coordination-free strategy" of conflict.py, with nothing else of the    *)
(* sync path around it.                                                    *)
(***************************************************************************)
EXTENDS ConflictResolver

CONSTANTS Events,     \* the events to merge
          Replicas,
          None        \* nothing merged yet

ASSUME EventsAssumption ==
  /\ Events \subseteq DeviceEvent({e.event_id : e \in Events})
  /\ None \notin Events

VARIABLES merged,     \* events each replica has merged
          state       \* the winner each replica holds

vars == <<merged, state>>

Init == /\ merged = [r \in Replicas |-> {}]
        /\ state = [r \in Replicas |-> None]

\* The first event is accepted as it is, every other one is resolved.
Merge(current, e) ==
  IF current = None THEN e ELSE resolve(current, e).winner

\* Replica r merges e; the same event may reach it again.
Receive(r, e) ==
  /\ merged' = [merged EXCEPT ![r] = @ \cup {e}]
  /\ state' = [state EXCEPT ![r] = Merge(@, e)]

Next == \E r \in Replicas, e \in Events : Receive(r, e)

Spec == Init /\ [][Next]_vars

-----------------------------------------------------------------------------
(* Properties *)

\* A replica holds an event, or nothing.
TypeOK == /\ merged \in [Replicas -> SUBSET Events]
          /\ state \in [Replicas -> Events \cup {None}]

\* What a replica holds is one of the events it merged and beats or equals
\* all of them in the order of the resolution matrix.
HoldsStrongest ==
  \A r \in Replicas :
    /\ state[r] = None <=> merged[r] = {}
    /\ merged[r] # {} => /\ state[r] \in merged[r]
                         /\ \A e \in merged[r] : Leq(e, state[r])

\* Replicas that merged the same events hold equally strong ones, in whatever
\* order and however often the events came: _pick_winner needs no coordination.
Converges ==
  \A r, s \in Replicas :
    merged[r] = merged[s] /\ merged[r] # {} => Key(state[r]) = Key(state[s])
=============================================================================
