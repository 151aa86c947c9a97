--------------------------- MODULE SnapshotStore ---------------------------
(***************************************************************************)
(* What ingest_event (sync_engine/sync.py) promises the readers of a       *)
(* device's snapshot: events are applied one at a time, each to the        *)
(* snapshot the previous one left.  An event replaces the payload when it  *)
(* is forced or not older than the server time of the last application;    *)
(* either way the snapshot is stamped anew.  Snapshots expire.             *)
(***************************************************************************)
EXTENDS Integers

\* The id that an event with this id is given when it is retried.
NewId(id) == -id

CONSTANTS Devices, Events, None

VARIABLES snapshot,   \* Devices -> [payload, synced_at, event_id] or None
          now         \* the server clock

vars == <<snapshot, now>>

Init == snapshot = [d \in Devices |-> None] /\ now = 0

Accepts(old, e) ==
  old = None \/ e.forced \/ e.timestamp >= old.synced_at

\* The stamp is taken no later than the write and no earlier than the last.
Apply(e) ==
  LET old == snapshot[e.device_id] IN
    \E stamp \in 0 .. now, id \in {e.event_id, NewId(e.event_id)} :
      /\ old # None => old.synced_at <= stamp
      /\ snapshot' = [snapshot EXCEPT ![e.device_id] =
           [payload   |-> IF Accepts(old, e) THEN e ELSE old.payload,
            synced_at |-> stamp,
            event_id  |-> id]]
      /\ UNCHANGED now

Expire(d) ==
  /\ snapshot' = [snapshot EXCEPT ![d] = None]
  /\ UNCHANGED now

Tick == now' = now + 1 /\ UNCHANGED snapshot

Next == \/ \E e \in Events : Apply(e)
        \/ \E d \in Devices : Expire(d)
        \/ Tick

Spec == Init /\ [][Next]_vars
=============================================================================
