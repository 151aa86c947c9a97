--------------------------- MODULE DeviceRegistry ---------------------------
(***************************************************************************)
(* Registration, heartbeat and deregistration (device_registry/service.py, *)
(* router.py).  Every row has is_online = TRUE, from registration on, and  *)
(* no code clears it; last_heartbeat is left out.                          *)
(***************************************************************************)
EXTENDS Requests

\* register_device: the INSERT of a row with a fresh id.
RegisterDevice(c, e, d) ==
  /\ At(c, "idle")
  /\ LoggedIn(e)
  /\ d \notin issued
  /\ issued' = issued \cup {d}
  /\ Answer(c, [op |-> "device", device |-> d, email |-> e])
  /\ UNCHANGED <<tables, keys, mqtt, sent, removed, faults>>

CommitDevice(c) ==
  /\ Committing(c, "device")
  /\ owner' = [owner EXCEPT ![calls[c].txn.device] = calls[c].txn.email]
  /\ Goto(c, [pc |-> "idle"])
  /\ UNCHANGED <<users, usage, keys, mqtt, clients, removed, faults>>

\* Faulty variant: a missing device is not refused.
NotAnothers(e, d) == LoggedIn(e) /\ owner[d] \in {e, None}

\* _get_device_for_user: otherwise DeviceNotFound or Forbidden.
DeviceForUser(e, d) == LoggedIn(e) /\ owner[d] = e

\* heartbeat, with or without a battery level.
ReadForHeartbeat(c, e, d, charge) ==
  /\ At(c, "idle")
  /\ DeviceForUser(e, d)
  /\ Goto(c, [pc |-> "setOnline", device |-> d, charge |-> charge])
  /\ UNCHANGED <<tables, keys, mqtt, clients, removed, faults>>

SetOnline(c) ==
  /\ At(c, "setOnline")
  /\ LET d == calls[c].device IN
       /\ online' = online \cup {d}
       /\ Goto(c, IF calls[c].charge
                  THEN [pc |-> "setBattery", device |-> d]
                  ELSE [pc |-> "commit", txn |-> [op |-> "beat", device |-> d]])
  /\ UNCHANGED <<tables, battery, mqtt, clients, removed, faults>>

SetBattery(c) ==
  /\ At(c, "setBattery")
  /\ battery' = battery \cup {calls[c].device}
  /\ Goto(c, [pc  |-> "commit",
              txn |-> [op |-> "beat", device |-> calls[c].device]])
  /\ UNCHANGED <<tables, online, mqtt, clients, removed, faults>>

\* UPDATE of the row, or StaleDataError and rollback when it is gone.
CommitHeartbeat(c) ==
  /\ Committing(c, "beat")
  /\ Goto(c, [pc |-> "idle"])
  /\ UNCHANGED <<tables, keys, mqtt, clients, removed, faults>>

\* deregister_device: SELECT, and the row is marked for deletion.
ReadForRemoval(c, e, d) ==
  /\ At(c, "idle")
  /\ DeviceForUser(e, d)
  /\ Goto(c, [pc |-> "deleteKeys", device |-> d])
  /\ UNCHANGED <<tables, keys, mqtt, clients, removed, faults>>

DeleteKeys(c) ==
  /\ At(c, "deleteKeys")
  /\ LET d == calls[c].device IN
       /\ online' = online \ {d}
       /\ battery' = battery \ {d}
       /\ Answer(c, [op |-> "remove", device |-> d])
  /\ UNCHANGED <<tables, mqtt, issued, sent, removed, faults>>

\* Faulty variant: the foreign key does not cascade.
UsageKept(d) == usage

UsageWithout(d) == [s \in Sources |-> IF DeviceOf[s] = d THEN 0 ELSE usage[s]]

\* An INSERT that refers to the row and is not committed yet holds a lock on
\* it.
Referenced(d) ==
  \E k \in Callers :
    Committing(k, "usage") /\ DeviceOf[calls[k].txn.report] = d

\* DELETE of the row and of its usage, by the cascades.  When another request
\* was faster there is nothing left to delete.
CommitRemoval(c) ==
  /\ Committing(c, "remove")
  /\ LET d == calls[c].txn.device IN
       /\ ~Referenced(d)
       /\ owner' = [owner EXCEPT ![d] = None]
       /\ usage' = UsageWithout(d)
       /\ removed' = removed \cup {d}
  /\ Goto(c, [pc |-> "idle"])
  /\ UNCHANGED <<users, keys, mqtt, clients, faults>>

\* Faulty variant: SET without a TTL.
NoTimeToLive(d) == {}

\* The keys of the device that have a TTL (90 seconds).
ExpiringKeys(d) == {k \in {"online", "battery"} :
                      \/ k = "online" /\ d \in online
                      \/ k = "battery" /\ d \in battery}

KeyExpires(d) ==
  \/ /\ "online" \in ExpiringKeys(d)
     /\ online' = online \ {d}
     /\ UNCHANGED <<tables, battery, calls, mqtt, clients, removed, faults>>
  \/ /\ "battery" \in ExpiringKeys(d)
     /\ battery' = battery \ {d}
     /\ UNCHANGED <<tables, online, calls, mqtt, clients, removed, faults>>
=============================================================================
