---------------------------- MODULE MCSyncEngine ----------------------------
(* Small instances of SyncEngine: two devices, up to four events. *)
EXTENDS SyncEngine

Event(id, d, t, p, f) ==
  [event_id |-> id, device_id |-> d, timestamp |-> t, priority |-> p,
   forced |-> f]

\* One device's events out of order, the oldest of them forced, and one event
\* of another device that competes for the same lock.
MCEvents == { Event(1, 1, 0, 1, FALSE), Event(2, 1, 1, 1, FALSE),
              Event(3, 1, 0, 1, TRUE),  Event(4, 2, 1, 5, FALSE) }

\* Three unforced events of one device.
MCPlainEvents == { Event(1, 1, 0, 1, FALSE), Event(2, 1, 1, 1, FALSE),
                   Event(5, 1, 0, 1, FALSE) }
=============================================================================
