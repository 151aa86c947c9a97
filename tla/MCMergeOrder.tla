---------------------------- MODULE MCMergeOrder ----------------------------
(* Events that tie on one, two, three and all four of the compared fields. *)
EXTENDS MergeOrder

Event(id, d, t, p, f) ==
  [event_id |-> id, device_id |-> d, timestamp |-> t, priority |-> p,
   forced |-> f]

MCEvents == { Event("a", 1, 2, 1, FALSE),   \* ties with b but for the device
              Event("b", 2, 2, 1, FALSE),
              Event("c", 1, 2, 5, FALSE),   \* higher priority
              Event("d", 1, 3, 1, FALSE),   \* newer
              Event("e", 1, 1, 1, TRUE),    \* forced, oldest
              Event("f", 1, 1, 1, TRUE) }   \* ties with e on everything
=============================================================================
