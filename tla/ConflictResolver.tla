-------------------------- MODULE ConflictResolver --------------------------
(***************************************************************************)
(* The conflict resolver (sync_engine/conflict.py).  Operators only: the   *)
(* order in which two device events win over each other, and the audit     *)
(* record a resolution produces.  A device id is the integer that gives    *)
(* its lexicographic rank.                                                 *)
(***************************************************************************)
EXTENDS Integers

\* DeviceEvent, without the payload: event_id stands for it.
DeviceEvent(EventIds) ==
  [event_id : EventIds, device_id : Int, timestamp : Int, priority : Int,
   forced : BOOLEAN]

\* What _pick_winner compares, and nothing else of an event.
Key(e) == <<e.forced, e.timestamp, e.priority, e.device_id>>

\* Faulty variant: the priority is looked at before the timestamp.
PickByPriorityFirst(a, b) ==
  IF a.forced # b.forced
  THEN [winner |-> IF a.forced THEN a ELSE b, reason |-> "forced_sync_override"]
  ELSE IF a.priority # b.priority
  THEN [winner |-> IF a.priority > b.priority THEN a ELSE b,
        reason |-> "priority_tiebreak"]
  ELSE [winner |-> IF a.timestamp > b.timestamp THEN a ELSE b,
        reason |-> "timestamp_lww"]

\* Faulty variant: a tie on priority is left to the order of the arguments.
PickWithoutUuid(a, b) ==
  IF a.forced # b.forced
  THEN [winner |-> IF a.forced THEN a ELSE b, reason |-> "forced_sync_override"]
  ELSE IF a.timestamp # b.timestamp
  THEN [winner |-> IF a.timestamp > b.timestamp THEN a ELSE b,
        reason |-> "timestamp_lww"]
  ELSE [winner |-> IF a.priority > b.priority THEN a ELSE b,
        reason |-> "priority_tiebreak"]

\* Rules 0 to 3.  On a tie of all four the second argument wins.
_pick_winner(a, b) ==
  IF a.forced # b.forced
  THEN [winner |-> IF a.forced THEN a ELSE b, reason |-> "forced_sync_override"]
  ELSE IF a.timestamp # b.timestamp
  THEN [winner |-> IF a.timestamp > b.timestamp THEN a ELSE b,
        reason |-> "timestamp_lww"]
  ELSE IF a.priority # b.priority
  THEN [winner |-> IF a.priority > b.priority THEN a ELSE b,
        reason |-> "priority_tiebreak"]
  ELSE [winner |-> IF a.device_id > b.device_id THEN a ELSE b,
        reason |-> "uuid_tiebreak"]

Winner(a, b) == _pick_winner(a, b).winner

\* resolve: the winner, and who won against whom and why.
resolve(a, b) ==
  LET pick  == _pick_winner(a, b)
      loser == IF pick.winner = a THEN b ELSE a
  IN  [winner |-> pick.winner,
       record |-> [winner_id |-> pick.winner.event_id,
                   loser_id  |-> loser.event_id,
                   reason    |-> pick.reason,
                   winner_ts |-> pick.winner.timestamp,
                   loser_ts  |-> loser.timestamp]]

\* Reference definition, from the resolution matrix: b is at least as strong
\* as a, lexicographically in (forced, timestamp, priority, device id).
Leq(a, b) ==
  \/ b.forced /\ ~a.forced
  \/ /\ a.forced = b.forced
     /\ \/ a.timestamp < b.timestamp
        \/ /\ a.timestamp = b.timestamp
           /\ \/ a.priority < b.priority
              \/ a.priority = b.priority /\ a.device_id <= b.device_id
=============================================================================
