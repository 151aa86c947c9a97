----------------------------- MODULE SyncEngine -----------------------------
(***************************************************************************)
(* The sync engine (sync_engine/sync.py) for one user.  Workers run        *)
(* ingest_event for events that arrive over MQTT; the consumer, if one was *)
(* started, runs it for events that found the user's lock taken.  A worker *)
(* yields at every Redis call; its locals are in workers[w].  Redis (lock, *)
(* snapshots) survives a restart of the server, the rest does not.         *)
(*                                                                         *)
(* get_redis() returns the client built with decode_responses=True, whose  *)
(* replies are str: key.decode() in get_family_snapshot and                *)
(* current.decode() in _user_lock raise AttributeError.                    *)
(***************************************************************************)
EXTENDS ConflictResolver, Sequences, FiniteSets

CONSTANTS Devices,          \* the user's devices, as ranks of their ids
          Events,           \* the events devices send, each delivered once
          Workers,          \* ingest_event calls in progress at once
          Consumer,         \* the start_sync_consumer task
          ConsumerRunning,  \* whether somebody started it
          Timely,           \* neither the lock nor a snapshot expires under
                            \* the call that holds the one and read the other
          Skew,             \* how far a device clock may be ahead
          MaxTime,          \* bound on the clock
          MaxCrashes,       \* bound on restarts
          None

ASSUME SyncAssumption ==
  /\ Devices \subseteq Int
  /\ Events \subseteq DeviceEvent(Nat \ {0})
  /\ \A e \in Events : e.device_id \in Devices
  /\ \A e, f \in Events : e.event_id = f.event_id => e = f
  /\ Consumer \notin Workers
  /\ ConsumerRunning \in BOOLEAN /\ Timely \in BOOLEAN
  /\ Skew \in Nat /\ MaxTime \in Nat /\ MaxCrashes \in Nat

VARIABLES lock,       \* screensync:lock: who set it, or None
          snapshot,   \* screensync:state:*: Devices -> snapshot or None
          workers,    \* calls in progress and their locals
          channel,    \* pub/sub messages the consumer has yet to read
          audit,      \* the audit stream
          now,        \* the server clock
          crashes,
          arrived     \* history: events delivered so far

vars == <<lock, snapshot, workers, channel, audit, now, crashes, arrived>>

\* Stands for the uuid4 that a rebuilt event gets.
NewId(id) == -id

Procs    == Workers \cup {Consumer}
EventIds == UNION {{e.event_id, NewId(e.event_id)} : e \in Events}
Time     == 0 .. MaxTime

Snapshot == [payload : Events, synced_at : Time, event_id : EventIds]

\* None marks what is absent.
ASSUME NoneAssumption == None \notin Snapshot /\ None \notin Procs

Local == [pc : {"idle"}]
           \cup [pc : {"busy", "load", "exit"}, event : Events]
           \cup [pc : {"choose"}, event : Events,
                 existing : Snapshot \cup {None}]
           \cup [pc : {"write"}, event : Events, new : Snapshot]

\* Between acquiring the lock and leaving the async with block.
Holding(w) == workers[w].pc \in {"load", "choose", "write", "exit"}

Init ==
  /\ lock = None
  /\ snapshot = [d \in Devices |-> None]
  /\ workers = [w \in Procs |-> [pc |-> "idle"]]
  /\ channel = <<>>
  /\ audit = {}
  /\ now = 0
  /\ crashes = 0
  /\ arrived = {}

Goto(w, local) == workers' = [workers EXCEPT ![w] = local]

-----------------------------------------------------------------------------
(* ingest_event *)

\* Faulty variant: SET without NX.
LockOverwriting(w, e) ==
  lock' = w /\ Goto(w, [pc |-> "load", event |-> e])

\* _user_lock's SET NX PX.
AcquireLock(w, e) ==
  \/ /\ lock = None
     /\ lock' = w
     /\ Goto(w, [pc |-> "load", event |-> e])
  \/ /\ lock # None
     /\ Goto(w, [pc |-> "busy", event |-> e])
     /\ UNCHANGED lock

Deliver(w, e) ==
  /\ workers[w].pc = "idle"
  /\ e \notin arrived
  /\ e.timestamp <= now + Skew
  /\ arrived' = arrived \cup {e}
  /\ AcquireLock(w, e)
  /\ UNCHANGED <<snapshot, channel, audit, now, crashes>>

\* A pub/sub message reaches whoever is subscribed, and nobody else.
PublishRetry(e) == IF ConsumerRunning THEN Append(channel, e) ELSE channel

\* The lock was taken: re-publish the event and return.
Republish(w) ==
  /\ workers[w].pc = "busy"
  /\ channel' = PublishRetry(workers[w].event)
  /\ Goto(w, [pc |-> "idle"])
  /\ UNCHANGED <<lock, snapshot, audit, now, crashes, arrived>>

LoadSnapshot(w) ==
  /\ workers[w].pc = "load"
  /\ LET e == workers[w].event IN
       Goto(w, [pc |-> "choose", event |-> e,
                existing |-> snapshot[e.device_id]])
  /\ UNCHANGED <<lock, snapshot, channel, audit, now, crashes, arrived>>

\* The stored state as an event: the time it was last synced, never forced,
\* and with the device and priority of the event it is compared with.
_snapshot_to_event(snap, e) ==
  [event_id |-> snap.event_id, device_id |-> e.device_id,
   timestamp |-> snap.synced_at, priority |-> e.priority, forced |-> FALSE]

_needs_resolution(existing, e) == e.timestamp <= existing.timestamp

\* Whether the incoming payload is kept.
KeepsIncoming(old, e) ==
  \/ old = None
  \/ LET existing == _snapshot_to_event(old, e)
     IN  _needs_resolution(existing, e) => Winner(existing, e) = e

Payload(old, e) == IF KeepsIncoming(old, e) THEN e ELSE old.payload

\* A retried event is rebuilt without its event_id and gets a new one.
IdAt(w, e) == IF w = Consumer THEN NewId(e.event_id) ELSE e.event_id

\* The audit record of a resolution; kept is history: the event whose
\* payload really is in the snapshot.
AuditEntries(w, old, e) ==
  IF old = None THEN {}
  ELSE LET existing == _snapshot_to_event(old, e)
       IN  IF _needs_resolution(existing, e)
           THEN {[record |-> resolve(existing,
                               [e EXCEPT !.event_id = IdAt(w, e)]).record,
                  kept   |-> Payload(old, e).event_id]}
           ELSE {}

\* Faulty variant: the stamp is ahead of the clock.
StampedAhead(w, old, e) ==
  [payload |-> Payload(old, e), synced_at |-> now + 1,
   event_id |-> IdAt(w, e)]

\* The payload kept, stamped with the server time and with the id of the
\* incoming event, whoever won.
Stamped(w, old, e) ==
  [payload |-> Payload(old, e), synced_at |-> now, event_id |-> IdAt(w, e)]

\* Pick the payload, append to the audit stream, stamp the payload.
ChooseWinner(w) ==
  /\ workers[w].pc = "choose"
  /\ LET e   == workers[w].event
         old == workers[w].existing
     IN  /\ audit' = audit \cup AuditEntries(w, old, e)
         /\ Goto(w, [pc |-> "write", event |-> e,
                     new |-> Stamped(w, old, e)])
  /\ UNCHANGED <<lock, snapshot, channel, now, crashes, arrived>>

WriteSnapshot(w) ==
  /\ workers[w].pc = "write"
  /\ LET e == workers[w].event IN
       /\ snapshot' = [snapshot EXCEPT ![e.device_id] = workers[w].new]
       /\ Goto(w, [pc |-> "exit", event |-> e])
  /\ UNCHANGED <<lock, channel, audit, now, crashes, arrived>>

\* The finally clause decodes the token if the lock is still set, which
\* raises before the lock could be deleted.
ReleaseRaises == lock # None

\* _broadcast_family_state and the end of the async with block.  The broadcast
\* raises on the first snapshot key it decodes and publishes nothing; whoever
\* called ingest_event sees an exception, which the consumer logs.
LeaveLock(w) ==
  /\ workers[w].pc = "exit"
  /\ lock' = IF ReleaseRaises THEN lock ELSE None
  /\ Goto(w, [pc |-> "idle"])
  /\ UNCHANGED <<snapshot, channel, audit, now, crashes, arrived>>

IngestStep(w) ==
  \/ Republish(w)
  \/ LoadSnapshot(w)
  \/ ChooseWinner(w)
  \/ WriteSnapshot(w)
  \/ LeaveLock(w)

-----------------------------------------------------------------------------
(* start_sync_consumer *)

Consume ==
  /\ ConsumerRunning
  /\ workers[Consumer].pc = "idle"
  /\ channel # <<>>
  /\ channel' = Tail(channel)
  /\ AcquireLock(Consumer, Head(channel))
  /\ UNCHANGED <<snapshot, audit, now, crashes, arrived>>

-----------------------------------------------------------------------------
(* Redis, clock and server *)

\* Faulty variant: SET NX without PX.
NeverExpires == FALSE

\* LOCK_TIMEOUT_MS after the SET, whether or not the holder is done.
LockExpire ==
  /\ lock # None
  /\ Timely => ~Holding(lock)
  /\ lock' = None
  /\ UNCHANGED <<snapshot, workers, channel, audit, now, crashes, arrived>>

\* SNAPSHOT_TTL_SECS after the last write.
SnapshotExpire(d) ==
  /\ snapshot[d] # None
  /\ Timely => \A w \in Procs :
                 Holding(w) => workers[w].event.device_id # d
  /\ snapshot' = [snapshot EXCEPT ![d] = None]
  /\ UNCHANGED <<lock, workers, channel, audit, now, crashes, arrived>>

Tick ==
  /\ now < MaxTime
  /\ now' = now + 1
  /\ UNCHANGED <<lock, snapshot, workers, channel, audit, crashes, arrived>>

Crash ==
  /\ crashes < MaxCrashes
  /\ crashes' = crashes + 1
  /\ workers' = [w \in Procs |-> [pc |-> "idle"]]
  /\ channel' = <<>>
  /\ UNCHANGED <<lock, snapshot, audit, now, arrived>>

Next ==
  \/ \E w \in Workers, e \in Events : Deliver(w, e)
  \/ \E w \in Procs : IngestStep(w)
  \/ Consume
  \/ LockExpire
  \/ \E d \in Devices : SnapshotExpire(d)
  \/ Tick
  \/ Crash

Spec == Init /\ [][Next]_vars

\* Calls in progress run on, and Redis expires the lock.  Nothing is assumed
\* of the consumer, which main.py does not start.
FairSpec ==
  /\ Spec
  /\ \A w \in Procs : WF_vars(IngestStep(w))
  /\ WF_vars(LockExpire)

-----------------------------------------------------------------------------
(* Properties *)

\* Every variable keeps its shape; stamps are never in the future.
TypeOK ==
  /\ lock \in Procs \cup {None}
  /\ snapshot \in [Devices -> Snapshot \cup {None}]
  /\ workers \in [Procs -> Local]
  /\ channel \in Seq(Events)
  /\ now \in Time
  /\ crashes \in Nat
  /\ arrived \subseteq Events

\* The per-user lock does its job while holders are timely: no two calls are
\* between load and write, restarts and leftover locks included.
LockExclusive ==
  \A v, w \in Procs : Holding(v) /\ Holding(w) => v = w

\* Timely ingestion is atomic: readers of the snapshots cannot tell it from
\* SnapshotStore, which applies each event in one step.
Atomic == INSTANCE SnapshotStore WITH snapshot <- snapshot, now <- now

\* ingest_event under a timely lock implements SnapshotStore.
IngestIsAtomic == Atomic!Spec

\* The lock is always freed, so that no user is locked out for ever: not by
\* the finally clause, which raises, nor by a holder that a restart ended, but
\* by its expiry.
LockFreed == lock # None ~> lock = None

\* Every event delivered has been dealt with.
Quiet == (\A w \in Procs : workers[w].pc = "idle") /\ channel = <<>>

\* "Last-Write-Wins (LWW) by event timestamp": when all is quiet, a device's
\* snapshot does not hold an event older than another one that was delivered,
\* unless it was forced.
LastWriteWins ==
  Quiet => \A e \in arrived :
    LET snap == snapshot[e.device_id]
    IN  snap # None /\ ~snap.payload.forced
          => snap.payload.timestamp >= e.timestamp

\* winner_id is the "event_id of the winning event": the one whose payload
\* is kept, under its first id or the one a retry gave it.
AuditNamesWinner ==
  \A a \in audit : a.record.winner_id \in {a.kept, NewId(a.kept)}
=============================================================================
