-------------------------- MODULE SyncEngine_proofs --------------------------
(***************************************************************************)
(* For every set of devices, events and workers: while lock holders are    *)
(* timely, ingest_event is mutually exclusive and implements the atomic    *)
(* SnapshotStore; if device clocks are not ahead of the server's either,   *)
(* no unforced event replaces the state of a newer one.                    *)
(***************************************************************************)
EXTENDS SyncEngine, TLAPS

\* A call in the critical section is the one that set the lock.
HolderHasLock == \A w \in Procs : Holding(w) => lock = w

\* Stamps lie in the past.
StampsPast ==
  \A d \in Devices : snapshot[d] # None => snapshot[d].synced_at <= now

\* What a call read is still there when it writes, and what it is about to
\* write is the outcome for the current snapshot.
LocalsFresh ==
  \A w \in Procs :
    /\ workers[w].pc = "choose" =>
         workers[w].existing = snapshot[workers[w].event.device_id]
    /\ workers[w].pc = "write" =>
         LET e   == workers[w].event
             new == workers[w].new
             old == snapshot[e.device_id]
         IN  /\ new.payload = Payload(old, e)
             /\ new.event_id \in {e.event_id, NewId(e.event_id)}
             /\ new.synced_at <= now
             /\ old # None => old.synced_at <= new.synced_at

IInv == TypeOK /\ HolderHasLock /\ StampsPast /\ LocalsFresh

-----------------------------------------------------------------------------
(* Operators *)

\* The resolver, used the way ingest_event uses it, keeps the incoming event
\* exactly when SnapshotStore accepts it: priorities and device ids never
\* decide, the stored state being given those of the event.
LEMMA KeepsIsAccepts ==
  ASSUME NEW e \in Events, NEW old \in Snapshot \cup {None}
  PROVE  KeepsIncoming(old, e) <=> Atomic!Accepts(old, e)
<1>1. CASE old = None
  BY <1>1 DEF KeepsIncoming, Atomic!Accepts
<1>2. CASE old # None
  <2> DEFINE x == _snapshot_to_event(old, e)
  <2>1. /\ old.synced_at \in Int
        /\ e.timestamp \in Int
        /\ e.forced \in BOOLEAN
    BY <1>2, SyncAssumption DEF Snapshot, Time, DeviceEvent
  <2>2. /\ x.timestamp = old.synced_at
        /\ x.forced = FALSE
        /\ x.priority = e.priority
        /\ x.device_id = e.device_id
    BY DEF _snapshot_to_event
  <2>3. e.device_id \in Int
    BY SyncAssumption DEF DeviceEvent
  <2> HIDE DEF x
  <2>4. Winner(x, e) = IF e.forced \/ old.synced_at <= e.timestamp THEN e ELSE x
    <3>1. CASE e.forced
      BY <2>2, <3>1 DEF Winner, _pick_winner
    <3>2. CASE ~e.forced
      <4>1. x.forced = e.forced
        BY <2>1, <2>2, <3>2
      <4> QED
        BY <2>1, <2>2, <2>3, <3>2, <4>1 DEF Winner, _pick_winner
    <3> QED
      BY <3>1, <3>2
  <2>5. x = e => e.timestamp = old.synced_at
    BY <2>2
  <2>6. KeepsIncoming(old, e) <=>
          (e.timestamp <= x.timestamp => Winner(x, e) = e)
    BY <1>2 DEF KeepsIncoming, _needs_resolution, x
  <2> QED
    BY <1>2, <2>1, <2>2, <2>4, <2>5, <2>6 DEF Atomic!Accepts
<1> QED
  BY <1>1, <1>2

\* What is chosen is a snapshot.
LEMMA StampedType ==
  ASSUME NEW e \in Events, NEW old \in Snapshot \cup {None}, now \in Time,
         NEW w \in Procs
  PROVE  Stamped(w, old, e) \in Snapshot
<1>1. Payload(old, e) \in Events
  BY DEF Payload, KeepsIncoming, Snapshot
<1> QED
  BY <1>1 DEF Stamped, IdAt, Snapshot, EventIds

\* A local is of the shape its program counter says.
LEMMA LocalShape ==
  ASSUME NEW l \in Local
  PROVE  /\ l.pc \in {"idle", "busy", "load", "choose", "write", "exit"}
         /\ l.pc # "idle" => l.event \in Events
         /\ l.pc = "choose" => l.existing \in Snapshot \cup {None}
         /\ l.pc = "write" => l.new \in Snapshot
BY DEF Local

\* Events come from the user's devices.
LEMMA EventDevice == \A e \in Events : e.device_id \in Devices
BY SyncAssumption

-----------------------------------------------------------------------------
(* Type correctness *)

\* Every step keeps the type invariant.
LEMMA TypeStep ==
  ASSUME TypeOK, [Next]_vars
  PROVE  TypeOK'
<1> USE SyncAssumption
<1>0. [pc |-> "idle"] \in Local
  BY DEF Local
<1>a. ASSUME NEW w \in Procs, NEW e \in Events, AcquireLock(w, e)
      PROVE  lock' \in Procs \cup {None} /\ workers' \in [Procs -> Local]
  <2>1. /\ [pc |-> "load", event |-> e] \in Local
        /\ [pc |-> "busy", event |-> e] \in Local
    BY DEF Local
  <2> QED
    BY <1>a, <2>1 DEF AcquireLock, Goto, TypeOK
<1>1. ASSUME NEW w \in Workers, NEW e \in Events, Deliver(w, e)
      PROVE  TypeOK'
  BY <1>1, <1>a DEF Deliver, TypeOK, Procs
<1>2. ASSUME NEW w \in Procs, Republish(w)
      PROVE  TypeOK'
  <2>1. workers[w].event \in Events
    BY <1>2, LocalShape DEF Republish, TypeOK
  <2>2. channel' \in Seq(Events)
    BY <1>2, <2>1 DEF Republish, PublishRetry, TypeOK
  <2> QED
    BY <1>0, <1>2, <2>2 DEF Republish, Goto, TypeOK
<1>3. ASSUME NEW w \in Procs, LoadSnapshot(w)
      PROVE  TypeOK'
  <2>1. workers[w].event \in Events
    BY <1>3, LocalShape DEF LoadSnapshot, TypeOK
  <2>2. [pc |-> "choose", event |-> workers[w].event,
         existing |-> snapshot[workers[w].event.device_id]] \in Local
    BY <2>1, EventDevice DEF Local, TypeOK
  <2> QED
    BY <1>3, <2>2 DEF LoadSnapshot, Goto, TypeOK
<1>4. ASSUME NEW w \in Procs, ChooseWinner(w)
      PROVE  TypeOK'
  <2>1. /\ workers[w].event \in Events
        /\ workers[w].existing \in Snapshot \cup {None}
    BY <1>4, LocalShape DEF ChooseWinner, TypeOK
  <2>2. Stamped(w, workers[w].existing, workers[w].event) \in Snapshot
    BY <2>1, StampedType DEF TypeOK
  <2>3. [pc |-> "write", event |-> workers[w].event,
         new |-> Stamped(w, workers[w].existing, workers[w].event)] \in Local
    BY <2>1, <2>2 DEF Local
  <2> QED
    BY <1>4, <2>3 DEF ChooseWinner, Goto, TypeOK
<1>5. ASSUME NEW w \in Procs, WriteSnapshot(w)
      PROVE  TypeOK'
  <2>1. workers[w].event \in Events /\ workers[w].new \in Snapshot
    BY <1>5, LocalShape DEF WriteSnapshot, TypeOK
  <2>2. [pc |-> "exit", event |-> workers[w].event] \in Local
    BY <2>1 DEF Local
  <2> QED
    BY <1>5, <2>1, <2>2 DEF WriteSnapshot, Goto, TypeOK
<1>6. ASSUME NEW w \in Procs, LeaveLock(w)
      PROVE  TypeOK'
  <2>1. workers[w].event \in Events
    BY <1>6, LocalShape DEF LeaveLock, TypeOK
  <2> QED
    BY <1>0, <1>6, <2>1 DEF LeaveLock, ReleaseRaises, Goto, TypeOK
<1>7. CASE Consume
  <2>1. Head(channel) \in Events /\ Tail(channel) \in Seq(Events)
    BY <1>7 DEF Consume, TypeOK
  <2> QED
    BY <1>7, <1>a, <2>1 DEF Consume, TypeOK, Procs
<1>8. CASE LockExpire
  BY <1>8 DEF LockExpire, TypeOK
<1>9. ASSUME NEW d \in Devices, SnapshotExpire(d)
      PROVE  TypeOK'
  BY <1>9 DEF SnapshotExpire, TypeOK
<1>10. CASE Tick
  BY <1>10 DEF Tick, TypeOK, Time
<1>11. CASE Crash
  BY <1>0, <1>11 DEF Crash, TypeOK
<1>12. CASE UNCHANGED vars
  BY <1>12 DEF vars, TypeOK
<1> QED
  BY <1>1, <1>2, <1>3, <1>4, <1>5, <1>6, <1>7, <1>8, <1>9, <1>10, <1>11,
     <1>12 DEF Next, IngestStep

-----------------------------------------------------------------------------
(* Mutual exclusion *)

\* Timely, a call in the critical section stays the one that set the lock.
LEMMA HolderStep ==
  ASSUME Timely, TypeOK, HolderHasLock, [Next]_vars
  PROVE  HolderHasLock'
<1> SUFFICES ASSUME NEW k \in Procs, Holding(k)'
             PROVE  lock' = k
  BY DEF HolderHasLock
<1> USE DEF Holding
<1>0. Consumer \in Procs /\ \A w \in Workers : w \in Procs
  BY DEF Procs
<1>1. ASSUME NEW w \in Procs, NEW e, AcquireLock(w, e)
      PROVE  lock' = k
  BY <1>1, NoneAssumption DEF AcquireLock, Goto, TypeOK, HolderHasLock
<1>2. ASSUME NEW w \in Workers, NEW e \in Events, Deliver(w, e)
      PROVE  lock' = k
  BY <1>0, <1>1, <1>2 DEF Deliver
<1>3. CASE Consume
  BY <1>0, <1>1, <1>3 DEF Consume
<1>4. ASSUME NEW w \in Procs, IngestStep(w)
      PROVE  lock' = k
  <2>1. Holding(k) /\ lock' = lock
    BY <1>4 DEF IngestStep, Republish, LoadSnapshot, ChooseWinner,
       WriteSnapshot, LeaveLock, ReleaseRaises, Goto, TypeOK
  <2> QED
    BY <2>1 DEF HolderHasLock
<1>5. CASE LockExpire
  BY <1>5, NoneAssumption DEF LockExpire, HolderHasLock, TypeOK
<1>6. CASE Crash
  BY <1>6 DEF Crash
<1>7. CASE (\E d \in Devices : SnapshotExpire(d)) \/ Tick \/ UNCHANGED vars
  BY <1>7 DEF SnapshotExpire, Tick, vars, HolderHasLock
<1> QED
  BY <1>2, <1>3, <1>4, <1>5, <1>6, <1>7 DEF Next

-----------------------------------------------------------------------------
(* Freshness of what a call read *)

\* The server clock does not go back.
LEMMA ClockAdvances ==
  ASSUME TypeOK, [Next]_vars
  PROVE  now \in Nat /\ now' \in Nat /\ now <= now'
<1>1. now \in Nat
  BY SyncAssumption DEF TypeOK, Time
<1>2. now' = now \/ now' = now + 1
  BY DEF Next, IngestStep, Deliver, Republish, LoadSnapshot, ChooseWinner,
     WriteSnapshot, LeaveLock, Consume, LockExpire, SnapshotExpire, Tick,
     Crash, vars
<1> QED
  BY <1>1, <1>2

\* No step stamps a snapshot with a time to come.
LEMMA StampsStep ==
  ASSUME TypeOK, StampsPast, LocalsFresh, [Next]_vars
  PROVE  StampsPast'
<1> SUFFICES ASSUME NEW d \in Devices, snapshot'[d] # None
             PROVE  snapshot'[d].synced_at <= now'
  BY DEF StampsPast
<1>1. now \in Nat /\ now' \in Nat /\ now <= now'
  BY ClockAdvances
<1>2. CASE snapshot'[d] = snapshot[d]
  <2>1. snapshot[d].synced_at \in Nat /\ snapshot[d].synced_at <= now
    BY <1>2 DEF StampsPast, TypeOK, Snapshot, Time
  <2> QED
    BY <1>1, <1>2, <2>1
<1>3. CASE snapshot'[d] # snapshot[d]
  <2>1. PICK w \in Procs : WriteSnapshot(w)
    BY <1>3 DEF TypeOK, Next, IngestStep, Deliver, Republish, LoadSnapshot,
       ChooseWinner, LeaveLock, Consume, LockExpire, SnapshotExpire, Tick,
       Crash, vars
  <2>2. snapshot'[d] = workers[w].new /\ now' = now
    BY <1>3, <2>1 DEF WriteSnapshot, TypeOK
  <2> QED
    BY <2>1, <2>2 DEF WriteSnapshot, LocalsFresh
<1> QED
  BY <1>2, <1>3

\* While one call is in the critical section nobody else touches the
\* snapshot of its device.
LEMMA SnapshotStable ==
  ASSUME Timely, TypeOK, HolderHasLock, [Next]_vars,
         NEW k \in Procs, Holding(k), ~WriteSnapshot(k)
  PROVE  LET d == workers[k].event.device_id IN snapshot'[d] = snapshot[d]
<1> DEFINE d == workers[k].event.device_id
<1>1. d \in Devices
  BY LocalShape, EventDevice DEF Holding, TypeOK
<1>2. \A w \in Procs : WriteSnapshot(w) => w = k
  BY DEF WriteSnapshot, Holding, HolderHasLock
<1>3. ASSUME NEW x \in Devices, SnapshotExpire(x)
      PROVE  x # d
  BY <1>3 DEF SnapshotExpire
<1> QED
  BY <1>1, <1>2, <1>3 DEF TypeOK, Next, IngestStep, Deliver, Republish,
     LoadSnapshot, ChooseWinner, LeaveLock, Consume, LockExpire,
     SnapshotExpire, Tick, Crash, vars

\* Timely, nothing that a call in the critical section has read changes
\* before it writes.
LEMMA FreshStep ==
  ASSUME Timely, IInv, TypeOK', [Next]_vars
  PROVE  LocalsFresh'
<1> DEFINE Fresh(l, snaps, t) ==
       /\ l.pc = "choose" => l.existing = snaps[l.event.device_id]
       /\ l.pc = "write" =>
            LET old == snaps[l.event.device_id] IN
              /\ l.new.payload = Payload(old, l.event)
              /\ l.new.event_id \in {l.event.event_id, NewId(l.event.event_id)}
              /\ l.new.synced_at <= t
              /\ old # None => old.synced_at <= l.new.synced_at
<1> SUFFICES ASSUME NEW k \in Procs
             PROVE  Fresh(workers'[k], snapshot', now')
  BY DEF LocalsFresh
<1>0. Fresh(workers[k], snapshot, now)
  BY DEF IInv, LocalsFresh
<1>t. /\ now \in Nat /\ now' \in Nat /\ now <= now'
      /\ workers[k] \in Local
  BY ClockAdvances DEF IInv, TypeOK
<1>1. CASE workers'[k] = workers[k]
  <2>1. CASE workers[k].pc \in {"choose", "write"}
    <3>1. Holding(k) /\ ~WriteSnapshot(k)
      BY <1>1, <2>1 DEF Holding, WriteSnapshot, Goto, IInv, TypeOK
    <3>2. snapshot'[workers[k].event.device_id]
            = snapshot[workers[k].event.device_id]
      BY <3>1, SnapshotStable DEF IInv
    <3>3. workers[k].pc = "write" => workers[k].new.synced_at \in Nat
      BY <1>t, LocalShape DEF Snapshot, Time
    <3> QED
      BY <1>0, <1>1, <1>t, <3>2, <3>3
  <2> QED
    BY <1>1, <2>1
<1>2. CASE workers'[k].pc \notin {"choose", "write"}
  BY <1>2
<1>3. CASE LoadSnapshot(k)
  BY <1>3 DEF LoadSnapshot, Goto, IInv, TypeOK
<1>4. CASE ChooseWinner(k)
  <2> DEFINE e   == workers[k].event
             old == workers[k].existing
  <2>1. /\ e \in Events
        /\ old = snapshot[e.device_id]
        /\ snapshot' = snapshot /\ now' = now
        /\ workers'[k] = [pc |-> "write", event |-> e, new |-> Stamped(k, old, e)]
    BY <1>0, <1>4, <1>t, LocalShape DEF ChooseWinner, Goto, IInv, TypeOK
  <2>2. old # None => old.synced_at <= now
    BY <2>1, EventDevice DEF IInv, StampsPast
  <2> HIDE DEF e, old
  <2>3. /\ workers'[k].pc = "write"
        /\ workers'[k].event = e
        /\ workers'[k].new.payload = Payload(old, e)
        /\ workers'[k].new.event_id \in {e.event_id, NewId(e.event_id)}
        /\ workers'[k].new.synced_at = now
    BY <2>1 DEF Stamped, IdAt
  <2> QED
    BY <1>t, <2>1, <2>2, <2>3
<1>5. \/ workers'[k] = workers[k]
      \/ workers'[k].pc \notin {"choose", "write"}
      \/ LoadSnapshot(k)
      \/ ChooseWinner(k)
  BY DEF IInv, TypeOK, Next, IngestStep, Deliver, AcquireLock, Republish,
     LoadSnapshot, ChooseWinner, WriteSnapshot, LeaveLock, Consume,
     LockExpire, SnapshotExpire, Tick, Crash, Goto, vars
<1> QED
  BY <1>1, <1>2, <1>3, <1>4, <1>5

\* IInv is inductive when holders are timely.
THEOREM Inductive == ASSUME Timely PROVE Spec => []IInv
<1>1. Init => IInv
  BY SyncAssumption DEF Init, IInv, TypeOK, HolderHasLock, StampsPast,
     LocalsFresh, Holding, Local, Time
<1>2. IInv /\ [Next]_vars => IInv'
  BY TypeStep, HolderStep, StampsStep, FreshStep DEF IInv
<1> QED
  BY <1>1, <1>2, PTL DEF Spec

\* Every variable keeps its type, timely or not.
THEOREM TypeCorrect == Spec => []TypeOK
<1>1. Init => TypeOK
  BY SyncAssumption DEF Init, TypeOK, Local, Time
<1>2. TypeOK /\ [Next]_vars => TypeOK'
  BY TypeStep
<1> QED
  BY <1>1, <1>2, PTL DEF Spec

\* At most one call is between _user_lock's SET and its exit.
THEOREM MutualExclusion == ASSUME Timely PROVE Spec => []LockExclusive
<1>1. IInv => LockExclusive
  BY DEF IInv, HolderHasLock, LockExclusive
<1> QED
  BY <1>1, Inductive, PTL

-----------------------------------------------------------------------------
(* Refinement *)

\* A write is an atomic application of the event.
LEMMA WriteIsApply ==
  ASSUME IInv, NEW w \in Procs, WriteSnapshot(w)
  PROVE  \E e \in Events : Atomic!Apply(e)
<1> DEFINE e   == workers[w].event
           new == workers[w].new
           old == snapshot[e.device_id]
<1>1. /\ e \in Events
      /\ new \in Snapshot
      /\ e.device_id \in Devices
    BY LocalShape, EventDevice DEF WriteSnapshot, IInv, TypeOK
<1>2. /\ new.payload = Payload(old, e)
      /\ new.event_id \in {e.event_id, NewId(e.event_id)}
      /\ new.synced_at <= now
      /\ old # None => old.synced_at <= new.synced_at
  BY DEF WriteSnapshot, IInv, LocalsFresh
<1>3. /\ snapshot' = [snapshot EXCEPT ![e.device_id] = new]
      /\ now' = now
  BY DEF WriteSnapshot
<1>4. old \in Snapshot \cup {None}
  BY <1>1 DEF IInv, TypeOK
<1> HIDE DEF e, new, old
<1>5. new.payload = IF Atomic!Accepts(old, e) THEN e ELSE old.payload
  BY <1>1, <1>2, <1>4, KeepsIsAccepts DEF Payload
<1>6. new.synced_at \in 0 .. now
  BY <1>1, <1>2, SyncAssumption DEF Snapshot, Time, IInv, TypeOK
<1>7. new = [payload |-> IF Atomic!Accepts(old, e) THEN e ELSE old.payload,
             synced_at |-> new.synced_at, event_id |-> new.event_id]
  BY <1>1, <1>2, <1>5 DEF Snapshot
<1>8. Atomic!Apply(e)
  <2>1. new.event_id \in {e.event_id, Atomic!NewId(e.event_id)}
    BY <1>2 DEF NewId, Atomic!NewId
  <2> QED
    BY <1>2, <1>3, <1>6, <1>7, <2>1 DEF Atomic!Apply, old
<1> QED
  BY <1>1, <1>8

\* Timely ingestion implements SnapshotStore: every step of the lock, load,
\* resolve, write protocol is one application, one expiry, a tick, or
\* invisible to a reader of the snapshots.
THEOREM Refinement == ASSUME Timely PROVE Spec => IngestIsAtomic
<1>1. Init => Atomic!Init
  BY DEF Init, Atomic!Init
<1>2. IInv /\ [Next]_vars => [Atomic!Next]_(Atomic!vars)
  <2> SUFFICES ASSUME IInv, [Next]_vars
               PROVE  [Atomic!Next]_(Atomic!vars)
    OBVIOUS
  <2>1. ASSUME NEW w \in Procs, WriteSnapshot(w)
        PROVE  Atomic!Next
    BY <2>1, WriteIsApply DEF Atomic!Next
  <2>2. ASSUME NEW d \in Devices, SnapshotExpire(d)
        PROVE  Atomic!Next
    BY <2>2 DEF SnapshotExpire, Atomic!Next, Atomic!Expire
  <2>3. CASE Tick
    BY <2>3 DEF Tick, Atomic!Next, Atomic!Tick
  <2>4. CASE UNCHANGED <<snapshot, now>>
    BY <2>4 DEF Atomic!vars
  <2> QED
    BY <2>1, <2>2, <2>3, <2>4 DEF Next, IngestStep, Deliver, Republish,
       LoadSnapshot, ChooseWinner, LeaveLock, Consume, LockExpire, Crash,
       vars
<1> QED
  BY <1>1, <1>2, Inductive, PTL DEF Spec, IngestIsAtomic, Atomic!Spec
=============================================================================
