------------------------------ MODULE Platform ------------------------------
(***************************************************************************)
(* The server as its clients meet it: accounts, devices and usage together *)
(* (main.py), REST requests on the event loop beside the listener thread,  *)
(* all over the same tables.                                               *)
(***************************************************************************)
EXTENDS AuthService, DeviceRegistry, UsageIngestion

\* A restart ends every request and the listener's session.
Crash ==
  /\ faults < MaxFaults
  /\ faults' = faults + 1
  /\ calls' = [c \in Callers |-> [pc |-> "idle"]]
  /\ listener' = [pc |-> "idle"]
  /\ inbox' = SessionAfterLoss
  /\ UNCHANGED <<tables, keys, clients, removed>>

\* A request that has begun goes on.
CallStep(c) ==
  \/ InsertUser(c)  \/ CommitUser(c)
  \/ CommitDevice(c)
  \/ SetOnline(c)   \/ SetBattery(c) \/ CommitHeartbeat(c)
  \/ DeleteKeys(c)  \/ CommitRemoval(c)
  \/ InsertUsage(c) \/ CommitUsage(c)

StartCall(c) ==
  \/ \E e \in Emails : CheckEmail(c, e)
  \/ \E e \in Emails, d \in Devices :
       \/ RegisterDevice(c, e, d)
       \/ \E charge \in BOOLEAN : ReadForHeartbeat(c, e, d, charge)
       \/ ReadForRemoval(c, e, d)
  \/ \E r \in Reports : ReadForReport(c, r)

ListenerStep ==
  \/ \E m \in Deliveries : Receive(m)
  \/ RecordMessage
  \/ Acknowledge

Next ==
  \/ \E c \in Callers : StartCall(c) \/ CallStep(c) \/ RequestFails(c)
  \/ \E d \in Devices : KeyExpires(d)
  \/ \E m \in Deliveries : Publish(m)
  \/ ListenerStep
  \/ Disconnect
  \/ Crash

Spec == Init /\ [][Next]_vars

\* Requests and the listener run on, and Redis expires keys.
FairSpec ==
  /\ Spec
  /\ \A c \in Callers : WF_vars(CallStep(c))
  /\ WF_vars(ListenerStep)
  /\ \A d \in Devices : WF_vars(KeyExpires(d))

-----------------------------------------------------------------------------
(* Properties *)

\* Requests have the locals their place in the code needs.
TypeOK ==
  /\ users \in [Emails -> Callers \cup {None}]
  /\ owner \in [Devices -> Emails \cup {None}]
  /\ usage \in [Sources -> Nat]
  /\ online \subseteq issued /\ battery \subseteq issued
  /\ calls \in [Callers -> Call]
  /\ issued \subseteq Devices
  /\ inbox \subseteq sent /\ listener \in Listener
  /\ sent \subseteq Sources /\ acked \subseteq Txn
  /\ removed \subseteq issued
  /\ faults \in Nat

House == INSTANCE Household
           WITH users <- users, owner <- owner, usage <- usage

\* Requests that overlap, the listener thread, restarts and lost connections
\* never show in the tables: they change only as Household says.
TablesAreSound == House!Spec

\* What a committed transaction left, or a later removal took away.
InEffect(t) ==
  CASE t.op = "user"   -> users[t.email] = t.by
    [] t.op = "device" -> owner[t.device] = t.email \/ t.device \in removed
    [] t.op = "remove" -> owner[t.device] = None
    [] t.op = "usage"  -> \/ usage[t.report] > 0
                          \/ DeviceOf[t.report] \in removed

\* Every request is answered before it is committed.  Without faults the
\* answer comes true all the same: what was acknowledged is in the tables or
\* about to be committed, whatever else goes on.
AcknowledgedHolds ==
  faults = 0 =>
    \A t \in acked : InEffect(t) \/ \E c \in Callers : calls[c] = [pc |-> "commit", txn |-> t]

\* A heartbeat that overlaps a deregistration sets the keys of a device that is
\* gone; in the end they are gone too, for good.
GoneIsOffline ==
  \A d \in Devices : d \in removed ~> [](d \notin online \cup battery)

\* A report of a device that its owner has is recorded when it reaches the
\* listener, unless the device is removed or something fails first.
PublishedIsRecorded ==
  \A m \in Deliveries, n \in 0 .. MaxFaults :
    /\ m \in inbox
    /\ listener # [pc |-> "ack", msg |-> m]
    /\ owner[DeviceOf[m]] = UserOf[m] /\ Seconds[m] > 0
    /\ faults = n
    ~> \/ usage[m] > 0
       \/ owner[DeviceOf[m]] # UserOf[m]
       \/ faults > n
=============================================================================
