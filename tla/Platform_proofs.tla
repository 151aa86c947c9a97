-------------------------- MODULE Platform_proofs --------------------------
(***************************************************************************)
(* For any accounts, devices, reports, number of requests at once and      *)
(* number of faults: the tables of the platform implement Household, and   *)
(* without faults every answer comes true.                                 *)
(***************************************************************************)
EXTENDS Platform, TLAPS

\* A device that was in the table at some time.
Known(d) == d \in issued /\ (owner[d] # None \/ d \in removed)

\* A report that was checked can only be too late.
Checked(s) == owner[DeviceOf[s]] = UserOf[s] \/ DeviceOf[s] \in removed

\* What a request that was answered may rely on until it commits.
TxnSound(c, t) ==
  /\ t.op = "user" => t.by = c /\ users[t.email] = None
  /\ t.op = "device" => /\ t.device \in issued \ removed
                        /\ owner[t.device] = None
                        /\ users[t.email] # None
  /\ t.op \in {"beat", "remove"} => Known(t.device)
  /\ t.op = "usage" => /\ owner[DeviceOf[t.report]] = UserOf[t.report]
                       /\ t.report \in sent
                       /\ usage[t.report] = 0

CallSound(c, l) ==
  /\ l.pc \in {"setOnline", "setBattery", "deleteKeys"} => Known(l.device)
  /\ l.pc = "insertUsage" => /\ Checked(l.report)
                             /\ l.report \in sent
                             /\ usage[l.report] = 0
  /\ l.pc = "commit" => TxnSound(c, l.txn)

CallsSound == \A c \in Callers : CallSound(c, calls[c])

\* The report a request is about.
Carries(l, r) ==
  \/ l.pc = "insertUsage" /\ l.report = r
  \/ l.pc = "commit" /\ l.txn.op = "usage" /\ l.txn.report = r

\* Two requests are never about to add the same account, device or report.
Apart(l, k) ==
  /\ \A r \in Reports : ~(Carries(l, r) /\ Carries(k, r))
  /\ l.pc = "commit" /\ k.pc = "commit" =>
       /\ ~(l.txn.op = "user" /\ k.txn.op = "user" /\ l.txn.email = k.txn.email)
       /\ ~(l.txn.op = "device" /\ k.txn.op = "device"
              /\ l.txn.device = k.txn.device)

CallsApart ==
  \A c, k \in Callers : c # k => Apart(calls[c], calls[k])

RowsSound ==
  /\ \A d \in Devices : owner[d] # None => d \in issued \ removed
  /\ \A s \in Sources : owner[DeviceOf[s]] = None \/ s \notin sent => usage[s] = 0

\* A message the listener has not recorded yet has no row.
ListenerSound ==
  /\ \A m \in inbox : listener # [pc |-> "ack", msg |-> m] => usage[m] = 0
  /\ inbox \subseteq Deliveries
  /\ listener.pc = "insert" => /\ Checked(listener.msg)
                               /\ listener.msg \in sent
                               /\ usage[listener.msg] = 0

\* What was acknowledged holds for good.
Done(t) ==
  /\ t.op = "user" => users[t.email] = t.by
  /\ t.op = "device" => owner[t.device] = t.email \/ t.device \in removed
  /\ t.op = "remove" => t.device \in removed
  /\ t.op = "usage" => \/ usage[t.report] > 0
                       \/ DeviceOf[t.report] \in removed

Pending(t) == \E c \in Callers : calls[c] = [pc |-> "commit", txn |-> t]

AnswersKept ==
  faults = 0 => \A t \in acked : t.op # "beat" /\ (Done(t) \/ Pending(t))

IInv ==
  /\ TypeOK /\ CallsSound /\ CallsApart /\ RowsSound /\ ListenerSound
  /\ AnswersKept

-----------------------------------------------------------------------------
(* Shapes *)

\* A transaction has the fields of its operation.
LEMMA TxnShape ==
  ASSUME NEW t \in Txn
  PROVE  /\ t.op \in {"user", "device", "beat", "remove", "usage"}
         /\ t.op = "user" => t.email \in Emails /\ t.by \in Callers
         /\ t.op = "device" => t.device \in Devices /\ t.email \in Emails
         /\ t.op \in {"beat", "remove"} => t.device \in Devices
         /\ t.op = "usage" => t.report \in Reports
BY DEF Txn

\* A request has the locals of its place.
LEMMA CallShape ==
  ASSUME NEW l \in Call
  PROVE  /\ l.pc \in {"idle", "insertUser", "setOnline", "setBattery",
                      "deleteKeys", "insertUsage", "commit"}
         /\ l.pc = "insertUser" => l.email \in Emails
         /\ l.pc \in {"setOnline", "setBattery", "deleteKeys"} =>
              l.device \in Devices
         /\ l.pc = "setOnline" => l.charge \in BOOLEAN
         /\ l.pc = "insertUsage" => l.report \in Reports
         /\ l.pc = "commit" => l.txn \in Txn
BY DEF Call

\* The listener has a message when it is at work.
LEMMA ListenerShape ==
  ASSUME NEW l \in Listener
  PROVE  /\ l.pc \in {"idle", "insert", "ack"}
         /\ l.pc # "idle" => l.msg \in Deliveries
         /\ l.pc = "ack" => l = [pc |-> "ack", msg |-> l.msg]
BY DEF Listener

\* Requests that are apart are so in either order.
LEMMA ApartSymmetric == ASSUME NEW l, NEW k, Apart(l, k) PROVE Apart(k, l)
BY DEF Apart

\* A request that goes on and writes to no table keeps what all requests rely
\* on, if it does so itself.
LEMMA GoOn ==
  ASSUME IInv, NEW c \in Callers, NEW x, Goto(c, x),
         UNCHANGED <<users, owner, usage, removed>>,
         issued \subseteq issued', sent \subseteq sent',
         CallSound(c, x)',
         \A k \in Callers \ {c} : Apart(x, calls[k])
  PROVE  CallsSound' /\ CallsApart' /\ RowsSound'
<1>1. /\ calls'[c] = x
      /\ \A k \in Callers \ {c} : calls'[k] = calls[k]
  BY DEF Goto, IInv, TypeOK
<1>2. ASSUME NEW k \in Callers \ {c}
      PROVE  CallSound(k, calls[k])'
  <2>1. CallSound(k, calls[k]) /\ calls'[k] = calls[k]
    BY <1>1 DEF IInv, CallsSound
  <2> QED
    BY <2>1 DEF CallSound, TxnSound, Known, Checked
<1>3. CallsSound'
  BY <1>1, <1>2 DEF CallsSound
<1>4. CallsApart'
  BY <1>1, ApartSymmetric DEF CallsApart, IInv
<1>5. RowsSound'
  BY DEF RowsSound, IInv
<1> QED
  BY <1>3, <1>4, <1>5

\* ... and keeps the whole invariant, if no answer is given up.
LEMMA Proceed ==
  ASSUME IInv, NEW c \in Callers, NEW x, Goto(c, x), TypeOK',
         UNCHANGED <<users, owner, usage, removed, inbox, listener>>,
         issued \subseteq issued', sent \subseteq sent',
         CallSound(c, x)',
         \A k \in Callers \ {c} : Apart(x, calls[k]),
         \/ faults' # 0
         \/ UNCHANGED faults /\ (At(c, "commit") => calls[c].txn.op = "beat"),
         \A t \in acked' :
           t \in acked \/ (t.op # "beat" /\ x = [pc |-> "commit", txn |-> t])
  PROVE  IInv'
<1>1. CallsSound' /\ CallsApart' /\ RowsSound'
  BY GoOn
<1>2. ListenerSound'
  BY DEF ListenerSound, Checked, IInv
<1>3. ASSUME NEW t \in acked', faults' = 0
      PROVE  (t.op # "beat" /\ (Done(t) \/ Pending(t)))'
  <2>1. calls' = [calls EXCEPT ![c] = x] /\ calls \in [Callers -> Call]
    BY DEF Goto, IInv, TypeOK
  <2>2. CASE t \in acked
    <3>1. t.op # "beat" /\ (Done(t) \/ Pending(t))
      BY <1>3, <2>2 DEF IInv, AnswersKept
    <3>2. Done(t) => Done(t)'
      BY DEF Done
    <3>3. ASSUME NEW k \in Callers, calls[k] = [pc |-> "commit", txn |-> t]
          PROVE  Pending(t)'
      <4>1. k # c
        BY <1>3, <3>1, <3>3 DEF At
      <4> QED
        BY <2>1, <3>3, <4>1 DEF Pending
    <3> QED
      BY <3>1, <3>2, <3>3 DEF Pending
  <2>3. CASE t.op # "beat" /\ x = [pc |-> "commit", txn |-> t]
    BY <2>1, <2>3 DEF Pending
  <2> QED
    BY <2>2, <2>3
<1>4. AnswersKept'
  BY <1>3 DEF AnswersKept
<1> QED
  BY <1>1, <1>2, <1>4 DEF IInv

-----------------------------------------------------------------------------
(* Requests, up to their answer *)

\* The first half of a registration.
LEMMA CheckEmailStep ==
  ASSUME IInv, NEW c \in Callers, NEW e \in Emails, CheckEmail(c, e)
  PROVE  IInv'
<1> DEFINE x == [pc |-> "insertUser", email |-> e]
<1>1. x \in Call
  BY DEF Call
<1>2. TypeOK'
  BY <1>1 DEF CheckEmail, Goto, IInv, TypeOK, tables, keys, mqtt, clients
<1>3. CallSound(c, x)' /\ \A k \in Callers \ {c} : Apart(x, calls[k])
  BY DEF CallSound, Apart, Carries
<1> HIDE DEF x
<1> QED
  BY <1>2, <1>3, Proceed DEF CheckEmail, At, tables, keys, mqtt, clients, x

\* The second half: the unique index lets one of several through.
LEMMA InsertUserStep ==
  ASSUME IInv, NEW c \in Callers, InsertUser(c)
  PROVE  IInv'
<1>1. PICK e \in Emails : e = calls[c].email
  BY CallShape DEF InsertUser, At, IInv, TypeOK
<1> DEFINE t == [op |-> "user", email |-> e, by |-> c]
           x == [pc |-> "commit", txn |-> t]
           y == [pc |-> "idle"]
<1>2. t \in Txn /\ x \in Call /\ y \in Call
  BY DEF Call, Txn
<1>3. CASE UniqueHolds(e) /\ Answer(c, t)
  <2>1. TypeOK'
    BY <1>2, <1>3 DEF InsertUser, Answer, Goto, IInv, TypeOK, tables, keys,
                      mqtt
  <2>2. CallSound(c, x)'
    BY <1>3 DEF InsertUser, UniqueHolds, CallSound, TxnSound, tables
  <2>3. \A k \in Callers \ {c} : Apart(x, calls[k])
    BY <1>1 DEF InsertUser, EmailClaimed, Committing, At, Apart, Carries
  <2> HIDE DEF x
  <2> QED
    BY <1>3, <2>1, <2>2, <2>3, Proceed
    DEF InsertUser, Answer, At, tables, keys, mqtt, clients, x
<1>4. CASE Goto(c, y) /\ UNCHANGED acked
  <2>1. TypeOK'
    BY <1>2, <1>4 DEF InsertUser, Goto, IInv, TypeOK, tables, keys, mqtt
  <2>2. CallSound(c, y)' /\ \A k \in Callers \ {c} : Apart(y, calls[k])
    BY DEF CallSound, Apart, Carries
  <2> HIDE DEF y
  <2> QED
    BY <1>4, <2>1, <2>2, Proceed
    DEF InsertUser, At, tables, keys, mqtt, clients
<1> QED
  BY <1>1, <1>3, <1>4 DEF InsertUser

\* A device id is drawn that nobody has.
LEMMA RegisterDeviceStep ==
  ASSUME IInv, NEW c \in Callers, NEW e \in Emails, NEW d \in Devices,
         RegisterDevice(c, e, d)
  PROVE  IInv'
<1> DEFINE t == [op |-> "device", device |-> d, email |-> e]
           x == [pc |-> "commit", txn |-> t]
<1>1. t \in Txn /\ x \in Call
  BY DEF Call, Txn
<1>2. TypeOK'
  BY <1>1 DEF RegisterDevice, Answer, Goto, IInv, TypeOK, tables, keys, mqtt
<1>3. CallSound(c, x)'
  BY DEF RegisterDevice, LoggedIn, CallSound, TxnSound, RowsSound, IInv, TypeOK,
         tables
<1>4. \A k \in Callers \ {c} : Apart(x, calls[k])
  BY DEF RegisterDevice, Apart, Carries, CallsSound, CallSound, TxnSound, IInv
<1> HIDE DEF x
<1> QED
  BY <1>2, <1>3, <1>4, Proceed
  DEF RegisterDevice, Answer, At, tables, keys, mqtt, clients, x

\* A heartbeat is for a device in the table.
LEMMA ReadForHeartbeatStep ==
  ASSUME IInv, NEW c \in Callers, NEW e \in Emails, NEW d \in Devices,
         NEW b \in BOOLEAN, ReadForHeartbeat(c, e, d, b)
  PROVE  IInv'
<1> DEFINE x == [pc |-> "setOnline", device |-> d, charge |-> b]
<1>1. x \in Call
  BY DEF Call
<1>2. TypeOK'
  BY <1>1 DEF ReadForHeartbeat, Goto, IInv, TypeOK, tables, keys, mqtt, clients
<1>3. CallSound(c, x)'
  BY RequestAssumption
  DEF ReadForHeartbeat, DeviceForUser, CallSound, Known, RowsSound, IInv,
      tables, clients
<1>4. \A k \in Callers \ {c} : Apart(x, calls[k])
  BY DEF Apart, Carries
<1> HIDE DEF x
<1> QED
  BY <1>2, <1>3, <1>4, Proceed
  DEF ReadForHeartbeat, At, tables, keys, mqtt, clients, x

\* The keys of a heartbeat are those of a device that was in the table.
LEMMA SetOnlineStep ==
  ASSUME IInv, NEW c \in Callers, SetOnline(c)
  PROVE  IInv'
<1>1. PICK d \in Devices : d = calls[c].device
  BY CallShape DEF SetOnline, At, IInv, TypeOK
<1> DEFINE y == [pc |-> "setBattery", device |-> d]
           z == [pc |-> "commit", txn |-> [op |-> "beat", device |-> d]]
<1>2. PICK x : x = (IF calls[c].charge THEN y ELSE z)
  OBVIOUS
<1>3. x \in Call
  BY <1>2 DEF Call, Txn
<1>4. Known(d)
  BY <1>1 DEF SetOnline, At, CallsSound, CallSound, IInv
<1>5. Goto(c, x)
  BY <1>1, <1>2 DEF SetOnline
<1>6. TypeOK'
  BY <1>1, <1>3, <1>4, <1>5
  DEF SetOnline, Goto, Known, IInv, TypeOK, tables, mqtt, clients
<1>7. CallSound(c, x)'
  BY <1>2, <1>4 DEF SetOnline, CallSound, TxnSound, Known, tables, clients
<1>8. \A k \in Callers \ {c} : Apart(x, calls[k])
  BY <1>2 DEF Apart, Carries
<1> HIDE DEF y, z
<1> QED
  BY <1>5, <1>6, <1>7, <1>8, Proceed
  DEF SetOnline, At, tables, mqtt, clients

\* The battery key likewise.
LEMMA SetBatteryStep ==
  ASSUME IInv, NEW c \in Callers, SetBattery(c)
  PROVE  IInv'
<1>1. PICK d \in Devices : d = calls[c].device
  BY CallShape DEF SetBattery, At, IInv, TypeOK
<1> DEFINE x == [pc |-> "commit", txn |-> [op |-> "beat", device |-> d]]
<1>2. x \in Call
  BY DEF Call, Txn
<1>3. Known(d)
  BY <1>1 DEF SetBattery, At, CallsSound, CallSound, IInv
<1>4. TypeOK'
  BY <1>1, <1>2, <1>3
  DEF SetBattery, Goto, Known, IInv, TypeOK, tables, mqtt, clients
<1>5. CallSound(c, x)'
  BY <1>3 DEF SetBattery, CallSound, TxnSound, Known, tables, clients
<1>6. \A k \in Callers \ {c} : Apart(x, calls[k])
  BY DEF Apart, Carries
<1>7. Goto(c, x)
  BY <1>1 DEF SetBattery
<1> HIDE DEF x
<1> QED
  BY <1>4, <1>5, <1>6, <1>7, Proceed
  DEF SetBattery, At, tables, mqtt, clients

\* A heartbeat is committed, or finds its row gone.
LEMMA CommitHeartbeatStep ==
  ASSUME IInv, NEW c \in Callers, CommitHeartbeat(c)
  PROVE  IInv'
<1> DEFINE x == [pc |-> "idle"]
<1>1. x \in Call
  BY DEF Call
<1>2. TypeOK'
  BY <1>1 DEF CommitHeartbeat, Goto, IInv, TypeOK, tables, keys, mqtt, clients
<1>3. CallSound(c, x)' /\ \A k \in Callers \ {c} : Apart(x, calls[k])
  BY DEF CallSound, Apart, Carries
<1> HIDE DEF x
<1> QED
  BY <1>2, <1>3, Proceed
  DEF CommitHeartbeat, Committing, At, tables, keys, mqtt, clients, x

\* A removal is of a device in the table.
LEMMA ReadForRemovalStep ==
  ASSUME IInv, NEW c \in Callers, NEW e \in Emails, NEW d \in Devices,
         ReadForRemoval(c, e, d)
  PROVE  IInv'
<1> DEFINE x == [pc |-> "deleteKeys", device |-> d]
<1>1. x \in Call
  BY DEF Call
<1>2. TypeOK'
  BY <1>1 DEF ReadForRemoval, Goto, IInv, TypeOK, tables, keys, mqtt, clients
<1>3. CallSound(c, x)'
  BY RequestAssumption
  DEF ReadForRemoval, DeviceForUser, CallSound, Known, RowsSound, IInv,
      tables, clients
<1>4. \A k \in Callers \ {c} : Apart(x, calls[k])
  BY DEF Apart, Carries
<1> HIDE DEF x
<1> QED
  BY <1>2, <1>3, <1>4, Proceed
  DEF ReadForRemoval, At, tables, keys, mqtt, clients, x

\* Its keys go, and the removal is answered.
LEMMA DeleteKeysStep ==
  ASSUME IInv, NEW c \in Callers, DeleteKeys(c)
  PROVE  IInv'
<1>1. PICK d \in Devices : d = calls[c].device
  BY CallShape DEF DeleteKeys, At, IInv, TypeOK
<1> DEFINE t == [op |-> "remove", device |-> d]
           x == [pc |-> "commit", txn |-> t]
<1>2. t \in Txn /\ x \in Call
  BY DEF Call, Txn
<1>3. Known(d)
  BY <1>1 DEF DeleteKeys, At, CallsSound, CallSound, IInv
<1>4. Goto(c, x) /\ acked' = acked \cup {t}
  BY <1>1 DEF DeleteKeys, Answer
<1>5. TypeOK'
  BY <1>2, <1>4 DEF DeleteKeys, Goto, IInv, TypeOK, tables, mqtt
<1>6. CallSound(c, x)'
  BY <1>3 DEF DeleteKeys, CallSound, TxnSound, Known, tables
<1>7. \A k \in Callers \ {c} : Apart(x, calls[k])
  BY DEF Apart, Carries
<1> HIDE DEF x
<1> QED
  BY <1>4, <1>5, <1>6, <1>7, Proceed
  DEF DeleteKeys, At, tables, mqtt, clients, x

\* A report over REST is checked against the owner of its device.
LEMMA ReadForReportStep ==
  ASSUME IInv, NEW c \in Callers, NEW r \in Reports, ReadForReport(c, r)
  PROVE  IInv'
<1> DEFINE x == [pc |-> "insertUsage", report |-> r]
<1>1. x \in Call /\ r \in Sources
  BY DEF Call, Sources
<1>2. TypeOK'
  BY <1>1 DEF ReadForReport, Goto, IInv, TypeOK, tables, keys, mqtt
<1>3. CallSound(c, x)'
  BY <1>1 DEF ReadForReport, CallSound, Checked, RowsSound, IInv, tables
<1>4. \A k \in Callers \ {c} : Apart(x, calls[k])
  BY DEF ReadForReport, Apart, Carries, CallsSound, CallSound, TxnSound, IInv
<1> HIDE DEF x
<1> QED
  BY <1>2, <1>3, <1>4, Proceed
  DEF ReadForReport, At, tables, keys, mqtt, clients, x

\* It is inserted if the device is still there, which then has the same owner.
LEMMA InsertUsageStep ==
  ASSUME IInv, NEW c \in Callers, InsertUsage(c)
  PROVE  IInv'
<1>1. PICK r \in Reports : r = calls[c].report
  BY CallShape DEF InsertUsage, At, IInv, TypeOK
<1> DEFINE t == [op |-> "usage", report |-> r]
           x == [pc |-> "commit", txn |-> t]
           y == [pc |-> "idle"]
<1>2. t \in Txn /\ x \in Call /\ y \in Call
  BY DEF Call, Txn
<1>3. CASE DeviceExists(r) /\ Answer(c, t)
  <2>1. TypeOK'
    BY <1>2, <1>3 DEF InsertUsage, Answer, Goto, IInv, TypeOK, tables, keys,
                      mqtt
  <2>2. Checked(r) /\ r \in sent /\ usage[r] = 0
    BY <1>1 DEF InsertUsage, At, CallsSound, CallSound, IInv
  <2>3. owner[DeviceOf[r]] = UserOf[r]
    BY <1>3, <2>2, RequestAssumption
    DEF DeviceExists, Checked, RowsSound, IInv, Sources
  <2>4. CallSound(c, x)'
    BY <2>2, <2>3 DEF InsertUsage, CallSound, TxnSound, tables
  <2>5. \A k \in Callers \ {c} : Apart(x, calls[k])
    BY <1>1 DEF InsertUsage, At, Apart, Carries, CallsApart, IInv
  <2> HIDE DEF x
  <2> QED
    BY <1>3, <2>1, <2>4, <2>5, Proceed
    DEF InsertUsage, Answer, At, tables, keys, mqtt, clients, x
<1>4. CASE Goto(c, y) /\ UNCHANGED acked
  <2>1. TypeOK'
    BY <1>2, <1>4 DEF InsertUsage, Goto, IInv, TypeOK, tables, keys, mqtt
  <2>2. CallSound(c, y)' /\ \A k \in Callers \ {c} : Apart(y, calls[k])
    BY DEF CallSound, Apart, Carries
  <2> HIDE DEF y
  <2> QED
    BY <1>4, <2>1, <2>2, Proceed
    DEF InsertUsage, At, tables, keys, mqtt, clients
<1> QED
  BY <1>1, <1>3, <1>4 DEF InsertUsage

\* A request that fails leaves nothing in the tables.
LEMMA RequestFailsStep ==
  ASSUME IInv, NEW c \in Callers, RequestFails(c)
  PROVE  IInv'
<1> DEFINE x == [pc |-> "idle"]
<1>1. x \in Call
  BY DEF Call
<1>2. TypeOK' /\ faults' # 0
  BY <1>1 DEF RequestFails, Goto, IInv, TypeOK, tables, keys, mqtt, clients
<1>3. CallSound(c, x)' /\ \A k \in Callers \ {c} : Apart(x, calls[k])
  BY DEF CallSound, Apart, Carries
<1> HIDE DEF x
<1> QED
  BY <1>2, <1>3, Proceed
  DEF RequestFails, tables, keys, mqtt, clients, x

-----------------------------------------------------------------------------
(* Commits *)

\* A commit makes its own answer true and no other untrue.
LEMMA Answered ==
  ASSUME IInv, NEW c \in Callers, At(c, "commit"), Goto(c, [pc |-> "idle"]),
         UNCHANGED <<acked, faults>>,
         \A t \in Txn : Done(t) => Done(t)',
         NEW u \in Txn, u = calls[c].txn, Done(u)'
  PROVE  AnswersKept'
<1> SUFFICES ASSUME faults' = 0, NEW t \in acked
             PROVE  (t.op # "beat" /\ (Done(t) \/ Pending(t)))'
  BY DEF AnswersKept
<1>1. t \in Txn /\ t.op # "beat" /\ (Done(t) \/ Pending(t))
  BY DEF IInv, TypeOK, AnswersKept
<1>2. ASSUME NEW k \in Callers, calls[k] = [pc |-> "commit", txn |-> t]
      PROVE  (Done(t) \/ Pending(t))'
  <2>1. CASE k = c
    <3>1. t = u
      BY <1>2, <2>1
    <3> QED
      BY <3>1
  <2>2. CASE k # c
    <3>1. calls'[k] = [pc |-> "commit", txn |-> t]
      BY <1>2, <2>2 DEF Goto, IInv, TypeOK
    <3> QED
      BY <3>1 DEF Pending
  <2> QED
    BY <2>1, <2>2
<1> QED
  BY <1>1, <1>2 DEF Pending

\* A request that ends leaves the others apart.
LEMMA EndApart ==
  ASSUME IInv, NEW c \in Callers, Goto(c, [pc |-> "idle"])
  PROVE  /\ CallsApart'
         /\ calls'[c] = [pc |-> "idle"]
         /\ \A k \in Callers \ {c} : calls'[k] = calls[k]
         /\ calls' \in [Callers -> Call]
<1>1. /\ calls'[c] = [pc |-> "idle"]
      /\ \A k \in Callers \ {c} : calls'[k] = calls[k]
  BY DEF Goto, IInv, TypeOK
<1>2. \A l : Apart([pc |-> "idle"], l) /\ Apart(l, [pc |-> "idle"])
  BY DEF Apart, Carries
<1>3. CallsApart'
  BY <1>1, <1>2 DEF CallsApart, IInv
<1>4. [pc |-> "idle"] \in Call
  BY DEF Call
<1> QED
  BY <1>1, <1>3, <1>4 DEF Goto, IInv, TypeOK

\* An account is committed: nobody else is about to commit the address.
LEMMA CommitUserStep ==
  ASSUME IInv, NEW c \in Callers, CommitUser(c)
  PROVE  IInv' /\ House!Next
<1>1. PICK t \in Txn : t = calls[c].txn
  BY CallShape DEF CommitUser, Committing, At, IInv, TypeOK
<1>2. t.op = "user" /\ t.email \in Emails /\ t.by = c /\ users[t.email] = None
  BY <1>1, TxnShape
  DEF CommitUser, Committing, At, CallsSound, CallSound, TxnSound, IInv
<1>3. users' = [users EXCEPT ![t.email] = c]
  BY <1>1, <1>2 DEF CommitUser
<1>4. users \in [Emails -> Callers \cup {None}]
  BY DEF IInv, TypeOK
<1>5. TypeOK'
  BY <1>2, <1>3, EndApart
  DEF CommitUser, IInv, TypeOK, keys, mqtt, clients
<1>6. ASSUME NEW k \in Callers
      PROVE  CallSound(k, calls[k])'
  <2>1. CASE k = c
    BY <2>1, EndApart DEF CommitUser, CallSound
  <2>2. CASE k # c
    <3>1. CallSound(k, calls[k]) /\ calls'[k] = calls[k]
      BY <2>2, EndApart DEF CommitUser, IInv, CallsSound
    <3>2. calls[k].pc = "commit" /\ calls[k].txn.op = "user" =>
            calls[k].txn.email # t.email
      BY <1>1, <1>2, <2>2
      DEF CommitUser, Committing, At, CallsApart, Apart, IInv
    <3>3. calls[k].pc = "commit" => /\ calls[k].txn \in Txn
                                    /\ calls[k].txn.op = "user" =>
                                         calls[k].txn.email \in Emails
                                    /\ calls[k].txn.op = "device" =>
                                         calls[k].txn.email \in Emails
      BY CallShape, TxnShape DEF IInv, TypeOK
    <3>4. calls[k].pc = "commit" => TxnSound(k, calls[k].txn)'
      BY <1>2, <1>3, <1>4, <3>1, <3>2, <3>3, RequestAssumption
      DEF CommitUser, CallSound, TxnSound, Known, keys, mqtt, clients
    <3> QED
      BY <3>1, <3>4
      DEF CommitUser, CallSound, Known, Checked, keys, mqtt, clients
  <2> QED
    BY <2>1, <2>2
<1>7. CallsSound'
  BY <1>6 DEF CallsSound
<1>8. RowsSound' /\ ListenerSound'
  BY DEF CommitUser, RowsSound, ListenerSound, Checked, IInv, mqtt, clients
<1>9. AnswersKept'
  <2>1. ASSUME NEW u \in Txn, Done(u)
        PROVE  Done(u)'
    <3>1. u.op = "user" => u.email # t.email \/ u.by = None
      BY <1>2, <2>1 DEF Done
    <3>2. u.op = "user" => u.email # t.email /\ u.email \in Emails
      BY <3>1, TxnShape, RequestAssumption
    <3> QED
      BY <1>3, <1>4, <2>1, <3>2 DEF CommitUser, Done
  <2>2. Done(t)'
    BY <1>2, <1>3, <1>4 DEF Done
  <2> QED
    BY <1>1, <2>1, <2>2, Answered DEF CommitUser, Committing, clients
<1>10. House!AddAccount(t.email, c)
  BY <1>2, <1>3 DEF CommitUser, House!AddAccount
<1> QED
  BY <1>2, <1>5, <1>7, <1>8, <1>9, <1>10, EndApart
  DEF CommitUser, IInv, House!Next

\* A device is committed: its id is in nobody else's hands.
LEMMA CommitDeviceStep ==
  ASSUME IInv, NEW c \in Callers, CommitDevice(c)
  PROVE  IInv' /\ House!Next
<1>1. PICK t \in Txn : t = calls[c].txn
  BY CallShape DEF CommitDevice, Committing, At, IInv, TypeOK
<1>2. /\ t.op = "device" /\ t.device \in Devices /\ t.email \in Emails
      /\ t.device \in issued \ removed /\ owner[t.device] = None
      /\ users[t.email] # None
  BY <1>1, TxnShape
  DEF CommitDevice, Committing, At, CallsSound, CallSound, TxnSound, IInv
<1>3. owner' = [owner EXCEPT ![t.device] = t.email] /\ t.email # None
  BY <1>1, <1>2, RequestAssumption DEF CommitDevice
<1>4. owner \in [Devices -> Emails \cup {None}]
  BY DEF IInv, TypeOK
<1>5. TypeOK'
  BY <1>2, <1>3, EndApart
  DEF CommitDevice, IInv, TypeOK, keys, mqtt, clients
<1>6. \A d \in Devices : Known(d) => Known(d)'
  BY <1>2, <1>3, <1>4 DEF CommitDevice, Known, clients
<1>7. \A s \in Sources : Checked(s) => Checked(s)'
  BY <1>2, <1>3, <1>4, RequestAssumption DEF CommitDevice, Checked
<1>8. ASSUME NEW k \in Callers
      PROVE  CallSound(k, calls[k])'
  <2>1. CASE k = c
    BY <2>1, EndApart DEF CommitDevice, CallSound
  <2>2. CASE k # c
    <3>1. CallSound(k, calls[k]) /\ calls'[k] = calls[k] /\ calls[k] \in Call
      BY <2>2, EndApart DEF CommitDevice, IInv, CallsSound, TypeOK
    <3>2. calls[k].pc = "commit" /\ calls[k].txn.op = "device" =>
            calls[k].txn.device # t.device
      BY <1>1, <1>2, <2>2
      DEF CommitDevice, Committing, At, CallsApart, Apart, IInv
    <3>3. CASE calls[k].pc = "commit"
      <4>1. PICK u \in Txn : u = calls[k].txn
        BY <3>1, <3>3, CallShape
      <4>2. TxnSound(k, u)
        BY <3>1, <3>3, <4>1 DEF CallSound
      <4>3. TxnSound(k, u)'
        BY <1>2, <1>3, <1>4, <1>6, <3>2, <3>3, <4>1, <4>2, TxnShape,
           RequestAssumption
        DEF CommitDevice, TxnSound, Sources, clients
      <4> QED
        BY <3>1, <3>3, <4>1, <4>3 DEF CallSound
    <3>4. CASE calls[k].pc # "commit"
      BY <1>6, <1>7, <3>1, <3>4, CallShape
      DEF CommitDevice, CallSound, Sources, clients
    <3> QED
      BY <3>3, <3>4
  <2> QED
    BY <2>1, <2>2
<1>9. CallsSound'
  BY <1>8 DEF CallsSound
<1>10. RowsSound'
  BY <1>2, <1>3, <1>4, RequestAssumption
  DEF CommitDevice, RowsSound, IInv, clients
<1>11. ListenerSound'
  BY <1>7, ListenerShape
  DEF CommitDevice, ListenerSound, IInv, TypeOK, Sources, mqtt, clients
<1>12. AnswersKept'
  <2>1. ASSUME NEW u \in Txn, Done(u)
        PROVE  Done(u)'
    BY <1>2, <1>3, <1>4, <2>1, TxnShape, RequestAssumption
    DEF CommitDevice, Done
  <2>2. Done(t)'
    BY <1>2, <1>3, <1>4 DEF Done
  <2> QED
    BY <1>1, <2>1, <2>2, Answered DEF CommitDevice, Committing, clients
<1>13. House!AddDevice(t.device, t.email)
  BY <1>2, <1>3 DEF CommitDevice, House!AddDevice
<1> QED
  BY <1>2, <1>5, <1>9, <1>10, <1>11, <1>12, <1>13, EndApart
  DEF CommitDevice, IInv, House!Next

\* A removal takes the usage along, and the locks keep reports that are about
\* to be committed out of its way.  The second of two removals changes nothing.
LEMMA CommitRemovalStep ==
  ASSUME IInv, NEW c \in Callers, CommitRemoval(c)
  PROVE  IInv' /\ [House!Next]_<<users, owner, usage>>
<1>1. PICK t \in Txn : t = calls[c].txn
  BY CallShape DEF CommitRemoval, Committing, At, IInv, TypeOK
<1>2. PICK d \in Devices : d = t.device
  BY <1>1, TxnShape DEF CommitRemoval, Committing
<1>3. t.op = "remove" /\ Known(d) /\ ~Referenced(d)
  BY <1>1, <1>2
  DEF CommitRemoval, Committing, At, CallsSound, CallSound, TxnSound, IInv
<1>4. /\ owner' = [owner EXCEPT ![d] = None]
      /\ usage' = [s \in Sources |-> IF DeviceOf[s] = d THEN 0 ELSE usage[s]]
      /\ removed' = removed \cup {d}
  BY <1>1, <1>2 DEF CommitRemoval, UsageWithout
<1>5. owner \in [Devices -> Emails \cup {None}] /\ usage \in [Sources -> Nat]
  BY DEF IInv, TypeOK
<1>6. TypeOK'
  BY <1>3, <1>4, EndApart
  DEF CommitRemoval, Known, IInv, TypeOK, keys, mqtt, clients
<1>7. \A e \in Devices : Known(e) => Known(e)'
  BY <1>4, <1>5 DEF CommitRemoval, Known, clients
<1>8. \A s \in Sources : Checked(s) => Checked(s)'
  BY <1>4, <1>5, RequestAssumption DEF Checked
<1>9. \A s \in Sources : usage[s] = 0 => usage'[s] = 0
  BY <1>4
<1>10. ASSUME NEW k \in Callers
       PROVE  CallSound(k, calls[k])'
  <2>1. CASE k = c
    BY <2>1, EndApart DEF CommitRemoval, CallSound
  <2>2. CASE k # c
    <3>1. CallSound(k, calls[k]) /\ calls'[k] = calls[k] /\ calls[k] \in Call
      BY <2>2, EndApart DEF CommitRemoval, IInv, CallsSound, TypeOK
    <3>2. CASE calls[k].pc = "commit"
      <4>1. PICK u \in Txn : u = calls[k].txn
        BY <3>1, <3>2, CallShape
      <4>2. TxnSound(k, u)
        BY <3>1, <3>2, <4>1 DEF CallSound
      <4>3. u.op = "device" => u.device # d
        BY <1>3, <4>2 DEF TxnSound, Known
      <4>4. u.op = "usage" => DeviceOf[u.report] # d
        BY <1>3, <3>2, <4>1 DEF Referenced, Committing, At
      <4>5. TxnSound(k, u)'
        BY <1>4, <1>5, <1>7, <1>9, <4>2, <4>3, <4>4, TxnShape,
           RequestAssumption
        DEF CommitRemoval, TxnSound, Sources, clients
      <4> QED
        BY <3>1, <3>2, <4>1, <4>5 DEF CallSound
    <3>3. CASE calls[k].pc # "commit"
      BY <1>7, <1>8, <1>9, <3>1, <3>3, CallShape
      DEF CommitRemoval, CallSound, Sources, clients
    <3> QED
      BY <3>2, <3>3
  <2> QED
    BY <2>1, <2>2
<1>11. CallsSound'
  BY <1>10 DEF CallsSound
<1>12. RowsSound'
  BY <1>4, <1>5, <1>9, RequestAssumption
  DEF CommitRemoval, RowsSound, IInv, clients
<1>13. ListenerSound'
  BY <1>8, <1>9, ListenerShape
  DEF CommitRemoval, ListenerSound, IInv, TypeOK, Sources, mqtt, clients
<1>14. AnswersKept'
  <2>1. ASSUME NEW u \in Txn, Done(u)
        PROVE  Done(u)'
    BY <1>4, <1>5, <2>1, TxnShape, RequestAssumption
    DEF CommitRemoval, Done, Sources
  <2>2. Done(t)'
    BY <1>2, <1>3, <1>4 DEF Done
  <2> QED
    BY <1>1, <2>1, <2>2, Answered DEF CommitRemoval, Committing, clients
<1>15. CASE owner[d] = None
  <2>1. owner' = owner
    BY <1>4, <1>5, <1>15
  <2>2. \A s \in Sources : usage'[s] = usage[s]
    BY <1>4, <1>15 DEF RowsSound, IInv
  <2>3. usage' = usage
    BY <1>4, <1>5, <2>2
  <2> QED
    BY <1>6, <1>11, <1>12, <1>13, <1>14, <2>1, <2>3, EndApart
    DEF CommitRemoval, IInv
<1>16. CASE owner[d] # None
  <2>1. House!RemoveDevice(d)
    BY <1>4, <1>16 DEF CommitRemoval, House!RemoveDevice
  <2> QED
    BY <1>6, <1>11, <1>12, <1>13, <1>14, <2>1, EndApart
    DEF CommitRemoval, IInv, House!Next
<1> QED
  BY <1>15, <1>16

\* A row is added to usage_events for a report that has none.
LEMMA RowAdded ==
  ASSUME IInv, NEW s \in Sources, usage[s] = 0, usage' = OneMoreRow(s),
         owner[DeviceOf[s]] = UserOf[s]
  PROVE  /\ usage' = [usage EXCEPT ![s] = 1]
         /\ usage' \in [Sources -> Nat]
         /\ usage'[s] > 0
         /\ \A r \in Sources \ {s} : usage'[r] = usage[r]
BY DEF OneMoreRow, IInv, TypeOK

\* A report over REST is committed: nobody else has it in hand, and the device
\* is still its owner's.
LEMMA CommitUsageStep ==
  ASSUME IInv, NEW c \in Callers, CommitUsage(c)
  PROVE  IInv' /\ House!Next
<1>1. PICK t \in Txn : t = calls[c].txn
  BY CallShape DEF CommitUsage, Committing, At, IInv, TypeOK
<1>2. PICK r \in Reports : r = t.report
  BY <1>1, TxnShape DEF CommitUsage, Committing
<1>3. /\ t.op = "usage" /\ r \in sent /\ usage[r] = 0
      /\ owner[DeviceOf[r]] = UserOf[r]
  BY <1>1, <1>2
  DEF CommitUsage, Committing, At, CallsSound, CallSound, TxnSound, IInv
<1>4. r \in Sources /\ r \notin Deliveries /\ UserOf[r] # None
  BY RequestAssumption DEF Sources
<1>5. /\ usage' = [usage EXCEPT ![r] = 1]
      /\ usage' \in [Sources -> Nat]
      /\ usage'[r] > 0
      /\ \A s \in Sources \ {r} : usage'[s] = usage[s]
  BY <1>1, <1>2, <1>3, <1>4, RowAdded DEF CommitUsage
<1>6. TypeOK'
  BY <1>5, EndApart DEF CommitUsage, IInv, TypeOK, keys, mqtt, clients
<1>7. ASSUME NEW k \in Callers
      PROVE  CallSound(k, calls[k])'
  <2>1. CASE k = c
    BY <2>1, EndApart DEF CommitUsage, CallSound
  <2>2. CASE k # c
    <3>1. CallSound(k, calls[k]) /\ calls'[k] = calls[k] /\ calls[k] \in Call
      BY <2>2, EndApart DEF CommitUsage, IInv, CallsSound, TypeOK
    <3>2. ~Carries(calls[k], r)
      BY <1>1, <1>2, <1>3, <2>2
      DEF CommitUsage, Committing, At, CallsApart, Apart, Carries, IInv
    <3>3. CASE calls[k].pc = "commit"
      <4>1. PICK u \in Txn : u = calls[k].txn
        BY <3>1, <3>3, CallShape
      <4>2. TxnSound(k, u)
        BY <3>1, <3>3, <4>1 DEF CallSound
      <4>3. TxnSound(k, u)'
        BY <1>5, <3>2, <3>3, <4>1, <4>2, TxnShape
        DEF CommitUsage, TxnSound, Known, Carries, Sources, clients
      <4> QED
        BY <3>1, <3>3, <4>1, <4>3 DEF CallSound
    <3>4. CASE calls[k].pc # "commit"
      BY <1>5, <3>1, <3>2, <3>4, CallShape
      DEF CommitUsage, CallSound, Known, Checked, Carries, Sources, clients
    <3> QED
      BY <3>3, <3>4
  <2> QED
    BY <2>1, <2>2
<1>8. CallsSound'
  BY <1>7 DEF CallsSound
<1>9. RowsSound'
  BY <1>3, <1>4, <1>5 DEF CommitUsage, RowsSound, IInv, clients
<1>10. ListenerSound'
  BY <1>4, <1>5, ListenerShape
  DEF CommitUsage, ListenerSound, Checked, IInv, TypeOK, Sources, mqtt, clients
<1>11. AnswersKept'
  <2>1. ASSUME NEW u \in Txn, Done(u)
        PROVE  Done(u)'
    BY <1>5, <2>1, TxnShape DEF CommitUsage, Done, Sources
  <2>2. Done(t)'
    BY <1>2, <1>3, <1>5 DEF Done
  <2> QED
    BY <1>1, <2>1, <2>2, Answered DEF CommitUsage, Committing, clients
<1>12. House!Record(r)
  BY <1>3, <1>5 DEF CommitUsage, House!Record
<1> QED
  BY <1>4, <1>6, <1>8, <1>9, <1>10, <1>11, <1>12, EndApart
  DEF CommitUsage, IInv, House!Next

-----------------------------------------------------------------------------
(* The listener and the environment *)

\* A step that only adds rows for deliveries, beside the requests, leaves them
\* what they rely on.
LEMMA Beside ==
  ASSUME IInv, UNCHANGED <<users, owner, calls, issued, acked, removed>>,
         sent \subseteq sent', faults' # 0 \/ UNCHANGED faults,
         \A r \in Reports : usage'[r] = usage[r]
  PROVE  CallsSound' /\ CallsApart' /\ AnswersKept'
<1>1. ASSUME NEW c \in Callers
      PROVE  CallSound(c, calls[c])'
  <2>1. CallSound(c, calls[c]) /\ calls[c] \in Call
    BY DEF IInv, CallsSound, TypeOK
  <2>2. CASE calls[c].pc = "commit"
    <3>1. PICK u \in Txn : u = calls[c].txn
      BY <2>1, <2>2, CallShape
    <3>2. TxnSound(c, u)
      BY <2>1, <2>2, <3>1 DEF CallSound
    <3>3. TxnSound(c, u)'
      BY <3>2, TxnShape DEF TxnSound, Known
    <3> QED
      BY <2>2, <3>1, <3>3 DEF CallSound
  <2>3. CASE calls[c].pc # "commit"
    BY <2>1, <2>3, CallShape DEF CallSound, Known, Checked
  <2> QED
    BY <2>2, <2>3
<1>2. CallsSound'
  BY <1>1 DEF CallsSound
<1>3. CallsApart'
  BY DEF CallsApart, IInv
<1>4. ASSUME NEW t \in acked, faults' = 0
      PROVE  (t.op # "beat" /\ (Done(t) \/ Pending(t)))'
  <2>1. t \in Txn /\ t.op # "beat" /\ (Done(t) \/ Pending(t))
    BY <1>4 DEF IInv, TypeOK, AnswersKept
  <2>2. Done(t) => Done(t)'
    BY <2>1, TxnShape DEF Done
  <2>3. Pending(t) => Pending(t)'
    BY DEF Pending
  <2> QED
    BY <2>1, <2>2, <2>3
<1>5. AnswersKept'
  BY <1>4 DEF AnswersKept
<1> QED
  BY <1>2, <1>3, <1>5

\* A message is published that had no row.
LEMMA PublishStep ==
  ASSUME IInv, NEW m \in Deliveries, Publish(m)
  PROVE  IInv'
<1>1. TypeOK'
  BY DEF Publish, IInv, TypeOK, Sources, tables, keys
<1>2. CallsSound' /\ CallsApart' /\ AnswersKept'
  BY Beside DEF Publish, tables, keys
<1>3. RowsSound'
  BY DEF Publish, RowsSound, IInv, tables
<1>4. ListenerSound'
  BY DEF Publish, ListenerSound, RowsSound, Checked, IInv, Sources, tables
<1> QED
  BY <1>1, <1>2, <1>3, <1>4 DEF IInv

\* The listener checks a message that has no row.
LEMMA ReceiveStep ==
  ASSUME IInv, NEW m \in Deliveries, Receive(m)
  PROVE  IInv'
<1>1. TypeOK'
  BY DEF Receive, IInv, TypeOK, Listener, tables, keys, clients
<1>2. CallsSound' /\ CallsApart' /\ AnswersKept'
  BY Beside DEF Receive, tables, keys, clients
<1>3. RowsSound'
  BY DEF Receive, RowsSound, IInv, tables, clients
<1>4. ListenerSound'
  <2>1. m \in inbox /\ usage[m] = 0 /\ m \in sent
    BY DEF Receive, ListenerSound, IInv, TypeOK
  <2>2. \A x \in inbox : usage[x] = 0
    BY DEF Receive, ListenerSound, IInv
  <2> QED
    BY <2>1, <2>2
    DEF Receive, KnownDevice, ListenerSound, Checked, IInv, tables, clients
<1> QED
  BY <1>1, <1>2, <1>3, <1>4 DEF IInv

\* The listener records a message: if its device is still there, it is its
\* owner's.
LEMMA RecordMessageStep ==
  ASSUME IInv, RecordMessage
  PROVE  IInv' /\ [House!Next]_<<users, owner, usage>>
<1>1. PICK m \in Deliveries : m = listener.msg
  BY ListenerShape DEF RecordMessage, IInv, TypeOK
<1>2. /\ Checked(m) /\ m \in sent /\ usage[m] = 0
      /\ m \in Sources /\ m \notin Reports
  BY <1>1, RequestAssumption DEF RecordMessage, ListenerSound, IInv, Sources
<1>3. listener' = [pc |-> "ack", msg |-> m]
  BY <1>1, ListenerShape DEF RecordMessage, IInv, TypeOK, Listener
<1>4. listener' \in Listener
  BY <1>3 DEF Listener
<1>5. CASE DeviceExists(m) /\ usage' = OneMoreRow(m) /\ UNCHANGED faults
  <2>1. owner[DeviceOf[m]] = UserOf[m]
    BY <1>2, <1>5, RequestAssumption
    DEF DeviceExists, Checked, RowsSound, IInv
  <2>2. /\ usage' = [usage EXCEPT ![m] = 1]
        /\ usage' \in [Sources -> Nat]
        /\ \A s \in Sources \ {m} : usage'[s] = usage[s]
    BY <1>2, <1>5, <2>1, RowAdded
  <2>3. TypeOK'
    BY <1>4, <1>5, <2>2 DEF RecordMessage, IInv, TypeOK, keys, clients
  <2>4. CallsSound' /\ CallsApart' /\ AnswersKept'
    BY <1>2, <1>5, <2>2, Beside DEF RecordMessage, Sources, keys, clients
  <2>5. RowsSound'
    BY <1>2, <1>5, <2>2 DEF RecordMessage, RowsSound, DeviceExists, IInv, clients
  <2>6. ListenerSound'
    <3>1. ASSUME NEW x \in inbox, x # m
          PROVE  usage'[x] = 0
      <4>1. listener # [pc |-> "ack", msg |-> x] /\ x \in Sources
        BY DEF RecordMessage, ListenerSound, IInv, Sources
      <4> QED
        BY <2>2, <3>1, <4>1 DEF ListenerSound, IInv
    <3> QED
      BY <1>3, <3>1 DEF RecordMessage, ListenerSound, IInv
  <2>7. House!Record(m)
    BY <1>2, <2>1, <2>2 DEF RecordMessage, House!Record
  <2> QED
    BY <1>2, <2>3, <2>4, <2>5, <2>6, <2>7 DEF IInv, House!Next
<1>6. CASE UNCHANGED usage /\ (faults' # 0 \/ UNCHANGED faults) /\ faults' \in Nat
  <2>1. TypeOK'
    BY <1>4, <1>6 DEF RecordMessage, IInv, TypeOK, keys, clients
  <2>2. CallsSound' /\ CallsApart' /\ AnswersKept'
    BY <1>6, Beside DEF RecordMessage, keys, clients
  <2>3. RowsSound'
    BY <1>6 DEF RecordMessage, RowsSound, IInv, clients
  <2>4. ListenerSound'
    BY <1>1, <1>3, <1>6 DEF RecordMessage, ListenerSound, IInv
  <2> QED
    BY <1>6, <2>1, <2>2, <2>3, <2>4 DEF RecordMessage, IInv
<1>7. faults \in Nat
  BY DEF IInv, TypeOK
<1> QED
  BY <1>1, <1>5, <1>6, <1>7 DEF RecordMessage

\* The acknowledged message leaves the inbox.
LEMMA AcknowledgeStep ==
  ASSUME IInv, Acknowledge
  PROVE  IInv'
<1>1. TypeOK'
  BY DEF Acknowledge, IInv, TypeOK, Listener, tables, keys, clients
<1>2. CallsSound' /\ CallsApart' /\ AnswersKept'
  BY Beside DEF Acknowledge, tables, keys, clients
<1>3. RowsSound'
  BY DEF Acknowledge, RowsSound, IInv, tables, clients
<1>4. ListenerSound'
  <2>1. ASSUME NEW x \in inbox, x # listener.msg
        PROVE  usage[x] = 0
    BY <2>1 DEF ListenerSound, IInv
  <2> QED
    BY <2>1 DEF Acknowledge, ListenerSound, IInv, tables
<1> QED
  BY <1>1, <1>2, <1>3, <1>4 DEF IInv

\* A lost connection empties the inbox.
LEMMA DisconnectStep ==
  ASSUME IInv, Disconnect
  PROVE  IInv'
<1>1. TypeOK' /\ faults' # 0
  BY DEF Disconnect, SessionAfterLoss, IInv, TypeOK, tables, keys, clients
<1>2. CallsSound' /\ CallsApart' /\ AnswersKept'
  BY <1>1, Beside DEF Disconnect, tables, keys, clients
<1>3. RowsSound'
  BY DEF Disconnect, RowsSound, IInv, tables, clients
<1>4. ListenerSound'
  BY DEF Disconnect, SessionAfterLoss, ListenerSound, Checked, IInv, tables,
         clients
<1> QED
  BY <1>1, <1>2, <1>3, <1>4 DEF IInv

\* Keys expire on their own.
LEMMA KeyExpiresStep ==
  ASSUME IInv, NEW d \in Devices, KeyExpires(d)
  PROVE  IInv'
<1>1. /\ UNCHANGED <<users, owner, usage, calls, inbox, listener, issued, sent,
                     acked, removed, faults>>
      /\ online' \subseteq online /\ battery' \subseteq battery
  BY DEF KeyExpires, tables, mqtt, clients
<1>2. TypeOK'
  BY <1>1 DEF IInv, TypeOK
<1>3. CallsSound' /\ CallsApart' /\ AnswersKept'
  BY <1>1, Beside
<1>4. RowsSound' /\ ListenerSound'
  BY <1>1 DEF RowsSound, ListenerSound, Checked, IInv
<1> QED
  BY <1>2, <1>3, <1>4 DEF IInv

\* A restart ends requests between their answer and their commit.
LEMMA CrashStep ==
  ASSUME IInv, Crash
  PROVE  IInv'
<1>1. [pc |-> "idle"] \in Call /\ [pc |-> "idle"] \in Listener
  BY DEF Call, Listener
<1>2. TypeOK' /\ faults' # 0
  BY <1>1 DEF Crash, SessionAfterLoss, IInv, TypeOK, tables, keys, clients
<1>3. \A c \in Callers : calls'[c] = [pc |-> "idle"]
  BY DEF Crash
<1>4. CallsSound' /\ CallsApart'
  BY <1>3 DEF CallsSound, CallSound, CallsApart, Apart, Carries
<1>5. RowsSound' /\ ListenerSound'
  BY DEF Crash, SessionAfterLoss, RowsSound, ListenerSound, IInv, tables, clients
<1>6. AnswersKept'
  BY <1>2 DEF AnswersKept
<1> QED
  BY <1>2, <1>4, <1>5, <1>6 DEF IInv

-----------------------------------------------------------------------------
(* Theorems *)

\* The initial state.
LEMMA InitInv == Init => IInv
<1> SUFFICES ASSUME Init PROVE IInv
  OBVIOUS
<1>1. [pc |-> "idle"] \in Call /\ [pc |-> "idle"] \in Listener
  BY DEF Call, Listener
<1>2. TypeOK
  BY <1>1 DEF Init, TypeOK
<1>3. CallsSound /\ CallsApart
  BY DEF Init, CallsSound, CallSound, CallsApart, Apart, Carries
<1>4. RowsSound /\ ListenerSound /\ AnswersKept
  BY RequestAssumption DEF Init, RowsSound, ListenerSound, AnswersKept
<1> QED
  BY <1>2, <1>3, <1>4 DEF IInv

\* Every step keeps the invariant and is one of Household or leaves the tables
\* as they are.
LEMMA NextInv ==
  ASSUME IInv, [Next]_vars
  PROVE  IInv' /\ [House!Next]_<<users, owner, usage>>
<1>1. ASSUME NEW c \in Callers, StartCall(c)
      PROVE  IInv' /\ UNCHANGED <<users, owner, usage>>
  <2>1. IInv'
    BY <1>1, CheckEmailStep, RegisterDeviceStep, ReadForHeartbeatStep,
       ReadForRemovalStep, ReadForReportStep
    DEF StartCall
  <2>2. UNCHANGED <<users, owner, usage>>
    BY <1>1
    DEF StartCall, CheckEmail, RegisterDevice, ReadForHeartbeat, ReadForRemoval,
        ReadForReport, tables
  <2> QED
    BY <2>1, <2>2
<1>2. ASSUME NEW c \in Callers, CallStep(c)
      PROVE  IInv' /\ [House!Next]_<<users, owner, usage>>
  <2>1. CASE \/ InsertUser(c) \/ SetOnline(c) \/ SetBattery(c)
             \/ CommitHeartbeat(c) \/ DeleteKeys(c) \/ InsertUsage(c)
    <3>1. IInv'
      BY <2>1, InsertUserStep, SetOnlineStep, SetBatteryStep,
         CommitHeartbeatStep, DeleteKeysStep, InsertUsageStep
    <3>2. UNCHANGED <<users, owner, usage>>
      BY <2>1 DEF InsertUser, SetOnline, SetBattery, CommitHeartbeat,
                  DeleteKeys, InsertUsage, tables
    <3> QED
      BY <3>1, <3>2
  <2>2. CASE CommitUser(c) \/ CommitDevice(c) \/ CommitUsage(c)
    BY <2>2, CommitUserStep, CommitDeviceStep, CommitUsageStep
  <2>3. CASE CommitRemoval(c)
    BY <2>3, CommitRemovalStep
  <2> QED
    BY <1>2, <2>1, <2>2, <2>3 DEF CallStep
<1>3. ASSUME NEW c \in Callers, RequestFails(c)
      PROVE  IInv' /\ UNCHANGED <<users, owner, usage>>
  BY <1>3, RequestFailsStep DEF RequestFails, tables
<1>4. ASSUME NEW d \in Devices, KeyExpires(d)
      PROVE  IInv' /\ UNCHANGED <<users, owner, usage>>
  BY <1>4, KeyExpiresStep DEF KeyExpires, tables
<1>5. ASSUME NEW m \in Deliveries, Publish(m) \/ Receive(m)
      PROVE  IInv' /\ UNCHANGED <<users, owner, usage>>
  BY <1>5, PublishStep, ReceiveStep DEF Publish, Receive, tables
<1>6. CASE Acknowledge \/ Disconnect \/ Crash
  BY <1>6, AcknowledgeStep, DisconnectStep, CrashStep
  DEF Acknowledge, Disconnect, Crash, tables
<1>7. CASE RecordMessage
  BY <1>7, RecordMessageStep
<1>8. CASE UNCHANGED vars
  <2>1. UNCHANGED <<users, owner, usage, online, battery, calls, inbox, listener,
                    issued, sent, acked, removed, faults>>
    BY <1>8 DEF vars, tables, keys, mqtt, clients
  <2>2. TypeOK' /\ CallsSound' /\ CallsApart'
    BY <2>1 DEF IInv, TypeOK, CallsSound, CallSound, TxnSound, Known, Checked,
                CallsApart
  <2>3. RowsSound' /\ ListenerSound' /\ AnswersKept'
    BY <2>1 DEF IInv, RowsSound, ListenerSound, Checked, AnswersKept, Done,
                Pending
  <2> QED
    BY <2>1, <2>2, <2>3 DEF IInv
<1> QED
  BY <1>1, <1>2, <1>3, <1>4, <1>5, <1>6, <1>7, <1>8 DEF Next, ListenerStep

\* The invariant holds throughout.
LEMMA Invariance == Spec => []IInv
<1>1. IInv /\ [Next]_vars => IInv'
  BY NextInv
<1> QED
  BY InitInv, <1>1, PTL DEF Spec

\* The type invariant holds for any accounts, devices, reports and requests.
THEOREM TypeCorrect == Spec => []TypeOK
<1>1. IInv => TypeOK
  BY DEF IInv
<1> QED
  BY Invariance, <1>1, PTL

\* Whatever overlaps and fails, the tables change as Household says: one account
\* per address, one row per report, none without its device (get_db, the unique
\* index and the foreign keys of models.py).
THEOREM Refinement == Spec => TablesAreSound
<1>1. Init => House!Init
  BY DEF Init, House!Init
<1>2. IInv /\ [Next]_vars => [House!Next]_<<users, owner, usage>>
  BY NextInv
<1>3. Spec => House!Init /\ [][House!Next]_<<users, owner, usage>>
  BY <1>1, <1>2, Invariance, PTL DEF Spec
<1> QED
  BY <1>3 DEF TablesAreSound, House!Spec, House!vars

\* Without faults an answer that get_db's commit follows comes true, however
\* many requests overlap.
THEOREM AnswersComeTrue == Spec => []AcknowledgedHolds
<1>1. IInv => AcknowledgedHolds
  <2> SUFFICES ASSUME IInv, faults = 0, NEW t \in acked
               PROVE  \/ InEffect(t)
                      \/ \E c \in Callers : calls[c] = [pc |-> "commit", txn |-> t]
    BY DEF AcknowledgedHolds
  <2>1. t \in Txn /\ t.op # "beat" /\ (Done(t) \/ Pending(t))
    BY DEF IInv, AnswersKept, TypeOK
  <2>2. Done(t) => InEffect(t)
    BY <2>1, TxnShape DEF Done, InEffect, RowsSound, IInv
  <2> QED
    BY <2>1, <2>2 DEF Pending
<1> QED
  BY Invariance, <1>1, PTL

\* One step of Household keeps its tables in order.
LEMMA IntegrityStep ==
  ASSUME /\ users \in [Emails -> Callers \cup {None}]
         /\ owner \in [Devices -> Emails \cup {None}]
         /\ usage \in [Sources -> Nat],
         House!Integrity, [House!Next]_<<users, owner, usage>>
  PROVE  House!Integrity'
<1> USE RequestAssumption
<1>1. ASSUME NEW e \in Emails, NEW c \in Callers, House!AddAccount(e, c)
      PROVE  House!Integrity'
  BY <1>1 DEF House!AddAccount, House!Integrity
<1>2. ASSUME NEW d \in Devices, NEW e \in Emails, House!AddDevice(d, e)
      PROVE  House!Integrity'
  BY <1>2 DEF House!AddDevice, House!Integrity
<1>3. ASSUME NEW s \in Sources, House!Record(s)
      PROVE  House!Integrity'
  BY <1>3 DEF House!Record, House!Integrity
<1>4. ASSUME NEW d \in Devices, House!RemoveDevice(d)
      PROVE  House!Integrity'
  BY <1>4 DEF House!RemoveDevice, House!Integrity
<1>5. CASE UNCHANGED <<users, owner, usage>>
  BY <1>5 DEF House!Integrity
<1> QED
  BY <1>1, <1>2, <1>3, <1>4, <1>5 DEF House!Next

\* The keys between the tables (users, devices, usage_events) hold at all times:
\* it is enough that Household keeps them, since the platform implements it.
THEOREM TablesKeepIntegrity == Spec => []House!Integrity
<1> DEFINE Typed == /\ users \in [Emails -> Callers \cup {None}]
                    /\ owner \in [Devices -> Emails \cup {None}]
                    /\ usage \in [Sources -> Nat]
<1>1. TypeOK => Typed
  BY DEF TypeOK
<1>2. House!Init => House!Integrity
  BY DEF House!Init, House!Integrity
<1>3. Typed /\ House!Integrity /\ [House!Next]_<<users, owner, usage>>
        => House!Integrity'
  BY IntegrityStep
<1>4. TablesAreSound => House!Init /\ [][House!Next]_<<users, owner, usage>>
  BY DEF TablesAreSound, House!Spec, House!vars
<1> HIDE DEF Typed
<1> QED
  BY <1>1, <1>2, <1>3, <1>4, TypeCorrect, Refinement, PTL
=============================================================================
