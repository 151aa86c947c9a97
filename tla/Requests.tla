------------------------------ MODULE Requests ------------------------------
(***************************************************************************)
(* What the REST handlers and the MQTT listener share: the tables users,   *)
(* devices and usage_events in Postgres, the presence keys in Redis, and   *)
(* the request life cycle of get_db (database.py).                         *)
(*                                                                         *)
(* With this version of FastAPI the code after get_db's yield runs when    *)
(* the response has been sent: a request is answered first and committed   *)
(* afterwards.  Its answer and the end of its handler are one step here;   *)
(* its commit is another.                                                  *)
(***************************************************************************)
EXTENDS Integers, FiniteSets

CONSTANTS Emails,       \* addresses, each standing for its account
          Devices,      \* fresh device ids (uuid4)
          Callers,      \* requests in progress at once
          Reports,      \* usage reports sent over REST
          Deliveries,   \* usage reports the broker delivers, duplicates counted
          DeviceOf, UserOf, Seconds,   \* what a report says
          MaxFaults,    \* bound on restarts, failed statements, disconnects
          None

Sources == Reports \cup Deliveries

ASSUME RequestAssumption ==
  /\ Reports \cap Deliveries = {}
  /\ DeviceOf \in [Sources -> Devices]
  /\ UserOf \in [Sources -> Emails]
  /\ Seconds \in [Sources -> Int]
  /\ \A r \in Reports : Seconds[r] > 0      \* UsageReportRequest
  /\ MaxFaults \in Nat
  /\ None \notin Emails \cup Callers \cup Deliveries

VARIABLES users,      \* Emails -> the request that registered it, or None
          owner,      \* devices: Devices -> the owner's address, or None
          usage,      \* usage_events: Sources -> number of rows
          online,     \* devices with a key device:online:{id}
          battery,    \* devices with a key device:battery:{id}
          calls,      \* Callers -> place and locals of the request
          issued,     \* device ids drawn so far
          inbox,      \* deliveries the broker holds for the listener
          listener,   \* the listener thread's place and locals
          sent,       \* history: reports that were sent
          acked,      \* history: transactions whose request was answered,
                      \* heartbeats apart
          removed,    \* history: devices that were deregistered
          faults      \* number of faults so far

tables  == <<users, owner, usage>>
keys    == <<online, battery>>
mqtt    == <<inbox, listener>>
clients == <<issued, sent, acked>>
vars    == <<tables, keys, calls, mqtt, clients, removed, faults>>

\* What a request has yet to commit when it is answered.
Txn ==
  [op : {"user"}, email : Emails, by : Callers]
    \cup [op : {"device"}, device : Devices, email : Emails]
    \cup [op : {"beat", "remove"}, device : Devices]
    \cup [op : {"usage"}, report : Reports]

Call ==
  [pc : {"idle"}]
    \cup [pc : {"insertUser"}, email : Emails]
    \cup [pc : {"setOnline"}, device : Devices, charge : BOOLEAN]
    \cup [pc : {"setBattery", "deleteKeys"}, device : Devices]
    \cup [pc : {"insertUsage"}, report : Reports]
    \cup [pc : {"commit"}, txn : Txn]

Listener == [pc : {"idle"}] \cup [pc : {"insert", "ack"}, msg : Deliveries]

Init ==
  /\ users = [e \in Emails |-> None]
  /\ owner = [d \in Devices |-> None]
  /\ usage = [s \in Sources |-> 0]
  /\ online = {} /\ battery = {}
  /\ calls = [c \in Callers |-> [pc |-> "idle"]]
  /\ issued = {}
  /\ inbox = {} /\ listener = [pc |-> "idle"]
  /\ sent = {} /\ acked = {} /\ removed = {}
  /\ faults = 0

At(c, pc)     == calls[c].pc = pc
Goto(c, call) == calls' = [calls EXCEPT ![c] = call]

\* The handler returns, the response is sent, get_db is about to commit.  (A
\* heartbeat ends in the same way, without being recorded in acked.)
Answer(c, txn) ==
  /\ Goto(c, [pc |-> "commit", txn |-> txn])
  /\ acked' = acked \cup {txn}

Committing(c, op) == At(c, "commit") /\ calls[c].txn.op = op

\* A statement, a Redis call or the commit raises: get_db rolls back.  When it
\* was the commit, the client has been told otherwise.
RequestFails(c) ==
  /\ faults < MaxFaults
  /\ ~At(c, "idle")
  /\ faults' = faults + 1
  /\ Goto(c, [pc |-> "idle"])
  /\ UNCHANGED <<tables, keys, mqtt, clients, removed>>

\* A request carries a token, that is a signed user id that login handed out
\* for a row it found; get_current_user finds the row again.
LoggedIn(e) == users[e] # None
=============================================================================
