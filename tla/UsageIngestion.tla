--------------------------- MODULE UsageIngestion ---------------------------
(***************************************************************************)
(* Usage reports over REST (usage_ingestion/service.py, router.py) and     *)
(* over MQTT (mqtt_listener.py).  The listener is a thread that handles    *)
(* one message at a time and acknowledges it when the callback returns.    *)
(* Its session is not persistent (paho's default): a disconnect or restart *)
(* discards what it has not acknowledged.  Heartbeats have a topic of four *)
(* parts, which _on_message drops.                                         *)
(***************************************************************************)
EXTENDS Requests

\* record_usage: the device belongs to the user.
ReadForReport(c, r) ==
  /\ At(c, "idle")
  /\ r \notin sent
  /\ LoggedIn(UserOf[r]) /\ owner[DeviceOf[r]] = UserOf[r]
  /\ sent' = sent \cup {r}
  /\ Goto(c, [pc |-> "insertUsage", report |-> r])
  /\ UNCHANGED <<tables, keys, mqtt, issued, acked, removed, faults>>

\* The foreign key of usage_events.
DeviceExists(s) == owner[DeviceOf[s]] # None

\* The flush: INSERT, or IntegrityError from the foreign key.
InsertUsage(c) ==
  /\ At(c, "insertUsage")
  /\ LET r == calls[c].report IN
       \/ /\ DeviceExists(r)
          /\ Answer(c, [op |-> "usage", report |-> r])
       \/ /\ ~DeviceExists(r)
          /\ Goto(c, [pc |-> "idle"])
          /\ UNCHANGED acked
  /\ UNCHANGED <<tables, keys, mqtt, issued, sent, removed, faults>>

OneMoreRow(s) == [usage EXCEPT ![s] = @ + 1]

CommitUsage(c) ==
  /\ Committing(c, "usage")
  /\ usage' = OneMoreRow(calls[c].txn.report)
  /\ Goto(c, [pc |-> "idle"])
  /\ UNCHANGED <<users, owner, keys, mqtt, clients, removed, faults>>

-----------------------------------------------------------------------------
(* The MQTT listener *)

\* A device publishes, whatever the server knows of it.
Publish(m) ==
  /\ m \notin sent
  /\ sent' = sent \cup {m}
  /\ inbox' = inbox \cup {m}
  /\ UNCHANGED <<tables, keys, calls, listener, issued, acked, removed,
                 faults>>

\* Faulty variant: only devices with a recent heartbeat are believed.
OnlineDevice(m) ==
  /\ Seconds[m] > 0
  /\ owner[DeviceOf[m]] = UserOf[m]
  /\ DeviceOf[m] \in online

KnownDevice(m) == Seconds[m] > 0 /\ owner[DeviceOf[m]] = UserOf[m]

\* _on_message up to the check of the device.  A duration of 0 and an unknown
\* device end the callback.
Receive(m) ==
  /\ listener.pc = "idle"
  /\ m \in inbox
  /\ listener' = [pc |-> IF KnownDevice(m) THEN "insert" ELSE "ack", msg |-> m]
  /\ UNCHANGED <<tables, keys, calls, inbox, clients, removed, faults>>

\* INSERT and commit.  The foreign key and the database may fail it, and the
\* exception is logged.
RecordMessage ==
  /\ listener.pc = "insert"
  /\ \/ /\ DeviceExists(listener.msg)
        /\ usage' = OneMoreRow(listener.msg)
        /\ UNCHANGED faults
     \/ /\ ~DeviceExists(listener.msg)
        /\ UNCHANGED <<usage, faults>>
     \/ /\ faults < MaxFaults
        /\ faults' = faults + 1
        /\ UNCHANGED usage
  /\ listener' = [listener EXCEPT !.pc = "ack"]
  /\ UNCHANGED <<users, owner, keys, calls, inbox, clients, removed>>

\* The callback returned, with or without an exception inside: PUBACK.
Acknowledge ==
  /\ listener.pc = "ack"
  /\ inbox' = inbox \ {listener.msg}
  /\ listener' = [pc |-> "idle"]
  /\ UNCHANGED <<tables, keys, calls, clients, removed, faults>>

\* A session that is not persistent ends with its connection.
SessionAfterLoss == {}

\* The listener's connection is lost; loop_forever connects again.
Disconnect ==
  /\ faults < MaxFaults
  /\ faults' = faults + 1
  /\ inbox' = SessionAfterLoss
  /\ UNCHANGED <<tables, keys, calls, listener, clients, removed>>
=============================================================================
