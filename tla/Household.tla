----------------------------- MODULE Household -----------------------------
(***************************************************************************)
(* What the tables of the platform promise their readers: an address has   *)
(* one account for ever, a device one owner while it exists, a report of a *)
(* device by its owner is recorded once, and a device goes together with   *)
(* its usage.                                                              *)
(***************************************************************************)
EXTENDS Integers

CONSTANTS Emails, Devices, Callers, Sources, DeviceOf, UserOf, None

VARIABLES users, owner, usage

vars == <<users, owner, usage>>

Init ==
  /\ users = [e \in Emails |-> None]
  /\ owner = [d \in Devices |-> None]
  /\ usage = [s \in Sources |-> 0]

AddAccount(e, c) ==
  /\ users[e] = None
  /\ users' = [users EXCEPT ![e] = c]
  /\ UNCHANGED <<owner, usage>>

AddDevice(d, e) ==
  /\ users[e] # None
  /\ owner[d] = None
  /\ owner' = [owner EXCEPT ![d] = e]
  /\ UNCHANGED <<users, usage>>

Record(s) ==
  /\ owner[DeviceOf[s]] = UserOf[s]
  /\ usage[s] = 0
  /\ usage' = [usage EXCEPT ![s] = 1]
  /\ UNCHANGED <<users, owner>>

RemoveDevice(d) ==
  /\ owner[d] # None
  /\ owner' = [owner EXCEPT ![d] = None]
  /\ usage' = [s \in Sources |-> IF DeviceOf[s] = d THEN 0 ELSE usage[s]]
  /\ UNCHANGED users

Next ==
  \/ \E e \in Emails, c \in Callers : AddAccount(e, c)
  \/ \E d \in Devices, e \in Emails : AddDevice(d, e)
  \/ \E s \in Sources : Record(s)
  \/ \E d \in Devices : RemoveDevice(d)

Spec == Init /\ [][Next]_vars

\* What follows for a reader at any time: a device's owner has an account, and
\* a recorded report is recorded once, of a device its sender owns.
Integrity ==
  /\ \A d \in Devices : owner[d] # None =>
       owner[d] \in Emails /\ users[owner[d]] # None
  /\ \A s \in Sources : usage[s] # 0 =>
       usage[s] = 1 /\ owner[DeviceOf[s]] = UserOf[s]
=============================================================================
