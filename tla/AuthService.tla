---------------------------- MODULE AuthService ----------------------------
(***************************************************************************)
(* Registration (auth_service/oauth.py, router.py).  Login reads the row   *)
(* and writes nothing: see LoggedIn in Requests.                           *)
(***************************************************************************)
EXTENDS Requests

\* register: no such address yet.  Otherwise ConflictError.
CheckEmail(c, e) ==
  /\ At(c, "idle")
  /\ users[e] = None
  /\ Goto(c, [pc |-> "insertUser", email |-> e])
  /\ UNCHANGED <<tables, keys, mqtt, clients, removed, faults>>

\* The INSERT waits for another one of the same address that is not committed
\* or rolled back yet.
EmailClaimed(e) ==
  \E k \in Callers : Committing(k, "user") /\ calls[k].txn.email = e

\* Faulty variant: no unique index on the address.
NoUniqueIndex(e) == TRUE

UniqueHolds(e) == users[e] = None

\* The flush: INSERT, or IntegrityError from the unique index.
InsertUser(c) ==
  /\ At(c, "insertUser")
  /\ LET e == calls[c].email IN
       /\ ~EmailClaimed(e)
       /\ \/ /\ UniqueHolds(e)
             /\ Answer(c, [op |-> "user", email |-> e, by |-> c])
          \/ /\ ~UniqueHolds(e)
             /\ Goto(c, [pc |-> "idle"])
             /\ UNCHANGED acked
  /\ UNCHANGED <<tables, keys, mqtt, issued, sent, removed, faults>>

CommitUser(c) ==
  /\ Committing(c, "user")
  /\ users' = [users EXCEPT ![calls[c].txn.email] = calls[c].txn.by]
  /\ Goto(c, [pc |-> "idle"])
  /\ UNCHANGED <<owner, usage, keys, mqtt, clients, removed, faults>>
=============================================================================
