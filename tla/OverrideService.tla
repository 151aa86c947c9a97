-------------------------- MODULE OverrideService --------------------------
(***************************************************************************)
(* The quorum-gated emergency override (override_service/quorum.py): a     *)
(* device asks for extra seconds, and a vote on the request runs three     *)
(* validators (parent approval, time of day, usage pattern) and resolves   *)
(* it.  Each call of create_override_request or cast_vote is a coroutine   *)
(* that yields at every await of the database or of Redis; its local       *)
(* variables are in calls[c], so what it read before an await may be stale *)
(* when it writes.  A call that raises ValueError changes nothing and is   *)
(* not a step here.                                                        *)
(***************************************************************************)
EXTENDS Integers, FiniteSets, Functions

CONSTANTS Devices,          \* device ids
          Ids,              \* override request ids (uuid4: never reused)
          Callers,          \* concurrent HTTP requests the server works on
          Seconds,          \* values clients send as requested_seconds
          MaxOverride,      \* MAX_OVERRIDE_SECONDS
          DailyCap,         \* DAILY_OVERRIDE_CAP_SECONDS
          TicksPerDay,      \* clock resolution of the model
          UtcOffset,        \* local time minus UTC, in ticks
          PermittedStart,   \* PERMITTED_START, a local time of day in ticks
          PermittedEnd,     \* PERMITTED_END
          MaxTime,          \* bound on the clock
          BudgetRows,       \* budget rows the pattern validator may meet
          NoBudget,         \* ... or none at all
          MetaDevices,      \* devices with a device:meta entry in Redis
          MqttUp,           \* the publisher client can be built
          MaxFaults,        \* bound on restarts and failing calls
          Null

ASSUME OverrideAssumption ==
  /\ Seconds \subseteq Int
  /\ MaxOverride \in Nat /\ DailyCap \in Nat
  /\ TicksPerDay \in Nat \ {0} /\ UtcOffset \in Nat
  /\ PermittedStart \in Nat /\ PermittedEnd \in Nat
  /\ MaxTime \in Nat /\ MaxFaults \in Nat
  /\ BudgetRows \subseteq [total : Nat, used : Nat]
  /\ NoBudget \notin BudgetRows
  /\ MetaDevices \subseteq Devices
  /\ MqttUp \in BOOLEAN

VARIABLES rows,       \* the override_requests table: Ids -> row or Null
          calls,      \* the coroutines in flight and their locals
          budget,     \* the budget row of today the validator would read
          now,        \* the server clock
          published,  \* messages sent on .../override/result
          faults,     \* restarts and failed calls so far
          seen        \* history: approved requests the cap check of i saw

vars == <<rows, calls, budget, now, published, faults, seen>>

Validators == {"parent", "policy", "pattern"}
Results    == [Validators -> BOOLEAN]
Unvoted    == [v \in {} |-> FALSE]
Votes      == UNION {[S -> BOOLEAN] : S \in SUBSET Validators}
Time       == Nat

-----------------------------------------------------------------------------
(* Clock and policies *)

DayOf(t)     == t \div TicksPerDay
LocalTime(t) == (t + UtcOffset) % TicksPerDay

_validate_time_of_day(t) ==
  PermittedStart <= LocalTime(t) /\ LocalTime(t) <= PermittedEnd

\* ratio = used / total is compared with 0.85 exactly, in integers.
_validate_usage_pattern(b) ==
  IF b = NoBudget THEN TRUE
  ELSE b.total = 0 \/ 100 * b.used < 85 * b.total

_validate_parent_approval(votes) ==
  IF "parent" \in DOMAIN votes THEN votes["parent"] ELSE FALSE

YesCount(results) == Cardinality({v \in Validators : results[v]})

\* Faulty variant: wait for more votes when the validators disagree.
SplitVoteStaysOpen(results) ==
  IF YesCount(results) >= 2 THEN "approved"
  ELSE IF YesCount(results) = 1 THEN "pending" ELSE "denied"

\* evaluate_quorum's verdict.  It is never "pending".
QuorumStatus(results) ==
  IF YesCount(results) >= 2 THEN "approved" ELSE "denied"

\* HMAC-SHA256 under the server key: equal exactly for equal payloads.
_sign_decision(i, d, status, results, at) ==
  [hmac |-> [override_id |-> i, device_id |-> d, status |-> status,
             votes |-> results, resolved_at |-> at]]

-----------------------------------------------------------------------------
(* Types *)

Status    == {"pending", "approved", "denied"}
Resolved  == {"approved", "denied"}
Signature == [hmac : [override_id : Ids, device_id : Devices,
                      status : Resolved, votes : Results,
                      resolved_at : Time]]

Row == [device : Devices, secs : Int, requested_at : Time, status : Status,
        votes : Votes, resolved_at : Time \cup {Null},
        signature : Signature \cup {Null}]

\* Null marks what is absent and is no row, time or signature.
ASSUME NullAssumption == Null \notin Row /\ Null \notin Time /\ Null \notin Signature

Idle       == [pc : {"idle"}]
Inserting  == [pc : {"insert"}, device : Devices, secs : Int, at : Time,
               seen : SUBSET Ids]
Validating == [pc : {"policy"}, id : Ids, votes : Votes]
Policed    == [pc : {"pattern"}, id : Ids, votes : Votes, policy : BOOLEAN]
Decided    == [pc : {"commit"}, id : Ids, status : Resolved,
               results : Results, resolved_at : Time, signature : Signature]
Announcing == [pc : {"publish"}, id : Ids, status : Resolved]
Call       == Idle \cup Inserting \cup Validating \cup Policed
                \cup Decided \cup Announcing

Message == [id : Ids, approved : BOOLEAN, extra : Int]

\* Every variable stays within the shapes the code gives it.
TypeOK ==
  /\ rows \in [Ids -> Row \cup {Null}]
  /\ calls \in [Callers -> Call]
  /\ budget \in [Devices -> BudgetRows \cup {NoBudget}]
  /\ now \in 0 .. MaxTime
  /\ published \in SUBSET Message
  /\ faults \in Nat
  /\ seen \in [Ids -> SUBSET Ids]

-----------------------------------------------------------------------------
(* The override_requests table *)

Exists(i)     == rows[i] # Null
IsPending(i)  == Exists(i) /\ rows[i].status = "pending"
IsResolved(i) == Exists(i) /\ rows[i].status \in Resolved
SumSeconds(S) == SumFunctionOnSet([i \in S |-> rows[i].secs], S)

\* Approved requests of device d made on day or later: the cap query.
ApprovedToday(d, day) ==
  {i \in Ids : /\ Exists(i)
               /\ rows[i].device = d
               /\ rows[i].status = "approved"
               /\ DayOf(rows[i].requested_at) >= day}

Init ==
  /\ rows = [i \in Ids |-> Null]
  /\ calls = [c \in Callers |-> [pc |-> "idle"]]
  /\ budget \in [Devices -> BudgetRows \cup {NoBudget}]
  /\ now = 0
  /\ published = {}
  /\ faults = 0
  /\ seen = [i \in Ids |-> {}]

Goto(c, call) == calls' = [calls EXCEPT ![c] = call]
AtPc(c, pc)   == calls[c].pc = pc

-----------------------------------------------------------------------------
(* create_override_request *)

\* Faulty variant: the new request's own seconds are left out of the sum.
WithinCapIgnoringRequest(d, s) ==
  SumSeconds(ApprovedToday(d, DayOf(now))) <= DailyCap

WithinCap(d, s) == SumSeconds(ApprovedToday(d, DayOf(now))) + s <= DailyCap

\* Up to the SELECT of today's approved requests and the cap test.
CheckCaps(c, d, s) ==
  /\ AtPc(c, "idle")
  /\ 0 < s /\ s <= MaxOverride
  /\ WithinCap(d, s)
  /\ Goto(c, [pc |-> "insert", device |-> d, secs |-> s, at |-> now,
              seen |-> ApprovedToday(d, DayOf(now))])
  /\ UNCHANGED <<rows, budget, now, published, faults, seen>>

\* requested_at defaults to NOW(), the start of the transaction that the
\* cap query opened.
NewRow(call) ==
  [device |-> call.device, secs |-> call.secs, requested_at |-> call.at,
   status |-> "pending", votes |-> Unvoted, resolved_at |-> Null,
   signature |-> Null]

InsertRequest(c) ==
  /\ AtPc(c, "insert")
  /\ \E i \in Ids :
       /\ ~Exists(i)
       /\ rows' = [rows EXCEPT ![i] = NewRow(calls[c])]
       /\ seen' = [seen EXCEPT ![i] = calls[c].seen]
  /\ Goto(c, [pc |-> "idle"])
  /\ UNCHANGED <<budget, now, published, faults>>

-----------------------------------------------------------------------------
(* cast_vote *)

RecordVote(votes, voter, approve) ==
  [v \in DOMAIN votes \cup {voter} |->
     IF v = voter THEN approve ELSE votes[v]]

\* SELECT the request, refuse it unless it is pending, merge the vote.
ReadRequest(c, i, voter, approve) ==
  /\ AtPc(c, "idle")
  /\ IsPending(i)
  /\ Goto(c, [pc |-> "policy", id |-> i,
              votes |-> RecordVote(rows[i].votes, voter, approve)])
  /\ UNCHANGED <<rows, budget, now, published, faults, seen>>

\* The time-of-day validator reads the clock, then the pattern validator
\* suspends the call to read the budget.
CheckTimeOfDay(c) ==
  /\ AtPc(c, "policy")
  /\ Goto(c, [pc |-> "pattern", id |-> calls[c].id, votes |-> calls[c].votes,
              policy |-> _validate_time_of_day(now)])
  /\ UNCHANGED <<rows, budget, now, published, faults, seen>>

ValidatorResults(call, b) ==
  [v \in Validators |->
     CASE v = "parent"  -> _validate_parent_approval(call.votes)
       [] v = "policy"  -> call.policy
       [] v = "pattern" -> _validate_usage_pattern(b)]

\* Faulty variant: the time to store is read before the time to sign.
DecisionStoringFirst(call, d, results, first, second) ==
  LET status == QuorumStatus(results)
  IN  [pc |-> "commit", id |-> call.id, status |-> status,
       results |-> results, resolved_at |-> first,
       signature |-> _sign_decision(call.id, d, status, results, second)]

\* The locals of cast_vote at its UPDATE.  The clock was read twice: the
\* first reading is signed, the second is stored.
Decision(call, d, results, first, second) ==
  LET status == QuorumStatus(results)
  IN  [pc |-> "commit", id |-> call.id, status |-> status,
       results |-> results, resolved_at |-> second,
       signature |-> _sign_decision(call.id, d, status, results, first)]

\* The rest of evaluate_quorum, and cast_vote up to its UPDATE.
EvaluateQuorum(c) ==
  /\ AtPc(c, "pattern")
  /\ LET d       == rows[calls[c].id].device
         results == ValidatorResults(calls[c], budget[d])
     IN  \E later \in {now, now + 1} :
           /\ later <= MaxTime
           /\ now' = later
           /\ Goto(c, Decision(calls[c], d, results, now, later))
  /\ UNCHANGED <<rows, budget, published, faults, seen>>

\* Faulty variant: the stored votes are the ones cast, not the results.
DecideKeepingVotes(row, call) ==
  [row EXCEPT !.status = call.status, !.resolved_at = call.resolved_at,
              !.signature = call.signature]

Decide(row, call) ==
  [row EXCEPT !.votes = call.results, !.status = call.status,
              !.resolved_at = call.resolved_at,
              !.signature = call.signature]

\* UPDATE ... WHERE id = override_id, and commit.  The status is not tested
\* again.
CommitDecision(c) ==
  /\ AtPc(c, "commit")
  /\ LET call == calls[c] IN
       /\ rows' = [rows EXCEPT ![call.id] = Decide(@, call)]
       /\ Goto(c, [pc |-> "publish", id |-> call.id, status |-> call.status])
  /\ UNCHANGED <<budget, now, published, faults, seen>>

\* Faulty variant: a denial announces the seconds that were asked for.
ResultKeepingSeconds(i, status) ==
  [id |-> i, approved |-> status = "approved", extra |-> rows[i].secs]

ResultMessage(i, status) ==
  [id |-> i, approved |-> status = "approved",
   extra |-> IF status = "approved" THEN rows[i].secs ELSE 0]

\* _publish_override_result: without device:meta the result is dropped, and
\* publish() drops it when no MQTT client can be built.  (Awaiting publish's
\* None then raises: the call ends either way.)
PublishResult(c) ==
  /\ AtPc(c, "publish")
  /\ LET call == calls[c] IN
       published' =
         IF rows[call.id].device \in MetaDevices /\ MqttUp
         THEN published \cup {ResultMessage(call.id, call.status)}
         ELSE published
  /\ Goto(c, [pc |-> "idle"])
  /\ UNCHANGED <<rows, budget, now, faults, seen>>

-----------------------------------------------------------------------------
(* Environment *)

Tick ==
  /\ now < MaxTime
  /\ now' = now + 1
  /\ UNCHANGED <<rows, calls, budget, published, faults, seen>>

\* The decision engine, or the change of day, changes today's budget row.
ChangeBudget(d) ==
  /\ \E b \in BudgetRows \cup {NoBudget} :
       b # budget[d] /\ budget' = [budget EXCEPT ![d] = b]
  /\ UNCHANGED <<rows, calls, now, published, faults, seen>>

\* A statement or a read of Redis raises, the validators' included, and the
\* call ends: its transaction is rolled back, and a request whose vote was
\* being counted stays as it was.
CallFails(c) ==
  /\ faults < MaxFaults
  /\ ~AtPc(c, "idle")
  /\ faults' = faults + 1
  /\ Goto(c, [pc |-> "idle"])
  /\ UNCHANGED <<rows, budget, now, published, seen>>

\* The server restarts: calls in flight are gone, the table is not.
Crash ==
  /\ faults < MaxFaults
  /\ faults' = faults + 1
  /\ calls' = [c \in Callers |-> [pc |-> "idle"]]
  /\ UNCHANGED <<rows, budget, now, published, seen>>

CallStep(c) ==
  \/ InsertRequest(c)
  \/ CheckTimeOfDay(c)
  \/ EvaluateQuorum(c)
  \/ CommitDecision(c)
  \/ PublishResult(c)

Next ==
  \/ \E c \in Callers, d \in Devices, s \in Seconds : CheckCaps(c, d, s)
  \/ \E c \in Callers, i \in Ids, v \in Validators, a \in BOOLEAN :
       ReadRequest(c, i, v, a)
  \/ \E c \in Callers : CallStep(c)
  \/ Tick
  \/ \E d \in Devices : ChangeBudget(d)
  \/ \E c \in Callers : CallFails(c)
  \/ Crash

Spec == Init /\ [][Next]_vars

-----------------------------------------------------------------------------
(* Properties *)

\* The audit record explains itself: a resolved row stores all three
\* validator results, its status is the 2-of-3 verdict on exactly those
\* results, and its signature is one made for this request, device, status
\* and results, however many votes raced to resolve it.
AuditConsistent ==
  \A i \in Ids : IsResolved(i) =>
    LET row == rows[i] IN
      /\ row.votes \in Results
      /\ row.status = "approved" <=> YesCount(row.votes) >= 2
      /\ row.resolved_at # Null
      /\ row.signature # Null
      /\ row.signature =
           _sign_decision(i, row.device, row.status, row.votes,
                          row.signature.hmac.resolved_at)

\* The times of an audit record are in order: whichever of the votes that
\* raced was stored, it was signed after the request was made, stored no
\* earlier than it was signed, and not in the future.
AuditOrdered ==
  \A i \in Ids : IsResolved(i) =>
    /\ rows[i].requested_at <= rows[i].signature.hmac.resolved_at
    /\ rows[i].signature.hmac.resolved_at <= rows[i].resolved_at
    /\ rows[i].resolved_at <= now

\* A device is told of a result only after the resolution is committed (a
\* crash in between may lose the message, never the decision), and is granted
\* exactly the seconds its request asked for, or none.
NotifiedOnlyIfDecided ==
  \A m \in published :
    /\ IsResolved(m.id)
    /\ m.extra = IF m.approved THEN rows[m.id].secs ELSE 0

\* What the cap check does guarantee: a device exceeds DailyCap on a day only
\* through requests that were checked before either of them was approved.
OvershootNeedsOverlap ==
  \A d \in Devices, day \in 0 .. DayOf(MaxTime) :
    LET granted == {i \in ApprovedToday(d, day) :
                      DayOf(rows[i].requested_at) = day}
    IN  SumSeconds(granted) > DailyCap =>
          \E i, j \in granted : i # j /\ i \notin seen[j] /\ j \notin seen[i]

\* cast_vote never reopens a request: resolved rows stay resolved, and the
\* request they answer does not change, whatever order the votes commit in.
ResolvedStaysResolved ==
  [][\A i \in Ids : IsResolved(i) =>
       /\ IsResolved(i)'
       /\ rows'[i].device = rows[i].device
       /\ rows'[i].secs = rows[i].secs]_vars

\* cast_vote has accepted a vote on request i and not returned.
VotingOn(c, i) ==
  calls[c].pc \in {"policy", "pattern", "commit", "publish"} /\ calls[c].id = i

\* An accepted vote is never lost without a fault: when cast_vote returns, its
\* request is resolved ("quorum is re-evaluated immediately"), whatever votes
\* it raced with.  Only a restart or a read or statement that raises ends a
\* call with the request still pending.
VoteResolves ==
  [][\A c \in Callers, i \in Ids :
       VotingOn(c, i) /\ ~VotingOn(c, i)' /\ faults' = faults
         => IsResolved(i)']_vars

\* "already {status}; cannot re-vote": a decision, once committed, is the
\* decision ("signed and stored for an immutable audit trail").
DecisionIsFinal ==
  [][\A i \in Ids : IsResolved(i) => rows'[i] = rows[i]]_vars
=============================================================================
