----------------------- MODULE OverrideService_proofs -----------------------
(***************************************************************************)
(* Invariance proofs for OverrideService, for every set of devices,        *)
(* requests and concurrent callers and every choice of the limits.         *)
(***************************************************************************)
EXTENDS OverrideService, SumTheorems

\* What the locals of a call in flight say about the table.  A call past its
\* SELECT works on a row that exists; one about to UPDATE carries the verdict
\* on its own results and a signature over them; one about to publish has
\* committed.
CallsConsistent ==
  \A c \in Callers :
    /\ calls[c].pc \in {"policy", "pattern", "commit"} => Exists(calls[c].id)
    /\ calls[c].pc = "commit" =>
         /\ calls[c].status = QuorumStatus(calls[c].results)
         /\ calls[c].signature =
              _sign_decision(calls[c].id, rows[calls[c].id].device,
                             calls[c].status, calls[c].results,
                             calls[c].signature.hmac.resolved_at)
    /\ calls[c].pc = "publish" => IsResolved(calls[c].id)

\* The times that calls in flight and rows carry are past ones, and those of
\* a decision about to be written are in order.
TimesOrdered ==
  /\ \A i \in Ids : Exists(i) => rows[i].requested_at <= now
  /\ \A c \in Callers :
       /\ calls[c].pc = "insert" => calls[c].at <= now
       /\ calls[c].pc = "commit" =>
            LET signed == calls[c].signature.hmac.resolved_at IN
              /\ rows[calls[c].id].requested_at <= signed
              /\ signed <= calls[c].resolved_at
              /\ calls[c].resolved_at <= now

\* The requests of a table, what some of them ask for together, and what the
\* cap check of a request for s seconds that saw S established.
Table(r)         == {i \in Ids : r[i] # Null}
SecondsIn(r, S)  == SumFunctionOnSet([i \in S |-> r[i].secs], S)
Checked(r, S, s) == /\ S \subseteq Table(r)
                    /\ s \in Nat
                    /\ SecondsIn(r, S) + s <= DailyCap

\* Every request, in the table or about to be, passed its cap check, and among
\* any requests there is a last one: none of the others' checks saw it.
CapChecked ==
  /\ IsFiniteSet(Table(rows))
  /\ \A c \in Callers :
       calls[c].pc = "insert" => Checked(rows, calls[c].seen, calls[c].secs)
  /\ \A i \in Ids : Exists(i) => Checked(rows, seen[i], rows[i].secs)
  /\ \A X \in SUBSET Table(rows) :
       X # {} => \E j \in X : \A k \in X : j \notin seen[k]

IInv == /\ TypeOK
        /\ CallsConsistent
        /\ TimesOrdered
        /\ CapChecked
        /\ AuditConsistent
        /\ AuditOrdered
        /\ NotifiedOnlyIfDecided

-----------------------------------------------------------------------------
(* Shapes *)

\* A call is of the shape its program counter says.
LEMMA CallShape ==
  ASSUME NEW call \in Call
  PROVE  /\ call.pc \in {"idle", "insert", "policy", "pattern", "commit",
                         "publish"}
         /\ call.pc = "insert" => call \in Inserting
         /\ call.pc = "policy" => call \in Validating
         /\ call.pc = "pattern" => call \in Policed
         /\ call.pc = "commit" => call \in Decided
         /\ call.pc = "publish" => call \in Announcing
BY DEF Call, Idle, Inserting, Validating, Policed, Decided, Announcing

\* Votes is closed under recording one more vote (cast_vote's merge).
LEMMA RecordVoteType ==
  ASSUME NEW votes \in Votes, NEW v \in Validators, NEW a \in BOOLEAN
  PROVE  RecordVote(votes, v, a) \in Votes
<1>1. PICK S \in SUBSET Validators : votes \in [S -> BOOLEAN]
  BY DEF Votes
<1>2. RecordVote(votes, v, a) \in [S \cup {v} -> BOOLEAN]
  BY <1>1 DEF RecordVote
<1> QED
  BY <1>2 DEF Votes

\* Full result vectors are vote maps too.
LEMMA ResultsAreVotes == Results \subseteq Votes
BY DEF Results, Votes

\* A request without votes has a votes column.
LEMMA UnvotedType == Unvoted \in Votes
<1>1. Unvoted \in [{} -> BOOLEAN]
  BY DEF Unvoted
<1> QED
  BY <1>1 DEF Votes

\* The three validators answer yes or no.
LEMMA ValidatorResultsType ==
  ASSUME NEW call \in Policed, NEW b \in BudgetRows \cup {NoBudget}
  PROVE  ValidatorResults(call, b) \in Results
<1>1. _validate_parent_approval(call.votes) \in BOOLEAN
  <2>1. PICK S \in SUBSET Validators : call.votes \in [S -> BOOLEAN]
    BY DEF Policed, Votes
  <2> QED
    BY <2>1 DEF _validate_parent_approval
<1>2. _validate_usage_pattern(b) \in BOOLEAN
  BY DEF _validate_usage_pattern
<1>3. call.policy \in BOOLEAN
  BY DEF Policed
<1> QED
  BY <1>1, <1>2, <1>3 DEF ValidatorResults, Results, Validators

\* A signature made from typed parts is a signature.
LEMMA SignType ==
  ASSUME NEW i \in Ids, NEW d \in Devices, NEW s \in Resolved,
         NEW r \in Results, NEW t \in Time
  PROVE  _sign_decision(i, d, s, r, t) \in Signature
BY DEF _sign_decision, Signature

\* The verdict of evaluate_quorum ends a request.
LEMMA QuorumStatusType ==
  ASSUME NEW r \in Results
  PROVE  QuorumStatus(r) \in Resolved
BY DEF QuorumStatus, Resolved

\* What evaluate_quorum hands to the UPDATE of cast_vote, field by field.
LEMMA DecisionFields ==
  ASSUME NEW call, call.id \in Ids, NEW d \in Devices, NEW r \in Results,
         NEW first \in Time, NEW second \in Time
  PROVE  LET new == Decision(call, d, r, first, second) IN
           /\ new \in Decided
           /\ new.pc = "commit"
           /\ new.id = call.id
           /\ new.status = QuorumStatus(r)
           /\ new.results = r
           /\ new.resolved_at = second
           /\ new.signature =
                _sign_decision(call.id, d, QuorumStatus(r), r, first)
           /\ new.signature.hmac.resolved_at = first
<1> DEFINE status == QuorumStatus(r)
           sig    == _sign_decision(call.id, d, status, r, first)
<1>1. status \in Resolved
  BY QuorumStatusType
<1>2. sig \in Signature
  BY <1>1, SignType
<1>3. sig.hmac.resolved_at = first
  BY DEF _sign_decision
<1>4. Decision(call, d, r, first, second)
        = [pc |-> "commit", id |-> call.id, status |-> status,
           results |-> r, resolved_at |-> second, signature |-> sig]
  BY DEF Decision
<1> HIDE DEF status, sig
<1> QED
  BY <1>1, <1>2, <1>3, <1>4 DEF Decided, status, sig

-----------------------------------------------------------------------------
(* The table only grows *)

\* No step removes a request, reopens one, or changes what it asked for.
LEMMA RowsGrow ==
  ASSUME TypeOK, CallsConsistent, [Next]_vars
  PROVE  \A i \in Ids : Exists(i) =>
           /\ Exists(i)'
           /\ rows'[i].device = rows[i].device
           /\ rows'[i].secs = rows[i].secs
           /\ rows'[i].requested_at = rows[i].requested_at
           /\ IsResolved(i) => IsResolved(i)'
<1> SUFFICES ASSUME NEW i \in Ids, Exists(i)
             PROVE  /\ Exists(i)'
                    /\ rows'[i].device = rows[i].device
                    /\ rows'[i].secs = rows[i].secs
                    /\ rows'[i].requested_at = rows[i].requested_at
                    /\ IsResolved(i) => IsResolved(i)'
  OBVIOUS
<1> USE DEF Exists, IsResolved
<1>1. CASE rows' = rows
  BY <1>1
<1>2. ASSUME NEW c \in Callers, InsertRequest(c)
      PROVE  /\ Exists(i)'
             /\ rows'[i].device = rows[i].device
             /\ rows'[i].secs = rows[i].secs
             /\ rows'[i].requested_at = rows[i].requested_at
             /\ IsResolved(i) => IsResolved(i)'
  BY <1>2 DEF InsertRequest, TypeOK
<1>3. ASSUME NEW c \in Callers, CommitDecision(c)
      PROVE  /\ Exists(i)'
             /\ rows'[i].device = rows[i].device
             /\ rows'[i].secs = rows[i].secs
             /\ rows'[i].requested_at = rows[i].requested_at
             /\ IsResolved(i) => IsResolved(i)'
  <2>1. calls[c] \in Decided
    BY <1>3, CallShape DEF TypeOK, CommitDecision, AtPc
  <2>2. rows' = [rows EXCEPT ![calls[c].id] = Decide(@, calls[c])]
    BY <1>3 DEF CommitDecision
  <2>3. CASE i = calls[c].id
    <3>1. rows[i] \in Row
      BY DEF TypeOK
    <3>2. rows'[i] = Decide(rows[i], calls[c])
      BY <2>2, <2>3 DEF TypeOK
    <3>3. /\ Decide(rows[i], calls[c]).device = rows[i].device
          /\ Decide(rows[i], calls[c]).secs = rows[i].secs
          /\ Decide(rows[i], calls[c]).requested_at = rows[i].requested_at
          /\ Decide(rows[i], calls[c]).status = calls[c].status
          /\ Decide(rows[i], calls[c]) \in Row
      BY <2>1, <3>1, ResultsAreVotes DEF Decide, Row, Decided, Resolved, Status
    <3> QED
      BY <2>1, <3>2, <3>3, NullAssumption DEF Decided
  <2>4. CASE i # calls[c].id
    BY <2>2, <2>4 DEF TypeOK
  <2> QED
    BY <2>3, <2>4
<1> QED
  BY <1>1, <1>2, <1>3 DEF Next, vars, CallStep, CheckCaps, ReadRequest,
     CheckTimeOfDay, EvaluateQuorum, PublishResult, Tick, ChangeBudget,
     CallFails, Crash

-----------------------------------------------------------------------------
(* Type correctness *)

\* A call that ends leaves an idle caller.
LEMMA GotoType ==
  ASSUME NEW c \in Callers, NEW call \in Call, TypeOK, Goto(c, call)
  PROVE  calls' \in [Callers -> Call]
BY DEF Goto, TypeOK

\* The initial states are well typed.
LEMMA TypeInit == ASSUME Init PROVE TypeOK
<1>1. [pc |-> "idle"] \in Call
  BY DEF Call, Idle
<1> QED
  BY <1>1, OverrideAssumption DEF Init, TypeOK, Time

\* Every step keeps the types.
LEMMA TypeStep ==
  ASSUME TypeOK, CallsConsistent, [Next]_vars
  PROVE  TypeOK'
<1> USE OverrideAssumption
<1>0. [pc |-> "idle"] \in Call
  BY DEF Call, Idle
<1>1. ASSUME NEW c \in Callers, NEW d \in Devices, NEW s \in Seconds,
             CheckCaps(c, d, s)
      PROVE  TypeOK'
  <2> DEFINE call == [pc |-> "insert", device |-> d, secs |-> s, at |-> now,
                      seen |-> ApprovedToday(d, DayOf(now))]
  <2>1. ApprovedToday(d, DayOf(now)) \in SUBSET Ids
    BY DEF ApprovedToday
  <2>2. call \in Inserting
    BY <2>1 DEF Inserting, TypeOK, Time
  <2>3. Goto(c, call) /\ call \in Call
    BY <1>1, <2>2 DEF CheckCaps, Call
  <2>4. calls' \in [Callers -> Call]
    BY <2>3, GotoType
  <2> QED
    BY <1>1, <2>4 DEF CheckCaps, TypeOK
<1>2. ASSUME NEW c \in Callers, NEW i \in Ids, NEW v \in Validators,
             NEW a \in BOOLEAN, ReadRequest(c, i, v, a)
      PROVE  TypeOK'
  <2> DEFINE call == [pc |-> "policy", id |-> i,
                      votes |-> RecordVote(rows[i].votes, v, a)]
  <2>1. rows[i].votes \in Votes
    BY <1>2 DEF ReadRequest, IsPending, Exists, TypeOK, Row
  <2>2. call \in Call
    BY <2>1, RecordVoteType DEF Call, Validating
  <2>3. calls' \in [Callers -> Call]
    BY <1>2, <2>2, GotoType DEF ReadRequest
  <2> QED
    BY <1>2, <2>3 DEF ReadRequest, TypeOK
<1>3. ASSUME NEW c \in Callers, InsertRequest(c)
      PROVE  TypeOK'
  <2>1. calls[c] \in Inserting
    BY <1>3, CallShape DEF InsertRequest, AtPc, TypeOK
  <2>2. NewRow(calls[c]) \in Row
    BY <2>1, UnvotedType DEF NewRow, Row, Inserting, Status
  <2>3. rows' \in [Ids -> Row \cup {Null}]
    BY <1>3, <2>2 DEF InsertRequest, TypeOK
  <2>4. seen' \in [Ids -> SUBSET Ids]
    BY <1>3, <2>1 DEF InsertRequest, TypeOK, Inserting
  <2>5. calls' \in [Callers -> Call]
    BY <1>0, <1>3, GotoType DEF InsertRequest
  <2> QED
    BY <1>3, <2>3, <2>4, <2>5 DEF InsertRequest, TypeOK
<1>4. ASSUME NEW c \in Callers, CheckTimeOfDay(c)
      PROVE  TypeOK'
  <2> DEFINE call == [pc |-> "pattern", id |-> calls[c].id,
                      votes |-> calls[c].votes,
                      policy |-> _validate_time_of_day(now)]
  <2>1. calls[c] \in Validating
    BY <1>4, CallShape DEF CheckTimeOfDay, AtPc, TypeOK
  <2>2. _validate_time_of_day(now) \in BOOLEAN
    BY DEF _validate_time_of_day
  <2>3. call \in Call
    BY <2>1, <2>2 DEF Validating, Policed, Call
  <2>4. calls' \in [Callers -> Call]
    BY <1>4, <2>3, GotoType DEF CheckTimeOfDay
  <2> QED
    BY <1>4, <2>4 DEF CheckTimeOfDay, TypeOK
<1>5. ASSUME NEW c \in Callers, EvaluateQuorum(c)
      PROVE  TypeOK'
  <2> DEFINE d       == rows[calls[c].id].device
             results == ValidatorResults(calls[c], budget[d])
  <2>1. calls[c] \in Policed
    BY <1>5, CallShape DEF EvaluateQuorum, AtPc, TypeOK
  <2>2. calls[c].id \in Ids /\ d \in Devices
    BY <1>5, <2>1 DEF EvaluateQuorum, AtPc, TypeOK, CallsConsistent, Policed,
       Exists, Row
  <2>3. results \in Results /\ now \in Time
    BY <2>1, <2>2, ValidatorResultsType DEF TypeOK, Time
  <2>4. PICK t \in {now, now + 1} :
          /\ t <= MaxTime /\ now' = t
          /\ Goto(c, Decision(calls[c], d, results, now, t))
    BY <1>5 DEF EvaluateQuorum
  <2>5. t \in Time /\ now' \in 0 .. MaxTime
    BY <2>4 DEF TypeOK, Time
  <2> HIDE DEF results, d
  <2>6. Decision(calls[c], d, results, now, t) \in Call
    BY <2>2, <2>3, <2>5, DecisionFields DEF Call
  <2>7. calls' \in [Callers -> Call]
    BY <2>4, <2>6, GotoType
  <2> QED
    BY <1>5, <2>5, <2>7 DEF EvaluateQuorum, TypeOK
<1>6. ASSUME NEW c \in Callers, CommitDecision(c)
      PROVE  TypeOK'
  <2> DEFINE call == [pc |-> "publish", id |-> calls[c].id,
                      status |-> calls[c].status]
  <2>1. calls[c] \in Decided
    BY <1>6, CallShape DEF CommitDecision, AtPc, TypeOK
  <2>2. rows[calls[c].id] \in Row
    BY <1>6, <2>1 DEF CommitDecision, AtPc, TypeOK, CallsConsistent, Decided,
       Exists
  <2>3. Decide(rows[calls[c].id], calls[c]) \in Row
    BY <2>1, <2>2, ResultsAreVotes DEF Decide, Row, Decided, Resolved, Status
  <2>4. rows' \in [Ids -> Row \cup {Null}]
    BY <1>6, <2>3 DEF CommitDecision, TypeOK
  <2>5. call \in Call
    BY <2>1 DEF Decided, Announcing, Call
  <2>6. calls' \in [Callers -> Call]
    BY <1>6, <2>5, GotoType DEF CommitDecision
  <2> QED
    BY <1>6, <2>4, <2>6 DEF CommitDecision, TypeOK
<1>7. ASSUME NEW c \in Callers, PublishResult(c)
      PROVE  TypeOK'
  <2>1. calls[c] \in Announcing
    BY <1>7, CallShape DEF PublishResult, AtPc, TypeOK
  <2>2. rows[calls[c].id] \in Row
    BY <1>7, <2>1 DEF PublishResult, AtPc, TypeOK, CallsConsistent,
       Announcing, IsResolved, Exists
  <2>3. ResultMessage(calls[c].id, calls[c].status) \in Message
    BY <2>1, <2>2 DEF ResultMessage, Message, Announcing, Row
  <2>4. published' \in SUBSET Message
    BY <1>7, <2>3 DEF PublishResult, TypeOK
  <2>5. calls' \in [Callers -> Call]
    BY <1>0, <1>7, GotoType DEF PublishResult
  <2> QED
    BY <1>7, <2>4, <2>5 DEF PublishResult, TypeOK
<1>8. CASE Tick
  BY <1>8 DEF Tick, TypeOK
<1>9. ASSUME NEW d \in Devices, ChangeBudget(d)
      PROVE  TypeOK'
  BY <1>9 DEF ChangeBudget, TypeOK
<1>10. CASE Crash
  BY <1>0, <1>10 DEF Crash, TypeOK
<1>11. ASSUME NEW c \in Callers, CallFails(c)
       PROVE  TypeOK'
  <2>1. calls' \in [Callers -> Call]
    BY <1>0, <1>11, GotoType DEF CallFails
  <2> QED
    BY <1>11, <2>1 DEF CallFails, TypeOK
<1>12. CASE UNCHANGED vars
  BY <1>12 DEF vars, TypeOK
<1> QED
  BY <1>1, <1>2, <1>3, <1>4, <1>5, <1>6, <1>7, <1>8, <1>9, <1>10, <1>11,
     <1>12 DEF Next, CallStep

-----------------------------------------------------------------------------
(* The safety invariants *)

\* The row a decision leaves behind, field by field.
LEMMA DecideFields ==
  ASSUME NEW row \in Row, NEW call \in Decided
  PROVE  /\ Decide(row, call) \in Row
         /\ Decide(row, call).device = row.device
         /\ Decide(row, call).requested_at = row.requested_at
         /\ Decide(row, call).votes = call.results
         /\ Decide(row, call).status = call.status
         /\ Decide(row, call).resolved_at = call.resolved_at
         /\ Decide(row, call).signature = call.signature
BY ResultsAreVotes DEF Decide, Row, Decided, Resolved, Status

\* A call's claims about the table survive every step, its own and others'.
LEMMA CallsStep ==
  ASSUME TypeOK, TypeOK', CallsConsistent, [Next]_vars
  PROVE  CallsConsistent'
<1> DEFINE OK(k) ==
       /\ calls'[k].pc \in {"policy", "pattern", "commit"} =>
            Exists(calls[k].id)'
       /\ calls'[k].pc = "commit" =>
            /\ calls'[k].status = QuorumStatus(calls'[k].results)
            /\ calls'[k].signature =
                 _sign_decision(calls'[k].id, rows'[calls'[k].id].device,
                                calls'[k].status, calls'[k].results,
                                calls'[k].signature.hmac.resolved_at)
       /\ calls'[k].pc = "publish" => IsResolved(calls[k].id)'
<1>0. SUFFICES ASSUME NEW k \in Callers PROVE OK(k)
  BY DEF CallsConsistent
<1> /\ calls[k] \in Call
    /\ calls'[k] \in Call
  BY DEF TypeOK
<1>1. ASSUME calls'[k] = calls[k]
      PROVE  OK(k)
  <2>1. CASE calls[k].pc \in {"policy", "pattern", "commit", "publish"}
    <3>1. calls[k].id \in Ids /\ Exists(calls[k].id)
      BY <2>1, CallShape DEF CallsConsistent, Validating, Policed, Decided,
         Announcing, IsResolved
    <3>2. /\ Exists(calls[k].id)'
          /\ rows'[calls'[k].id].device = rows[calls[k].id].device
          /\ IsResolved(calls[k].id) => IsResolved(calls[k].id)'
      BY <1>1, <3>1, RowsGrow DEF Exists, IsResolved
    <3> QED
      BY <1>1, <2>1, <3>2 DEF CallsConsistent
  <2> QED
    BY <1>1, <2>1
<1>2. ASSUME calls'[k].pc \in {"idle", "insert"}
      PROVE  OK(k)
  BY <1>2
<1>3. ASSUME NEW i \in Ids, NEW v \in Validators, NEW a \in BOOLEAN,
             ReadRequest(k, i, v, a)
      PROVE  OK(k)
  <2>1. calls'[k] = [pc |-> "policy", id |-> i,
                     votes |-> RecordVote(rows[i].votes, v, a)]
    BY <1>3 DEF ReadRequest, Goto, TypeOK
  <2>2. Exists(i) /\ rows' = rows
    BY <1>3 DEF ReadRequest, IsPending
  <2> QED
    BY <2>1, <2>2 DEF Exists
<1>4. ASSUME CheckTimeOfDay(k)
      PROVE  OK(k)
  <2>1. /\ calls'[k].pc = "pattern"
        /\ calls'[k].id = calls[k].id
    BY <1>4 DEF CheckTimeOfDay, Goto, TypeOK
  <2>2. Exists(calls[k].id) /\ rows' = rows
    BY <1>4 DEF CheckTimeOfDay, AtPc, CallsConsistent
  <2> QED
    BY <2>1, <2>2 DEF Exists
<1>5. ASSUME EvaluateQuorum(k)
      PROVE  OK(k)
  <2> DEFINE d       == rows[calls[k].id].device
             results == ValidatorResults(calls[k], budget[d])
             new(t)  == Decision(calls[k], d, results, now, t)
  <2>1. calls[k] \in Policed /\ Exists(calls[k].id) /\ rows' = rows
    BY <1>5, CallShape DEF EvaluateQuorum, AtPc, CallsConsistent
  <2>2. calls[k].id \in Ids /\ d \in Devices
    BY <2>1 DEF TypeOK, Policed, Exists, Row
  <2>3. results \in Results /\ now \in Time
    BY <2>1, <2>2, ValidatorResultsType DEF TypeOK, Time
  <2>4. PICK t \in {now, now + 1} : calls'[k] = new(t)
    BY <1>5 DEF EvaluateQuorum, Goto, TypeOK
  <2>5. t \in Time
    BY <2>4 DEF TypeOK, Time
  <2> HIDE DEF results, d
  <2>6. /\ calls'[k].pc = "commit"
        /\ calls'[k].id = calls[k].id
        /\ calls'[k].status = QuorumStatus(calls'[k].results)
        /\ calls'[k].signature =
             _sign_decision(calls[k].id, d, calls'[k].status,
                            calls'[k].results,
                            calls'[k].signature.hmac.resolved_at)
    BY <2>2, <2>3, <2>4, <2>5, DecisionFields
  <2> QED
    BY <2>1, <2>6 DEF Exists, d
<1>6. ASSUME CommitDecision(k)
      PROVE  OK(k)
  <2>1. calls[k] \in Decided
    BY <1>6, CallShape DEF CommitDecision, AtPc
  <2>2. /\ calls'[k].pc = "publish"
        /\ calls'[k].id = calls[k].id
    BY <1>6 DEF CommitDecision, Goto, TypeOK
  <2>3. rows[calls[k].id] \in Row
    BY <1>6, <2>1 DEF CommitDecision, AtPc, TypeOK, CallsConsistent, Decided,
       Exists
  <2>4. rows'[calls[k].id] = Decide(rows[calls[k].id], calls[k])
    BY <1>6, <2>1 DEF CommitDecision, TypeOK, Decided
  <2> QED
    BY <2>1, <2>2, <2>3, <2>4, DecideFields, NullAssumption
       DEF IsResolved, Exists, Decided
<1>7. ASSUME NEW c \in Callers, c # k,
             \/ \E d \in Devices, s \in Seconds : CheckCaps(c, d, s)
             \/ \E i \in Ids, v \in Validators, a \in BOOLEAN :
                  ReadRequest(c, i, v, a)
             \/ CallStep(c) \/ CallFails(c)
      PROVE  OK(k)
  <2>1. calls'[k] = calls[k]
    BY <1>7 DEF CheckCaps, ReadRequest, CallStep, InsertRequest,
       CheckTimeOfDay, EvaluateQuorum, CommitDecision, PublishResult,
       CallFails, Goto, TypeOK
  <2> QED
    BY <1>1, <2>1
<1>8. ASSUME NEW d \in Devices, NEW s \in Seconds, CheckCaps(k, d, s)
      PROVE  OK(k)
  <2>1. calls'[k].pc = "insert"
    BY <1>8 DEF CheckCaps, Goto, TypeOK
  <2> QED
    BY <1>2, <2>1
<1>9. CASE InsertRequest(k) \/ PublishResult(k) \/ CallFails(k) \/ Crash
  <2>1. calls'[k].pc = "idle"
    BY <1>9 DEF InsertRequest, PublishResult, CallFails, Crash, Goto, TypeOK
  <2> QED
    BY <1>2, <2>1
<1>10. CASE Tick \/ (\E d \in Devices : ChangeBudget(d)) \/ UNCHANGED vars
  <2>1. calls'[k] = calls[k]
    BY <1>10 DEF Tick, ChangeBudget, vars
  <2> QED
    BY <1>1, <2>1
<1> HIDE DEF OK
<1> QED
  BY <1>3, <1>4, <1>5, <1>6, <1>7, <1>8, <1>9, <1>10 DEF Next, CallStep

\* Which rows a step touches: none, one insertion, or one decision.
LEMMA RowChanges ==
  ASSUME TypeOK, CallsConsistent, [Next]_vars
  PROVE  \/ rows' = rows
         \/ \E c \in Callers, i \in Ids :
              /\ calls[c] \in Inserting
              /\ rows' = [rows EXCEPT ![i] = NewRow(calls[c])]
         \/ \E c \in Callers :
              /\ calls[c] \in Decided
              /\ calls[c].pc = "commit"
              /\ rows[calls[c].id] \in Row
              /\ rows' = [rows EXCEPT ![calls[c].id] = Decide(@, calls[c])]
<1>1. ASSUME NEW c \in Callers, InsertRequest(c)
      PROVE  \E i \in Ids :
               /\ calls[c] \in Inserting
               /\ rows' = [rows EXCEPT ![i] = NewRow(calls[c])]
  BY <1>1, CallShape DEF InsertRequest, AtPc, TypeOK
<1>2. ASSUME NEW c \in Callers, CommitDecision(c)
      PROVE  /\ calls[c] \in Decided
             /\ calls[c].pc = "commit"
             /\ rows[calls[c].id] \in Row
             /\ rows' = [rows EXCEPT ![calls[c].id] = Decide(@, calls[c])]
  <2>1. calls[c] \in Decided /\ calls[c].pc = "commit"
    BY <1>2, CallShape DEF CommitDecision, AtPc, TypeOK
  <2>2. rows[calls[c].id] \in Row
    BY <2>1 DEF CallsConsistent, Decided, Exists, TypeOK
  <2> QED
    BY <1>2, <2>1, <2>2 DEF CommitDecision
<1> QED
  BY <1>1, <1>2 DEF Next, vars, CallStep, CheckCaps, ReadRequest,
     CheckTimeOfDay, EvaluateQuorum, PublishResult, Tick, ChangeBudget,
     CallFails, Crash

\* Every step keeps the audit record consistent: a decision writes verdict,
\* results and signature of one evaluation together, over whatever the row
\* held.
LEMMA AuditStep ==
  ASSUME TypeOK, CallsConsistent, AuditConsistent, [Next]_vars
  PROVE  AuditConsistent'
<1> DEFINE Audit(row, i) ==
             /\ row.votes \in Results
             /\ row.status = "approved" <=> YesCount(row.votes) >= 2
             /\ row.resolved_at # Null
             /\ row.signature # Null
             /\ row.signature =
                  _sign_decision(i, row.device, row.status, row.votes,
                                 row.signature.hmac.resolved_at)
           Good(row, i) ==
             row # Null /\ row.status \in Resolved => Audit(row, i)
<1>1. \A i \in Ids : Good(rows[i], i)
  BY DEF AuditConsistent, IsResolved, Exists
<1>2. SUFFICES ASSUME NEW i \in Ids PROVE Good(rows'[i], i)
  BY DEF AuditConsistent, IsResolved, Exists
<1>3. CASE rows' = rows
  BY <1>1, <1>3
<1>4. ASSUME NEW c \in Callers, NEW j \in Ids, calls[c] \in Inserting,
             rows' = [rows EXCEPT ![j] = NewRow(calls[c])]
      PROVE  Good(rows'[i], i)
  <2>1. NewRow(calls[c]).status = "pending"
    BY DEF NewRow
  <2>2. Good(NewRow(calls[c]), i)
    BY <2>1 DEF Resolved
  <2>3. rows'[i] = IF i = j THEN NewRow(calls[c]) ELSE rows[i]
    BY <1>4 DEF TypeOK
  <2> QED
    BY <1>1, <2>2, <2>3
<1>5. ASSUME NEW c \in Callers, calls[c] \in Decided,
             calls[c].pc = "commit", rows[calls[c].id] \in Row,
             rows' = [rows EXCEPT ![calls[c].id] = Decide(@, calls[c])]
      PROVE  Good(rows'[i], i)
  <2> DEFINE new == Decide(rows[calls[c].id], calls[c])
  <2>1. rows'[i] = IF i = calls[c].id THEN new ELSE rows[i]
    BY <1>5 DEF TypeOK, Decided
  <2>2. /\ new.device = rows[calls[c].id].device
        /\ new.votes = calls[c].results
        /\ new.status = calls[c].status
        /\ new.resolved_at = calls[c].resolved_at
        /\ new.signature = calls[c].signature
    BY <1>5, DecideFields
  <2>3. /\ calls[c].status = QuorumStatus(calls[c].results)
        /\ calls[c].signature =
              _sign_decision(calls[c].id, rows[calls[c].id].device,
                             calls[c].status, calls[c].results,
                             calls[c].signature.hmac.resolved_at)
    BY <1>5 DEF CallsConsistent
  <2>4. /\ calls[c].results \in Results
        /\ calls[c].status \in Resolved
        /\ calls[c].resolved_at # Null
        /\ calls[c].signature # Null
    BY <1>5, NullAssumption DEF Decided
  <2> HIDE DEF new
  <2>5. Audit(new, calls[c].id)
    BY <2>2, <2>3, <2>4 DEF QuorumStatus
  <2> QED
    BY <1>1, <2>1, <2>5
<1> HIDE DEF Good
<1> QED
  BY <1>3, <1>4, <1>5, RowChanges

\* Time does not go back.
LEMMA NowGrows ==
  ASSUME TypeOK, [Next]_vars
  PROVE  now' \in Nat /\ now \in Nat /\ now <= now'
<1>1. now \in Nat
  BY OverrideAssumption DEF TypeOK
<1>2. now' \in {now, now + 1}
  BY DEF Next, vars, CallStep, CheckCaps, ReadRequest, InsertRequest,
     CheckTimeOfDay, EvaluateQuorum, CommitDecision, PublishResult, Tick,
     ChangeBudget, CallFails, Crash
<1> QED
  BY <1>1, <1>2

\* Where a call that inserts or commits after a step comes from: it was
\* there, or the step is the one that reads the clock for it.
LEMMA CallOrigin ==
  ASSUME TypeOK, CallsConsistent, [Next]_vars, NEW k \in Callers,
         calls'[k].pc \in {"insert", "commit"}
  PROVE  \/ calls'[k] = calls[k]
         \/ \E d \in Devices, s \in Seconds :
              /\ 0 < s /\ WithinCap(d, s)
              /\ calls'[k] = [pc |-> "insert", device |-> d, secs |-> s,
                              at |-> now, seen |-> ApprovedToday(d, DayOf(now))]
         \/ /\ Exists(calls[k].id) /\ calls[k] \in Policed
            /\ \E d \in Devices, r \in Results :
                 calls'[k] = Decision(calls[k], d, r, now, now')
<1> /\ calls \in [Callers -> Call]
    /\ calls[k] \in Call
  BY DEF TypeOK
<1>1. ASSUME NEW c \in Callers, NEW d \in Devices, NEW s \in Seconds,
             CheckCaps(c, d, s)
      PROVE  \/ calls'[k] = calls[k]
             \/ /\ 0 < s /\ WithinCap(d, s)
                /\ calls'[k] = [pc |-> "insert", device |-> d, secs |-> s,
                                at |-> now,
                                seen |-> ApprovedToday(d, DayOf(now))]
  BY <1>1 DEF CheckCaps, Goto
<1>2. ASSUME NEW c \in Callers,
             \/ InsertRequest(c) \/ CheckTimeOfDay(c)
             \/ CommitDecision(c) \/ PublishResult(c) \/ CallFails(c)
             \/ \E i \in Ids, v \in Validators, a \in BOOLEAN :
                  ReadRequest(c, i, v, a)
      PROVE  calls'[k] = calls[k]
  <2>1. ASSUME NEW call, Goto(c, call), call.pc \notin {"insert", "commit"}
        PROVE  calls'[k] = calls[k]
    BY <2>1 DEF Goto
  <2> QED
    BY <1>2, <2>1 DEF InsertRequest, CheckTimeOfDay, CommitDecision,
       PublishResult, CallFails, ReadRequest
<1>3. ASSUME NEW c \in Callers, EvaluateQuorum(c)
      PROVE  \/ calls'[k] = calls[k]
             \/ /\ Exists(calls[k].id) /\ calls[k] \in Policed
                /\ \E d \in Devices, r \in Results :
                     calls'[k] = Decision(calls[k], d, r, now, now')
  <2>1. CASE c # k
    BY <1>3, <2>1 DEF EvaluateQuorum, Goto
  <2>2. CASE c = k
    <3> DEFINE d == rows[calls[k].id].device
               r == ValidatorResults(calls[k], budget[d])
    <3>1. calls[k] \in Policed /\ Exists(calls[k].id)
      BY <1>3, <2>2, CallShape DEF EvaluateQuorum, AtPc, CallsConsistent
    <3>2. d \in Devices
      BY <3>1 DEF TypeOK, Policed, Exists, Row
    <3>3. r \in Results
      BY <3>1, <3>2, ValidatorResultsType DEF TypeOK
    <3>4. calls'[k] = Decision(calls[k], d, r, now, now')
      BY <1>3, <2>2 DEF EvaluateQuorum, Goto
    <3> HIDE DEF d, r
    <3> QED
      BY <3>1, <3>2, <3>3, <3>4
  <2> QED
    BY <2>1, <2>2
<1>4. CASE Tick \/ (\E d \in Devices : ChangeBudget(d)) \/ UNCHANGED vars
  BY <1>4 DEF Tick, ChangeBudget, vars
<1>5. CASE Crash
  BY <1>5 DEF Crash
<1> QED
  BY <1>1, <1>2, <1>3, <1>4, <1>5 DEF Next, CallStep

\* Every step keeps the times in order.
LEMMA OrderStep ==
  ASSUME TypeOK, TypeOK', CallsConsistent, TimesOrdered, AuditConsistent,
         AuditOrdered, [Next]_vars
  PROVE  TimesOrdered' /\ AuditOrdered'
<1>0. now \in Nat /\ now' \in Nat /\ now <= now'
  BY NowGrows
<1>1. ASSUME NEW i \in Ids, Exists(i)'
      PROVE  rows'[i].requested_at <= now'
  <2>1. CASE Exists(i)
    <3>1. rows'[i].requested_at = rows[i].requested_at
      BY <2>1, RowsGrow
    <3>2. rows[i].requested_at \in Nat /\ rows[i].requested_at <= now
      BY <2>1 DEF TimesOrdered, TypeOK, Row, Time, Exists
    <3> QED
      BY <1>0, <3>1, <3>2
  <2>2. CASE ~Exists(i)
    <3>1. PICK c \in Callers : /\ calls[c] \in Inserting
                               /\ rows'[i] = NewRow(calls[c])
      <4>1. ASSUME NEW c \in Callers, calls[c] \in Decided,
                   rows[calls[c].id] \in Row,
                   rows' = [rows EXCEPT ![calls[c].id] = Decide(@, calls[c])]
            PROVE  FALSE
        BY <1>1, <2>2, <4>1, NullAssumption DEF Exists, TypeOK, Decided
      <4> QED
        BY <1>1, <2>2, <4>1, RowChanges DEF Exists, TypeOK
    <3>2. calls[c].at \in Nat /\ calls[c].at <= now
      BY <3>1 DEF TimesOrdered, Inserting, Time
    <3>3. rows'[i].requested_at = calls[c].at
      BY <3>1 DEF NewRow
    <3> QED
      BY <1>0, <3>2, <3>3
  <2> QED
    BY <2>1, <2>2
<1>2. ASSUME NEW k \in Callers
      PROVE  /\ calls'[k].pc = "insert" => calls'[k].at <= now'
             /\ calls'[k].pc = "commit" =>
                  LET signed == calls'[k].signature.hmac.resolved_at IN
                    /\ rows'[calls'[k].id].requested_at <= signed
                    /\ signed <= calls'[k].resolved_at
                    /\ calls'[k].resolved_at <= now'
  <2>0. SUFFICES ASSUME calls'[k].pc \in {"insert", "commit"}
                 PROVE  /\ calls'[k].pc = "insert" => calls'[k].at <= now'
                        /\ calls'[k].pc = "commit" =>
                             LET signed == calls'[k].signature.hmac.resolved_at
                             IN  /\ rows'[calls'[k].id].requested_at <= signed
                                 /\ signed <= calls'[k].resolved_at
                                 /\ calls'[k].resolved_at <= now'
    OBVIOUS
  <2>1. CASE calls'[k] = calls[k]
    <3>1. CASE calls[k].pc = "insert"
      <4>1. calls[k].at \in Nat /\ calls[k].at <= now
        BY <3>1, CallShape DEF TypeOK, TimesOrdered, Inserting, Time
      <4> QED
        BY <1>0, <2>1, <3>1, <4>1
    <3>2. CASE calls[k].pc = "commit"
      <4>1. calls[k] \in Decided /\ Exists(calls[k].id)
        BY <3>2, CallShape DEF TypeOK, CallsConsistent
      <4>2. calls[k].id \in Ids /\ calls[k].resolved_at \in Nat
        BY <4>1 DEF Decided, Time
      <4>3. rows'[calls[k].id].requested_at = rows[calls[k].id].requested_at
        BY <4>1, <4>2, RowsGrow
      <4> QED
        BY <1>0, <2>1, <3>2, <4>2, <4>3 DEF TimesOrdered
    <3> QED
      BY <2>0, <2>1, <3>1, <3>2
  <2>2. ASSUME NEW d \in Devices, NEW s \in Seconds,
               calls'[k] = [pc |-> "insert", device |-> d, secs |-> s,
                            at |-> now, seen |-> ApprovedToday(d, DayOf(now))]
        PROVE  calls'[k].pc = "insert" /\ calls'[k].at <= now'
    BY <1>0, <2>2
  <2>3. ASSUME NEW d \in Devices, NEW r \in Results, calls[k] \in Policed,
               Exists(calls[k].id),
               calls'[k] = Decision(calls[k], d, r, now, now')
        PROVE  /\ calls'[k].pc = "commit"
               /\ LET signed == calls'[k].signature.hmac.resolved_at IN
                    /\ rows'[calls'[k].id].requested_at <= signed
                    /\ signed <= calls'[k].resolved_at
                    /\ calls'[k].resolved_at <= now'
    <3>1. calls[k].id \in Ids /\ now \in Time /\ now' \in Time
      BY <1>0, <2>3 DEF Policed, Time
    <3>2. /\ calls'[k].pc = "commit" /\ calls'[k].id = calls[k].id
          /\ calls'[k].resolved_at = now'
          /\ calls'[k].signature.hmac.resolved_at = now
      BY <2>3, <3>1, DecisionFields
    <3>3. rows'[calls[k].id].requested_at = rows[calls[k].id].requested_at
      BY <2>3, <3>1, RowsGrow
    <3>4. rows[calls[k].id].requested_at <= now
      BY <2>3, <3>1 DEF TimesOrdered
    <3> QED
      BY <1>0, <3>2, <3>3, <3>4
  <2> QED
    BY <2>0, <2>1, <2>2, <2>3, CallOrigin
<1>3. ASSUME NEW i \in Ids, IsResolved(i)'
      PROVE  /\ rows'[i].requested_at <= rows'[i].signature.hmac.resolved_at
             /\ rows'[i].signature.hmac.resolved_at <= rows'[i].resolved_at
             /\ rows'[i].resolved_at <= now'
  <2>1. CASE rows'[i] = rows[i]
    <3>1. IsResolved(i)
      BY <1>3, <2>1 DEF IsResolved, Exists
    <3>2. /\ rows[i].requested_at <= rows[i].signature.hmac.resolved_at
          /\ rows[i].signature.hmac.resolved_at <= rows[i].resolved_at
          /\ rows[i].resolved_at <= now
      BY <3>1 DEF AuditOrdered
    <3>3. rows[i].resolved_at \in Nat
      BY <3>1 DEF AuditConsistent, TypeOK, IsResolved, Exists, Row, Time
    <3> QED
      BY <1>0, <2>1, <3>2, <3>3
  <2>2. ASSUME NEW c \in Callers, calls[c] \in Inserting,
               rows'[i] = NewRow(calls[c])
        PROVE  FALSE
    BY <1>3, <2>2 DEF IsResolved, NewRow, Resolved
  <2>3. ASSUME NEW c \in Callers, calls[c] \in Decided,
               calls[c].pc = "commit", rows[i] \in Row, i = calls[c].id,
               rows'[i] = Decide(rows[i], calls[c])
        PROVE  /\ rows'[i].requested_at <= rows'[i].signature.hmac.resolved_at
               /\ rows'[i].signature.hmac.resolved_at <= rows'[i].resolved_at
               /\ rows'[i].resolved_at <= now'
    <3>1. /\ rows'[i].requested_at = rows[i].requested_at
          /\ rows'[i].resolved_at = calls[c].resolved_at
          /\ rows'[i].signature = calls[c].signature
      BY <2>3, DecideFields
    <3>2. calls[c].resolved_at \in Nat
      BY <2>3 DEF Decided, Time
    <3> QED
      BY <1>0, <2>3, <3>1, <3>2 DEF TimesOrdered
  <2> QED
    BY <2>1, <2>2, <2>3, RowChanges DEF TypeOK, Decided
<1> QED
  BY <1>1, <1>2, <1>3 DEF TimesOrdered, AuditOrdered

\* Every step keeps announcements within what is committed.
LEMMA NotifiedStep ==
  ASSUME TypeOK, CallsConsistent, NotifiedOnlyIfDecided, [Next]_vars
  PROVE  NotifiedOnlyIfDecided'
<1> SUFFICES ASSUME NEW m \in published'
             PROVE  /\ IsResolved(m.id)'
                    /\ m.extra = IF m.approved THEN rows'[m.id].secs ELSE 0
  BY DEF NotifiedOnlyIfDecided
<1>1. CASE m \in published
  <2>1. /\ m.id \in Ids
        /\ IsResolved(m.id)
        /\ m.extra = IF m.approved THEN rows[m.id].secs ELSE 0
    BY <1>1 DEF NotifiedOnlyIfDecided, TypeOK, Message
  <2> QED
    BY <2>1, RowsGrow DEF IsResolved
<1>2. CASE m \notin published
  <2>1. PICK c \in Callers : PublishResult(c)
    BY <1>2 DEF Next, vars, CallStep, CheckCaps, ReadRequest, InsertRequest,
       CheckTimeOfDay, EvaluateQuorum, CommitDecision, Tick, ChangeBudget,
       CallFails, Crash
  <2>2. m = ResultMessage(calls[c].id, calls[c].status) /\ rows' = rows
    BY <1>2, <2>1 DEF PublishResult
  <2>3. IsResolved(calls[c].id)
    BY <2>1 DEF PublishResult, AtPc, CallsConsistent
  <2> QED
    BY <2>2, <2>3 DEF ResultMessage, IsResolved, Exists
<1> QED
  BY <1>1, <1>2

-----------------------------------------------------------------------------
(* The daily cap *)

\* What a cap check established stays true: requests stay in the table and
\* keep what they ask for.
LEMMA CheckedStays ==
  ASSUME TypeOK, CallsConsistent, IsFiniteSet(Table(rows)), [Next]_vars,
         NEW S, NEW s, Checked(rows, S, s)
  PROVE  Checked(rows', S, s)
<1> DEFINE f == [i \in S |-> rows[i].secs]
           e == [i \in S |-> rows'[i].secs]
<1>1. S \subseteq Table(rows) /\ IsFiniteSet(S)
  BY FS_Subset DEF Checked
<1>2. \A i \in S : f[i] = e[i] /\ i \in Table(rows')
  BY <1>1, RowsGrow DEF Table, Exists
<1>3. SumFunctionOnSet(f, S) = SumFunctionOnSet(e, S)
  <2> HIDE DEF f, e
  <2> QED
    BY <1>1, <1>2, SumCongruent
<1>4. SecondsIn(rows', S) = SecondsIn(rows, S)
  BY <1>3 DEF SecondsIn
<1>5. S \subseteq Table(rows')
  BY <1>2
<1> QED
  BY <1>4, <1>5 DEF Checked

\* How a step changes the table of requests and the history of checks.
LEMMA RequestsChange ==
  ASSUME TypeOK, CallsConsistent, [Next]_vars
  PROVE  \/ Table(rows') = Table(rows) /\ seen' = seen
         \/ \E c \in Callers, i \in Ids :
              /\ calls[c].pc = "insert"
              /\ ~Exists(i)
              /\ Table(rows') = Table(rows) \cup {i}
              /\ rows'[i].secs = calls[c].secs
              /\ seen' = [seen EXCEPT ![i] = calls[c].seen]
<1>1. CASE rows' = rows /\ seen' = seen
  BY <1>1
<1>2. ASSUME NEW c \in Callers, InsertRequest(c)
      PROVE  \E i \in Ids :
               /\ calls[c].pc = "insert"
               /\ ~Exists(i)
               /\ Table(rows') = Table(rows) \cup {i}
               /\ rows'[i].secs = calls[c].secs
               /\ seen' = [seen EXCEPT ![i] = calls[c].seen]
  <2>1. calls[c].pc = "insert" /\ calls[c] \in Inserting
    BY <1>2, CallShape DEF InsertRequest, AtPc, TypeOK
  <2>2. PICK i \in Ids : /\ ~Exists(i)
                         /\ rows' = [rows EXCEPT ![i] = NewRow(calls[c])]
                         /\ seen' = [seen EXCEPT ![i] = calls[c].seen]
    BY <1>2 DEF InsertRequest
  <2>3. NewRow(calls[c]) \in Row /\ NewRow(calls[c]).secs = calls[c].secs
    BY <2>1, UnvotedType DEF NewRow, Row, Inserting, Status
  <2>4. /\ rows'[i] = NewRow(calls[c])
        /\ \A j \in Ids : j # i => rows'[j] = rows[j]
    BY <2>2 DEF TypeOK
  <2>5. Table(rows') = Table(rows) \cup {i}
    BY <2>2, <2>3, <2>4, NullAssumption DEF Table
  <2> QED
    BY <2>1, <2>2, <2>3, <2>4, <2>5
<1>3. ASSUME NEW c \in Callers, CommitDecision(c)
      PROVE  Table(rows') = Table(rows) /\ seen' = seen
  <2>1. calls[c] \in Decided /\ rows[calls[c].id] \in Row
    BY <1>3, CallShape DEF CommitDecision, AtPc, TypeOK, CallsConsistent,
       Decided, Exists
  <2>2. Decide(rows[calls[c].id], calls[c]) # Null
    BY <2>1, DecideFields, NullAssumption
  <2>3. \A i \in Ids : rows'[i] # Null <=> rows[i] # Null
    BY <1>3, <2>1, <2>2, NullAssumption DEF CommitDecision, TypeOK, Decided
  <2> QED
    BY <1>3, <2>3 DEF CommitDecision, Table
<1> QED
  BY <1>1, <1>2, <1>3 DEF Next, vars, CallStep, CheckCaps, ReadRequest,
     CheckTimeOfDay, EvaluateQuorum, PublishResult, Tick, ChangeBudget,
     CallFails, Crash

\* Every step keeps the checks made and the order they were made in.
LEMMA CapStep ==
  ASSUME TypeOK, TypeOK', CallsConsistent, CapChecked, [Next]_vars
  PROVE  CapChecked'
<1>0. IsFiniteSet(Table(rows))
  BY DEF CapChecked
<1>1. ASSUME NEW k \in Callers, calls'[k].pc = "insert"
      PROVE  Checked(rows', calls'[k].seen, calls'[k].secs)
  <2>1. Checked(rows, calls'[k].seen, calls'[k].secs)
    <3>1. CASE calls'[k] = calls[k]
      BY <1>1, <3>1 DEF CapChecked
    <3>2. ASSUME NEW d \in Devices, NEW s \in Seconds, 0 < s, WithinCap(d, s),
                 calls'[k] = [pc |-> "insert", device |-> d, secs |-> s,
                              at |-> now,
                              seen |-> ApprovedToday(d, DayOf(now))]
          PROVE  Checked(rows, calls'[k].seen, calls'[k].secs)
      <4>1. ApprovedToday(d, DayOf(now)) \subseteq Table(rows)
        BY DEF ApprovedToday, Table, Exists
      <4>2. s \in Nat
        BY <3>2, OverrideAssumption
      <4>3. SecondsIn(rows, ApprovedToday(d, DayOf(now))) + s <= DailyCap
        BY <3>2 DEF WithinCap, SumSeconds, SecondsIn
      <4> QED
        BY <3>2, <4>1, <4>2, <4>3 DEF Checked
    <3>3. ASSUME NEW d \in Devices, NEW r \in Results, calls[k] \in Policed,
                 calls'[k] = Decision(calls[k], d, r, now, now')
          PROVE  FALSE
      BY <1>1, <3>3 DEF Decision
    <3> QED
      BY <1>1, <3>1, <3>2, <3>3, CallOrigin
  <2> QED
    BY <1>0, <2>1, CheckedStays
<1>2. CASE Table(rows') = Table(rows) /\ seen' = seen
  <2>1. ASSUME NEW i \in Ids, Exists(i)'
        PROVE  Checked(rows', seen'[i], rows'[i].secs)
    <3>1. Exists(i)
      BY <1>2, <2>1 DEF Table, Exists
    <3>2. Checked(rows, seen[i], rows[i].secs)
      BY <3>1 DEF CapChecked
    <3>3. Checked(rows', seen[i], rows[i].secs)
      BY <1>0, <3>2, CheckedStays
    <3>4. rows'[i].secs = rows[i].secs
      BY <3>1, RowsGrow
    <3> QED
      BY <1>2, <3>3, <3>4
  <2> QED
    BY <1>1, <1>2, <2>1 DEF CapChecked
<1>3. ASSUME NEW c \in Callers, NEW i \in Ids, calls[c].pc = "insert",
             ~Exists(i), Table(rows') = Table(rows) \cup {i},
             rows'[i].secs = calls[c].secs,
             seen' = [seen EXCEPT ![i] = calls[c].seen]
      PROVE  CapChecked'
  <2>1. IsFiniteSet(Table(rows'))
    BY <1>0, <1>3, FS_AddElement
  <2>2. /\ seen'[i] = calls[c].seen
        /\ \A j \in Ids : j # i => seen'[j] = seen[j]
    BY <1>3 DEF TypeOK
  <2>3. i \notin Table(rows)
    BY <1>3 DEF Table, Exists
  <2>4. ASSUME NEW j \in Ids, Exists(j)'
        PROVE  /\ Checked(rows, seen'[j], rows'[j].secs)
               /\ Checked(rows', seen'[j], rows'[j].secs)
    <3>1. CASE j = i
      BY <1>0, <1>3, <2>2, <3>1, CheckedStays DEF CapChecked
    <3>2. CASE j # i
      <4>1. Exists(j)
        BY <1>3, <2>4, <3>2 DEF Table, Exists
      <4>2. Checked(rows, seen[j], rows[j].secs)
        BY <4>1 DEF CapChecked
      <4>3. Checked(rows', seen[j], rows[j].secs)
        BY <1>0, <4>2, CheckedStays
      <4>4. rows'[j].secs = rows[j].secs
        BY <4>1, RowsGrow
      <4> QED
        BY <2>2, <3>2, <4>2, <4>3, <4>4
    <3> QED
      BY <3>1, <3>2
  <2>5. ASSUME NEW X \in SUBSET Table(rows'), X # {}
        PROVE  \E j \in X : \A k \in X : j \notin seen'[k]
    <3>1. CASE i \in X
      <4>1. ASSUME NEW k \in X
            PROVE  i \notin seen'[k]
        <5>1. k \in Ids /\ Exists(k)'
          BY DEF Table, Exists
        <5>2. seen'[k] \subseteq Table(rows)
          BY <2>4, <5>1 DEF Checked
        <5> QED
          BY <2>3, <5>2
      <4> QED
        BY <3>1, <4>1
    <3>2. CASE i \notin X
      <4>1. X \in SUBSET Table(rows)
        BY <1>3, <3>2
      <4>2. PICK j \in X : \A k \in X : j \notin seen[k]
        BY <2>5, <4>1 DEF CapChecked
      <4>3. \A k \in X : seen'[k] = seen[k]
        BY <2>2, <3>2, <4>1 DEF Table
      <4> QED
        BY <4>2, <4>3
    <3> QED
      BY <3>1, <3>2
  <2> QED
    BY <1>1, <2>1, <2>4, <2>5 DEF CapChecked
<1> QED
  BY <1>2, <1>3, RequestsChange

\* Requests of which each saw or was seen by every other one stay within the
\* cap: the last of them saw all the others.
LEMMA SerialWithinCap ==
  ASSUME CapChecked, NEW X \in SUBSET Table(rows),
         \A i, j \in X : i # j => i \in seen[j] \/ j \in seen[i]
  PROVE  SumSeconds(X) <= DailyCap
<1>1. CASE X = {}
  BY <1>1, SumEmpty, OverrideAssumption DEF SumSeconds
<1>2. CASE X # {}
  <2>1. PICK j \in X : \A k \in X : j \notin seen[k]
    BY <1>2 DEF CapChecked
  <2> DEFINE rest == X \ {j}
             S    == seen[j]
             f    == [i \in X |-> rows[i].secs]
             e    == [i \in S |-> rows[i].secs]
  <2>2. rest \subseteq S
    BY <2>1
  <2>3. Checked(rows, S, rows[j].secs)
    BY <2>1 DEF CapChecked, Table, Exists
  <2>4. IsFiniteSet(X) /\ IsFiniteSet(S) /\ IsFiniteSet(rest)
    <3>1. S \subseteq Table(rows) /\ IsFiniteSet(Table(rows))
      BY <2>3 DEF Checked, CapChecked
    <3> QED
      BY <2>2, <3>1, FS_Subset
  <2>5. \A i \in Table(rows) : rows[i].secs \in Nat
    BY DEF CapChecked, Checked, Table, Exists
  <2>6. /\ \A i \in X : f[i] \in Nat
        /\ \A i \in S : e[i] \in Nat
        /\ \A i \in rest : f[i] = e[i]
        /\ f[j] = rows[j].secs
    BY <2>2, <2>3, <2>5 DEF Checked
  <2>7. SumSeconds(X) = SumFunctionOnSet(f, X)
    BY DEF SumSeconds
  <2>8. SumFunctionOnSet(e, S) + rows[j].secs <= DailyCap
    BY <2>3 DEF Checked, SecondsIn
  <2> HIDE DEF f, e, S, rest
  <2>9. SumFunctionOnSet(f, X) = f[j] + SumFunctionOnSet(f, rest)
    BY <2>4, <2>6, SumSplit DEF rest
  <2>10. SumFunctionOnSet(f, rest) = SumFunctionOnSet(e, rest)
    BY <2>4, <2>6, SumCongruent
  <2>11. SumFunctionOnSet(e, rest) <= SumFunctionOnSet(e, S)
    BY <2>2, <2>4, <2>6, SumMonotone
  <2>12. /\ SumFunctionOnSet(e, S) \in Nat
         /\ SumFunctionOnSet(e, rest) \in Nat
    BY <2>2, <2>4, <2>6, SumType
  <2> QED
    BY <2>5, <2>6, <2>7, <2>8, <2>9, <2>10, <2>11, <2>12, OverrideAssumption
<1> QED
  BY <1>1, <1>2

\* A device's approved requests of a day are requests.
LEMMA OvershootFromChecks == ASSUME CapChecked PROVE OvershootNeedsOverlap
<1> SUFFICES ASSUME NEW d \in Devices, NEW day \in 0 .. DayOf(MaxTime)
             PROVE  LET granted == {i \in ApprovedToday(d, day) :
                                      DayOf(rows[i].requested_at) = day}
                    IN  SumSeconds(granted) > DailyCap =>
                          \E i, j \in granted :
                            i # j /\ i \notin seen[j] /\ j \notin seen[i]
  BY DEF OvershootNeedsOverlap
<1> DEFINE granted == {i \in ApprovedToday(d, day) :
                         DayOf(rows[i].requested_at) = day}
<1>1. granted \in SUBSET Table(rows)
  BY DEF ApprovedToday, Table, Exists
<1> HIDE DEF granted
<1>2. SUFFICES ASSUME ~ \E i, j \in granted :
                          i # j /\ i \notin seen[j] /\ j \notin seen[i]
               PROVE  ~(SumSeconds(granted) > DailyCap)
  BY DEF granted
<1>3. SumSeconds(granted) <= DailyCap
  BY <1>1, <1>2, SerialWithinCap
<1>4. SumSeconds(granted) \in Int
  <2> DEFINE f == [i \in granted |-> rows[i].secs]
  <2>1. IsFiniteSet(granted) /\ \A i \in granted : f[i] \in Int
    BY <1>1, FS_Subset DEF CapChecked, Checked, Table, Exists
  <2>2. SumFunctionOnSet(f, granted) \in Int
    <3> HIDE DEF f
    <3> QED
      BY <2>1, SumType
  <2> QED
    BY <2>2 DEF SumSeconds
<1> QED
  BY <1>3, <1>4, OverrideAssumption

-----------------------------------------------------------------------------
(* Theorems *)

\* IInv is inductive.
THEOREM Inductive == Spec => []IInv
<1>0. Init => CapChecked
  <2> SUFFICES ASSUME Init PROVE CapChecked
    OBVIOUS
  <2>1. Table(rows) = {}
    BY DEF Init, Table
  <2> QED
    BY <2>1, FS_EmptySet DEF Init, CapChecked, Exists
<1>1. Init => IInv
  BY <1>0, TypeInit DEF Init, IInv, CallsConsistent, TimesOrdered,
     AuditConsistent, AuditOrdered, NotifiedOnlyIfDecided, IsResolved, Exists
<1>2. IInv /\ [Next]_vars => IInv'
  BY TypeStep, CallsStep, OrderStep, CapStep, AuditStep, NotifiedStep DEF IInv
<1> QED
  BY <1>1, <1>2, PTL DEF Spec

\* The tables and the locals of calls in flight keep their types.
THEOREM TypeCorrect == Spec => []TypeOK
BY Inductive, PTL DEF IInv

\* Whatever votes race on a request, its stored record is one evaluation's
\* verdict, results and signature (cast_vote's UPDATE).
THEOREM AuditTrail == Spec => []AuditConsistent
BY Inductive, PTL DEF IInv

\* A decision is signed after its request was made and stored no earlier than
\* it was signed, whichever of the votes that race on it is written last.
THEOREM AuditInOrder == Spec => []AuditOrdered
BY Inductive, PTL DEF IInv

\* A device exceeds its daily cap only through requests checked at the same
\* time: whatever the number of requests and callers, if of every two approved
\* requests of a day one was seen by the other's check, they add up to no more
\* than DAILY_OVERRIDE_CAP_SECONDS.
THEOREM CapNeedsOverlap == Spec => []OvershootNeedsOverlap
BY Inductive, OvershootFromChecks, PTL DEF IInv

\* _publish_override_result never runs ahead of the commit.
THEOREM NotificationSafe == Spec => []NotifiedOnlyIfDecided
BY Inductive, PTL DEF IInv

\* No step of any interleaving, faults included, reopens a resolved request
\* or changes what was asked for.
THEOREM NeverReopened == Spec => ResolvedStaysResolved
<1>1. IInv /\ [Next]_vars =>
        [\A i \in Ids : IsResolved(i) =>
           /\ IsResolved(i)'
           /\ rows'[i].device = rows[i].device
           /\ rows'[i].secs = rows[i].secs]_vars
  BY RowsGrow DEF IInv, IsResolved
<1> QED
  BY <1>1, Inductive, PTL DEF Spec, ResolvedStaysResolved

\* An accepted vote comes to nothing only through a fault: cast_vote reaches
\* its end only behind the commit, and what it committed is never reopened.
THEOREM VotesResolve == Spec => VoteResolves
<1>1. ASSUME IInv, [Next]_vars, NEW c \in Callers, NEW i \in Ids,
             VotingOn(c, i), ~VotingOn(c, i)', faults' = faults
      PROVE  IsResolved(i)'
  <2>1. calls[c].pc \in {"policy", "pattern", "commit", "publish"}
        /\ calls[c].id = i
    BY <1>1 DEF VotingOn
  <2>2. calls \in [Callers -> Call] /\ faults \in Nat
    BY <1>1 DEF IInv, TypeOK
  <2>3. ASSUME NEW call, calls' = [calls EXCEPT ![c] = call],
               call.pc \in {"policy", "pattern", "commit", "publish"},
               call.id = calls[c].id
        PROVE  FALSE
    BY <1>1, <2>1, <2>2, <2>3 DEF VotingOn
  <2>4. calls'[c] # calls[c]
    BY <1>1 DEF VotingOn
  <2>5. ASSUME NEW b \in Callers, NEW call, Goto(b, call)
        PROVE  b = c
    BY <2>2, <2>4, <2>5 DEF Goto
  <2>6. PublishResult(c)
    <3>1. ~Crash /\ \A b \in Callers : ~CallFails(b)
      BY <1>1, <2>2 DEF Crash, CallFails
    <3>2. ~(Tick \/ (\E d \in Devices : ChangeBudget(d)) \/ UNCHANGED vars)
      BY <2>4 DEF Tick, ChangeBudget, vars
    <3>3. ASSUME NEW b \in Callers, NEW d \in Devices, NEW s \in Seconds,
                 CheckCaps(b, d, s)
          PROVE  FALSE
      BY <2>1, <2>5, <3>3 DEF CheckCaps, AtPc
    <3>4. ASSUME NEW b \in Callers, NEW j \in Ids, NEW v \in Validators,
                 NEW a \in BOOLEAN, ReadRequest(b, j, v, a)
          PROVE  FALSE
      BY <2>1, <2>5, <3>4 DEF ReadRequest, AtPc
    <3>5. ASSUME NEW b \in Callers, InsertRequest(b)
          PROVE  FALSE
      BY <2>1, <2>5, <3>5 DEF InsertRequest, AtPc
    <3>6. ASSUME NEW b \in Callers, CheckTimeOfDay(b)
          PROVE  FALSE
      BY <2>3, <2>5, <3>6 DEF CheckTimeOfDay, Goto
    <3>7. ASSUME NEW b \in Callers, EvaluateQuorum(b)
          PROVE  FALSE
      BY <2>3, <2>5, <3>7 DEF EvaluateQuorum, Decision, Goto
    <3>8. ASSUME NEW b \in Callers, CommitDecision(b)
          PROVE  FALSE
      BY <2>3, <2>5, <3>8 DEF CommitDecision, Goto
    <3>9. ASSUME NEW b \in Callers, PublishResult(b)
          PROVE  b = c
      BY <2>5, <3>9 DEF PublishResult
    <3> QED
      BY <1>1, <3>1, <3>2, <3>3, <3>4, <3>5, <3>6, <3>7, <3>8, <3>9
         DEF Next, CallStep
  <2>7. IsResolved(i)
    BY <1>1, <2>1, <2>6 DEF PublishResult, AtPc, IInv, CallsConsistent
  <2> QED
    BY <2>6, <2>7 DEF PublishResult, IsResolved, Exists
<1>2. IInv /\ [Next]_vars =>
        [\A c \in Callers, i \in Ids :
           VotingOn(c, i) /\ ~VotingOn(c, i)' /\ faults' = faults
             => IsResolved(i)']_vars
  BY <1>1
<1> QED
  BY <1>2, Inductive, PTL DEF Spec, VoteResolves
=============================================================================
