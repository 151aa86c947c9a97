# ScreenSync: TLA+ models and proofs

This directory specifies the core of the ScreenSync backend (`src/backend/app`)
in TLA+. TLC checks the specifications on small instances, and TLAPS proves the
most important properties for every instance. `PROJECT.json` links every
definition to the lines it models and lists the runs, hazards and theorems.

## 1. The system

ScreenSync limits screen time over a family's devices. A FastAPI server offers
REST endpoints, receives usage over MQTT, keeps users, devices, usage, budgets
and override requests in Postgres, and keeps locks, snapshots, caches and
federated model weights in Redis. Everything but the MQTT listener (a thread)
runs on one asyncio event loop: a coroutine can be overtaken at every `await`.

| Component | State | Operations | Talks to | What is hard |
|---|---|---|---|---|
| Override service (`override_service/quorum.py`) | `override_requests` table | `create_override_request`, `cast_vote` (three validators, 2-of-3, signature), result message | budgets (read), Redis, MQTT | status and cap are checked long before the write; restart between commit and message |
| Conflict resolver (`sync_engine/conflict.py`) | audit stream | `resolve` | called by the sync engine | events in any order, ties |
| Sync engine (`sync_engine/sync.py`) | per-user lock, snapshot per device, pub/sub channel, presence set | `ingest_event`, retry consumer, presence | Redis, MQTT | lock expiry, restart with the lock set, lost pub/sub messages, exceptions after the write |
| Rule engine (`decision_engine/rules.py`) | none | `evaluate_rules`, `effective_cost` | called by the pipeline | thresholds, truncation, order of rules |
| Budgets (`decision_engine/budget.py`) | `budgets` table, cache | initialise, read, charge, rebalance, grant | Redis, Postgres | overlapping sessions, unique constraint, failure in the middle |
| Decision pipeline (`decision_engine/engine.py`) | drift flags | `process_usage_event`, `trigger_rebalance` | rules, budgets, MQTT | stale remaining seconds |
| Federated aggregator, drift detector (`fl_worker/`) | `fl_model_updates`, weights and round in Redis | submit, aggregate, score | Postgres, Redis | two stores, no transaction over both |
| Device registry (`device_registry/`) | `devices` table, online keys | register, heartbeat, deregister | Postgres, Redis | commit after the response, key outliving the row |
| Usage ingestion (`usage_ingestion/`) | `usage_events` table | MQTT listener, summaries | MQTT, Postgres, pipeline | swallowed errors after which a message is acknowledged |
| Auth (`auth_service/`) | `users` table | register, login | Postgres | registration race |
| Shared clients, start-up, configuration | connections | | | what they silently drop or never start |

What makes each one correct:

* **Override service**: a stored decision explains itself (results, verdict and
  signature agree); a decision is final; a device hears of exactly the committed
  decisions; the daily cap holds; an accepted vote resolves its request unless
  something fails.
* **Resolver**: the outcome is the maximum of the documented order, whatever the
  order of arrival.
* **Sync engine**: ingestion is atomic per user; no user stays locked out; the newest
  event delivered is the one that is kept.
* **Rules and budgets**: no charge or grant is lost; a device that reports has its
  budget of the day; the overshoot is bounded;
  rounding and rule order never work against the user or make a verdict milder.
* **Federated rounds**: a retry replaces; a submission is aggregated, and not twice;
  a quorum is noticed; drift is looked for in the deltas that were aggregated.
* **Auth, registry, usage**: one account per address, one owner per device, one row
  per report and none without its device; an answer comes true; a device that is
  gone goes offline; a published report is recorded.

Five facts about the code shape the models. They come from the source, not from
its comments.

1. `RedisClient` has no `delete`, so every function of `budget.py` that
   invalidates the cache raises `AttributeError` there. Its `set` drops a value
   that Redis cannot encode, such as the budget dict, so the budget cache is always
   empty and every read goes to the table.
2. `get_redis()` returns the client with `decode_responses=True`. Replies are
   `str`, and each `.decode()` in `sync.py` raises.
3. `quorum.py` imports `OverrideRequest` and `Budget` from `app.database`, which
   defines neither. As it stands the module cannot be imported. The override
   service is modelled with both in place: `Budget` as in
   `decision_engine/models.py`, `OverrideRequest` by its use in `quorum.py` and by
   the schema in the repository's README (`requested_at` defaults to `NOW()`).
   `fl_worker/models.py` is missing likewise; `fl_model_updates` is modelled by its use
   in `aggregator.py` and by the README's schema, which has no constraint on device
   and round. These are the assumptions that the repository does not fulfil.
4. With the pinned FastAPI (0.104.1) the code behind a dependency's `yield` runs
   after the response was sent. `get_db` therefore answers first and commits
   afterwards: a 201 may be rolled back, and a client's next request may come before
   the row does. (`tests/test_devices.py` sends a heartbeat right after registering.)
5. `RedisClient.get_raw` and `set_raw` swallow every Redis error, while the bare
   client of `get_redis()` raises it. The aggregator uses the former, the device
   registry the latter.

Also, nothing in the repository calls `ingest_event` (but the consumer),
`process_usage_event`, `cast_vote`, `grant_extra_time`, `store_gradient_update` or
`run_aggregation`, and the routers that would, that of usage included, are commented
out in `main.py`. The models take them as the entry points
their docstrings say they are, and let any of them be called at any time.
`tests/test_overrride.py:21-22` expects a fresh request to carry "policy" and
"pattern" votes, while `create_override_request` stores `votes={}` (`NewRow`): the
validators run when a vote is cast. The test needs a router that does not exist, so it
does not run against this code. Its line 46 admits "pending" after a vote, which the
code leaves only when a read or statement of the vote fails (`VoteResolves`).

## 2. Modules

| Module | Models |
|---|---|
| `OverrideService` | the override service |
| `ConflictResolver` | the resolver's operators, and the resolution matrix as the order `Leq` |
| `MergeOrder` | replicas that merge events with `resolve` in any order |
| `SyncEngine` | lock, `ingest_event`, snapshots, consumer, restarts |
| `SnapshotStore` | abstract: events applied atomically, one at a time |
| `Rules` | the rule engine's operators |
| `UsageSession` | the reports of one session against the rules |
| `DecisionEngine` | budgets and `process_usage_event` under overlapping calls |
| `DriftDetector` | the three detectors and their vote |
| `FederatedRound` | submissions, aggregation and drift detection under overlap and faults |
| `Requests` | the tables, presence keys and the request life cycle of `get_db` |
| `AuthService`, `DeviceRegistry`, `UsageIngestion` | the handlers of each, and the MQTT listener |
| `Platform` | the three together: event loop, listener thread, Redis expiry, faults |
| `Household` | abstract: accounts, devices and usage, one atomic change at a time |
| `MC...` | the instances for TLC |
| `..._proofs` | the theorems |
| `SumTheorems` | what the proofs need to know of sums over finite sets |

**OverrideService.** `rows` is the table. `calls[c]` is the place and the locals of
one coroutine, so what was read before an await may be stale when it is used.
`CheckCaps` and `InsertRequest` are `create_override_request`, split at the cap
query. `ReadRequest`, `CheckTimeOfDay`, `EvaluateQuorum`, `CommitDecision` and
`PublishResult` are `cast_vote`, split where it suspends. `EvaluateQuorum` may advance
the clock by a tick between its two readings of it. A call that raises
`ValueError` changes nothing and is no step. `CallFails` ends one call at any of its
awaits (a statement or a Redis read raised, those of the validators included) and
`Crash` ends all; either way a vote that was accepted leaves its request pending.
`budget` is the
row that the pattern validator would read, and changes at any time. HMAC is
modelled as an injective function of what is signed. `seen` is a history variable:
the approved requests that the cap check of a request counted.

**ConflictResolver, MergeOrder.** `_pick_winner` and `resolve` are operators with
the source's names. Device ids are integers that stand for their lexicographic
rank. `MergeOrder` looks at them alone: replicas receive any event at any time, and
again.

**SyncEngine, SnapshotStore.** `workers[w]` is the place and the locals of one
`ingest_event`. `Deliver` and `AcquireLock` are the `SET NX PX`; `Republish` the
contended branch; `LoadSnapshot`, `ChooseWinner`, `WriteSnapshot` and `LeaveLock` the
rest; `Consume` the consumer's loop. A rebuilt event has a new id (`IdAt`), because
the message omits it. The token of the lock is the name of the call that set it.
`LockExpire` and `SnapshotExpire` are the TTLs. With `Timely` neither fires under a
call that relies on it; without it, they may fire at any time. `Skew` is how far the
clock of a device may be ahead. `ConsumerRunning` says whether anything subscribes to
the channel: `main.py` does not start the consumer, so as the repository stands it is
`FALSE` and `PublishRetry` publishes to nobody. `SnapshotStore` is
what a reader of the snapshots may rely on, and the refinement mapping is the
identity on `snapshot` and `now`.

**Rules, UsageSession.** Weights are in tenths and times in minutes.
`int(n * weight)` and the comparison of a ratio with 0.20 are exact in integers for
all durations of a day. `UsageSession` handles the reports of one session in turn.

**DecisionEngine.** `budgets` is the table of one day, `registry` that of the user's
devices. `RegisterDevice` and `DeregisterDevice` come at any time, each as the one
commit that other sessions see; a device registered after the day's initialisation
gets its row from a later one, and a deregistered one loses its row by the cascade.
`ReadBudget`, `InitDevices`, `InitSelect`, `InitCommit`, `Reread`, `EvaluateRules` and
`ChargeUsage` are `process_usage_event` split at its statements. The SELECT of the
devices and those of their budgets are two steps. The latter are one step: if none of
the rows to insert appears before the commit, they all agree with the last one, and if
one does, the commit fails as it would after that row's own SELECT. `InsertsAllowed` is
the unique constraint and the foreign key. `charged` and `granted` are history (of
the row, and go with it); `raised` is the function that raised in the last step.

**DriftDetector, FederatedRound.** `submits[u]` is one `store_gradient_update`:
`DeletePrevious` (the DELETE works on the rows that are committed when it runs),
`InsertUpdate` (INSERT and commit), `CountSubmissions` (the count of the answer).
`aggs[a]` is a worker: `SelectRound`, `LoadWeights`, `SaveWeights`, `DeleteRound`,
`CommitRound` are `run_aggregation`, and `DetectDrift` is the detection that follows.
Weights are abstracted to their shape and to how often each delta is in them, which is
what loss and double counting are about; float arithmetic is left out. Shapes are
sequences of dimensions. Those of a round must be equal (`ShapesDiffer`), but the mean
is then added to whatever earlier rounds left, and numpy broadcasts: `Compatible` and
`Broadcast` are its rule and the shape of the sum. A column of three plus pairs is
saved as three by two, and only shapes that do not go together raise. The
detectors work on integer vectors, with comparisons multiplied out: those of cosine
and sign are exact, and a norm is rounded down to a whole number (it is exact for the
deltas of the runs). `seen`, `late`, `applied` and `overlapped` are history. `Crash`, `AggregationFails`
(a statement fails, rollback), `WeightsExpire` and the failing alternatives of the
Redis calls are the faults.

**Requests, AuthService, DeviceRegistry, UsageIngestion, Platform, Household.**
`calls[c]` is one REST request. It ends in `Answer`, which sends the response and
leaves its transaction to be committed by `CommitUser`, `CommitDevice`,
`CommitHeartbeat`, `CommitRemoval` or `CommitUsage`. The unique index
(`UniqueHolds`, and `EmailClaimed`: an INSERT waits for an uncommitted one), the foreign
keys (`DeviceExists`), their row lock (`Referenced`) and cascades (`UsageWithout`) are
those of Postgres, which the README and the compose file use. (The default URL in
`config.py` is SQLite, which would not enforce foreign keys.) A refused request (409,
404, 403, 401) changes nothing and is no step. The listener takes one message at a
time: `Receive`, `RecordMessage`, `Acknowledge`. The client of the listener has no
persistent session, so `Disconnect` and `Crash` empty its inbox. `RequestFails` is a
statement, Redis call or commit that raises. A duplicate that QoS 1 permits is one
more member of `Deliveries`. The refinement mapping to `Household` is the identity on the
three tables.

## 3. Runs

Passing runs (each takes about two minutes or less):

| Run | Instance | Shows |
|---|---|---|
| `OverrideAudit` | 1 device, 2 requests, 2 callers, 2 days of 2 ticks, 1 restart or failed call | `AuditConsistent`, `AuditOrdered`, `NotifiedOnlyIfDecided`, `ResolvedStaysResolved`, `TypeOK`; `OvershootNeedsOverlap`: only requests checked before either was approved exceed the cap together; `VoteResolves`: a vote that meets no fault resolves its request |
| `MergeOrder` | 6 events that tie on 0 to 4 fields, 2 replicas | `HoldsStrongest`, `Converges` |
| `SyncTimely` | 4 events, 2 devices, clocks up to 1 ahead, 2 workers, consumer, 1 restart, fair | `LockExclusive`, refinement `IngestIsAtomic`, `TypeOK`; liveness `LockFreed` |
| `UsageSession` | 6 categories, edges of both windows, 3 lengths | `NeverOvercharged`, `UnderchargeBounded`, `VerdictOnlyStricter` |
| `EngineBooks` | 2 devices, registered and deregistered at any time, 2 callers, 1 grant each | `BooksBalance`, `LazyInitSuffices`, `OvershootBounded`, `TypeOK` |
| `FederatedRound` | 4 submissions of 3 devices (one a retry of another shape), weights of two other shapes left before, 2 workers, quorum 3, 2 faults | `RetryReplaces`, `AppliedBound`, `LossNeedsCause`, `QuorumNoticed`, `MagnitudeNeedsFour`, `TypeOK` |
| `Platform` | 2 accounts, 1 device, 2 requests at once, 1 REST and 1 MQTT report, 1 fault, fair | `AcknowledgedHolds`, refinement `TablesAreSound`, `TypeOK`; liveness `GoneIsOffline`, `PublishedIsRecorded` |

Runs that TLC refutes, each against a sentence of the code's own comments (quoted
under "findings" in `PROJECT.json`):

| Run | What happens |
|---|---|
| `OverrideFinality` | a second vote overwrites a committed decision |
| `SyncLastWrite` | the lock outlives its call, the next event is published to nobody, and the older state stays |
| `SyncAudit` | the audit names a loser as the winner |
| `EngineLazyInit` | a concurrent initialisation fails on the unique constraint |
| `FederatedDrift` | drift detection finds no rows, because aggregation has just deleted them |

Further disagreements need no run of their own: most show in a single line of the
code, and the models simply contain them.

* The "hard cap" of `quorum.py:43` is checked when a request is created and not when
  it is approved (`:270`), so pending requests are approved beyond it.
  `OvershootNeedsOverlap` says when.
* `sync.py:204` compares the next event with the server's write time of the stored one,
  where `conflict.py:9` says the newest event wins: a newer event that was sent before
  the older one was written loses to it. `LastWriteWins` fails through this as well, with
  `ConsumerRunning = TRUE` and the lock free.
* `tests/test_overrride.py:21-22` and the votes of a fresh request (section 1).
* `quorum.py:217` and `:329` read the clock twice, so the signed `resolved_at` is not
  the stored one and the signature of an untouched row does not verify. `AuditOrdered`
  is what does hold of the two. It takes the clocks of the server and of Postgres
  (`requested_at`) for one.
* Nothing writes `device:meta:{id}` (`quorum.py:396`), so as the repository stands no
  override result is published: `MetaDevices = {}`. The run lets the device have
  its entry, which is the case with more behaviour.
* `sync.py:74` and `:108` call `.decode()` on a `str`. The broadcast never succeeds,
  and the lock is only ever freed by its expiry.
* A holder slower than the lock's TTL shares the critical section with the next
  one: with `Timely = FALSE` `LockExclusive` fails.
* `record_usage` and `grant_extra_time` raise after their commit (`budget.py:110`),
  `rebalance_budgets` before it (`:164`), so nothing is ever rebalanced unless all
  budgets are exhausted. A client that repeats its report after the error is charged
  twice; events carry no id by which the code could tell.
* Nothing keeps the shape of the weights: a round whose deltas can be broadcast with
  them is added and saved in the wider shape (`aggregator.py:139`), and all later
  rounds of the first shape are added to that.
* A report may be charged to an exhausted budget (`engine.py:75`); `OvershootBounded`
  says by how much.
* Loss and double counting of submissions really happen: for each cause that
  `LossNeedsCause` names TLC finds a submission lost for that cause alone, and the
  bound of `AppliedBound` is attained.
* A zero component has a sign of its own (`drift_detector.py`), so sparse deltas
  that share no component are all flagged by the sign detector.
* `_on_message` drops topics of fewer than five parts, and so every MQTT heartbeat
  before `_handle_heartbeat` could see it.
* README.md:428 of the repository relies on persistent sessions for devices that
  disconnect. The listener's own client has a clean one, so messages published while
  the server is away are lost. `PublishedIsRecorded` is about reports that reach the
  listener.
* Duplicates that QoS 1 permits are recorded twice, which README.md:368 accepts.
* `register_device` stores `is_online = TRUE` where `tests/test_devices.py` expects
  `False`, and nothing ever clears it.

**Bounds.** Two callers or workers (and the consumer) are enough for every race of a
read and a write, and the proofs remove the bound. The clock of `OverrideService`
runs over two model days of 2 ticks (one of 4 in `OverrideFinality`) with a UTC offset
of one tick, so that the UTC day of the cap and the local day of the policy differ.
Seconds are 0, the largest legal request and one beyond it; the daily cap is less than
two requests. Budget rows lie just below 0.85, and in `OverrideFinality` also on it:
only there the pattern validator says no, which the larger `OverrideAudit` does without
because the parent's and the policy's results already make every verdict. In `SyncEngine` three or four
events include two of equal time, an older and a newer one, a forced one and one of
another device. In `DecisionEngine` two devices let one be registered, or deregistered, while the other
is being initialised, and one report costs either more than a budget or
less than half of one. In `FederatedRound`
four submissions are one more than the quorum, so that one can come late, be a retry
or spoil the shapes; the weights left before are a column of three, which a round of
pairs widens, or four numbers, to which none can be added; two faults let the same
round be aggregated, interrupted and aggregated again. It has one round. Two workers
undo each other's weights without a late submission only in two rounds: five
submissions in two rounds with a quorum of 2 and no faults (11 million states) reach
that and pass; the proofs cover every quorum and number of rounds.
In `Platform` two addresses and one device show every race for an address, a device
and its reports; one fault may hit at any point. `MaxTime`, `MaxCrashes`,
`MaxFaults`, `MaxGrants` and `MaxScreen` bound counters in guards. Symmetry is used for callers, workers and request ids, in
runs without liveness only.

**Deadlock** is checked except in the `Sync` runs, whose events are finite, and in
`Platform`, whose device ids and reports are: there the system may come to rest.

**Fairness.** `FairSpec` of `SyncEngine`: a call in progress runs on (the event loop is
fair; after a restart the call is gone), and Redis expires a key whose TTL has passed.
Nothing is assumed of the consumer: `SyncTimely` lets it run so that its steps are
covered by the safety properties, never so that it must. No delivery, restart or clock
step is fair. `FairSpec` of `Platform`: requests
that have begun and the listener's thread run on, and Redis expires keys that
have a TTL. Nobody is obliged to send a request or to publish, and no fault is fair.
The other specifications are safety only.

**Faulty variants.** Operators introduced by "Faulty variant" are plausible bugs.
Replacing the definition that follows by one of them makes TLC refute the property
that the list "mutants" in `PROJECT.json` names. No specification uses them.

## 4. Proofs

All are checked by TLAPS (SMT, Zenon, LS4) for every value of the constants that
satisfies the named assumptions of the modules.

| Module | Theorems | Inductive invariant |
|---|---|---|
| `OverrideService_proofs` | `TypeCorrect`, `AuditTrail`, `AuditInOrder`, `CapNeedsOverlap`, `NotificationSafe`, `NeverReopened`, `VotesResolve` | types, the properties, and `CallsConsistent`: a call past its read works on a request that exists, and what it is about to commit is a verdict with its own signature. Without this a commit could store anything. `TimesOrdered` says the same of its times. `CapChecked`: each request's check left room for it, and among any requests there is one that no other's check saw. |
| `MergeOrder_proofs` | `WinnerCommutes`, `WinnerAssociates`, `StrongestHeld`, `OrderIndependent` | types and `HoldsStrongest`; convergence follows because `Leq` is antisymmetric up to `Key` |
| `SyncEngine_proofs` | `TypeCorrect`, `MutualExclusion`, `Refinement` | types, `HolderHasLock`, `StampsPast`, `LocalsFresh` (what a holder read is still there) |
| `UsageSession_proofs` | `SessionNeverOvercharged`, `SessionNotUndercharged`, `StricterOnly` | types and the two bounds; the verdict is monotone rule by rule |
| `DecisionEngine_proofs` | `TypeCorrect`, `NoLostUpdate`, `LazyInit`, `OvershootBound` | types, `ChargeNeedsTime` (a charge follows a positive remainder), `NothingBefore`, `InitCovers`: an initialisation has the device of its event among the ones it selected, and a row for it found or to be inserted, unless the device is gone; for the bound `Reserve`: each caller that read a positive remainder and has not charged it leaves room for one report less |
| `FederatedRound_proofs` | `TypeCorrect`, `RetriesReplace`, `AppliedAtMost`, `LossExplained`, `QuorumIsNoticed`, `SingleWorkerOnce`, `MagnitudeSilent` | types and `StoredFirst` (only committed rows are ever seen), `RowsAlike`, `WeightsAccounted`, `DoomedCovers`; three strengthenings carry the theorems: `AppliedBySpenders` counts the workers that cannot save a submission again before the next fault; `LossesExplained` says that without overlap or fault the weights a worker loaded are still the ones it replaces; `QuorumsNoticed` is the quorum property for every part of a round, since rows may be deleted or replaced until only that part is left |
| `SumTheorems` | `SumEmpty`, `SumCongruent`, `SumType`, `SumSplit`, `SumAdd`, `SumMonotone` | none: facts about the library's fold |
| `Platform_proofs` | `TypeCorrect`, `Refinement`, `TablesKeepIntegrity`, `AnswersComeTrue` | types and `CallsSound` (what a request was answered for still can be committed), `CallsApart` (no two requests are about to add the same row), `RowsSound`, `ListenerSound` (an unacknowledged message has no row yet), `AnswersKept` |

Assumptions beyond the constants' types: `MutualExclusion` and `Refinement` of
`SyncEngine_proofs` assume `Timely`, and nothing of the clocks of devices. TLC finds a counterexample to `LockExclusive` when `Timely` is false.

`AcknowledgedHolds` is about behaviours without faults: a commit that fails after the
response makes the answer untrue, which no property can deny. `Refinement` of
`Platform_proofs` needs no such assumption. `SingleWorkerOnce` assumes one worker and no
faults (`Cardinality(Aggregators) = 1`, `MaxFaults = 0`): it says that the gap between
`run_aggregation`'s SELECT and DELETE is the one way to lose a submission that needs
neither overlap nor failure.

**Sums.** `SumFunctionOnSet` takes the members of a set in an order that `CHOOSE`
fixes. `SumTheorems` proves that the order does not matter. Its inductions over finite
sets are made by a smallest counterexample (`SmallestSubset`): the set of subsets for
which a claim fails has a member that contains no other one, because the strict subset
relation on finite sets is well founded. That form names a set where the library's
induction rules name an operator, which the provers cannot instantiate.
`CapNeedsOverlap` then is this argument: if of every two approved requests of a day one
was seen by the other's check, the last of them (by `CapChecked`) saw all the others, and
its own check bounded the sum. `MagnitudeSilent` needs no invariant but the types: of
three norms none is more than their sum.

`TablesKeepIntegrity` is proved of `Household`, where it takes one line per action, and
holds of the platform because it implements `Household`.

Only model-checked: `LockFreed`, `GoneIsOffline` and
`PublishedIsRecorded`; liveness is out of the prover's reach. Every safety property of a
passing run has its theorem. Each inductive invariant was checked by TLC on
the instances above before it was proved.

## 5. Not modelled

* Presence in the sync engine (`mark_online`, `mark_offline`, `get_online_devices`):
  nothing calls it, and no modelled state depends on it.
* The drift flag of the decision pipeline: `flag_anomalous_device` hands
  `RedisClient.set` a dict, which it drops, so there is no state to model.
* `NullRedis` (Redis disabled), connection pools and engine options.
* Connection failures inside the calls of the sync engine, where a restart may end a
  call at any await, and of the decision engine. Override service, requests and
  federated rounds have them as faults.
* Messages to devices that are dropped: whether a result arrives is not promised by
  the code.
* Drift score and metrics of a drift report: floating-point values that nothing
  tests. Logging, wording and metadata of verdicts.
* Password hashing and token encoding (library calls); the expiry of a token only
  takes behaviours away.
* The day boundary of `daily_summary`: timestamps of usage are not in the model.
* Docker, Nginx and Mosquitto configuration; the static page.
* `src/backend/.pydeps`: installed third-party packages (SQLAlchemy, redis, paho, ...),
  some 475 000 lines that are not part of this program. The application itself has
  about 3 050 lines, and what it uses of these packages is modelled by that use and
  marked external.

## 6. Plan

Done, in this order: override service, resolver, sync engine with its abstract store,
rules and budgets, federated rounds, platform with its abstract tables, and the proofs
of each. What is left is small: a composition of `OverrideService` and `DecisionEngine`
becomes worthwhile when something calls `grant_extra_time` (today approved seconds are
simply never granted), and presence when something reads it.
