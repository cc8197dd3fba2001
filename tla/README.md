# Formal models of the risk platform

TLA+ models of this repository's services, TLC configurations that check them
on small instances, and TLAPS proofs of nearly all that the runs check, for
instances of every size. Paths below are relative to `src/services/`.

## 1. The system

A payment enters through the ingestion service, is evaluated by the risk
orchestrator (which asks the rules engine), becomes a decision, and, unless it
was approved, a case for an analyst. Services share no memory. They meet in
Kafka topics and, for synchronous questions, in gRPC calls; each has its own
PostgreSQL tables and Redis keys, shared by all of its instances.

| Component | State | Operations | Talks to |
|---|---|---|---|
| ingestion | table `payment_events`, Redis dedupe marks | `IngestPayment` | sends `payments.received` |
| risk orchestrator | Redis in-flight keys | consumer `Process`, `EvaluateRisk` | reads `payments.received`, calls rules engine, sends `risk.evaluated` |
| rules engine | `rules`, `rule_versions`, Redis cache of a tenant's rules | evaluate, create, update, delete, list, simulate | called by orchestrator, gateway |
| decision | `decisions`, `decision_overrides` | consumer `RecordDecision`, `OverrideDecision`, reads | reads `risk.evaluated`, sends `decision.made` |
| case management | `cases`, `case_actions`, Redis SLA keys | consumer, create, assign, update, escalate, reads | reads `decision.made`, sends `case.*` |
| audit trail | `audit_events`, a hash chain for each tenant | `AppendEvent`, `VerifyChain`, queries | reads most topics |
| notification | `notifications`, preferences, Redis rate counters | queue a pending notification, preferences | reads case, decision and audit topics |
| workflow | templates and transitions, Redis cache | create, read, update, evaluate a transition | called by the gateway |
| tenant config | tenants, configs, flags, Redis cache | create, read, update | sends `tenant.events`, which nobody reads |
| explanation | stored explanations | generate or serve | calls decision and rules engine |
| identity access | none of its own; tokens and accounts are Keycloak's | `Authorize`, `ValidateToken`, `GetPermissions` | asks Keycloak, called by services and gateway |
| log ingestion | `log_entries` | insert a line, `QueryLogs` | reads the log topic |
| GraphQL gateway | Redis cache of query results | resolvers | calls every service |
| ops query, frontend | none | forward | |

### What is hard in it

* **Interleaving.** Every service runs in several instances, and inside one a
  consumer loop runs beside the gRPC handlers. All of them interleave at each
  database, Redis and Kafka call.
* **Delivery.** Writers are asynchronous and best effort, readers commit the
  offset when they read: messages are lost (a crash or a database error after
  the read), repeated (a retried batch, a rebalance before the commit) and
  reordered (`LeastBytes` partitioning ignores the payment).
* **Two stores without a transaction.** Redis and PostgreSQL are written one
  after the other, with a failure or a crash possible in between.
* **Time.** In-flight keys (30 s), dedupe marks, SLA keys and caches expire
  while others rely on them.
* **Read, then write.** Latest hash then insert, previous outcome then update,
  conflict then select, version then archive.
* **Caches.** Four services and the gateway keep copies in Redis that readers
  fill and writers delete or replace, each in its own order, with a failure or
  another call possible between the store and the copy.
* **Several reads for one answer.** A template and its transitions, the pages of
  a listing, the account and its tenant are read one after the other while
  others write.

`PROJECT.json` lists every hazard at its line with the properties that cover it.

## 2. Modules

| Module | Models | Variables and the code they stand for |
|---|---|---|
| `Kafka` | a topic | the set of messages of which an unread copy exists; `Enqueued` and `Delivered` give the outcomes of a send and a read |
| `DecisionLedger` | what the decision service promises (abstract) | `ledger`: the outcomes a decision has had; `announced` |
| `Decision` | `decision/` | `decisions`, `overrides` (tables), `riskTopic`, `decisionTopic`, `work` (where each `Consumer.Run` is), `tx` (open transaction of each `OverrideDecision`) |
| `RiskOrchestrator` | `risk-orchestrator/` | `inFlight` (Redis), `work` (each goroutine), the two topics, `degraded` (history) |
| `Ingestion` | `ingestion/` | `rows`, `dedupe`, `paymentsTopic`, `calls` |
| `PaymentPipeline` | ingestion, orchestrator, decision and case management together | theirs, the topics shared; `byHand` (history): the decisions a CreateCase request named |
| `AuditTrail` | `audit-trail/` | `rows`, `seq` (the BIGSERIAL), `tx`, `overlapped` (history) |
| `CaseManagement` | `case-management/` | `cases`, `actions`, `sla`, `caseTopic`, `decisionTopic`, `now`, `work` |
| `RulesEngine` | `rules-engine/` store and cache | `rules`, `archive` (tables), `cache` (Redis), `edit` and `eval` (calls), `past`, `crossed`, `stale` (history) |
| `RuleAnswers` | one place of a rule expression: values, comparisons, and/or/not over given answers, the severest action | none: pure operators |
| `RuleEvaluator` | `rules-engine/internal/engine`, the loop of `EvaluateRules`: the walk through the tree | `evaluated`: the last call and its answer; the evaluator is a recursive function over the trees of `Expressions`, `Height` says how deep each is |
| `Workflow` | `workflow/` | `version`, `transitions` (tables), `cache`, `update`, `read`, `committed` (history) |
| `TenantConfig` | `tenant-config/` | `config` (table), `cache`, `update`, `read`, `past` (history) |
| `QueryCache` | the gateway's cache of results | `view` (Redis), `query` (resolvers); what the service would answer is a parameter |
| `ConfigServices` | `RulesEngine`, `Workflow`, `TenantConfig` and `QueryCache`, side by side | theirs; `QueryCache` is given the answers of `TenantConfig`. The evaluator, which keeps no state, joins them in `MCConfigServices` |
| `Explanation` | `explanation/` | `explanations` (table), `call`, `raced` (history); `ledger` is `DecisionLedger`'s |
| `Notification` | `notification/internal/cache` and who asks it | `count`, `ttl` (Redis), `sender`, `admitted` (history) |
| `PagedListing` | `QueryLogs`, `QueryAuditTrail`, `ListCases` | `place` (where each row stands in the order), `walk` (the client) |
| `Authorization` | `identity-access/` | `account` (Keycloak), `tokens`, `call` |
| `SupportServices` | the four above, side by side | theirs; explanations are made from the abstract `DecisionLedger` |
| `MC...` | instances for TLC | state constraints and symmetry |
| `...Proofs` | the theorems about a module, section 4; those about `RuleAnswers` and `RuleEvaluator` are in `ConfigServicesProofs` | |

Conventions. One action is what happens between two points at which another
goroutine or service can be seen: one SQL statement outside a transaction, one
transaction statement that takes a lock or a snapshot, the COMMIT, one Redis or
Kafka call. Actions keep the name of the Go function, or of the SQL statement
in it. A record with the field `at` says where a goroutine stands and carries
its local variables. Errors are nondeterministic: a Redis write that fails may
or may not have taken effect, a statement that fails may have been committed
when the connection was lost. A crash forgets a goroutine's state and keeps the
tables, the keys and the topics. A definition whose comment begins with
"Fault:" is a plausible defect that no specification uses: each property of
each run is known to be violated when the definition beside it is replaced by
one of them (`PROJECT.json`, `mutants`).

How state and actions correspond to code, in brief:

* **Decision.** `ReadMessage` is `reader.ReadMessage`; `RecordDecision` the
  INSERT ... ON CONFLICT DO NOTHING; `GetDecision` the second query after a
  conflict; `PublishDecisionMade` the send; `AbandonMessage` every `continue`
  after a read, and a crash. `LockDecision` is SELECT ... FOR UPDATE, enabled
  only while no other transaction holds the row; the UPDATE and the INSERT that
  follow show at `CommitOverride`.
* **RiskOrchestrator.** `TryAcquire` has the three outcomes of SETNX (acquired,
  taken, error; on an error `Process` evaluates without the key), `run` the
  verdict of the rules engine or fail-open approval, `publish` the send,
  `Release` the deferred DEL. `EvaluateRisk` is the gRPC entry that takes no key.
* **Ingestion.** The five calls of `IngestPayment` in order. The boolean of
  `InsertPaymentEvent` is TRUE for a new row and read as "duplicate", and the
  model keeps that. `SchemaAccepts` says whether the table accepts the
  statement, see section 6.
* **PaymentPipeline.** Interleaves the four modules; their environment actions
  (an event arrives, an event is consumed) are replaced by the actions of the
  neighbour. `decision.made` has several reader groups, so it keeps its messages
  and case management may read any of them, repeatedly. A decision's row stands
  for its `decision_id`, which is drawn once for each.
* **AuditTrail.** `SelectLatestHash` (BEGIN and SELECT at READ COMMITTED),
  `InsertEvent` (draws `seq`), `Commit`, `Rollback`.
* **CaseManagement.** `CreateCase`, `GetCaseByDecision`, `Register`,
  `PublishCaseEvent` serve the consumer and the gRPC handler; `UpdateCase` is
  BEGIN and UPDATE (row lock), `CommitUpdate` the action row and COMMIT.
* **RulesEngine.** `SelectCurrent`, `ArchiveVersion`, `WriteRow`, `CommitUpdate`
  are the statements of UpdateRule: the first takes no lock, `WriteRow` waits for
  the row lock and computes on the row as it then is. The INSERT of a version
  takes a key share lock on the rule, which a DELETE waits for. The handler's
  `Invalidate` comes after the commit and may fail. `GetRulesMisses`,
  `ListRules`, `SetRules` are `loadRules`.
* **RuleAnswers, RuleEvaluator.** One operator for each function of `evaluator.go`; an answer
  is `"match"`, `"no"` or `"error"`. `evalNode` is one level of the recursion: the
  answer of a node, given those of the nodes `Below` it; `AnswersTo` is the
  recursion itself. A condition stops the walk by deciding the answer, so that
  what is behind it in the list does not matter, as in the loops of the code. A number
  that is compared goes through `Float`, which rounds to the nearest float64 and
  between two to the even one, in every range (above 2^53 to even integers, above
  2^54 to multiples of four, and so on); for TLC 2^53 is scaled down to 4. The
  payment's amount is an `Int64` and prints its own digits; a `Number` of a rule
  has been decoded to a float64 and prints the `Shortest` decimal that is read
  back as it. `ActionTaken` is the loop of EvaluateRules over the rules. Texts
  that are numbers and texts
  inside one another are given by the constants `Parsed` and `Within`.
* **Workflow, TenantConfig.** One action for each SQL statement or transaction
  and each Redis call of the handlers, in their order.
* **QueryCache.** `AskService` is a resolver's miss with the call of the service,
  `SetResult` the write, `ExpireResult` the 30 s.
* **Explanation.** `GetExplanation` (the lookup), `FetchDecision`, `GenerateRow`
  (the rules and the text), `Upsert`; a row is split into the columns that the
  ON CONFLICT clause replaces and those it keeps.
* **Notification.** `Incr` and `Expire` are the two commands of the pipeline of
  `Allow`, `Tick` the clock with Redis's deletion of keys. The history `admitted`
  holds the age of each admission of the last window; `Aged` is a tick of it.
* **PagedListing.** A row stands at a place in the order, and rows at one place
  come in any order; `NextPage` is one query and the handler's choice to hand
  out a token; `PageSize` and `RowLimit` keep apart what the handler and the
  store make of the size asked for.
* **Authorization.** `Authorize` (the token), `IsUserEnabled`, `GetUserTenantID`
  (with `Can`) are the steps of one call; Keycloak's are external.

## 3. Runs

| Run | Instance | Shows |
|---|---|---|
| `decision` | 1 decision, 2 outcomes, 2 consumers, 2 analysts, 2 overrides | consumers race with each other and with overrides, overrides with overrides; `OverrideTrailUnbroken`, `PublishedOutcomesAreReal`, `FailOpenStartsAsApprove`, `FirstEvaluationWins`, and `Decision` implements `DecisionLedger` |
| `orchestrator` | 1 id, 3 workers | `ExclusiveUnlessDegraded`, `HeldKeysExist`, and under fairness `InFlightKeysGoAway` |
| `ingestion` | 1 tenant, 2 keys, 2 bodies, 2 calls | `AnsweredAreStored`, `PublishedAreStored`, `FirstRequestWins` |
| `pipeline` | 2 tenants, 1 call, 2 workers, 1 consumer, 1 override; 1 case consumer, 1 CreateCase call | `DecisionsHavePayments`, `CasesFollowDecisions`; orchestrator, decision service and case management implement their own modules (`ServicesImplemented`) |
| `audit` | 1 tenant and the empty one, 3 writers, 4 sequence values | `LinksAreRows`, `SequentialChainsValid`, `BreaksArePermanent` |
| `case` | 1 decision, 1 consumer, 2 calls, 2 actions, 2 ticks | `CaseTrailUnbroken`, `AnnouncedCasesAreReal`, `FirstOpeningWins` |
| `config` | 1 tenant, 1 rule, 1 template, 3 versions, 2 contents, 2 writers, 1 reader, 1 resolver; some 1300 expressions over 9 payments | `ArchiveIsTrue`, `SupersededArchived`, `StaleOnlyWhenRaced`, `TearsLookForward`, `CachedConfigWasInForce`, `ErrorsNeverFlip`, `ComparisonsKeepOrder`, `SeverestMatchWins`, and under fairness `CachesSettle` |
| `support` | 1 payment of 2 tenants, 2 overrides, 2 explainers; 3 senders, limit 2 in a window of 3 ticks; 4 rows at 3 places, pages of 1 to 3, cap 2; 1 user in 2 tenants, 1 token, 1 call | `TornOnlyWhenRaced`, `RateWindowBounded`, `WalksMissNothing`, `AllowedIsCurrent` |
| `ingestion_first`, `pipeline_tenants`, `audit_fork`, `case_sla` | as above | four statements of the repository that the code does not keep, section 6 |

Bounds, and why they are enough. Rows of different payments, decisions and
cases never interact except through an in-flight key, so one key (two payments
where keys are shared) with two or three contenders meets every race: the
longest one needs one holder, one that waits and one that overtakes.
`MaxOverrides`, `MaxActions` and `MaxSeq` cut histories after the first
override or append that has a predecessor with a predecessor. `MaxTime` lets the
clock pass the shortest of the SLA deadlines, scaled to ticks in their order.
The state constraints of `MCPaymentPipeline` and `MCCaseManagement` keep one
message in transit and stop behind a state in which a last topic, that no
modelled service reads, has become non-empty (the state itself is checked).
In `MCPaymentPipeline` at most two processes are at work at once, and one event
has been announced; since announcements may be lost, that is enough for a
decision to be evaluated twice or overridden before its case is opened. Once there
is a case, the services before the decision rest: nothing they could still do
touches it except through another announcement. Updates of a case are left to
`case` (`MaxActions = 0`).
Symmetry is used for safety only; `orchestrator` and `config`, which check
liveness, use none.

`config` and `support` join services that share no variable (the gateway's cache
and the configurations it reads, and the explanations and the ledger, count as
one). Every property is about one of them, and a behaviour of all is an
interleaving of one of each, so `MCNext` lets a service step only while the
others are in their initial states: the union of the state spaces instead of
their product. For `CachesSettle` this needs that the fair actions of a service
are disabled in its initial state, which they are (nothing to expire, no call to
end). Contents, rule sets and workflow templates are interchangeable, so a rule is
created with the first of the contents and a tenant with the first of each.
Two writers and one reader suffice for the caches: a stale copy needs one
call that has read and one that writes, a wrong order of writes two that write,
and `MaxVersion = 3` a version between the one replaced and the one in force.
The expressions are all comparisons of the operators with amounts on, next to
and beyond the largest exact float, there and where floats lie four and eight
apart, and all trees of depth two over one leaf
that matches, one that does not, one in error and one that is no object: the
order of conditions and the place of the error are all met; the lists of rules
are all pairs over four trees with any two actions. `Limit = 2` with
three senders lets one be refused while another is between its two commands;
`MaxCount` stops a key after it was exceeded by four. Four rows against a cap of
two give a walk three pages, with a row inserted before, between and behind
them.

Fairness. `RiskOrchestrator!FairSpec`: weak fairness of each worker's next step
inside `Process` (straight-line code, calls with deadlines; a crash is a step,
too) and of the expiry of keys (Redis TTL). `ConfigServices!Fairness`: the
expiry of cached copies (five minutes, or thirty seconds in the gateway) and
that a call that has begun comes to an end, well or not. Reading from
Kafka, new requests, crashes and errors are not fair: nothing says that they
happen. `MaxVersion` is what makes the edits of `CachesSettle` stop. No other
liveness is claimed, and little could be: events are sent once, best effort, and
a lost one is not sent again.

## 4. Proofs

Proved with TLAPS for every value of the constants that satisfies the
assumptions, which every run evaluates:

* `OutcomeAssumption` and `FailOpenAssumption` (`"approve"` is an outcome and
  `"none"` is not: the CHECK constraint of `decisions`), `MaxOverridesAssumption`,
  `SchemaAssumption`, `EventIdsAssumption` (the empty id is an id),
  `MaxSeqAssumption`, `MaxTimeAssumption`, `RequestedAssumption` (the priorities a
  request may ask for are those the column takes);
* `MaxVersionAssumption`: at least one version, the one a CREATE stores;
* `RateAssumption`: the limit and the window are positive (a limit of 0 would
  admit nobody, `rateLimitWindow` is a minute); `PlacesAssumption`: places and
  page sizes are positive, 0 meaning "does not meet the filter" (and the handlers
  replace a page size of 0 by a default); `AnyTenantAssumption`: the empty tenant
  id is no tenant;
* `FloatsAssumption`: `MaxExact`, which stands for 2^53, and `MaxExponent`, for
  970, are natural numbers, and so is `MaxFloat`, the largest float, which the
  prover cannot see as it knows nothing of powers;
  `TreesAssumption`: a rule is a decoded JSON text, so its conditions are among
  the expressions and lower than itself; `RulesAssumption`: what is evaluated is a
  list of rules; `NumbersAssumption`: amounts, and the numbers they are compared
  with, are natural numbers up to `MaxFloat`, as every int64 is (minor units; the
  model scales no fractions and leaves out numbers above 2^1023 in a rule).

No set of processes, keys, tenants, rows or values is assumed finite.

* `DecisionProofs`: type correctness; `OverrideTrailUnbroken`, which needs that
  the outcome an open transaction has read is still in force (nobody else writes
  a row whose lock is held) and that no two transactions hold one row;
  `PublishedOutcomesAreReal`, which needs that the same is true of announcements
  still in a consumer's hands; `FailOpenStartsAsApprove`; the action property
  `FirstEvaluationWins`; and the refinement `ImplementsLedger`: every step
  records, overrides, announces or stutters.
* `RiskOrchestratorProofs`: type correctness; `HeldKeysExist` and
  `ExclusiveUnlessDegraded`. The inductive invariant adds that a worker about to
  release without having the key has an id that is degraded, and that a gRPC
  call never comes to a release; without it a DEL could take another's key.
* `IngestionProofs`: type correctness; `AnsweredAreStored` and
  `PublishedAreStored`, from the invariant that every mark in Redis, and every
  call that has passed the INSERT with a conflict, has its row;
  `FirstRequestWins`, from the uniqueness of slots in the table.
* `PaymentPipelineProofs`: each step of the pipeline is a step, or a stutter, of
  each service's own specification (`IngestionImplemented`, and `EachImplemented`
  for the others), so the safety invariants above hold with the four running
  together (`ServicesStaySafe`), and so do the action properties that forbid
  rewriting (`FirstsWin`) and the refinement of the ledger (`LedgerKept`).
  `DecisionsHavePayments` rests on an invariant that follows a payment from the
  row through the calls, the topics and the workers to the decision (`Chain`);
  `CasesFollowDecisions` on one that goes on to the case (`CasesDue`): an
  announcement is of an outcome the decision has had (`PublishedOutcomesAreReal`),
  what a consumer is about to insert was announced (`InsertersStep`), a case keeps
  what its inserter held (`OpeningsStep`), and the history of a decision only
  grows (`HistoryGrows`), so that what was true when the event was written still
  is when the case is opened, and after.

* `AuditTrailProofs`: type correctness; `LinksAreRows`, from the invariant that
  the hash an open transaction has read belongs to a committed row of its tenant
  with a smaller seq; `SequentialChainsValid`, which needs that an append that
  has run alone has read the tenant's last row and comes after all of its rows;
  and `BreaksArePermanent`: a broken link is to a row older than the true
  predecessor, a row that appears in between can only widen the gap, and a walk
  over all rows reaches the break because seqs are drawn once. That a nonempty
  set of seqs has a largest element rests on the well-foundedness of `<`.
  Assumption: `MaxSeqAssumption`.

* `CaseManagementProofs`: type correctness; `CaseTrailUnbroken`, which needs that
  the two writes of an update are seen together; `AnnouncedCasesAreReal`, from
  the invariant that whatever event a worker still carries is already true of a
  committed case (`WorkIsReal`), and stays so because statuses a case has had are
  never forgotten; `FirstOpeningWins`, step by step from both.
* `ConfigServicesProofs`. The four services take no step of one another, so the
  invariant is one for each.
  *Rules*: type correctness; `ArchiveIsTrue`, because each row of the archive was
  copied from a version that the rule had (`HistoryIsTrue`) and an update that
  has archived still knows which (`UpdatesKnow`), though another may have
  overtaken it; `SupersededArchived`, because an update that no other overlapped
  has read the version in force (`AloneSeesCurrent`); `StaleOnlyWhenRaced`, which
  needs the same of the list that an evaluation carries from the table to Redis
  (`ListsCurrent`).
  *Templates*: `TearsLookForward`, because a reader has the template row of a
  version no later than the transitions it reads after it (`CopiesForward`),
  versions only grow (`RowsAreLast`), and the row lock keeps a writer's version
  its own (`LockIsHeld`).
  *Tenants and gateway*: `CachedConfigWasInForce`, of both caches. Whoever holds a
  configuration (row, Redis, a call, a resolver) holds one that the tenant has had
  (`HeldWereInForce`, `ViewWasInForce`), and that history only grows: the
  gateway's part rests on the tenant service's.
  *The evaluator*, for all payments, numbers and lists of rules, and for trees of
  every width and depth. At one place of a tree: `ComparisonsRight` (the float64
  comparison keeps the order of any two natural numbers up to the largest float:
  each is rounded to one of the two floats around it, between which lies no
  third, so that numbers with different floats around them stay in order, and of
  two with the same the larger is nearer to the upper one), `NodesNeverFlip` (a node over
  answers none of which an error has turned around is not turned around itself)
  and `SeverestTaken` (by induction on the loop over the rules: the action it ends
  with is `approve` or that of a rule that matches, and none of these is severer).
  For whole trees the argument is an induction on `Height`,
  which the prover does not have ready made: its theorems quantify over operators.
  `HeightInduction` states it for sets of expressions instead (a set that holds a
  tree whenever it holds all trees below it holds them all), from the
  well-foundedness of `<` on the naturals. With it `TreesAreEvaluated` shows that
  the recursive function exists and is what `evalNode` says, level by level: the
  definition can be satisfied up to each height (`RecursionBounded`), in one way
  only (`RecursionUnique`), because the answer of a node depends on nothing but
  those below it (`NodeLooksBelow`), and so everywhere (`RecursionExists`). The same for the
  three-valued reference `Kleene`, and then `ErrorsNeverFlip`
  (`TreesNeverFlip`), `ComparisonsKeepOrder` and `SeverestMatchWins` are
  invariants by what each call evaluates.
* `SupportServicesProofs`, again with one invariant for each service.
  *Identity*: `AllowedIsCurrent`, from the invariant that a call past its first
  question still sees the account enabled or knows that it changed.
  *Explanations*: `TornOnlyWhenRaced`. A call between its fetch and its upsert
  holds an outcome of the ledger, the last one unless an override raced
  (`CallsReport`); a row holds two such, and as long as another call may replace
  a part of it the second is the one in force unless raced (`RowsReport`). Without
  that last clause the upsert of a slower call could tear a row unnoticed.
  *Notifications*: `RateWindowBounded`. The admissions of the last window and the
  senders counted within the limit that have yet to be admitted are together no
  more than the counter and no more than the limit (`CountersHold`), and the key
  outlives each admission by a full window, because every attempt pushes its end
  (`KeyOutlives`): when the counter starts anew, the last admission is out of the
  window.
  *Listings*: `WalksMissNothing`. A watched row that has not been seen has at
  least as many rows before it as the next page skips (`WalkHolds`), which
  insertions can only increase; `OrderRanks` says that in every order a query
  may return, a row alone at its place comes right after those before it.

TLC finds each of the last three inductive invariants (`IInv`) to hold on the
instance of its run.

Model-checked only: `InFlightKeysGoAway` and `CachesSettle`, because liveness under
fairness is out of the prover's reach. Every other property of a passing run is
stated by a theorem.

## 5. Not modelled

* Ops query, the frontend, deployment and telemetry keep no state that steps
  could get wrong, or are not program logic; `PROJECT.json` gives the reason for
  each. Most lines of the repository are generated (protobuf and GraphQL code,
  one copy of each API in each service that calls it) or belong to these parts.
* Resolvers of the gateway other than the cached ones translate a query into one
  call of a service.
* Notifications: rows are inserted as pending; the functions that would deliver,
  retry or fail them are never called. Preferences are stored and not used.
* `workflow`'s evaluateTransition and `ListTransitions`, `ListDecisions`,
  `GetRule`, `GetFeatureFlags`, `ValidateToken` and `GetPermissions` only read.
* Events without a consumer: the tenant topics, those of the identity service;
  `rules.evaluated` is read by the audit trail only, whose module takes any event.
* Inside the modelled services, validation of required fields, metrics, logs and
  payload fields are left out. Schema migration at start is not modelled.

## 6. Where the code and its documentation disagree

Shown by runs that end in a counterexample:

1. `ingestion_first`: the first submission of a payment is answered DUPLICATE,
   and neither marked nor published; a retry is answered RECEIVED
   (`ingestion/internal/grpc/ingestion-service.go:76`).
2. `pipeline_tenants`: the in-flight key is not tenant-scoped, and all events
   that ingestion sends have an empty id, so payments of different tenants
   exclude each other and the second is lost
   (`risk-orchestrator/internal/cache/cache.go:49`). For the same reason all
   payments of a tenant share one decision.
3. `audit_fork`: concurrent appends fork a tenant's chain and `VerifyChain`
   reports tampering (`audit-trail/internal/db/store.go:79`).
4. `case_sla`: the SLA key may hold another deadline than the case
   (`case-management/internal/kafka/consumer.go:132`).

Seen while reading, without a run:

* The INSERT of ingestion returns `created_at`, and its migration names the
  column `received_at`; it also passes an empty string for the UUID `id`. With
  that table every INSERT fails. The runs take a table that accepts it
  (`SchemaAccepts = TRUE`), the proofs hold for both.
* `SLACache.Remove` ("when a case is resolved or escalated") and
  `GetOpenCasesBreachedSLA` are never called; `UpdateCaseStatus("escalated")`
  sends no `case.escalated`; `OverrideDecision` sends no `decision.made`.
* `VerifyChain` compares links only: it never recomputes a hash, and could not,
  the hashed time has nanoseconds and the stored one microseconds.
* No service reads `tenant.events`, which the README of the repository says all
  of them reload their configuration from.
* The gateway and the frontend count pages of decisions from 1
  (`graphql-bff/graph/schema.resolvers.go:443`), the decision service from 0
  (`decision/internal/db/store.go:191`): the newest page is never shown.
* A stored explanation is never made anew: after an override it explains the
  outcome before it. `UNIQUE (payment_event_id)` lets one tenant store the
  explanation of a payment id, so another's is generated at each call; with the
  empty id of all events that is every tenant but the first.
* "max notifications per tenant/channel per window"
  (`notification/internal/cache/cache.go:17`): consumers count under "all" and
  gRPC calls under the channel, so a tenant is sent up to twice as many; and each
  attempt, a refused one too, pushes the window, so that a tenant that keeps
  sending is never admitted again. A notification stays pending for ever.
* `UpdateRule` "archive[s] current version before overwriting"
  (`rules-engine/internal/db/store.go:135`): of two updates that overlap both
  archive the same version and the one between is lost; and version 1 is archived
  twice, by CreateRule and by the first update. A tenant without rules is never
  a cache hit.
* Beyond 2^53 `gte` and `lte` of an amount and a different number of a rule can
  hold both. `eq` compares the amount's digits with the shortest decimal of the
  rule's float64, so that it can tell an amount from the very number written in
  the rule, and take it for another that rounds to the same float64. An `or`
  whose first condition cannot be evaluated is no match of the rule, even with a
  matching condition behind it.
* `evaluateTransition` takes the first transition between two states, in no
  order that the query names, and ignores guards of type condition.
* A tenant whose creation fails to read its flags is cached without them;
  `UpdateTenantRuleConfig` answers with an error when the read after the
  committed update fails.
* `QueryLogs` with a page size above 500 returns 500 rows and no token. A page of
  cases skips as many rows as have left the filter since the page before.
* `GetUserRealmRoles` says "use for high-stakes authorization checks"
  (`identity-access/internal/keycloak/user.go:36`) and is never called: roles
  taken from an account stay in force until its tokens expire. No role but
  platform_admin has any of the high-stakes actions.

## 7. Plan

1. The readers at the end of the pipeline: the audit trail and the notifications
   composed with the topics they read. Nothing comes back from them.
2. An explanation made from `Decision` instead of the ledger. `LedgerImplemented`
   and `LedgerKept` say that every behaviour of the decision service is one of the
   ledger, `TornByRace` what holds over every behaviour of the ledger; a theorem
   that joins them needs a module in which both services run.
3. The life of a notification, when the code has one.
