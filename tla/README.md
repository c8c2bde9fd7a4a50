# A TLA+ model of pulse-agent

pulse-agent watches registered container services, correlates alerts and
observations into incidents, and may restart a container under a registered
runbook, a deterministic policy and a local approval. This directory models its
stateful core in TLA+, checks small instances with TLC and proves the central
safety properties with TLAPS for every size.

## The system

| Part | Source (`src/internal/`) | Module | Run |
|---|---|---|---|
| Policy engine | `policy` | `Policy`, as operators | `recovery*` |
| Command journal, coordinator, approvals | `recovery` | `Recovery`, `RecoveryPromise` | `recovery*` |
| Delivery queue, webhooks | `delivery`, `webhook` | `Delivery`, `DeliveryPromise` | `delivery*` |
| Alert ingress, signatures | `alert`, `webhook` | `Ingress` | `incidents`, `replay` |
| Observer | `observer` | `Observer`, `Observation` | `incidents` |
| Correlator | `correlator` | `Correlator`, `Correlation` | `incidents` |
| Incident queries | `incident` | `IncidentQuery` | `incidents` |
| Evidence | `evidence` | `Evidence` | `incidents` |
| Stabilization verifier | `stabilization` | `Stabilization`, `Verification` | `incidents`, `returns` |
| Audit chain | `audit` | `AuditChain` (operators), `Audit` | `daemon` |
| Target and runbook registries | `target`, `runbook` | `Registry` | `daemon` |
| Store | `store` | `Store` | `daemon` |
| Reports, lifecycle events | `report`, `lifecycle` | `Publishing` | `daemon`, `returns` |
| Standalone service, life of the admin server | `standalone`, `adminipc` | `Standalone` | `daemon`, `returns` |
| Administrative requests | `adminipc`, `recovery/approval.go` | `Admin` | `daemon` |
| Model client | `llm` | `LLM`, `Remedy` | `incidents`, `returns` |
| Analysis graph | `analysis` | `Analysis` | `returns` |
| Docker adapter | `docker` | `Docker`, `Remedy` | `incidents`, `returns` |
| Telemetry, configuration, command line, redaction, test harness | | not modelled | |

A request reaches `Coordinator.Submit`, which evaluates the policy, persists a
command in the journal, and either executes it at once or leaves it waiting for
`ApprovalManager.Decide`; `Resume` executes a granted command, `Reconcile` hands
what a stopped process left behind to an operator, and the stabilization
verifier ends an executed command through `CompleteStabilization`. On the way
the coordinator publishes lifecycle events, which are durable and go to the
delivery queue. `standalone/service.go` wires the store, the registries, the
approvals and the admin socket; the coordinator, verifier, delivery, observer,
correlator and analysis are library components that nothing in the repository
schedules yet.

## Modules

`Policy` is `policy.Evaluate` with each of its checks as an operator. A runbook,
a snapshot and an input are records of the fields the checks read; the
structural validity of a snapshot is one Boolean.

`Recovery` is the recovery package. Its durable state is `journal` (one record
per effect, that is, per `recordKey`), `index` (idempotency keys), `approvals`,
`audited` (the audit log, as far as a decision writes it) and `events`. `call`
is the program point and the locals of each goroutine inside `Submit`, `Resume`
or `Reconcile`. `executions` counts calls of `Adapter.Execute`; `asked` and
`cleared` are history that properties need. Every store transaction, every call
of the adapter, the state source or the publisher is one step, and other
goroutines, decisions, the clock and a process stop (`Crash`) come between any
two of them. `Abort` is a call that ends early because its context is done or a
dependency failed. `Decide` is one transaction, with the clock read before it.

| Action | Code |
|---|---|
| `SubmitBegin`, `PublishAnalysisUnavailable`, `PrepareDenied`, `PublishPolicyDenied`, `PersistConflict`, `PersistDuplicate`, `PersistNew`, `PublishApprovalRequested` | `Submit`, `prepare`, `persistPending` |
| `ResumeBegin` | `Resume` |
| `Revalidate`, `ValidateAction`, `DenyAfterRevalidation`, `Expire`, `PublishRecoveryStarted`, `Approve`, `StartExecution`, `Execute`, `FinishExecution`, `MarkUncertain` | `execute` and the journal transitions it makes |
| `ReconcileBegin`, `ReconcileOne` | `Reconcile` |
| `CompleteStabilization` | `CompleteStabilization` |
| `Decide` | `ApprovalManager.Decide` |

Assumptions of the model: a store transaction is atomic and serializable
(bbolt); a lifecycle publisher is configured; command IDs do not repeat; the
clock does not go back. What `StateSource.Load` returns may change between any
two loads (`Loadable`), independently of what the request claimed.

`RecoveryPromise` is what the package promises about one effect, without calls,
approvals, policy or time: open, then closed for good or committed; applied at
most once and only when committed; then confirmed, or suspected and left to an
operator. `Recovery!KeepsPromise` is the refinement.

`Delivery` is the delivery package. Its durable state is `queue` (the items, by
delivery ID) and `audited` (items with a `delivery.failed` event); `pass` is the
program point of each goroutine inside `DeliverDue`, with the time and the items
it read at its start; `mu` is the dispatcher's mutex. `sent`, `accepted` and
`stops` are history. Every transaction and every HTTP exchange is one step.

| Action | Code |
|---|---|
| `Enqueue` | `enqueue`, one transaction with the clock read before it |
| `DeliverDue`, `PendingItems`, `ExpireItem`, `PickItem`, `Finish`, `Unlock` | `DeliverDue` and `pendingItems` |
| `Send` | `deliverOne`: the payload fails, the request fails before or after the receiver took it, a 2xx arrives |
| `MarkDelivered`, `RetryOrFail` (with `MarkTerminal`) | `markDelivered`, `retryOrFail`, `fail`, `expire`, `markTerminal` |
| `Abort`, `Crash` | a done context or a store error; a process stop |

Items are numbered in the order of their store keys, which is the order of a
pass. Items of a request that is refused leave no trace, so `Enqueue` has only
the accepted ones.

`DeliveryPromise` is what the package promises about one item: accepted once,
ended once, delivered only after its receiver confirmed it.

### From an alert to a stabilized incident

`Ingress` is `alert.Accept` with the signatures of `webhook`. A call reads the
clock once and then verifies (`Begin`), looks up the receipt (`Check`),
normalizes (`Normalize`) and writes the receipt in a transaction (`Commit`), with
other calls, the clock and a stop between any two. `sent` is what the sender
signed last for each ID; any copy may be delivered again. `signer` and `verifier`
are the two keyrings, which rotate separately (`DeploySigner`, `DeployVerifier`).
`accepted` is the history of what was taken, with the clock reading of the call and
the time of its commit. The retention of receipts is any: `NewIngress` asks only for
a minute, not for more than the signature tolerance.

`Observer` is `RunCycle` with concurrent callers: `Begin` takes the snapshot and
the clock reading, `StartDue` claims a due rule under the lock, the probe fails
(`ProbeError`) or is counted (`Evaluate`) and numbered (`Sequence`), `Finish` and
`Return` end it. `runs` is the history of the probes of each rule, `samples` that of
what `evaluate` counted. A cycle goes through the rules in an order, and each rule has
its own interval and streaks.

`Correlator` is `Ingest`, one transaction. A record per rule and window holds the
phase, the times and the bounded memory of inputs; `Ingest` finds the record of
the signal's window or the latest active incident (`FindActiveRecord`) and advances it.
`applied` is the history of what an incident took.

`IncidentQuery` is `List`: a reader follows `NextOffset` while incidents are
opened and change. `Evidence` is the loop of `Collect`, one record per step,
against a definition of what it should select.

`Stabilization` is `Verify`: clock reading, load, probe, completion of the command
in the journal and storing of the result are separate steps of each caller
(`Step`), any transaction may fail (`StoreFails`) and the process may stop. The
journal is the part of `Recovery` that it meets: `Submit` and
`CompleteStabilization`. `seen` is the history of samples.

### What the daemon keeps

`AuditChain` is `audit/chain.go` as operators on the contents of the bucket;
SHA-256 over the canonical event is injective there. `Audit` appends around a
state change and damages the bucket: records are lost, swapped or replaced.
`Registry` is both registries over one chain: `Register` waits for the lock,
`Commit` is the transaction with the audit event, `Publish` replaces the snapshot;
`Start` loads it under the current configuration.

`Store` is the file: `OpenFile` takes the lock or creates the file, `Migrate` runs
in one transaction, `Check` verifies, `Update` ... `Commit` is a transaction,
`BeginBackup` and `WriteTo` a backup, `Restore`, `Copy`, `OpenTemp`, `Link` and
`Remove` a restore. Every step of a restore may fail, also the deferred `os.Remove`
of the temporary name; `left` holds the files whose `.restore-*` name stayed. `Crash`
is a stop of one process; bbolt and the file system are external.

`Publishing` is `PublishTerminal` with the report's and the lifecycle publisher's
mutexes. `Enqueue` stores the report with its queue item, `Publish` the paired
event with its own, and a context error or a stop may come in between. `Settle` is
`deliverOne` with its retries; `Delivery` has them apart.

`Standalone` is `RunWithConfig` with the goroutines of the admin server: the main
goroutine (`Main`), the cancellation callback (`Callback`), a close in progress
(`Closing`), a goroutine per connection (`Served`), and admitted work. The socket
path may be taken or replaced by others, or its mode changed (`Replace`), also
between a check of the path and the use of what was checked: `Verify` records what is
at the path by then, and `removeOwnedSocket` is a check (`CloseCheck`, `Install`) and
a removal (`CloseRemove`, `Disown`).

`Admin` is one request from the client's call to its answer: the server reads,
authorizes, audits and routes it to a manager, writes an answer or streams a
backup; the client receives, copies, or gives up at any point while the server
goes on.

### Calls to external services

`LLM` is the iterator `GenerateContent`: provider calls with retries on quota,
and a `yield` whose consumer may stop. `Analysis` composes it with the graph of
`Analyze`, which never streams and stops after the first item. `Docker` is the
adapter with its negotiation under a mutex, over an engine whose containers come
and go between any two requests.

### Model-checking modules

`Observation`, `Correlation`, `Remedy` and `Verification` each declare the constants
and variables of one or two components under names of their own, instantiate them,
and state in one property what each promises. Both the model-checking modules and
the proofs extend them, so that TLC and TLAPS speak of the same definitions.

`MCRecovery` and `MCDelivery` give the constants their values. `MCIncidents`,
`MCDaemon` and `MCReturns` set several components side by side, each instantiated
with small constants: a variable `part` is chosen in the initial state, the
component it names runs and the others stay in a fixed initial state. Where a
component is studied in several parts, a part also says how much of the constants
it uses. The components of such a module share no variable, since what one
hands to the next (a signal, an incident, a request) is any value of a small set
in the next one's module; the product of their behaviours would show nothing that
the union does not, and would be out of reach. Where components do interact, the
interaction is inside a module: the verifier with the journal, the publishers with
the queue, the server with the service that runs it, the graph with the model
client, every audited change with the chain.

## Runs

| Run | Instance | Distinct states |
|---|---|---|
| `recovery` (`Recovery.cfg`) | two goroutines, one effect, two approvers of which one is registered, facts that may turn risky or move, two expiries | 97,478 |
| `recovery_pair` (`RecoveryPair.cfg`) | one goroutine, two effects, two idempotency keys, every kind of facts | 699,438 |
| `republish` (`RecoveryRepublish.cfg`) | one goroutine | violation |
| `ask` (`RecoveryAsk.cfg`) | two goroutines | violation |
| `delivery` (`Delivery.cfg`) | two goroutines, two items, room for one, two attempts, one stop | 208,286 |
| `delivery_settles` (`DeliverySettles.cfg`) | one goroutine, two items, three attempts, growing backoff | 231,738 |
| `delivery_attempts` (`DeliveryAttempts.cfg`) | one goroutine, one stop | violation |
| `delivery_backoff` (`DeliveryBackoff.cfg`) | one goroutine | violation |
| `incidents` (`Incidents.cfg`) | `MCIncidents`, fourteen parts | 503,980 |
| `replay` (`IngressReplay.cfg`) | one call, one alert, a retention below the tolerance | violation |
| `daemon` (`Daemon.cfg`) | `MCDaemon`, ten parts | 603,841 |
| `returns` (`Returns.cfg`) | `MCReturns`, six parts | 26,068 |

`recovery` is about races: two calls of one effect meet at every point of
`execute`, with a third actor deciding and a stop anywhere. Two goroutines are
enough for every race between two calls; a stop returns both to idle, so longer
histories of calls are reached with two. Time runs from 1 to `MaxTime` = 2, with
expiries at 2 and 3: a command that expires while a call runs, and one that does
not. It checks

- `AtMostOneExecution`: one restart per effect, whatever is retried or stopped;
- `OutcomeTruthful`: the journal never claims a restart that did not happen, and
  denied, expired or unstarted commands were and will not be applied;
- `ExecutionAuthorized`: the last check passed in time, on facts of the daemon (what
  changes between that check and the adapter's request, the code does not see);
- `GrantedBeforeExecution`: a command that ever waited needs a durable grant;
- `AnnouncedBeforeExecution`: `recovery_started` is durable before the restart;
- `DecisionAtomic`: approval, command and audit log agree;
- `Settled`: terminal records, decisions and keys never change again;
- `KeepsPromise`: the refinement of `RecoveryPromise`.

`recovery_pair` adds a second effect and key, a `Reconcile` with several records,
requests that claim facts the daemon does not see, the cooldown and an unavailable
analysis: `IndexSound`, a key never leads to a missing record. The properties of
`recovery` and the type invariant are proved for all of these.

`delivery` is about races and stops: two goroutines call `DeliverDue` at any
time, items arrive during a pass, one item expires within the clock's range
(`MaxTime` = 3, expiries 2 and 4) and the other can use all its attempts. It checks

- `OutcomeTruthful`: delivered means answered, failed and expired mean audited;
- `PassIsCurrent`: what a pass read at its start is still stored when it uses it;
- `SendsBounded`: `MaxAttempts` sends, and one more per stopped pass;
- `QueueBounded`: the limit of the queue, and webhook IDs that are not shared;
- `PassesEnd`: every pass ends and gives the mutex back;
- `KeepsPromise`: the refinement of `DeliveryPromise`.

`delivery_settles` checks `EveryItemSettles`: when passes keep being completed
and time goes on, every item is delivered, failed or expired. Three attempts
with delays of 1 and 2 fit before the expiry at 5, so each of the three ends is
reached.

In the three composed modules one property gathers what a component promises;
each conjunct is stated and explained in the component's module, and each has a
mutation of the code that TLC finds through it. The type invariants are conjuncts.

`incidents`, with the parts in brackets:

- `AcceptedOnce`, `ReceiptsSound`, `RotationKeepsTraffic`: two deliveries at once of
  one alert, with a sender whose clock is ahead (`ingress`), of two alerts of which
  one call expires the other's receipt (`pair`), and rotating secrets (`rotation`).
  `AcceptedOnce` says when the same signed message can be taken twice: only if the
  retention is at most twice the tolerance (a signature may be ahead of the clock or
  behind it) plus the time from the second call's clock reading to its commit. With a
  tolerance of 1 and a retention of 3 that takes a call of one tick, which the run
  reaches, and an expiry that is one tick early is seen;
- `ObserverSound` (`RunsApart`, `StateJustified`, `SequenceFollowsTime`): two cycles
  at once over one rule with gaps and streaks (`rule`), and over two (`rules`);
- `CorrelatorSound` (`OutcomeFollowsSignals`, `NoClosureFromBefore`,
  `RepeatsFarApart`) and `IncidentsMoveForward`: signals of several windows in any
  order (`windows`), and a memory of two inputs that overflows (`memory`). A signal of
  an incident's own window counts whenever it was observed; one of another window only
  when it is healthy and not older than the incident. Six and seven signals per
  incident reach every phase and a replay of a lost input;
- `ModelClientSound` (`NoYieldAfterStop`, `CallsBounded`, `StreamEndMarked`): any
  provider and any consumer, streaming or not (`client`). `yield` is called after it
  answered false only at the end of a stream, by the defect listed below;
- `AdapterSound` (`NegotiatedOnceBefore`, `RestartsTheResolved`, `ResultTruthful`): two
  callers and one container (`sharing`); one caller and three containers with two
  names and one service (`containers`). That a negotiation is not seen half done is
  a promise to the `Engine` interface; the production client's changes nothing that a
  request reads;
- `ReadsComplete` (`PagesCoverStart`, `RepeatsOnlyShifted`, `CollectsLongestPrefix`):
  a reader of three incidents by pages of one and two (`query`), and every sequence
  of three records at the limits (`evidence`). Without a state filter the pages miss
  nothing; with one they may, when an incident leaves the state between two pages;
- `VerifierSound` (`ResultTruthful`, `SuccessJustified`): two callers of `Verify`
  (`verifiers`), and one whose process stops twice (`stopped`).

`daemon`:

- `StoreSound` (`PathComplete`, `OpenStoreSound`, `BackupFramed`, `CopyPrivate`,
  `RestoredAlone`): two processes that open, migrate, back up, restore and stop, with
  three schema versions and two files, and a third that an `Open` creates (`store`);
  restores one after the other and at once with three files, so that one meets what
  an earlier one left (`restores`). `.restore-*` files do stay after a stop or a failed
  `os.Remove`; the copy under one is never that of a later restore, and a restore that
  succeeds leaves the store with a single name;
- `AuditSound` (`OnlyWrittenAccepted`, `AppendKeepsChainValid`): a chain of three
  events, up to the end of its key space, and two faults of the bucket (`audit`). A
  chain that has lost its last events is a valid chain to the code, so that loss is
  not among what is found;
- `RegistrySound` (`RegistrationsAudited`, `SnapshotCurrent`,
  `VersionIdentifiesSnapshot`, `RestartLoads`): two goroutines that register two
  targets, with restarts under changed configurations (`registry`);
- `PublishingSound` (`OneItemPerPayload`, `ReportBeforeEvent`, `SuccessMeansPair`):
  two publishers over one queue (`racing`), and retries after the delivery lifetime
  (`aging`);
- `ShutdownSound` (`StoreOutlivesRequests`, `NilMeansDrained`, `SocketReleased`): two
  connections and two units of work (`standalone`). A socket of its own is left only
  with an error, or, silently, when its mode or owner was changed under the daemon;
- `AdminSound` (`SuccessAudited`, `ChangesAudited`, `BackupWhole`, `OneDecision`):
  every operation (`each`), two at a time (`mixed`), and two decisions on one command
  around its expiry (`deciding`);
- `NothingDestroyed` (`NeverOverwritten`, `UpgradeAtomic`, `ChangesOnValidChain`,
  `ForeignPathKept`): what no step of the store, the chain and the server may do. An
  object of another program at the socket path is removed only if it came there
  between a check and the use of what was checked (`Window`).

`returns`:

- `AnalysisSound` (`OutcomeTruthful`, `Grounded`, `ProviderBounded`): two attempts of
  the graph over three of the client, with a count that could go past their product
  (`analysis`);
- `NothingRepeated` (`RetriesBeforeEmission`, `EndedResultStays`,
  `ConsecutiveSamples`): a request that was partly answered is not repeated, and an
  attempt that has ended is not written again (`llm`; `verifier`, with one caller and
  three samples in a window of three);
- `CallsReturn` (of `Analyze`, of the adapter and of `PublishTerminal`, the last
  through two mutexes taken in turn), `AttemptSettles`, `ShutdownEnds`.

Symmetry is over goroutines, alerts and publishers, in runs without liveness.
Deadlock is checked in every run: what has a last step (`LLM`, `Analysis`,
`Evidence`, the end of `Admin`'s bound on requests) rests in a step of its own.

Fairness. `Recovery` assumes none: nothing in the repository calls `Resume` or
`Reconcile` again, so "every command is eventually settled" has no scheduling to
rest on. `Delivery` assumes weak fairness of the steps of a pass in flight: they
are local, and `requestTimeout` ends every exchange. Nothing in the repository
calls `DeliverDue` periodically, so that passes keep being completed is not
assumed of the system; it is the premise of `EveryItemSettles`. `returns` assumes
that a goroutine that can go on does, that an exchange with an external service
ends (each has a deadline in the code), and strong fairness of taking a mutex
(`sync.Mutex` hands over to a waiter that starves). For the verifier it also
assumes that the clock runs and that `Verify` is called again, which is its
caller's part of the contract. Nothing is assumed of clients, of signals, or of
admitted work: `ShutdownEnds` holds because draining has a timeout.

### Where code and comments disagree

- `republish`: `lifecycle.Publish` is documented to treat a repeated event ID as
  a duplicate, but a repeat with another `OccurredAt` is refused, and the
  coordinator takes the time from its clock. When a call stops between the
  durable `recovery_started` event and `approve`, the next `Resume` of the
  granted command is refused at any later time until the command expires.
- `ask`: `Submit` publishes `approval_requested` for a duplicate request when the
  new request's evaluation asks for an approval, although the durable command it
  answers with may be past waiting.
- `replay`: `docs/operations.md:92` says that the receiver refuses a replay of a
  `webhook-id` it has accepted. Receipts expire, and `NewIngress` takes any retention
  from a minute on while a signature verifies for five minutes: with such a retention
  the same signed message is taken again, as `TestIngress_AcceptExpiresReplayReceipts`
  does. The default of a day is far from that.
- `delivery_attempts`: `MaxAttempts` is documented to bound "total send attempts,
  including the first delivery", but an attempt whose context ends after the
  request was sent, or whose process stops, is not counted.
- `delivery_backoff`: `InitialBackoff` is documented as "the delay after the first
  failed attempt", but the backoff is added to the time at which the pass began,
  so after a slow batch the retry may be due at once.

The components show nine more, which no run repeats; the properties above state
what does hold:

- `stabilization/verifier.go:216`: two concurrent calls of `Verify` read the same
  samples, and one completes the command after the other has observed a failure and
  before that is stored; `:204` says "A command completes only after the required
  consecutive samples and the full stabilization window pass." `ConsecutiveSamples`
  is therefore checked with one caller.
- `stabilization/verifier.go:422`: the sample after `maxRecoverySamples` in one
  window is refused as a corrupt result although everything stored is valid; `:33`
  says `ErrCorruptResult` "indicates an invalid persisted stabilization result."
- `recovery/journal.go:90`: the journal keeps one record per effect, so the request
  of a scheduled retry gets the old, failed command; `stabilization/verifier.go:58`
  says "callers must create a new recovery command through the normal coordinator
  path."
- `correlator/correlator.go:144`: a replayed healthy signal outside every window may
  end the next active incident of its rule, and an input that the bounded memory of
  its own incident has forgotten is counted again there; `:122` says "Replayed input
  returns Duplicate without mutation." `RepeatsFarApart` says how far apart two
  occurrences in one incident are.
- `llm/llm.go:168`: when the consumer of a stream stops before the turn is complete,
  at a response or at an error, `GenerateContent` yields `ErrMalformedResponse` once
  more, which the Go runtime answers with a panic in the consumer's loop.
  `NoYieldAfterStop` shows that this is the only such call; nothing in the repository
  streams.
- `adminipc/server.go:223`: `removeOwnedSocket` looks at the path and then removes
  whatever is there; the comment says that `Close` "removes the socket only when the
  current path still names the daemon-created socket." `listenSocket` likewise takes
  what it finds after `ListenUnix` for its own.
- `observer/observer.go:119`: the first failing probe ends the cycle; `:94` says
  "RunCycle evaluates every due rule from one immutable target snapshot."
- `report/publisher.go:190`: a retry after the delivery lifetime cannot enqueue the
  missing event; `:126` says "A retry with the same idempotency key completes any
  missing paired event". `SuccessMeansPair` holds, since that retry fails.
- `recovery/approval.go:170`: a decision that is refused because the command has
  expired marks it expired; `adminipc/protocol.go:55` says `ErrRequestRejected` means
  "without making a state change." `ChangesAudited` covers this change too.

## Proofs

For any sets of goroutines, effects, keys, approvers and facts, any expiries and
any clock (`Recovery!ConstantsAssumption` asks only that they are well typed and
that some facts can be loaded):

| Theorem | Statement |
|---|---|
| `RecoveryInvariant!AllowNeedsValidGrant` | the policy engine allows an action only without obstacle and, where needed, with a valid grant |
| `RecoveryProofs!Invariance` | `Spec => []Inv` |
| `TypeCorrect`, `ExecutesAtMostOnce`, `JournalTruthful`, `ExecutesAuthorized`, `ExecutesGranted`, `ExecutesAnnounced`, `DecidesAtomically` | the invariants of run `recovery` |
| `ImplementsPromise` | `Spec => KeepsPromise` |
| `SettlesForever`, `IndexesSoundly` | `Settled`, `IndexSound` |

None of the properties is inductive by itself. `Inv` (`RecoveryInvariant`) adds
how often the effect of a record in each phase can have been applied
(`CountInv`), how the record, its approval and the history of its waiting belong
together (`GrantInv`), that a record past `approve` was cleared and announced
(`ClearInv`), what a call at each point of `execute` may rely on (`CallInv`: its
copy of the expiry and of the approval is still the record's), and that no two
calls are at the gate of one effect (`Exclusive`). The step proof rests on one
frame argument (also in `RecoveryInvariant`): a step of one call keeps what
the others rely on when it `Keeps` each record, and `SoundUpdate` collects what a
journal transition must satisfy for that. One lemma per action follows, and
`RecoveryProofs` puts them together.

For the refinement `RecoveryProofs` first shows that every step changes at most one
record, and by a legal transition (`StepKinds`), and then that such a change is a
step of the promise; that an open effect was not applied before comes from `Inv`.

For any goroutines, items, webhook IDs, expiries and options of the dispatcher
(`Delivery!DeliveryAssumption`), `DeliveryProofs` shows:

| Theorem | Statement |
|---|---|
| `BackoffBounded` | the delay of every retry is between the initial and the maximal backoff |
| `DeliveryInvariance` | `Spec => []DeliveryInv` |
| `DeliveryTypes` | `Spec => [](TypeOK /\ Serialized)`: types, and at most one goroutine is in a pass |
| `PassesDoNotInterfere`, `OutcomesTruthful`, `SendsStayBounded`, `QueueStaysBounded` | the other invariants of run `delivery` |
| `DeliveryImplementsPromise` | `Spec => KeepsPromise` |

`DeliveryInv` adds that a pass in flight holds the mutex (`Serialized`), that the
items a pass has left are pending and as it read them, and not expired at the
time of the pass when it attempts one (`PassSound`), and how many requests an
item's record accounts for, with one more while its attempt is in flight
(`SendsCounted`). `RecordResult` is the shared argument for the three ways in
which a pass stores a result. `BackoffBounded` takes the least number of attempts
whose delay would be out of bounds; that least number exists
(`WellFoundedInduction`), and the doubling of the one before it is in bounds.

For any calls, alerts, secrets, clocks, skews, tolerance and retention, `SignalProofs`
shows the properties of `Ingress`. It also shows those of the correlator, for any
signals with their inputs, rules and times and any size of its memory.

| Theorem | Statement |
|---|---|
| `IngressInvariant` | `Spec => []IngressInv` |
| `MessageAcceptedOnce`, `RotationSafe`, `ReceiptsStaySound` | `AcceptedOnce`, `RotationKeepsTraffic`, `ReceiptsSound` of run `incidents` |
| `AcceptancesApart`, `ReceiptMeansAccepted` | two conjuncts of `ReceiptsSound` |
| `CorrelatorStaysSound`, `CorrelatorMovesForward` | `CorrelatorSound`, `IncidentsMoveForward` of run `incidents` |

`IngressInv` adds that a call in flight has a clock reading and a signature within
tolerance of it (`CallsTimed`), that every acceptance is covered by a
receipt until its retention has passed (`AcceptancesCovered`), and that sender and
receiver share a secret, also for every message that may still be verified
(`SecretsShared`).

`CorrelatorInv` says of each record what its state means in terms of the signals it
took (`Progress`: an open one took a single unhealthy signal, an analyzing one only
unhealthy signals, a recovering one a healthy signal after them, and so on), and that
its memory is the end of that sequence (`Memory`). `Progressed` and `Remembered` are the two
arguments on sequences: what one more signal does to either.

For any cycles, rules and their intervals and streaks, `ObserverProofs` shows
`ObserverStaysSound`, that `ObserverSound` of run `incidents` holds. `ObserverInv`
adds that at most one cycle is in the probe of a rule, and then the rule is marked as
running (`Exclusive`), that the time `finish` stored is that of the last probe
(`Finished`), that sequence numbers so far are distinct and below the counter
(`Distinct`, `RunsSound`), and that the two counters of a rule are the lengths of the
streaks at the end of its samples (`Counts`), which `EvaluateCounts` shows for the
gap, failure and recovery cases of `evaluate`.

`RemedyProofs` shows, for any limit of attempts and events, `ModelClientStaysSound`
(`ModelClientSound`) and `RepeatsOnlySilence` (the first conjunct of
`NothingRepeated`), and for any goroutines, containers, names and services
`AdapterStaysSound` (`AdapterSound`). `ClientInv` relates provider calls to attempts
and what was yielded to the place in the loop; `AdapterInv` says who holds the mutex
at which point, and that what a call has resolved was a single container.

`VerificationProofs` shows `VerifierTruthful` (`VerifierSound`) for any number of
concurrent calls, stops and store errors. `VerifierInv` says of the stored record and
of the copy in each call that the samples it counts were seen and that its end is
that of the command (`Covered`, `Truthful`); since calls overwrite each other's
records, a record may count fewer samples than were seen, never more. `EndWrittenOnce`
is the second conjunct of `NothingRepeated`; it needs a single caller (`SoleCaller`),
as does the run, for two callers may write an ended result twice.

For any number of processes and files, any schema version and any contents that may
be found at the path or in a stream (`Store!StoreAssumption`), `StoreProofs` shows:

| Theorem | Statement |
|---|---|
| `StoreStaysSound` | `Spec => []StoreSound`, of run `daemon` |
| `StoreNeverOverwritten`, `StoreUpgradesAtomically` | the first two conjuncts of `NothingDestroyed`, of the same run |

`StoreInv` adds what a process may rely on at each point of `Open`, `Migrate` and
`Restore` (`ProcSound`: before `Link` its temporary file is complete and not at the
path; in a migration the transaction has the records of the file, and the buckets of
its version when the file is at the path), and that no two processes have a file or a
temporary name in common (`Apart`), which is what the lock and `CreateTemp` give.
`Names` is a second invariant, on top of it: which files have a temporary name, in use
or left, at each point of a restore. `FileStep`
and `CreateStep` are the two frame arguments: a process that writes to its own file,
or creates one, leaves the others what they rely on. That a migration completes the
buckets is `AppliedContent`.

### Only model-checked

- The liveness properties `PassesEnd`, `EveryItemSettles`, `CallsReturn`,
  `AttemptSettles` and `ShutdownEnds`: the prover has no fairness reasoning.
- `ReadsComplete`: what `List` returns is sorted and `CollectsLongestPrefix` compares
  with a longest prefix, both defined by folds, about which nothing can be proved
  without induction over sequences.
- `ConsecutiveSamples`, which needs one caller and no stop or failing transaction.
- The components of `daemon` other than the store, and `AnalysisSound`.

## Not modelled

Docker, the webhook receiver, the language model, bbolt and the file system are
external: what the code can see of them is a free choice. Left out, since no
property here speaks of it or it keeps no state:

- telemetry: metrics that no component reads back;
- configuration and the command line: parsing and output;
- the acceptance runner and the fault fixture: test harness;
- redaction and the wording rules of reports and replies: string matching, a
  Boolean of a record, an input or a reply;
- decoding and validation of contracts, runbook files and frames: whether a request
  or document is well formed is a free choice;
- cryptography: a signature verifies exactly with a shared secret, a digest is
  injective;
- the health that `Observe` of the Docker adapter derives from one container.

The contents of targets, actions and reconciliation snapshots in a journal record
are abstracted to whether the daemon's current facts still match them (`bound`).
Nothing in the repository calls the coordinator's `Reconcile`, the dispatcher, the
observer or the verifier in a loop, so no end-to-end liveness is stated.
