# TLA+ specification of reliable-notifier

reliable-notifier accepts notifications over HTTP, stores them in PostgreSQL and
delivers them to suppliers over HTTPS, at least once, with retries for 24 hours.
This directory specifies its delivery state machine, its dispatch pipeline, its
admission of requests, its outbound attempts and its destination limiter in TLA+,
model-checks them with TLC and proves the central invariants and refinements with
TLAPS. Line references below are to the files of the repository.

## The system

```
HTTP API --Submit/Replay--> PostgreSQL <--claim, mark, release-- Outbox Publisher
                              ^   ^                                   | Publish
            retry scheduler --+   | eligibility, observe,             v
            lease reconciler -+   | claim, result             RabbitMQ dispatch queue
            signal watchdog --+   |                             |       ^
            retention --------+   +---- Worker goroutines <-----+       | TTL 250 ms
                                         |        +--- Defer ---> deferral queue
                                         +-- HTTPS --> supplier
```

### Inventory

| Part | State | Operations that change it | What is hard about it |
|---|---|---|---|
| Delivery lifecycle (`internal/delivery/worker_store.go`, `scheduling.go`, `replay.go`) | rows of `deliveries`, `delivery_attempts`, `replay_audits` | `ClaimDelivery`, `Complete*`, `ScheduleDueRetries`, `RecoverExpiredDeliveries`, `Replay` | stale Workers that share a `WORKER_ID`, crashes between claim and result, lease recovery racing a result, duplicate signals |
| Admission (`store.go`, `http.go`) | `deliveries`, `outbox_events` | `Submit` | key lookup and backlog count against concurrent submissions, replay and retention; a version resolved before the transaction; lost answers and repeated requests |
| Destination configuration (`store.go`) | `destinations`, `destination_versions` | `Bootstrap` | runs at every start, concurrently with submissions |
| Request rules (`http.go`, `hash.go`, `internal/outbound/client.go`) | none | `RequestHash`, the header and method checks | checks written twice that must agree; fields that could run together |
| Transactional Outbox (`outbox.go`, `maintenance.go`) | rows of `outbox_events` | `ClaimOutbox`, `MarkOutboxPublished`, `ReleaseOutbox`, `ObserveSignal`, `ReconcileStalledSignals` | batches outliving their lease, a watchdog that decides on delivery rows it does not lock |
| Publisher (`internal/dispatch/publisher.go`, `cmd/notifier/publisher.go`) | the batch in memory | `RunOnce`, `releaseRemaining` | confirmed but not marked, marked by another batch |
| Broker (`internal/dispatch/rabbit.go`) | three queues, unacknowledged messages, the Go channels of confirmations and returns | `Publish`, `Defer`, `Close`, TTL, requeue | duplication, reordering, loss, unknown outcomes; answers nobody waits for any more |
| Worker (`internal/worker/worker.go`, `rabbit.go`) | goroutines, their leases and permits | `Process`, `processMessage`, `Run` | cancellation in the middle of anything, redelivery while the old goroutine still sends, messages nobody can decode |
| Outbound attempt (`worker.go`, `internal/outbound/client.go`) | the attempt in memory | `Send`, `classify`, `nextAttemptAt` | stalls against the lease, DNS that changes its answer, a wall clock that is set |
| Destination limiter (`internal/worker/limiter.go`) | permits, next allowed time | `tryAcquire`, `release` | reservations given back out of order, limits tightened while permits are out |
| Maintenance loops (`cmd/notifier/scheduling.go`) | none of their own | `runRetryScheduler`, `runLeaseReconciler`, `runRetention` | batch limits, the only ones to repair what crashed |

`PROJECT.json` lists every component, also those that are not modelled, the source
lines of every definition, the hazards with the properties that guard against them,
and the theorems.

## Modules

**`DeliveryStore`** is the core. Its variables are the four tables, the clock, and
what clients of the store remember: `grants` (every Worker lease ever handed out),
`inflight` (those some Worker may still report on), `handles` (Outbox events a
Publisher holds) and `stalled` (the snapshot of a running watchdog statement). There
is one action per writing operation of `delivery.Store`, with the statement's `WHERE`
as guard and its `SET` as update. Each is one PostgreSQL statement or transaction
that locks the rows it decides on, so it is one step, with one exception:
`ReconcileStalledSignals` locks the event and not the delivery it joins, and is split
into `ReconcileSnapshot` and the update, between which anything may happen. Clients
are unconstrained: any result, at any time, or none.

**`Notifier`** extends it with the clients of the program. Publishers step through
`RunOnce`; goroutines step through `processMessage` and `Process`, one control point
per call that can fail or interleave; RabbitMQ, which is external, is two bags of
signals. Faults are failed calls, crashes, broken connections and lost messages.
`unread` counts the confirmations that the failed `Defer`s of a process left behind, from
which two things follow: a later `Defer` of the process may take one for its own and
return nil for a message that is not stored, and with two of them `Close` blocks
(`CloseBlocked`). `dropped` has the signals that lost a copy, that way or by the broker,
since they were last published. The API and the maintenance loops remain those of `DeliveryStore`. `DeliveryStore` is the
abstract specification that `Notifier` implements, with the identity as refinement
mapping for the store's variables (`ImplementsStore`).

**`DeliveryLifecycle`** is what the service promises of a delivery, with no clock,
lease, Outbox or message: accepted once, attempted one generation at a time, every
attempt ending in one result that nothing rewrites, reopened only on record, forgotten
as a whole. **`DeliveryStoreLifecycle`** has the refinement mapping from the tables:
a row's status gives the phase, its attempts the results, its audits the reopenings
(`ImplementsLifecycle`). So `Notifier` implements `DeliveryStore`, which implements
`DeliveryLifecycle`.

**`DestinationLimiter`** is the limiter for one destination in one process. `Notifier`
abstracts it: a permit within the concurrency limit, or a refusal at any time.

**`SignalBroker`** is one `RabbitBroker`: `publishSignal` with its mutex and its
`select` over the buffered channels of confirmations and returns, which does not look
at delivery tags; the reader goroutine of the client library that fills them; `Close`
and reconnection. The Outbox Publisher is its single caller, the goroutines of a
consumer are several. `Notifier` and `SignalConsumer` take a publication as one step that
may fail with either outcome, and keep of the channels how many confirmations nobody took.
The Outbox Publisher has none: it makes one call after the other and gives its broker up
at the first error.

**`SignalConsumer`** is `Run` and `processMessage` for messages of any kind, malformed
ones included: the dead-letter queue, the error channel for one error, `group.Wait`,
prefetch credit, `Close` and the restart by `runWorker`, with the same `unread`,
`CloseBlocked` and `dropped` as in `Notifier`. What `Process` does to the store is
`Notifier`'s subject; here it only succeeds, fails or asks for deferral.

**`Admission`** is `POST /deliveries` as concurrent requests see it: resolution of the
destination version in one statement, checks and hash, the transaction of
`Store.Submit` in another, `Bootstrap` in between, answers that are lost and requests
that are repeated.

**`RequestHash`** and **`RequestRules`** are the sequential checks around it:
canonical headers and the bytes that are hashed, as operators; the rules the API
applies to a request, the rules `Sender.Send` applies to what was stored, and the
request that leaves. Characters are only told apart where the code does: blanks, line
breaks, other controls and the rest.

**`OutboundAttempt`** is `Worker.Process` from claim to result with every step of
`Send`: one `attemptContext` over DNS, secret, connection and response, a lease on
PostgreSQL's clock, timestamps of the Worker's clock, recovery by the reconciler. It
extends **`RetryTiming`**, the operators `parseRetryAfter` and `nextAttemptAt`.

The theorems are in modules of their own:

| Module | Subject |
|---|---|
| `DeliveryStoreLeases` | lemmas on the store: rows and types, submit, claim, complete |
| `DeliveryStoreProofs` | the store's invariants, its two fencing properties, the refinement of `DeliveryLifecycle` |
| `NotifierPipeline` | lemmas on each step of the pipeline: what it is for the store, for its processes and for the copies of a signal |
| `NotifierProofs` | the composed system, and what follows by counting: requeued copies, the backlog |
| `RabbitProofs` | `SignalBroker` and `SignalConsumer` |
| `WorkerProofs` | `DestinationLimiter` and `OutboundAttempt` |
| `AdmissionProofs` | `Admission` |
| `RequestProofs` | `RequestRules` and `RequestHash` |

Where two components share a module, one of them has longer names for its
specification (`BrokerSpec`, `LimiterSpec`). `Notifier` counts the copies of a signal
in a queue with five operators of its own (`Copies`, `Joined`, `Added`, `Taken`,
`Empty`), so that the proofs rest on their definitions alone.

The `MC` modules hold the symmetry sets and values for TLC. Operators whose comment starts
with "Mutant" are plausible wrong versions of the operator below them; no specification uses them. Each is there to show that a
property would notice: put in place of the right operator, it makes TLC report the
property.

### How time and data are abstracted

The clock is a natural number that all parts share. `Lagging` lets the timestamps of
`Submit` and `Replay`, read before waiting for a lock, be older than the commit by up
to `MaxLag`. Delivery ids, keys, owners and tokens are values compared for equality;
bodies, headers, trace ids, response statuses and error categories are left out.
`SKIP LOCKED` with `LIMIT` is an arbitrary batch of the qualifying rows. An ambiguous
commit is a commit followed by the loss of the client's memory (`WorkerStops`,
`PublisherStops`).

In `Notifier` the order of events inside a batch is arbitrary, a goroutine started
under an already cancelled context is left out (it fails at its first call and
requeues its message), and two Worker processes run at once although the deployment
has one: a restart may overlap with the old process.

`OutboundAttempt` is the one module with two clocks: Go's context deadlines are
monotonic and keep PostgreSQL's pace, `worker.now()` is off by a bounded error that may
change at any time. SHA-256 has no collisions (`RequestHash`), and `Admission` takes
the hash for the pair of version and content, which is what `HashIsFaithful` shows.

## Runs

Each finishes within a few minutes with two workers.

| Run | Configuration | Checks | Instance |
|---|---|---|---|
| worker | `DeliveryStore_worker.cfg` | `OneLeasePerGeneration`, `EveryLeaseAccountedFor`, `AttemptsInGenerationOrder`, `NoEarlySignal`, `ReplayNeverConflicts`, `LeaseProtectsRow`, `ImplementsLifecycle` | one delivery, three leases by one `WORKER_ID`, two retries or replays, clock to 8, lagging timestamps |
| outbox | `DeliveryStore_outbox.cfg` | `PendingIsReachable`, `OutboxLeaseProtectsEvent` | one delivery, one Publisher owner with two batch tokens, two generations with two leases, clock to 3 |
| settles | `DeliveryStore_settles.cfg` | `IInv`, `KeyIsUnique`, `BacklogExceededOnlyByReplay`, `EveryDeliverySettles` and `EveryRecordExpires` (liveness) | two deliveries, two keys, backlog limit 1, batch size 1, clock past every deadline |
| pipeline | `Notifier_pipeline.cfg` | `PipelineInv`, `NoSignalDropped` | one delivery, one Publisher, one process with two goroutines, one fault and what it cancels, one replay or retry |
| decided | `Notifier_decided.cfg` | `ImplementsStore`, `EveryDeliveryDecided` (liveness) | one delivery, one Publisher, two processes with one goroutine each, one fault |
| limiter | `DestinationLimiter.cfg` | `LimiterInv`, `ActiveIsOutstanding`, `SendsSpaced`, `GrantedWithinLimit` | three goroutines, three versions, five grants, clock to 4 |
| broker | `SignalBroker.cfg` | `NilMeansStored`, `OneFailureEndsWithReconnect` (liveness) | three callers, four messages |
| resumes | `SignalBroker_resumes.cfg` | `EndsWithReconnect`, expected to fail | two callers, three messages |
| consumer | `SignalConsumer.cfg` | `EverySignalKept`, `PoisonIsRemoved`, `CreditIsReleased` and `RunReturns` (liveness) | credit for two, two signals of a destination without capacity, one prompt one, one malformed message, one fault and what it cancels |
| submit | `Admission.cfg` | `AcceptedIsOriginal`, `BoundVersionWasCurrent`, `BoundVersionAdmits`, `RetryReturnsOriginalOfVersion` | two requests, two keys, two contents, two versions, backlog limit 1 |
| attempt | `OutboundAttempt.cfg` | `OnlyApprovedDialled`, `SuccessWasObserved`, `LeaseOutlivesAttempt`, `RetryIsDueInTime`, `NotGivenUpEarly` | two goroutines, two retries, an hour of two ticks, a clock off by one, two ticks of stalling |
| requests | `RequestRules.cfg` | `AcceptedIsSendable`, `SentIsComplete`, `HashIsFaithful` | up to two header fields, each class of name in three spellings, short values and bodies that begin alike |

What they show:

* **Fencing.** `LeaseProtectsRow`: until a lease expires, only the Worker it was given
  to changes the row. `OneLeasePerGeneration` and `EveryLeaseAccountedFor`: a
  generation is leased once, and each lease ends in exactly one attempt row, written
  by the Worker or by the reconciler.
* **The life of a delivery.** `ImplementsLifecycle`: every statement is a step of
  `DeliveryLifecycle` or leaves the delivery alone. A generation follows only a
  retryable result or an audited replay, no result is rewritten, and what is settled
  stays so until replay or retention.
* **No lost delivery.** `PendingIsReachable` is about the tables alone: for each
  pending delivery there is a loop whose `WHERE` clause can select it.
  `NoSignalDropped` is about messages: no order of confirm, defer, ack and requeue
  drops the last copy of a signal the Outbox counts as published, but for a copy the
  broker lost and a `Defer` that was answered by another's confirmation; and as long as
  nothing fails there is neither. `EveryDeliveryDecided` is what follows when the loops
  run and `Close` returns, dropped signals included, because the watchdog publishes them
  again: a decision without waiting for the end of the retry window, which lies beyond
  the clock of that run. `EveryDeliverySettles` needs less: Workers
  and Publishers may be gone for good. `EveryRecordExpires`: retention then removes
  every delivery, one batch after the other.
* **Admission.** Keys stay unique; only replays, which do not count the backlog, can
  push it past its limit. Every 202 for a key names the delivery made of what was
  submitted; a repeated request gets the original back even at a full backlog, as long
  as the destination keeps its version; a delivery is bound to a version that was
  current during its request and that goes on admitting it.
* **Requests.** What the API accepts the sender sends, although the two lists of rules
  differ, and no header replaces another. Equal hashes mean equal normalised requests.
* **Attempts.** An attempt that outlasts its lease was stalled for the difference of
  lease and timeout: no sequence of slow DNS, secret, connection and response does it.
  A success belongs to its own generation. Retries are due within an hour and within
  the window, and nothing is given up more than an hour before its deadline, both up to
  the error of the Worker's clock. Only addresses that passed the check are dialled.
* **Broker and consumer.** Before the first error on a connection, nil from `Publish`
  or `Defer` means the message is in its queue; a broker of which one call failed is
  closed and replaced. In any mixture of failures every signal is settled once or
  redelivered, unless its `Defer` took another's confirmation (`EverySignalKept`), and a
  `Run` whose context is cancelled returns (`RunReturns`). If `Close` returns too, malformed
  messages end in the dead-letter queue and signals without capacity do not keep the others
  from being processed.
* **Limiter.** The permits of two sends are never granted closer together than the
  interval in force at the first; what passes between a grant and its send, the claim, is
  outside the limiter. Its counter is the number of permits held, and no goroutine is admitted beyond the concurrency of the version it asked for.

### What the code does not do

`resumes` fails. The channel of confirmations has room for one
(`internal/dispatch/rabbit.go:89`). When a failing call cancels `runContext`, two
goroutines can give up on their `Defer` one after the other (`rabbit.go:229`), and the
second confirmation nobody reads blocks the reader goroutine of the client library.
`Close` then waits for an answer behind it, and `runWorker` does not connect again.
`docs/capacity-report.md:74` says of a PostgreSQL restart that "processing resumes
after readiness returns", and `internal/worker/rabbit_test.go:107` expects a failing
call to "interrupt consumer for reconnect backoff".

A call that gave up leaves a second trace. After it a later `Defer` of the same consumer
may take its confirmation (`rabbit.go:216`) and return nil for a message that is not
stored, and `processMessage` acknowledges the original. `docs/architecture.md:41-43` says
the replacement is confirmed before the original is acknowledged, "without dropping the
signal". It takes a `Defer` that gave up and another one before `Run` has returned, and the
signal is missing only until the watchdog publishes it again. The models have this outcome; `~r.failed` in `NilMeansStored` and `dropped` in
`NoSignalDropped` and `EverySignalKept` say how far the promise holds.

Three smaller observations, met while modelling and reflected in how the properties
above are stated:

* `ScheduleDueRetries` (`internal/delivery/scheduling.go:13-21`) takes `pending` to
  `failed_permanent` when the retry deadline passes; `docs/architecture.md:141-151`
  lists the allowed transitions without it. `DeliveryLifecycle` has it as `GivenUp`.
* The request hash contains the destination version (`http.go:157`), so a request
  repeated after `Bootstrap` published another one is answered with a conflict, where
  `docs/architecture.md:267` says "Retry returns the original task"; hence `a.stable`
  in `RetryReturnsOriginalOfVersion`.
* The version is read before the transaction (`store.go:81`), so it was current during
  the request but perhaps not at acceptance, as `docs/product-spec.md:25-26` has it;
  hence "was" in `BoundVersionWasCurrent`.

### Bounds

`MaxTime`, `LastOpening`, `MaxGeneration`, `MaxFaults`, `LastFault`, `MaxSequence`,
`MaxMessages`, `MaxDeliveries`, `MaxAnswers`, `MaxClock` and `MaxStall` are bounds of
the models, not of the program. Durations are 1 to 4 ticks and keep the
relations that matter: a lease can expire before the retry window ends and after it,
retention passes within the run where it is about deletion, and the watchdog's age can
pass while a message is under way. One delivery is enough where a property speaks of
one row, because no statement lets one delivery's row influence another's except
through the backlog count, the key lookup and the batch limits; those have a run with
two deliveries and batches of one. The proofs have none of these limits on the number
of deliveries, clients and messages. In the run `decided` faults stop at time 0 so that
the watchdog, whose age is one tick, can act before the clock stops. `MaxGeneration`
bounds supplier retries and replays, not lease recovery.

`MaxFaults` counts what fails of itself; the goroutines that fail because their context is
cancelled come on top. In `pipeline` one fault is therefore enough for a `Defer` that takes
another's confirmation and for a blocked `Close`. In `decided`, where a process has one
goroutine, neither happens, and what is dropped is dropped by the broker: a stale
confirmation at time 0 takes two goroutines and a copy too many, so two faults. That instance
(`Process = {v1}`, `Goroutine = {g1, g2}`, `MaxFaults = 2`) satisfies `EveryDeliveryDecided`
as well, with 305,564 states, but takes five minutes and is not among the runs.

Three callers and four messages let one goroutine wait, one give up and one publish on
the same connection, before and after a reconnection. Two busy signals take all the credit
of a consumer for two, and both can be in their `Defer` when a call fails. Two deliveries, versions and requests are what a lost
answer, a freed key and a version change between two statements need. In
`OutboundAttempt` the two ticks of stalling are more than the difference between lease
and timeout, so that leases do expire under a goroutine, and `Retry-After` is absent,
beyond the hour, and a date that may be past or far.

Deadlock is not checked for `Notifier`, `DestinationLimiter` and `OutboundAttempt`,
which stop when their bounds are used up, nor for `RequestRules`, which handles one
request, nor for `SignalConsumer`, which has nothing to do once every message is finished,
dead-lettered or dropped.

### Fairness

`FairSpec` assumes that the clock advances and that the Retry Scheduler and the Lease
Reconciler run again and again and then find the rows they select unlocked
(`runMaintenanceLoop` never leaves its loop except on shutdown, and logs errors and
goes on). `FairNotifierSpec` adds weak fairness of each Publisher, goroutine and
consumer restart (loops of `runPublisher` and `runWorker`) and of message delivery and
TTL by RabbitMQ. A restart comes after `Close`, which need not return: `RunReturns` of
`Notifier` and `Restarts` of `SignalConsumer` are not enabled while `CloseBlocked`, and what
depends on them (`EveryDeliveryDecided`, `PoisonIsRemoved`, `CreditIsReleased`) is stated
under `CloseReturns`, that no `Close` stays blocked for good. `DeferrerLost`, the end of the
connection that would release it, has no fairness. Two assumptions are strong fairness. `WatchdogUpdate`: a watchdog
statement that again and again could reset a silent event is not again and again kept
from it by `SKIP LOCKED`. `Acquires`: a goroutine that finds a free permit again and
again is not refused each time because of the rate; every deferral takes at least
250 ms and rates are positive. No fairness is assumed of API calls, or of suppliers
beyond each send returning some result, which its request timeout guarantees.

`RetentionSpec` adds the retention loop, which deletes batch after batch
(`drainRetention`). `FairBrokerSpec` lets RabbitMQ answer, the reader read while
the Go channels have room, goroutines run, and the loops of `runPublisher` and
`runWorker` close and connect. `SignalConsumer!FairSpec` lets goroutines, `Run` and
`runWorker` run and deferred messages expire; a message that again and again finds
credit is delivered (strong fairness), as RabbitMQ hands out a queue in order. Faults,
cancellations and lost connections have no fairness.

## Proofs

TLAPS checks the following for every value of the constants, under named assumptions:
durations are positive and limits are naturals (`DurationAssumption`,
`LimitAssumption`, `NotifierAssumption`, `AdmissionAssumption`, `ConsumerAssumption`,
`MessageAssumption`, `HourAssumption`); NULL is no value of a column, permit, caller or
message (`NullAssumption`, `RowAssumption`, `NoPermit`, `CallerAssumption`); finitely
many goroutines share a limiter (`LimiterAssumption`); the request timeout is shorter
than the lease, and addresses and Retry-After values are what the code can meet
(`AttemptAssumption`); requests are what the API decodes (`RulesAssumption`). TLC
evaluates each of them in a run.

### The store and the pipeline

* `Invariance`: `Spec => []IInv`. `OneLeasePerGeneration` alone is not inductive: to
  see that a claim of a pending generation is its first, one needs that each earlier
  grant of that generation is in the row or in an attempt (`EveryLeaseAccountedFor`),
  that a pending row has no lease (`LeaseTupleConsistent`), and that attempts are for
  generations already left behind (`AttemptsInGenerationOrder`). `NoEarlySignal` and
  `AuditsReached` bound signals and audits by the generation, which is why replay's
  inserts are fresh; `FirstSignalExists` and `PublishedIsUnleased` give
  `PendingIsReachable`; `MissingIsEmpty` covers ids not yet used and rows deleted by
  retention. There is one lemma per action.
* From it: `TypeCorrect`, `LeasedOnce`, `LeasesAccountedFor`, `AttemptsOrdered`,
  `SignalsNotEarly`, `ReplayInsertsFresh`, `PendingReachable`, and the action properties
  `Fencing` (`LeaseProtectsRow`) and `OutboxFencing` (`OutboxLeaseProtectsEvent`). The
  latter goes action by action: `ClaimOutbox` and the watchdog pass an event with an
  unexpired lease over, inserts and observations leave its lease alone, and a mark or a
  release uses up a handle with the token of the lease.
* `KeysUnique`: only `Submit` creates a live row or gives it a key, and it looks for
  live rows with that key in the same transaction.
* `BacklogBounded`: `BacklogInv` adds that the set of active deliveries is finite, so
  that the count exists. `Submit` adds one to fewer than the limit, `Replay` adds one
  with an audit, every other statement adds none (`RowsKept`).
* `StoreImplementsLifecycle`: `Spec => ImplementsLifecycle`. Lemmas say what a change
  of one row, its attempts and its audits is in the life of its delivery: a result
  appended with the row that goes with it ends the attempt (`ResultMoves`), a reopening
  comes with its audit (`ReplayReopens`), and so on. Then one lemma per statement shows
  it makes such changes, for every row of its batch, and leaves the others alone.
  `IInv` is needed for the types of rows and attempts, for the lease of a delivering
  row (`LeaseTupleConsistent`) whose token recovery records, and for `Submit`, which
  must find no history under a new id (`MissingIsEmpty`).
* `NotifierInvariance`, `ProcessesHoldTheirOwn`: goroutines that send hold distinct
  leases that are still in flight, Publishers mark events of their own batch, queues
  hold signals.
* `PipelineImplementsStore`: every step of `Notifier` is a step of `DeliveryStore` or
  leaves its variables alone. The invariants of the pipeline are what it needs: a
  result is reported with a grant in `inflight`, a mark with a handle in `handles`.
  `OneSendPerGeneration` carries the store's theorem over to the composed system, and
  `PipelineImplementsLifecycle` composes the two refinements.
* `NoSignalIsDropped`: `NoSignalDropped` speaks of events recorded as published, which is
  too late for an induction. `SignalsInv` says it from the confirmation on: an awaited
  signal the broker confirmed, marked or not yet, has a copy that is in a queue or held
  by a goroutine that has not decided on it (`ConfirmedIsCarried`). It needs that queues
  count at least one copy of each signal they list (`CopiesCounted`) and that a
  Publisher's handle is for an event that exists unless retention removed it
  (`HandlesNotAhead`). The lemma `AwaitedStep` goes through the statements of the store
  and shows which of them make a signal awaited anew: none whose event is already
  published. When a goroutine ends, the broker requeues as many copies as it held,
  finitely many because of the prefetch limit (`RequeuedCopies`, `FewGoroutines`). A signal
  in `dropped` is exempt until it is published again, which gives it a copy. That `dropped`
  is empty before the first fault is `NothingFailedYet`: a confirmation is left behind only by
  a call that failed, and without one no `Defer` can take another's.

### RabbitMQ client

* `NilIsStored`: `publishSignal` never compares delivery tags, so the argument is that
  there is nothing to confuse. `UnderWay`: while no call on an open connection has
  failed, either nobody holds the mutex and nothing at all is under way, or exactly the
  holder's message is, as itself or as its answer (`OnlyMessage`, `AnswerOf`). In
  particular a return is in its channel before the acknowledgement that follows it.
* `SignalsAreKept`: `EverySignalKept` counts a goroutine that is about to acknowledge,
  and is not inductive. `Kept` asks for a copy that is not about to be acknowledged, and
  does not count goroutines on a lost channel, whose messages the broker has requeued;
  `TasksFit` says that only what could not be read is rejected. `dropped` is exempt as above,
  and empty before the first fault (`RunInv`): until then nothing is cancelled, no goroutine
  is on an error path and no confirmation is left behind.

### Worker

* `LimiterInvariance`, `Pacing`, `PermitsAccountedFor`: the strengthening
  `ReservationsKept` says that no recorded send's reservation reaches past
  `nextAllowed`, nor past the time any later outstanding permit would restore.
* `ConcurrencyBounded`: a grant comes after all permits outstanding, which are fewer than
  the strictest limit seen, and the permits before an older one do not become more.
* `AttemptInvariance`, and from it `ApprovedDialled`, `SuccessObserved`, `LeaseOutlives`,
  `RetryInTime`, `NotGivenUp`. `AttemptFits` keeps the time account of an attempt: what
  has passed since the claim is at most the time stalled before `attemptContext` was made
  or after it ended, plus `RequestTimeout`; and it remembers the address that was
  checked, the response behind a success and the clock error of `finishedAt`. The number
  of goroutines, the window, the timeouts, and what DNS and the supplier answer are
  arbitrary.

### Admission and requests

* `AdmissionInvariance`, and from it `AcceptedIsTheOriginal`, `BoundVersionCurrent`,
  `BoundVersionStays`, `RetryReturnsOriginal`. `RequestsResolved` carries what a request
  read over to its transaction: the version it was hashed with was current while it was
  under way and admits its content. `RowsBound` and `AnswersFit` tie rows to such
  requests and answers to such rows.
* `RulesInvariance`, `AcceptedSendable`, `SentComplete`: what is stored is what `submit`
  accepted, as it normalised it (`RulesInv`), for requests with any number of headers and
  values of any length. The rules of `Send` then follow from those of `submit`
  (`AcceptedPasses`); trimming adds no line break (`TrimmedCharacters`); an injected
  header that can be sent at all is none of the caller's (`InjectedApart`).
* `HashFaithful`, from its two halves. `HashIgnoresSpelling`: requests that are equal
  after normalisation have equal hashes, which an idempotent retry relies on.
  `HashTellsApart`: requests with equal hashes are equal after normalisation. A field
  begins with its length, so two texts that begin with a field begin with the same one and
  go on alike (`FieldCut`). Hence two runs of the loop over the headers agree header by
  header (`LoopsAgree`), and neither goes on when the other has come to the body, because
  a body is one field and a header is two (`LoopNotLonger`). What the loop wrote names
  every header, because byte order is a strict total order (`BeforeTransitive`,
  `BeforeTotal`) and a finite set of names can be sorted (`Sortable`, `SortedNames`). The
  assumptions: different names, and different methods, have different bytes, and a version
  has at most two digits (`Identified`), the range for which `FormatInt` is written out.

### How the proofs are written

Many leaves cite `Zenon`. It is the backend for first-order reasoning; without the
citation the SMT backend is tried first, which keeps the whole context of each
obligation in memory and slows down with the length of a module. For the same reason
lemmas and theorems about one component may be in two modules. Inductions go over a set of
numbers that has a least element (`FirstOf`, `Upward`) or over the subsets of a finite set
(`SmallestSubset`); `RequestProofs` has names of its own for sequences and concatenation
(`Word`, `Text`, `Join`), which hide them from the provers where only grouping matters.

### Only model-checked

* Liveness (`EveryDeliverySettles`, `EveryRecordExpires`, `EveryDeliveryDecided`,
  `OneFailureEndsWithReconnect`, `PoisonIsRemoved`, `CreditIsReleased`,
  `RunReturns`): fairness is outside TLAPS's reach.

## Not modelled

* The status request (`GET /deliveries/{id}`): it reads the row and its attempts in two
  statements and changes nothing.
* Authentication, JSON and base64 decoding, size limits and the wording of answers of
  the HTTP API: sequential code that decides whether `Submit` or `Replay` is called at
  all. Callers and their API keys in `Bootstrap`.
* Which addresses `forbidden` names, TLS settings, and what the URL parser accepts:
  given as sets to `OutboundAttempt`.
* Metrics, alerts, health and logging: they only read.
* The wiring of the processes in `cmd/notifier/main.go`: its effect, cancellation at any
  point, is the crash of a process.
* Wall clocks that disagree or step back, outside `OutboundAttempt`: the other modules
  have one monotonic clock. A result the `CHECK` on `delivery_attempts` rejects for that
  reason is a Worker that stops.
* `acquire` of the limiter and its `changed` channel: used by tests only. The defaults
  for limits that are not positive: excluded by the schema.
* `cmd/fake-supplier`, `cmd/toolchain-probe`, `internal/toolchain`: test and build
  helpers.
