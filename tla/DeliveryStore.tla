--------------------------- MODULE DeliveryStore ---------------------------
(***************************************************************************)
(* The PostgreSQL side of reliable-notifier: the tables deliveries,        *)
(* outbox_events, delivery_attempts and replay_audits, and one action per  *)
(* operation of delivery.Store that writes them.                           *)
(*                                                                         *)
(* The clients of the store are as general as the operations let them be:  *)
(* any number of Workers may sit on a lease they were granted and report a *)
(* result at any later moment, or never (a crash); Publishers do the same  *)
(* with the Outbox rows they claimed.  Module Notifier replaces these      *)
(* clients by the Publisher, broker and Worker of the program.             *)
(*                                                                         *)
(* Every operation is one PostgreSQL statement or transaction whose rows   *)
(* are locked while it runs, so it is one atomic step.  The exception is   *)
(* ReconcileStalledSignals, which decides on delivery rows it does not     *)
(* lock: it is split into the snapshot it reads and the update it makes.   *)
(* ObserveSignal reads its delivery row in the same way, but all a late    *)
(* update of its changes is an observed_at nobody reads any more.          *)
(***************************************************************************)
EXTENDS Naturals, FiniteSets, Sequences

CONSTANTS
  Delivery,          \* delivery ids that may be minted (newUUID in Submit)
  Key,               \* (caller_id, idempotency_key) pairs
  Owner,             \* WORKER_ID values
  Publisher,         \* owners minted by runPublisher
  Token,             \* lease tokens of Worker claims
  BatchToken,        \* lease tokens of Outbox claims
  NULL,              \* the SQL NULL
  LeaseDuration,     \* Worker lease, 90 s
  PublisherLease,    \* Outbox lease, 30 s
  RetryWindow,       \* 24 h from acceptance or from replay
  WatchdogAge,       \* age at which a silent signal is republished, 1 min
  SuccessRetention,  \* 7 days
  FailureRetention,  \* 30 days
  BacklogLimit,      \* admission limit on pending plus delivering
  BatchSize,         \* LIMIT of the batched statements
  MaxLag,            \* how far a timestamp taken before a lock wait may lag
  MaxTime,           \* bound: the clock stops here
  LastOpening,       \* bound: retry windows are opened up to this time
  MaxGeneration      \* bound: supplier retries and replays stop here

ASSUME DurationAssumption ==
  /\ LeaseDuration \in Nat \ {0}
  /\ PublisherLease \in Nat \ {0}
  /\ RetryWindow \in Nat \ {0}
  /\ WatchdogAge \in Nat \ {0}
  /\ SuccessRetention \in Nat \ {0}
  /\ FailureRetention \in Nat \ {0}

ASSUME LimitAssumption ==
  /\ BacklogLimit \in Nat \ {0}
  /\ BatchSize \in Nat \ {0}
  /\ MaxLag \in Nat
  /\ MaxTime \in Nat
  /\ LastOpening \in Nat
  /\ MaxGeneration \in Nat

VARIABLES
  now,                \* clock_timestamp()
  deliveries,         \* deliveries[d]: the row of delivery d
  outbox_events,      \* outbox_events[<<d, g>>]: partial function on UNIQUE(delivery_id, generation)
  delivery_attempts,  \* delivery_attempts[d]: rows in insertion order
  replay_audits,      \* replay_audits[d]: set of (from, to) generations
  grants,             \* every Worker lease ever granted (history)
  inflight,           \* the grants some Worker still holds in memory
  handles,            \* the claimed events some Publisher still holds in memory
  stalled             \* rows in the snapshot of a running ReconcileStalledSignals

tables == <<deliveries, outbox_events, delivery_attempts, replay_audits>>
clients == <<grants, inflight, handles, stalled>>
vars == <<now, deliveries, outbox_events, delivery_attempts, replay_audits,
          grants, inflight, handles, stalled>>

-----------------------------------------------------------------------------
(***************************************************************************)
(* Rows.                                                                   *)
(***************************************************************************)

Status == {"pending", "delivering", "succeeded", "failed_permanent"}
Active == {"pending", "delivering"}
Terminal == {"succeeded", "failed_permanent"}

\* An id not yet minted, and one removed by retention: ids are never reused.
Missing == {"absent", "deleted"}

ResultClass == {"succeeded", "retryable_failure", "permanent_failure"}

Lease == [owner : Owner, token : Token, until : Nat]
BatchLease == [owner : Publisher, token : BatchToken, until : Nat]

DeliveryRow ==
  [status : Status \cup Missing, key : Key \cup {NULL}, generation : Nat,
   next_attempt_at : Nat, retry_deadline : Nat, updated_at : Nat,
   lease : Lease \cup {NULL}]

OutboxRow ==
  [available_at : Nat, published_at : Nat \cup {NULL},
   observed_at : Nat \cup {NULL}, lease : BatchLease \cup {NULL}]

AttemptRow == [generation : Nat, lease_token : Token, result_class : ResultClass]
AuditRow == [from_generation : Nat, to_generation : Nat]
Grant == [delivery : Delivery, generation : Nat, owner : Owner, token : Token]
Handle == [delivery : Delivery, generation : Nat, owner : Publisher, token : BatchToken]

ASSUME NullAssumption ==
  NULL \notin Lease \cup BatchLease \cup Nat \cup Key \cup Grant \cup Handle

NoRow(status) ==
  [status |-> status, key |-> NULL, generation |-> 0, next_attempt_at |-> 0,
   retry_deadline |-> 0, updated_at |-> 0, lease |-> NULL]

NewEvent(available) ==
  [available_at |-> available, published_at |-> NULL, observed_at |-> NULL,
   lease |-> NULL]

Live(d) == deliveries[d].status \in Status
ActiveSet == {d \in Delivery : deliveries[d].status \in Active}

\* The key of the Outbox event that signals the current generation of d.
Current(d) == <<d, deliveries[d].generation>>
Signals == DOMAIN outbox_events

\* A statement with LIMIT ... FOR UPDATE SKIP LOCKED works on some batch of the
\* qualifying rows: at most LIMIT of them, less the rows other transactions
\* hold locked at that moment.
Batches(rows) == {batch \in SUBSET rows : Cardinality(batch) <= BatchSize}

\* The batch of a statement that finds no row locked.
FullBatch(rows, batch) == Cardinality(batch) = BatchSize \/ batch = rows

\* INSERT INTO outbox_events ... ON CONFLICT (delivery_id, generation) DO NOTHING
InsertEvents(new) == [s \in Signals \cup DOMAIN new |->
                        IF s \in Signals THEN outbox_events[s] ELSE new[s]]

\* The clock_timestamp() or time.Now() read before waiting for a lock.
Lagging(t) == t <= now /\ now <= t + MaxLag

-----------------------------------------------------------------------------
(***************************************************************************)
(* Initial state: migrated, empty tables.                                  *)
(***************************************************************************)

Init ==
  /\ now = 0
  /\ deliveries = [d \in Delivery |-> NoRow("absent")]
  /\ outbox_events = [s \in {} |-> NewEvent(0)]
  /\ delivery_attempts = [d \in Delivery |-> <<>>]
  /\ replay_audits = [d \in Delivery |-> {}]
  /\ grants = {}
  /\ inflight = {}
  /\ handles = {}
  /\ stalled = {}

Tick ==
  /\ now < MaxTime
  /\ now' = now + 1
  /\ UNCHANGED <<tables, clients>>

(***************************************************************************)
(* Admission.  The advisory lock serialises Submit with itself, so lookup, *)
(* count and inserts are one step.  The lookup of an existing key and the  *)
(* two rejections write nothing.                                           *)
(***************************************************************************)

\* Mutant: the lookup skips terminal deliveries.
KeyIsFreeAmongActive(k) == \A other \in ActiveSet : deliveries[other].key # k

KeyIsFree(k) == \A other \in Delivery : Live(other) => deliveries[other].key # k

\* Mutant: delivering rows are not counted.
BacklogOfPending ==
  Cardinality({d \in Delivery : deliveries[d].status = "pending"}) < BacklogLimit

BacklogHasRoom == Cardinality(ActiveSet) < BacklogLimit

Submit(d, k, acceptedAt) ==
  /\ now <= LastOpening
  /\ Lagging(acceptedAt)
  /\ KeyIsFree(k)
  /\ BacklogHasRoom
  /\ deliveries[d].status = "absent"
  /\ deliveries' = [deliveries EXCEPT ![d] =
       [status |-> "pending", key |-> k, generation |-> 0,
        next_attempt_at |-> acceptedAt,
        retry_deadline |-> acceptedAt + RetryWindow,
        updated_at |-> now, lease |-> NULL]]
  /\ outbox_events' = InsertEvents([s \in {<<d, 0>>} |-> NewEvent(acceptedAt)])
  /\ UNCHANGED <<now, delivery_attempts, replay_audits, clients>>

(***************************************************************************)
(* Worker operations.                                                      *)
(***************************************************************************)

\* The predicate EligibleDestination, ObserveSignal and ClaimDelivery share.
Claimable(d, g) ==
  /\ deliveries[d].status = "pending"
  /\ deliveries[d].generation = g
  /\ deliveries[d].next_attempt_at <= now
  /\ deliveries[d].retry_deadline > now

Observed(event) == [event EXCEPT !.observed_at = now]

ObserveSignal(d, g) ==
  /\ Claimable(d, g)
  /\ <<d, g>> \in Signals
  /\ outbox_events' = [outbox_events EXCEPT ![<<d, g>>] = Observed(outbox_events[<<d, g>>])]
  /\ UNCHANGED <<now, deliveries, delivery_attempts, replay_audits, clients>>

Leased(row, owner, token) ==
  [row EXCEPT !.status = "delivering",
              !.lease = [owner |-> owner, token |-> token, until |-> now + LeaseDuration],
              !.updated_at = now]

ClaimDelivery(d, g, owner, token) ==
  /\ Claimable(d, g)
  /\ \A grant \in grants : grant.token # token
  /\ deliveries' = [deliveries EXCEPT ![d] = Leased(deliveries[d], owner, token)]
  /\ LET grant == [delivery |-> d, generation |-> g, owner |-> owner, token |-> token]
     IN  /\ grants' = grants \cup {grant}
         /\ inflight' = inflight \cup {grant}
  /\ UNCHANGED <<now, outbox_events, delivery_attempts, replay_audits, handles, stalled>>

\* Mutant: fenced by the owner alone, a WORKER_ID that survives restarts.
LeaseHeldByOwner(grant) ==
  LET row == deliveries[grant.delivery]
  IN  /\ row.status = "delivering"
      /\ row.lease.owner = grant.owner
      /\ row.lease.until > now

\* The fencing predicate of completeResult.
LeaseHeld(grant) ==
  LET row == deliveries[grant.delivery]
  IN  /\ row.status = "delivering"
      /\ row.generation = grant.generation
      /\ row.lease.owner = grant.owner
      /\ row.lease.token = grant.token
      /\ row.lease.until > now

Attempt(grant, class) ==
  [generation |-> grant.generation, lease_token |-> grant.token, result_class |-> class]

\* The row completeResult leaves: status by result class, lease cleared.
Completed(row, status) ==
  [row EXCEPT !.status = status, !.lease = NULL, !.updated_at = now]

Retried(row, nextAttemptAt) ==
  [Completed(row, "pending") EXCEPT !.generation = row.generation + 1,
                                    !.next_attempt_at = nextAttemptAt]

\* The fenced update, and the attempt row in the same transaction.
completeResult(grant, class, row) ==
  /\ LeaseHeld(grant)
  /\ deliveries' = [deliveries EXCEPT ![grant.delivery] = row]
  /\ delivery_attempts' = [delivery_attempts EXCEPT ![grant.delivery] =
       Append(delivery_attempts[grant.delivery], Attempt(grant, class))]
  /\ inflight' = inflight \ {grant}
  /\ UNCHANGED <<now, outbox_events, replay_audits, grants, handles, stalled>>

CompleteSuccess(grant) ==
  completeResult(grant, "succeeded", Completed(deliveries[grant.delivery], "succeeded"))

CompletePermanent(grant) ==
  completeResult(grant, "permanent_failure",
                 Completed(deliveries[grant.delivery], "failed_permanent"))

\* The attempt ran between the claim (updated_at) and now, and the delay added
\* to its end is not negative: nextAttemptAt never precedes the claim.
CompleteRetry(grant, nextAttemptAt) ==
  /\ deliveries[grant.delivery].generation < MaxGeneration
  /\ nextAttemptAt >= deliveries[grant.delivery].updated_at
  /\ nextAttemptAt < deliveries[grant.delivery].retry_deadline
  /\ completeResult(grant, "retryable_failure",
                    Retried(deliveries[grant.delivery], nextAttemptAt))

\* ErrWorkerLeaseLost: the result of a Worker that lost its lease is discarded.
DiscardResult(grant) ==
  /\ ~LeaseHeld(grant)
  /\ inflight' = inflight \ {grant}
  /\ UNCHANGED <<now, tables, grants, handles, stalled>>

\* A Worker crash, or an error instead of the outcome of a committed claim.
WorkerStops(lost) ==
  /\ inflight' = inflight \ lost
  /\ UNCHANGED <<now, tables, grants, handles, stalled>>

(***************************************************************************)
(* Retry Scheduler and Lease Reconciler.                                   *)
(***************************************************************************)

\* Mutant: first attempts never expire.
RetryExpiredAfterFirst == {d \in Delivery : /\ deliveries[d].status = "pending"
                                            /\ deliveries[d].generation > 0
                                            /\ deliveries[d].retry_deadline <= now}

RetryExpired == {d \in Delivery : /\ deliveries[d].status = "pending"
                                  /\ deliveries[d].retry_deadline <= now}

\* Mutant: next_attempt_at is not awaited.
RetryDueAtOnce == {d \in Delivery : /\ deliveries[d].status = "pending"
                                    /\ deliveries[d].generation > 0
                                    /\ deliveries[d].retry_deadline > now
                                    /\ Current(d) \notin Signals}

RetryDue == {d \in Delivery : /\ deliveries[d].status = "pending"
                              /\ deliveries[d].generation > 0
                              /\ deliveries[d].next_attempt_at <= now
                              /\ deliveries[d].retry_deadline > now
                              /\ Current(d) \notin Signals}

Exhausted(row) == [row EXCEPT !.status = "failed_permanent", !.updated_at = now]

\* The expired rows are updated without LIMIT, the due ones in a batch.
ScheduleDueRetries(batch) ==
  /\ batch \in Batches(RetryDue)
  /\ deliveries' = [d \in Delivery |->
       IF d \in RetryExpired THEN Exhausted(deliveries[d]) ELSE deliveries[d]]
  /\ outbox_events' = InsertEvents([s \in {Current(d) : d \in batch} |->
                                      NewEvent(deliveries[s[1]].next_attempt_at)])
  /\ UNCHANGED <<now, delivery_attempts, replay_audits, clients>>

\* Mutant: recovery does not wait for lease_until.
LeaseExpiredEarly == {d \in Delivery : deliveries[d].status = "delivering"}

LeaseExpired == {d \in Delivery : /\ deliveries[d].status = "delivering"
                                  /\ deliveries[d].lease.until <= now}

\* Mutant: recovery offers the lost generation again.
RecoveredSameGeneration(row) ==
  [Completed(row, IF row.retry_deadline <= now THEN "failed_permanent" ELSE "pending")
     EXCEPT !.next_attempt_at = now]

\* Mutant: a delivery that fails on recovery also advances its generation.
RecoveredAlwaysAdvances(row) ==
  [Retried(row, now) EXCEPT
     !.status = IF row.retry_deadline <= now THEN "failed_permanent" ELSE "pending"]

Recovered(row) ==
  IF row.retry_deadline <= now
  THEN [Completed(row, "failed_permanent") EXCEPT !.next_attempt_at = now]
  ELSE Retried(row, now)

RecoveryAttempt(row) ==
  [generation |-> row.generation, lease_token |-> row.lease.token,
   result_class |-> IF row.retry_deadline <= now THEN "permanent_failure"
                                                 ELSE "retryable_failure"]

\* Mutant: recovery records no attempts.
RecoverWithoutAttempts(batch) ==
  /\ batch \in Batches(LeaseExpired)
  /\ deliveries' = [d \in Delivery |->
       IF d \in batch THEN Recovered(deliveries[d]) ELSE deliveries[d]]
  /\ LET retried == {d \in batch : deliveries[d].retry_deadline > now}
     IN  outbox_events' = InsertEvents(
           [s \in {<<d, deliveries[d].generation + 1>> : d \in retried} |-> NewEvent(now)])
  /\ UNCHANGED <<now, delivery_attempts, replay_audits, clients>>

\* Mutant: deliveries that failed on recovery are signalled as well.
RecoverSignallingAll(batch) ==
  /\ batch \in Batches(LeaseExpired)
  /\ deliveries' = [d \in Delivery |->
       IF d \in batch THEN Recovered(deliveries[d]) ELSE deliveries[d]]
  /\ delivery_attempts' = [d \in Delivery |->
       IF d \in batch THEN Append(delivery_attempts[d], RecoveryAttempt(deliveries[d]))
                      ELSE delivery_attempts[d]]
  /\ outbox_events' = InsertEvents(
       [s \in {<<d, deliveries[d].generation + 1>> : d \in batch} |-> NewEvent(now)])
  /\ UNCHANGED <<now, replay_audits, clients>>

RecoverExpiredDeliveries(batch) ==
  /\ batch \in Batches(LeaseExpired)
  /\ deliveries' = [d \in Delivery |->
       IF d \in batch THEN Recovered(deliveries[d]) ELSE deliveries[d]]
  /\ delivery_attempts' = [d \in Delivery |->
       IF d \in batch THEN Append(delivery_attempts[d], RecoveryAttempt(deliveries[d]))
                      ELSE delivery_attempts[d]]
  /\ LET retried == {d \in batch : deliveries[d].retry_deadline > now}
     IN  outbox_events' = InsertEvents(
           [s \in {<<d, deliveries[d].generation + 1>> : d \in retried} |-> NewEvent(now)])
  /\ UNCHANGED <<now, replay_audits, clients>>

(***************************************************************************)
(* Signal watchdog.  FOR UPDATE OF event locks and rechecks the event row  *)
(* only; the delivery row is the one of the statement's snapshot, and may  *)
(* have been claimed, completed or deleted by the time the event changes.  *)
(***************************************************************************)

\* Mutant: a signal once observed is never republished.
EventSilentUnobserved(event) ==
  /\ event.published_at # NULL
  /\ event.published_at + WatchdogAge <= now
  /\ event.observed_at = NULL
  /\ event.lease = NULL

EventSilent(event) ==
  /\ event.published_at # NULL
  /\ event.published_at + WatchdogAge <= now
  /\ event.observed_at = NULL \/ event.observed_at + WatchdogAge <= now
  /\ event.lease = NULL

StalledSignals == {s \in Signals : /\ Claimable(s[1], s[2])
                                   /\ EventSilent(outbox_events[s])}

ReconcileSnapshot ==
  /\ stalled = {}
  /\ stalled' = StalledSignals
  /\ UNCHANGED <<now, tables, grants, inflight, handles>>

ReconcileStalledSignals(batch) ==
  /\ stalled # {}
  /\ batch \in Batches({s \in stalled \cap Signals : EventSilent(outbox_events[s])})
  /\ outbox_events' = [s \in Signals |->
       IF s \in batch THEN NewEvent(now) ELSE outbox_events[s]]
  /\ stalled' = {}
  /\ UNCHANGED <<now, deliveries, delivery_attempts, replay_audits, grants, inflight, handles>>

(***************************************************************************)
(* Audited replay, and retention with its ON DELETE CASCADE.               *)
(***************************************************************************)

\* Replay inserts without ON CONFLICT: an existing row aborts the transaction.
ReplayInsertable(d) ==
  LET to == deliveries[d].generation + 1
  IN  /\ <<d, to>> \notin Signals
      /\ \A audit \in replay_audits[d] : audit.to_generation # to

Replayed(row, replayedAt) ==
  [row EXCEPT !.status = "pending", !.generation = row.generation + 1,
              !.next_attempt_at = replayedAt,
              !.retry_deadline = replayedAt + RetryWindow,
              !.lease = NULL, !.updated_at = replayedAt]

Replay(d, replayedAt) ==
  /\ now <= LastOpening
  /\ Lagging(replayedAt)
  /\ deliveries[d].status = "failed_permanent"
  /\ deliveries[d].generation < MaxGeneration
  /\ ReplayInsertable(d)
  /\ deliveries' = [deliveries EXCEPT ![d] = Replayed(deliveries[d], replayedAt)]
  /\ LET from == deliveries[d].generation
         audit == [from_generation |-> from, to_generation |-> from + 1]
     IN  /\ replay_audits' = [replay_audits EXCEPT ![d] = replay_audits[d] \cup {audit}]
         /\ outbox_events' = InsertEvents([s \in {<<d, from + 1>>} |-> NewEvent(replayedAt)])
  /\ UNCHANGED <<now, delivery_attempts, clients>>

\* Mutant: deliveries that failed are never old enough.
RetentionExpiredSucceeded == {d \in Delivery :
  deliveries[d].status = "succeeded" /\ deliveries[d].updated_at + SuccessRetention <= now}

RetentionExpired == {d \in Delivery :
  \/ deliveries[d].status = "succeeded" /\ deliveries[d].updated_at + SuccessRetention <= now
  \/ deliveries[d].status = "failed_permanent" /\ deliveries[d].updated_at + FailureRetention <= now}

\* Mutant: outbox_events has no ON DELETE CASCADE.
DeleteKeepingEvents(batch) ==
  /\ batch \in Batches(RetentionExpired)
  /\ deliveries' = [d \in Delivery |->
       IF d \in batch THEN NoRow("deleted") ELSE deliveries[d]]
  /\ delivery_attempts' = [d \in Delivery |-> IF d \in batch THEN <<>> ELSE delivery_attempts[d]]
  /\ replay_audits' = [d \in Delivery |-> IF d \in batch THEN {} ELSE replay_audits[d]]
  /\ UNCHANGED <<now, outbox_events, clients>>

DeleteExpiredTerminal(batch) ==
  /\ batch \in Batches(RetentionExpired)
  /\ deliveries' = [d \in Delivery |->
       IF d \in batch THEN NoRow("deleted") ELSE deliveries[d]]
  /\ outbox_events' = [s \in {e \in Signals : e[1] \notin batch} |-> outbox_events[s]]
  /\ delivery_attempts' = [d \in Delivery |-> IF d \in batch THEN <<>> ELSE delivery_attempts[d]]
  /\ replay_audits' = [d \in Delivery |-> IF d \in batch THEN {} ELSE replay_audits[d]]
  /\ UNCHANGED <<now, clients>>

(***************************************************************************)
(* Outbox leases.                                                          *)
(***************************************************************************)

\* Mutant: published events are claimed again.
OutboxClaimableAgain == {s \in Signals :
  /\ outbox_events[s].available_at <= now
  /\ outbox_events[s].lease = NULL \/ outbox_events[s].lease.until <= now}

OutboxClaimable == {s \in Signals :
  /\ outbox_events[s].published_at = NULL
  /\ outbox_events[s].available_at <= now
  /\ outbox_events[s].lease = NULL \/ outbox_events[s].lease.until <= now}

FreshBatchToken(token) ==
  /\ \A h \in handles : h.token # token
  /\ \A s \in Signals : outbox_events[s].lease # NULL => outbox_events[s].lease.token # token

BatchLeased(event, owner, token) ==
  [event EXCEPT !.lease = [owner |-> owner, token |-> token, until |-> now + PublisherLease]]

ClaimOutbox(batch, owner, token) ==
  /\ batch \in Batches(OutboxClaimable)
  /\ batch # {}
  /\ FreshBatchToken(token)
  /\ outbox_events' = [s \in Signals |->
       IF s \in batch THEN BatchLeased(outbox_events[s], owner, token) ELSE outbox_events[s]]
  /\ handles' = handles \cup {[delivery |-> s[1], generation |-> s[2],
                               owner |-> owner, token |-> token] : s \in batch}
  /\ UNCHANGED <<now, deliveries, delivery_attempts, replay_audits, grants, inflight, stalled>>

\* Mutant: the token is not compared.
HandleMatchesOwner(h) ==
  LET s == <<h.delivery, h.generation>>
  IN  /\ s \in Signals
      /\ outbox_events[s].published_at = NULL
      /\ outbox_events[s].lease # NULL
      /\ outbox_events[s].lease.owner = h.owner

\* The conditions MarkOutboxPublished and ReleaseOutbox share.
HandleMatches(h) ==
  LET s == <<h.delivery, h.generation>>
  IN  /\ s \in Signals
      /\ outbox_events[s].published_at = NULL
      /\ outbox_events[s].lease # NULL
      /\ outbox_events[s].lease.owner = h.owner
      /\ outbox_events[s].lease.token = h.token

Published(event) ==
  [event EXCEPT !.published_at = now, !.observed_at = NULL, !.lease = NULL]

Released(event) == [event EXCEPT !.lease = NULL]

\* Called once the broker confirmed; without a match it is ErrOutboxLeaseLost,
\* which writes nothing and leaves the handle to ReleaseOutbox.
MarkOutboxPublished(h) ==
  LET s == <<h.delivery, h.generation>>
  IN  /\ HandleMatches(h)
      /\ outbox_events[s].lease.until > now
      /\ outbox_events' = [outbox_events EXCEPT ![s] = Published(outbox_events[s])]
      /\ handles' = handles \ {h}
      /\ UNCHANGED <<now, deliveries, delivery_attempts, replay_audits, grants, inflight, stalled>>

ReleaseOutbox(h) ==
  /\ outbox_events' = [s \in Signals |->
       IF HandleMatches(h) /\ s = <<h.delivery, h.generation>>
       THEN Released(outbox_events[s])
       ELSE outbox_events[s]]
  /\ handles' = handles \ {h}
  /\ UNCHANGED <<now, deliveries, delivery_attempts, replay_audits, grants, inflight, stalled>>

\* A Publisher crash, or a release that failed.
PublisherStops(lost) ==
  /\ handles' = handles \ lost
  /\ UNCHANGED <<now, tables, grants, inflight, stalled>>

-----------------------------------------------------------------------------
(***************************************************************************)
(* The specification.                                                      *)
(***************************************************************************)

Recent == {t \in 0..now : Lagging(t)}

ApiStep ==
  \/ \E d \in Delivery, k \in Key, t \in Recent : Submit(d, k, t)
  \/ \E d \in Delivery, t \in Recent : Replay(d, t)

WorkerStep ==
  \/ \E s \in Signals : ObserveSignal(s[1], s[2])
  \/ \E d \in Delivery, owner \in Owner, token \in Token :
       ClaimDelivery(d, deliveries[d].generation, owner, token)
  \/ \E grant \in inflight :
       \/ CompleteSuccess(grant)
       \/ CompletePermanent(grant)
       \/ \E t \in 0..MaxTime : CompleteRetry(grant, t)
       \/ DiscardResult(grant)
  \/ \E lost \in SUBSET inflight : WorkerStops(lost)

PublisherStep ==
  \/ \E batch \in SUBSET Signals, owner \in Publisher, token \in BatchToken :
       ClaimOutbox(batch, owner, token)
  \/ \E h \in handles : MarkOutboxPublished(h) \/ ReleaseOutbox(h)
  \/ \E lost \in SUBSET handles : PublisherStops(lost)

MaintenanceStep ==
  \/ \E batch \in SUBSET Delivery :
       \/ ScheduleDueRetries(batch)
       \/ RecoverExpiredDeliveries(batch)
       \/ DeleteExpiredTerminal(batch)
  \/ ReconcileSnapshot
  \/ \E batch \in SUBSET Signals : ReconcileStalledSignals(batch)

Next == Tick \/ ApiStep \/ WorkerStep \/ PublisherStep \/ MaintenanceStep

Spec == Init /\ [][Next]_vars

\* The Retry Scheduler and the Lease Reconciler keep running their statement, and
\* every time it finds the rows it selects unlocked; the clock advances.
SchedulerTurn == \E batch \in SUBSET Delivery :
  FullBatch(RetryDue, batch) /\ ScheduleDueRetries(batch)
ReconcilerTurn == \E batch \in SUBSET Delivery :
  FullBatch(LeaseExpired, batch) /\ RecoverExpiredDeliveries(batch)

FairSpec == Spec /\ WF_vars(Tick) /\ WF_vars(SchedulerTurn) /\ WF_vars(ReconcilerTurn)

\* drainRetention deletes batch after batch.
RetentionTurn == \E batch \in SUBSET Delivery :
  FullBatch(RetentionExpired, batch) /\ DeleteExpiredTerminal(batch)

RetentionSpec == FairSpec /\ WF_vars(RetentionTurn)

-----------------------------------------------------------------------------
(***************************************************************************)
(* Properties.                                                             *)
(***************************************************************************)

\* Every table holds rows of its schema, and the clients hold claims they were
\* handed.
TypeOK ==
  /\ now \in Nat
  /\ deliveries \in [Delivery -> DeliveryRow]
  /\ Signals \subseteq Delivery \X Nat
  /\ outbox_events \in [Signals -> OutboxRow]
  /\ delivery_attempts \in [Delivery -> Seq(AttemptRow)]
  /\ replay_audits \in [Delivery -> SUBSET AuditRow]
  /\ grants \subseteq Grant
  /\ inflight \subseteq grants
  /\ handles \subseteq Handle
  /\ stalled \subseteq Delivery \X Nat

\* The CHECK deliveries_lease_tuple_consistent can never reject an update: a row
\* carries a lease exactly while it is delivering.
LeaseTupleConsistent ==
  \A d \in Delivery : deliveries[d].status = "delivering" <=> deliveries[d].lease # NULL

\* A generation is leased at most once, ever: whatever the interleaving of
\* duplicate signals, crashes, lease expiry and replay, no two claims of
\* ClaimDelivery are for the same delivery and generation.
OneLeasePerGeneration ==
  \A a, b \in grants :
    a.delivery = b.delivery /\ a.generation = b.generation => a = b

\* Every lease ClaimDelivery granted on a delivery that still exists either is the
\* lease in its row or ended in an attempt row carrying its generation and token:
\* no crash or lost race makes an attempt vanish from the history.
EveryLeaseAccountedFor ==
  \A grant \in grants : Live(grant.delivery) =>
    LET row == deliveries[grant.delivery]
        attempts == delivery_attempts[grant.delivery]
    IN  \/ /\ row.lease # NULL
           /\ row.lease.token = grant.token
           /\ row.generation = grant.generation
        \/ \E i \in DOMAIN attempts : /\ attempts[i].lease_token = grant.token
                                      /\ attempts[i].generation = grant.generation

\* The attempts of a delivery are recorded for strictly increasing generations, and
\* a generation that is pending or delivering has none yet: a result is recorded at
\* most once, by the Worker or by the Lease Reconciler but never by both.
AttemptsInGenerationOrder ==
  \A d \in Delivery :
    LET attempts == delivery_attempts[d]
    IN  /\ \A i, j \in DOMAIN attempts : i < j => attempts[i].generation < attempts[j].generation
        /\ \A i \in DOMAIN attempts :
             /\ attempts[i].generation <= deliveries[d].generation
             /\ deliveries[d].status \in Active =>
                  attempts[i].generation < deliveries[d].generation

\* A succeeded delivery has the succeeded attempt of its generation as its last
\* attempt: no path but CompleteSuccess leads to succeeded.
SuccessIsRecorded ==
  \A d \in Delivery : deliveries[d].status = "succeeded" =>
    LET attempts == delivery_attempts[d]
    IN  /\ Len(attempts) > 0
        /\ attempts[Len(attempts)].result_class = "succeeded"
        /\ attempts[Len(attempts)].generation = deliveries[d].generation

\* No pending delivery is out of reach of the background loops: its current
\* generation either has no Outbox event and is one ScheduleDueRetries will pick
\* up, or has an unpublished event for the Publisher, or has a published one that
\* is free of leases, which ReconcileStalledSignals can republish.
PendingIsReachable ==
  \A d \in Delivery : deliveries[d].status = "pending" =>
    IF Current(d) \in Signals
    THEN outbox_events[Current(d)].published_at # NULL => outbox_events[Current(d)].lease = NULL
    ELSE deliveries[d].generation > 0

\* No signal of a future generation exists, and the current generation of a pending
\* delivery has none before next_attempt_at: a message can never start a retry early.
NoEarlySignal ==
  /\ \A s \in Signals : Live(s[1]) /\ s[2] <= deliveries[s[1]].generation
  /\ \A d \in Delivery :
       deliveries[d].status = "pending" /\ Current(d) \in Signals =>
         deliveries[d].next_attempt_at <= now

\* Replay's plain INSERTs into replay_audits and outbox_events never meet an
\* existing row, so a permanently failed delivery can always be replayed.
ReplayNeverConflicts ==
  \A d \in Delivery : deliveries[d].status = "failed_permanent" => ReplayInsertable(d)

\* At most one delivery that retention has not removed holds an idempotency key.
KeyIsUnique ==
  \A d, e \in Delivery :
    Live(d) /\ Live(e) /\ deliveries[d].key = deliveries[e].key => d = e

\* The admission limit holds for everything but replay: the active deliveries that
\* were never replayed stay within BacklogLimit, whatever order Submit, Replay and
\* completions come in (Replay takes no admission lock and makes no count).
BacklogExceededOnlyByReplay ==
  Cardinality({d \in ActiveSet : replay_audits[d] = {}}) <= BacklogLimit

\* While a Worker's lease is unexpired, the row changes only by that Worker's own
\* result: neither a stale Worker nor a background loop touches it.
RowChangesByHolder ==
  \A d \in Delivery :
    deliveries[d].status = "delivering" /\ deliveries[d].lease.until > now
      /\ deliveries'[d] # deliveries[d] =>
        \E grant \in inflight \ inflight' :
          /\ grant.delivery = d
          /\ grant.generation = deliveries[d].generation
          /\ grant.token = deliveries[d].lease.token

LeaseProtectsRow == [][RowChangesByHolder]_vars

\* While a Publisher's lease on an Outbox event is unexpired, the lease ends only by
\* that Publisher's own MarkOutboxPublished or ReleaseOutbox, or with the delivery:
\* neither the watchdog nor a Publisher whose batch expired takes it away.
EventChangesByHolder ==
  \A s \in Signals \cap Signals' :
    outbox_events[s].lease # NULL /\ outbox_events[s].lease.until > now
      /\ (outbox_events'[s].lease # outbox_events[s].lease
            \/ outbox_events'[s].published_at # outbox_events[s].published_at) =>
        \E h \in handles \ handles' :
          /\ <<h.delivery, h.generation>> = s
          /\ h.token = outbox_events[s].lease.token

OutboxLeaseProtectsEvent == [][EventChangesByHolder]_vars

\* Every accepted delivery settles: once pending or delivering it reaches a final
\* state, though Workers and Publishers may crash for good, stall past their leases
\* or never run.  Only runMaintenanceLoop and the clock are relied on.
EveryDeliverySettles ==
  \A d \in Delivery : deliveries[d].status \in Active ~> deliveries[d].status \notin Active

\* No record stays for ever: in the end every accepted delivery is settled and, once
\* its retention time is over, removed, whether it was sent, given up, recovered or
\* replayed on the way.  Only runMaintenanceLoop and the clock are relied on.
EveryRecordExpires ==
  \A d \in Delivery :
    <>[](Live(d) =>
           now < deliveries[d].updated_at +
                   CASE deliveries[d].status = "succeeded" -> SuccessRetention
                     [] deliveries[d].status = "failed_permanent" -> FailureRetention
                     [] OTHER -> 0)

-----------------------------------------------------------------------------
(***************************************************************************)
(* The inductive invariant.                                                *)
(***************************************************************************)

\* A delivery that does not exist has no attempts and no audits, and one that was
\* never created was never leased.
MissingIsEmpty ==
  /\ \A d \in Delivery : deliveries[d].status \in Missing =>
       /\ delivery_attempts[d] = <<>>
       /\ replay_audits[d] = {}
  /\ \A grant \in grants : deliveries[grant.delivery].status # "absent"

\* An event is leased only while it is unpublished.
PublishedIsUnleased ==
  \A s \in Signals : outbox_events[s].published_at # NULL => outbox_events[s].lease = NULL

\* Only the first generation relies on an event that nobody would recreate.
FirstSignalExists ==
  \A d \in Delivery :
    deliveries[d].status = "pending" /\ deliveries[d].generation = 0 => Current(d) \in Signals

\* Replays lead to generations the delivery has reached.
AuditsReached ==
  \A d \in Delivery : \A audit \in replay_audits[d] :
    audit.to_generation <= deliveries[d].generation

IInv ==
  /\ TypeOK
  /\ LeaseTupleConsistent
  /\ MissingIsEmpty
  /\ OneLeasePerGeneration
  /\ EveryLeaseAccountedFor
  /\ AttemptsInGenerationOrder
  /\ SuccessIsRecorded
  /\ NoEarlySignal
  /\ PublishedIsUnleased
  /\ FirstSignalExists
  /\ AuditsReached

=============================================================================
