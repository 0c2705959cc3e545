------------------------ MODULE DeliveryStoreLeases -------------------------
(***************************************************************************)
(* What the operations of DeliveryStore do to a row; that each of them     *)
(* keeps the type invariant; and that the initial states satisfy the       *)
(* inductive invariant, and submitting, claiming and completing a delivery *)
(* preserve it, for every value of the constants.                          *)
(***************************************************************************)
EXTENDS DeliveryStore, TLAPS

-----------------------------------------------------------------------------
(***************************************************************************)
(* What the operations do to a row.                                        *)
(***************************************************************************)

\* Leased, the row of a claim, is a delivering row of the same generation.
LEMMA LeasedRow ==
  ASSUME NEW row \in DeliveryRow, NEW o \in Owner, NEW tk \in Token, now \in Nat
  PROVE  /\ Leased(row, o, tk) \in DeliveryRow
         /\ Leased(row, o, tk).status = "delivering"
         /\ Leased(row, o, tk).generation = row.generation
         /\ Leased(row, o, tk).key = row.key
         /\ Leased(row, o, tk).lease = [owner |-> o, token |-> tk, until |-> now + LeaseDuration]
         /\ Leased(row, o, tk).lease \in Lease
<1>1. now + LeaseDuration \in Nat
  BY DurationAssumption
<1> DEFINE lease == [owner |-> o, token |-> tk, until |-> now + LeaseDuration]
<1>2. lease \in Lease
  BY <1>1, Zenon DEF Lease
<1> HIDE DEF lease
<1>3. Leased(row, o, tk) = [row EXCEPT !.status = "delivering", !.lease = lease, !.updated_at = now]
  BY Zenon DEF Leased, lease
<1>4. [row EXCEPT !.status = "delivering", !.lease = lease, !.updated_at = now] \in DeliveryRow
  BY <1>2, Zenon DEF DeliveryRow, Status
<1> QED
  BY <1>2, <1>3, <1>4 DEF DeliveryRow, lease

\* Completed clears the lease and keeps the generation.
LEMMA CompletedRow ==
  ASSUME NEW row \in DeliveryRow, NEW st \in Status, now \in Nat
  PROVE  /\ Completed(row, st) \in DeliveryRow
         /\ Completed(row, st).status = st
         /\ Completed(row, st).generation = row.generation
         /\ Completed(row, st).key = row.key
         /\ Completed(row, st).lease = NULL
BY Zenon DEF Completed, DeliveryRow

\* Retried is a pending row of the next generation.
LEMMA RetriedRow ==
  ASSUME NEW row \in DeliveryRow, NEW t \in Nat, now \in Nat
  PROVE  /\ Retried(row, t) \in DeliveryRow
         /\ Retried(row, t).status = "pending"
         /\ Retried(row, t).generation = row.generation + 1
         /\ Retried(row, t).key = row.key
         /\ Retried(row, t).next_attempt_at = t
         /\ Retried(row, t).lease = NULL
<1> DEFINE done == Completed(row, "pending")
<1>1. /\ done \in DeliveryRow
      /\ done.status = "pending"
      /\ done.key = row.key
      /\ done.lease = NULL
  BY CompletedRow, Zenon DEF Status
<1>2. row.generation + 1 \in Nat
  BY DEF DeliveryRow
<1> HIDE DEF done
<1>3. Retried(row, t) = [done EXCEPT !.generation = row.generation + 1, !.next_attempt_at = t]
  BY Zenon DEF Retried, done
<1> QED
  BY <1>1, <1>2, <1>3, Zenon DEF DeliveryRow

\* Exhausted only moves a row to failed_permanent.
LEMMA ExhaustedRow ==
  ASSUME NEW row \in DeliveryRow, now \in Nat
  PROVE  /\ Exhausted(row) \in DeliveryRow
         /\ Exhausted(row).status = "failed_permanent"
         /\ Exhausted(row).generation = row.generation
         /\ Exhausted(row).key = row.key
         /\ Exhausted(row).lease = row.lease
BY Zenon DEF Exhausted, DeliveryRow, Status

\* Recovered is pending at the next generation, or failed at the same one.
LEMMA RecoveredRow ==
  ASSUME NEW row \in DeliveryRow, now \in Nat
  PROVE  /\ Recovered(row) \in DeliveryRow
         /\ Recovered(row).key = row.key
         /\ Recovered(row).lease = NULL
         /\ Recovered(row).next_attempt_at = now
         /\ row.retry_deadline <= now => /\ Recovered(row).status = "failed_permanent"
                                         /\ Recovered(row).generation = row.generation
         /\ row.retry_deadline > now => /\ Recovered(row).status = "pending"
                                        /\ Recovered(row).generation = row.generation + 1
<1>1. row.retry_deadline \in Nat
  BY Zenon DEF DeliveryRow
<1>2. CASE row.retry_deadline <= now
  <2> DEFINE done == Completed(row, "failed_permanent")
  <2>1. /\ done \in DeliveryRow
        /\ done.status = "failed_permanent"
        /\ done.generation = row.generation
        /\ done.key = row.key
        /\ done.lease = NULL
    BY CompletedRow, Zenon DEF Status
  <2> HIDE DEF done
  <2>2. Recovered(row) = [done EXCEPT !.next_attempt_at = now]
    BY <1>2, Zenon DEF Recovered, done
  <2> QED
    BY <1>1, <1>2, <2>1, <2>2 DEF DeliveryRow
<1>3. CASE row.retry_deadline > now
  <2>1. Recovered(row) = Retried(row, now)
    BY <1>1, <1>3 DEF Recovered
  <2>2. /\ Retried(row, now) \in DeliveryRow
        /\ Retried(row, now).status = "pending"
        /\ Retried(row, now).generation = row.generation + 1
        /\ Retried(row, now).key = row.key
        /\ Retried(row, now).next_attempt_at = now
        /\ Retried(row, now).lease = NULL
    BY RetriedRow, Zenon
  <2> QED
    BY <1>1, <1>3, <2>1, <2>2
<1> QED
  BY <1>1, <1>2, <1>3

\* Replayed is a pending row of the next generation.
LEMMA ReplayedRow ==
  ASSUME NEW row \in DeliveryRow, NEW t \in Nat
  PROVE  /\ Replayed(row, t) \in DeliveryRow
         /\ Replayed(row, t).status = "pending"
         /\ Replayed(row, t).generation = row.generation + 1
         /\ Replayed(row, t).key = row.key
         /\ Replayed(row, t).next_attempt_at = t
         /\ Replayed(row, t).lease = NULL
<1>1. row.generation + 1 \in Nat /\ t + RetryWindow \in Nat
  BY DurationAssumption DEF DeliveryRow
<1> QED
  BY <1>1, Zenon DEF Replayed, DeliveryRow, Status

\* A missing row is a row.
LEMMA MissingRow ==
  ASSUME NEW st \in Missing
  PROVE  /\ NoRow(st) \in DeliveryRow
         /\ NoRow(st).status = st
         /\ NoRow(st).lease = NULL
         /\ NoRow(st).generation = 0
BY Zenon DEF NoRow, DeliveryRow

\* A new event is an unpublished, unleased event.
LEMMA NewEventRow ==
  ASSUME NEW t \in Nat
  PROVE  /\ NewEvent(t) \in OutboxRow
         /\ NewEvent(t).published_at = NULL
         /\ NewEvent(t).lease = NULL
BY Zenon DEF NewEvent, OutboxRow

\* The operations on an event keep it an event.
LEMMA EventRows ==
  ASSUME NEW e \in OutboxRow, NEW o \in Publisher, NEW tk \in BatchToken, now \in Nat
  PROVE  /\ BatchLeased(e, o, tk) \in OutboxRow
         /\ BatchLeased(e, o, tk).published_at = e.published_at
<1>1. now + PublisherLease \in Nat
  BY DurationAssumption
<1> DEFINE l == [owner |-> o, token |-> tk, until |-> now + PublisherLease]
<1>2. l \in BatchLease
  BY <1>1 DEF BatchLease
<1>3. BatchLeased(e, o, tk) = [e EXCEPT !.lease = l]
  BY Zenon DEF BatchLeased
<1> HIDE DEF l
<1> QED
  BY <1>2, <1>3, Zenon DEF OutboxRow

\* An observation, a publication and a release leave an event of the schema.
LEMMA EventUpdates ==
  ASSUME NEW e \in OutboxRow, now \in Nat
  PROVE  /\ Observed(e) \in OutboxRow
         /\ Observed(e).published_at = e.published_at
         /\ Observed(e).lease = e.lease
         /\ Published(e) \in OutboxRow
         /\ Published(e).lease = NULL
         /\ Released(e) \in OutboxRow
         /\ Released(e).lease = NULL
BY Zenon DEF Observed, Published, Released, OutboxRow

\* INSERT ... ON CONFLICT DO NOTHING keeps the events there are and adds new ones
\* for the other signals.
LEMMA InsertEventsRows ==
  ASSUME TypeOK, NEW S, S \subseteq Delivery \X Nat, NEW f, DOMAIN f = S,
         \A s \in S : /\ f[s] \in OutboxRow
                      /\ f[s].published_at = NULL
                      /\ f[s].lease = NULL,
         outbox_events' = InsertEvents(f)
  PROVE  /\ Signals' = Signals \cup S
         /\ Signals' \subseteq Delivery \X Nat
         /\ outbox_events' \in [Signals' -> OutboxRow]
         /\ \A s \in Signals : outbox_events'[s] = outbox_events[s]
         /\ \A s \in Signals' \ Signals : outbox_events'[s].published_at = NULL
                                          /\ outbox_events'[s].lease = NULL
<1>1. Signals' = Signals \cup S
  BY Zenon DEF InsertEvents, Signals
<1>2. \A s \in Signals : outbox_events'[s] = outbox_events[s]
  BY Zenon DEF InsertEvents
<1>3. \A s \in S \ Signals : outbox_events'[s] = f[s]
  BY Zenon DEF InsertEvents
<1>4. outbox_events' \in [Signals' -> OutboxRow]
  <2>1. outbox_events' = [s \in Signals' |-> outbox_events'[s]]
    BY <1>1, Zenon DEF InsertEvents
  <2>2. \A s \in Signals' : outbox_events'[s] \in OutboxRow
    BY <1>1, <1>2, <1>3, Zenon DEF TypeOK
  <2> QED
    BY <2>1, <2>2, Zenon
<1> QED
  BY <1>1, <1>2, <1>3, <1>4 DEF TypeOK

-----------------------------------------------------------------------------
(***************************************************************************)
(* Type correctness.                                                       *)
(***************************************************************************)

\* The migrated, empty tables are well typed.
LEMMA InitType == Init => TypeOK
<1> SUFFICES ASSUME Init PROVE TypeOK
  BY Zenon
<1>1. NoRow("absent") \in DeliveryRow
  BY MissingRow, Zenon DEF Missing
<1>2. outbox_events \in [Signals -> OutboxRow] /\ Signals = {}
  BY NewEventRow, Zenon DEF Init, Signals
<1>3. delivery_attempts \in [Delivery -> Seq(AttemptRow)]
  BY DEF Init
<1> QED
  BY <1>1, <1>2, <1>3, Zenon DEF Init, TypeOK

\* Submit inserts a row and an event.
LEMMA SubmitType ==
  ASSUME TypeOK, NEW d \in Delivery, NEW k \in Key, NEW t \in 0..now, Submit(d, k, t)
  PROVE  /\ TypeOK'
         /\ Signals' = Signals \cup {<<d, 0>>}
         /\ \A s \in Signals : outbox_events'[s] = outbox_events[s]
         /\ \A s \in Signals' \ Signals : outbox_events'[s].published_at = NULL
                                          /\ outbox_events'[s].lease = NULL
<1>1. deliveries' \in [Delivery -> DeliveryRow]
  <2>1. t \in Nat /\ t + RetryWindow \in Nat
    BY DurationAssumption DEF TypeOK
  <2> QED
    BY <2>1, Zenon DEF TypeOK, Submit, DeliveryRow, Status
<1> DEFINE S == {<<d, 0>>}
           f == [s \in S |-> NewEvent(t)]
<1>2. /\ S \subseteq Delivery \X Nat
      /\ DOMAIN f = S
      /\ \A s \in S : f[s] \in OutboxRow /\ f[s].published_at = NULL /\ f[s].lease = NULL
  BY NewEventRow DEF TypeOK
<1>3. outbox_events' = InsertEvents(f)
  BY Zenon DEF Submit
<1> HIDE DEF S, f
<1>4. /\ Signals' = Signals \cup S
      /\ Signals' \subseteq Delivery \X Nat
      /\ outbox_events' \in [Signals' -> OutboxRow]
      /\ \A s \in Signals : outbox_events'[s] = outbox_events[s]
      /\ \A s \in Signals' \ Signals : outbox_events'[s].published_at = NULL
                                       /\ outbox_events'[s].lease = NULL
  BY <1>2, <1>3, InsertEventsRows, Zenon
<1>5. UNCHANGED <<now, delivery_attempts, replay_audits, grants, inflight, handles, stalled>>
  BY Zenon DEF Submit, clients
<1> QED
  BY <1>1, <1>4, <1>5, Zenon DEF TypeOK, S

\* A claim of a delivery replaces a row and adds a grant.
LEMMA ClaimDeliveryType ==
  ASSUME TypeOK, NEW d \in Delivery, NEW g \in Nat, NEW o \in Owner, NEW tk \in Token,
         ClaimDelivery(d, g, o, tk)
  PROVE  TypeOK'
<1>1. deliveries' \in [Delivery -> DeliveryRow]
  BY LeasedRow, Zenon DEF TypeOK, ClaimDelivery
<1> QED
  BY <1>1 DEF TypeOK, ClaimDelivery, Grant, Signals

\* A result replaces a row and appends an attempt.
LEMMA CompleteType ==
  ASSUME TypeOK, NEW grant \in inflight, NEW class \in ResultClass, NEW row \in DeliveryRow,
         completeResult(grant, class, row)
  PROVE  TypeOK'
<1>1. grant \in Grant
  BY Zenon DEF TypeOK
<1>2. Attempt(grant, class) \in AttemptRow
  BY <1>1, Zenon DEF Attempt, AttemptRow, Grant
<1>3. Append(delivery_attempts[grant.delivery], Attempt(grant, class)) \in Seq(AttemptRow)
  BY <1>1, <1>2 DEF TypeOK, Grant
<1>4. delivery_attempts' \in [Delivery -> Seq(AttemptRow)]
  BY <1>3, Zenon DEF completeResult, TypeOK
<1>5. deliveries' \in [Delivery -> DeliveryRow]
  BY Zenon DEF completeResult, TypeOK
<1> QED
  BY <1>4, <1>5, Zenon DEF completeResult, TypeOK, Signals

\* The scheduler replaces rows and inserts events.
LEMMA ScheduleType ==
  ASSUME TypeOK, NEW batch \in SUBSET Delivery, ScheduleDueRetries(batch)
  PROVE  /\ TypeOK'
         /\ Signals' = Signals \cup {Current(d) : d \in batch}
         /\ \A s \in Signals : outbox_events'[s] = outbox_events[s]
         /\ \A s \in Signals' \ Signals : outbox_events'[s].published_at = NULL
                                          /\ outbox_events'[s].lease = NULL
<1>1. deliveries' \in [Delivery -> DeliveryRow]
  BY ExhaustedRow, Zenon DEF TypeOK, ScheduleDueRetries
<1> DEFINE S == {Current(d) : d \in batch}
           f == [s \in S |-> NewEvent(deliveries[s[1]].next_attempt_at)]
<1>2. S \subseteq Delivery \X Nat
  BY DEF Current, TypeOK, DeliveryRow
<1>3. ASSUME NEW s \in S
      PROVE  /\ NewEvent(deliveries[s[1]].next_attempt_at) \in OutboxRow
             /\ NewEvent(deliveries[s[1]].next_attempt_at).published_at = NULL
             /\ NewEvent(deliveries[s[1]].next_attempt_at).lease = NULL
  <2>1. deliveries[s[1]].next_attempt_at \in Nat
    BY <1>2, Zenon DEF TypeOK, DeliveryRow
  <2> QED
    BY <2>1, NewEventRow, Zenon
<1>4. /\ DOMAIN f = S
      /\ \A s \in S : f[s] \in OutboxRow /\ f[s].published_at = NULL /\ f[s].lease = NULL
  BY <1>3, Zenon
<1>5. outbox_events' = InsertEvents(f)
  BY Zenon DEF ScheduleDueRetries
<1> HIDE DEF S, f
<1>6. /\ Signals' = Signals \cup S
      /\ Signals' \subseteq Delivery \X Nat
      /\ outbox_events' \in [Signals' -> OutboxRow]
      /\ \A s \in Signals : outbox_events'[s] = outbox_events[s]
      /\ \A s \in Signals' \ Signals : outbox_events'[s].published_at = NULL
                                       /\ outbox_events'[s].lease = NULL
  BY <1>2, <1>4, <1>5, InsertEventsRows, Zenon
<1>7. UNCHANGED <<now, delivery_attempts, replay_audits, grants, inflight, handles, stalled>>
  BY Zenon DEF ScheduleDueRetries, clients
<1> QED
  BY <1>1, <1>6, <1>7, Zenon DEF TypeOK, S

\* Recovery replaces rows, appends attempts and inserts events.
LEMMA RecoverType ==
  ASSUME TypeOK, LeaseTupleConsistent,
         NEW batch \in SUBSET Delivery, RecoverExpiredDeliveries(batch)
  PROVE  /\ TypeOK'
         /\ Signals' = Signals \cup {<<d, deliveries[d].generation + 1>> :
                                       d \in {e \in batch : deliveries[e].retry_deadline > now}}
         /\ \A s \in Signals : outbox_events'[s] = outbox_events[s]
         /\ \A s \in Signals' \ Signals : outbox_events'[s].published_at = NULL
                                          /\ outbox_events'[s].lease = NULL
<1>1. deliveries' \in [Delivery -> DeliveryRow]
  BY RecoveredRow, Zenon DEF TypeOK, RecoverExpiredDeliveries
<1>2. ASSUME NEW d \in batch
      PROVE  RecoveryAttempt(deliveries[d]) \in AttemptRow
  <2>1. deliveries[d].status = "delivering"
    BY Zenon DEF RecoverExpiredDeliveries, Batches, LeaseExpired
  <2>2. deliveries[d].lease \in Lease
    BY <2>1, Zenon DEF TypeOK, LeaseTupleConsistent, DeliveryRow
  <2> QED
    BY <2>2, Zenon DEF RecoveryAttempt, AttemptRow, Lease, ResultClass, TypeOK, DeliveryRow
<1>3. delivery_attempts' \in [Delivery -> Seq(AttemptRow)]
  <2>1. \A d \in batch : Append(delivery_attempts[d], RecoveryAttempt(deliveries[d])) \in Seq(AttemptRow)
    BY <1>2 DEF TypeOK
  <2> QED
    BY <2>1, Zenon DEF TypeOK, RecoverExpiredDeliveries
<1> DEFINE S == {<<d, deliveries[d].generation + 1>> :
                   d \in {e \in batch : deliveries[e].retry_deadline > now}}
           f == [s \in S |-> NewEvent(now)]
<1>4. S \subseteq Delivery \X Nat
  BY DEF TypeOK, DeliveryRow
<1>5. /\ DOMAIN f = S
      /\ \A s \in S : f[s] \in OutboxRow /\ f[s].published_at = NULL /\ f[s].lease = NULL
  BY NewEventRow, Zenon DEF TypeOK
<1>6. outbox_events' = InsertEvents(f)
  BY Zenon DEF RecoverExpiredDeliveries
<1> HIDE DEF S, f
<1>7. /\ Signals' = Signals \cup S
      /\ Signals' \subseteq Delivery \X Nat
      /\ outbox_events' \in [Signals' -> OutboxRow]
      /\ \A s \in Signals : outbox_events'[s] = outbox_events[s]
      /\ \A s \in Signals' \ Signals : outbox_events'[s].published_at = NULL
                                       /\ outbox_events'[s].lease = NULL
  BY <1>4, <1>5, <1>6, InsertEventsRows, Zenon
<1>8. UNCHANGED <<now, replay_audits, grants, inflight, handles, stalled>>
  BY Zenon DEF RecoverExpiredDeliveries, clients
<1> QED
  BY <1>1, <1>3, <1>7, <1>8, Zenon DEF TypeOK, S

\* Replay replaces a row and inserts an audit and an event.
LEMMA ReplayType ==
  ASSUME TypeOK, NEW d \in Delivery, NEW t \in 0..now, Replay(d, t)
  PROVE  /\ TypeOK'
         /\ Signals' = Signals \cup {<<d, deliveries[d].generation + 1>>}
         /\ \A s \in Signals : outbox_events'[s] = outbox_events[s]
         /\ \A s \in Signals' \ Signals : outbox_events'[s].published_at = NULL
                                          /\ outbox_events'[s].lease = NULL
<1>0. t \in Nat /\ deliveries[d].generation \in Nat
  BY DEF TypeOK, DeliveryRow
<1>1. deliveries' \in [Delivery -> DeliveryRow]
  BY <1>0, ReplayedRow, Zenon DEF TypeOK, Replay
<1>2. replay_audits' \in [Delivery -> SUBSET AuditRow]
  BY <1>0 DEF TypeOK, Replay, AuditRow
<1> DEFINE S == {<<d, deliveries[d].generation + 1>>}
           f == [s \in S |-> NewEvent(t)]
<1>4. S \subseteq Delivery \X Nat
  BY <1>0
<1>5. /\ DOMAIN f = S
      /\ \A s \in S : f[s] \in OutboxRow /\ f[s].published_at = NULL /\ f[s].lease = NULL
  BY <1>0, NewEventRow, Zenon
<1>6. outbox_events' = InsertEvents(f)
  BY Zenon DEF Replay
<1> HIDE DEF S, f
<1>7. /\ Signals' = Signals \cup S
      /\ Signals' \subseteq Delivery \X Nat
      /\ outbox_events' \in [Signals' -> OutboxRow]
      /\ \A s \in Signals : outbox_events'[s] = outbox_events[s]
      /\ \A s \in Signals' \ Signals : outbox_events'[s].published_at = NULL
                                       /\ outbox_events'[s].lease = NULL
  BY <1>4, <1>5, <1>6, InsertEventsRows
<1>8. UNCHANGED <<now, delivery_attempts, grants, inflight, handles, stalled>>
  BY Zenon DEF Replay, clients
<1> QED
  BY <1>1, <1>2, <1>7, <1>8, Zenon DEF TypeOK, S

\* Retention removes rows, with everything that refers to them.
LEMMA DeleteType ==
  ASSUME TypeOK, NEW batch \in SUBSET Delivery, DeleteExpiredTerminal(batch)
  PROVE  /\ TypeOK'
         /\ Signals' = {s \in Signals : s[1] \notin batch}
         /\ \A s \in Signals' : outbox_events'[s] = outbox_events[s]
<1>1. deliveries' \in [Delivery -> DeliveryRow]
  BY MissingRow, Zenon DEF TypeOK, DeleteExpiredTerminal, Missing
<1>2. /\ Signals' = {s \in Signals : s[1] \notin batch}
      /\ \A s \in Signals' : outbox_events'[s] = outbox_events[s]
      /\ outbox_events' \in [Signals' -> OutboxRow]
  BY Zenon DEF TypeOK, DeleteExpiredTerminal, Signals
<1>3. delivery_attempts' \in [Delivery -> Seq(AttemptRow)]
  BY DEF TypeOK, DeleteExpiredTerminal
<1>4. replay_audits' \in [Delivery -> SUBSET AuditRow]
  BY Zenon DEF TypeOK, DeleteExpiredTerminal
<1>5. UNCHANGED <<now, grants, inflight, handles, stalled>>
  BY Zenon DEF DeleteExpiredTerminal, clients
<1> QED
  BY <1>1, <1>2, <1>3, <1>4, <1>5, Zenon DEF TypeOK

\* The operations on Outbox events change events, never which events there are,
\* and leave published events without a lease.
OutboxOnly ==
  /\ TypeOK'
  /\ Signals' = Signals
  /\ PublishedIsUnleased'
  /\ UNCHANGED <<now, deliveries, delivery_attempts, replay_audits, grants>>

\* An observation updates one event.
LEMMA ObserveSignalType ==
  ASSUME TypeOK, PublishedIsUnleased, NEW s \in Signals, ObserveSignal(s[1], s[2])
  PROVE  OutboxOnly
<1>1. s = <<s[1], s[2]>>
  BY DEF TypeOK
<1>2. outbox_events' = [outbox_events EXCEPT ![s] = Observed(outbox_events[s])]
  BY <1>1, Zenon DEF ObserveSignal
<1>3. UNCHANGED <<now, deliveries, delivery_attempts, replay_audits, grants, inflight, handles, stalled>>
  BY Zenon DEF ObserveSignal, clients
<1>4. Signals' = Signals /\ outbox_events' \in [Signals -> OutboxRow]
  BY <1>2, EventUpdates, Zenon DEF TypeOK, Signals
<1>5. PublishedIsUnleased'
  BY <1>2, <1>4, EventUpdates DEF PublishedIsUnleased, TypeOK
<1> QED
  BY <1>3, <1>4, <1>5, Zenon DEF TypeOK, OutboxOnly

\* A claim of Outbox events leases a batch and hands out its handles.
LEMMA ClaimOutboxType ==
  ASSUME TypeOK, PublishedIsUnleased, NEW batch \in SUBSET Signals,
         NEW owner \in Publisher, NEW token \in BatchToken, ClaimOutbox(batch, owner, token)
  PROVE  OutboxOnly
<1>1. outbox_events' = [s \in Signals |-> IF s \in batch
                                          THEN BatchLeased(outbox_events[s], owner, token)
                                          ELSE outbox_events[s]]
  BY Zenon DEF ClaimOutbox
<1>2. Signals' = Signals /\ outbox_events' \in [Signals -> OutboxRow]
  BY <1>1, EventRows, Zenon DEF TypeOK, Signals
<1>3. \A s \in batch : outbox_events[s].published_at = NULL
  BY Zenon DEF ClaimOutbox, Batches, OutboxClaimable
<1>4. PublishedIsUnleased'
  BY <1>1, <1>2, <1>3, EventRows DEF PublishedIsUnleased, TypeOK
<1>5. handles' \subseteq Handle
  BY DEF ClaimOutbox, TypeOK, Handle
<1>6. UNCHANGED <<now, deliveries, delivery_attempts, replay_audits, grants, inflight, stalled>>
  BY Zenon DEF ClaimOutbox
<1> QED
  BY <1>2, <1>4, <1>5, <1>6, Zenon DEF TypeOK, OutboxOnly

\* A publication updates one event and drops its handle.
LEMMA MarkOutboxPublishedType ==
  ASSUME TypeOK, PublishedIsUnleased, NEW h \in handles, MarkOutboxPublished(h)
  PROVE  OutboxOnly
<1> DEFINE s == <<h.delivery, h.generation>>
<1>1. s \in Signals
  BY Zenon DEF MarkOutboxPublished, HandleMatches
<1>2. outbox_events' = [outbox_events EXCEPT ![s] = Published(outbox_events[s])]
  BY Zenon DEF MarkOutboxPublished
<1>3. /\ UNCHANGED <<now, deliveries, delivery_attempts, replay_audits, grants, inflight, stalled>>
      /\ handles' \subseteq handles
  BY Zenon DEF MarkOutboxPublished
<1> HIDE DEF s
<1>4. Signals' = Signals /\ outbox_events' \in [Signals -> OutboxRow]
  BY <1>1, <1>2, EventUpdates, Zenon DEF TypeOK, Signals
<1>5. PublishedIsUnleased'
  BY <1>1, <1>2, <1>4, EventUpdates, Zenon DEF PublishedIsUnleased, TypeOK
<1> QED
  BY <1>3, <1>4, <1>5, Zenon DEF TypeOK, OutboxOnly

\* A release updates one event at most and drops its handle.
LEMMA ReleaseOutboxType ==
  ASSUME TypeOK, PublishedIsUnleased, NEW h \in handles, ReleaseOutbox(h)
  PROVE  OutboxOnly
<1>1. /\ Signals' = Signals
      /\ \A s \in Signals : \/ outbox_events'[s] = outbox_events[s]
                            \/ outbox_events'[s] = Released(outbox_events[s])
  BY Zenon DEF ReleaseOutbox, Signals
<1>2. outbox_events' \in [Signals -> OutboxRow]
  BY EventUpdates, Zenon DEF ReleaseOutbox, TypeOK
<1>3. PublishedIsUnleased'
  <2>1. \A s \in Signals : Released(outbox_events[s]).lease = NULL
    BY EventUpdates, Zenon DEF TypeOK
  <2> QED
    BY <1>1, <2>1, Zenon DEF PublishedIsUnleased
<1>4. /\ UNCHANGED <<now, deliveries, delivery_attempts, replay_audits, grants, inflight, stalled>>
      /\ handles' \subseteq handles
  BY Zenon DEF ReleaseOutbox
<1> QED
  BY <1>1, <1>2, <1>3, <1>4, Zenon DEF TypeOK, OutboxOnly

\* A Publisher that stops drops handles.
LEMMA PublisherStopsType ==
  ASSUME TypeOK, PublishedIsUnleased, NEW lost \in SUBSET handles, PublisherStops(lost)
  PROVE  OutboxOnly
BY Zenon DEF PublisherStops, tables, TypeOK, Signals, PublishedIsUnleased, OutboxOnly

\* The watchdog takes a snapshot, then replaces events of it.
LEMMA ReconcileType ==
  ASSUME TypeOK, PublishedIsUnleased, NEW batch \in SUBSET Signals,
         ReconcileStalledSignals(batch)
  PROVE  OutboxOnly
<1>1. NewEvent(now) \in OutboxRow /\ NewEvent(now).lease = NULL
  BY NewEventRow, Zenon DEF TypeOK
<1>2. outbox_events' = [s \in Signals |-> IF s \in batch THEN NewEvent(now) ELSE outbox_events[s]]
  BY Zenon DEF ReconcileStalledSignals
<1>3. Signals' = Signals /\ outbox_events' \in [Signals -> OutboxRow]
  BY <1>1, <1>2, Zenon DEF TypeOK, Signals
<1>4. PublishedIsUnleased'
  BY <1>1, <1>2, <1>3, Zenon DEF PublishedIsUnleased
<1>5. /\ UNCHANGED <<now, deliveries, delivery_attempts, replay_audits, grants, inflight, handles>>
      /\ stalled' = {}
  BY Zenon DEF ReconcileStalledSignals
<1> QED
  BY <1>3, <1>4, <1>5, Zenon DEF TypeOK, OutboxOnly

-----------------------------------------------------------------------------
(***************************************************************************)
(* The inductive invariant.                                                *)
(***************************************************************************)

\* The inductive invariant holds of the empty tables.
LEMMA InitIInv == Init => IInv
<1> SUFFICES ASSUME Init PROVE IInv
  OBVIOUS
<1>1. TypeOK
  BY InitType, Zenon
<1>2. /\ \A d \in Delivery : /\ deliveries[d].status = "absent"
                             /\ deliveries[d].lease = NULL
                             /\ delivery_attempts[d] = <<>>
                             /\ replay_audits[d] = {}
      /\ Signals = {}
      /\ grants = {}
  BY MissingRow, Zenon DEF Init, Missing, Signals
<1> QED
  BY <1>1, <1>2 DEF IInv, LeaseTupleConsistent, MissingIsEmpty, OneLeasePerGeneration,
     EveryLeaseAccountedFor, AttemptsInGenerationOrder, SuccessIsRecorded, NoEarlySignal,
     PublishedIsUnleased, FirstSignalExists, AuditsReached, Active

\* Steps that leave deliveries, attempts, audits, grants and the set of signals alone.
LEMMA FrameIInv ==
  ASSUME IInv, TypeOK', PublishedIsUnleased', Signals' = Signals, now' >= now,
         UNCHANGED <<deliveries, delivery_attempts, replay_audits, grants>>
  PROVE  IInv'
<1>1. LeaseTupleConsistent' /\ MissingIsEmpty' /\ OneLeasePerGeneration' /\ AuditsReached'
  BY Zenon DEF IInv, LeaseTupleConsistent, MissingIsEmpty, OneLeasePerGeneration, AuditsReached
<1>2. EveryLeaseAccountedFor' /\ AttemptsInGenerationOrder' /\ SuccessIsRecorded'
  BY DEF IInv, EveryLeaseAccountedFor, AttemptsInGenerationOrder, SuccessIsRecorded, Live
<1>3. NoEarlySignal'
  <2>1. now \in Nat /\ now' \in Nat /\ \A d \in Delivery : deliveries[d].next_attempt_at \in Nat
    BY Zenon DEF IInv, TypeOK, DeliveryRow
  <2> QED
    BY <2>1 DEF IInv, NoEarlySignal, Live, Current
<1>4. FirstSignalExists'
  BY Zenon DEF IInv, FirstSignalExists, Current
<1> QED
  BY <1>1, <1>2, <1>3, <1>4, Zenon DEF IInv

\* Inserting fresh events leaves published events without a lease.
LEMMA InsertUnleased ==
  ASSUME PublishedIsUnleased,
         \A s \in Signals : outbox_events'[s] = outbox_events[s],
         \A s \in Signals' \ Signals : outbox_events'[s].published_at = NULL
  PROVE  PublishedIsUnleased'
BY Zenon DEF PublishedIsUnleased

\* Signals belong to deliveries that exist and to generations they have reached.
LEMMA SignalBounds ==
  ASSUME IInv
  PROVE  \A s \in Signals : /\ s[1] \in Delivery /\ Live(s[1])
                            /\ s[2] \in Nat /\ s[2] <= deliveries[s[1]].generation
BY Zenon DEF IInv, TypeOK, NoEarlySignal

\* The next generation of a delivery has no signal yet.
LEMMA NextUnsignalled ==
  ASSUME IInv, NEW d \in Delivery
  PROVE  <<d, deliveries[d].generation + 1>> \notin Signals
<1> DEFINE s == <<d, deliveries[d].generation + 1>>
<1>1. s[1] = d /\ s[2] = deliveries[d].generation + 1
  BY Zenon
<1>2. deliveries[d].generation \in Nat
  BY Zenon DEF IInv, TypeOK, DeliveryRow
<1> HIDE DEF s
<1>3. s \notin Signals
  BY <1>1, <1>2, SignalBounds
<1> QED
  BY <1>3, Zenon DEF s

\* A new delivery has no grants, attempts, audits or signals of its own.
LEMMA SubmitIInv ==
  ASSUME IInv, NEW d \in Delivery, NEW k \in Key, NEW t \in 0..now, Submit(d, k, t)
  PROVE  IInv'
<1>1. /\ TypeOK'
      /\ Signals' = Signals \cup {<<d, 0>>}
      /\ \A s \in Signals : outbox_events'[s] = outbox_events[s]
      /\ \A s \in Signals' \ Signals : outbox_events'[s].published_at = NULL
                                       /\ outbox_events'[s].lease = NULL
  BY SubmitType, Zenon DEF IInv
<1>2. /\ deliveries[d].status = "absent"
      /\ deliveries'[d].status = "pending"
      /\ deliveries'[d].generation = 0
      /\ deliveries'[d].next_attempt_at = t
      /\ deliveries'[d].lease = NULL
      /\ \A e \in Delivery : e # d => deliveries'[e] = deliveries[e]
      /\ UNCHANGED <<now, delivery_attempts, replay_audits, grants>>
  BY Zenon DEF Submit, clients, IInv, TypeOK
<1>3. /\ delivery_attempts[d] = <<>>
      /\ replay_audits[d] = {}
      /\ \A grant \in grants : grant.delivery \in Delivery /\ grant.delivery # d
  BY <1>2, Zenon DEF IInv, MissingIsEmpty, Missing, TypeOK, Grant
<1>4. LeaseTupleConsistent'
  BY <1>2, Zenon DEF IInv, LeaseTupleConsistent
<1>5. MissingIsEmpty' /\ OneLeasePerGeneration' /\ AuditsReached'
  BY <1>2, <1>3 DEF IInv, MissingIsEmpty, OneLeasePerGeneration, AuditsReached, Missing
<1>6. EveryLeaseAccountedFor'
  BY <1>2, <1>3 DEF IInv, EveryLeaseAccountedFor, Live
<1>7. AttemptsInGenerationOrder' /\ SuccessIsRecorded'
  BY <1>2, <1>3 DEF IInv, AttemptsInGenerationOrder, SuccessIsRecorded
<1>8. NoEarlySignal'
  <2>1. \A s \in Signals : s[1] # d /\ s[1] \in Delivery
    BY <1>2, Zenon DEF IInv, NoEarlySignal, Live, Status, TypeOK
  <2>2. \A s \in Signals' : Live(s[1])' /\ s[2] <= deliveries'[s[1]].generation
    BY <1>1, <1>2, <2>1 DEF IInv, NoEarlySignal, Live, Status
  <2>3. \A e \in Delivery : e # d /\ deliveries'[e].status = "pending" /\ Current(e)' \in Signals' =>
          deliveries'[e].next_attempt_at <= now'
    BY <1>1, <1>2, Zenon DEF IInv, NoEarlySignal, Current
  <2>4. t <= now
    BY DEF IInv, TypeOK
  <2> QED
    BY <1>2, <2>2, <2>3, <2>4 DEF NoEarlySignal
<1>9. PublishedIsUnleased'
  BY <1>1, InsertUnleased, Zenon DEF IInv
<1>10. FirstSignalExists'
  BY <1>1, <1>2, Zenon DEF IInv, FirstSignalExists, Current
<1> QED
  BY <1>1, <1>4, <1>5, <1>6, <1>7, <1>8, <1>9, <1>10 DEF IInv

\* A pending generation has no attempt yet, so no lease was ever granted on it.
LEMMA ClaimIInv ==
  ASSUME IInv, NEW d \in Delivery, NEW g \in Nat, NEW o \in Owner, NEW tk \in Token,
         ClaimDelivery(d, g, o, tk)
  PROVE  IInv'
<1> DEFINE new == [delivery |-> d, generation |-> g, owner |-> o, token |-> tk]
<1>1. TypeOK'
  BY ClaimDeliveryType, Zenon DEF IInv
<1>2. /\ deliveries[d].status = "pending"
      /\ deliveries[d].generation = g
      /\ deliveries[d].lease = NULL
      /\ deliveries[d] \in DeliveryRow
      /\ now \in Nat
  BY Zenon DEF IInv, ClaimDelivery, Claimable, LeaseTupleConsistent, TypeOK
<1>3. /\ deliveries'[d].status = "delivering"
      /\ deliveries'[d].generation = g
      /\ deliveries'[d].lease.token = tk
      /\ deliveries'[d].lease # NULL
  <2>1. deliveries'[d] = Leased(deliveries[d], o, tk)
    BY Zenon DEF ClaimDelivery, IInv, TypeOK
  <2>2. deliveries'[d].lease = [owner |-> o, token |-> tk, until |-> now + LeaseDuration]
        /\ deliveries'[d].lease \in Lease
    BY <1>2, <2>1, LeasedRow
  <2> QED
    BY <1>2, <2>1, <2>2, LeasedRow, NullAssumption
<1>4. /\ \A e \in Delivery : e # d => deliveries'[e] = deliveries[e]
      /\ grants' = grants \cup {new}
      /\ UNCHANGED <<now, outbox_events, delivery_attempts, replay_audits>>
      /\ Signals' = Signals
  BY Zenon DEF ClaimDelivery, IInv, TypeOK, Signals
<1>5. new.delivery = d /\ new.generation = g /\ new.token = tk
  BY Zenon
<1> HIDE DEF new
<1>6. \A grant \in grants : grant.delivery \in Delivery
  BY Zenon DEF IInv, TypeOK, Grant
<1>7. ASSUME NEW grant \in grants, grant.delivery = d
      PROVE  \E i \in DOMAIN delivery_attempts[d] :
               /\ delivery_attempts[d][i].lease_token = grant.token
               /\ delivery_attempts[d][i].generation = grant.generation
               /\ grant.generation < g
  <2>1. PICK i \in DOMAIN delivery_attempts[d] :
               /\ delivery_attempts[d][i].lease_token = grant.token
               /\ delivery_attempts[d][i].generation = grant.generation
    BY <1>2, <1>7, Zenon DEF IInv, EveryLeaseAccountedFor, Live, Status
  <2>2. delivery_attempts[d][i].generation < g
    BY <1>2, Zenon DEF IInv, AttemptsInGenerationOrder, Active
  <2> QED
    BY <2>1, <2>2, Zenon
<1>8. OneLeasePerGeneration'
  <2>1. \A grant \in grants : grant.delivery = d => grant.generation # g
    BY <1>7 DEF IInv, TypeOK, Grant
  <2> QED
    BY <1>4, <1>5, <2>1 DEF IInv, OneLeasePerGeneration
<1>9. LeaseTupleConsistent' /\ MissingIsEmpty' /\ AuditsReached'
  BY <1>2, <1>3, <1>4, <1>5, <1>6
     DEF IInv, LeaseTupleConsistent, MissingIsEmpty, AuditsReached, Missing
<1>10. EveryLeaseAccountedFor'
  <2> SUFFICES ASSUME NEW grant \in grants', Live(grant.delivery)'
               PROVE  \/ /\ deliveries'[grant.delivery].lease # NULL
                         /\ deliveries'[grant.delivery].lease.token = grant.token
                         /\ deliveries'[grant.delivery].generation = grant.generation
                      \/ \E i \in DOMAIN delivery_attempts'[grant.delivery] :
                           /\ delivery_attempts'[grant.delivery][i].lease_token = grant.token
                           /\ delivery_attempts'[grant.delivery][i].generation = grant.generation
    BY Zenon DEF EveryLeaseAccountedFor
  <2>1. CASE grant = new
    BY <1>3, <1>5, <2>1, Zenon
  <2>2. CASE grant # new /\ grant.delivery = d
    BY <1>4, <1>7, <2>2, Zenon
  <2>3. CASE grant # new /\ grant.delivery # d
    BY <1>4, <1>6, <2>3, Zenon DEF IInv, EveryLeaseAccountedFor, Live
  <2> QED
    BY <2>1, <2>2, <2>3, Zenon
<1>11. AttemptsInGenerationOrder' /\ SuccessIsRecorded'
  BY <1>2, <1>3, <1>4, Zenon DEF IInv, AttemptsInGenerationOrder, SuccessIsRecorded, Active
<1>12. NoEarlySignal' /\ FirstSignalExists'
  <2>1. \A s \in Signals : s[1] \in Delivery
    BY Zenon DEF IInv, TypeOK
  <2> QED
    BY <1>2, <1>3, <1>4, <2>1, Zenon DEF IInv, NoEarlySignal, FirstSignalExists, Live, Status, Current
<1>13. PublishedIsUnleased'
  BY <1>4, Zenon DEF IInv, PublishedIsUnleased
<1> QED
  BY <1>1, <1>8, <1>9, <1>10, <1>11, <1>12, <1>13 DEF IInv

\* The generations of recorded attempts are numbers.
LEMMA AttemptGenerations ==
  ASSUME TypeOK
  PROVE  \A d \in Delivery : \A i \in DOMAIN delivery_attempts[d] :
           delivery_attempts[d][i].generation \in Nat
<1>1. \A d \in Delivery : delivery_attempts[d] \in Seq(AttemptRow)
  BY Zenon DEF TypeOK
<1>2. \A d \in Delivery : \A i \in DOMAIN delivery_attempts[d] : delivery_attempts[d][i] \in AttemptRow
  BY <1>1
<1>3. \A a \in AttemptRow : a.generation \in Nat
  BY Zenon DEF AttemptRow
<1> QED
  BY <1>2, <1>3, Zenon

\* Appending an attempt keeps the others where they are.
LEMMA AppendAttempt ==
  ASSUME NEW q \in Seq(AttemptRow), NEW a \in AttemptRow
  PROVE  /\ DOMAIN Append(q, a) = DOMAIN q \cup {Len(q) + 1}
         /\ Len(Append(q, a)) = Len(q) + 1
         /\ Len(q) + 1 > 0
         /\ Append(q, a)[Len(q) + 1] = a
         /\ \A i \in DOMAIN q : Append(q, a)[i] = q[i] /\ i \in Nat /\ i < Len(q) + 1
OBVIOUS

\* What the end of a lease does to the row and the attempts of its delivery: both a
\* fenced result and the recovery of an expired lease end a lease this way.
LeaseEnds(d, row, attempt) ==
  /\ deliveries[d].status = "delivering"
  /\ row.lease = NULL
  /\ attempt.generation = deliveries[d].generation
  /\ attempt.lease_token = deliveries[d].lease.token
  /\ \/ row.status = "pending" /\ row.generation = deliveries[d].generation + 1
     \/ row.status = "failed_permanent" /\ row.generation = deliveries[d].generation
     \/ /\ row.status = "succeeded" /\ row.generation = deliveries[d].generation
        /\ attempt.result_class = "succeeded"

\* A step that ends the leases of the deliveries in B: each takes its row and appends its
\* attempt, and every other delivery, every audit and every grant stays.
LeasesEnd(B, row, attempt) ==
  /\ B \in SUBSET Delivery
  /\ \A d \in B : /\ row[d] \in DeliveryRow
                  /\ attempt[d] \in AttemptRow
                  /\ LeaseEnds(d, row[d], attempt[d])
                  /\ deliveries'[d] = row[d]
                  /\ delivery_attempts'[d] = Append(delivery_attempts[d], attempt[d])
  /\ \A d \in Delivery \ B : /\ deliveries'[d] = deliveries[d]
                             /\ delivery_attempts'[d] = delivery_attempts[d]
  /\ UNCHANGED <<replay_audits, grants>>

\* The end of the leases of a set of deliveries preserves what the invariant says of
\* deliveries, grants, attempts and audits.
LEMMA LeaseEndsIInv ==
  ASSUME IInv, NEW B, NEW row, NEW attempt, LeasesEnd(B, row, attempt)
  PROVE  /\ LeaseTupleConsistent'
         /\ MissingIsEmpty'
         /\ OneLeasePerGeneration'
         /\ EveryLeaseAccountedFor'
         /\ AttemptsInGenerationOrder'
         /\ SuccessIsRecorded'
         /\ AuditsReached'
<1> USE DEF LeasesEnd
<1>1. \A d \in Delivery : /\ deliveries[d] \in DeliveryRow
                          /\ deliveries[d].generation \in Nat
                          /\ delivery_attempts[d] \in Seq(AttemptRow)
                          /\ \A i \in DOMAIN delivery_attempts[d] :
                               delivery_attempts[d][i].generation \in Nat
  <2>1. \A d \in Delivery : /\ deliveries[d] \in DeliveryRow
                            /\ delivery_attempts[d] \in Seq(AttemptRow)
    BY Zenon DEF IInv, TypeOK
  <2>2. \A d \in Delivery : deliveries[d].generation \in Nat
    BY <2>1, Zenon DEF DeliveryRow
  <2> QED
    BY <2>1, <2>2, AttemptGenerations, Zenon DEF IInv
<1>2. \A d \in B : deliveries[d].status = "delivering" /\ row[d].status \in Status
                   /\ row[d].status # "delivering" /\ row[d].lease = NULL
                   /\ row[d].generation >= deliveries[d].generation
  <2> SUFFICES ASSUME NEW d \in B
               PROVE  deliveries[d].status = "delivering" /\ row[d].status \in Status
                      /\ row[d].status # "delivering" /\ row[d].lease = NULL
                      /\ row[d].generation >= deliveries[d].generation
    BY Zenon
  <2>1. deliveries[d].generation \in Nat /\ LeaseEnds(d, row[d], attempt[d])
    BY <1>1, Zenon
  <2> QED
    BY <2>1 DEF LeaseEnds, Status
<1>3. \A grant \in grants : grant.delivery \in Delivery
  BY Zenon DEF IInv, TypeOK, Grant
<1>4. LeaseTupleConsistent'
  BY <1>2 DEF IInv, LeaseTupleConsistent
<1>5. MissingIsEmpty'
  BY <1>2, <1>3 DEF IInv, MissingIsEmpty, Missing, Status
<1>6. OneLeasePerGeneration'
  BY DEF IInv, OneLeasePerGeneration
<1>7. AuditsReached'
  <2>1. \A d \in Delivery : \A audit \in replay_audits[d] : audit.to_generation \in Nat
    BY DEF IInv, TypeOK, AuditRow
  <2>2. \A d \in B : row[d].generation \in Nat
    BY Zenon DEF DeliveryRow
  <2> QED
    BY <1>1, <1>2, <2>1, <2>2 DEF IInv, AuditsReached
<1>8. EveryLeaseAccountedFor'
  <2> SUFFICES ASSUME NEW grant \in grants, Live(grant.delivery)'
               PROVE  \/ /\ deliveries'[grant.delivery].lease # NULL
                         /\ deliveries'[grant.delivery].lease.token = grant.token
                         /\ deliveries'[grant.delivery].generation = grant.generation
                      \/ \E i \in DOMAIN delivery_attempts'[grant.delivery] :
                           /\ delivery_attempts'[grant.delivery][i].lease_token = grant.token
                           /\ delivery_attempts'[grant.delivery][i].generation = grant.generation
    BY Zenon DEF EveryLeaseAccountedFor
  <2>1. CASE grant.delivery \notin B
    BY <1>3, <2>1 DEF IInv, EveryLeaseAccountedFor, Live
  <2>2. CASE grant.delivery \in B
    <3> DEFINE d == grant.delivery
    <3>1. d \in B /\ deliveries[d].status \in Status
      BY <1>2, <2>2, Zenon DEF Status
    <3>2. CASE deliveries[d].lease.token = grant.token /\ deliveries[d].generation = grant.generation
      <4>1. Len(delivery_attempts[d]) + 1 \in DOMAIN delivery_attempts'[d]
            /\ delivery_attempts'[d][Len(delivery_attempts[d]) + 1] = attempt[d]
        BY <1>1, <3>1, AppendAttempt
      <4>2. attempt[d].lease_token = grant.token /\ attempt[d].generation = grant.generation
        BY <3>1, <3>2 DEF LeaseEnds
      <4> QED
        BY <4>1, <4>2, Zenon
    <3>3. CASE \E i \in DOMAIN delivery_attempts[d] :
                 /\ delivery_attempts[d][i].lease_token = grant.token
                 /\ delivery_attempts[d][i].generation = grant.generation
      <4>1. PICK i \in DOMAIN delivery_attempts[d] :
                 /\ delivery_attempts[d][i].lease_token = grant.token
                 /\ delivery_attempts[d][i].generation = grant.generation
        BY <3>3, Zenon
      <4>2. i \in DOMAIN delivery_attempts'[d] /\ delivery_attempts'[d][i] = delivery_attempts[d][i]
        BY <1>1, <3>1, AppendAttempt
      <4> QED
        BY <4>1, <4>2, Zenon
    <3> QED
      BY <3>1, <3>2, <3>3, Zenon DEF IInv, EveryLeaseAccountedFor, Live
  <2> QED
    BY <2>1, <2>2, Zenon
<1>9. AttemptsInGenerationOrder'
  <2> SUFFICES ASSUME NEW d \in Delivery
               PROVE  LET attempts == delivery_attempts'[d]
                      IN  /\ \A i, j \in DOMAIN attempts :
                               i < j => attempts[i].generation < attempts[j].generation
                          /\ \A i \in DOMAIN attempts :
                               /\ attempts[i].generation <= deliveries'[d].generation
                               /\ deliveries'[d].status \in Active =>
                                    attempts[i].generation < deliveries'[d].generation
    BY Zenon DEF AttemptsInGenerationOrder
  <2>1. CASE d \notin B
    BY <2>1, Zenon DEF IInv, AttemptsInGenerationOrder
  <2>2. CASE d \in B
    <3> DEFINE q == delivery_attempts[d]
               n == Len(delivery_attempts[d]) + 1
    <3>1. /\ q \in Seq(AttemptRow)
          /\ \A i, j \in DOMAIN q : i < j => q[i].generation < q[j].generation
          /\ \A i \in DOMAIN q : q[i].generation < deliveries[d].generation
      BY <1>1, <1>2, <2>2 DEF IInv, AttemptsInGenerationOrder, Active
    <3>2. /\ DOMAIN delivery_attempts'[d] = DOMAIN q \cup {n}
          /\ delivery_attempts'[d][n].generation = deliveries[d].generation
          /\ \A i \in DOMAIN q : delivery_attempts'[d][i] = q[i] /\ i \in Nat /\ i < n
          /\ n \in Nat
      BY <1>1, <2>2, AppendAttempt DEF LeaseEnds
    <3> HIDE DEF q, n
    <3>3. \A i, j \in DOMAIN delivery_attempts'[d] :
            i < j => delivery_attempts'[d][i].generation < delivery_attempts'[d][j].generation
      BY <3>1, <3>2
    <3>4. \A i \in DOMAIN delivery_attempts'[d] :
            delivery_attempts'[d][i].generation \in Nat
            /\ delivery_attempts'[d][i].generation <= deliveries[d].generation
      BY <1>1, <3>1, <3>2 DEF q
    <3>5. deliveries'[d].generation >= deliveries[d].generation
          /\ deliveries'[d].generation \in Nat
          /\ (deliveries'[d].status \in Active => deliveries'[d].generation > deliveries[d].generation)
      BY <1>1, <2>2 DEF LeaseEnds, Active
    <3> QED
      BY <1>1, <3>3, <3>4, <3>5
  <2> QED
    BY <2>1, <2>2, Zenon
<1>10. SuccessIsRecorded'
  <2> SUFFICES ASSUME NEW d \in Delivery, deliveries'[d].status = "succeeded"
               PROVE  /\ Len(delivery_attempts'[d]) > 0
                      /\ delivery_attempts'[d][Len(delivery_attempts'[d])].result_class = "succeeded"
                      /\ delivery_attempts'[d][Len(delivery_attempts'[d])].generation
                           = deliveries'[d].generation
    BY Zenon DEF SuccessIsRecorded
  <2>1. CASE d \notin B
    BY <2>1 DEF IInv, SuccessIsRecorded
  <2>2. CASE d \in B
    <3>1. /\ attempt[d].result_class = "succeeded"
          /\ attempt[d].generation = deliveries'[d].generation
      BY <2>2 DEF LeaseEnds
    <3>2. /\ Len(delivery_attempts'[d]) > 0
          /\ delivery_attempts'[d][Len(delivery_attempts'[d])] = attempt[d]
      BY <1>1, <2>2, AppendAttempt
    <3> QED
      BY <3>1, <3>2, Zenon
  <2> QED
    BY <2>1, <2>2, Zenon
<1> QED
  BY <1>4, <1>5, <1>6, <1>7, <1>8, <1>9, <1>10, Zenon

\* A fenced result ends the lease its grant was given.
LEMMA CompleteIInv ==
  ASSUME IInv, NEW grant \in inflight, NEW class \in ResultClass, NEW row \in DeliveryRow,
         completeResult(grant, class, row), row.lease = NULL,
         LET old == deliveries[grant.delivery]
         IN  \/ row.status = "pending" /\ row.generation = old.generation + 1
             \/ row.status = "failed_permanent" /\ row.generation = old.generation
             \/ row.status = "succeeded" /\ row.generation = old.generation /\ class = "succeeded"
  PROVE  IInv'
<1> DEFINE d == grant.delivery
           a == Attempt(grant, class)
<1>1. grant \in Grant /\ d \in Delivery /\ grant.generation \in Nat
  BY Zenon DEF IInv, TypeOK, Grant
<1>2. a \in AttemptRow /\ a.generation = grant.generation /\ a.lease_token = grant.token
      /\ a.result_class = class
  BY <1>1 DEF Attempt, AttemptRow, Grant
<1>3. TypeOK'
  BY CompleteType DEF IInv
<1>4. /\ deliveries'[d] = row
      /\ delivery_attempts'[d] = Append(delivery_attempts[d], a)
      /\ \A e \in Delivery \ {d} : /\ deliveries'[e] = deliveries[e]
                                   /\ delivery_attempts'[e] = delivery_attempts[e]
      /\ UNCHANGED <<now, outbox_events, replay_audits, grants>>
      /\ Signals' = Signals
  BY <1>1 DEF completeResult, IInv, TypeOK, Signals
<1>5. /\ deliveries[d].status = "delivering"
      /\ deliveries[d].generation = grant.generation
      /\ deliveries[d].lease.token = grant.token
  BY Zenon DEF completeResult, LeaseHeld
<1>6. LeaseEnds(d, row, a)
  BY <1>2, <1>5 DEF LeaseEnds
<1> HIDE DEF d, a
<1>7. /\ LeaseTupleConsistent'
      /\ MissingIsEmpty'
      /\ OneLeasePerGeneration'
      /\ EveryLeaseAccountedFor'
      /\ AttemptsInGenerationOrder'
      /\ SuccessIsRecorded'
      /\ AuditsReached'
  <2> DEFINE rows == [e \in {d} |-> row]
             attempts == [e \in {d} |-> a]
  <2>1. \A e \in {d} : /\ rows[e] \in DeliveryRow
                       /\ attempts[e] \in AttemptRow
                       /\ LeaseEnds(e, rows[e], attempts[e])
                       /\ deliveries'[e] = rows[e]
                       /\ delivery_attempts'[e] = Append(delivery_attempts[e], attempts[e])
    BY <1>2, <1>4, <1>6, Zenon
  <2>2. {d} \in SUBSET Delivery
    BY <1>1, Zenon DEF d
  <2>3. \A e \in Delivery \ {d} : /\ deliveries'[e] = deliveries[e]
                                  /\ delivery_attempts'[e] = delivery_attempts[e]
    BY <1>4
  <2>4. UNCHANGED <<replay_audits, grants>>
    BY <1>4, Zenon
  <2>5. LeasesEnd({d}, rows, attempts)
    BY <2>1, <2>2, <2>3, <2>4, Zenon DEF LeasesEnd
  <2> HIDE DEF rows, attempts
  <2> QED
    BY <2>5, LeaseEndsIInv, Zenon
<1>8. NoEarlySignal' /\ FirstSignalExists'
  <2>1. /\ d \in Delivery /\ deliveries[d].generation \in Nat
        /\ row.status \in {"pending", "failed_permanent", "succeeded"}
        /\ row.generation \in {deliveries[d].generation, deliveries[d].generation + 1}
        /\ row.status = "pending" => row.generation = deliveries[d].generation + 1
    BY <1>1, <1>5, <1>6 DEF LeaseEnds, d
  <2>2. \A s \in Signals' : Live(s[1])' /\ s[2] <= deliveries'[s[1]].generation
    <3> SUFFICES ASSUME NEW s \in Signals
                 PROVE  Live(s[1])' /\ s[2] <= deliveries'[s[1]].generation
      BY <1>4, Zenon
    <3>1. s[1] \in Delivery /\ Live(s[1]) /\ s[2] \in Nat /\ s[2] <= deliveries[s[1]].generation
      BY SignalBounds, Zenon
    <3>2. CASE s[1] = d
      <4>1. deliveries'[s[1]] = row /\ Live(s[1])'
        BY <1>4, <2>1, <3>2, Zenon DEF Live, Status
      <4>2. s[2] <= row.generation
        BY <2>1, <3>1, <3>2
      <4> QED
        BY <4>1, <4>2, Zenon
    <3>3. CASE s[1] # d
      BY <1>4, <3>1, <3>3 DEF Live
    <3> QED
      BY <3>2, <3>3, Zenon
  <2>3. row.status = "pending" => <<d, row.generation>> \notin Signals /\ row.generation # 0
    BY <2>1, NextUnsignalled
  <2>4. \A e \in Delivery : deliveries'[e].status = "pending" /\ Current(e)' \in Signals' =>
          deliveries'[e].next_attempt_at <= now'
    BY <1>4, <2>3, Zenon DEF IInv, NoEarlySignal, Current
  <2>5. FirstSignalExists'
    BY <1>4, <2>3 DEF IInv, FirstSignalExists, Current
  <2> QED
    BY <2>2, <2>4, <2>5, Zenon DEF NoEarlySignal
<1>9. PublishedIsUnleased'
  BY <1>4, Zenon DEF IInv, PublishedIsUnleased
<1> QED
  BY <1>3, <1>7, <1>8, <1>9 DEF IInv

\* Each of the three results preserves the inductive invariant.
LEMMA CompleteStepIInv ==
  ASSUME IInv, NEW grant \in inflight,
         \/ CompleteSuccess(grant)
         \/ CompletePermanent(grant)
         \/ \E t \in 0..MaxTime : CompleteRetry(grant, t)
  PROVE  IInv'
<1> DEFINE old == deliveries[grant.delivery]
<1>1. old \in DeliveryRow /\ now \in Nat
  BY DEF IInv, TypeOK, Grant
<1>2. CASE CompleteSuccess(grant)
  <2>1. completeResult(grant, "succeeded", Completed(old, "succeeded"))
    BY <1>2, Zenon DEF CompleteSuccess
  <2>2. /\ Completed(old, "succeeded") \in DeliveryRow
        /\ Completed(old, "succeeded").status = "succeeded"
        /\ Completed(old, "succeeded").generation = old.generation
        /\ Completed(old, "succeeded").lease = NULL
    BY <1>1, CompletedRow DEF Status
  <2> QED
    BY <2>1, <2>2, CompleteIInv DEF ResultClass
<1>3. CASE CompletePermanent(grant)
  <2>1. completeResult(grant, "permanent_failure", Completed(old, "failed_permanent"))
    BY <1>3, Zenon DEF CompletePermanent
  <2>2. /\ Completed(old, "failed_permanent") \in DeliveryRow
        /\ Completed(old, "failed_permanent").status = "failed_permanent"
        /\ Completed(old, "failed_permanent").generation = old.generation
        /\ Completed(old, "failed_permanent").lease = NULL
    BY <1>1, CompletedRow DEF Status
  <2> QED
    BY <2>1, <2>2, CompleteIInv DEF ResultClass
<1>4. CASE \E t \in 0..MaxTime : CompleteRetry(grant, t)
  <2>1. PICK t \in 0..MaxTime : CompleteRetry(grant, t)
    BY <1>4, Zenon
  <2>2. t \in Nat
    BY LimitAssumption
  <2>3. completeResult(grant, "retryable_failure", Retried(old, t))
    BY <2>1, Zenon DEF CompleteRetry
  <2>4. /\ Retried(old, t) \in DeliveryRow
        /\ Retried(old, t).status = "pending"
        /\ Retried(old, t).generation = old.generation + 1
        /\ Retried(old, t).lease = NULL
    BY <1>1, <2>2, RetriedRow
  <2> QED
    BY <2>3, <2>4, CompleteIInv DEF ResultClass
<1> QED
  BY <1>2, <1>3, <1>4

=============================================================================
