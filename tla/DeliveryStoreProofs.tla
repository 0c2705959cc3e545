------------------------ MODULE DeliveryStoreProofs -------------------------
(***************************************************************************)
(* The theorems about DeliveryStore, for every value of its constants: the *)
(* other steps preserve the inductive invariant, what follows from it, and *)
(* that the store implements DeliveryLifecycle.                            *)
(***************************************************************************)
EXTENDS DeliveryStoreLifecycle, DeliveryStoreLeases

-----------------------------------------------------------------------------
\* The scheduler fails expired rows and signals due ones, whose retry time is past.
LEMMA ScheduleIInv ==
  ASSUME IInv, NEW batch \in SUBSET Delivery, ScheduleDueRetries(batch)
  PROVE  IInv'
<1>1. /\ TypeOK'
      /\ Signals' = Signals \cup {Current(d) : d \in batch}
      /\ \A s \in Signals : outbox_events'[s] = outbox_events[s]
      /\ \A s \in Signals' \ Signals : outbox_events'[s].published_at = NULL
                                       /\ outbox_events'[s].lease = NULL
  BY ScheduleType, Zenon DEF IInv
<1>2. \A d \in Delivery : /\ deliveries'[d].generation = deliveries[d].generation
                          /\ deliveries'[d].lease = deliveries[d].lease
                          /\ \/ deliveries'[d] = deliveries[d]
                             \/ /\ deliveries[d].status = "pending"
                                /\ deliveries'[d].status = "failed_permanent"
  BY ExhaustedRow, Zenon DEF ScheduleDueRetries, RetryExpired, IInv, TypeOK
<1>3. UNCHANGED <<now, delivery_attempts, replay_audits, grants>>
  BY Zenon DEF ScheduleDueRetries, clients
<1>4. \A d \in batch : /\ deliveries[d].status = "pending"
                       /\ deliveries[d].next_attempt_at <= now
  BY Zenon DEF ScheduleDueRetries, Batches, RetryDue
<1>5. \A grant \in grants : grant.delivery \in Delivery
  BY Zenon DEF IInv, TypeOK, Grant
<1>6. LeaseTupleConsistent' /\ OneLeasePerGeneration' /\ AuditsReached'
  BY <1>2, <1>3 DEF IInv, LeaseTupleConsistent, OneLeasePerGeneration, AuditsReached
<1>7. MissingIsEmpty'
  BY <1>2, <1>3, <1>5 DEF IInv, MissingIsEmpty, Missing
<1>8. EveryLeaseAccountedFor'
  BY <1>2, <1>3, <1>5 DEF IInv, EveryLeaseAccountedFor, Live, Status
<1>9. AttemptsInGenerationOrder'
  BY <1>2, <1>3 DEF IInv, AttemptsInGenerationOrder, Active
<1>10. SuccessIsRecorded'
  BY <1>2, <1>3 DEF IInv, SuccessIsRecorded
<1>11. NoEarlySignal'
  <2>1. \A s \in Signals' : s[1] \in Delivery /\ Live(s[1]) /\ s[2] <= deliveries[s[1]].generation
    <3>1. ASSUME NEW s \in Signals
          PROVE  s[1] \in Delivery /\ Live(s[1]) /\ s[2] <= deliveries[s[1]].generation
      BY Zenon DEF IInv, TypeOK, NoEarlySignal
    <3>2. ASSUME NEW d \in batch
          PROVE  /\ Current(d)[1] \in Delivery /\ Live(Current(d)[1])
                 /\ Current(d)[2] <= deliveries[Current(d)[1]].generation
      <4>1. deliveries[d].generation \in Nat
        BY Zenon DEF IInv, TypeOK, DeliveryRow
      <4> QED
        BY <1>4, <4>1 DEF Current, Live, Status
    <3> QED
      BY <1>1, <3>1, <3>2, Zenon
  <2>2. \A s \in Signals' : Live(s[1])' /\ s[2] <= deliveries'[s[1]].generation
    BY <1>2, <2>1, Zenon DEF Live, Status
  <2>3. ASSUME NEW d \in Delivery, deliveries'[d].status = "pending", Current(d)' \in Signals'
        PROVE  deliveries'[d].next_attempt_at <= now'
    <3>1. deliveries'[d] = deliveries[d] /\ now' = now
      BY <1>2, <1>3, <2>3, Zenon
    <3>2. CASE Current(d) \in Signals
      BY <2>3, <3>1, <3>2, Zenon DEF IInv, NoEarlySignal
    <3>3. CASE Current(d) \notin Signals
      <4>1. PICK e \in batch : Current(d) = Current(e)
        BY <1>1, <2>3, <3>1, <3>3, Zenon DEF Current
      <4>2. d = e
        BY <4>1, Zenon DEF Current
      <4> QED
        BY <1>4, <3>1, <4>2, Zenon
    <3> QED
      BY <3>2, <3>3, Zenon
  <2> QED
    BY <2>2, <2>3, Zenon DEF NoEarlySignal
<1>12. PublishedIsUnleased'
  BY <1>1, InsertUnleased, Zenon DEF IInv
<1>13. FirstSignalExists'
  BY <1>1, <1>2, Zenon DEF IInv, FirstSignalExists, Current
<1> QED
  BY <1>1, <1>6, <1>7, <1>8, <1>9, <1>10, <1>11, <1>12, <1>13, Zenon DEF IInv

\* Recovery ends expired leases and signals the generations it opens.
LEMMA RecoverIInv ==
  ASSUME IInv, NEW batch \in SUBSET Delivery, RecoverExpiredDeliveries(batch)
  PROVE  IInv'
<1> DEFINE S == {<<d, deliveries[d].generation + 1>> :
                   d \in {e \in batch : deliveries[e].retry_deadline > now}}
<1>1. /\ TypeOK'
      /\ Signals' = Signals \cup S
      /\ \A s \in Signals : outbox_events'[s] = outbox_events[s]
      /\ \A s \in Signals' \ Signals : outbox_events'[s].published_at = NULL
                                       /\ outbox_events'[s].lease = NULL
  BY RecoverType, Zenon DEF IInv
<1>2. /\ \A d \in batch : /\ deliveries'[d] = Recovered(deliveries[d])
                          /\ delivery_attempts'[d]
                               = Append(delivery_attempts[d], RecoveryAttempt(deliveries[d]))
      /\ \A d \in Delivery \ batch : /\ deliveries'[d] = deliveries[d]
                                     /\ delivery_attempts'[d] = delivery_attempts[d]
      /\ UNCHANGED <<now, replay_audits, grants>>
  BY Zenon DEF RecoverExpiredDeliveries, clients
<1>3. ASSUME NEW d \in batch
      PROVE  /\ Recovered(deliveries[d]) \in DeliveryRow
             /\ RecoveryAttempt(deliveries[d]) \in AttemptRow
             /\ LeaseEnds(d, Recovered(deliveries[d]), RecoveryAttempt(deliveries[d]))
             /\ deliveries[d].generation \in Nat
             /\ Recovered(deliveries[d]).next_attempt_at = now
             /\ \/ /\ deliveries[d].retry_deadline > now
                   /\ Recovered(deliveries[d]).status = "pending"
                   /\ Recovered(deliveries[d]).generation = deliveries[d].generation + 1
                \/ /\ ~(deliveries[d].retry_deadline > now)
                   /\ Recovered(deliveries[d]).status = "failed_permanent"
                   /\ Recovered(deliveries[d]).generation = deliveries[d].generation
  <2>1. /\ deliveries[d] \in DeliveryRow
        /\ deliveries[d].generation \in Nat
        /\ deliveries[d].retry_deadline \in Nat
        /\ now \in Nat
    BY Zenon DEF IInv, TypeOK, DeliveryRow
  <2>2. deliveries[d].status = "delivering"
    BY Zenon DEF RecoverExpiredDeliveries, Batches, LeaseExpired
  <2>3. deliveries[d].lease \in Lease
    BY <2>1, <2>2, Zenon DEF IInv, LeaseTupleConsistent, DeliveryRow
  <2>4. /\ RecoveryAttempt(deliveries[d]) \in AttemptRow
        /\ RecoveryAttempt(deliveries[d]).generation = deliveries[d].generation
        /\ RecoveryAttempt(deliveries[d]).lease_token = deliveries[d].lease.token
    BY <2>1, <2>3, Zenon DEF RecoveryAttempt, AttemptRow, Lease, ResultClass
  <2>5. /\ Recovered(deliveries[d]) \in DeliveryRow
        /\ Recovered(deliveries[d]).lease = NULL
        /\ Recovered(deliveries[d]).next_attempt_at = now
        /\ deliveries[d].retry_deadline <= now =>
             /\ Recovered(deliveries[d]).status = "failed_permanent"
             /\ Recovered(deliveries[d]).generation = deliveries[d].generation
        /\ deliveries[d].retry_deadline > now =>
             /\ Recovered(deliveries[d]).status = "pending"
             /\ Recovered(deliveries[d]).generation = deliveries[d].generation + 1
    BY <2>1, RecoveredRow, Zenon
  <2>6. \/ /\ deliveries[d].retry_deadline > now
           /\ Recovered(deliveries[d]).status = "pending"
           /\ Recovered(deliveries[d]).generation = deliveries[d].generation + 1
        \/ /\ ~(deliveries[d].retry_deadline > now)
           /\ Recovered(deliveries[d]).status = "failed_permanent"
           /\ Recovered(deliveries[d]).generation = deliveries[d].generation
    BY <2>1, <2>5
  <2>7. LeaseEnds(d, Recovered(deliveries[d]), RecoveryAttempt(deliveries[d]))
    BY <2>2, <2>4, <2>5, <2>6, Zenon DEF LeaseEnds
  <2> QED
    BY <2>1, <2>4, <2>5, <2>6, <2>7, Zenon
<1>4. \A d \in batch :
        /\ deliveries[d].generation \in Nat
        /\ deliveries'[d].next_attempt_at = now
        /\ \/ /\ deliveries[d].retry_deadline > now
              /\ deliveries'[d].status = "pending"
              /\ deliveries'[d].generation = deliveries[d].generation + 1
           \/ /\ ~(deliveries[d].retry_deadline > now)
              /\ deliveries'[d].status = "failed_permanent"
              /\ deliveries'[d].generation = deliveries[d].generation
  <2> SUFFICES ASSUME NEW d \in batch
               PROVE  /\ deliveries[d].generation \in Nat
                      /\ deliveries'[d].next_attempt_at = now
                      /\ \/ /\ deliveries[d].retry_deadline > now
                            /\ deliveries'[d].status = "pending"
                            /\ deliveries'[d].generation = deliveries[d].generation + 1
                         \/ /\ ~(deliveries[d].retry_deadline > now)
                            /\ deliveries'[d].status = "failed_permanent"
                            /\ deliveries'[d].generation = deliveries[d].generation
    BY Zenon
  <2>1. deliveries'[d] = Recovered(deliveries[d])
    BY <1>2, Zenon
  <2> QED
    BY <1>3, <2>1, Zenon
<1>5. /\ LeaseTupleConsistent'
      /\ MissingIsEmpty'
      /\ OneLeasePerGeneration'
      /\ EveryLeaseAccountedFor'
      /\ AttemptsInGenerationOrder'
      /\ SuccessIsRecorded'
      /\ AuditsReached'
  <2> DEFINE rows == [e \in batch |-> Recovered(deliveries[e])]
             attempts == [e \in batch |-> RecoveryAttempt(deliveries[e])]
  <2>1. \A e \in batch : /\ rows[e] \in DeliveryRow
                         /\ attempts[e] \in AttemptRow
                         /\ LeaseEnds(e, rows[e], attempts[e])
                         /\ deliveries'[e] = rows[e]
                         /\ delivery_attempts'[e] = Append(delivery_attempts[e], attempts[e])
    BY <1>2, <1>3, Zenon
  <2>2. \A e \in Delivery \ batch : /\ deliveries'[e] = deliveries[e]
                                     /\ delivery_attempts'[e] = delivery_attempts[e]
    BY <1>2, Zenon
  <2>3. UNCHANGED <<replay_audits, grants>>
    BY <1>2, Zenon
  <2>4. batch \in SUBSET Delivery
    BY <1>2, Zenon
  <2>5. LeasesEnd(batch, rows, attempts)
    BY <2>1, <2>2, <2>3, <2>4, Zenon DEF LeasesEnd
  <2> HIDE DEF rows, attempts
  <2> QED
    BY <2>5, LeaseEndsIInv, Zenon
<1>6. \A d \in Delivery : /\ deliveries[d].generation \in Nat
                          /\ deliveries'[d].generation \in Nat
                          /\ deliveries[d].generation <= deliveries'[d].generation
                          /\ Live(d) => Live(d)'
  <2> SUFFICES ASSUME NEW d \in Delivery
               PROVE  /\ deliveries[d].generation \in Nat
                      /\ deliveries'[d].generation \in Nat
                      /\ deliveries[d].generation <= deliveries'[d].generation
                      /\ Live(d) => Live(d)'
    BY Zenon
  <2>1. deliveries[d].generation \in Nat
    BY Zenon DEF IInv, TypeOK, DeliveryRow
  <2>2. CASE d \in batch
    BY <1>4, <2>1, <2>2 DEF Live, Status
  <2>3. CASE d \notin batch
    BY <1>2, <2>1, <2>3 DEF Live
  <2> QED
    BY <2>2, <2>3, Zenon
<1>7. NoEarlySignal'
  <2>1. ASSUME NEW s \in Signals'
        PROVE  Live(s[1])' /\ s[2] <= deliveries'[s[1]].generation
    <3>1. CASE s \in Signals
      <4>1. s[1] \in Delivery /\ Live(s[1]) /\ s[2] \in Nat /\ s[2] <= deliveries[s[1]].generation
        BY <3>1, SignalBounds, Zenon
      <4> QED
        BY <1>6, <4>1
    <3>2. CASE s \notin Signals
      <4>1. PICK d \in batch : /\ deliveries[d].retry_deadline > now
                               /\ s = <<d, deliveries[d].generation + 1>>
        BY <1>1, <2>1, <3>2, Zenon
      <4>2. /\ s[1] = d /\ s[2] = deliveries[d].generation + 1
            /\ deliveries'[d].status = "pending"
            /\ deliveries'[d].generation = deliveries[d].generation + 1
        BY <1>4, <4>1, Zenon
      <4>3. deliveries'[d].generation \in Nat
        BY <1>6, Zenon
      <4> QED
        BY <4>2, <4>3 DEF Live, Status
    <3> QED
      BY <3>1, <3>2, Zenon
  <2>2. ASSUME NEW d \in Delivery, deliveries'[d].status = "pending", Current(d)' \in Signals'
        PROVE  deliveries'[d].next_attempt_at <= now'
    <3>1. CASE d \in batch
      <4>1. now \in Nat /\ now' = now
        BY <1>2, Zenon DEF IInv, TypeOK
      <4> QED
        BY <1>4, <3>1, <4>1
    <3>2. CASE d \notin batch
      <4>1. Current(d)' = Current(d) /\ deliveries'[d] = deliveries[d] /\ now' = now
        BY <1>2, <3>2, Zenon DEF Current
      <4>2. Current(d) \in Signals
        BY <1>1, <2>2, <3>2, <4>1 DEF Current
      <4> QED
        BY <2>2, <4>1, <4>2 DEF IInv, NoEarlySignal
    <3> QED
      BY <3>1, <3>2, Zenon
  <2> QED
    BY <2>1, <2>2, Zenon DEF NoEarlySignal
<1>8. PublishedIsUnleased'
  BY <1>1, InsertUnleased, Zenon DEF IInv
<1>9. FirstSignalExists'
  <2>1. \A d \in batch : deliveries'[d].status = "pending" => deliveries'[d].generation # 0
    BY <1>4
  <2> QED
    BY <1>1, <1>2, <2>1, Zenon DEF IInv, FirstSignalExists, Current
<1> QED
  BY <1>1, <1>5, <1>7, <1>8, <1>9, Zenon DEF IInv

\* Replay opens the next generation of a delivery that has no lease.
LEMMA ReplayIInv ==
  ASSUME IInv, NEW d \in Delivery, NEW t \in 0..now, Replay(d, t)
  PROVE  IInv'
<1>1. /\ TypeOK'
      /\ Signals' = Signals \cup {<<d, deliveries[d].generation + 1>>}
      /\ \A s \in Signals : outbox_events'[s] = outbox_events[s]
      /\ \A s \in Signals' \ Signals : outbox_events'[s].published_at = NULL
                                       /\ outbox_events'[s].lease = NULL
  BY ReplayType, Zenon DEF IInv
<1>2. /\ deliveries[d].status = "failed_permanent"
      /\ deliveries[d].lease = NULL
      /\ deliveries[d].generation \in Nat
      /\ t \in Nat /\ t <= now
      /\ deliveries[d] \in DeliveryRow
  BY DEF IInv, TypeOK, Replay, LeaseTupleConsistent, DeliveryRow
<1>3. /\ deliveries'[d].status = "pending"
      /\ deliveries'[d].generation = deliveries[d].generation + 1
      /\ deliveries'[d].next_attempt_at = t
      /\ deliveries'[d].lease = NULL
  <2>1. deliveries'[d] = Replayed(deliveries[d], t)
    BY Zenon DEF Replay, IInv, TypeOK
  <2> QED
    BY <1>2, <2>1, ReplayedRow
<1>4. /\ \A e \in Delivery : e # d => /\ deliveries'[e] = deliveries[e]
                                      /\ replay_audits'[e] = replay_audits[e]
      /\ \A a \in replay_audits'[d] : a \in replay_audits[d]
                                      \/ a.to_generation = deliveries[d].generation + 1
      /\ UNCHANGED <<now, delivery_attempts, grants>>
  BY DEF Replay, IInv, TypeOK, clients
<1>5. \A grant \in grants : grant.delivery \in Delivery
  BY Zenon DEF IInv, TypeOK, Grant
<1>6. LeaseTupleConsistent' /\ OneLeasePerGeneration' /\ SuccessIsRecorded'
  BY <1>2, <1>3, <1>4 DEF IInv, LeaseTupleConsistent, OneLeasePerGeneration, SuccessIsRecorded
<1>7. MissingIsEmpty'
  BY <1>2, <1>3, <1>4, <1>5 DEF IInv, MissingIsEmpty, Missing
<1>8. AuditsReached'
  <2>1. \A a \in replay_audits[d] : a.to_generation \in Nat /\ a.to_generation <= deliveries[d].generation
    BY DEF IInv, TypeOK, AuditRow, AuditsReached
  <2>2. ASSUME NEW a \in replay_audits'[d] PROVE a.to_generation <= deliveries'[d].generation
    <3>1. a \in replay_audits[d] \/ a.to_generation = deliveries[d].generation + 1
      BY <1>4, Zenon
    <3> QED
      BY <1>2, <1>3, <2>1, <3>1
  <2> QED
    BY <1>4, <2>2 DEF IInv, AuditsReached
<1>9. EveryLeaseAccountedFor'
  BY <1>2, <1>3, <1>4, <1>5 DEF IInv, EveryLeaseAccountedFor, Live, Status
<1>10. AttemptsInGenerationOrder'
  <2>1. \A i \in DOMAIN delivery_attempts[d] : delivery_attempts[d][i].generation \in Nat
    BY AttemptGenerations, Zenon DEF IInv
  <2>2. \A i \in DOMAIN delivery_attempts[d] :
          delivery_attempts[d][i].generation < deliveries[d].generation + 1
    BY <1>2, <2>1 DEF IInv, AttemptsInGenerationOrder
  <2>3. \A i \in DOMAIN delivery_attempts[d] :
          delivery_attempts[d][i].generation <= deliveries[d].generation + 1
    BY <1>2, <2>1, <2>2
  <2> QED
    BY <1>3, <1>4, <2>2, <2>3 DEF IInv, AttemptsInGenerationOrder
<1>11. NoEarlySignal'
  <2>1. deliveries'[d].generation \in Nat /\ Live(d)'
    BY <1>2, <1>3 DEF Live, Status
  <2>2. ASSUME NEW s \in Signals' PROVE Live(s[1])' /\ s[2] <= deliveries'[s[1]].generation
    <3>1. CASE s \notin Signals
      <4>1. s[1] = d /\ s[2] = deliveries'[d].generation
        BY <1>1, <1>3, <3>1
      <4> QED
        BY <2>1, <4>1
    <3>2. CASE s \in Signals
      <4>1. s[1] \in Delivery /\ Live(s[1]) /\ s[2] \in Nat /\ s[2] <= deliveries[s[1]].generation
        BY <3>2, SignalBounds, Zenon
      <4>2. CASE s[1] = d
        BY <1>2, <1>3, <2>1, <4>1, <4>2
      <4>3. CASE s[1] # d
        BY <1>4, <4>1, <4>3 DEF Live
      <4> QED
        BY <4>2, <4>3, Zenon
    <3> QED
      BY <3>1, <3>2, Zenon
  <2>3. \A e \in Delivery : e # d /\ deliveries'[e].status = "pending" /\ Current(e)' \in Signals' =>
          deliveries'[e].next_attempt_at <= now'
    BY <1>1, <1>4 DEF IInv, NoEarlySignal, Current
  <2> QED
    BY <1>2, <1>3, <1>4, <2>2, <2>3 DEF NoEarlySignal
<1>12. PublishedIsUnleased'
  BY <1>1, InsertUnleased DEF IInv
<1>13. FirstSignalExists'
  <2>1. deliveries'[d].generation # 0
    BY <1>2, <1>3
  <2> QED
    BY <1>1, <1>4, <2>1 DEF IInv, FirstSignalExists, Current
<1> QED
  BY <1>1, <1>6, <1>7, <1>8, <1>9, <1>10, <1>11, <1>12, <1>13, Zenon DEF IInv

\* Retention leaves nothing of the deliveries it removes.
LEMMA DeleteIInv ==
  ASSUME IInv, NEW batch \in SUBSET Delivery, DeleteExpiredTerminal(batch)
  PROVE  IInv'
<1>1. /\ TypeOK'
      /\ Signals' = {s \in Signals : s[1] \notin batch}
      /\ \A s \in Signals' : outbox_events'[s] = outbox_events[s]
  BY DeleteType, Zenon DEF IInv
<1>2. \A d \in batch : /\ deliveries'[d].status = "deleted"
                       /\ deliveries'[d].lease = NULL
                       /\ delivery_attempts'[d] = <<>>
                       /\ replay_audits'[d] = {}
  BY MissingRow, Zenon DEF DeleteExpiredTerminal, Missing
<1>3. /\ \A d \in Delivery \ batch : /\ deliveries'[d] = deliveries[d]
                                     /\ delivery_attempts'[d] = delivery_attempts[d]
                                     /\ replay_audits'[d] = replay_audits[d]
      /\ UNCHANGED <<now, grants>>
  BY DEF DeleteExpiredTerminal, clients
<1>4. \A grant \in grants : grant.delivery \in Delivery
  BY DEF IInv, TypeOK, Grant
<1>5. LeaseTupleConsistent' /\ OneLeasePerGeneration' /\ AuditsReached'
  BY <1>2, <1>3 DEF IInv, LeaseTupleConsistent, OneLeasePerGeneration, AuditsReached
<1>6. MissingIsEmpty'
  BY <1>2, <1>3, <1>4 DEF IInv, MissingIsEmpty
<1>7. EveryLeaseAccountedFor'
  BY <1>2, <1>3, <1>4 DEF IInv, EveryLeaseAccountedFor, Live, Status
<1>8. AttemptsInGenerationOrder' /\ SuccessIsRecorded'
  <2>1. \A d \in batch : DOMAIN delivery_attempts'[d] = {}
    BY <1>2
  <2>2. AttemptsInGenerationOrder'
    BY <1>3, <2>1 DEF IInv, AttemptsInGenerationOrder
  <2>3. SuccessIsRecorded'
    BY <1>2, <1>3 DEF IInv, SuccessIsRecorded
  <2> QED
    BY <2>2, <2>3
<1>9. NoEarlySignal' /\ FirstSignalExists'
  <2>1. \A s \in Signals' : s \in Signals /\ s[1] \in Delivery \ batch
    BY <1>1 DEF IInv, TypeOK
  <2>2. \A s \in Signals' : Live(s[1])' /\ s[2] <= deliveries'[s[1]].generation
    BY <1>3, <2>1 DEF IInv, NoEarlySignal, Live
  <2>3. \A d \in Delivery : deliveries'[d].status = "pending" =>
          d \notin batch /\ deliveries'[d] = deliveries[d] /\ Current(d)' = Current(d)
    BY <1>2, <1>3 DEF Current
  <2>4. \A d \in Delivery : deliveries'[d].status = "pending" /\ Current(d)' \in Signals' =>
          deliveries'[d].next_attempt_at <= now'
    BY <1>3, <2>1, <2>3 DEF IInv, NoEarlySignal
  <2>5. FirstSignalExists'
    BY <1>1, <2>3 DEF IInv, FirstSignalExists, Current
  <2> QED
    BY <2>2, <2>4, <2>5 DEF NoEarlySignal
<1>10. PublishedIsUnleased'
  BY <1>1, Zenon DEF IInv, PublishedIsUnleased
<1> QED
  BY <1>1, <1>5, <1>6, <1>7, <1>8, <1>9, <1>10 DEF IInv

\* Every step preserves the inductive invariant.
LEMMA NextIInv == IInv /\ [Next]_vars => IInv'
<1> SUFFICES ASSUME IInv, [Next]_vars PROVE IInv'
  BY Zenon
<1>1. CASE Tick
  <2>1. /\ now' = now + 1 /\ now \in Nat
        /\ UNCHANGED <<deliveries, outbox_events, delivery_attempts, replay_audits, grants, inflight, handles, stalled>>
    BY <1>1 DEF Tick, tables, clients, IInv, TypeOK
  <2>2. TypeOK' /\ PublishedIsUnleased' /\ Signals' = Signals /\ now' >= now
    BY <2>1 DEF IInv, TypeOK, PublishedIsUnleased, Signals
  <2> QED
    BY <2>1, <2>2, FrameIInv
<1>2. CASE ApiStep
  <2>1. Recent \subseteq 0..now
    BY Zenon DEF Recent
  <2> QED
    BY <1>2, <2>1, SubmitIInv, ReplayIInv DEF ApiStep
<1>3. CASE \E d \in Delivery, owner \in Owner, token \in Token :
             ClaimDelivery(d, deliveries[d].generation, owner, token)
  <2>1. \A d \in Delivery : deliveries[d].generation \in Nat
    BY DEF IInv, TypeOK, DeliveryRow
  <2> QED
    BY <1>3, <2>1, ClaimIInv
<1>4. CASE \/ \E grant \in inflight : DiscardResult(grant)
           \/ \E lost \in SUBSET inflight : WorkerStops(lost)
  <2>1. /\ inflight' \subseteq inflight
        /\ UNCHANGED <<now, deliveries, outbox_events, delivery_attempts, replay_audits, grants, handles, stalled>>
    BY <1>4 DEF DiscardResult, WorkerStops, tables
  <2>2. TypeOK' /\ PublishedIsUnleased' /\ Signals' = Signals /\ now' >= now
    BY <2>1 DEF IInv, TypeOK, PublishedIsUnleased, Signals
  <2> QED
    BY <2>1, <2>2, FrameIInv
<1>5. CASE \E grant \in inflight : \/ CompleteSuccess(grant)
                                   \/ CompletePermanent(grant)
                                   \/ \E t \in 0..MaxTime : CompleteRetry(grant, t)
  BY <1>5, CompleteStepIInv
<1>6. CASE \/ \E s \in Signals : ObserveSignal(s[1], s[2])
           \/ PublisherStep
           \/ \E batch \in SUBSET Signals : ReconcileStalledSignals(batch)
  <2>1. OutboxOnly
    BY <1>6, ObserveSignalType, ClaimOutboxType, MarkOutboxPublishedType, ReleaseOutboxType,
       PublisherStopsType, ReconcileType DEF PublisherStep, IInv
  <2>2. now' >= now
    BY <2>1 DEF OutboxOnly, IInv, TypeOK
  <2> QED
    BY <2>1, <2>2, FrameIInv DEF OutboxOnly
<1>7. CASE ReconcileSnapshot
  <2>1. /\ stalled' \subseteq Signals
        /\ UNCHANGED <<now, deliveries, outbox_events, delivery_attempts, replay_audits, grants, inflight, handles>>
    BY <1>7 DEF ReconcileSnapshot, StalledSignals, tables
  <2>2. TypeOK' /\ PublishedIsUnleased' /\ Signals' = Signals /\ now' >= now
    BY <2>1 DEF IInv, TypeOK, PublishedIsUnleased, Signals
  <2> QED
    BY <2>1, <2>2, FrameIInv
<1>8. CASE \E batch \in SUBSET Delivery : \/ ScheduleDueRetries(batch)
                                          \/ RecoverExpiredDeliveries(batch)
                                          \/ DeleteExpiredTerminal(batch)
  BY <1>8, ScheduleIInv, RecoverIInv, DeleteIInv
<1>9. CASE UNCHANGED vars
  <2>1. UNCHANGED <<now, deliveries, outbox_events, delivery_attempts, replay_audits, grants, inflight, handles, stalled>>
    BY <1>9 DEF vars
  <2>2. TypeOK' /\ PublishedIsUnleased' /\ Signals' = Signals /\ now' >= now
    BY <2>1 DEF IInv, TypeOK, PublishedIsUnleased, Signals
  <2> QED
    BY <2>1, <2>2, FrameIInv
<1> QED
  BY <1>1, <1>2, <1>3, <1>4, <1>5, <1>6, <1>7, <1>8, <1>9
     DEF Next, WorkerStep, MaintenanceStep

-----------------------------------------------------------------------------
(***************************************************************************)
(* Theorems.                                                               *)
(***************************************************************************)

\* The inductive invariant holds in every reachable state of the store.
THEOREM Invariance == Spec => []IInv
<1>1. Init => IInv
  BY InitIInv, Zenon
<1>2. IInv /\ [Next]_vars => IInv'
  BY NextIInv
<1> QED
  BY <1>1, <1>2, PTL DEF Spec

\* Every operation of the store leaves rows of the schema.
THEOREM TypeCorrect == Spec => []TypeOK
<1>1. IInv => TypeOK
  BY DEF IInv
<1> QED
  BY <1>1, Invariance, PTL

\* Whatever the interleaving of signals, crashes, expiry and replay, ClaimDelivery
\* leases a generation of a delivery at most once.
THEOREM LeasedOnce == Spec => []OneLeasePerGeneration
<1>1. IInv => OneLeasePerGeneration
  BY DEF IInv
<1> QED
  BY <1>1, Invariance, PTL

\* Every lease ClaimDelivery granted ends in an attempt row, unless it is still the
\* lease of its row or its delivery is gone.
THEOREM LeasesAccountedFor == Spec => []EveryLeaseAccountedFor
<1>1. IInv => EveryLeaseAccountedFor
  BY DEF IInv
<1> QED
  BY <1>1, Invariance, PTL

\* Results are recorded once per generation, in order, by completeResult or by
\* RecoverExpiredDeliveries.
THEOREM AttemptsOrdered == Spec => []AttemptsInGenerationOrder
<1>1. IInv => AttemptsInGenerationOrder
  BY DEF IInv
<1> QED
  BY <1>1, Invariance, PTL

\* No outbox_events row announces a generation before its next_attempt_at.
THEOREM SignalsNotEarly == Spec => []NoEarlySignal
<1>1. IInv => NoEarlySignal
  BY DEF IInv
<1> QED
  BY <1>1, Invariance, PTL

\* The INSERTs of Replay never meet an existing row.
THEOREM ReplayInsertsFresh == Spec => []ReplayNeverConflicts
<1>1. IInv => ReplayNeverConflicts
  <2> SUFFICES ASSUME IInv, NEW d \in Delivery, deliveries[d].status = "failed_permanent"
               PROVE  ReplayInsertable(d)
    BY DEF ReplayNeverConflicts
  <2>1. deliveries[d].generation \in Nat
    BY DEF IInv, TypeOK, DeliveryRow
  <2>2. <<d, deliveries[d].generation + 1>> \notin Signals
    BY NextUnsignalled
  <2>3. \A audit \in replay_audits[d] : audit.to_generation \in Nat
                                       /\ audit.to_generation <= deliveries[d].generation
    BY DEF IInv, TypeOK, AuditRow, AuditsReached
  <2> QED
    BY <2>1, <2>2, <2>3 DEF ReplayInsertable
<1> QED
  BY <1>1, Invariance, PTL

\* Some background loop can always reach a pending delivery.
THEOREM PendingReachable == Spec => []PendingIsReachable
<1>1. IInv => PendingIsReachable
  <2> SUFFICES ASSUME IInv, NEW d \in Delivery, deliveries[d].status = "pending"
               PROVE  IF Current(d) \in Signals
                      THEN outbox_events[Current(d)].published_at # NULL =>
                             outbox_events[Current(d)].lease = NULL
                      ELSE deliveries[d].generation > 0
    BY DEF PendingIsReachable
  <2>1. deliveries[d].generation \in Nat
    BY DEF IInv, TypeOK, DeliveryRow
  <2> QED
    BY <2>1 DEF IInv, PublishedIsUnleased, FirstSignalExists
<1> QED
  BY <1>1, Invariance, PTL

\* A result ends the lease its grant holds, and nothing else changes the row.
LEMMA HolderStep == IInv /\ [Next]_vars => [RowChangesByHolder]_vars
<1> SUFFICES ASSUME IInv, Next, NEW d \in Delivery, deliveries[d].status = "delivering",
                    deliveries[d].lease.until > now, deliveries'[d] # deliveries[d]
             PROVE  \E grant \in inflight \ inflight' :
                      /\ grant.delivery = d
                      /\ grant.generation = deliveries[d].generation
                      /\ grant.token = deliveries[d].lease.token
  BY DEF RowChangesByHolder, vars
<1>1. /\ now \in Nat /\ deliveries[d].lease.until \in Nat
      /\ deliveries \in [Delivery -> DeliveryRow]
      /\ \A s \in Signals : s[1] \in Delivery
      /\ \A grant \in inflight : grant.delivery \in Delivery
  BY DEF IInv, TypeOK, LeaseTupleConsistent, DeliveryRow, Lease, Grant
<1>2. ASSUME NEW grant \in inflight, NEW class, NEW row, completeResult(grant, class, row)
      PROVE  \E g \in inflight \ inflight' :
               /\ g.delivery = d
               /\ g.generation = deliveries[d].generation
               /\ g.token = deliveries[d].lease.token
  <2>1. grant.delivery = d
    BY <1>1, <1>2 DEF completeResult
  <2>2. /\ grant \in inflight \ inflight'
        /\ grant.generation = deliveries[d].generation
        /\ grant.token = deliveries[d].lease.token
    BY <1>2, <2>1 DEF completeResult, LeaseHeld
  <2> QED
    BY <2>1, <2>2, Zenon
<1>3. CASE ApiStep
  BY <1>1, <1>3, Zenon DEF ApiStep, Submit, Replay
<1>4. CASE WorkerStep
  <2>1. ASSUME NEW e \in Delivery, NEW owner, NEW token,
               ClaimDelivery(e, deliveries[e].generation, owner, token)
        PROVE  FALSE
    BY <1>1, <2>1, Zenon DEF ClaimDelivery, Claimable
  <2>2. ASSUME NEW s \in Signals, ObserveSignal(s[1], s[2]) PROVE FALSE
    BY <2>2, Zenon DEF ObserveSignal
  <2>3. ASSUME \/ \E grant \in inflight : DiscardResult(grant)
               \/ \E lost \in SUBSET inflight : WorkerStops(lost)
        PROVE  FALSE
    BY <2>3, Zenon DEF DiscardResult, WorkerStops, tables
  <2> QED
    BY <1>2, <1>4, <2>1, <2>2, <2>3, Zenon
       DEF WorkerStep, CompleteSuccess, CompletePermanent, CompleteRetry
<1>5. CASE MaintenanceStep
  <2>1. ASSUME NEW batch \in SUBSET Delivery, ScheduleDueRetries(batch) PROVE FALSE
    BY <2>1, Zenon DEF ScheduleDueRetries, RetryExpired
  <2>2. ASSUME NEW batch \in SUBSET Delivery, RecoverExpiredDeliveries(batch) PROVE FALSE
    BY <1>1, <2>2 DEF RecoverExpiredDeliveries, Batches, LeaseExpired
  <2>3. ASSUME NEW batch \in SUBSET Delivery, DeleteExpiredTerminal(batch) PROVE FALSE
    BY <2>3, Zenon DEF DeleteExpiredTerminal, Batches, RetentionExpired
  <2>4. ASSUME ReconcileSnapshot \/ \E batch \in SUBSET Signals : ReconcileStalledSignals(batch)
        PROVE  FALSE
    BY <2>4, Zenon DEF ReconcileSnapshot, ReconcileStalledSignals, tables
  <2> QED
    BY <1>5, <2>1, <2>2, <2>3, <2>4 DEF MaintenanceStep
<1>6. CASE Tick \/ PublisherStep
  BY <1>6, Zenon DEF Tick, PublisherStep, ClaimOutbox, MarkOutboxPublished, ReleaseOutbox,
     PublisherStops, tables
<1> QED
  BY <1>3, <1>4, <1>5, <1>6 DEF Next

\* Fencing: while a Worker's lease is unexpired only that Worker's result changes
\* the row.
THEOREM Fencing == Spec => LeaseProtectsRow
<1>1. IInv /\ [Next]_vars => [RowChangesByHolder]_vars
  BY HolderStep, Zenon
<1> QED
  BY <1>1, Invariance, PTL DEF Spec, LeaseProtectsRow

-----------------------------------------------------------------------------
(***************************************************************************)
(* Admission: idempotency keys and the backlog.                            *)
(***************************************************************************)

\* A delivery that exists after the step existed before it, with the same key and the
\* same audits, and was active if it is.
RowKept(d) ==
  Live(d)' => /\ Live(d)
              /\ deliveries'[d].key = deliveries[d].key
              /\ replay_audits'[d] = replay_audits[d]
              /\ deliveries'[d].status \in Active => deliveries[d].status \in Active

\* No operation but Submit brings a delivery or a key into being, and none but Replay
\* makes a settled one active again.
LEMMA RowsKept ==
  ASSUME IInv, [Next]_vars
  PROVE  \/ \E d \in Delivery, k \in Key, t \in Recent : Submit(d, k, t)
         \/ \E d \in Delivery, t \in Recent : Replay(d, t)
         \/ \A d \in Delivery : RowKept(d)
<1>1. now \in Nat /\ deliveries \in [Delivery -> DeliveryRow]
  BY Zenon DEF IInv, TypeOK
<1>2. ASSUME UNCHANGED <<deliveries, replay_audits>> PROVE \A d \in Delivery : RowKept(d)
  BY <1>2, Zenon DEF RowKept, Live
<1>3. ASSUME NEW e \in Delivery, NEW row,
             Live(e), deliveries[e].status \in Active, row.key = deliveries[e].key,
             deliveries' = [deliveries EXCEPT ![e] = row], UNCHANGED replay_audits
      PROVE  \A d \in Delivery : RowKept(d)
  BY <1>1, <1>3, Zenon DEF RowKept, Live
<1>4. ASSUME NEW e \in Delivery, NEW owner \in Owner, NEW token \in Token,
             ClaimDelivery(e, deliveries[e].generation, owner, token)
      PROVE  \A d \in Delivery : RowKept(d)
  <2>1. Leased(deliveries[e], owner, token).key = deliveries[e].key
    BY <1>1, LeasedRow, Zenon
  <2>2. Live(e) /\ deliveries[e].status \in Active
    BY <1>4, Zenon DEF ClaimDelivery, Claimable, Live, Status, Active
  <2>3. /\ deliveries' = [deliveries EXCEPT ![e] = Leased(deliveries[e], owner, token)]
        /\ UNCHANGED replay_audits
    BY <1>4, Zenon DEF ClaimDelivery
  <2> QED
    BY <1>3, <2>1, <2>2, <2>3, Zenon
<1>5. ASSUME NEW grant \in inflight,
             \/ CompleteSuccess(grant)
             \/ CompletePermanent(grant)
             \/ \E t \in 0..MaxTime : CompleteRetry(grant, t)
      PROVE  \A d \in Delivery : RowKept(d)
  <2>1. grant.delivery \in Delivery /\ deliveries[grant.delivery] \in DeliveryRow
    BY <1>1, Zenon DEF IInv, TypeOK, Grant
  <2>2. \A st \in Status : Completed(deliveries[grant.delivery], st).key
                             = deliveries[grant.delivery].key
    BY <1>1, <2>1, CompletedRow, Zenon
  <2>3. \A t \in Nat : Retried(deliveries[grant.delivery], t).key
                         = deliveries[grant.delivery].key
    BY <1>1, <2>1, RetriedRow, Zenon
  <2>4. PICK class, row : /\ completeResult(grant, class, row)
                          /\ row.key = deliveries[grant.delivery].key
    BY <1>5, <2>2, <2>3
       DEF CompleteSuccess, CompletePermanent, CompleteRetry, Status
  <2>5. Live(grant.delivery) /\ deliveries[grant.delivery].status \in Active
    BY <2>4, Zenon DEF completeResult, LeaseHeld, Live, Status, Active
  <2>6. deliveries' = [deliveries EXCEPT ![grant.delivery] = row] /\ UNCHANGED replay_audits
    BY <2>4, Zenon DEF completeResult
  <2> QED
    BY <1>3, <2>1, <2>4, <2>5, <2>6, Zenon
<1>6. ASSUME NEW batch \in SUBSET Delivery, ScheduleDueRetries(batch)
      PROVE  \A d \in Delivery : RowKept(d)
  <2> SUFFICES ASSUME NEW d \in Delivery PROVE RowKept(d)
    BY Zenon
  <2>1. Exhausted(deliveries[d]).key = deliveries[d].key
        /\ Exhausted(deliveries[d]).status = "failed_permanent"
    BY <1>1, ExhaustedRow, Zenon
  <2>2. UNCHANGED replay_audits
    BY <1>6, Zenon DEF ScheduleDueRetries
  <2>3. deliveries'[d] = IF d \in RetryExpired THEN Exhausted(deliveries[d]) ELSE deliveries[d]
    BY <1>6, Zenon DEF ScheduleDueRetries
  <2> QED
    BY <2>1, <2>2, <2>3, Zenon DEF RowKept, Live, RetryExpired, Status, Active
<1>7. ASSUME NEW batch \in SUBSET Delivery, RecoverExpiredDeliveries(batch)
      PROVE  \A d \in Delivery : RowKept(d)
  <2> SUFFICES ASSUME NEW d \in Delivery PROVE RowKept(d)
    OBVIOUS
  <2>1. Recovered(deliveries[d]).key = deliveries[d].key
    BY <1>1, RecoveredRow, Zenon
  <2>2. UNCHANGED replay_audits
    BY <1>7, Zenon DEF RecoverExpiredDeliveries
  <2>3. deliveries'[d] = IF d \in batch THEN Recovered(deliveries[d]) ELSE deliveries[d]
    BY <1>7, Zenon DEF RecoverExpiredDeliveries
  <2>4. d \in batch => deliveries[d].status = "delivering"
    BY <1>7, Zenon DEF RecoverExpiredDeliveries, Batches, LeaseExpired
  <2> QED
    BY <2>1, <2>2, <2>3, <2>4, Zenon DEF RowKept, Live, Status, Active
<1>8. ASSUME NEW batch \in SUBSET Delivery, DeleteExpiredTerminal(batch)
      PROVE  \A d \in Delivery : RowKept(d)
  <2> SUFFICES ASSUME NEW d \in Delivery PROVE RowKept(d)
    OBVIOUS
  <2>1. NoRow("deleted").status = "deleted"
    BY MissingRow, Zenon DEF Missing
  <2>2. /\ deliveries'[d] = IF d \in batch THEN NoRow("deleted") ELSE deliveries[d]
        /\ d \notin batch => replay_audits'[d] = replay_audits[d]
    BY <1>8, Zenon DEF DeleteExpiredTerminal
  <2> QED
    BY <2>1, <2>2, Zenon DEF RowKept, Live, Status
<1>9. ASSUME \/ Tick \/ PublisherStep \/ ReconcileSnapshot \/ UNCHANGED vars
             \/ \E batch \in SUBSET Signals : ReconcileStalledSignals(batch)
             \/ \E s \in Signals : ObserveSignal(s[1], s[2])
             \/ \E grant \in inflight : DiscardResult(grant)
             \/ \E lost \in SUBSET inflight : WorkerStops(lost)
      PROVE  UNCHANGED <<deliveries, replay_audits>>
  BY <1>9, Zenon DEF Tick, PublisherStep, ClaimOutbox, MarkOutboxPublished, ReleaseOutbox,
     PublisherStops, ReconcileSnapshot, ReconcileStalledSignals, ObserveSignal,
     DiscardResult, WorkerStops, tables, vars
<1> QED
  BY <1>2, <1>4, <1>5, <1>6, <1>7, <1>8, <1>9, Zenon
     DEF Next, ApiStep, WorkerStep, MaintenanceStep

\* A key Submit takes is nobody else's, and no other operation gives a delivery a key.
LEMMA KeysStayUnique == IInv /\ KeyIsUnique /\ [Next]_vars => KeyIsUnique'
<1> SUFFICES ASSUME IInv, KeyIsUnique, [Next]_vars PROVE KeyIsUnique'
  BY Zenon
<1>1. deliveries \in [Delivery -> DeliveryRow]
  BY Zenon DEF IInv, TypeOK
<1>2. ASSUME NEW d \in Delivery, NEW k \in Key, NEW t \in Recent, Submit(d, k, t)
      PROVE  KeyIsUnique'
  <2>1. deliveries'[d].key = k /\ \A e \in Delivery : e # d => deliveries'[e] = deliveries[e]
    BY <1>1, <1>2, Zenon DEF Submit
  <2>2. \A e \in Delivery : Live(e) => deliveries[e].key # k
    BY <1>2, Zenon DEF Submit, KeyIsFree
  <2> QED
    BY <2>1, <2>2, Zenon DEF KeyIsUnique, Live
<1>3. ASSUME NEW d \in Delivery, NEW t \in Recent, Replay(d, t)
      PROVE  KeyIsUnique'
  <2>1. Live(d)
    BY <1>3, Zenon DEF Replay, Live, Status
  <2>2. deliveries' = [deliveries EXCEPT ![d] = Replayed(deliveries[d], t)]
    BY <1>3, Zenon DEF Replay
  <2>3. Replayed(deliveries[d], t).key = deliveries[d].key
    BY <1>1, ReplayedRow DEF Recent
  <2>4. \A e \in Delivery : Live(e)' => Live(e) /\ deliveries'[e].key = deliveries[e].key
    BY <1>1, <2>1, <2>2, <2>3, Zenon DEF Live
  <2> QED
    BY <2>4, Zenon DEF KeyIsUnique
<1>4. ASSUME \A d \in Delivery : RowKept(d)
      PROVE  KeyIsUnique'
  BY <1>4, Zenon DEF RowKept, KeyIsUnique
<1> QED
  BY <1>2, <1>3, <1>4, RowsKept, Zenon

\* Submit, whatever retention, retries and replays happen between, never admits a second
\* delivery for a key while the first exists.
THEOREM KeysUnique == Spec => []KeyIsUnique
<1>1. Init => KeyIsUnique
  BY MissingRow, Zenon DEF Init, KeyIsUnique, Live, Status, Missing
<1> QED
  BY <1>1, KeysStayUnique, Invariance, PTL DEF Spec

-----------------------------------------------------------------------------
(***************************************************************************)
(* Outbox leases.                                                          *)
(***************************************************************************)

\* An event whose lease is unexpired keeps it until a handle with its token is used up:
\* the watchdog passes it over, as ClaimOutbox does, and inserts leave it alone.
LEMMA EventHolderStep == IInv /\ [Next]_vars => [EventChangesByHolder]_vars
<1> SUFFICES ASSUME IInv, Next, NEW s \in Signals \cap Signals',
                    outbox_events[s].lease # NULL, outbox_events[s].lease.until > now,
                    \/ outbox_events'[s].lease # outbox_events[s].lease
                    \/ outbox_events'[s].published_at # outbox_events[s].published_at
             PROVE  \E h \in handles \ handles' :
                      /\ <<h.delivery, h.generation>> = s
                      /\ h.token = outbox_events[s].lease.token
  BY Zenon DEF EventChangesByHolder, vars
<1>1. /\ TypeOK /\ LeaseTupleConsistent
      /\ now \in Nat
      /\ outbox_events[s] \in OutboxRow
      /\ outbox_events[s].lease.until \in Nat
  BY Zenon DEF IInv, TypeOK, OutboxRow, BatchLease
<1>2. outbox_events'[s] # outbox_events[s]
  BY Zenon
<1>3. CASE ApiStep
  BY <1>1, <1>2, <1>3, SubmitType, ReplayType, Zenon DEF ApiStep, Recent
<1>4. CASE \E batch \in SUBSET Delivery : \/ ScheduleDueRetries(batch)
                                          \/ RecoverExpiredDeliveries(batch)
                                          \/ DeleteExpiredTerminal(batch)
  BY <1>1, <1>2, <1>4, ScheduleType, RecoverType, DeleteType
<1>5. CASE \E batch \in SUBSET Signals : ReconcileStalledSignals(batch)
  BY <1>2, <1>5, Zenon DEF ReconcileStalledSignals, Batches, EventSilent
<1>6. ASSUME NEW r \in Signals, ObserveSignal(r[1], r[2])
      PROVE  FALSE
  <2>1. r = <<r[1], r[2]>>
    BY <1>1 DEF TypeOK
  <2>2. outbox_events' = [outbox_events EXCEPT ![r] = Observed(outbox_events[r])]
    BY <1>6, <2>1, Zenon DEF ObserveSignal
  <2>3. outbox_events'[s] = outbox_events[s] \/ outbox_events'[s] = Observed(outbox_events[s])
    BY <1>1, <2>2, Zenon DEF TypeOK
  <2>4. Observed(outbox_events[s]).lease = outbox_events[s].lease
        /\ Observed(outbox_events[s]).published_at = outbox_events[s].published_at
    BY <1>1, EventUpdates, Zenon
  <2> QED
    BY <2>3, <2>4, Zenon
<1>7. ASSUME NEW batch \in SUBSET Signals, NEW owner \in Publisher, NEW token \in BatchToken,
             ClaimOutbox(batch, owner, token)
      PROVE  FALSE
  <2>1. s \notin batch
    BY <1>1, <1>7 DEF ClaimOutbox, Batches, OutboxClaimable
  <2> QED
    BY <1>2, <1>7, <2>1, Zenon DEF ClaimOutbox
<1>8. ASSUME NEW h \in handles, MarkOutboxPublished(h) \/ ReleaseOutbox(h)
      PROVE  /\ h \in handles \ handles'
             /\ <<h.delivery, h.generation>> = s
             /\ h.token = outbox_events[s].lease.token
  <2>1. h \in handles \ handles'
    BY <1>8, Zenon DEF MarkOutboxPublished, ReleaseOutbox
  <2>2. HandleMatches(h) /\ <<h.delivery, h.generation>> = s
    BY <1>1, <1>2, <1>8, Zenon DEF MarkOutboxPublished, ReleaseOutbox, TypeOK
  <2> QED
    BY <2>1, <2>2, Zenon DEF HandleMatches
<1>9. CASE \/ Tick \/ ReconcileSnapshot
           \/ \E lost \in SUBSET handles : PublisherStops(lost)
           \/ \E lost \in SUBSET inflight : WorkerStops(lost)
           \/ \E grant \in inflight : \/ DiscardResult(grant)
                                      \/ \E class, row : completeResult(grant, class, row)
           \/ \E d \in Delivery, owner \in Owner, token \in Token :
                ClaimDelivery(d, deliveries[d].generation, owner, token)
  BY <1>2, <1>9, Zenon DEF Tick, ReconcileSnapshot, PublisherStops, WorkerStops,
     DiscardResult, completeResult, ClaimDelivery, tables
<1>10. CASE WorkerStep
  BY <1>6, <1>9, <1>10, Zenon
     DEF WorkerStep, CompleteSuccess, CompletePermanent, CompleteRetry
<1>11. CASE PublisherStep
  BY <1>7, <1>8, <1>9, <1>11, Zenon DEF PublisherStep
<1> QED
  BY <1>3, <1>4, <1>5, <1>9, <1>10, <1>11, Zenon DEF Next, MaintenanceStep

\* While a Publisher's lease on an event is unexpired only its own MarkOutboxPublished or
\* ReleaseOutbox ends it, or the delivery goes with all its events.
THEOREM OutboxFencing == Spec => OutboxLeaseProtectsEvent
  BY EventHolderStep, Invariance, PTL DEF Spec, OutboxLeaseProtectsEvent

-----------------------------------------------------------------------------
(***************************************************************************)
(* The store implements DeliveryLifecycle.  Each statement is looked at    *)
(* one delivery at a time: the lemmas say what a change of its row,        *)
(* attempts and audits is in its life.                                     *)
(***************************************************************************)

(***************************************************************************)
(* Results.                                                                *)
(***************************************************************************)

\* No attempts, no results.
LEMMA NoResults == Results(<<>>) = <<>>
BY DEF Results

\* An attempt more is a result more, and the others stay as they are.
LEMMA ResultAppended ==
  ASSUME NEW attempts \in Seq(AttemptRow), NEW a \in AttemptRow
  PROVE  Results(Append(attempts, a)) = Append(Results(attempts), Result(a))
BY DEF Results

\* A row that was created and has no history is a life that has begun.
LEMMA BegunLife ==
  ASSUME NEW row, row.generation = 0
  PROVE  LifeOf(row, <<>>, {}) = Lifecycle!Begun(Phase(row.status))
BY NoResults, Zenon DEF LifeOf, Lifecycle!Begun, Lifecycle!Lived

\* The phases of the states of a row.
LEMMA Phases ==
  /\ Phase("absent") = "unknown"
  /\ Phase("pending") = "waiting"
  /\ Phase("delivering") = "attempting"
  /\ Phase("succeeded") = "succeeded"
  /\ Phase("failed_permanent") = "failed"
  /\ Phase("deleted") = "forgotten"
BY Zenon DEF Phase

\* ClaimDelivery begins an attempt.
LEMMA ClaimBegins ==
  ASSUME NEW row, NEW next, NEW attempts, NEW audits,
         row.status = "pending",
         next.status = "delivering", next.generation = row.generation
  PROVE  Lifecycle!Moves(LifeOf(row, attempts, audits), LifeOf(next, attempts, audits))
<1> DEFINE was == LifeOf(row, attempts, audits)
           is == LifeOf(next, attempts, audits)
<1>1. was.phase = "waiting"
  BY Phases, Zenon DEF LifeOf
<1>2. is = Lifecycle!Lived("attempting", was.generation, was.results, was.reopened)
  BY Phases, Zenon DEF LifeOf, Lifecycle!Lived
<1> QED
  BY <1>1, <1>2, Zenon DEF Lifecycle!Moves, Lifecycle!AttemptBegins

\* ScheduleDueRetries gives up a pending delivery.
LEMMA ScheduleGivesUp ==
  ASSUME NEW row, NEW next, NEW attempts, NEW audits,
         row.status = "pending",
         next.status = "failed_permanent", next.generation = row.generation
  PROVE  Lifecycle!Moves(LifeOf(row, attempts, audits), LifeOf(next, attempts, audits))
<1> DEFINE was == LifeOf(row, attempts, audits)
           is == LifeOf(next, attempts, audits)
<1>1. was.phase = "waiting"
  BY Phases, Zenon DEF LifeOf
<1>2. is = Lifecycle!Lived("failed", was.generation, was.results, was.reopened)
  BY Phases, Zenon DEF LifeOf, Lifecycle!Lived
<1> QED
  BY <1>1, <1>2, Zenon DEF Lifecycle!Moves, Lifecycle!GivenUp

\* A result of the attempt under way, with the row that goes with it, ends it.
LEMMA ResultEnds ==
  ASSUME NEW row, NEW next, NEW attempts \in Seq(AttemptRow), NEW audits, NEW a \in AttemptRow,
         row.status = "delivering", a.generation = row.generation
  PROVE  Lifecycle!Ends(LifeOf(row, attempts, audits),
                        LifeOf(next, Append(attempts, a), audits),
                        a.result_class, Phase(next.status), next.generation)
<1> DEFINE was == LifeOf(row, attempts, audits)
           is == LifeOf(next, Append(attempts, a), audits)
<1>1. was.phase = "attempting" /\ was.generation = row.generation
  BY Phases, Zenon DEF LifeOf
<1>2. Results(Append(attempts, a)) =
        Append(Results(attempts), [generation |-> was.generation, class |-> a.result_class])
  BY <1>1, ResultAppended, Zenon DEF Result
<1>3. is = Lifecycle!Lived(
             Phase(next.status), next.generation,
             Append(was.results, [generation |-> was.generation, class |-> a.result_class]),
             was.reopened)
  BY <1>2, Zenon DEF LifeOf, Lifecycle!Lived
<1> QED
  BY <1>1, <1>3, Zenon DEF Lifecycle!Ends

\* So the three results completeResult and RecoverExpiredDeliveries record are steps
\* of the life.
LEMMA ResultMoves ==
  ASSUME NEW row, NEW next, NEW attempts \in Seq(AttemptRow), NEW audits, NEW a \in AttemptRow,
         row.status = "delivering", a.generation = row.generation,
         \/ /\ a.result_class = "succeeded"
            /\ next.status = "succeeded" /\ next.generation = row.generation
         \/ /\ a.result_class = "permanent_failure"
            /\ next.status = "failed_permanent" /\ next.generation = row.generation
         \/ /\ a.result_class = "retryable_failure"
            /\ next.status = "pending" /\ next.generation = row.generation + 1
  PROVE  Lifecycle!Moves(LifeOf(row, attempts, audits),
                         LifeOf(next, Append(attempts, a), audits))
<1> DEFINE was == LifeOf(row, attempts, audits)
           is == LifeOf(next, Append(attempts, a), audits)
<1>1. Lifecycle!Ends(was, is, a.result_class, Phase(next.status), next.generation)
  BY ResultEnds, Zenon
<1>2. was.generation = row.generation
  BY Zenon DEF LifeOf
<1>3. \/ Lifecycle!Ends(was, is, "succeeded", "succeeded", was.generation)
      \/ Lifecycle!Ends(was, is, "permanent_failure", "failed", was.generation)
      \/ Lifecycle!Ends(was, is, "retryable_failure", "waiting", was.generation + 1)
  BY <1>1, <1>2, Phases, Zenon
<1> QED
  BY <1>3, Zenon DEF Lifecycle!Moves, Lifecycle!Succeeds, Lifecycle!Fails, Lifecycle!IsRetried

\* Replay reopens a failed delivery, on record.
LEMMA ReplayReopens ==
  ASSUME NEW row, NEW next, NEW attempts, NEW audits, NEW audit,
         row.status = "failed_permanent",
         next.status = "pending", next.generation = row.generation + 1,
         audit.to_generation = row.generation + 1
  PROVE  Lifecycle!Moves(LifeOf(row, attempts, audits),
                         LifeOf(next, attempts, audits \cup {audit}))
<1> DEFINE was == LifeOf(row, attempts, audits)
           is == LifeOf(next, attempts, audits \cup {audit})
<1>1. was.phase = "failed" /\ was.generation = row.generation
  BY Phases, Zenon DEF LifeOf
<1>2. {b.to_generation : b \in audits \cup {audit}} =
        {b.to_generation : b \in audits} \cup {row.generation + 1}
  BY Zenon
<1>3. is = Lifecycle!Lived("waiting", was.generation + 1, was.results,
                           was.reopened \cup {was.generation + 1})
  BY <1>2, Phases, Zenon DEF LifeOf, Lifecycle!Lived
<1> QED
  BY <1>1, <1>3, Zenon DEF Lifecycle!Moves, Lifecycle!Reopened

\* Submit begins a life.
LEMMA SubmitAccepts ==
  ASSUME NEW row, NEW next, NEW attempts, NEW audits,
         row.status = "absent", attempts = <<>>, audits = {},
         next.status = "pending", next.generation = 0
  PROVE  Lifecycle!Moves(LifeOf(row, attempts, audits), LifeOf(next, attempts, audits))
<1>1. LifeOf(next, attempts, audits) = Lifecycle!Begun("waiting")
  BY BegunLife, Phases, Zenon
<1>2. LifeOf(row, attempts, audits).phase = "unknown"
  BY Phases, Zenon DEF LifeOf
<1> QED
  BY <1>1, <1>2, Zenon DEF Lifecycle!Moves, Lifecycle!Accepted

\* DeleteExpiredTerminal ends a life.
LEMMA DeleteForgets ==
  ASSUME NEW row, NEW attempts, NEW audits, row.status \in Terminal
  PROVE  Lifecycle!Moves(LifeOf(row, attempts, audits), LifeOf(NoRow("deleted"), <<>>, {}))
<1>1. LifeOf(NoRow("deleted"), <<>>, {}) = Lifecycle!Begun("forgotten")
  BY BegunLife, Phases DEF NoRow
<1>2. LifeOf(row, attempts, audits).phase \in {"succeeded", "failed"}
  BY Phases, Zenon DEF LifeOf, Terminal
<1> QED
  BY <1>1, <1>2, Zenon DEF Lifecycle!Moves, Lifecycle!Forgotten

-----------------------------------------------------------------------------
(***************************************************************************)
(* Steps of the store.                                                     *)
(***************************************************************************)

LifeMoves(d) ==
  Lifecycle!Moves(LifeOf(deliveries[d], delivery_attempts[d], replay_audits[d]),
                  LifeOf(deliveries'[d], delivery_attempts'[d], replay_audits'[d]))

\* What a step leaves alone rests.
LEMMA Rests ==
  ASSUME NEW d, deliveries'[d] = deliveries[d],
         delivery_attempts'[d] = delivery_attempts[d], replay_audits'[d] = replay_audits[d]
  PROVE  LifeMoves(d)
BY Zenon DEF LifeMoves, Lifecycle!Moves

\* Submit accepts its delivery, whose id had no history.
LEMMA SubmitMoves ==
  ASSUME IInv, NEW d \in Delivery, NEW k, NEW t, Submit(d, k, t), NEW e \in Delivery
  PROVE  LifeMoves(e)
<1>1. /\ deliveries[d].status = "absent" /\ delivery_attempts[d] = <<>> /\ replay_audits[d] = {}
      /\ UNCHANGED <<delivery_attempts, replay_audits>>
  BY Zenon DEF IInv, MissingIsEmpty, Missing, Submit
<1>2. /\ deliveries'[d].status = "pending" /\ deliveries'[d].generation = 0
      /\ e # d => deliveries'[e] = deliveries[e]
  BY Zenon DEF IInv, TypeOK, Submit
<1> QED
  BY <1>1, <1>2, Rests, SubmitAccepts, Zenon DEF LifeMoves

\* Replay reopens its delivery, with the audit row it inserts.
LEMMA ReplayMoves ==
  ASSUME IInv, NEW d \in Delivery, NEW t \in Nat, Replay(d, t), NEW e \in Delivery
  PROVE  LifeMoves(e)
<1> DEFINE audit == [from_generation |-> deliveries[d].generation,
                     to_generation |-> deliveries[d].generation + 1]
<1>1. /\ deliveries[d].status = "failed_permanent"
      /\ deliveries' = [deliveries EXCEPT ![d] = Replayed(deliveries[d], t)]
      /\ replay_audits' = [replay_audits EXCEPT ![d] = replay_audits[d] \cup {audit}]
      /\ UNCHANGED delivery_attempts
  BY Zenon DEF Replay
<1>2. /\ deliveries'[d] = Replayed(deliveries[d], t)
      /\ replay_audits'[d] = replay_audits[d] \cup {audit}
      /\ e # d => deliveries'[e] = deliveries[e] /\ replay_audits'[e] = replay_audits[e]
  BY <1>1, Zenon DEF IInv, TypeOK
<1>3. /\ deliveries'[d].status = "pending"
      /\ deliveries'[d].generation = deliveries[d].generation + 1
  BY <1>2, ReplayedRow DEF IInv, TypeOK
<1>4. audit.to_generation = deliveries[d].generation + 1
  BY Zenon
<1> HIDE DEF audit
<1>5. LifeMoves(d)
  BY <1>1, <1>2, <1>3, <1>4, ReplayReopens DEF LifeMoves
<1> QED
  BY <1>1, <1>2, <1>5, Rests, Zenon

\* ClaimDelivery begins an attempt of its delivery.
LEMMA ClaimMoves ==
  ASSUME IInv, NEW d \in Delivery, NEW g, NEW o \in Owner, NEW tk \in Token,
         ClaimDelivery(d, g, o, tk), NEW e \in Delivery
  PROVE  LifeMoves(e)
<1>1. /\ deliveries[d].status = "pending"
      /\ deliveries' = [deliveries EXCEPT ![d] = Leased(deliveries[d], o, tk)]
      /\ UNCHANGED <<delivery_attempts, replay_audits>>
  BY Zenon DEF ClaimDelivery, Claimable
<1>2. /\ deliveries'[d] = Leased(deliveries[d], o, tk)
      /\ e # d => deliveries'[e] = deliveries[e]
  BY <1>1, Zenon DEF IInv, TypeOK
<1>3. deliveries'[d].status = "delivering" /\ deliveries'[d].generation = deliveries[d].generation
  <2>1. deliveries[d] \in DeliveryRow /\ now \in Nat
    BY Zenon DEF IInv, TypeOK
  <2>2. /\ Leased(deliveries[d], o, tk).status = "delivering"
        /\ Leased(deliveries[d], o, tk).generation = deliveries[d].generation
    BY <2>1, LeasedRow, Zenon
  <2> QED
    BY <1>2, <2>2, Zenon
<1> QED
  BY <1>1, <1>2, <1>3, Rests, ClaimBegins, Zenon DEF LifeMoves

\* completeResult, with each of the rows its callers give it.
LEMMA CompleteMoves ==
  ASSUME IInv, NEW grant \in inflight, NEW class \in ResultClass, NEW row,
         completeResult(grant, class, row), NEW e \in Delivery,
         \/ class = "succeeded" /\ row = Completed(deliveries[grant.delivery], "succeeded")
         \/ class = "permanent_failure" /\ row = Completed(deliveries[grant.delivery], "failed_permanent")
         \/ \E t \in Nat : class = "retryable_failure" /\ row = Retried(deliveries[grant.delivery], t)
  PROVE  LifeMoves(e)
<1> DEFINE d == grant.delivery
           a == Attempt(grant, class)
<1>1. grant \in Grant /\ d \in Delivery /\ deliveries[d] \in DeliveryRow /\ now \in Nat
  BY Zenon DEF IInv, TypeOK, Grant
<1>2. a \in AttemptRow /\ a.generation = grant.generation /\ a.result_class = class
  BY <1>1, Zenon DEF Attempt, AttemptRow, Grant
<1>3. /\ deliveries[d].status = "delivering" /\ deliveries[d].generation = grant.generation
      /\ deliveries' = [deliveries EXCEPT ![d] = row]
      /\ delivery_attempts' = [delivery_attempts EXCEPT ![d] = Append(delivery_attempts[d], a)]
      /\ UNCHANGED replay_audits
  BY Zenon DEF completeResult, LeaseHeld
<1>4. delivery_attempts[d] \in Seq(AttemptRow)
  BY <1>1, Zenon DEF IInv, TypeOK
<1> HIDE DEF d, a
<1>5. /\ deliveries'[d] = row /\ delivery_attempts'[d] = Append(delivery_attempts[d], a)
      /\ e # d => deliveries'[e] = deliveries[e] /\ delivery_attempts'[e] = delivery_attempts[e]
  BY <1>1, <1>3, Zenon DEF IInv, TypeOK
<1>6. {"succeeded", "failed_permanent"} \subseteq Status
  BY Zenon DEF Status
<1>7. \/ class = "succeeded" /\ row.status = "succeeded" /\ row.generation = deliveries[d].generation
      \/ /\ class = "permanent_failure" /\ row.status = "failed_permanent"
         /\ row.generation = deliveries[d].generation
      \/ /\ class = "retryable_failure" /\ row.status = "pending"
         /\ row.generation = deliveries[d].generation + 1
  <2>1. \A st \in {"succeeded", "failed_permanent"} :
          /\ Completed(deliveries[d], st).status = st
          /\ Completed(deliveries[d], st).generation = deliveries[d].generation
    BY <1>1, <1>6, CompletedRow, Zenon
  <2>2. \A t \in Nat : /\ Retried(deliveries[d], t).status = "pending"
                      /\ Retried(deliveries[d], t).generation = deliveries[d].generation + 1
    BY <1>1, RetriedRow, Zenon
  <2> QED
    BY <2>1, <2>2, Zenon DEF d
<1>8. LifeMoves(d)
  BY <1>2, <1>3, <1>4, <1>5, <1>7, ResultMoves, Zenon DEF LifeMoves
<1> QED
  BY <1>3, <1>5, <1>8, Rests

\* ScheduleDueRetries gives up what expired and moves nothing else.
LEMMA ScheduleMoves ==
  ASSUME IInv, NEW batch, ScheduleDueRetries(batch), NEW e \in Delivery
  PROVE  LifeMoves(e)
<1>1. /\ deliveries'[e] = IF e \in RetryExpired THEN Exhausted(deliveries[e]) ELSE deliveries[e]
      /\ UNCHANGED <<delivery_attempts, replay_audits>>
  BY Zenon DEF ScheduleDueRetries
<1>2. CASE e \in RetryExpired
  <2>1. deliveries[e].status = "pending" /\ deliveries'[e] = Exhausted(deliveries[e])
    BY <1>1, <1>2, Zenon DEF RetryExpired
  <2>2. /\ deliveries'[e].status = "failed_permanent"
        /\ deliveries'[e].generation = deliveries[e].generation
    BY <2>1, ExhaustedRow DEF IInv, TypeOK
  <2> QED
    BY <1>1, <2>1, <2>2, ScheduleGivesUp, Zenon DEF LifeMoves
<1> QED
  BY <1>1, <1>2, Rests, Zenon

\* RecoverExpiredDeliveries ends the attempt of every row of its batch.
LEMMA RecoverMoves ==
  ASSUME IInv, NEW batch, RecoverExpiredDeliveries(batch), NEW e \in Delivery
  PROVE  LifeMoves(e)
<1> DEFINE row == deliveries[e]
           a == RecoveryAttempt(row)
<1>1. /\ deliveries'[e] = IF e \in batch THEN Recovered(row) ELSE row
      /\ delivery_attempts'[e] = IF e \in batch THEN Append(delivery_attempts[e], a)
                                                ELSE delivery_attempts[e]
      /\ UNCHANGED replay_audits
  BY Zenon DEF RecoverExpiredDeliveries
<1>2. CASE e \in batch
  <2>1. row.status = "delivering"
    BY <1>2, Zenon DEF RecoverExpiredDeliveries, Batches, LeaseExpired
  <2>2. /\ row \in DeliveryRow /\ now \in Nat /\ delivery_attempts[e] \in Seq(AttemptRow)
        /\ row.generation \in Nat /\ row.lease.token \in Token /\ row.retry_deadline \in Nat
    BY <2>1 DEF IInv, TypeOK, LeaseTupleConsistent, DeliveryRow, Lease
  <2>3. a \in AttemptRow /\ a.generation = row.generation
    BY <2>2, Zenon DEF RecoveryAttempt, AttemptRow, ResultClass
  <2>4. \/ /\ a.result_class = "permanent_failure"
           /\ Recovered(row).status = "failed_permanent"
           /\ Recovered(row).generation = row.generation
        \/ /\ a.result_class = "retryable_failure"
           /\ Recovered(row).status = "pending"
           /\ Recovered(row).generation = row.generation + 1
    <3>1. row.retry_deadline <= now \/ row.retry_deadline > now
      BY <2>2
    <3>2. row.retry_deadline <= now => a.result_class = "permanent_failure"
      BY Zenon DEF RecoveryAttempt
    <3>3. row.retry_deadline > now => a.result_class = "retryable_failure"
      BY <2>2 DEF RecoveryAttempt
    <3> QED
      BY <2>2, <3>1, <3>2, <3>3, RecoveredRow, Zenon
  <2> HIDE DEF a
  <2>5. /\ deliveries'[e] = Recovered(row)
        /\ delivery_attempts'[e] = Append(delivery_attempts[e], a)
        /\ replay_audits'[e] = replay_audits[e]
    BY <1>1, <1>2, Zenon
  <2> QED
    BY <2>1, <2>2, <2>3, <2>4, <2>5, ResultMoves, Zenon DEF LifeMoves
<1> QED
  BY <1>1, <1>2, Rests

\* DeleteExpiredTerminal forgets settled deliveries, history and all.
LEMMA DeleteMoves ==
  ASSUME IInv, NEW batch, DeleteExpiredTerminal(batch), NEW e \in Delivery
  PROVE  LifeMoves(e)
<1>1. /\ deliveries'[e] = IF e \in batch THEN NoRow("deleted") ELSE deliveries[e]
      /\ delivery_attempts'[e] = IF e \in batch THEN <<>> ELSE delivery_attempts[e]
      /\ replay_audits'[e] = IF e \in batch THEN {} ELSE replay_audits[e]
  BY Zenon DEF DeleteExpiredTerminal
<1>2. CASE e \in batch
  <2>1. deliveries[e].status \in Terminal
    BY <1>2, Zenon DEF DeleteExpiredTerminal, Batches, RetentionExpired, Terminal
  <2> QED
    BY <1>1, <1>2, <2>1, DeleteForgets, Zenon DEF LifeMoves
<1> QED
  BY <1>1, <1>2, Rests, Zenon

-----------------------------------------------------------------------------
(***************************************************************************)
(* The theorem.                                                            *)
(***************************************************************************)

\* Every step of the store moves every delivery along its life or lets it rest.
LEMMA EveryLifeMoves ==
  ASSUME IInv, [Next]_vars, NEW e \in Delivery
  PROVE  LifeMoves(e)
<1>1. CASE ApiStep
  <2>1. Recent \subseteq Nat
    BY DEF Recent, IInv, TypeOK
  <2> QED
    BY <1>1, <2>1, SubmitMoves, ReplayMoves, Zenon DEF ApiStep
<1>2. CASE \E d \in Delivery, owner \in Owner, token \in Token :
             ClaimDelivery(d, deliveries[d].generation, owner, token)
  BY <1>2, ClaimMoves, Zenon
<1>3. CASE \E grant \in inflight : \/ CompleteSuccess(grant)
                                   \/ CompletePermanent(grant)
                                   \/ \E t \in 0..MaxTime : CompleteRetry(grant, t)
  <2>1. /\ {"succeeded", "permanent_failure", "retryable_failure"} \subseteq ResultClass
        /\ 0..MaxTime \subseteq Nat
    BY LimitAssumption DEF ResultClass
  <2> QED
    BY <1>3, <2>1, CompleteMoves, Zenon DEF CompleteSuccess, CompletePermanent, CompleteRetry
<1>4. CASE \E batch \in SUBSET Delivery : \/ ScheduleDueRetries(batch)
                                          \/ RecoverExpiredDeliveries(batch)
                                          \/ DeleteExpiredTerminal(batch)
  BY <1>4, ScheduleMoves, RecoverMoves, DeleteMoves, Zenon
<1>5. CASE UNCHANGED <<deliveries, delivery_attempts, replay_audits>>
  BY <1>5, Rests, Zenon
<1>6. CASE \/ \E s \in Signals : ObserveSignal(s[1], s[2])
           \/ \E grant \in inflight : DiscardResult(grant)
           \/ \E lost \in SUBSET inflight : WorkerStops(lost)
  BY <1>5, <1>6, Zenon DEF ObserveSignal, DiscardResult, WorkerStops, tables
<1>7. CASE ReconcileSnapshot \/ \E batch \in SUBSET Signals : ReconcileStalledSignals(batch)
  BY <1>5, <1>7, Zenon DEF ReconcileSnapshot, ReconcileStalledSignals, tables
<1>8. CASE Tick \/ PublisherStep \/ UNCHANGED vars
  BY <1>5, <1>8, Zenon DEF Tick, PublisherStep, ClaimOutbox, MarkOutboxPublished, ReleaseOutbox,
     PublisherStops, tables, vars
<1> QED
  BY <1>1, <1>2, <1>3, <1>4, <1>6, <1>7, <1>8, Zenon DEF Next, WorkerStep, MaintenanceStep

\* The tables start as a life that has not begun.
LEMMA InitLife == Init => Lifecycle!Init
<1> SUFFICES ASSUME Init PROVE Life = [d \in Delivery |-> Lifecycle!Begun("unknown")]
  BY Zenon DEF Lifecycle!Init
<1>1. ASSUME NEW d \in Delivery
      PROVE  LifeOf(deliveries[d], delivery_attempts[d], replay_audits[d]) = Lifecycle!Begun("unknown")
  <2>1. deliveries[d] = NoRow("absent") /\ delivery_attempts[d] = <<>> /\ replay_audits[d] = {}
    BY Zenon DEF Init
  <2>2. NoRow("absent").status = "absent" /\ NoRow("absent").generation = 0
    BY MissingRow, Zenon DEF Missing
  <2> QED
    BY <2>1, <2>2, BegunLife, Phases, Zenon
<1> QED
  BY <1>1, Zenon DEF Life

\* The store implements the life of a delivery: whatever interleaving of submissions,
\* Workers that crash, stall or lose their lease, background statements, replay and
\* retention, every table change is a step DeliveryLifecycle allows.
THEOREM StoreImplementsLifecycle == Spec => ImplementsLifecycle
<1>1. Init => Lifecycle!Init
  BY InitLife
<1>2. IInv /\ [Next]_vars => [Lifecycle!Next]_Life
  <2> SUFFICES ASSUME IInv, [Next]_vars, NEW d \in Delivery
               PROVE  Lifecycle!Moves(Life[d], Life'[d])
    BY Zenon DEF Lifecycle!Next
  <2>1. LifeMoves(d)
    BY EveryLifeMoves, Zenon
  <2>2. /\ Life[d] = LifeOf(deliveries[d], delivery_attempts[d], replay_audits[d])
        /\ Life'[d] = LifeOf(deliveries'[d], delivery_attempts'[d], replay_audits'[d])
    BY Zenon DEF Life, LifeOf, Results, Result, Phase
  <2> QED
    BY <2>1, <2>2, Zenon DEF LifeMoves
<1> QED
  BY <1>1, <1>2, Invariance, PTL DEF Spec, ImplementsLifecycle, Lifecycle!Spec

=============================================================================
