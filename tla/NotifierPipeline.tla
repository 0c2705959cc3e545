-------------------------- MODULE NotifierPipeline --------------------------
(***************************************************************************)
(* Every step of Notifier is a step of DeliveryStore or leaves the store   *)
(* alone, and keeps the processes in step with what the store handed them; *)
(* and what the steps of the store and of the processes do to the copies   *)
(* of a signal that is published and awaited.                              *)
(***************************************************************************)
EXTENDS Notifier, DeliveryStoreLeases

\* A count below a count within a limit is within it, and one that grows by less than
\* what is left under the limit stays within it.
LEMMA WithinLimit ==
  ASSUME NEW limit \in Nat, NEW a \in Nat, NEW b \in Nat, NEW c \in Nat, a <= b
  PROVE  /\ b <= limit => a <= limit
         /\ \A total \in Nat : b = c + 1 /\ c <= total /\ total < limit => a <= limit
  OBVIOUS

\* Adding a signal to a queue, or taking one, leaves a queue of signals.
LEMMA Queues ==
  ASSUME NEW queue, NEW s
  PROVE  /\ DOMAIN Added(queue, s) = DOMAIN queue \cup {s}
         /\ DOMAIN Taken(queue, s) \subseteq DOMAIN queue
  BY Zenon DEF Added, Joined, Taken

\* A queue of signals with one signal more or less is a queue of signals.
LEMMA QueueStaysTyped ==
  ASSUME NEW queue, DOMAIN queue \subseteq Signal, NEW s \in Signal
  PROVE  /\ DOMAIN Added(queue, s) \subseteq Signal
         /\ DOMAIN Taken(queue, s) \subseteq Signal
<1>1. /\ DOMAIN Added(queue, s) = DOMAIN queue \cup {s}
      /\ DOMAIN Taken(queue, s) \subseteq DOMAIN queue
  BY Queues, Zenon
<1> QED
  BY <1>1, Zenon

\* What is requeued are the signals of goroutines that have one.
LEMMA RequeuedSignals ==
  ASSUME NEW stopped, NEW queue
  PROVE  DOMAIN Joined(queue, Requeued(stopped)) =
           DOMAIN queue \cup {tasks[w].signal : w \in {v \in stopped : tasks[v].held}}
  BY Zenon DEF Joined, Requeued

\* A queue that takes back what these goroutines held is still a queue of signals.
LEMMA RequeuedIsTyped ==
  ASSUME PipelineInv, NEW stopped \in SUBSET Slot
  PROVE  DOMAIN Joined(dispatch, Requeued(stopped)) \subseteq Signal
<1>1. {tasks[w].signal : w \in {v \in stopped : tasks[v].held}} \subseteq Signal
  BY Zenon DEF PipelineInv, NotifierTypeOK
<1>2. DOMAIN dispatch \subseteq Signal
  BY Zenon DEF PipelineInv, NotifierTypeOK
<1> QED
  BY <1>1, <1>2, RequeuedSignals, Zenon

-----------------------------------------------------------------------------
(***************************************************************************)
(* Every step of the pipeline is a step of the store, or leaves it alone.  *)
(***************************************************************************)

\* The Publisher calls the store with events of its own batch.
LEMMA PublisherRefines ==
  ASSUME PipelineInv, IInv, NEW p \in Publisher, PublisherNext(p)
  PROVE  [Next]_vars
<1>1. CASE PublisherClaims(p)
  <2> DEFINE token == CHOOSE t \in UnusedBatchTokens : TRUE
  <2>1. token \in BatchToken
    BY <1>1, Zenon DEF PublisherClaims, UnusedBatchTokens
  <2>2. PICK batch \in SUBSET Signals : ClaimOutbox(batch, p, token)
    BY <1>1, Zenon DEF PublisherClaims
  <2> QED
    BY <2>1, <2>2, Zenon DEF Next, PublisherStep
<1>2. CASE \E h \in BatchOf(p) : Publishes(p, h)
  BY <1>2, Zenon DEF Publishes
<1>3. CASE \E h \in BatchOf(p) : Releases(p, h)
  BY <1>3, Zenon DEF Releases, BatchOf, Next, PublisherStep
<1>4. CASE Marks(p)
  <2>1. publishers[p].current \in handles
    BY <1>4, Zenon DEF Marks, PipelineInv, HandlesHeld, BatchOf
  <2> QED
    BY <1>4, <2>1, Zenon DEF Marks, Next, PublisherStep
<1>5. CASE MarkLosesLease(p) \/ Reconnects(p)
  BY <1>5, Zenon DEF MarkLosesLease, Reconnects
<1> QED
  BY <1>1, <1>2, <1>3, <1>4, <1>5, Zenon DEF PublisherNext

\* Goroutines that stop take some of the leases in flight with them.
LEMMA StopRefines ==
  ASSUME NEW stopped, Stop(stopped)
  PROVE  Next
<1> DEFINE lost == {tasks[w].grant : w \in stopped} \cap inflight
<1>1. lost \in SUBSET inflight
  BY Zenon
<1>2. WorkerStops(lost)
  BY Zenon DEF Stop, WorkerStops
<1> QED
  BY <1>1, <1>2, Zenon DEF Next, WorkerStep

\* A goroutine calls the store with its signal and its own lease.
LEMMA TaskRefines ==
  ASSUME PipelineInv, IInv, NEW w \in Slot, TaskNext(w)
  PROVE  [Next]_vars
<1> USE DEF At, Goto
<1>1. CASE EligibleDestination(w) \/ Acquires(w) \/ DoesNotAcquire(w) \/ ClaimFails(w)
           \/ Defers(w) \/ Acks(w)
  BY <1>1, Zenon DEF EligibleDestination, Acquires, DoesNotAcquire, ClaimFails, Defers, Acks
<1>2. CASE Observes(w)
  BY <1>2, Zenon DEF Observes, Next, WorkerStep
<1>3. CASE \E owner \in Owner : Claims(w, owner)
  <2> DEFINE s == tasks[w].signal
             token == CHOOSE t \in UnusedTokens : TRUE
  <2>1. PICK owner \in Owner : Claims(w, owner)
    BY <1>3, Zenon
  <2>2. token \in Token
    BY <2>1, Zenon DEF Claims, UnusedTokens
  <2>3. s[1] \in Delivery
    BY <2>1, Zenon DEF Claims, PipelineInv, NotifierTypeOK, Signal
  <2>4. ClaimDelivery(s[1], s[2], owner, token)
    BY <2>1, Zenon DEF Claims
  <2>5. s[2] = deliveries[s[1]].generation
    BY <2>4, Zenon DEF ClaimDelivery, Claimable
  <2> QED
    BY <2>2, <2>3, <2>4, <2>5, Zenon DEF Next, WorkerStep
<1>4. CASE Finishes(w)
  <2>1. tasks[w].grant \in inflight
    BY <1>4, Zenon DEF Finishes, PipelineInv, GrantsHeld
  <2> QED
    BY <1>4, <2>1, Zenon DEF Finishes, Next, WorkerStep
<1>5. CASE TaskFails(w)
  BY <1>5, StopRefines, Zenon DEF TaskFails
<1> QED
  BY <1>1, <1>2, <1>3, <1>4, <1>5, Zenon DEF TaskNext

\* Faults lose messages, leases and batches, and touch no table.
LEMMA FaultRefines ==
  ASSUME FaultNext
  PROVE  [Next]_vars
<1>1. CASE \E p \in Publisher :
             \/ \E h \in BatchOf(p), routed \in BOOLEAN : PublishFails(p, h, routed)
             \/ MarkFails(p)
  BY <1>1, Zenon DEF PublishFails, MarkFails
<1>2. CASE \E p \in Publisher : PublisherCrashes(p)
  BY <1>2, Zenon DEF PublisherCrashes, BatchOf, Next, PublisherStep
<1>3. CASE \E w \in Slot : TaskFails(w)
  BY <1>3, StopRefines, Zenon DEF TaskFails
<1>4. CASE \E process \in Process : WorkerCrashes(process)
  BY <1>4, StopRefines, Zenon DEF WorkerCrashes
<1>5. CASE \/ \E process \in Process : ConnectionLost(process)
           \/ \E s \in DOMAIN dispatch : BrokerLoses(s)
  BY <1>5, Zenon DEF ConnectionLost, BrokerLoses
<1> QED
  BY <1>1, <1>2, <1>3, <1>4, <1>5, Zenon DEF FaultNext

\* Every step of the composed system is a step of the store.
LEMMA NextRefines == PipelineInv /\ IInv /\ [NotifierNext]_allVars => [Next]_vars
<1> SUFFICES ASSUME PipelineInv, IInv, [NotifierNext]_allVars
             PROVE  [Next]_vars
  BY Zenon
<1>1. CASE Tick \/ ApiStep \/ MaintenanceStep
  BY <1>1, Zenon DEF Next
<1>2. CASE \E p \in Publisher : PublisherNext(p)
  BY <1>2, PublisherRefines, Zenon
<1>3. CASE \E w \in Slot : TaskNext(w)
  BY <1>3, TaskRefines, Zenon
<1>4. CASE \/ \E w \in Slot : \E s \in DOMAIN dispatch : Receives(w, s)
           \/ \E process \in Process : RunReturns(process) \/ DeferrerLost(process)
           \/ \E s \in DOMAIN deferred : DeferralExpires(s)
  BY <1>4, Zenon DEF Receives, RunReturns, DeferrerLost, DeferralExpires
<1>5. CASE FaultNext
  BY <1>5, FaultRefines, Zenon
<1>6. CASE UNCHANGED allVars
  BY <1>6, Zenon DEF allVars
<1> QED
  BY <1>1, <1>2, <1>3, <1>4, <1>5, <1>6, Zenon DEF NotifierNext

-----------------------------------------------------------------------------
(***************************************************************************)
(* The processes hold what the store handed them.                          *)
(***************************************************************************)

\* No process has started.
LEMMA InitPipeline == NotifierInit => PipelineInv
<1> SUFFICES ASSUME NotifierInit PROVE PipelineInv
  BY Zenon
<1>1. Running \in PublisherState /\ NoTask \in TaskState
  BY Zenon DEF Running, PublisherState, NoTask, TaskState
<1>2. DOMAIN Empty = {}
  BY Zenon DEF Empty
<1>3. unread \in [Process -> 0..2]
  BY DEF NotifierInit
<1>4. NotifierTypeOK
  BY <1>1, <1>2, <1>3, Zenon DEF NotifierInit, NotifierTypeOK, NoTask
<1>5. GrantsHeld /\ HandlesHeld
  BY Zenon DEF NotifierInit, GrantsHeld, HandlesHeld, NoTask, Running
<1> QED
  BY <1>4, <1>5, Zenon DEF PipelineInv

\* The other clients of the store touch neither leases in flight nor batches.
LEMMA OthersPipeline ==
  ASSUME PipelineInv, UNCHANGED pipeline, Tick \/ ApiStep \/ MaintenanceStep
  PROVE  PipelineInv'
<1>1. UNCHANGED <<inflight, handles>>
  BY Zenon DEF Tick, ApiStep, MaintenanceStep, Submit, Replay, ScheduleDueRetries,
     RecoverExpiredDeliveries, DeleteExpiredTerminal, ReconcileSnapshot,
     ReconcileStalledSignals, clients
<1> QED
  BY <1>1, Zenon DEF pipeline, PipelineInv, NotifierTypeOK, GrantsHeld, HandlesHeld, BatchOf

\* A Publisher changes its own batch only.
LEMMA PublisherPipeline ==
  ASSUME PipelineInv, IInv, NEW p \in Publisher, PublisherNext(p)
  PROVE  PipelineInv'
<1>1. handles \subseteq Handle
  BY Zenon DEF IInv, TypeOK
<1>2. \A state \in {"running", "marking", "releasing"}, h \in Handle \cup {NULL} :
        [pc |-> state, current |-> h] \in PublisherState
  BY Zenon DEF PublisherState
<1>3. ASSUME UNCHANGED <<tasks, inflight>> PROVE GrantsHeld'
  BY <1>3, Zenon DEF GrantsHeld, PipelineInv
<1>4. ASSUME UNCHANGED <<dispatch, deferred, tasks, cancelled, faults, unread, dropped>>,
             publishers' \in [Publisher -> PublisherState]
      PROVE  NotifierTypeOK'
  BY <1>4, Zenon DEF NotifierTypeOK, PipelineInv
<1>5. CASE PublisherClaims(p)
  <2>1. UNCHANGED <<pipeline, inflight>> /\ handles \subseteq handles'
    BY <1>5, Zenon DEF PublisherClaims, ClaimOutbox
  <2> QED
    BY <2>1, Zenon DEF pipeline, PipelineInv, NotifierTypeOK, GrantsHeld, HandlesHeld, BatchOf
<1>6. ASSUME NEW h \in BatchOf(p), Publishes(p, h) PROVE PipelineInv'
  <2>1. h \in Handle /\ <<h.delivery, h.generation>> \in Signal
    BY <1>1, <1>6, Zenon DEF BatchOf, Handle, Signal
  <2>2. publishers' \in [Publisher -> PublisherState]
    BY <1>2, <1>6, <2>1, Zenon DEF Publishes, NotifierTypeOK, PipelineInv
  <2>3. DOMAIN dispatch' \subseteq Signal
    <3>1. dispatch' = Added(dispatch, <<h.delivery, h.generation>>)
      BY <1>6, Zenon DEF Publishes
    <3>2. DOMAIN dispatch' = DOMAIN dispatch \cup {<<h.delivery, h.generation>>}
      BY <3>1, Queues, Zenon
    <3> QED
      BY <2>1, <3>2, Zenon DEF NotifierTypeOK, PipelineInv
  <2>4. NotifierTypeOK'
    BY <1>6, <2>2, <2>3, Zenon DEF Publishes, NotifierTypeOK, PipelineInv
  <2>5. HandlesHeld'
    BY <1>6, Zenon DEF Publishes, HandlesHeld, PipelineInv, NotifierTypeOK, BatchOf, vars
  <2> QED
    BY <1>3, <1>6, <2>4, <2>5, Zenon DEF Publishes, PipelineInv, vars
<1>7. ASSUME NEW h \in BatchOf(p), Releases(p, h) PROVE PipelineInv'
  <2>1. /\ UNCHANGED <<publishers, dispatch, deferred, tasks, cancelled, faults, unread,
                       dropped, inflight>>
        /\ handles' = handles \ {h}
        /\ publishers[p].pc = "releasing"
        /\ h.owner = p
    BY <1>7, Zenon DEF Releases, ReleaseOutbox, pipeline, BatchOf
  <2>2. HandlesHeld'
    BY <2>1, Zenon DEF HandlesHeld, PipelineInv, BatchOf
  <2> QED
    BY <1>3, <1>4, <2>1, <2>2, Zenon DEF PipelineInv, NotifierTypeOK
<1>8. CASE Marks(p)
  <2> DEFINE h == publishers[p].current
  <2>1. /\ UNCHANGED <<dispatch, deferred, tasks, cancelled, faults, unread, dropped, inflight>>
        /\ handles' = handles \ {h}
        /\ h.owner = p
        /\ publishers' = [publishers EXCEPT ![p] = Running]
    BY <1>8, Zenon DEF Marks, MarkOutboxPublished, PipelineInv, HandlesHeld, BatchOf
  <2>2. Running \in PublisherState
    BY <1>2, Zenon DEF Running
  <2>3. HandlesHeld'
    BY <2>1, Zenon DEF HandlesHeld, PipelineInv, NotifierTypeOK, BatchOf, Running
  <2> QED
    BY <1>3, <1>4, <2>1, <2>2, <2>3, Zenon DEF PipelineInv, NotifierTypeOK
<1>9. CASE MarkLosesLease(p) \/ Reconnects(p)
  <2>1. PICK state \in {"running", "releasing"} :
          /\ publishers' = [publishers EXCEPT ![p] = [pc |-> state, current |-> NULL]]
          /\ UNCHANGED <<dispatch, deferred, tasks, cancelled, faults, unread, dropped, inflight,
                         handles>>
    BY <1>9, Zenon DEF MarkLosesLease, Reconnects, Running, vars
  <2>2. HandlesHeld'
    BY <2>1, Zenon DEF HandlesHeld, PipelineInv, NotifierTypeOK, BatchOf
  <2> QED
    BY <1>2, <1>3, <1>4, <2>1, <2>2, Zenon DEF PipelineInv, NotifierTypeOK
<1> QED
  BY <1>5, <1>6, <1>7, <1>8, <1>9, Zenon DEF PublisherNext

\* One goroutine moves to a state whose lease, if it has one, is its own.
LEMMA TaskUpdate ==
  ASSUME PipelineInv, NEW w \in Slot, NEW task \in TaskState,
         tasks' = [tasks EXCEPT ![w] = task],
         task.held \/ task.pc # "idle" => task.signal \in Signal,
         IF task.pc = "sending" THEN task.grant \in inflight' ELSE task.grant = NULL,
         \A v \in Slot : v # w /\ tasks[v].pc = "sending" =>
                           tasks[v].grant \in inflight' /\ tasks[v].grant # task.grant,
         DOMAIN dispatch' \subseteq Signal, DOMAIN deferred' \subseteq Signal,
         cancelled' \subseteq Process, faults' \in Nat,
         unread' \in [Process -> 0..2], dropped' \subseteq Signal,
         UNCHANGED <<publishers, handles>>
  PROVE  PipelineInv'
<1>1. /\ tasks \in [Slot -> TaskState]
      /\ tasks' \in [Slot -> TaskState]
      /\ tasks'[w] = task
      /\ \A v \in Slot : v # w => tasks'[v] = tasks[v]
  BY Zenon DEF PipelineInv, NotifierTypeOK
<1>2. NotifierTypeOK'
  <2>1. \A v \in Slot : tasks'[v].held \/ tasks'[v].pc # "idle" => tasks'[v].signal \in Signal
    BY <1>1, Zenon DEF PipelineInv, NotifierTypeOK
  <2> QED
    BY <1>1, <2>1, Zenon DEF PipelineInv, NotifierTypeOK
<1>3. GrantsHeld'
  BY <1>1, Zenon DEF PipelineInv, GrantsHeld
<1>4. HandlesHeld'
  BY Zenon DEF PipelineInv, HandlesHeld, BatchOf
<1> QED
  BY <1>2, <1>3, <1>4, Zenon DEF PipelineInv

\* A lease in flight is one that was granted.
LEMMA LeasesAreNotNull ==
  ASSUME IInv
  PROVE  /\ NULL \notin inflight
         /\ inflight \subseteq grants
         /\ grants \subseteq Grant
  BY NullAssumption, Zenon DEF IInv, TypeOK

\* Between the receipt of a message and its acknowledgement, outside a send.
LEMMA GotoPipeline ==
  ASSUME PipelineInv, IInv, NEW w \in Slot,
         NEW pc \in {"eligible", "observed", "permitted", "deferring", "ack"},
         tasks[w].pc \notin {"idle", "sending"}, Goto(w, pc),
         DOMAIN deferred' \subseteq Signal, dropped' \subseteq Signal,
         UNCHANGED <<publishers, dispatch, cancelled, faults, unread, inflight, handles>>
  PROVE  PipelineInv'
<1> DEFINE task == [tasks[w] EXCEPT !.pc = pc]
<1>1. tasks[w] \in TaskState /\ tasks[w].signal \in Signal /\ tasks[w].grant = NULL
  BY Zenon DEF PipelineInv, NotifierTypeOK, GrantsHeld
<1>2. /\ task \in TaskState /\ task.signal \in Signal /\ task.grant = NULL
      /\ task.pc \notin {"idle", "sending"}
  BY <1>1, Zenon DEF TaskState
<1>3. tasks' = [tasks EXCEPT ![w] = task]
  BY Zenon DEF Goto
<1>4. \A v \in Slot : v # w /\ tasks[v].pc = "sending" =>
                        tasks[v].grant \in inflight' /\ tasks[v].grant # NULL
  BY LeasesAreNotNull, Zenon DEF PipelineInv, GrantsHeld
<1> QED
  BY <1>2, <1>3, <1>4, TaskUpdate, Zenon DEF PipelineInv, NotifierTypeOK

\* Claiming takes an unused token; completing ends the goroutine's own lease.
LEMMA TaskPipeline ==
  ASSUME PipelineInv, IInv, NEW w \in Slot, TaskNext(w), ~TaskFails(w)
  PROVE  PipelineInv'
<1>1. /\ tasks \in [Slot -> TaskState] /\ tasks[w] \in TaskState
      /\ tasks[w].pc # "idle" => tasks[w].signal \in Signal
      /\ DOMAIN dispatch \subseteq Signal
      /\ DOMAIN deferred \subseteq Signal /\ dropped \subseteq Signal
  BY Zenon DEF PipelineInv, NotifierTypeOK
<1>2. CASE EligibleDestination(w) \/ Acquires(w) \/ DoesNotAcquire(w) \/ ClaimFails(w)
  <2>1. /\ tasks[w].pc \notin {"idle", "sending"}
        /\ \E pc \in {"eligible", "permitted", "deferring", "ack"} : Goto(w, pc)
        /\ UNCHANGED <<publishers, dispatch, deferred, cancelled, faults, unread, dropped,
                       inflight, handles>>
    BY <1>2, Zenon DEF EligibleDestination, Acquires, DoesNotAcquire, ClaimFails, At, vars
  <2> QED
    BY <1>1, <2>1, GotoPipeline, Zenon
<1>3. CASE Observes(w)
  <2>1. UNCHANGED <<inflight, handles>>
    BY <1>3, Zenon DEF Observes, ObserveSignal, clients, vars
  <2> QED
    BY <1>1, <1>3, <2>1, GotoPipeline, Zenon DEF Observes, At
<1>4. CASE Defers(w)
  <2>1. tasks[w].signal \in Signal
    BY <1>1, <1>4, Zenon DEF Defers, At
  <2>2. /\ deferred' = deferred \/ deferred' = Added(deferred, tasks[w].signal)
        /\ dropped' = dropped \/ dropped' = dropped \cup {tasks[w].signal}
    BY <1>4, Zenon DEF Defers
  <2>3. DOMAIN deferred' \subseteq Signal
    BY <1>1, <2>1, <2>2, QueueStaysTyped, Zenon
  <2>4. dropped' \subseteq Signal
    BY <1>1, <2>1, <2>2, Zenon
  <2> QED
    BY <1>1, <1>4, <2>3, <2>4, GotoPipeline, Zenon DEF Defers, At, vars
<1>5. CASE Acks(w)
  <2>1. NoTask \in TaskState /\ NoTask.pc = "idle" /\ ~NoTask.held /\ NoTask.grant = NULL
    BY Zenon DEF NoTask, TaskState
  <2>2. \A v \in Slot : v # w /\ tasks[v].pc = "sending" =>
                          tasks[v].grant \in inflight' /\ tasks[v].grant # NULL
    BY <1>5, LeasesAreNotNull, Zenon DEF PipelineInv, GrantsHeld, Acks, vars
  <2>3. /\ tasks' = [tasks EXCEPT ![w] = NoTask]
        /\ UNCHANGED <<publishers, dispatch, deferred, cancelled, faults, unread, dropped, handles>>
    BY <1>5, Zenon DEF Acks, vars
  <2>4. /\ DOMAIN dispatch' \subseteq Signal /\ DOMAIN deferred' \subseteq Signal
        /\ cancelled' \subseteq Process /\ faults' \in Nat
        /\ unread' \in [Process -> 0..2] /\ dropped' \subseteq Signal
    BY <2>3, Zenon DEF PipelineInv, NotifierTypeOK
  <2> QED
    BY <2>1, <2>2, <2>3, <2>4, TaskUpdate, Zenon
<1>6. ASSUME NEW owner \in Owner, Claims(w, owner) PROVE PipelineInv'
  <2> DEFINE s == tasks[w].signal
             token == CHOOSE t \in UnusedTokens : TRUE
             grant == [delivery |-> s[1], generation |-> s[2], owner |-> owner, token |-> token]
             task == [tasks[w] EXCEPT !.pc = "sending", !.grant = grant]
  <2>1. /\ tasks[w].pc = "permitted"
        /\ tasks' = [tasks EXCEPT ![w] = task]
        /\ UnusedTokens # {}
        /\ inflight' = inflight \cup {grant}
        /\ UNCHANGED <<publishers, dispatch, deferred, cancelled, faults, unread, dropped, handles>>
    BY <1>1, <1>6, Zenon DEF Claims, ClaimDelivery, At
  <2>2. token \in Token /\ \A g \in grants : g.token # token
    BY <2>1, Zenon DEF UnusedTokens
  <2>3. s \in Signal /\ grant \in Grant /\ grant.token = token
    BY <1>1, <2>1, <2>2, Zenon DEF Signal, Grant
  <2>4. task \in TaskState /\ task.pc = "sending" /\ task.grant = grant /\ task.signal = s
    BY <1>1, <2>3, Zenon DEF TaskState
  <2>5. \A v \in Slot : v # w /\ tasks[v].pc = "sending" =>
                          tasks[v].grant \in inflight' /\ tasks[v].grant # grant
    BY <2>1, <2>2, <2>3, LeasesAreNotNull, Zenon DEF PipelineInv, GrantsHeld
  <2> HIDE DEF task, grant, token, s
  <2> QED
    BY <1>1, <2>1, <2>3, <2>4, <2>5, TaskUpdate, Zenon DEF PipelineInv, NotifierTypeOK
<1>7. CASE Finishes(w)
  <2> DEFINE task == [tasks[w] EXCEPT !.pc = "ack", !.grant = NULL]
  <2>1. /\ tasks[w].pc = "sending"
        /\ tasks' = [tasks EXCEPT ![w] = task]
        /\ inflight' = inflight \ {tasks[w].grant}
        /\ UNCHANGED <<publishers, dispatch, deferred, cancelled, faults, unread, dropped, handles>>
    BY <1>1, <1>7, Zenon DEF Finishes, CompleteSuccess, CompletePermanent, CompleteRetry,
       completeResult, DiscardResult, At
  <2>2. task \in TaskState /\ task.pc = "ack" /\ task.grant = NULL /\ task.signal \in Signal
    BY <1>1, <2>1, Zenon DEF TaskState
  <2>3. \A v \in Slot : v # w /\ tasks[v].pc = "sending" =>
                          tasks[v].grant \in inflight' /\ tasks[v].grant # NULL
    BY <2>1, LeasesAreNotNull, Zenon DEF PipelineInv, GrantsHeld
  <2> HIDE DEF task
  <2>4. /\ DOMAIN dispatch' \subseteq Signal /\ DOMAIN deferred' \subseteq Signal
        /\ cancelled' \subseteq Process /\ faults' \in Nat
        /\ unread' \in [Process -> 0..2] /\ dropped' \subseteq Signal
    BY <2>1, Zenon DEF PipelineInv, NotifierTypeOK
  <2>5. /\ task.held \/ task.pc # "idle" => task.signal \in Signal
        /\ IF task.pc = "sending" THEN task.grant \in inflight' ELSE task.grant = NULL
        /\ \A v \in Slot : v # w /\ tasks[v].pc = "sending" =>
                            tasks[v].grant \in inflight' /\ tasks[v].grant # task.grant
    BY <2>2, <2>3, Zenon
  <2> QED
    BY <2>1, <2>2, <2>4, <2>5, TaskUpdate, Zenon
<1> QED
  BY <1>2, <1>3, <1>4, <1>5, <1>6, <1>7, Zenon DEF TaskNext

\* Goroutines that stop leave the leases of the others in flight.
LEMMA StopPipeline ==
  ASSUME PipelineInv, IInv, NEW stopped \in SUBSET Slot, Stop(stopped),
         cancelled' \subseteq Process, faults' \in Nat, DOMAIN deferred' \subseteq Signal,
         unread' \in [Process -> 0..2], UNCHANGED <<publishers, dropped>>
  PROVE  PipelineInv'
<1>1. /\ tasks \in [Slot -> TaskState]
      /\ tasks' = [w \in Slot |-> IF w \in stopped THEN NoTask ELSE tasks[w]]
      /\ inflight' = inflight \ {tasks[w].grant : w \in stopped}
      /\ dispatch' = Joined(dispatch, Requeued(stopped))
      /\ UNCHANGED handles
  BY Zenon DEF Stop, WorkerStops, PipelineInv, NotifierTypeOK
<1>2. NoTask \in TaskState /\ NoTask.pc = "idle" /\ ~NoTask.held /\ NoTask.grant = NULL
  BY Zenon DEF NoTask, TaskState
<1>3. NotifierTypeOK'
  <2>1. DOMAIN dispatch' \subseteq Signal
    BY <1>1, RequeuedIsTyped, Zenon
  <2>2. tasks' \in [Slot -> TaskState]
    BY <1>1, <1>2, Zenon
  <2>3. \A v \in Slot : tasks'[v].held \/ tasks'[v].pc # "idle" => tasks'[v].signal \in Signal
    BY <1>1, <1>2, Zenon DEF PipelineInv, NotifierTypeOK
  <2> QED
    BY <2>1, <2>2, <2>3, Zenon DEF PipelineInv, NotifierTypeOK
<1>4. GrantsHeld'
  <2>1. \A v \in Slot : v \notin stopped /\ tasks[v].pc = "sending" =>
                          tasks[v].grant \in inflight'
    BY <1>1, LeasesAreNotNull, Zenon DEF PipelineInv, GrantsHeld
  <2> QED
    BY <1>1, <1>2, <2>1, Zenon DEF PipelineInv, GrantsHeld
<1>5. HandlesHeld'
  BY <1>1, Zenon DEF PipelineInv, HandlesHeld, BatchOf
<1> QED
  BY <1>3, <1>4, <1>5, Zenon DEF PipelineInv

\* A process may leave one confirmation more behind, and starts again with none.
LEMMA UnreadCounts ==
  ASSUME NEW process \in Process, unread \in [Process -> 0..2]
  PROVE  /\ [unread EXCEPT ![process] = IF @ < 2 THEN @ + 1 ELSE 2] \in [Process -> 0..2]
         /\ [unread EXCEPT ![process] = 0] \in [Process -> 0..2]
  OBVIOUS

\* A call of processMessage fails.
LEMMA TaskFailsPipeline ==
  ASSUME PipelineInv, IInv, NEW w \in Slot, TaskFails(w)
  PROVE  PipelineInv'
<1>1. w[1] \in Process /\ {w} \in SUBSET Slot
  BY Zenon DEF Slot
<1>2. /\ DOMAIN deferred \subseteq Signal /\ unread \in [Process -> 0..2]
      /\ tasks[w].signal \in Signal /\ cancelled \subseteq Process /\ faults \in Nat
  BY Zenon DEF TaskFails, PipelineInv, NotifierTypeOK
<1>3. DOMAIN deferred' \subseteq Signal
  <2>1. deferred' = deferred \/ deferred' = Added(deferred, tasks[w].signal)
    BY Zenon DEF TaskFails, FailedDefer
  <2> QED
    BY <1>2, <2>1, QueueStaysTyped, Zenon
<1>4. unread' \in [Process -> 0..2]
  BY <1>1, <1>2, UnreadCounts, Zenon DEF TaskFails, FailedDefer
<1>5. cancelled' \subseteq Process
  BY <1>1, <1>2, Zenon DEF TaskFails
<1>6. faults' \in Nat
  BY <1>2 DEF TaskFails, Fault
<1> QED
  BY <1>1, <1>3, <1>4, <1>5, <1>6, StopPipeline, Zenon DEF TaskFails

\* Faults take goroutines and batches away whole.
LEMMA FaultPipeline ==
  ASSUME PipelineInv, IInv, FaultNext
  PROVE  PipelineInv'
<1>1. /\ handles \subseteq Handle
      /\ publishers \in [Publisher -> PublisherState]
      /\ tasks \in [Slot -> TaskState]
      /\ DOMAIN dispatch \subseteq Signal
  BY Zenon DEF IInv, TypeOK, PipelineInv, NotifierTypeOK
<1>2. [pc |-> "releasing", current |-> NULL] \in PublisherState /\ Running \in PublisherState
  BY Zenon DEF PublisherState, Running
<1>3. ASSUME NEW p \in Publisher, NEW h \in BatchOf(p), NEW routed \in BOOLEAN,
             PublishFails(p, h, routed)
      PROVE  PipelineInv'
  <2>1. <<h.delivery, h.generation>> \in Signal
    BY <1>1, Zenon DEF BatchOf, Handle, Signal
  <2>2. DOMAIN dispatch' \subseteq Signal
    <3>1. CASE routed
      <4>1. dispatch' = Added(dispatch, <<h.delivery, h.generation>>)
        BY <1>3, <3>1, Zenon DEF PublishFails
      <4>2. DOMAIN dispatch' = DOMAIN dispatch \cup {<<h.delivery, h.generation>>}
        BY <4>1, Queues, Zenon
      <4> QED
        BY <1>1, <2>1, <4>2, Zenon
    <3>2. CASE ~routed
      BY <1>1, <1>3, <3>2, Zenon DEF PublishFails
    <3> QED
      BY <3>1, <3>2, Zenon
  <2>3. NotifierTypeOK'
    <3>1. /\ publishers' = [publishers EXCEPT ![p] = [pc |-> "releasing", current |-> NULL]]
          /\ faults' = faults + 1
          /\ UNCHANGED <<deferred, tasks, cancelled, unread, dropped>>
      BY <1>3, Zenon DEF PublishFails, Fault
    <3> QED
      BY <1>1, <1>2, <2>2, <3>1 DEF PipelineInv, NotifierTypeOK
  <2>4. GrantsHeld' /\ HandlesHeld'
    BY <1>1, <1>3, Zenon DEF PublishFails, PipelineInv, GrantsHeld, HandlesHeld, BatchOf, vars
  <2> QED
    BY <2>3, <2>4, Zenon DEF PipelineInv
<1>4. ASSUME NEW p \in Publisher, MarkFails(p) PROVE PipelineInv'
  <2>1. NotifierTypeOK'
    BY <1>1, <1>2, <1>4 DEF MarkFails, Fault, PipelineInv, NotifierTypeOK
  <2>2. GrantsHeld' /\ HandlesHeld'
    BY <1>1, <1>4, Zenon DEF MarkFails, PipelineInv, GrantsHeld, HandlesHeld, BatchOf, vars
  <2> QED
    BY <2>1, <2>2, Zenon DEF PipelineInv
<1>5. ASSUME NEW p \in Publisher, PublisherCrashes(p) PROVE PipelineInv'
  <2>1. NotifierTypeOK'
    BY <1>1, <1>2, <1>5 DEF PublisherCrashes, Fault, PipelineInv, NotifierTypeOK
  <2>2. GrantsHeld' /\ HandlesHeld'
    BY <1>1, <1>5, Zenon DEF PublisherCrashes, PublisherStops, PipelineInv, GrantsHeld, HandlesHeld,
       BatchOf, Running
  <2> QED
    BY <2>1, <2>2 DEF PipelineInv
<1>6. ASSUME NEW w \in Slot, TaskFails(w) PROVE PipelineInv'
  BY <1>6, TaskFailsPipeline, Zenon
<1>7. ASSUME NEW process \in Process, WorkerCrashes(process) PROVE PipelineInv'
  <2>1. GoroutinesOf(process) \in SUBSET Slot
    BY Zenon DEF GoroutinesOf
  <2>2. /\ DOMAIN deferred' \subseteq Signal /\ unread' \in [Process -> 0..2]
        /\ cancelled' \subseteq Process
    BY <1>7, UnreadCounts, Zenon DEF WorkerCrashes, PipelineInv, NotifierTypeOK
  <2>3. faults' \in Nat
    BY <1>7 DEF WorkerCrashes, Fault, PipelineInv, NotifierTypeOK
  <2> QED
    BY <1>7, <2>1, <2>2, <2>3, StopPipeline, Zenon DEF WorkerCrashes
<1>8. ASSUME NEW process \in Process, ConnectionLost(process) PROVE PipelineInv'
  <2>1. GoroutinesOf(process) \subseteq Slot
    BY Zenon DEF GoroutinesOf
  <2>2. DOMAIN dispatch' \subseteq Signal
    BY <1>8, <2>1, RequeuedIsTyped, Zenon DEF ConnectionLost
  <2>3. /\ tasks' \in [Slot -> TaskState]
        /\ \A v \in Slot : /\ tasks'[v].pc = tasks[v].pc
                           /\ tasks'[v].signal = tasks[v].signal
                           /\ tasks'[v].grant = tasks[v].grant
                           /\ tasks'[v].held => tasks[v].held
    BY <1>1, <1>8, Zenon DEF ConnectionLost, TaskState
  <2>4. NotifierTypeOK'
    BY <1>8, <2>2, <2>3 DEF ConnectionLost, Fault, PipelineInv, NotifierTypeOK
  <2>5. GrantsHeld' /\ HandlesHeld'
    BY <1>8, <2>3 DEF ConnectionLost, PipelineInv, GrantsHeld, HandlesHeld, BatchOf, vars
  <2> QED
    BY <2>4, <2>5 DEF PipelineInv
<1>9. ASSUME NEW s \in DOMAIN dispatch, BrokerLoses(s) PROVE PipelineInv'
  <2>1. DOMAIN dispatch' \subseteq Signal
    BY <1>1, <1>9, QueueStaysTyped, Zenon DEF BrokerLoses
  <2>2. NotifierTypeOK'
    <3>1. dropped' \subseteq Signal
      BY <1>1, <1>9, Zenon DEF BrokerLoses, PipelineInv, NotifierTypeOK
    <3> QED
      BY <1>9, <2>1, <3>1 DEF BrokerLoses, Fault, PipelineInv, NotifierTypeOK
  <2>3. GrantsHeld' /\ HandlesHeld'
    BY <1>9, Zenon DEF BrokerLoses, PipelineInv, GrantsHeld, HandlesHeld, BatchOf, vars
  <2> QED
    BY <2>2, <2>3, Zenon DEF PipelineInv
<1> QED
  BY <1>3, <1>4, <1>5, <1>6, <1>7, <1>8, <1>9, Zenon DEF FaultNext

\* A message becomes a goroutine; Run returns; a deferral ends.
LEMMA BrokerPipeline ==
  ASSUME PipelineInv, IInv,
         \/ \E w \in Slot : \E s \in DOMAIN dispatch : Receives(w, s)
         \/ \E process \in Process : RunReturns(process) \/ DeferrerLost(process)
         \/ \E s \in DOMAIN deferred : DeferralExpires(s)
  PROVE  PipelineInv'
<1>1. ASSUME NEW w \in Slot, NEW s \in DOMAIN dispatch, Receives(w, s) PROVE PipelineInv'
  <2> DEFINE task == [pc |-> "received", signal |-> s, grant |-> NULL, held |-> TRUE]
  <2>1. s \in Signal
    BY Zenon DEF PipelineInv, NotifierTypeOK
  <2>2. task \in TaskState /\ task.pc = "received" /\ task.signal = s /\ task.grant = NULL
    BY <2>1, Zenon DEF TaskState
  <2>3. DOMAIN dispatch' \subseteq Signal
    BY <1>1, Queues, Zenon DEF Receives, PipelineInv, NotifierTypeOK
  <2>4. /\ tasks' = [tasks EXCEPT ![w] = task]
        /\ UNCHANGED <<publishers, deferred, cancelled, faults, unread, dropped, inflight, handles>>
    BY <1>1, Zenon DEF Receives, vars
  <2>5. \A v \in Slot : v # w /\ tasks[v].pc = "sending" =>
                          tasks[v].grant \in inflight' /\ tasks[v].grant # NULL
    BY <2>4, LeasesAreNotNull, Zenon DEF PipelineInv, GrantsHeld
  <2> HIDE DEF task
  <2> QED
    BY <2>1, <2>2, <2>3, <2>4, <2>5, TaskUpdate, Zenon DEF PipelineInv, NotifierTypeOK
<1>2. ASSUME NEW process \in Process, RunReturns(process) \/ DeferrerLost(process)
      PROVE  PipelineInv'
  <2>1. /\ unread' \in [Process -> 0..2] /\ cancelled' \subseteq Process
        /\ UNCHANGED <<vars, publishers, dispatch, deferred, tasks, faults, dropped>>
    BY <1>2, UnreadCounts, Zenon DEF RunReturns, DeferrerLost, PipelineInv, NotifierTypeOK
  <2> QED
    BY <2>1, Zenon DEF PipelineInv, NotifierTypeOK, GrantsHeld, HandlesHeld, BatchOf, vars
<1>3. ASSUME NEW s \in DOMAIN deferred, DeferralExpires(s) PROVE PipelineInv'
  <2>1. DOMAIN dispatch' \subseteq Signal /\ DOMAIN deferred' \subseteq Signal
    <3>1. /\ dispatch' = Added(dispatch, s)
          /\ deferred' = Taken(deferred, s)
      BY <1>3, Zenon DEF DeferralExpires
    <3>2. /\ DOMAIN dispatch' = DOMAIN dispatch \cup {s}
          /\ DOMAIN deferred' \subseteq DOMAIN deferred
      BY <3>1, Queues, Zenon
    <3> QED
      BY <3>2, Zenon DEF PipelineInv, NotifierTypeOK
  <2>2. NotifierTypeOK'
    BY <1>3, <2>1, Zenon DEF DeferralExpires, PipelineInv, NotifierTypeOK
  <2>3. GrantsHeld' /\ HandlesHeld'
    BY <1>3, Zenon DEF DeferralExpires, PipelineInv, GrantsHeld, HandlesHeld, BatchOf, vars
  <2> QED
    BY <2>2, <2>3, Zenon DEF PipelineInv
<1> QED
  BY <1>1, <1>2, <1>3, Zenon

\* Every step keeps the processes in step with the store.
LEMMA NextPipeline == PipelineInv /\ IInv /\ [NotifierNext]_allVars => PipelineInv'
<1> SUFFICES ASSUME PipelineInv, IInv, [NotifierNext]_allVars
             PROVE  PipelineInv'
  BY Zenon
<1>1. CASE (Tick \/ ApiStep \/ MaintenanceStep) /\ UNCHANGED pipeline
  BY <1>1, OthersPipeline, Zenon
<1>2. CASE \E p \in Publisher : PublisherNext(p)
  BY <1>2, PublisherPipeline, Zenon
<1>3. CASE \E w \in Slot : TaskNext(w)
  <2>1. PICK w \in Slot : TaskNext(w)
    BY <1>3, Zenon
  <2>2. CASE ~TaskFails(w)
    BY <2>1, <2>2, TaskPipeline, Zenon
  <2>3. CASE TaskFails(w)
    BY <2>3, TaskFailsPipeline, Zenon
  <2> QED
    BY <2>2, <2>3, Zenon
<1>4. CASE \/ \E w \in Slot : \E s \in DOMAIN dispatch : Receives(w, s)
           \/ \E process \in Process : RunReturns(process) \/ DeferrerLost(process)
           \/ \E s \in DOMAIN deferred : DeferralExpires(s)
  BY <1>4, BrokerPipeline, Zenon
<1>5. CASE FaultNext
  BY <1>5, FaultPipeline, Zenon
<1>6. CASE UNCHANGED allVars
  BY <1>6, Zenon DEF allVars, vars, pipeline, PipelineInv, NotifierTypeOK, GrantsHeld, HandlesHeld, BatchOf
<1> QED
  BY <1>1, <1>2, <1>3, <1>4, <1>5, <1>6, Zenon DEF NotifierNext

-----------------------------------------------------------------------------
(***************************************************************************)
(* No signal is dropped: the queues.                                       *)
(***************************************************************************)

\* Queues that count their copies.
Counts(queue) == \A s \in DOMAIN queue : queue[s] \in Nat \ {0}

\* A message more leaves every other one where it is; so does one message less.
LEMMA CopyMoves ==
  ASSUME NEW queue, Counts(queue), NEW s
  PROVE  /\ Counts(Added(queue, s))
         /\ s \in DOMAIN Added(queue, s)
         /\ \A x : x \in DOMAIN queue => x \in DOMAIN Added(queue, s)
         /\ Counts(Taken(queue, s))
         /\ \A x : x # s /\ x \in DOMAIN queue => x \in DOMAIN Taken(queue, s)
  BY DEF Counts, Added, Joined, Taken, Copies


-----------------------------------------------------------------------------
(***************************************************************************)
(* No signal is dropped: the store.                                        *)
(***************************************************************************)

\* The signal of d is awaited as it was before the step.
StillAwaited(d) == Awaited(d) /\ Current(d)' = Current(d)

\* The signal of d is new, and nobody has published it.
NewlyAwaited(d) ==
  /\ Current(d)' \notin Signals
  /\ outbox_events'[Current(d)'].published_at = NULL
  /\ deliveries[d].status # "deleted"

\* A row and the set of events that a step leaves alone keep the signal awaited.
LEMMA AwaitedUnchanged ==
  ASSUME NEW d \in Delivery, Awaited(d)', now \in Nat, now' \in Nat, now' >= now,
         deliveries[d] \in DeliveryRow, deliveries'[d] = deliveries[d],
         Current(d) \in Signals' => Current(d) \in Signals
  PROVE  StillAwaited(d)
<1>1. deliveries[d].retry_deadline \in Nat
  BY Zenon DEF DeliveryRow
<1> QED
  BY <1>1 DEF StillAwaited, Awaited, Current

\* Only Submit, ScheduleDueRetries, RecoverExpiredDeliveries and Replay make a signal
\* awaited, and each of them with an event of its own that is not published.
LEMMA AwaitedStep ==
  ASSUME IInv, [Next]_vars, NEW d \in Delivery, Awaited(d)'
  PROVE  StillAwaited(d) \/ NewlyAwaited(d)
<1>1. /\ TypeOK /\ LeaseTupleConsistent
      /\ now \in Nat /\ now' \in Nat /\ now' >= now
      /\ deliveries \in [Delivery -> DeliveryRow] /\ deliveries[d] \in DeliveryRow
      /\ deliveries[d].generation \in Nat
  <2>1. now' = now \/ now' = now + 1
    BY Zenon DEF vars, Next, Tick, ApiStep, WorkerStep, PublisherStep, MaintenanceStep, Submit,
       Replay, ObserveSignal, ClaimDelivery, CompleteSuccess, CompletePermanent, CompleteRetry,
       completeResult, DiscardResult, WorkerStops, ClaimOutbox, MarkOutboxPublished,
       ReleaseOutbox, PublisherStops, ScheduleDueRetries, RecoverExpiredDeliveries,
       DeleteExpiredTerminal, ReconcileSnapshot, ReconcileStalledSignals
  <2>2. TypeOK /\ LeaseTupleConsistent
    BY Zenon DEF IInv
  <2>3. now \in Nat /\ deliveries \in [Delivery -> DeliveryRow]
    BY <2>2, Zenon DEF TypeOK
  <2>4. deliveries[d].generation \in Nat
    BY <2>3, Zenon DEF DeliveryRow
  <2> QED
    BY <2>1, <2>2, <2>3, <2>4
<1>2. ASSUME deliveries'[d] = deliveries[d], Signals' = Signals
      PROVE  StillAwaited(d)
  BY <1>1, <1>2, AwaitedUnchanged, Zenon
<1>3. <<d, deliveries[d].generation + 1>> \notin Signals
  BY NextUnsignalled, Zenon
<1>4. ASSUME NEW e \in Delivery, NEW k \in Key, NEW t \in Recent, Submit(e, k, t)
      PROVE  StillAwaited(d) \/ NewlyAwaited(d)
  <2>1. t \in 0..now
    BY Zenon DEF Recent
  <2>2. /\ Signals' = Signals \cup {<<e, 0>>}
        /\ \A s \in Signals' \ Signals : outbox_events'[s].published_at = NULL
    BY <1>1, <1>4, <2>1, SubmitType, Zenon
  <2>3. CASE d = e
    <3>1. deliveries'[d].generation = 0 /\ deliveries[d].status = "absent"
      BY <1>1, <1>4, <2>3, Zenon DEF Submit
    <3>2. <<d, 0>> \notin Signals
      BY <3>1, Zenon DEF IInv, NoEarlySignal, Live, Status
    <3> QED
      BY <2>2, <2>3, <3>1, <3>2, Zenon DEF NewlyAwaited, Current
  <2>4. CASE d # e
    <3>1. deliveries'[d] = deliveries[d]
      BY <1>1, <1>4, <2>4, Zenon DEF Submit
    <3>2. Current(d) \in Signals' => Current(d) \in Signals
      BY <2>2, <2>4, Zenon DEF Current
    <3> QED
      BY <1>1, <3>1, <3>2, AwaitedUnchanged, Zenon
  <2> QED
    BY <2>3, <2>4, Zenon
<1>5. ASSUME NEW e \in Delivery, NEW t \in Recent, Replay(e, t)
      PROVE  StillAwaited(d) \/ NewlyAwaited(d)
  <2>1. t \in 0..now /\ t \in Nat
    BY DEF Recent
  <2>2. /\ Signals' = Signals \cup {<<e, deliveries[e].generation + 1>>}
        /\ \A s \in Signals' \ Signals : outbox_events'[s].published_at = NULL
    BY <1>1, <1>5, <2>1, ReplayType, Zenon
  <2>3. CASE d = e
    <3>1. deliveries' = [deliveries EXCEPT ![d] = Replayed(deliveries[d], t)]
          /\ deliveries[d].status = "failed_permanent"
      BY <1>5, <2>3, Zenon DEF Replay
    <3>2. deliveries'[d].generation = deliveries[d].generation + 1
      BY <1>1, <2>1, <3>1, ReplayedRow, Zenon
    <3> QED
      BY <1>3, <2>2, <2>3, <3>1, <3>2, Zenon DEF NewlyAwaited, Current
  <2>4. CASE d # e
    <3>1. deliveries'[d] = deliveries[d]
      BY <1>1, <1>5, <2>4, Zenon DEF Replay
    <3>2. Current(d) \in Signals' => Current(d) \in Signals
      BY <2>2, <2>4, Zenon DEF Current
    <3> QED
      BY <1>1, <3>1, <3>2, AwaitedUnchanged, Zenon
  <2> QED
    BY <2>3, <2>4, Zenon
<1>6. ASSUME NEW batch \in SUBSET Delivery, ScheduleDueRetries(batch)
      PROVE  StillAwaited(d) \/ NewlyAwaited(d)
  <2>1. \A s \in Signals' \ Signals : outbox_events'[s].published_at = NULL
    BY <1>1, <1>6, ScheduleType, Zenon
  <2>2. deliveries'[d] = IF d \in RetryExpired THEN Exhausted(deliveries[d]) ELSE deliveries[d]
    BY <1>6, Zenon DEF ScheduleDueRetries
  <2>3. deliveries'[d] = deliveries[d]
    BY <1>1, <2>2, ExhaustedRow, Zenon DEF Awaited
  <2>4. CASE Current(d) \in Signals
    BY <1>1, <2>3, <2>4, AwaitedUnchanged, Zenon
  <2>5. CASE Current(d) \notin Signals
    BY <2>1, <2>3, <2>5, Zenon DEF NewlyAwaited, Awaited, Current
  <2> QED
    BY <2>4, <2>5, Zenon
<1>7. ASSUME NEW batch \in SUBSET Delivery, RecoverExpiredDeliveries(batch)
      PROVE  StillAwaited(d) \/ NewlyAwaited(d)
  <2>1. /\ Signals' = Signals \cup {<<e, deliveries[e].generation + 1>> :
                                      e \in {b \in batch : deliveries[b].retry_deadline > now}}
        /\ \A s \in Signals' \ Signals : outbox_events'[s].published_at = NULL
    BY <1>1, <1>7, RecoverType, Zenon
  <2>2. deliveries'[d] = IF d \in batch THEN Recovered(deliveries[d]) ELSE deliveries[d]
    BY <1>7, Zenon DEF RecoverExpiredDeliveries
  <2>3. CASE d \in batch
    <3>1. deliveries[d].status = "delivering"
      BY <1>7, <2>3, Zenon DEF RecoverExpiredDeliveries, Batches, LeaseExpired
    <3>2. deliveries'[d].generation = deliveries[d].generation + 1
      <4>1. deliveries'[d] = Recovered(deliveries[d]) /\ deliveries'[d].status = "pending"
        BY <2>2, <2>3, Zenon DEF Awaited
      <4>2. deliveries[d].retry_deadline \in Nat
        BY <1>1, Zenon DEF DeliveryRow
      <4> QED
        BY <1>1, <4>1, <4>2, RecoveredRow
    <3> QED
      BY <1>3, <2>1, <3>1, <3>2, Zenon DEF NewlyAwaited, Awaited, Current
  <2>4. CASE d \notin batch
    <3>1. Current(d) \in Signals' => Current(d) \in Signals
      BY <2>1, <2>4, Zenon DEF Current
    <3> QED
      BY <1>1, <2>2, <2>4, <3>1, AwaitedUnchanged, Zenon
  <2> QED
    BY <2>3, <2>4, Zenon
<1>8. ASSUME NEW batch \in SUBSET Delivery, DeleteExpiredTerminal(batch)
      PROVE  StillAwaited(d)
  <2>1. Signals' \subseteq Signals
    BY <1>1, <1>8, DeleteType, Zenon
  <2>2. deliveries'[d] = IF d \in batch THEN NoRow("deleted") ELSE deliveries[d]
    BY <1>8, Zenon DEF DeleteExpiredTerminal
  <2>3. deliveries'[d] = deliveries[d]
    BY <2>2, MissingRow, Zenon DEF Awaited, Missing
  <2> QED
    BY <1>1, <2>1, <2>3, AwaitedUnchanged, Zenon
<1>9. ASSUME NEW e \in Delivery, NEW owner \in Owner, NEW token \in Token,
             ClaimDelivery(e, deliveries[e].generation, owner, token)
      PROVE  StillAwaited(d)
  <2>1. /\ deliveries' = [deliveries EXCEPT ![e] = Leased(deliveries[e], owner, token)]
        /\ Signals' = Signals
    BY <1>9, Zenon DEF ClaimDelivery, Signals
  <2>2. Leased(deliveries[e], owner, token).status = "delivering"
    BY <1>1, LeasedRow, Zenon
  <2>3. deliveries'[d] = deliveries[d]
    BY <1>1, <2>1, <2>2, Zenon DEF Awaited
  <2> QED
    BY <1>2, <2>1, <2>3, Zenon
<1>10. ASSUME NEW grant \in inflight,
              \/ CompleteSuccess(grant)
              \/ CompletePermanent(grant)
              \/ \E t \in 0..MaxTime : CompleteRetry(grant, t)
       PROVE  StillAwaited(d)
  <2>1. grant.delivery \in Delivery /\ deliveries[grant.delivery] \in DeliveryRow
    BY <1>1, Zenon DEF IInv, TypeOK, Grant
  <2>2. PICK class, row :
          /\ completeResult(grant, class, row)
          /\ row.status = "pending" => row.generation = deliveries[grant.delivery].generation + 1
    <3>1. Completed(deliveries[grant.delivery], "succeeded").status = "succeeded"
          /\ Completed(deliveries[grant.delivery], "failed_permanent").status = "failed_permanent"
      BY <1>1, <2>1, CompletedRow, Zenon DEF Status
    <3>2. \A t \in Nat : Retried(deliveries[grant.delivery], t).generation
                           = deliveries[grant.delivery].generation + 1
      BY <1>1, <2>1, RetriedRow, Zenon
    <3> QED
      BY <1>10, <3>1, <3>2 DEF CompleteSuccess, CompletePermanent, CompleteRetry
  <2>3. deliveries' = [deliveries EXCEPT ![grant.delivery] = row] /\ Signals' = Signals
    BY <2>2, Zenon DEF completeResult, Signals
  <2>4. deliveries'[d] = deliveries[d]
    BY <1>1, <1>3, <2>1, <2>2, <2>3, Zenon DEF Awaited, Current
  <2> QED
    BY <1>2, <2>3, <2>4, Zenon
<1>11. CASE \/ Tick \/ ReconcileSnapshot \/ UNCHANGED vars
            \/ \E grant \in inflight : DiscardResult(grant)
            \/ \E lost \in SUBSET inflight : WorkerStops(lost)
  <2>1. UNCHANGED <<deliveries, outbox_events>>
    BY <1>11, Zenon DEF Tick, ReconcileSnapshot, vars, DiscardResult, WorkerStops, tables
  <2> QED
    BY <1>2, <2>1, Zenon DEF Signals
<1>12. CASE \/ \E s \in Signals : ObserveSignal(s[1], s[2])
            \/ PublisherStep
            \/ \E batch \in SUBSET Signals : ReconcileStalledSignals(batch)
  <2>1. OutboxOnly
    BY <1>12, ObserveSignalType, ClaimOutboxType, MarkOutboxPublishedType, ReleaseOutboxType,
       PublisherStopsType, ReconcileType, Zenon DEF PublisherStep, IInv
  <2> QED
    BY <1>2, <2>1, Zenon DEF OutboxOnly
<1> QED
  BY <1>4, <1>5, <1>6, <1>7, <1>8, <1>9, <1>10, <1>11, <1>12, Zenon
     DEF Next, ApiStep, WorkerStep, MaintenanceStep

\* An event goes only with its delivery, a deleted delivery stays deleted, and a handle
\* is for an event that exists when ClaimOutbox hands it out.
LEMMA EventsStay ==
  ASSUME IInv, [Next]_vars
  PROVE  /\ \A s \in Signals : s \in Signals' \/ deliveries'[s[1]].status = "deleted"
         /\ \A d \in Delivery : deliveries[d].status = "deleted" =>
                                  deliveries'[d].status = "deleted"
         /\ \A h \in handles' : h \in handles \/ <<h.delivery, h.generation>> \in Signals'
<1> DEFINE Stay == /\ \A s \in Signals : s \in Signals' \/ deliveries'[s[1]].status = "deleted"
                   /\ \A d \in Delivery : deliveries[d].status = "deleted" =>
                                            deliveries'[d].status = "deleted"
                   /\ \A h \in handles' :
                        h \in handles \/ <<h.delivery, h.generation>> \in Signals'
<1> SUFFICES Stay
  BY Zenon
<1>1. /\ TypeOK /\ LeaseTupleConsistent /\ PublishedIsUnleased
      /\ now \in Nat /\ deliveries \in [Delivery -> DeliveryRow]
  BY Zenon DEF IInv, TypeOK
<1>2. ASSUME Signals \subseteq Signals', handles' \subseteq handles,
             \A d \in Delivery : deliveries'[d] = deliveries[d] \/ deliveries[d].status # "deleted"
      PROVE  Stay
  BY <1>2, Zenon
<1>3. ASSUME NEW d \in Delivery, NEW k \in Key, NEW t \in Recent, Submit(d, k, t)
      PROVE  Stay
  <2>1. t \in 0..now
    BY Zenon DEF Recent
  <2>2. Signals \subseteq Signals'
    BY <1>1, <1>3, <2>1, SubmitType, Zenon
  <2>3. handles' = handles /\ deliveries[d].status = "absent"
        /\ \A e \in Delivery : e # d => deliveries'[e] = deliveries[e]
    BY <1>1, <1>3, Zenon DEF Submit, clients
  <2> QED
    BY <1>2, <2>2, <2>3, Zenon
<1>4. ASSUME NEW d \in Delivery, NEW t \in Recent, Replay(d, t)
      PROVE  Stay
  <2>1. t \in 0..now
    BY Zenon DEF Recent
  <2>2. Signals \subseteq Signals'
    BY <1>1, <1>4, <2>1, ReplayType, Zenon
  <2>3. handles' = handles /\ deliveries[d].status = "failed_permanent"
        /\ \A e \in Delivery : e # d => deliveries'[e] = deliveries[e]
    BY <1>1, <1>4, Zenon DEF Replay, clients
  <2> QED
    BY <1>2, <2>2, <2>3, Zenon
<1>5. ASSUME NEW batch \in SUBSET Delivery, ScheduleDueRetries(batch)
      PROVE  Stay
  <2>1. Signals \subseteq Signals' /\ handles' = handles
    BY <1>1, <1>5, ScheduleType, Zenon DEF ScheduleDueRetries, clients
  <2>2. \A d \in Delivery : deliveries'[d] = deliveries[d] \/ deliveries[d].status = "pending"
    BY <1>5, Zenon DEF ScheduleDueRetries, RetryExpired
  <2> QED
    BY <1>2, <2>1, <2>2, Zenon
<1>6. ASSUME NEW batch \in SUBSET Delivery, RecoverExpiredDeliveries(batch)
      PROVE  Stay
  <2>1. Signals \subseteq Signals' /\ handles' = handles
    BY <1>1, <1>6, RecoverType, Zenon DEF RecoverExpiredDeliveries, clients
  <2>2. \A d \in Delivery : deliveries'[d] = deliveries[d] \/ deliveries[d].status = "delivering"
    BY <1>6, Zenon DEF RecoverExpiredDeliveries, LeaseExpired, Batches
  <2> QED
    BY <1>2, <2>1, <2>2, Zenon
<1>7. ASSUME NEW batch \in SUBSET Delivery, DeleteExpiredTerminal(batch)
      PROVE  Stay
  <2>1. Signals' = {s \in Signals : s[1] \notin batch} /\ handles' = handles
    BY <1>1, <1>7, DeleteType, Zenon DEF DeleteExpiredTerminal, clients
  <2>2. \A d \in Delivery :
          deliveries'[d] = IF d \in batch THEN NoRow("deleted") ELSE deliveries[d]
    BY <1>7, Zenon DEF DeleteExpiredTerminal
  <2>3. NoRow("deleted").status = "deleted" /\ \A s \in Signals : s[1] \in Delivery
    BY <1>1, Zenon DEF NoRow, TypeOK
  <2> QED
    BY <2>1, <2>2, <2>3, Zenon
<1>8. ASSUME NEW d \in Delivery, NEW row, deliveries' = [deliveries EXCEPT ![d] = row],
             deliveries[d].status # "deleted", UNCHANGED <<outbox_events, handles>>
      PROVE  Stay
  BY <1>1, <1>2, <1>8, Zenon DEF Signals
<1>9. ASSUME NEW d \in Delivery, NEW owner \in Owner, NEW token \in Token,
             ClaimDelivery(d, deliveries[d].generation, owner, token)
      PROVE  Stay
  <2>1. /\ deliveries' = [deliveries EXCEPT ![d] = Leased(deliveries[d], owner, token)]
        /\ deliveries[d].status = "pending" /\ UNCHANGED <<outbox_events, handles>>
    BY <1>9, Zenon DEF ClaimDelivery, Claimable
  <2> QED
    BY <1>8, <2>1, Zenon
<1>10. ASSUME NEW grant \in inflight, NEW class, NEW row, completeResult(grant, class, row)
       PROVE  Stay
  <2>1. grant.delivery \in Delivery
    BY <1>1, Zenon DEF TypeOK, Grant
  <2>2. /\ deliveries' = [deliveries EXCEPT ![grant.delivery] = row]
        /\ deliveries[grant.delivery].status = "delivering"
        /\ UNCHANGED <<outbox_events, handles>>
    BY <1>10, Zenon DEF completeResult, LeaseHeld
  <2> QED
    BY <1>8, <2>1, <2>2, Zenon
<1>11. CASE \/ Tick \/ ReconcileSnapshot \/ UNCHANGED vars
            \/ \E grant \in inflight : DiscardResult(grant)
            \/ \E lost \in SUBSET inflight : WorkerStops(lost)
  <2>1. UNCHANGED <<deliveries, outbox_events, handles>>
    BY <1>11, Zenon DEF Tick, ReconcileSnapshot, vars, DiscardResult, WorkerStops, tables, clients
  <2> QED
    BY <1>2, <2>1, Zenon DEF Signals
<1>12. CASE \/ \E s \in Signals : ObserveSignal(s[1], s[2])
            \/ PublisherStep
            \/ \E batch \in SUBSET Signals : ReconcileStalledSignals(batch)
  <2>1. OutboxOnly
    BY <1>1, <1>12, ObserveSignalType, ClaimOutboxType, MarkOutboxPublishedType,
       ReleaseOutboxType, PublisherStopsType, ReconcileType, Zenon DEF PublisherStep
  <2>2. \A h \in handles' : h \in handles \/ <<h.delivery, h.generation>> \in Signals
    <3>1. CASE \E batch \in SUBSET Signals, owner \in Publisher, token \in BatchToken :
                 ClaimOutbox(batch, owner, token)
      <4>1. PICK batch \in SUBSET Signals, owner \in Publisher, token \in BatchToken :
              handles' = handles \cup {[delivery |-> s[1], generation |-> s[2],
                                        owner |-> owner, token |-> token] : s \in batch}
        BY <3>1, Zenon DEF ClaimOutbox
      <4>2. \A s \in Signals : s = <<s[1], s[2]>>
        BY <1>1 DEF TypeOK
      <4> QED
        BY <4>1, <4>2
    <3>2. CASE \/ \E s \in Signals : ObserveSignal(s[1], s[2])
               \/ \E h \in handles : MarkOutboxPublished(h) \/ ReleaseOutbox(h)
               \/ \E lost \in SUBSET handles : PublisherStops(lost)
               \/ \E batch \in SUBSET Signals : ReconcileStalledSignals(batch)
      BY <3>2, Zenon DEF ObserveSignal, MarkOutboxPublished, ReleaseOutbox, PublisherStops,
         ReconcileStalledSignals, clients
    <3> QED
      BY <1>12, <3>1, <3>2, Zenon DEF PublisherStep
  <2> QED
    BY <2>1, <2>2, Zenon DEF OutboxOnly
<1>13. CASE WorkerStep
  BY <1>9, <1>10, <1>11, <1>12, <1>13, Zenon
     DEF WorkerStep, CompleteSuccess, CompletePermanent, CompleteRetry
<1> HIDE DEF Stay
<1>14. CASE ApiStep
  BY <1>3, <1>4, <1>14, Zenon DEF ApiStep
<1>15. CASE MaintenanceStep
  BY <1>5, <1>6, <1>7, <1>11, <1>12, <1>15, Zenon DEF MaintenanceStep
<1> QED
  BY <1>11, <1>12, <1>13, <1>14, <1>15, Zenon DEF Next

\* So no handle is ahead of its delivery.
LEMMA HandlesStay ==
  ASSUME IInv, [Next]_vars, HandlesNotAhead
  PROVE  HandlesNotAhead'
<1>1. \A h \in handles : h.delivery \in Delivery
  BY Zenon DEF IInv, TypeOK, Handle
<1> QED
  BY <1>1, EventsStay, Zenon DEF HandlesNotAhead

\* The event of s is not published by this step.
NotPublished(s) ==
  outbox_events'[s].published_at # NULL => outbox_events[s].published_at # NULL

\* Nothing but MarkOutboxPublished, with a handle it uses up, publishes an event.
LEMMA PublishedByHandle ==
  ASSUME IInv, [Next]_vars, NEW s \in Signals, s \in Signals'
  PROVE  \/ NotPublished(s)
         \/ \E h \in handles : MarkOutboxPublished(h)
<1>1. /\ TypeOK /\ LeaseTupleConsistent /\ now \in Nat
      /\ outbox_events \in [Signals -> OutboxRow] /\ outbox_events[s] \in OutboxRow
  BY Zenon DEF IInv, TypeOK
<1>2. ASSUME outbox_events'[s] = outbox_events[s] PROVE NotPublished(s)
  BY <1>2, Zenon DEF NotPublished
<1>3. CASE ApiStep
  BY <1>1, <1>2, <1>3, SubmitType, ReplayType, Zenon DEF ApiStep, Recent
<1>4. CASE \E batch \in SUBSET Delivery : \/ ScheduleDueRetries(batch)
                                          \/ RecoverExpiredDeliveries(batch)
                                          \/ DeleteExpiredTerminal(batch)
  BY <1>1, <1>2, <1>4, ScheduleType, RecoverType, DeleteType, Zenon
<1>5. CASE \E batch \in SUBSET Signals : ReconcileStalledSignals(batch)
  BY <1>1, <1>2, <1>5, NewEventRow, Zenon DEF ReconcileStalledSignals, NotPublished
<1>6. ASSUME NEW r \in Signals, ObserveSignal(r[1], r[2])
      PROVE  NotPublished(s)
  <2>1. r = <<r[1], r[2]>>
    BY <1>1 DEF TypeOK
  <2>2. outbox_events' = [outbox_events EXCEPT ![r] = Observed(outbox_events[r])]
    BY <1>6, <2>1, Zenon DEF ObserveSignal
  <2>3. outbox_events'[s] = outbox_events[s] \/ outbox_events'[s] = Observed(outbox_events[s])
    BY <1>1, <2>2, Zenon
  <2> QED
    BY <1>1, <2>3, EventUpdates, Zenon DEF NotPublished
<1>7. ASSUME NEW batch \in SUBSET Signals, NEW owner \in Publisher, NEW token \in BatchToken,
             ClaimOutbox(batch, owner, token)
      PROVE  NotPublished(s)
  <2>1. outbox_events'[s] = IF s \in batch THEN BatchLeased(outbox_events[s], owner, token)
                                           ELSE outbox_events[s]
    BY <1>7, Zenon DEF ClaimOutbox
  <2> QED
    BY <1>1, <2>1, EventRows DEF NotPublished
<1>8. ASSUME NEW h \in handles, ReleaseOutbox(h)
      PROVE  NotPublished(s)
  <2>1. outbox_events'[s] = Released(outbox_events[s]) \/ outbox_events'[s] = outbox_events[s]
    BY <1>8, Zenon DEF ReleaseOutbox
  <2>2. Released(outbox_events[s]).published_at = outbox_events[s].published_at
    BY <1>1, Zenon DEF Released, OutboxRow
  <2> QED
    BY <2>1, <2>2, Zenon DEF NotPublished
<1>9. CASE \/ Tick \/ ReconcileSnapshot \/ UNCHANGED vars
           \/ \E lost \in SUBSET handles : PublisherStops(lost)
           \/ \E lost \in SUBSET inflight : WorkerStops(lost)
           \/ \E grant \in inflight : \/ DiscardResult(grant)
                                      \/ \E class, row : completeResult(grant, class, row)
           \/ \E d \in Delivery, owner \in Owner, token \in Token :
                ClaimDelivery(d, deliveries[d].generation, owner, token)
  BY <1>2, <1>9, Zenon DEF Tick, ReconcileSnapshot, vars, PublisherStops, WorkerStops,
     DiscardResult, completeResult, ClaimDelivery, tables
<1>10. CASE WorkerStep
  BY <1>6, <1>9, <1>10, Zenon
     DEF WorkerStep, CompleteSuccess, CompletePermanent, CompleteRetry
<1>11. CASE PublisherStep
  BY <1>7, <1>8, <1>9, <1>11, Zenon DEF PublisherStep
<1> QED
  BY <1>3, <1>4, <1>5, <1>9, <1>10, <1>11, Zenon DEF Next, MaintenanceStep

-----------------------------------------------------------------------------
(***************************************************************************)
(* No signal is dropped: the steps.                                        *)
(***************************************************************************)

\* A Publisher that has a confirmation had it before, or the message is in the queue.
ConfirmationsKept ==
  \A p \in Publisher : publishers'[p].pc = "marking" =>
    \/ publishers'[p] = publishers[p]
    \/ <<publishers'[p].current.delivery, publishers'[p].current.generation>> \in DOMAIN dispatch'

\* What the Outbox calls published was confirmed.
PublicationsConfirmed ==
  \A s \in Signals \cap Signals' : outbox_events'[s].published_at # NULL => Confirmed(s)

\* Whatever is awaited before and after the step keeps a copy.
CopiesKept ==
  \A d \in Delivery :
    StillAwaited(d) /\ Awaited(d)' /\ Current(d) \notin dropped' /\ Carried(Current(d)) =>
      Carried(Current(d))'

\* A signal that lost a copy counts as such until it is published again.
DroppedKept == \A s \in dropped : s \in dropped' \/ s \in DOMAIN dispatch'

\* Three things a step must respect; then no confirmed signal is without a copy.
LEMMA CarriedFrame ==
  ASSUME PipelineInv, IInv, SignalsInv, [Next]_vars, DroppedKept,
         ConfirmationsKept, PublicationsConfirmed, CopiesKept
  PROVE  ConfirmedIsCarried'
<1> SUFFICES ASSUME NEW d \in Delivery, Awaited(d)', Confirmed(Current(d))',
                    Current(d)' \notin dropped'
             PROVE  Carried(Current(d))'
  BY Zenon DEF ConfirmedIsCarried
<1>1. ASSUME NEW p \in Publisher, publishers'[p].pc = "marking",
             <<publishers'[p].current.delivery, publishers'[p].current.generation>> = Current(d)',
             publishers'[p] # publishers[p]
      PROVE  Carried(Current(d))'
  BY <1>1, Zenon DEF ConfirmationsKept, Carried
<1>2. CASE StillAwaited(d)
  <2>1. Current(d)' = Current(d) /\ Current(d) \in Signals /\ Current(d) \in Signals'
    BY <1>2, Zenon DEF StillAwaited, Awaited
  <2>2. ASSUME Confirmed(Current(d)) PROVE Carried(Current(d))'
    <3>1. CASE Current(d) \in dropped
      BY <2>1, <3>1, Zenon DEF DroppedKept, Carried
    <3>2. CASE Current(d) \notin dropped
      <4>1. Carried(Current(d))
        BY <1>2, <2>2, <3>2, Zenon DEF SignalsInv, ConfirmedIsCarried, StillAwaited
      <4> QED
        BY <1>2, <2>1, <4>1, Zenon DEF CopiesKept
    <3> QED
      BY <3>1, <3>2, Zenon
  <2>3. CASE outbox_events'[Current(d)'].published_at # NULL
    <3>1. Confirmed(Current(d))
      BY <2>1, <2>3, Zenon DEF PublicationsConfirmed
    <3> QED
      BY <2>2, <3>1, Zenon
  <2>4. ASSUME NEW p \in Publisher, publishers'[p].pc = "marking",
               <<publishers'[p].current.delivery, publishers'[p].current.generation>>
                 = Current(d)'
        PROVE  Carried(Current(d))'
    <3>1. CASE publishers'[p] = publishers[p]
      <4>1. Confirmed(Current(d))
        BY <2>1, <2>4, <3>1, Zenon DEF Confirmed
      <4> QED
        BY <2>2, <4>1, Zenon
    <3> QED
      BY <1>1, <2>4, <3>1, Zenon
  <2> QED
    BY <2>3, <2>4, Zenon DEF Confirmed
<1>3. CASE NewlyAwaited(d)
  <2>1. /\ Current(d)' \notin Signals
        /\ outbox_events'[Current(d)'].published_at = NULL
        /\ deliveries[d].status # "deleted"
    BY <1>3, Zenon DEF NewlyAwaited
  <2>2. PICK p \in Publisher :
          /\ publishers'[p].pc = "marking"
          /\ <<publishers'[p].current.delivery, publishers'[p].current.generation>>
               = Current(d)'
    BY <2>1, Zenon DEF Confirmed
  <2>3. CASE publishers'[p] = publishers[p]
    <3>1. publishers[p].current \in handles
      BY <2>2, <2>3, Zenon DEF PipelineInv, HandlesHeld, BatchOf
    <3>2. publishers[p].current.delivery = d
      BY <2>2, <2>3, Zenon DEF Current
    <3> QED
      BY <2>1, <2>2, <2>3, <3>1, <3>2, Zenon DEF SignalsInv, HandlesNotAhead
  <2> QED
    BY <1>1, <2>2, <2>3, Zenon
<1> QED
  BY <1>2, <1>3, AwaitedStep, Zenon

\* The same for the whole invariant.
LEMMA SignalsFrame ==
  ASSUME PipelineInv, IInv, SignalsInv, [Next]_vars, DroppedKept,
         ConfirmationsKept, PublicationsConfirmed, CopiesKept, CopiesCounted'
  PROVE  SignalsInv'
<1>1. HandlesNotAhead'
  BY HandlesStay, Zenon DEF SignalsInv
<1>2. ConfirmedIsCarried'
  BY CarriedFrame, Zenon
<1> QED
  BY <1>1, <1>2, Zenon DEF SignalsInv

\* Without a handle used up, no event becomes published.
LEMMA PublicationsKept ==
  ASSUME IInv, [Next]_vars, handles \subseteq handles'
  PROVE  PublicationsConfirmed
<1> SUFFICES ASSUME NEW s \in Signals \cap Signals', outbox_events'[s].published_at # NULL
             PROVE  outbox_events[s].published_at # NULL
  BY Zenon DEF PublicationsConfirmed, Confirmed
<1>1. \A h \in handles : ~MarkOutboxPublished(h)
  BY Zenon DEF MarkOutboxPublished
<1> QED
  BY <1>1, PublishedByHandle, Zenon DEF NotPublished

\* The copies in the queues stay, and so does the copy of every goroutine that has yet
\* to decide on a signal that is still awaited.
LEMMA CopiesFrame ==
  ASSUME \A s : s \notin dropped' /\ (s \in DOMAIN dispatch \/ s \in DOMAIN deferred) =>
                 Carried(s)',
         \A w \in Slot, d \in Delivery :
           tasks[w].signal = Current(d) /\ tasks[w].pc \in Undecided /\ tasks[w].held
             /\ StillAwaited(d) /\ Awaited(d)' /\ Current(d) \notin dropped' =>
               Carried(Current(d))'
  PROVE  CopiesKept
<1> SUFFICES ASSUME NEW d \in Delivery, StillAwaited(d), Awaited(d)',
                    Current(d) \notin dropped', Carried(Current(d))
             PROVE  Carried(Current(d))'
  BY Zenon DEF CopiesKept
<1> DEFINE s == Current(d)
<1>1. Current(d)' = s
  BY Zenon DEF StillAwaited
<1>2. CASE s \in DOMAIN dispatch \/ s \in DOMAIN deferred
  BY <1>1, <1>2, Zenon DEF Carried
<1>3. ASSUME NEW w \in Slot, tasks[w].signal = s, tasks[w].pc \in Undecided, tasks[w].held
      PROVE  Carried(Current(d))'
  BY <1>3, Zenon
<1> QED
  BY <1>2, <1>3, Zenon DEF Carried

\* A step that moves no message and no goroutine.
LEMMA QuietSignals ==
  ASSUME PipelineInv, IInv, SignalsInv, [Next]_vars, ConfirmationsKept, PublicationsConfirmed,
         UNCHANGED <<dispatch, deferred, tasks, dropped>>
  PROVE  SignalsInv'
<1>1. CopiesCounted'
  BY Zenon DEF SignalsInv, CopiesCounted
<1>2. CopiesKept
  BY Zenon DEF CopiesKept, Carried, StillAwaited
<1> QED
  BY <1>1, <1>2, SignalsFrame, Zenon DEF DroppedKept

\* A message more in the dispatch queue, with all goroutines where they were.
LEMMA RoutedSignals ==
  ASSUME PipelineInv, IInv, SignalsInv, [Next]_vars, ConfirmationsKept, PublicationsConfirmed,
         NEW s, dispatch' = Added(dispatch, s), DroppedKept, UNCHANGED <<deferred, tasks>>
  PROVE  SignalsInv'
<1>1. Counts(dispatch) /\ Counts(deferred)
  BY Zenon DEF SignalsInv, CopiesCounted, Counts
<1>2. Counts(dispatch') /\ Counts(deferred')
  BY <1>1, CopyMoves, Zenon
<1>3. CopiesCounted'
  BY <1>2, Zenon DEF CopiesCounted, Counts
<1>4. \A x : x \in DOMAIN dispatch => x \in DOMAIN dispatch'
  BY <1>1, CopyMoves, Zenon
<1>5. CopiesKept
  BY <1>4, Zenon DEF CopiesKept, Carried, StillAwaited
<1> QED
  BY <1>3, <1>5, SignalsFrame, Zenon

\* A Publisher claims, publishes, records, releases and reconnects.
LEMMA PublisherSignals ==
  ASSUME PipelineInv, IInv, SignalsInv, [Next]_vars, NEW p \in Publisher, PublisherNext(p)
  PROVE  SignalsInv'
<1>1. publishers \in [Publisher -> PublisherState] /\ outbox_events \in [Signals -> OutboxRow]
      /\ now \in Nat
  BY Zenon DEF PipelineInv, NotifierTypeOK, IInv, TypeOK
<1>2. ASSUME UNCHANGED publishers PROVE ConfirmationsKept
  BY <1>2, Zenon DEF ConfirmationsKept
<1>3. ASSUME NEW state, state.pc # "marking", publishers' = [publishers EXCEPT ![p] = state]
      PROVE  ConfirmationsKept
  BY <1>1, <1>3, Zenon DEF ConfirmationsKept
<1>4. CASE PublisherClaims(p)
  <2>1. handles \subseteq handles' /\ UNCHANGED <<publishers, dispatch, deferred, tasks, dropped>>
    BY <1>4, Zenon DEF PublisherClaims, ClaimOutbox, pipeline
  <2> QED
    BY <1>2, <2>1, PublicationsKept, QuietSignals, Zenon
<1>5. ASSUME NEW h \in BatchOf(p), Publishes(p, h) PROVE SignalsInv'
  <2> DEFINE s == <<h.delivery, h.generation>>
  <2>1. /\ dispatch' = Added(dispatch, s) /\ dropped' = dropped \ {s}
        /\ UNCHANGED <<handles, deferred, tasks>>
        /\ publishers' = [publishers EXCEPT ![p] = [pc |-> "marking", current |-> h]]
    BY <1>5, Zenon DEF Publishes, vars
  <2>2. s \in DOMAIN dispatch'
    BY <2>1, CopyMoves, Zenon DEF SignalsInv, CopiesCounted, Counts
  <2>3. ConfirmationsKept
    BY <1>1, <2>1, <2>2, Zenon DEF ConfirmationsKept
  <2>4. PublicationsConfirmed
    BY <2>1, PublicationsKept, Zenon
  <2>5. DroppedKept
    BY <2>1, <2>2, Zenon DEF DroppedKept
  <2> HIDE DEF s
  <2> QED
    BY <2>1, <2>3, <2>4, <2>5, RoutedSignals, Zenon
<1>6. ASSUME NEW h \in BatchOf(p), Releases(p, h) PROVE SignalsInv'
  <2>1. ReleaseOutbox(h) /\ UNCHANGED <<publishers, dispatch, deferred, tasks, dropped>>
    BY <1>6, Zenon DEF Releases, pipeline
  <2>2. \A s \in Signals : Released(outbox_events[s]).published_at
                             = outbox_events[s].published_at
    BY <1>1, Zenon DEF Released, OutboxRow
  <2>3. PublicationsConfirmed
    BY <2>1, <2>2, Zenon DEF PublicationsConfirmed, Confirmed, ReleaseOutbox
  <2> QED
    BY <1>2, <2>1, <2>3, QuietSignals, Zenon
<1>7. CASE Marks(p)
  <2> DEFINE h == publishers[p].current
  <2>1. /\ publishers[p].pc = "marking" /\ MarkOutboxPublished(h)
        /\ publishers' = [publishers EXCEPT ![p] = Running]
        /\ UNCHANGED <<dispatch, deferred, tasks, dropped>>
    BY <1>7, Zenon DEF Marks
  <2>2. \A s \in Signals : s = <<h.delivery, h.generation>> \/ outbox_events'[s] = outbox_events[s]
    BY <1>1, <2>1, Zenon DEF MarkOutboxPublished
  <2>3. PublicationsConfirmed
    BY <2>1, <2>2, Zenon DEF PublicationsConfirmed, Confirmed
  <2>4. ConfirmationsKept
    BY <1>3, <2>1, Zenon DEF Running
  <2> QED
    BY <2>1, <2>3, <2>4, QuietSignals, Zenon
<1>8. CASE MarkLosesLease(p) \/ Reconnects(p)
  <2>1. UNCHANGED <<handles, dispatch, deferred, tasks, dropped>>
    BY <1>8, Zenon DEF MarkLosesLease, Reconnects, vars
  <2>2. ConfirmationsKept
    BY <1>3, <1>8, Zenon DEF MarkLosesLease, Reconnects, Running
  <2> QED
    BY <2>1, <2>2, PublicationsKept, QuietSignals, Zenon
<1> QED
  BY <1>4, <1>5, <1>6, <1>7, <1>8, Zenon DEF PublisherNext

\* One goroutine moves; the queues lose nothing.
LEMMA TaskCopies ==
  ASSUME PipelineInv, NEW w \in Slot, NEW task, tasks' = [tasks EXCEPT ![w] = task],
         \A s : s \in DOMAIN dispatch => s \in DOMAIN dispatch',
         \A s : s \in DOMAIN deferred => s \in DOMAIN deferred',
         \A d \in Delivery :
           tasks[w].signal = Current(d) /\ tasks[w].pc \in Undecided /\ tasks[w].held
             /\ StillAwaited(d) /\ Awaited(d)' /\ Current(d) \notin dropped' =>
               Carried(Current(d))'
  PROVE  CopiesKept
<1>1. \A s : s \in DOMAIN dispatch \/ s \in DOMAIN deferred => Carried(s)'
  BY Zenon DEF Carried
<1>2. ASSUME NEW v \in Slot, NEW d \in Delivery, tasks[v].signal = Current(d),
             tasks[v].pc \in Undecided, tasks[v].held, StillAwaited(d), Awaited(d)',
             Current(d) \notin dropped'
      PROVE  Carried(Current(d))'
  <2>1. CASE v = w
    BY <1>2, <2>1, Zenon
  <2>2. CASE v # w
    <3>1. tasks'[v] = tasks[v]
      BY <2>2, Zenon DEF PipelineInv, NotifierTypeOK
    <3> QED
      BY <1>2, <3>1, Zenon DEF Carried, StillAwaited
  <2> QED
    BY <2>1, <2>2, Zenon
<1> QED
  BY <1>1, <1>2, CopiesFrame, Zenon

\* A signal that is awaited can be claimed: eligibleDestination and ClaimDelivery turn
\* away only what nobody waits for.
LEMMA AwaitedIsClaimable ==
  ASSUME IInv, NEW d \in Delivery, Awaited(d), NEW s, s = Current(d)
  PROVE  Claimable(s[1], s[2])
<1>1. s[1] = d /\ s[2] = deliveries[d].generation
  BY Zenon DEF Current
<1>2. deliveries[d].next_attempt_at <= now
  BY Zenon DEF IInv, NoEarlySignal, Awaited
<1> QED
  BY <1>1, <1>2, Zenon DEF Claimable, Awaited

\* A goroutine goes on without touching the queues: it still has the copy, or nobody
\* waits for the signal any longer.
LEMMA GotoSignals ==
  ASSUME PipelineInv, IInv, SignalsInv, [Next]_vars, NEW w \in Slot, NEW task,
         tasks' = [tasks EXCEPT ![w] = task],
         \/ /\ task.pc \in Undecided
            /\ task.signal = tasks[w].signal /\ task.held = tasks[w].held
         \/ tasks[w].pc \notin Undecided
         \/ ~Claimable(tasks[w].signal[1], tasks[w].signal[2])
         \/ \E d \in Delivery : d = tasks[w].signal[1] /\ ~Awaited(d)',
         UNCHANGED <<publishers, handles, dispatch, deferred, dropped>>
  PROVE  SignalsInv'
<1>1. ASSUME NEW d \in Delivery, tasks[w].signal = Current(d), tasks[w].pc \in Undecided,
             tasks[w].held, StillAwaited(d), Awaited(d)'
      PROVE  Carried(Current(d))'
  <2>1. Claimable(tasks[w].signal[1], tasks[w].signal[2])
    BY <1>1, AwaitedIsClaimable, Zenon DEF StillAwaited
  <2>2. tasks[w].signal[1] = d
    BY <1>1 DEF Current
  <2>3. task.pc \in Undecided /\ task.signal = tasks[w].signal /\ task.held = tasks[w].held
    BY <1>1, <2>1, <2>2, Zenon
  <2>4. tasks'[w] = task
    BY Zenon DEF PipelineInv, NotifierTypeOK
  <2> QED
    BY <1>1, <2>3, <2>4, Zenon DEF Carried, StillAwaited
<1>2. CopiesKept
  BY <1>1, TaskCopies, Zenon
<1>3. CopiesCounted'
  BY Zenon DEF SignalsInv, CopiesCounted
<1>4. ConfirmationsKept /\ PublicationsConfirmed /\ DroppedKept
  BY PublicationsKept, Zenon DEF ConfirmationsKept, DroppedKept
<1> QED
  BY <1>2, <1>3, <1>4, SignalsFrame, Zenon

\* The goroutines in stopped end, or lose their messages: the broker has them back.
LEMMA StopSignals ==
  ASSUME PipelineInv, IInv, SignalsInv, [Next]_vars, NEW stopped \in SUBSET Slot,
         Counts(dispatch'), \A s : s \in DOMAIN dispatch => s \in DOMAIN dispatch',
         \A w \in stopped : tasks[w].held => tasks[w].signal \in DOMAIN dispatch',
         \A w \in Slot \ stopped : tasks'[w] = tasks[w],
         Counts(deferred'), \A s : s \in DOMAIN deferred => s \in DOMAIN deferred',
         UNCHANGED <<publishers, handles, dropped>>
  PROVE  SignalsInv'
<1>1. \A s : s \in DOMAIN dispatch \/ s \in DOMAIN deferred => Carried(s)'
  BY Zenon DEF Carried
<1>2. ASSUME NEW w \in Slot, NEW d \in Delivery, tasks[w].signal = Current(d),
             tasks[w].pc \in Undecided, tasks[w].held, StillAwaited(d), Awaited(d)'
      PROVE  Carried(Current(d))'
  BY <1>2, Zenon DEF Carried, StillAwaited
<1>3. CopiesKept
  BY <1>1, <1>2, CopiesFrame, Zenon
<1>4. CopiesCounted'
  BY Zenon DEF CopiesCounted, Counts
<1>5. ConfirmationsKept /\ PublicationsConfirmed /\ DroppedKept
  BY PublicationsKept, Zenon DEF ConfirmationsKept, DroppedKept
<1> QED
  BY <1>3, <1>4, <1>5, SignalsFrame, Zenon

\* A goroutine of processMessage goes from the message to its acknowledgement, and no
\* call of it fails.
LEMMA TaskSignals ==
  ASSUME PipelineInv, IInv, SignalsInv, [Next]_vars, NEW w \in Slot, TaskNext(w), ~TaskFails(w)
  PROVE  SignalsInv'
<1>1. /\ tasks \in [Slot -> TaskState] /\ tasks[w] \in TaskState
      /\ tasks[w].pc # "idle" => tasks[w].signal \in Signal
      /\ deliveries \in [Delivery -> DeliveryRow] /\ now \in Nat
  BY Zenon DEF PipelineInv, NotifierTypeOK, IInv, TypeOK
<1>2. ASSUME NEW pc, Goto(w, pc)
      PROVE  LET task == [tasks[w] EXCEPT !.pc = pc]
             IN  /\ tasks' = [tasks EXCEPT ![w] = task]
                 /\ task.pc = pc /\ task.signal = tasks[w].signal /\ task.held = tasks[w].held
  BY <1>1, <1>2, Zenon DEF Goto, TaskState
<1>3. CASE EligibleDestination(w) \/ Acquires(w) \/ DoesNotAcquire(w) \/ ClaimFails(w)
           \/ Observes(w)
  <2>1. PICK pc : /\ Goto(w, pc)
                  /\ pc \in Undecided \/ ~Claimable(tasks[w].signal[1], tasks[w].signal[2])
    <3>1. {"eligible", "observed", "permitted", "deferring"} \subseteq Undecided
      BY Zenon DEF Undecided
    <3> QED
      BY <1>3, <3>1, Zenon
         DEF EligibleDestination, Acquires, DoesNotAcquire, ClaimFails, Observes
  <2>2. UNCHANGED <<publishers, handles, dispatch, deferred, dropped>>
    BY <1>3, Zenon DEF EligibleDestination, Acquires, DoesNotAcquire, ClaimFails, Observes,
       ObserveSignal, vars, clients
  <2> DEFINE task == [tasks[w] EXCEPT !.pc = pc]
  <2>3. /\ tasks' = [tasks EXCEPT ![w] = task]
        /\ task.pc = pc /\ task.signal = tasks[w].signal /\ task.held = tasks[w].held
    BY <1>2, <2>1, Zenon
  <2> HIDE DEF task
  <2> QED
    BY <2>1, <2>2, <2>3, GotoSignals, Zenon
<1>4. ASSUME NEW owner \in Owner, Claims(w, owner)
      PROVE  SignalsInv'
  <2> DEFINE s == tasks[w].signal
             token == CHOOSE t \in UnusedTokens : TRUE
             grant == [delivery |-> s[1], generation |-> s[2], owner |-> owner, token |-> token]
             task == [tasks[w] EXCEPT !.pc = "sending", !.grant = grant]
  <2>1. s[1] \in Delivery /\ token \in Token
    BY <1>1, <1>4, Zenon DEF Claims, At, Signal, UnusedTokens
  <2>2. /\ ClaimDelivery(s[1], s[2], owner, token)
        /\ tasks' = [tasks EXCEPT ![w] = task]
        /\ UNCHANGED <<publishers, dispatch, deferred, dropped>>
    BY <1>1, <1>4, Zenon DEF Claims
  <2>3. /\ deliveries' = [deliveries EXCEPT ![s[1]] = Leased(deliveries[s[1]], owner, token)]
        /\ UNCHANGED handles
    BY <2>2, Zenon DEF ClaimDelivery
  <2>4. Leased(deliveries[s[1]], owner, token).status = "delivering"
    BY <1>1, <2>1, LeasedRow, Zenon
  <2> HIDE DEF s, token, task
  <2>5. deliveries'[s[1]].status = "delivering"
    BY <1>1, <2>1, <2>3, <2>4, Zenon
  <2>6. \E d \in Delivery : d = tasks[w].signal[1] /\ ~Awaited(d)'
    BY <2>1, <2>5, Zenon DEF Awaited, s
  <2> QED
    BY <2>2, <2>3, <2>6, GotoSignals, Zenon
<1>5. CASE Finishes(w)
  <2> DEFINE task == [tasks[w] EXCEPT !.pc = "ack", !.grant = NULL]
  <2>1. /\ tasks[w].pc \notin Undecided
        /\ tasks' = [tasks EXCEPT ![w] = task]
        /\ UNCHANGED <<publishers, handles, dispatch, deferred, dropped>>
    BY <1>1, <1>5, Zenon DEF Finishes, At, Undecided, CompleteSuccess, CompletePermanent,
       CompleteRetry, completeResult, DiscardResult
  <2> HIDE DEF task
  <2> QED
    BY <2>1, GotoSignals, Zenon
<1>6. CASE Acks(w)
  <2>1. /\ tasks[w].pc \notin Undecided
        /\ tasks' = [tasks EXCEPT ![w] = NoTask]
        /\ UNCHANGED <<publishers, handles, dispatch, deferred, dropped>>
    BY <1>6, Zenon DEF Acks, At, Undecided, vars
  <2> QED
    BY <2>1, GotoSignals, Zenon
<1>7. CASE Defers(w)
  <2> DEFINE task == [tasks[w] EXCEPT !.pc = "ack"]
  <2>1. /\ tasks' = [tasks EXCEPT ![w] = task]
        /\ \/ deferred' = Added(deferred, tasks[w].signal) /\ dropped' = dropped
           \/ deferred' = deferred /\ dropped' = dropped \cup {tasks[w].signal}
        /\ UNCHANGED <<publishers, handles, dispatch>>
    BY <1>2, <1>7, Zenon DEF Defers, vars
  <2>2. Counts(dispatch) /\ Counts(deferred)
    BY Zenon DEF SignalsInv, CopiesCounted, Counts
  <2>3. /\ Counts(deferred') /\ \A x : x \in DOMAIN deferred => x \in DOMAIN deferred'
        /\ tasks[w].signal \in DOMAIN deferred' \/ tasks[w].signal \in dropped'
    BY <2>1, <2>2, CopyMoves, Zenon
  <2>4. CopiesCounted'
    BY <2>1, <2>2, <2>3, Zenon DEF CopiesCounted, Counts
  <2>5. \A d \in Delivery :
          tasks[w].signal = Current(d) /\ StillAwaited(d) /\ Current(d) \notin dropped' =>
            Carried(Current(d))'
    BY <2>3, Zenon DEF Carried, StillAwaited
  <2> HIDE DEF task
  <2>6. CopiesKept
    BY <2>1, <2>3, <2>5, TaskCopies, Zenon
  <2>7. ConfirmationsKept /\ PublicationsConfirmed /\ DroppedKept
    BY <2>1, PublicationsKept, Zenon DEF ConfirmationsKept, DroppedKept
  <2> QED
    BY <2>4, <2>6, <2>7, SignalsFrame, Zenon
<1> QED
  BY <1>3, <1>4, <1>5, <1>6, <1>7, Zenon DEF TaskNext

\* The broker hands a message to a goroutine, and dead-letters the deferred ones.
LEMMA BrokerSignals ==
  ASSUME PipelineInv, IInv, SignalsInv, [Next]_vars,
         \/ \E w \in Slot : \E s \in DOMAIN dispatch : Receives(w, s)
         \/ \E process \in Process : RunReturns(process) \/ DeferrerLost(process)
         \/ \E s \in DOMAIN deferred : DeferralExpires(s)
  PROVE  SignalsInv'
<1>1. Counts(dispatch) /\ Counts(deferred) /\ tasks \in [Slot -> TaskState]
  BY Zenon DEF SignalsInv, CopiesCounted, Counts, PipelineInv, NotifierTypeOK
<1>2. ASSUME NEW w \in Slot, NEW s \in DOMAIN dispatch, Receives(w, s)
      PROVE  SignalsInv'
  <2> DEFINE task == [pc |-> "received", signal |-> s, grant |-> NULL, held |-> TRUE]
  <2>1. /\ tasks[w].pc = "idle"
        /\ dispatch' = Taken(dispatch, s)
        /\ tasks' = [tasks EXCEPT ![w] = task]
        /\ UNCHANGED <<publishers, handles, deferred, dropped>>
    BY <1>2, Zenon DEF Receives, At, vars
  <2>2. Counts(dispatch') /\ \A x : x # s /\ x \in DOMAIN dispatch => x \in DOMAIN dispatch'
    BY <1>1, <2>1, CopyMoves, Zenon
  <2>3. tasks'[w].signal = s /\ tasks'[w].pc \in Undecided /\ tasks'[w].held
    BY <1>1, <2>1, Zenon DEF Undecided
  <2>4. \A x : x \in DOMAIN dispatch \/ x \in DOMAIN deferred => Carried(x)'
    BY <2>1, <2>2, <2>3, Zenon DEF Carried
  <2>5. \A v \in Slot : tasks[v].pc \in Undecided => tasks'[v] = tasks[v]
    BY <1>1, <2>1, Zenon DEF Undecided
  <2>6. CopiesKept
    BY <2>4, <2>5, CopiesFrame, Zenon DEF Carried, StillAwaited
  <2>7. CopiesCounted'
    BY <1>1, <2>1, <2>2, Zenon DEF CopiesCounted, Counts
  <2>8. ConfirmationsKept /\ PublicationsConfirmed /\ DroppedKept
    BY <2>1, PublicationsKept, Zenon DEF ConfirmationsKept, DroppedKept
  <2> QED
    BY <2>1, <2>6, <2>7, <2>8, SignalsFrame, Zenon
<1>3. ASSUME NEW process \in Process, RunReturns(process) \/ DeferrerLost(process)
      PROVE  SignalsInv'
  <2>1. UNCHANGED <<publishers, handles, dispatch, deferred, tasks, dropped>>
    BY <1>3, Zenon DEF RunReturns, DeferrerLost, vars
  <2> QED
    BY <2>1, PublicationsKept, QuietSignals, Zenon DEF ConfirmationsKept
<1>4. ASSUME NEW s \in DOMAIN deferred, DeferralExpires(s)
      PROVE  SignalsInv'
  <2>1. /\ deferred' = Taken(deferred, s)
        /\ dispatch' = Added(dispatch, s)
        /\ UNCHANGED <<publishers, handles, tasks, dropped>>
    BY <1>4, Zenon DEF DeferralExpires, vars
  <2>2. /\ Counts(dispatch') /\ s \in DOMAIN dispatch'
        /\ \A x : x \in DOMAIN dispatch => x \in DOMAIN dispatch'
        /\ Counts(deferred') /\ \A x : x # s /\ x \in DOMAIN deferred => x \in DOMAIN deferred'
    BY <1>1, <2>1, CopyMoves, Zenon
  <2>3. \A x : x \in DOMAIN dispatch \/ x \in DOMAIN deferred => Carried(x)'
    BY <2>2, Zenon DEF Carried
  <2>4. CopiesKept
    BY <2>1, <2>3, CopiesFrame, Zenon DEF Carried, StillAwaited
  <2>5. CopiesCounted'
    BY <2>2, Zenon DEF CopiesCounted, Counts
  <2>6. ConfirmationsKept /\ PublicationsConfirmed /\ DroppedKept
    BY <2>1, PublicationsKept, Zenon DEF ConfirmationsKept, DroppedKept
  <2> QED
    BY <2>1, <2>4, <2>5, <2>6, SignalsFrame, Zenon
<1> QED
  BY <1>2, <1>3, <1>4, Zenon

\* At first there is no signal, no message and no handle.
LEMMA InitSignals == NotifierInit => SignalsInv
<1> SUFFICES ASSUME NotifierInit PROVE SignalsInv
  BY Zenon
<1>1. handles = {} /\ Signals = {} /\ dispatch = Empty /\ deferred = Empty
  BY Zenon DEF NotifierInit, Init, Signals
<1>2. DOMAIN Empty = {}
  BY Zenon DEF Empty
<1> QED
  BY <1>1, <1>2, Zenon DEF SignalsInv, ConfirmedIsCarried, Awaited, CopiesCounted, HandlesNotAhead

=============================================================================
