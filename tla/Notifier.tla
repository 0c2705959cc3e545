------------------------------ MODULE Notifier ------------------------------
(***************************************************************************)
(* The dispatch pipeline of reliable-notifier: the clients of the store.   *)
(*                                                                         *)
(*   Publisher --Publish--> dispatch queue --> Worker goroutines --> store *)
(*                               ^                   |                     *)
(*                               +-- deferral queue <+ (no permit)         *)
(*                                                                         *)
(* DeliveryStore lets any client call any operation at any moment.  Here   *)
(* its operations are called as runPublisher, dispatch.Publisher,          *)
(* worker.RabbitConsumer and worker.Worker call them, with the RabbitMQ    *)
(* queues between them.  The API and the maintenance loops stay as general *)
(* as they are in DeliveryStore.                                           *)
(*                                                                         *)
(* RabbitMQ itself is external: queues are bags, because redelivery breaks *)
(* any order, and an unacknowledged message goes back to its queue when    *)
(* its consumer goes away.                                                 *)
(***************************************************************************)
EXTENDS DeliveryStore

CONSTANTS
  Process,         \* Worker processes; WORKER_ID may be the same in all of them
  Goroutine,       \* goroutines of a process, one for each message of its prefetch (8)
  MaxConcurrency,  \* max_concurrency of the destination
  MaxFaults,       \* bound: crashes, interruptions, failed calls and lost messages
  LastFault        \* bound: they happen up to this time

ASSUME NotifierAssumption ==
  /\ IsFiniteSet(Goroutine)
  /\ MaxConcurrency \in Nat \ {0}
  /\ MaxFaults \in Nat
  /\ LastFault \in Nat

VARIABLES
  publishers,  \* publishers[p]: where RunOnce is, and the event it works on
  dispatch,    \* bag of signals ready in QueueName
  deferred,    \* bag of signals waiting out the TTL of DeferralQueue
  tasks,       \* tasks[w]: one processMessage goroutine
  cancelled,   \* the processes whose Run is about to return: runContext is cancelled
  faults,      \* faults so far
  unread,      \* unread[process]: confirmations its deferrer left behind; 2 is two or more
  dropped      \* signals that lost a copy since they were last published

pipeline == <<publishers, dispatch, deferred, tasks, cancelled, faults, unread, dropped>>
allVars == <<vars, pipeline>>

-----------------------------------------------------------------------------
(***************************************************************************)
(* State.                                                                  *)
(***************************************************************************)

Signal == Delivery \X Nat

\* A goroutine of a process.
Slot == Process \X Goroutine

\* running: claiming or publishing; marking: Publish returned nil for current;
\* releasing: releaseRemaining after an error.
PublisherState ==
  [pc : {"running", "marking", "releasing"}, current : Handle \cup {NULL}]

\* The control points of processMessage and Process.  held: the broker still
\* counts the message as unacknowledged on this consumer's channel.
TaskState ==
  [pc : {"idle", "received", "eligible", "observed", "permitted", "sending",
         "deferring", "ack"},
   signal : Signal \cup {NULL}, grant : Grant \cup {NULL}, held : BOOLEAN]

NoTask == [pc |-> "idle", signal |-> NULL, grant |-> NULL, held |-> FALSE]
Running == [pc |-> "running", current |-> NULL]

\* The events of the batch RunOnce is working on.
BatchOf(p) == {h \in handles : h.owner = p}

\* Permits in use of the limiter of one process; Worker.Process holds one from
\* tryAcquire until it returns.
PermitsInUse(process) ==
  Cardinality({w \in Slot : w[1] = process /\ tasks[w].pc \in {"permitted", "sending"}})

\* The bags of signals in the queues: how many copies there are of each.
Empty == [s \in {} |-> 0]

Copies(queue, s) == IF s \in DOMAIN queue THEN queue[s] ELSE 0

Joined(queue, more) ==
  [s \in DOMAIN queue \cup DOMAIN more |-> Copies(queue, s) + Copies(more, s)]

Added(queue, s) == Joined(queue, [x \in {s} |-> 1])

Taken(queue, s) ==
  [x \in {y \in DOMAIN queue : y # s \/ queue[y] > 1} |->
     IF x = s THEN queue[x] - 1 ELSE queue[x]]

Fault == faults < MaxFaults /\ now <= LastFault /\ faults' = faults + 1

NotifierInit ==
  /\ Init
  /\ publishers = [p \in Publisher |-> Running]
  /\ dispatch = Empty
  /\ deferred = Empty
  /\ tasks = [w \in Slot |-> NoTask]
  /\ cancelled = {}
  /\ faults = 0
  /\ unread = [process \in Process |-> 0]
  /\ dropped = {}

-----------------------------------------------------------------------------
(***************************************************************************)
(* Publisher: runPublisher repeats RunOnce.                                *)
(***************************************************************************)

UnusedBatchTokens == {token \in BatchToken : FreshBatchToken(token)}

PublisherClaims(p) ==
  /\ publishers[p].pc = "running"
  /\ BatchOf(p) = {}
  /\ UnusedBatchTokens # {}
  /\ \E batch \in SUBSET Signals :
       /\ FullBatch(OutboxClaimable, batch)
       /\ ClaimOutbox(batch, p, CHOOSE token \in UnusedBatchTokens : TRUE)
  /\ UNCHANGED pipeline

\* Publish returned nil: the broker confirmed the message.  runPublisher publishes one
\* message after the other and gives a Publisher up at its first error, so that no
\* confirmation of another message can be left to it.
Publishes(p, h) ==
  /\ publishers[p].pc = "running"
  /\ h \in BatchOf(p)
  /\ dispatch' = Added(dispatch, <<h.delivery, h.generation>>)
  /\ dropped' = dropped \ {<<h.delivery, h.generation>>}
  /\ publishers' = [publishers EXCEPT ![p] = [pc |-> "marking", current |-> h]]
  /\ UNCHANGED <<vars, deferred, tasks, cancelled, faults, unread>>

\* Publish returned an error: the message was returned, refused or never sent, or
\* it is in the queue and only its confirmation is missing.
PublishFails(p, h, routed) ==
  /\ Fault
  /\ publishers[p].pc = "running"
  /\ h \in BatchOf(p)
  /\ dispatch' = IF routed THEN Added(dispatch, <<h.delivery, h.generation>>)
                           ELSE dispatch
  /\ publishers' = [publishers EXCEPT ![p] = [pc |-> "releasing", current |-> NULL]]
  /\ UNCHANGED <<vars, deferred, tasks, cancelled, unread, dropped>>

\* Mutant: the publication is recorded though the lease ran out.
MarksExpired(p) ==
  LET h == publishers[p].current
      s == <<h.delivery, h.generation>>
  IN  /\ publishers[p].pc = "marking"
      /\ HandleMatches(h)
      /\ outbox_events' = [outbox_events EXCEPT ![s] = Published(outbox_events[s])]
      /\ handles' = handles \ {h}
      /\ publishers' = [publishers EXCEPT ![p] = Running]
      /\ UNCHANGED <<now, deliveries, delivery_attempts, replay_audits, grants, inflight,
                     stalled, dispatch, deferred, tasks, cancelled, faults, unread, dropped>>

Marks(p) ==
  /\ publishers[p].pc = "marking"
  /\ MarkOutboxPublished(publishers[p].current)
  /\ publishers' = [publishers EXCEPT ![p] = Running]
  /\ UNCHANGED <<dispatch, deferred, tasks, cancelled, faults, unread, dropped>>

\* ErrOutboxLeaseLost: the lease ran out, or the event went with its delivery.
MarkLosesLease(p) ==
  LET h == publishers[p].current
  IN  /\ publishers[p].pc = "marking"
      /\ ~(HandleMatches(h) /\ outbox_events[<<h.delivery, h.generation>>].lease.until > now)
      /\ publishers' = [publishers EXCEPT ![p] = [pc |-> "releasing", current |-> NULL]]
      /\ UNCHANGED <<vars, dispatch, deferred, tasks, cancelled, faults, unread, dropped>>

\* The call failed without an effect; had it taken effect all the same, that would
\* be Marks followed by a failing Publish.
MarkFails(p) ==
  /\ Fault
  /\ publishers[p].pc = "marking"
  /\ publishers' = [publishers EXCEPT ![p] = [pc |-> "releasing", current |-> NULL]]
  /\ UNCHANGED <<vars, dispatch, deferred, tasks, cancelled, unread, dropped>>

\* releaseRemaining; the error of a ReleaseOutbox that matches nothing is dropped.
Releases(p, h) ==
  /\ publishers[p].pc = "releasing"
  /\ h \in BatchOf(p)
  /\ ReleaseOutbox(h)
  /\ UNCHANGED pipeline

\* runPublisher closes the broker, waits a second and starts over.
Reconnects(p) ==
  /\ publishers[p].pc = "releasing"
  /\ BatchOf(p) = {}
  /\ publishers' = [publishers EXCEPT ![p] = Running]
  /\ UNCHANGED <<vars, dispatch, deferred, tasks, cancelled, faults, unread, dropped>>

\* The process dies, or the database is unreachable: the batch is left to expire.
\* A new process takes a new owner; reusing p is the harder case.
PublisherCrashes(p) ==
  /\ Fault
  /\ PublisherStops(BatchOf(p))
  /\ publishers' = [publishers EXCEPT ![p] = Running]
  /\ UNCHANGED <<dispatch, deferred, tasks, cancelled, unread, dropped>>

-----------------------------------------------------------------------------
(***************************************************************************)
(* Worker goroutines: RabbitConsumer.processMessage and Worker.Process.    *)
(***************************************************************************)

At(w, pc) == tasks[w].pc = pc
Goto(w, pc) == tasks' = [tasks EXCEPT ![w].pc = pc]

\* A goroutine started under a cancelled context fails at its first call and nacks,
\* which changes nothing: it is left out.
Receives(w, s) ==
  /\ w[1] \notin cancelled
  /\ At(w, "idle")
  /\ s \in DOMAIN dispatch
  /\ dispatch' = Taken(dispatch, s)
  /\ tasks' = [tasks EXCEPT ![w] =
       [pc |-> "received", signal |-> s, grant |-> NULL, held |-> TRUE]]
  /\ UNCHANGED <<vars, publishers, deferred, cancelled, faults, unread, dropped>>

EligibleDestination(w) ==
  LET s == tasks[w].signal
  IN  /\ At(w, "received")
      /\ Goto(w, IF Claimable(s[1], s[2]) THEN "eligible" ELSE "ack")
      /\ UNCHANGED <<vars, publishers, dispatch, deferred, cancelled, faults, unread, dropped>>

\* The UPDATE of ObserveSignal; matching no row is not an error.
Observes(w) ==
  LET s == tasks[w].signal
  IN  /\ At(w, "eligible")
      /\ IF Claimable(s[1], s[2]) /\ s \in Signals
         THEN ObserveSignal(s[1], s[2])
         ELSE UNCHANGED vars
      /\ Goto(w, "observed")
      /\ UNCHANGED <<publishers, dispatch, deferred, cancelled, faults, unread, dropped>>

\* tryAcquire returned a permit.
Acquires(w) ==
  /\ At(w, "observed")
  /\ PermitsInUse(w[1]) < MaxConcurrency
  /\ Goto(w, "permitted")
  /\ UNCHANGED <<vars, publishers, dispatch, deferred, cancelled, faults, unread, dropped>>

\* Mutant: the message is acknowledged before its copy is published.
AcksThenDefers(w) ==
  /\ At(w, "observed")
  /\ tasks' = [tasks EXCEPT ![w].pc = "deferring", ![w].held = FALSE]
  /\ UNCHANGED <<vars, publishers, dispatch, deferred, cancelled, faults, unread, dropped>>

\* tryAcquire returned none: all are in use, or the rate interval is not over.
DoesNotAcquire(w) ==
  /\ At(w, "observed")
  /\ Goto(w, "deferring")
  /\ UNCHANGED <<vars, publishers, dispatch, deferred, cancelled, faults, unread, dropped>>

UnusedTokens == Token \ {grant.token : grant \in grants}

Claims(w, owner) ==
  LET s == tasks[w].signal
      token == CHOOSE t \in UnusedTokens : TRUE
  IN  /\ At(w, "permitted")
      /\ UnusedTokens # {}
      /\ ClaimDelivery(s[1], s[2], owner, token)
      /\ tasks' = [tasks EXCEPT ![w].pc = "sending",
                               ![w].grant = [delivery |-> s[1], generation |-> s[2],
                                             owner |-> owner, token |-> token]]
      /\ UNCHANGED <<publishers, dispatch, deferred, cancelled, faults, unread, dropped>>

\* ErrDeliveryNotClaimable.
ClaimFails(w) ==
  LET s == tasks[w].signal
  IN  /\ At(w, "permitted")
      /\ ~Claimable(s[1], s[2])
      /\ Goto(w, "ack")
      /\ UNCHANGED <<vars, publishers, dispatch, deferred, cancelled, faults, unread, dropped>>

\* Send took any time at all; its result is committed, or discarded as stale.
Finishes(w) ==
  /\ At(w, "sending")
  /\ \/ CompleteSuccess(tasks[w].grant)
     \/ CompletePermanent(tasks[w].grant)
     \/ \E t \in 0..MaxTime : CompleteRetry(tasks[w].grant, t)
     \/ DiscardResult(tasks[w].grant)
  /\ tasks' = [tasks EXCEPT ![w].pc = "ack", ![w].grant = NULL]
  /\ UNCHANGED <<publishers, dispatch, deferred, cancelled, faults, unread, dropped>>

\* Mutant: the deferred copy lost its generation.
DefersDelivery(w) ==
  /\ At(w, "deferring")
  /\ deferred' = Added(deferred, tasks[w].signal[1])
  /\ Goto(w, "ack")
  /\ UNCHANGED <<vars, publishers, dispatch, cancelled, faults, unread, dropped>>

\* Defer returned nil.  publishSignal compares no delivery tags: once another Defer of the
\* process has left its confirmation behind, that one may answer this Defer before its own
\* message is stored, and the message may never be.  Its own confirmation is then the one
\* left behind.
Defers(w) ==
  LET s == tasks[w].signal
  IN  /\ At(w, "deferring")
      /\ \/ deferred' = Added(deferred, s) /\ UNCHANGED dropped
         \/ unread[w[1]] > 0 /\ dropped' = dropped \cup {s} /\ UNCHANGED deferred
      /\ Goto(w, "ack")
      /\ UNCHANGED <<vars, publishers, dispatch, cancelled, faults, unread>>

Acks(w) ==
  /\ At(w, "ack")
  /\ tasks' = [tasks EXCEPT ![w] = NoTask]
  /\ UNCHANGED <<vars, publishers, dispatch, deferred, cancelled, faults, unread, dropped>>

\* What the broker requeues when the goroutines in stopped leave it unacknowledged.
Requeued(stopped) ==
  LET held == {w \in stopped : tasks[w].held}
  IN  [s \in {tasks[w].signal : w \in held} |->
         Cardinality({w \in held : tasks[w].signal = s})]

GoroutinesOf(process) == {w \in Slot : w[1] = process}

\* The goroutines are gone, with the leases they knew of.
Stop(stopped) ==
  /\ WorkerStops({tasks[w].grant : w \in stopped})
  /\ dispatch' = Joined(dispatch, Requeued(stopped))
  /\ tasks' = [w \in Slot |-> IF w \in stopped THEN NoTask ELSE tasks[w]]

\* What a Defer that fails may do all the same: the broker stores its copy, and its
\* confirmation stays behind if it left on ctx.Done or with a returned message.
FailedDefer(w) ==
  /\ At(w, "deferring")
  /\ deferred' = deferred \/ deferred' = Added(deferred, tasks[w].signal)
  /\ \/ unread' = unread
     \/ unread' = [unread EXCEPT ![w[1]] = IF @ < 2 THEN @ + 1 ELSE 2]

\* A call of processMessage fails: the message is nacked back to its queue and
\* runContext is cancelled.  The other goroutines fail, or finish before they notice.
TaskFails(w) ==
  /\ tasks[w].pc # "idle"
  /\ now <= LastFault
  /\ IF w[1] \in cancelled THEN UNCHANGED faults ELSE Fault
  /\ FailedDefer(w) \/ (~At(w, "deferring") /\ UNCHANGED <<deferred, unread>>)
  /\ Stop({w})
  /\ cancelled' = cancelled \cup {w[1]}
  /\ UNCHANGED <<publishers, dropped>>

\* Run has waited for its goroutines, and runWorker closes the consumer.
Closing(process) ==
  /\ process \in cancelled
  /\ \A w \in GoroutinesOf(process) : At(w, "idle")

\* RabbitConsumer.Close closes the deferrer first.  Of the confirmations nobody took one
\* fits the buffer of confirms; the next blocks the library's reader, and Close with it
\* (run resumes of SignalBroker).
CloseBlocked(process) == Closing(process) /\ unread[process] > 1

\* Close returns, and runWorker waits a second and connects a new consumer; it tries again
\* until RabbitMQ accepts it.
RunReturns(process) ==
  /\ Closing(process)
  /\ ~CloseBlocked(process)
  /\ cancelled' = cancelled \ {process}
  /\ unread' = [unread EXCEPT ![process] = 0]
  /\ UNCHANGED <<vars, publishers, dispatch, deferred, tasks, faults, dropped>>

WorkerCrashes(process) ==
  /\ Fault
  /\ Stop(GoroutinesOf(process))
  /\ cancelled' = cancelled \ {process}
  /\ unread' = [unread EXCEPT ![process] = 0]
  /\ UNCHANGED <<publishers, deferred, dropped>>

-----------------------------------------------------------------------------
(***************************************************************************)
(* RabbitMQ (external).                                                    *)
(***************************************************************************)

\* The message TTL of DeferralQueue dead-letters a signal to the dispatch queue.
DeferralExpires(s) ==
  /\ s \in DOMAIN deferred
  /\ deferred' = Taken(deferred, s)
  /\ dispatch' = Added(dispatch, s)
  /\ UNCHANGED <<vars, publishers, tasks, cancelled, faults, unread, dropped>>

\* The connection of a consumer breaks: the broker requeues its messages at once,
\* while its goroutines go on and other processes receive them again.
ConnectionLost(process) ==
  /\ Fault
  /\ dispatch' = Joined(dispatch, Requeued(GoroutinesOf(process)))
  /\ tasks' = [w \in Slot |-> IF w \in GoroutinesOf(process)
                               THEN [tasks[w] EXCEPT !.held = FALSE]
                               ELSE tasks[w]]
  /\ cancelled' = cancelled \cup {process}
  /\ UNCHANGED <<vars, publishers, deferred, unread, dropped>>

\* The broker loses a message: a purge, or a node whose disk is gone.
BrokerLoses(s) ==
  /\ Fault
  /\ s \in DOMAIN dispatch
  /\ dispatch' = Taken(dispatch, s)
  /\ dropped' = dropped \cup {s}
  /\ UNCHANGED <<vars, publishers, deferred, tasks, cancelled, unread>>

\* The connection of the deferrer breaks and releases Close; earlier, that only makes
\* Defers fail.  It comes after faults that count, and is not counted.
DeferrerLost(process) ==
  /\ CloseBlocked(process)
  /\ unread' = [unread EXCEPT ![process] = 0]
  /\ UNCHANGED <<vars, publishers, dispatch, deferred, tasks, cancelled, faults, dropped>>

-----------------------------------------------------------------------------
(***************************************************************************)
(* The specification.                                                      *)
(***************************************************************************)

PublisherNext(p) ==
  \/ PublisherClaims(p)
  \/ \E h \in BatchOf(p) : Publishes(p, h) \/ Releases(p, h)
  \/ Marks(p)
  \/ MarkLosesLease(p)
  \/ Reconnects(p)

TaskNext(w) ==
  \/ EligibleDestination(w)
  \/ Observes(w)
  \/ Acquires(w)
  \/ DoesNotAcquire(w)
  \/ \E owner \in Owner : Claims(w, owner)
  \/ ClaimFails(w)
  \/ Finishes(w)
  \/ Defers(w)
  \/ Acks(w)
  \/ w[1] \in cancelled /\ TaskFails(w)

FaultNext ==
  \/ \E p \in Publisher :
       \/ \E h \in BatchOf(p), routed \in BOOLEAN : PublishFails(p, h, routed)
       \/ MarkFails(p)
       \/ PublisherCrashes(p)
  \/ \E w \in Slot : w[1] \notin cancelled /\ TaskFails(w)
  \/ \E process \in Process : WorkerCrashes(process) \/ ConnectionLost(process)
  \/ \E s \in DOMAIN dispatch : BrokerLoses(s)

NotifierNext ==
  \/ (Tick \/ ApiStep \/ MaintenanceStep) /\ UNCHANGED pipeline
  \/ \E p \in Publisher : PublisherNext(p)
  \/ \E w \in Slot : TaskNext(w) \/ \E s \in DOMAIN dispatch : Receives(w, s)
  \/ \E process \in Process : RunReturns(process) \/ DeferrerLost(process)
  \/ \E s \in DOMAIN deferred : DeferralExpires(s)
  \/ FaultNext

NotifierSpec == NotifierInit /\ [][NotifierNext]_allVars

\* Every loop and goroutine of the program runs, runWorker gets a new connection once Close
\* has returned, and RabbitMQ delivers what it holds.
\* Strong fairness twice: the rows of the watchdog are not locked at its update time
\* and again, and a signal is not refused a free permit for the rate time and again.
WatchdogUpdate == \E batch \in SUBSET Signals :
  /\ FullBatch({s \in stalled \cap Signals : EventSilent(outbox_events[s])}, batch)
  /\ ReconcileStalledSignals(batch)

FairNotifierSpec ==
  /\ NotifierSpec
  /\ WF_allVars(Tick /\ UNCHANGED pipeline)
  /\ WF_allVars(SchedulerTurn /\ UNCHANGED pipeline)
  /\ WF_allVars(ReconcilerTurn /\ UNCHANGED pipeline)
  /\ WF_allVars(ReconcileSnapshot /\ UNCHANGED pipeline)
  /\ SF_allVars(WatchdogUpdate /\ UNCHANGED pipeline)
  /\ \A p \in Publisher : WF_allVars(PublisherNext(p))
  /\ \A process \in Process : WF_allVars(RunReturns(process))
  /\ \A w \in Slot : /\ WF_allVars(TaskNext(w))
                     /\ SF_allVars(Acquires(w))
                     /\ WF_allVars(\E s \in DOMAIN dispatch : Receives(w, s))
  /\ WF_allVars(\E s \in DOMAIN deferred : DeferralExpires(s))

-----------------------------------------------------------------------------
(***************************************************************************)
(* Properties.                                                             *)
(***************************************************************************)

\* The processes are at a control point of their code, with the data it holds there.
NotifierTypeOK ==
  /\ publishers \in [Publisher -> PublisherState]
  /\ DOMAIN dispatch \cup DOMAIN deferred \subseteq Signal
  /\ tasks \in [Slot -> TaskState]
  /\ \A w \in Slot : tasks[w].held \/ tasks[w].pc # "idle" => tasks[w].signal \in Signal
  /\ cancelled \subseteq Process
  /\ faults \in Nat
  /\ unread \in [Process -> 0..2]
  /\ dropped \subseteq Signal

\* A goroutine that sends holds a lease of its own: ClaimDelivery gave it to this
\* goroutine and to no other, and it is the only one to report on it.
GrantsHeld ==
  /\ \A w \in Slot : IF tasks[w].pc = "sending" THEN tasks[w].grant \in inflight
                                                ELSE tasks[w].grant = NULL
  /\ \A v, w \in Slot :
       v # w /\ tasks[v].pc = "sending" /\ tasks[w].pc = "sending" =>
         tasks[v].grant # tasks[w].grant

\* A Publisher that records a publication works on an event of its current batch.
HandlesHeld ==
  \A p \in Publisher : publishers[p].pc = "marking" => publishers[p].current \in BatchOf(p)

PipelineInv == NotifierTypeOK /\ GrantsHeld /\ HandlesHeld

\* Acknowledged means handled: a pending delivery whose signal the Outbox counts as
\* published has a message in the dispatch queue, in the deferral queue or with a goroutine
\* that has yet to decide on it, unless a copy of that very signal was dropped since it was
\* last published: lost by the broker, or by a Defer that took the confirmation another one
\* left behind.  No order of confirms, deferrals, acks, requeues and interruptions in
\* processMessage and RunOnce loses the last copy otherwise, and none is dropped before a
\* first fault.
NoSignalDropped ==
  /\ \A d \in Delivery :
       /\ deliveries[d].status = "pending"
       /\ deliveries[d].retry_deadline > now
       /\ Current(d) \in Signals \ dropped
       /\ outbox_events[Current(d)].published_at # NULL
       => \/ Current(d) \in DOMAIN dispatch
          \/ Current(d) \in DOMAIN deferred
          \/ \E w \in Slot : tasks[w].signal = Current(d) /\ tasks[w].pc # "ack"
  /\ faults = 0 => dropped = {}

\* The pipeline drives the store as DeliveryStore allows: the program never calls an
\* operation with a lease, handle or generation the store did not hand it, so all
\* that is shown of DeliveryStore holds of the composed system.
ImplementsStore == Spec

\* The Close of a consumer never blocks for ever.
CloseReturns == \A process \in Process : []<>~CloseBlocked(process)

\* Whatever is lost or dropped, every accepted delivery is decided well before its retry
\* window ends, provided that Close returns: Publisher, scheduler, lease recovery and the
\* signal watchdog between them repair every crash, interruption and lost message.
EveryDeliveryDecided ==
  CloseReturns =>
    \A d \in Delivery : deliveries[d].status \in Active ~> deliveries[d].status \notin Active

-----------------------------------------------------------------------------
(***************************************************************************)
(* The inductive invariant of NoSignalDropped.                             *)
(***************************************************************************)

\* A copy nothing can drop unseen: it is in a queue, or with a goroutine that has yet to
\* decide on it and whose message the broker requeues when the goroutine goes away.
Undecided == {"received", "eligible", "observed", "permitted", "deferring"}
Carried(s) ==
  \/ s \in DOMAIN dispatch
  \/ s \in DOMAIN deferred
  \/ \E w \in Slot : tasks[w].signal = s /\ tasks[w].pc \in Undecided /\ tasks[w].held

\* The broker has confirmed the signal, whether or not that is recorded yet.
Confirmed(s) ==
  \/ outbox_events[s].published_at # NULL
  \/ \E p \in Publisher :
       /\ publishers[p].pc = "marking"
       /\ <<publishers[p].current.delivery, publishers[p].current.generation>> = s

Awaited(d) ==
  /\ deliveries[d].status = "pending"
  /\ deliveries[d].retry_deadline > now
  /\ Current(d) \in Signals

ConfirmedIsCarried ==
  \A d \in Delivery :
    Awaited(d) /\ Confirmed(Current(d)) /\ Current(d) \notin dropped => Carried(Current(d))

\* The queues count the copies they hold.
CopiesCounted ==
  \A queue \in {dispatch, deferred} : \A s \in DOMAIN queue : queue[s] \in Nat \ {0}

\* No handle is ahead of its delivery: an event a Publisher claimed goes only with it.
HandlesNotAhead ==
  \A h \in handles :
    <<h.delivery, h.generation>> \in Signals \/ deliveries[h.delivery].status = "deleted"

SignalsInv == ConfirmedIsCarried /\ CopiesCounted /\ HandlesNotAhead

\* Nothing is cancelled, left behind or dropped before a first fault.
NothingFailedYet ==
  faults = 0 => /\ cancelled = {}
                /\ dropped = {}
                /\ \A process \in Process : unread[process] = 0

=============================================================================
