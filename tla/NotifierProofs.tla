--------------------------- MODULE NotifierProofs ---------------------------
(***************************************************************************)
(* The pipeline of Notifier implements DeliveryStore, for every number of  *)
(* Publishers, Worker processes and goroutines, whatever faults happen; so *)
(* what is proved of the store holds of the composed system.  What follows *)
(* by counting, messages or deliveries, is here as well.                   *)
(***************************************************************************)
EXTENDS NotifierPipeline, DeliveryStoreProofs, FiniteSetTheorems

-----------------------------------------------------------------------------
(***************************************************************************)
(* The theorems.                                                           *)
(***************************************************************************)

\* In the composed system the store's invariant holds and the goroutines and
\* Publishers hold what the store handed them.
THEOREM NotifierInvariance == NotifierSpec => [](PipelineInv /\ IInv)
<1>1. NotifierInit => PipelineInv /\ IInv
  BY InitPipeline, InitIInv, Zenon DEF NotifierInit
<1>2. PipelineInv /\ IInv /\ [NotifierNext]_allVars => (PipelineInv /\ IInv)'
  BY NextPipeline, NextRefines, NextIInv, Zenon
<1> QED
  BY <1>1, <1>2, PTL DEF NotifierSpec

\* Each goroutine that sends holds a lease of its own, and each Publisher works on
\* its own batch.
THEOREM ProcessesHoldTheirOwn == NotifierSpec => []PipelineInv
  BY NotifierInvariance, PTL

\* The Publisher, broker and Worker drive the store as DeliveryStore allows.
THEOREM PipelineImplementsStore == NotifierSpec => ImplementsStore
<1>1. NotifierInit => Init
  BY Zenon DEF NotifierInit
<1>2. PipelineInv /\ IInv /\ [NotifierNext]_allVars => [Next]_vars
  BY NextRefines, Zenon
<1> QED
  BY <1>1, <1>2, NotifierInvariance, PTL DEF NotifierSpec, ImplementsStore, Spec

\* At-least-once signals lead to at most one send per generation, and no send ends
\* unrecorded, in the composed system.
THEOREM OneSendPerGeneration ==
  NotifierSpec => [](OneLeasePerGeneration /\ EveryLeaseAccountedFor)
<1>1. IInv => OneLeasePerGeneration /\ EveryLeaseAccountedFor
  BY Zenon DEF IInv
<1> QED
  BY <1>1, NotifierInvariance, PTL

\* Publishers, Workers, broker, faults and loops together move a delivery only along
\* its life: what callers are promised of the store holds of the running service.
THEOREM PipelineImplementsLifecycle == NotifierSpec => ImplementsLifecycle
BY PipelineImplementsStore, StoreImplementsLifecycle, PTL DEF ImplementsStore

-----------------------------------------------------------------------------
(***************************************************************************)
(* No signal is dropped.                                                   *)
(***************************************************************************)

\* The broker requeues a copy for each goroutine whose message it still counts.
LEMMA RequeuedCopies ==
  ASSUME NEW stopped, IsFiniteSet(stopped), Counts(dispatch)
  PROVE  /\ Counts(Joined(dispatch, Requeued(stopped)))
         /\ \A x : x \in DOMAIN dispatch => x \in DOMAIN Joined(dispatch, Requeued(stopped))
         /\ \A w \in stopped : tasks[w].held =>
              tasks[w].signal \in DOMAIN Joined(dispatch, Requeued(stopped))
<1> DEFINE held == {w \in stopped : tasks[w].held}
           back == [s \in {tasks[w].signal : w \in held} |->
                      Cardinality({w \in held : tasks[w].signal = s})]
<1>1. Requeued(stopped) = back
  BY Zenon DEF Requeued
<1>2. \A s \in DOMAIN back : back[s] \in Nat \ {0}
  <2> SUFFICES ASSUME NEW w \in held
               PROVE  Cardinality({v \in held : tasks[v].signal = tasks[w].signal}) \in Nat \ {0}
    BY Zenon
  <2> DEFINE same == {v \in held : tasks[v].signal = tasks[w].signal}
  <2>1. IsFiniteSet(same)
    BY FS_Subset, Zenon
  <2>2. w \in same
    BY Zenon
  <2> HIDE DEF same
  <2> QED
    BY <2>1, <2>2, FS_CardinalityType, FS_EmptySet, Zenon DEF same
<1>3. DOMAIN back = {tasks[w].signal : w \in held}
  BY Zenon
<1> HIDE DEF back
<1>4. /\ DOMAIN Joined(dispatch, back) = DOMAIN dispatch \cup DOMAIN back
      /\ \A s \in DOMAIN Joined(dispatch, back) : Joined(dispatch, back)[s] =
           (IF s \in DOMAIN dispatch THEN dispatch[s] ELSE 0)
             + (IF s \in DOMAIN back THEN back[s] ELSE 0)
  BY Zenon DEF Joined, Copies
<1>5. Counts(Joined(dispatch, back))
  BY <1>2, <1>4 DEF Counts
<1> QED
  BY <1>1, <1>3, <1>4, <1>5, Zenon

\* A process has finitely many goroutines: channel.Qos bounds them.
LEMMA FewGoroutines ==
  ASSUME NEW process \in Process
  PROVE  IsFiniteSet(GoroutinesOf(process)) /\ GoroutinesOf(process) \subseteq Slot
<1>1. IsFiniteSet({process} \X Goroutine)
  BY NotifierAssumption, FS_Singleton, FS_Product, Zenon
<1>2. GoroutinesOf(process) \subseteq {process} \X Goroutine
  BY Zenon DEF GoroutinesOf, Slot
<1> QED
  BY <1>1, <1>2, FS_Subset, Zenon DEF GoroutinesOf

\* Goroutines that end, or lose their messages, leave their signals with the broker.
LEMMA RequeueSignals ==
  ASSUME PipelineInv, IInv, SignalsInv, [Next]_vars, NEW stopped \in SUBSET Slot,
         IsFiniteSet(stopped), dispatch' = Joined(dispatch, Requeued(stopped)),
         \A w \in Slot \ stopped : tasks'[w] = tasks[w],
         Counts(deferred'), \A s : s \in DOMAIN deferred => s \in DOMAIN deferred',
         UNCHANGED <<publishers, handles, dropped>>
  PROVE  SignalsInv'
<1>1. Counts(dispatch)
  BY Zenon DEF SignalsInv, CopiesCounted, Counts
<1>2. /\ Counts(dispatch')
      /\ \A s : s \in DOMAIN dispatch => s \in DOMAIN dispatch'
      /\ \A w \in stopped : tasks[w].held => tasks[w].signal \in DOMAIN dispatch'
  BY <1>1, RequeuedCopies, Zenon
<1> QED
  BY <1>2, StopSignals, Zenon

\* A call of processMessage fails.
LEMMA TaskFailsSignals ==
  ASSUME PipelineInv, IInv, SignalsInv, [Next]_vars, NEW w \in Slot, TaskFails(w)
  PROVE  SignalsInv'
<1>1. {w} \in SUBSET Slot /\ IsFiniteSet({w})
  BY FS_Singleton, Zenon
<1>2. /\ dispatch' = Joined(dispatch, Requeued({w}))
      /\ \A v \in Slot \ {w} : tasks'[v] = tasks[v]
      /\ UNCHANGED <<publishers, handles, dropped>>
  BY Zenon DEF TaskFails, Stop, WorkerStops
<1>3. deferred' = deferred \/ deferred' = Added(deferred, tasks[w].signal)
  BY Zenon DEF TaskFails, FailedDefer
<1>4. Counts(deferred') /\ \A s : s \in DOMAIN deferred => s \in DOMAIN deferred'
  BY <1>3, CopyMoves, Zenon DEF SignalsInv, CopiesCounted, Counts
<1> QED
  BY <1>1, <1>2, <1>4, RequeueSignals, Zenon

\* Failed calls, crashes and broken connections lose no copy; the broker may.
LEMMA FaultSignals ==
  ASSUME PipelineInv, IInv, SignalsInv, [Next]_vars, FaultNext
  PROVE  SignalsInv'
<1>1. publishers \in [Publisher -> PublisherState] /\ tasks \in [Slot -> TaskState]
  BY Zenon DEF PipelineInv, NotifierTypeOK
<1>2. ASSUME NEW p \in Publisher, NEW state, state.pc # "marking",
             publishers' = [publishers EXCEPT ![p] = state]
      PROVE  ConfirmationsKept
  BY <1>1, <1>2, Zenon DEF ConfirmationsKept
<1>3. ASSUME NEW p \in Publisher, NEW h \in BatchOf(p), NEW routed \in BOOLEAN,
             PublishFails(p, h, routed)
      PROVE  SignalsInv'
  <2>1. /\ UNCHANGED <<handles, deferred, tasks, dropped>>
        /\ \/ dispatch' = dispatch
           \/ dispatch' = Added(dispatch, <<h.delivery, h.generation>>)
        /\ publishers' = [publishers EXCEPT ![p] = [pc |-> "releasing", current |-> NULL]]
    BY <1>3, Zenon DEF PublishFails, vars
  <2>2. ConfirmationsKept /\ PublicationsConfirmed
    BY <1>2, <2>1, PublicationsKept, Zenon
  <2> QED
    BY <2>1, <2>2, QuietSignals, RoutedSignals, Zenon DEF DroppedKept
<1>4. ASSUME NEW p \in Publisher, MarkFails(p)
      PROVE  SignalsInv'
  <2>1. /\ UNCHANGED <<handles, dispatch, deferred, tasks, dropped>>
        /\ publishers' = [publishers EXCEPT ![p] = [pc |-> "releasing", current |-> NULL]]
    BY <1>4, Zenon DEF MarkFails, vars
  <2> QED
    BY <1>2, <2>1, PublicationsKept, QuietSignals, Zenon
<1>5. ASSUME NEW p \in Publisher, PublisherCrashes(p)
      PROVE  SignalsInv'
  <2>1. /\ UNCHANGED <<outbox_events, dispatch, deferred, tasks, dropped>>
        /\ publishers' = [publishers EXCEPT ![p] = Running]
    BY <1>5, Zenon DEF PublisherCrashes, PublisherStops, tables
  <2>2. PublicationsConfirmed
    BY <2>1, Zenon DEF PublicationsConfirmed, Confirmed
  <2> QED
    BY <1>2, <2>1, <2>2, QuietSignals, Zenon DEF Running
<1>6. ASSUME NEW process \in Process, WorkerCrashes(process) \/ ConnectionLost(process)
      PROVE  SignalsInv'
  <2> DEFINE stopped == GoroutinesOf(process)
  <2>1. stopped \in SUBSET Slot /\ IsFiniteSet(stopped)
    BY FewGoroutines, Zenon
  <2>2. /\ dispatch' = Joined(dispatch, Requeued(stopped))
        /\ \A w \in Slot \ stopped : tasks'[w] = tasks[w]
        /\ UNCHANGED <<publishers, handles, deferred, dropped>>
    BY <1>6, Zenon DEF WorkerCrashes, Stop, WorkerStops, ConnectionLost, vars
  <2>3. Counts(deferred')
    BY <2>2, Zenon DEF SignalsInv, CopiesCounted, Counts
  <2> HIDE DEF stopped
  <2> QED
    BY <2>1, <2>2, <2>3, RequeueSignals, Zenon
<1>7. ASSUME NEW s \in DOMAIN dispatch, BrokerLoses(s)
      PROVE  SignalsInv'
  <2>1. /\ dispatch' = Taken(dispatch, s) /\ dropped' = dropped \cup {s}
        /\ UNCHANGED <<publishers, handles, deferred, tasks>>
    BY <1>7, Zenon DEF BrokerLoses, vars
  <2>2. Counts(dispatch) /\ Counts(deferred)
    BY Zenon DEF SignalsInv, CopiesCounted, Counts
  <2>3. CopiesCounted'
    BY <2>1, <2>2, CopyMoves, Zenon DEF CopiesCounted, Counts
  <2>4. \A x : x \notin dropped' /\ (x \in DOMAIN dispatch \/ x \in DOMAIN deferred) =>
                Carried(x)'
    BY <2>1, <2>2, CopyMoves, Zenon DEF Carried
  <2>5. CopiesKept
    BY <2>1, <2>4, CopiesFrame, Zenon DEF Carried, StillAwaited
  <2>6. ConfirmationsKept /\ PublicationsConfirmed /\ DroppedKept
    BY <2>1, PublicationsKept, Zenon DEF ConfirmationsKept, DroppedKept
  <2> QED
    BY <2>3, <2>5, <2>6, SignalsFrame, Zenon
<1> QED
  BY <1>3, <1>4, <1>5, <1>6, <1>7, TaskFailsSignals, Zenon DEF FaultNext

\* Every step of the pipeline keeps a copy of what is confirmed and awaited.
LEMMA NextSignals ==
  PipelineInv /\ IInv /\ SignalsInv /\ [NotifierNext]_allVars => SignalsInv'
<1> SUFFICES ASSUME PipelineInv, IInv, SignalsInv, [NotifierNext]_allVars
             PROVE  SignalsInv'
  BY Zenon
<1>1. [Next]_vars
  BY NextRefines, Zenon
<1>2. CASE (Tick \/ ApiStep \/ MaintenanceStep) /\ UNCHANGED pipeline
  <2>1. UNCHANGED handles
    BY <1>2, Zenon DEF Tick, ApiStep, MaintenanceStep, Submit, Replay, ScheduleDueRetries,
       RecoverExpiredDeliveries, DeleteExpiredTerminal, ReconcileSnapshot,
       ReconcileStalledSignals, clients
  <2>2. UNCHANGED <<publishers, dispatch, deferred, tasks, dropped>>
    BY <1>2, Zenon DEF pipeline
  <2> QED
    BY <1>1, <2>1, <2>2, PublicationsKept, QuietSignals, Zenon DEF ConfirmationsKept
<1>3. CASE UNCHANGED allVars
  <2>1. UNCHANGED <<handles, publishers, dispatch, deferred, tasks, dropped>>
    BY <1>3, Zenon DEF allVars, vars, pipeline
  <2> QED
    BY <1>1, <2>1, PublicationsKept, QuietSignals, Zenon DEF ConfirmationsKept
<1>4. CASE \E p \in Publisher : PublisherNext(p)
  BY <1>1, <1>4, PublisherSignals, Zenon
<1>5. CASE \E w \in Slot : TaskNext(w)
  BY <1>1, <1>5, TaskSignals, TaskFailsSignals, Zenon
<1>6. CASE \/ \E w \in Slot : \E s \in DOMAIN dispatch : Receives(w, s)
           \/ \E process \in Process : RunReturns(process) \/ DeferrerLost(process)
           \/ \E s \in DOMAIN deferred : DeferralExpires(s)
  BY <1>1, <1>6, BrokerSignals, Zenon
<1>7. CASE FaultNext
  BY <1>1, <1>7, FaultSignals, Zenon
<1> QED
  BY <1>2, <1>3, <1>4, <1>5, <1>6, <1>7, Zenon DEF NotifierNext

\* What is cancelled, left behind or dropped was so only after a fault.
LEMMA NextNothingFailed ==
  PipelineInv /\ NothingFailedYet /\ [NotifierNext]_allVars => NothingFailedYet'
<1> SUFFICES ASSUME PipelineInv, NothingFailedYet, [NotifierNext]_allVars, faults' = 0
             PROVE  /\ cancelled' = {} /\ dropped' = {}
                    /\ \A process \in Process : unread'[process] = 0
  BY Zenon DEF NothingFailedYet
<1>1. faults \in Nat /\ unread \in [Process -> 0..2]
  BY Zenon DEF PipelineInv, NotifierTypeOK
<1>2. ~Fault
  BY <1>1 DEF Fault
<1>3. ASSUME NEW w \in Slot, TaskFails(w)
      PROVE  FALSE
  <2>1. cancelled # {} /\ faults = 0
    BY <1>2, <1>3, Zenon DEF TaskFails
  <2> QED
    BY <2>1, Zenon DEF NothingFailedYet
<1>4. ~FaultNext
  BY <1>2, <1>3, Zenon DEF FaultNext, PublishFails, MarkFails, PublisherCrashes, WorkerCrashes,
     ConnectionLost, BrokerLoses
<1>5. CASE UNCHANGED <<cancelled, faults, unread>> /\ dropped' \subseteq dropped
  BY <1>5, Zenon DEF NothingFailedYet
<1>6. CASE \/ (Tick \/ ApiStep \/ MaintenanceStep) /\ UNCHANGED pipeline
           \/ UNCHANGED allVars
  BY <1>5, <1>6, Zenon DEF pipeline, allVars
<1>7. ASSUME NEW p \in Publisher, PublisherNext(p)
      PROVE  UNCHANGED <<cancelled, faults, unread>> /\ dropped' \subseteq dropped
  BY <1>7, Zenon DEF PublisherNext, PublisherClaims, Publishes, Releases, Marks, MarkLosesLease,
     Reconnects, pipeline
<1>8. ASSUME NEW w \in Slot, TaskNext(w)
      PROVE  UNCHANGED <<cancelled, faults, unread>> /\ dropped' \subseteq dropped
  <2>1. CASE Defers(w)
    <3>1. UNCHANGED <<cancelled, faults, unread>>
      BY <2>1, Zenon DEF Defers
    <3>2. w[1] \in Process
      BY Zenon DEF Slot
    <3>3. unread[w[1]] = 0
      BY <3>1, <3>2, Zenon DEF NothingFailedYet
    <3>4. ~(unread[w[1]] > 0)
      BY <3>3
    <3> QED
      BY <2>1, <3>1, <3>4, Zenon DEF Defers
  <2>2. CASE ~Defers(w)
    BY <1>3, <1>8, <2>2, Zenon DEF TaskNext, EligibleDestination, Observes, Acquires,
       DoesNotAcquire, Claims, ClaimFails, Finishes, Acks
  <2> QED
    BY <2>1, <2>2, Zenon
<1>9. ASSUME NEW process \in Process, RunReturns(process) \/ DeferrerLost(process)
      PROVE  /\ cancelled' = {} /\ dropped' = {}
             /\ \A other \in Process : unread'[other] = 0
  <2>1. /\ UNCHANGED <<faults, dropped>> /\ cancelled' \subseteq cancelled
        /\ unread' = [unread EXCEPT ![process] = 0]
    BY <1>9, Zenon DEF RunReturns, DeferrerLost
  <2> QED
    BY <1>1, <2>1, Zenon DEF NothingFailedYet
<1>10. ASSUME \/ \E w \in Slot : \E s \in DOMAIN dispatch : Receives(w, s)
              \/ \E s \in DOMAIN deferred : DeferralExpires(s)
       PROVE  UNCHANGED <<cancelled, faults, unread>> /\ dropped' \subseteq dropped
  BY <1>10, Zenon DEF Receives, DeferralExpires
<1> QED
  BY <1>4, <1>5, <1>6, <1>7, <1>8, <1>9, <1>10, Zenon DEF NotifierNext

\* Acknowledged means handled, whatever number of Publishers, processes and goroutines
\* there is and whatever crashes, fails or is cut off in processMessage and RunOnce: a
\* published signal that is awaited has a copy, unless a copy of that signal was lost by
\* the broker, or by a Defer that took another's confirmation, since its publication.
THEOREM NoSignalIsDropped == NotifierSpec => []NoSignalDropped
<1>1. NotifierInit => SignalsInv /\ NothingFailedYet
  BY InitSignals, Zenon DEF NotifierInit, NothingFailedYet
<1>2. /\ PipelineInv /\ IInv /\ SignalsInv /\ NothingFailedYet
      /\ [NotifierNext]_allVars
      => (SignalsInv /\ NothingFailedYet)'
  BY NextSignals, NextNothingFailed, Zenon
<1>3. SignalsInv /\ NothingFailedYet => NoSignalDropped
  <2>1. "ack" \notin Undecided
    BY Zenon DEF Undecided
  <2> QED
    BY <2>1, Zenon DEF SignalsInv, ConfirmedIsCarried, Awaited, Confirmed, Carried,
       NothingFailedYet, NoSignalDropped
<1> QED
  BY <1>1, <1>2, <1>3, NotifierInvariance, PTL DEF NotifierSpec

-----------------------------------------------------------------------------
(***************************************************************************)
(* The backlog of the store.                                               *)
(***************************************************************************)

\* The active deliveries BacklogExceededOnlyByReplay counts.
Unreplayed == {d \in ActiveSet : replay_audits[d] = {}}

\* The count of the admission query is defined, and bounds the deliveries that were
\* never replayed.
BacklogInv == IsFiniteSet(ActiveSet) /\ BacklogExceededOnlyByReplay

\* Submit adds one delivery to fewer than BacklogLimit, Replay adds one with an audit,
\* and every other operation adds none.
LEMMA BacklogStaysBounded == IInv /\ BacklogInv /\ [Next]_vars => BacklogInv'
<1> SUFFICES ASSUME IInv, BacklogInv, [Next]_vars PROVE BacklogInv'
  BY Zenon
<1>1. deliveries \in [Delivery -> DeliveryRow] /\ BacklogLimit \in Nat
  BY LimitAssumption, Zenon DEF IInv, TypeOK
<1>2. /\ IsFiniteSet(ActiveSet) /\ IsFiniteSet(Unreplayed)
      /\ Cardinality(Unreplayed) <= Cardinality(ActiveSet)
      /\ Cardinality(ActiveSet) \in Nat /\ Cardinality(Unreplayed) \in Nat
      /\ Cardinality(Unreplayed) <= BacklogLimit
  BY FS_Subset, FS_CardinalityType, Zenon DEF BacklogInv, Unreplayed, BacklogExceededOnlyByReplay
<1>3. ASSUME IsFiniteSet(ActiveSet'), Unreplayed' \subseteq Unreplayed
      PROVE  BacklogInv'
  <2>1. Cardinality(Unreplayed') <= Cardinality(Unreplayed) /\ Cardinality(Unreplayed') \in Nat
    BY <1>2, <1>3, FS_Subset, FS_CardinalityType, Zenon
  <2>2. Cardinality(Unreplayed') <= BacklogLimit
    BY <1>1, <1>2, <2>1, WithinLimit, Zenon
  <2> QED
    BY <1>3, <2>2, Zenon DEF BacklogInv, Unreplayed, BacklogExceededOnlyByReplay
<1>4. ASSUME NEW d \in Delivery, NEW k \in Key, NEW t \in Recent, Submit(d, k, t)
      PROVE  BacklogInv'
  <2>1. /\ deliveries'[d].status = "pending"
        /\ \A e \in Delivery : e # d => deliveries'[e] = deliveries[e]
        /\ UNCHANGED replay_audits
        /\ deliveries[d].status = "absent"
        /\ Cardinality(ActiveSet) < BacklogLimit
    BY <1>1, <1>4, Zenon DEF Submit, BacklogHasRoom
  <2>2. ActiveSet' = ActiveSet \cup {d}
    BY <2>1, Zenon DEF ActiveSet, Active
  <2>3. Unreplayed' \subseteq Unreplayed \cup {d} /\ d \notin Unreplayed
    BY <2>1, <2>2, Zenon DEF Unreplayed, ActiveSet, Active
  <2>4. /\ IsFiniteSet(ActiveSet') /\ IsFiniteSet(Unreplayed \cup {d})
        /\ Cardinality(Unreplayed \cup {d}) = Cardinality(Unreplayed) + 1
    BY <1>2, <2>2, <2>3, FS_AddElement, Zenon
  <2>5. Cardinality(Unreplayed') <= Cardinality(Unreplayed \cup {d})
        /\ Cardinality(Unreplayed') \in Nat /\ Cardinality(Unreplayed \cup {d}) \in Nat
    BY <2>3, <2>4, FS_Subset, FS_CardinalityType, Zenon
  <2>6. Cardinality(Unreplayed') <= BacklogLimit
    BY <1>1, <1>2, <2>1, <2>4, <2>5, WithinLimit, Zenon
  <2> QED
    BY <2>4, <2>6, Zenon DEF BacklogInv, Unreplayed, BacklogExceededOnlyByReplay
<1>5. ASSUME NEW d \in Delivery, NEW t \in Recent, Replay(d, t)
      PROVE  BacklogInv'
  <2>1. /\ \A e \in Delivery : e # d => /\ deliveries'[e] = deliveries[e]
                                        /\ replay_audits'[e] = replay_audits[e]
        /\ replay_audits'[d] # {}
    BY <1>1, <1>5, Zenon DEF Replay, IInv, TypeOK
  <2>2. ActiveSet' \subseteq ActiveSet \cup {d} /\ Unreplayed' \subseteq Unreplayed
    BY <2>1, Zenon DEF ActiveSet, Unreplayed
  <2>3. IsFiniteSet(ActiveSet')
    BY <1>2, <2>2, FS_AddElement, FS_Subset, Zenon
  <2> QED
    BY <1>3, <2>2, <2>3, Zenon
<1>6. ASSUME \A d \in Delivery : RowKept(d)
      PROVE  BacklogInv'
  <2>1. ActiveSet' \subseteq ActiveSet
    BY <1>6, Zenon DEF RowKept, ActiveSet, Live, Active, Status
  <2>2. Unreplayed' \subseteq Unreplayed
    BY <1>6, <2>1, Zenon DEF RowKept, Unreplayed, ActiveSet, Live, Active, Status
  <2>3. IsFiniteSet(ActiveSet')
    BY <1>2, <2>1, FS_Subset, Zenon
  <2> QED
    BY <1>3, <2>2, <2>3, Zenon
<1> QED
  BY <1>4, <1>5, <1>6, RowsKept, Zenon

\* The backlog limit of Submit holds for all that was not replayed.
THEOREM BacklogBounded == Spec => []BacklogExceededOnlyByReplay
<1>1. Init => BacklogInv
  <2>1. Init => ActiveSet = {}
    BY MissingRow, Zenon DEF Init, ActiveSet, Active, Missing
  <2>2. ActiveSet = {} => BacklogInv
    BY FS_EmptySet, LimitAssumption DEF BacklogInv, BacklogExceededOnlyByReplay
  <2> QED
    BY <2>1, <2>2, Zenon
<1>2. BacklogInv => BacklogExceededOnlyByReplay
  BY Zenon DEF BacklogInv
<1> QED
  BY <1>1, <1>2, BacklogStaysBounded, Invariance, PTL DEF Spec

=============================================================================
