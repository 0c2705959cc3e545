--------------------------- MODULE SignalConsumer ---------------------------
(***************************************************************************)
(* RabbitConsumer.Run and processMessage: one goroutine per message, at    *)
(* most Prefetch of them, that decode and check a message, hand it to      *)
(* Process, and settle it with the broker once.                            *)
(*                                                                         *)
(* Notifier follows well-formed signals through the store.  Here the store *)
(* is only what Process answers, and the messages may be anything: the     *)
(* questions are where each message ends up, and whether Run ever returns  *)
(* when calls fail all around it.                                          *)
(***************************************************************************)
EXTENDS Naturals, FiniteSets

CONSTANTS
  Malformed,   \* messages decodeSignal or Validate rejects
  Busy,        \* signals of a destination that never has a permit to give
  Prompt,      \* signals of a destination that has
  NULL,
  Prefetch,    \* channel.Qos(8, 0, false)
  MaxFaults    \* bound: failed calls, lost connections

Message == Malformed \cup Busy \cup Prompt
Goroutine == 1..Prefetch

ASSUME ConsumerAssumption ==
  /\ Prefetch \in Nat \ {0}
  /\ MaxFaults \in Nat
  /\ NULL \notin Message
  /\ Malformed \cap (Busy \cup Prompt) = {} /\ Busy \cap Prompt = {}

VARIABLES
  ready,      \* ready[m]: copies in the dispatch queue
  deferred,   \* deferred[m]: copies in the deferral queue
  dead,       \* the messages in the dead-letter queue
  finished,   \* the signals Process is done with
  tasks,      \* tasks[g]: the goroutine's message and place in processMessage
  failures,   \* errors in the channel made for one
  cancelled,  \* runContext is cancelled
  run,        \* running, in its deferred group.Wait, or returned
  channel,    \* the AMQP channel the messages came from
  unread,     \* confirmations of the deferrer that Defers left behind; 2 stands for more
  dropped,    \* ghost: signals whose Defer returned nil without a copy in the queue
  faults

vars == <<ready, deferred, dead, finished, tasks, failures, cancelled, run, channel, unread,
          dropped, faults>>

NoTask == [pc |-> "none", message |-> NULL]
Held(m) == {g \in Goroutine : tasks[g].message = m}
Free == {g \in Goroutine : tasks[g] = NoTask}
Fault == faults < MaxFaults /\ faults' = faults + 1

Init ==
  /\ ready = [m \in Message |-> 1]
  /\ deferred = [m \in Message |-> 0]
  /\ dead = {}
  /\ finished = {}
  /\ tasks = [g \in Goroutine |-> NoTask]
  /\ failures = 0
  /\ cancelled = FALSE
  /\ run = "running"
  /\ channel = "open"
  /\ unread = 0
  /\ dropped = {}
  /\ faults = 0

-----------------------------------------------------------------------------
(***************************************************************************)
(* processMessage.                                                         *)
(***************************************************************************)

Goto(g, pc) == tasks' = [tasks EXCEPT ![g].pc = pc]

\* Mutant: a message that cannot be read goes back to its queue.
RequeuesPoison(m) == IF m \in Malformed THEN "requeue" ELSE "process"

\* decodeSignal and Validate, which touch nothing but the message.
Decodes(m) == IF m \in Malformed THEN "reject" ELSE "process"

\* Goroutines are alike: a message starts the first that is free.
Receives(m) ==
  /\ run = "running"
  /\ channel = "open"
  /\ ready[m] > 0
  /\ Free # {}
  /\ ready' = [ready EXCEPT ![m] = @ - 1]
  /\ LET g == CHOOSE g \in Free : \A h \in Free : g <= h
     IN  tasks' = [tasks EXCEPT ![g] = [pc |-> Decodes(m), message |-> m]]
  /\ UNCHANGED <<deferred, dead, finished, failures, cancelled, run, channel, unread,
                 dropped, faults>>

\* Mutant: without a permit Process waits for one.
ProcessesPrompt(g) ==
  /\ tasks[g].pc = "process"
  /\ ~cancelled
  /\ tasks[g].message \in Prompt
  /\ finished' = finished \cup {tasks[g].message}
  /\ Goto(g, "ack")
  /\ UNCHANGED <<ready, deferred, dead, failures, cancelled, run, channel, unread,
                 dropped, faults>>

\* Process returned true, or false for want of a permit; its calls of the store fail once
\* their context is cancelled.
Processes(g) ==
  /\ tasks[g].pc = "process"
  /\ ~cancelled
  /\ IF tasks[g].message \in Prompt
     THEN /\ finished' = finished \cup {tasks[g].message}
          /\ Goto(g, "ack")
     ELSE /\ Goto(g, "defer")
          /\ UNCHANGED finished
  /\ UNCHANGED <<ready, deferred, dead, failures, cancelled, run, channel, unread,
                 dropped, faults>>

\* Process failed, or saw the cancelled context.
ProcessFails(g) ==
  /\ tasks[g].pc = "process"
  /\ IF cancelled THEN UNCHANGED faults ELSE Fault
  /\ Goto(g, "requeue")
  /\ UNCHANGED <<ready, deferred, dead, finished, failures, cancelled, run, channel,
                 unread, dropped>>

Stores(m) == deferred' = [deferred EXCEPT ![m] = @ + 1]

\* Defer returned nil.  publishSignal compares no delivery tags: once another goroutine's
\* Defer has left its confirmation behind, that one may answer this Defer before its own
\* message is stored, and the message may never be.  Its own confirmation is then the one
\* left behind.
Defers(g) ==
  LET m == tasks[g].message
  IN  /\ tasks[g].pc = "defer"
      /\ \/ Stores(m) /\ UNCHANGED dropped
         \/ unread > 0 /\ dropped' = dropped \cup {m} /\ UNCHANGED deferred
      /\ Goto(g, "ack")
      /\ UNCHANGED <<ready, dead, finished, failures, cancelled, run, channel, unread, faults>>

\* Defer failed, or its context was cancelled; the broker may store the copy even so.
\* Leaving on ctx.Done or with a returned message, it does not take its confirmation.
DeferFails(g) ==
  /\ tasks[g].pc = "defer"
  /\ IF cancelled THEN UNCHANGED faults ELSE Fault
  /\ UNCHANGED deferred \/ Stores(tasks[g].message)
  /\ unread' = unread \/ unread' = (IF unread < 2 THEN unread + 1 ELSE 2)
  /\ Goto(g, "requeue")
  /\ UNCHANGED <<ready, dead, finished, failures, cancelled, run, channel, dropped>>

Acks(g) ==
  /\ tasks[g].pc = "ack"
  /\ channel = "open"
  /\ tasks' = [tasks EXCEPT ![g] = NoTask]
  /\ UNCHANGED <<ready, deferred, dead, finished, failures, cancelled, run, channel,
                 unread, dropped, faults>>

\* Nack(false, false): the queue dead-letters the message.
Rejects(g) ==
  /\ tasks[g].pc = "reject"
  /\ channel = "open"
  /\ dead' = dead \cup {tasks[g].message}
  /\ tasks' = [tasks EXCEPT ![g] = NoTask]
  /\ UNCHANGED <<ready, deferred, finished, failures, cancelled, run, channel, unread,
                 dropped, faults>>

\* Mutant: a signal that could not be processed is dead-lettered.
RequeuesToDeadLetters(g) ==
  /\ tasks[g].pc = "requeue"
  /\ channel = "open"
  /\ dead' = dead \cup {tasks[g].message}
  /\ tasks' = [tasks EXCEPT ![g] = [pc |-> "failed", message |-> NULL]]
  /\ UNCHANGED <<ready, deferred, finished, failures, cancelled, run, channel, unread,
                 dropped, faults>>

\* Nack(false, true), and then the error is returned all the same.
Requeues(g) ==
  /\ tasks[g].pc = "requeue"
  /\ channel = "open"
  /\ ready' = [ready EXCEPT ![tasks[g].message] = @ + 1]
  /\ tasks' = [tasks EXCEPT ![g] = [pc |-> "failed", message |-> NULL]]
  /\ UNCHANGED <<deferred, dead, finished, failures, cancelled, run, channel, unread,
                 dropped, faults>>

\* Ack or Nack on a lost channel is an error; the broker has requeued the message.
SettleFails(g) ==
  /\ tasks[g].pc \in {"ack", "reject", "requeue"}
  /\ channel = "lost"
  /\ tasks' = [tasks EXCEPT ![g] = [pc |-> "failed", message |-> NULL]]
  /\ UNCHANGED <<ready, deferred, dead, finished, failures, cancelled, run, channel,
                 unread, dropped, faults>>

-----------------------------------------------------------------------------
(***************************************************************************)
(* Run.                                                                    *)
(***************************************************************************)

\* Mutant: a goroutine waits until its error is taken.
ReportsAndWaits(g) ==
  /\ tasks[g].pc = "failed"
  /\ failures = 0
  /\ failures' = 1
  /\ cancelled' = TRUE
  /\ tasks' = [tasks EXCEPT ![g] = NoTask]
  /\ UNCHANGED <<ready, deferred, dead, finished, run, channel, unread, dropped, faults>>

\* failures <- err with a default: only the goroutine that gets its error in cancels.
Reports(g) ==
  /\ tasks[g].pc = "failed"
  /\ IF failures = 0 THEN failures' = 1 /\ cancelled' = TRUE
                     ELSE UNCHANGED <<failures, cancelled>>
  /\ tasks' = [tasks EXCEPT ![g] = NoTask]
  /\ UNCHANGED <<ready, deferred, dead, finished, run, channel, unread, dropped, faults>>

\* Run leaves its select: with an error of a goroutine, or because messages is closed.
Leaves ==
  /\ run = "running"
  /\ \/ failures = 1 /\ failures' = 0
     \/ channel = "lost" /\ UNCHANGED failures
  /\ run' = "waiting"
  /\ cancelled' = TRUE
  /\ UNCHANGED <<ready, deferred, dead, finished, tasks, channel, unread, dropped, faults>>

\* group.Wait is over, and Run returns to runWorker.
WaitEnds ==
  /\ run = "waiting"
  /\ \A g \in Goroutine : tasks[g] = NoTask
  /\ run' = "returned"
  /\ UNCHANGED <<ready, deferred, dead, finished, tasks, failures, cancelled, channel, unread,
                 dropped, faults>>

\* RabbitConsumer.Close closes the deferrer first.  Of the confirmations nobody took one
\* fits the buffer of confirms; the next blocks the library's reader, and Close with it
\* (run resumes of SignalBroker).
CloseBlocked == run = "returned" /\ unread > 1

\* runWorker closes the consumer, waits a second and connects a new one; it tries again
\* until RabbitMQ accepts it.
Restarts ==
  /\ run = "returned"
  /\ ~CloseBlocked
  /\ run' = "running"
  /\ failures' = 0
  /\ cancelled' = FALSE
  /\ channel' = "open"
  /\ unread' = 0
  /\ UNCHANGED <<ready, deferred, dead, finished, tasks, dropped, faults>>

(***************************************************************************)
(* RabbitMQ (external).                                                    *)
(***************************************************************************)

\* All that is unacknowledged is ready again, though its goroutines go on.
ConnectionLost ==
  /\ Fault
  /\ channel = "open"
  /\ channel' = "lost"
  /\ ready' = [m \in Message |-> ready[m] + Cardinality(Held(m))]
  /\ UNCHANGED <<deferred, dead, finished, tasks, failures, cancelled, run, unread,
                 dropped>>

\* The connection of the deferrer breaks and releases Close; earlier, while Run is running,
\* that only makes Defers fail.  It comes after faults that count, and is not counted.
DeferrerLost ==
  /\ CloseBlocked
  /\ unread' = 0
  /\ UNCHANGED <<ready, deferred, dead, finished, tasks, failures, cancelled, run, channel,
                 dropped, faults>>

DeferralExpires(m) ==
  /\ deferred[m] > 0
  /\ deferred' = [deferred EXCEPT ![m] = @ - 1]
  /\ ready' = [ready EXCEPT ![m] = @ + 1]
  /\ UNCHANGED <<dead, finished, tasks, failures, cancelled, run, channel, unread,
                 dropped, faults>>

-----------------------------------------------------------------------------
TaskNext(g) ==
  \/ Processes(g) \/ Defers(g)
  \/ cancelled /\ ProcessFails(g)
  \/ Acks(g) \/ Rejects(g) \/ Requeues(g) \/ SettleFails(g)
  \/ Reports(g)

Next ==
  \/ \E g \in Goroutine :
       \/ TaskNext(g)
       \/ ~cancelled /\ ProcessFails(g)
       \/ DeferFails(g)
  \/ \E m \in Message : Receives(m) \/ DeferralExpires(m)
  \/ Leaves
  \/ WaitEnds
  \/ Restarts
  \/ ConnectionLost
  \/ DeferrerLost

Spec == Init /\ [][Next]_vars

\* Goroutines run, Run looks at failures, runWorker goes on when Close lets it and RabbitMQ
\* can be reached, and RabbitMQ delivers every message it has credit for in the end: a
\* queue is served in order, so none is passed over for ever.
FairSpec ==
  /\ Spec
  /\ \A g \in Goroutine : WF_vars(TaskNext(g))
  /\ \A m \in Message : /\ SF_vars(Receives(m))
                        /\ WF_vars(DeferralExpires(m))
  /\ WF_vars(Leaves)
  /\ WF_vars(WaitEnds)
  /\ WF_vars(Restarts)

-----------------------------------------------------------------------------
(***************************************************************************)
(* Properties.                                                             *)
(***************************************************************************)

\* The dead-letter queue gets malformed messages and nothing else, and a signal that is
\* not finished is in a queue or with a goroutine: failed calls, cancellation and lost
\* connections in processMessage make none disappear but by a Defer that took another's
\* confirmation for its own, and as long as no call fails there is no such Defer.
EverySignalKept ==
  /\ dead \subseteq Malformed
  /\ \A m \in (Busy \cup (Prompt \ finished)) \ dropped :
       ready[m] + deferred[m] > 0 \/ Held(m) # {}
  /\ faults = 0 => dropped = {}

\* Close is not blocked for good: at most one confirmation is left behind, or the
\* connection breaks.
CloseReturns == []<>~CloseBlocked

\* A message nobody can read does not stay: it ends in the dead-letter queue, and is
\* not redelivered over and over, provided that Close returns.
PoisonIsRemoved ==
  CloseReturns => \A m \in Malformed : <>[](m \in dead /\ ready[m] = 0 /\ Held(m) = {})

\* Signals of a destination without permits do not use up the consumer's credit: the
\* signals behind them are finished, provided that Close returns.
CreditIsReleased == CloseReturns => \A m \in Prompt : <>(m \in finished)

\* Once a call has failed, Run waits for its goroutines and returns to runWorker, however
\* many others fail at the same time; whether Close then returns is a question of
\* SignalBroker.
RunReturns == cancelled ~> run = "returned"

-----------------------------------------------------------------------------
(***************************************************************************)
(* The inductive invariant of EverySignalKept.                             *)
(***************************************************************************)

TaskState ==
  [pc : {"none", "process", "defer", "ack", "reject", "requeue", "failed"},
   message : Message \cup {NULL}]

TypeOK ==
  /\ ready \in [Message -> Nat]
  /\ deferred \in [Message -> Nat]
  /\ tasks \in [Goroutine -> TaskState]
  /\ channel \in {"open", "lost"}

\* A goroutine has a message until it is done, and rejects what it could not read.
TasksFit ==
  \A g \in Goroutine :
    /\ tasks[g].pc \in {"none", "failed"} \/ tasks[g].message \in Message
    /\ tasks[g].pc = "reject" => tasks[g].message \in Malformed

\* A copy that is not about to be acknowledged: in a queue, or with a goroutine that has
\* yet to decide on it or is about to give it back.  On a lost channel goroutines do not
\* count, as the broker has requeued what they have.
Kept(m) ==
  \/ ready[m] > 0
  \/ deferred[m] > 0
  \/ /\ channel = "open"
     /\ \E g \in Goroutine : /\ tasks[g].message = m
                             /\ tasks[g].pc \in {"process", "defer", "requeue"}

\* Until a call fails or the connection is lost no goroutine and no Run is on an error
\* path, and no confirmation is left behind.
NothingFailedYet ==
  /\ ~cancelled /\ failures = 0 /\ run = "running" /\ channel = "open"
  /\ unread = 0 /\ dropped = {}
  /\ \A g \in Goroutine : tasks[g].pc \notin {"requeue", "failed"}

\* Run returns when its goroutines are done.
RunInv ==
  /\ faults \in Nat
  /\ faults = 0 => NothingFailedYet
  /\ run = "returned" => \A g \in Goroutine : tasks[g] = NoTask

ConsumerInv ==
  /\ TypeOK
  /\ TasksFit
  /\ dead \subseteq Malformed
  /\ \A m \in (Busy \cup (Prompt \ finished)) \ dropped : Kept(m)

=============================================================================
