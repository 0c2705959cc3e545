---------------------------- MODULE SignalBroker ----------------------------
(***************************************************************************)
(* RabbitBroker: one AMQP channel in confirm mode, shared by goroutines.   *)
(*                                                                         *)
(* publishSignal publishes a message and waits in a select for what comes  *)
(* back.  It does not look at delivery tags: it takes whatever lies in the *)
(* confirms or returns channel, so what an earlier call left there counts  *)
(* for the next one.  The mutex makes calls follow one another; it does    *)
(* not keep their answers apart.                                           *)
(*                                                                         *)
(* The Outbox Publisher has a broker to itself (one caller); the consumer  *)
(* shares its deferrer among all its goroutines (several callers).  Either *)
(* way a failing call ends the use of the broker: runPublisher leaves its  *)
(* loop, Run cancels runContext and waits for the other goroutines.  Then  *)
(* the broker is closed and a new one connects.                            *)
(*                                                                         *)
(* RabbitMQ and the AMQP client library are external: frames arrive in     *)
(* order, and one reader goroutine hands them to the two Go channels.      *)
(***************************************************************************)
EXTENDS Naturals, Sequences, FiniteSets

CONSTANTS
  Caller,       \* goroutines that use the broker
  Nobody,       \* holds the mutex when no caller does
  MaxMessages   \* bound: messages published

ASSUME CallerAssumption == Nobody \notin Caller
ASSUME MessageAssumption == MaxMessages \in Nat

VARIABLES
  callers,     \* callers[c]: where the goroutine is, and the tag of its message
  mu,          \* the caller that holds the mutex
  ending,      \* runContext is cancelled, or runPublisher is leaving its loop
  connection,  \* state of connection and channel
  published,   \* delivery tags used so far
  toBroker,    \* what is on its way to RabbitMQ
  frames,      \* what is on its way back, not yet read
  confirms,    \* the buffered Go channel of confirmations
  returns,     \* the buffered Go channel of returned messages
  routable,    \* the queue the messages are for exists
  stored,      \* the tags of the messages RabbitMQ put into the queue
  failed,      \* a call on this connection has returned an error
  reported     \* the calls that returned nil: tag, and whether failed held

brokerVars ==
  <<callers, mu, ending, connection, published, toBroker, frames, confirms, returns,
   routable, stored, failed, reported>>

-----------------------------------------------------------------------------
Idle == [pc |-> "idle", tag |-> 0]

\* Mutant: the Go channels are unbuffered and nobody listens.
NoCapacity == 0

\* make(chan amqp.Confirmation, 1) and make(chan amqp.Return, 1)
Capacity == 1

\* What RabbitMQ sends: a return, an ack, a nack, or its answer to close.
AFrame(kind, tag) == [kind |-> kind, tag |-> tag]

BrokerInit ==
  /\ callers = [c \in Caller |-> Idle]
  /\ mu = Nobody
  /\ ending = FALSE
  /\ connection = "open"
  /\ published = 0
  /\ toBroker = <<>>
  /\ frames = <<>>
  /\ confirms = <<>>
  /\ returns = <<>>
  /\ routable = TRUE
  /\ stored = {}
  /\ failed = FALSE
  /\ reported = {}

-----------------------------------------------------------------------------
(***************************************************************************)
(* publishSignal.                                                          *)
(***************************************************************************)

\* The call publishes and enters the select, holding the mutex.
Publishes(c) ==
  /\ callers[c].pc = "idle"
  /\ mu = Nobody
  /\ connection = "open"
  /\ published < MaxMessages
  /\ mu' = c
  /\ published' = published + 1
  /\ callers' = [callers EXCEPT ![c] = [pc |-> "waiting", tag |-> published + 1]]
  /\ toBroker' = Append(toBroker, published + 1)
  /\ UNCHANGED <<ending, connection, frames, confirms, returns, routable, stored,
                 failed, reported>>

\* PublishWithContext fails: the connection is gone, or the library honours a
\* cancelled context.
PublishFails(c) ==
  /\ callers[c].pc = "idle"
  /\ mu = Nobody
  /\ connection = "lost" \/ (connection = "open" /\ ending)
  /\ callers' = [callers EXCEPT ![c].pc = "failing"]
  /\ failed' = TRUE
  /\ UNCHANGED <<mu, ending, connection, published, toBroker, frames, confirms, returns,
                 routable, stored, reported>>

\* The call in the select returns, and its deferred Unlock runs.
ReturnsError(c) ==
  /\ callers' = [callers EXCEPT ![c].pc = "failing"]
  /\ mu' = Nobody
  /\ failed' = TRUE
  /\ UNCHANGED reported

ReturnsNil(c) ==
  /\ callers' = [callers EXCEPT ![c] = Idle]
  /\ mu' = Nobody
  /\ reported' = reported \cup {[tag |-> callers[c].tag, failed |-> failed]}
  /\ UNCHANGED failed

TakesReturn(c) ==
  /\ callers[c].pc = "waiting"
  /\ connection = "open"
  /\ returns # <<>>
  /\ returns' = Tail(returns)
  /\ ReturnsError(c)
  /\ UNCHANGED <<ending, connection, published, toBroker, frames, confirms, routable, stored>>

\* Mutant: any confirmation will do.
TakesAnyConfirm(c) ==
  /\ callers[c].pc = "waiting"
  /\ connection = "open"
  /\ confirms # <<>>
  /\ confirms' = Tail(confirms)
  /\ IF returns # <<>> THEN ReturnsError(c) ELSE ReturnsNil(c)
  /\ returns' = IF returns # <<>> THEN Tail(returns) ELSE returns
  /\ UNCHANGED <<ending, connection, published, toBroker, frames, routable, stored>>

\* An acknowledgement counts unless a returned message lies beside it.
TakesConfirm(c) ==
  /\ callers[c].pc = "waiting"
  /\ connection = "open"
  /\ confirms # <<>>
  /\ confirms' = Tail(confirms)
  /\ \/ /\ Head(confirms).kind = "nack"
        /\ ReturnsError(c)
        /\ UNCHANGED returns
     \/ /\ Head(confirms).kind = "ack"
        /\ returns # <<>>
        /\ returns' = Tail(returns)
        /\ ReturnsError(c)
     \/ /\ Head(confirms).kind = "ack"
        /\ returns = <<>>
        /\ ReturnsNil(c)
        /\ UNCHANGED returns
  /\ UNCHANGED <<ending, connection, published, toBroker, frames, routable, stored>>

\* ctx.Done(): the answer to this message is left for whoever comes next.
TakesCancellation(c) ==
  /\ callers[c].pc = "waiting"
  /\ ending
  /\ ReturnsError(c)
  /\ UNCHANGED <<ending, connection, published, toBroker, frames, confirms, returns,
                 routable, stored>>

\* The library closes both Go channels: every arm of the two selects that can be
\* taken from then on returns an error.
SeesClosedChannel(c) ==
  /\ callers[c].pc = "waiting"
  /\ connection = "lost"
  /\ ReturnsError(c)
  /\ UNCHANGED <<ending, connection, published, toBroker, frames, confirms, returns,
                 routable, stored>>

-----------------------------------------------------------------------------
(***************************************************************************)
(* The callers' error paths: releaseRemaining and break in runPublisher,   *)
(* nack, failure and cancel in Run; then Close and a new connection.       *)
(***************************************************************************)

Fails(c) ==
  /\ callers[c].pc = "failing"
  /\ callers' = [callers EXCEPT ![c].pc = "stopped"]
  /\ ending' = TRUE
  /\ UNCHANGED <<mu, connection, published, toBroker, frames, confirms, returns, routable,
                 stored, failed, reported>>

\* A goroutine fails elsewhere (in Process, in Ack), or the process shuts down.
Interrupted ==
  /\ ~ending
  /\ ending' = TRUE
  /\ UNCHANGED <<callers, mu, connection, published, toBroker, frames, confirms, returns,
                routable, stored, failed, reported>>

\* group.Wait is over.  Channel.Close sends its request after all that was published
\* and waits for the answer.
Closes ==
  /\ ending
  /\ \A c \in Caller : callers[c].pc \in {"idle", "stopped"}
  /\ \/ /\ connection = "open"
        /\ connection' = "closing"
        /\ toBroker' = Append(toBroker, 0)
     \/ /\ connection = "lost"
        /\ connection' = "closed"
        /\ UNCHANGED toBroker
  /\ UNCHANGED <<callers, mu, ending, published, frames, confirms, returns, routable, stored,
                 failed, reported>>

\* NewRabbitBroker: new channels, and declareTopology declares every queue again.
\* Tags go on, so that every message has a name of its own.
Connects ==
  /\ connection = "closed"
  /\ callers' = [c \in Caller |-> Idle]
  /\ ending' = FALSE
  /\ connection' = "open"
  /\ toBroker' = <<>>
  /\ frames' = <<>>
  /\ confirms' = <<>>
  /\ returns' = <<>>
  /\ routable' = TRUE
  /\ failed' = FALSE
  /\ UNCHANGED <<mu, published, stored, reported>>

-----------------------------------------------------------------------------
(***************************************************************************)
(* RabbitMQ and the client library (external).                             *)
(***************************************************************************)

\* A mandatory message without a queue is returned and then acknowledged.
BrokerAnswers ==
  /\ toBroker # <<>>
  /\ connection \in {"open", "closing"}
  /\ toBroker' = Tail(toBroker)
  /\ LET tag == Head(toBroker)
     IN  \/ /\ tag = 0
            /\ frames' = Append(frames, AFrame("close", 0))
            /\ UNCHANGED stored
         \/ /\ tag # 0 /\ routable
            /\ frames' = Append(frames, AFrame("ack", tag))
            /\ stored' = stored \cup {tag}
         \/ /\ tag # 0 /\ routable
            /\ frames' = Append(frames, AFrame("nack", tag))
            /\ UNCHANGED stored
         \/ /\ tag # 0 /\ ~routable
            /\ frames' = frames \o <<AFrame("return", tag), AFrame("ack", tag)>>
            /\ UNCHANGED stored
  /\ UNCHANGED <<callers, mu, ending, connection, published, confirms, returns, routable,
                 failed, reported>>

\* An operator deletes the queue.
QueueDeleted ==
  /\ routable
  /\ routable' = FALSE
  /\ UNCHANGED <<callers, mu, ending, connection, published, toBroker, frames, confirms,
                 returns, stored, failed, reported>>

\* The reader hands over the next frame; it blocks while the Go channel is full, and
\* nothing behind that frame is read.
Reads ==
  /\ frames # <<>>
  /\ connection \in {"open", "closing"}
  /\ frames' = Tail(frames)
  /\ LET frame == Head(frames)
     IN  \/ /\ frame.kind = "return"
            /\ Len(returns) < Capacity
            /\ returns' = Append(returns, frame)
            /\ UNCHANGED <<confirms, connection>>
         \/ /\ frame.kind \in {"ack", "nack"}
            /\ Len(confirms) < Capacity
            /\ confirms' = Append(confirms, frame)
            /\ UNCHANGED <<returns, connection>>
         \/ /\ frame.kind = "close"
            /\ connection' = "closed"
            /\ UNCHANGED <<confirms, returns>>
  /\ UNCHANGED <<callers, mu, ending, published, toBroker, routable, stored, failed, reported>>

\* The connection breaks: what is under way in either direction is gone.
BrokerLost ==
  /\ connection \in {"open", "closing"}
  /\ connection' = IF connection = "open" THEN "lost" ELSE "closed"
  /\ toBroker' = <<>>
  /\ frames' = <<>>
  /\ UNCHANGED <<callers, mu, ending, published, confirms, returns, routable, stored,
                 failed, reported>>

-----------------------------------------------------------------------------
Selects(c) ==
  \/ TakesReturn(c)
  \/ TakesConfirm(c)
  \/ TakesCancellation(c)
  \/ SeesClosedChannel(c)

BrokerNext ==
  \/ \E c \in Caller : Publishes(c) \/ PublishFails(c) \/ Selects(c) \/ Fails(c)
  \/ Interrupted
  \/ Closes
  \/ Connects
  \/ BrokerAnswers
  \/ QueueDeleted
  \/ Reads
  \/ BrokerLost

BrokerSpec == BrokerInit /\ [][BrokerNext]_brokerVars

\* RabbitMQ answers, the reader reads while it has room, goroutines run, and the loop
\* of runPublisher or runWorker goes on.
FairBrokerSpec ==
  /\ BrokerSpec
  /\ WF_brokerVars(BrokerAnswers)
  /\ WF_brokerVars(Reads)
  /\ \A c \in Caller : WF_brokerVars(Selects(c)) /\ WF_brokerVars(Fails(c))
  /\ WF_brokerVars(Closes)
  /\ WF_brokerVars(Connects)

-----------------------------------------------------------------------------
(***************************************************************************)
(* Properties.                                                             *)
(***************************************************************************)

\* Publish and Defer return nil only for a message that is in its queue, which is what
\* RunOnce relies on to record published_at and processMessage to acknowledge the
\* original: so it is for every call made before the first error on its connection,
\* whatever the goroutines and however answers are delayed.  With one caller, as in
\* the Outbox Publisher, these are all the calls.  After an error nil may mean nothing:
\* Defers of Notifier and SignalConsumer has that outcome.
NilMeansStored == \A r \in reported : ~r.failed => r.tag \in stored

FailedCallers == {c \in Caller : callers[c].pc \in {"failing", "stopped"}}

\* A broker whose use has ended is replaced: Close returns and the loop connects again,
\* provided that at most one goroutine's call failed, as it is in the Outbox Publisher.
OneFailureEndsWithReconnect ==
  ending ~> \/ connection = "open" /\ ~ending
            \/ Cardinality(FailedCallers) > 1

\* The same of a deferral broker whose callers give up one after the other: runWorker
\* gets to connect again after a failure.
EndsWithReconnect == ending ~> connection = "open" /\ ~ending

-----------------------------------------------------------------------------
(***************************************************************************)
(* The inductive invariant of NilMeansStored.                              *)
(***************************************************************************)

\* Nothing under way, in either direction or in the Go channels.
Silent == toBroker = <<>> /\ frames = <<>> /\ confirms = <<>> /\ returns = <<>>

\* RabbitMQ has answered message t, and the answer lies wherever it got to: it is stored
\* and acknowledged, it is refused, or it was returned before it is acknowledged.
AnswerOf(t) ==
  /\ toBroker = <<>>
  /\ \/ /\ t \in stored /\ returns = <<>>
        /\ \/ frames = <<AFrame("ack", t)>> /\ confirms = <<>>
           \/ frames = <<>> /\ confirms = <<AFrame("ack", t)>>
     \/ /\ returns = <<>>
        /\ \/ frames = <<AFrame("nack", t)>> /\ confirms = <<>>
           \/ frames = <<>> /\ confirms = <<AFrame("nack", t)>>
     \/ /\ frames = <<AFrame("return", t), AFrame("ack", t)>>
        /\ confirms = <<>> /\ returns = <<>>
     \/ /\ returns = <<AFrame("return", t)>>
        /\ \/ frames = <<AFrame("ack", t)>> /\ confirms = <<>>
           \/ frames = <<>> /\ confirms = <<AFrame("ack", t)>>

\* Message t is under way, and nothing else is.
OnlyMessage(t) ==
  \/ /\ toBroker = <<t>>
     /\ frames = <<>> /\ confirms = <<>> /\ returns = <<>>
  \/ AnswerOf(t)

\* Whoever waits in the select holds the mutex, and a broker is closed when nobody does.
Control ==
  /\ callers \in [Caller -> [pc : {"idle", "waiting", "failing", "stopped"}, tag : Nat]]
  /\ published \in Nat
  /\ \A c \in Caller : /\ callers[c].pc = "waiting" <=> mu = c
                       /\ callers[c].pc = "waiting" => callers[c].tag # 0
  /\ mu \in Caller \cup {Nobody}
  /\ connection \in {"closing", "closed"} => mu = Nobody

\* Until a call fails, no answer is left behind for the next call.
UnderWay ==
  connection = "open" /\ ~failed =>
    IF mu = Nobody THEN Silent ELSE OnlyMessage(callers[mu].tag)

\* No request to close is sent, and none answered, on a connection still in use.
Frame == [kind : {"ack", "nack", "return"}, tag : Nat]

InUse == connection = "open" => toBroker \in Seq(Nat \ {0}) /\ frames \in Seq(Frame)

BrokerInv == Control /\ UnderWay /\ InUse /\ NilMeansStored

=============================================================================
