---------------------------- MODULE RabbitProofs ----------------------------
(***************************************************************************)
(* The two halves of the RabbitMQ client: what publishSignal's nil means   *)
(* (SignalBroker), and that processMessage loses no signal                 *)
(* (SignalConsumer).                                                       *)
(***************************************************************************)
EXTENDS SignalBroker, SignalConsumer, FiniteSetTheorems, WellFoundedInduction, TLAPS

-----------------------------------------------------------------------------
(***************************************************************************)
(* publishSignal, for every number of callers and of messages, and         *)
(* whatever is returned, refused, delayed or cut off.                      *)
(***************************************************************************)

\* A caller that waits has a tag, and holds the mutex.
LEMMA Waits ==
  ASSUME Control, NEW c \in Caller, callers[c].pc = "waiting"
  PROVE  mu = c /\ mu # Nobody /\ callers[c].tag \in Nat \ {0}
BY CallerAssumption, Zenon DEF Control

\* A call publishes: its message is the only one under way.
LEMMA PublishesInv ==
  ASSUME BrokerInv, NEW c \in Caller, Publishes(c)
  PROVE  BrokerInv'
<1> DEFINE state == [pc |-> "waiting", tag |-> published + 1]
<1>1. /\ callers \in [Caller -> [pc : {"idle", "waiting", "failing", "stopped"}, tag : Nat]]
      /\ published \in Nat /\ mu = Nobody /\ connection = "open"
      /\ mu' = c /\ published' = published + 1
      /\ callers' = [callers EXCEPT ![c] = state]
      /\ UNCHANGED <<connection, frames, confirms, returns, stored, failed, reported>>
  BY Zenon DEF BrokerInv, Control, Publishes
<1>2. /\ callers' \in [Caller -> [pc : {"idle", "waiting", "failing", "stopped"}, tag : Nat]]
      /\ callers'[c].pc = "waiting" /\ callers'[c].tag = published + 1
      /\ \A b \in Caller : b # c => callers'[b] = callers[b]
  BY <1>1
<1>3. \A b \in Caller : callers[b].pc # "waiting"
  BY <1>1, CallerAssumption, Zenon DEF BrokerInv, Control
<1>4. Control'
  BY <1>1, <1>2, <1>3 DEF Control
<1>5. UnderWay'
  <2> SUFFICES ASSUME ~failed'
               PROVE  OnlyMessage(callers[mu].tag)'
    BY <1>1, CallerAssumption, Zenon DEF UnderWay
  <2>1. Silent
    BY <1>1, Zenon DEF BrokerInv, UnderWay
  <2>2. toBroker' = <<published + 1>>
    BY <2>1 DEF Publishes, Silent
  <2> QED
    BY <1>1, <1>2, <2>1, <2>2, Zenon DEF Silent, OnlyMessage
<1>6. NilMeansStored'
  BY <1>1, Zenon DEF BrokerInv, NilMeansStored
<1>7. InUse'
  BY <1>1 DEF Publishes, BrokerInv, InUse
<1> QED
  BY <1>4, <1>5, <1>6, <1>7, Zenon DEF BrokerInv

\* A call fails: from now on nothing is claimed of this connection.
LEMMA FailingInv ==
  ASSUME BrokerInv, NEW c \in Caller, callers' = [callers EXCEPT ![c].pc = "failing"],
         failed' = TRUE, mu' = Nobody, mu \in {Nobody, c},
         UNCHANGED <<published, connection, toBroker, frames, stored, reported>>
  PROVE  BrokerInv'
<1>1. callers \in [Caller -> [pc : {"idle", "waiting", "failing", "stopped"}, tag : Nat]]
  BY Zenon DEF BrokerInv, Control
<1>2. /\ callers' \in [Caller -> [pc : {"idle", "waiting", "failing", "stopped"}, tag : Nat]]
      /\ callers'[c].pc = "failing"
      /\ \A b \in Caller : b # c => callers'[b] = callers[b]
  BY <1>1, Zenon
<1>3. \A b \in Caller : callers'[b].pc # "waiting"
  BY <1>2, CallerAssumption DEF BrokerInv, Control
<1>4. Control'
  BY <1>2, <1>3, CallerAssumption, Zenon DEF BrokerInv, Control
<1> QED
  BY <1>4, Zenon DEF BrokerInv, UnderWay, InUse, NilMeansStored

\* Every arm of the select but one returns an error.
LEMMA SelectFailsInv ==
  ASSUME BrokerInv, NEW c \in Caller, callers[c].pc = "waiting", ReturnsError(c),
         UNCHANGED <<published, connection, toBroker, frames, stored>>
  PROVE  BrokerInv'
<1>1. mu \in {Nobody, c}
  BY Waits, Zenon DEF BrokerInv
<1>2. callers' = [callers EXCEPT ![c].pc = "failing"] /\ mu' = Nobody /\ UNCHANGED reported
  BY Zenon DEF ReturnsError
<1>3. failed' = TRUE
  BY Zenon DEF ReturnsError
<1>4. UNCHANGED <<published, connection, toBroker, frames, stored, reported>>
  BY <1>2, Zenon
<1> QED
  BY <1>1, <1>2, <1>3, <1>4, FailingInv, Zenon

\* An acknowledgement with no return beside it is that of the caller's own message, and
\* RabbitMQ has stored that message; nothing is left for the next call.
LEMMA OwnConfirm ==
  ASSUME NEW t, OnlyMessage(t), confirms # <<>>, Head(confirms).kind = "ack", returns = <<>>
  PROVE  t \in stored /\ toBroker = <<>> /\ frames = <<>> /\ Tail(confirms) = <<>>
<1>1. \A kind : Head(<<AFrame(kind, t)>>).kind = kind
  BY DEF AFrame
<1>2. confirms = <<AFrame("ack", t)>> \/ confirms = <<AFrame("nack", t)>>
  BY Zenon DEF OnlyMessage, AnswerOf
<1>3. confirms = <<AFrame("ack", t)>>
  BY <1>1, <1>2, Zenon
<1>4. AFrame("ack", t) # AFrame("nack", t)
  BY Zenon DEF AFrame
<1>5. confirms # <<AFrame("nack", t)>>
  BY <1>3, <1>4, Zenon
<1>6. returns # <<AFrame("return", t)>>
  BY Zenon
<1>7. t \in stored /\ toBroker = <<>> /\ frames = <<>>
  BY <1>3, <1>5, <1>6, Zenon DEF OnlyMessage, AnswerOf
<1> QED
  BY <1>3, <1>7

\* The select takes a confirmation.
LEMMA TakesConfirmInv ==
  ASSUME BrokerInv, NEW c \in Caller, TakesConfirm(c)
  PROVE  BrokerInv'
<1>1. /\ callers[c].pc = "waiting" /\ connection = "open" /\ confirms # <<>>
      /\ confirms' = Tail(confirms)
      /\ UNCHANGED <<connection, published, toBroker, frames, stored>>
  BY Zenon DEF TakesConfirm
<1>2. CASE ReturnsError(c)
  BY <1>1, <1>2, SelectFailsInv
<1>3. CASE /\ Head(confirms).kind = "ack" /\ returns = <<>>
           /\ ReturnsNil(c) /\ UNCHANGED returns
  <2> DEFINE t == callers[c].tag
             report == [tag |-> t, failed |-> failed]
  <2>1. /\ mu = c /\ mu # Nobody
        /\ callers \in [Caller -> [pc : {"idle", "waiting", "failing", "stopped"}, tag : Nat]]
    BY <1>1, Waits, Zenon DEF BrokerInv, Control
  <2>2. /\ callers' = [callers EXCEPT ![c] = Idle] /\ mu' = Nobody
        /\ reported' = reported \cup {report} /\ UNCHANGED failed
    BY <1>3, Zenon DEF ReturnsNil
  <2>3. ASSUME ~failed
        PROVE  t \in stored /\ toBroker = <<>> /\ frames = <<>> /\ Tail(confirms) = <<>>
    <3>1. OnlyMessage(t)
      BY <1>1, <2>1, <2>3, Zenon DEF BrokerInv, UnderWay
    <3> QED
      BY <1>1, <1>3, <3>1, OwnConfirm, Zenon
  <2>4. /\ callers' \in [Caller -> [pc : {"idle", "waiting", "failing", "stopped"}, tag : Nat]]
        /\ callers'[c].pc = "idle"
        /\ \A b \in Caller : b # c => callers'[b] = callers[b]
    BY <2>1, <2>2, Zenon DEF Idle
  <2>5. \A b \in Caller : callers'[b].pc # "waiting"
    BY <2>1, <2>4, Zenon DEF BrokerInv, Control
  <2>6. Control'
    BY <1>1, <2>2, <2>4, <2>5, CallerAssumption DEF BrokerInv, Control
  <2>7. UnderWay'
    BY <1>1, <1>3, <2>2, <2>3, Zenon DEF UnderWay, Silent
  <2>8. NilMeansStored'
    <3>1. report.tag = t /\ report.failed = failed
      BY Zenon
    <3> HIDE DEF report
    <3>2. ~report.failed => report.tag \in stored
      BY <2>3, <3>1, Zenon
    <3> QED
      BY <1>1, <2>2, <3>2, Zenon DEF BrokerInv, NilMeansStored
  <2>9. InUse'
    BY <1>1, Zenon DEF BrokerInv, InUse
  <2> QED
    BY <2>6, <2>7, <2>8, <2>9 DEF BrokerInv
<1> QED
  BY <1>2, <1>3, Zenon DEF TakesConfirm

\* RabbitMQ answers the message under way, or the request to close.
LEMMA BrokerAnswersInv ==
  ASSUME BrokerInv, BrokerAnswers
  PROVE  BrokerInv'
<1>1. /\ UNCHANGED <<callers, mu, connection, published, confirms, returns, failed, reported>>
      /\ stored \subseteq stored'
      /\ toBroker # <<>> /\ toBroker' = Tail(toBroker)
  BY Zenon DEF BrokerAnswers
<1>2. Control' /\ NilMeansStored'
  BY <1>1, Zenon DEF BrokerInv, Control, NilMeansStored
<1>3. UnderWay'
  <2> SUFFICES ASSUME connection = "open", ~failed
               PROVE  mu # Nobody /\ OnlyMessage(callers[mu].tag)'
    BY <1>1, Zenon DEF UnderWay
  <2>1. mu # Nobody /\ mu \in Caller /\ OnlyMessage(callers[mu].tag)
    BY <1>1, Zenon DEF BrokerInv, Control, UnderWay, Silent
  <2> DEFINE t == callers[mu].tag
  <2>2. /\ t # 0 /\ t' = t
        /\ toBroker = <<t>> /\ frames = <<>> /\ confirms = <<>> /\ returns = <<>>
    BY <1>1, <2>1, Zenon DEF OnlyMessage, AnswerOf, BrokerInv, Control
  <2> HIDE DEF t
  <2>3. Head(toBroker) = t /\ toBroker' = <<>>
    BY <1>1, <2>2
  <2>4. \/ frames' = Append(frames, AFrame("ack", t)) /\ t \in stored'
        \/ frames' = Append(frames, AFrame("nack", t))
        \/ frames' = frames \o <<AFrame("return", t), AFrame("ack", t)>>
    BY <2>2, <2>3 DEF BrokerAnswers
  <2>5. \/ frames' = <<AFrame("ack", t)>> /\ t \in stored'
        \/ frames' = <<AFrame("nack", t)>>
        \/ frames' = <<AFrame("return", t), AFrame("ack", t)>>
    BY <2>2, <2>4
  <2>6. confirms' = <<>> /\ returns' = <<>>
    BY <1>1, <2>2, Zenon
  <2>7. OnlyMessage(t)'
    BY <2>2, <2>3, <2>5, <2>6 DEF OnlyMessage, AnswerOf, AFrame
  <2> QED
    BY <2>1, <2>7, Zenon DEF t
<1>4. InUse'
  <2> SUFFICES ASSUME connection = "open"
               PROVE  toBroker' \in Seq(Nat \ {0}) /\ frames' \in Seq(Frame)
    BY <1>1, Zenon DEF InUse
  <2>1. toBroker \in Seq(Nat \ {0}) /\ frames \in Seq(Frame)
    BY Zenon DEF BrokerInv, InUse
  <2>2. Head(toBroker) \in Nat \ {0} /\ toBroker' \in Seq(Nat \ {0})
    BY <1>1, <2>1
  <2>3. \A kind \in {"ack", "nack", "return"} : AFrame(kind, Head(toBroker)) \in Frame
    BY <2>2, Zenon DEF AFrame, Frame
  <2>4. <<AFrame("return", Head(toBroker)), AFrame("ack", Head(toBroker))>> \in Seq(Frame)
    BY <2>3
  <2> DEFINE tag == Head(toBroker)
  <2>5. \/ \E kind \in {"ack", "nack"} : frames' = Append(frames, AFrame(kind, tag))
        \/ frames' = frames \o <<AFrame("return", tag), AFrame("ack", tag)>>
    BY <2>2, Zenon DEF BrokerAnswers
  <2> HIDE DEF tag
  <2>6. ASSUME NEW kind \in {"ack", "nack"}, frames' = Append(frames, AFrame(kind, tag))
        PROVE  frames' \in Seq(Frame)
    <3>1. AFrame(kind, tag) \in Frame
      BY <2>3, Zenon DEF tag
    <3> QED
      BY <2>1, <2>6, <3>1
  <2>7. CASE frames' = frames \o <<AFrame("return", tag), AFrame("ack", tag)>>
    <3> DEFINE both == <<AFrame("return", tag), AFrame("ack", tag)>>
    <3>1. both \in Seq(Frame)
      BY <2>4, Zenon DEF tag
    <3> HIDE DEF both
    <3>2. frames \o both \in Seq(Frame)
      BY <2>1, <3>1
    <3>3. frames' = frames \o both
      BY <2>7, Zenon DEF both
    <3> QED
      BY <2>2, <3>2, <3>3
  <2> QED
    BY <2>2, <2>5, <2>6, <2>7, Zenon
<1> QED
  BY <1>2, <1>3, <1>4, Zenon DEF BrokerInv

\* The reader hands over the next frame of the answer.
LEMMA ReadsInv ==
  ASSUME BrokerInv, Reads
  PROVE  BrokerInv'
<1>1. /\ UNCHANGED <<callers, mu, published, toBroker, stored, failed, reported>>
      /\ frames # <<>> /\ frames' = Tail(frames)
      /\ connection \in {"open", "closing"}
      /\ connection' \in {connection, "closed"}
      /\ connection' = "closed" => Head(frames).kind = "close"
  BY Zenon DEF Reads
<1>2. NilMeansStored'
  BY <1>1, Zenon DEF BrokerInv, NilMeansStored
<1>3. ASSUME connection = "open", ~failed
      PROVE  connection' = connection /\ mu # Nobody /\ OnlyMessage(callers[mu].tag)'
  <2>1. mu # Nobody /\ mu \in Caller /\ OnlyMessage(callers[mu].tag)
    BY <1>1, <1>3, Zenon DEF BrokerInv, Control, UnderWay, Silent
  <2> DEFINE t == callers[mu].tag
  <2>2. t' = t /\ AnswerOf(t)
    BY <1>1, <2>1, Zenon DEF OnlyMessage
  <2> HIDE DEF t
  <2>3. \A kind : AFrame(kind, t).kind = kind
    BY Zenon DEF AFrame
  <2>4. CASE frames = <<AFrame("ack", t)>> /\ confirms = <<>>
    <3>1. Head(frames) = AFrame("ack", t) /\ frames' = <<>> /\ Head(frames).kind = "ack"
      BY <1>1, <2>3, <2>4
    <3>2. confirms' = <<AFrame("ack", t)>> /\ UNCHANGED <<returns, connection>>
      BY <2>4, <3>1 DEF Reads
    <3>3. AnswerOf(t)'
      BY <1>1, <2>2, <2>4, <3>1, <3>2, Zenon DEF AnswerOf, AFrame
    <3> QED
      BY <2>1, <3>2, <3>3, Zenon DEF OnlyMessage, t
  <2>5. CASE frames = <<AFrame("nack", t)>> /\ confirms = <<>>
    <3>1. Head(frames) = AFrame("nack", t) /\ frames' = <<>> /\ Head(frames).kind = "nack"
      BY <1>1, <2>3, <2>5
    <3>2. confirms' = <<AFrame("nack", t)>> /\ UNCHANGED <<returns, connection>>
      BY <2>5, <3>1 DEF Reads
    <3>3. AnswerOf(t)'
      BY <1>1, <2>2, <2>5, <3>1, <3>2, Zenon DEF AnswerOf, AFrame
    <3> QED
      BY <2>1, <3>2, <3>3, Zenon DEF OnlyMessage, t
  <2>6. CASE /\ frames = <<AFrame("return", t), AFrame("ack", t)>>
             /\ confirms = <<>> /\ returns = <<>>
    <3>1. /\ Head(frames) = AFrame("return", t) /\ Head(frames).kind = "return"
          /\ frames' = <<AFrame("ack", t)>>
      BY <1>1, <2>3, <2>6
    <3>2. returns' = <<AFrame("return", t)>> /\ UNCHANGED <<confirms, connection>>
      BY <2>6, <3>1 DEF Reads
    <3>3. AnswerOf(t)'
      BY <1>1, <2>2, <2>6, <3>1, <3>2, Zenon DEF AnswerOf, AFrame
    <3> QED
      BY <2>1, <3>2, <3>3, Zenon DEF OnlyMessage, t
  <2> QED
    BY <1>1, <2>2, <2>4, <2>5, <2>6, Zenon DEF AnswerOf
<1>4. connection = "open" => /\ connection' = connection
                             /\ frames' \in Seq(Frame)
  <2> SUFFICES ASSUME connection = "open"
               PROVE  connection' = connection /\ frames' \in Seq(Frame)
    BY Zenon
  <2>1. frames \in Seq(Frame)
    BY Zenon DEF BrokerInv, InUse
  <2>2. Head(frames) \in Frame /\ Tail(frames) \in Seq(Frame)
    BY <1>1, <2>1
  <2>3. Head(frames).kind # "close"
    BY <2>2, Zenon DEF Frame
  <2> QED
    BY <1>1, <2>2, <2>3, Zenon
<1>5. Control'
  BY <1>1, <1>4, Zenon DEF BrokerInv, Control
<1>6. UnderWay'
  BY <1>1, <1>3, Zenon DEF UnderWay
<1>7. InUse'
  BY <1>1, <1>4, Zenon DEF BrokerInv, InUse
<1> QED
  BY <1>2, <1>5, <1>6, <1>7 DEF BrokerInv

\* A goroutine that failed ends, and the failure cancels the context of the others.
LEMMA FailsInv ==
  ASSUME BrokerInv, NEW c \in Caller, Fails(c)
  PROVE  BrokerInv'
<1>1. /\ callers \in [Caller -> [pc : {"idle", "waiting", "failing", "stopped"}, tag : Nat]]
      /\ callers' = [callers EXCEPT ![c].pc = "stopped"] /\ callers[c].pc = "failing"
      /\ UNCHANGED <<mu, connection, published, toBroker, frames, confirms, returns,
                     stored, failed, reported>>
  BY Zenon DEF Fails, BrokerInv, Control
<1>2. /\ callers' \in [Caller -> [pc : {"idle", "waiting", "failing", "stopped"}, tag : Nat]]
      /\ callers'[c].pc = "stopped"
      /\ \A b \in Caller : callers'[b].tag = callers[b].tag
      /\ \A b \in Caller : b # c => callers'[b] = callers[b]
  BY <1>1, Zenon
<1>3. Control'
  BY <1>1, <1>2, Zenon DEF BrokerInv, Control
<1>4. UnderWay'
  <2>1. mu # Nobody => callers'[mu].tag = callers[mu].tag
    BY <1>2, Zenon DEF BrokerInv, Control
  <2>2. ASSUME connection = "open", ~failed, mu # Nobody
        PROVE  OnlyMessage(callers[mu].tag)'
    BY <1>1, <2>1, <2>2 DEF BrokerInv, UnderWay, OnlyMessage, AnswerOf
  <2> QED
    BY <1>1, <2>2, Zenon DEF BrokerInv, UnderWay, Silent
<1> QED
  BY <1>1, <1>3, <1>4, Zenon DEF BrokerInv, InUse, NilMeansStored

\* The end of a broker and the start of the next: nobody waits, so nothing is claimed
\* of what was under way, and the new connection begins with nothing under way.
LEMMA ConnectionInv ==
  ASSUME BrokerInv, Closes \/ Connects \/ BrokerLost
  PROVE  BrokerInv'
<1>1. CASE Closes
  <2>1. mu = Nobody /\ connection' \in {"closing", "closed"}
    BY <1>1, Zenon DEF Closes, BrokerInv, Control
  <2> QED
    BY <1>1, <2>1, Zenon DEF Closes, BrokerInv, Control, UnderWay, InUse, NilMeansStored
<1>2. CASE Connects
  <2>1. mu = Nobody
    BY <1>2, Zenon DEF Connects, BrokerInv, Control
  <2>2. \A c \in Caller : callers'[c] = Idle
    BY <1>2, Zenon DEF Connects
  <2>3. Control'
    BY <1>2, <2>1, <2>2, CallerAssumption, Zenon DEF Connects, BrokerInv, Control, Idle
  <2>4. toBroker' \in Seq(Nat \ {0}) /\ frames' \in Seq(Frame)
    BY <1>2 DEF Connects
  <2> QED
    BY <1>2, <2>1, <2>3, <2>4, Zenon DEF Connects, BrokerInv, UnderWay, Silent, InUse, NilMeansStored
<1>3. CASE BrokerLost
  BY <1>3, Zenon DEF BrokerLost, BrokerInv, Control, UnderWay, InUse, NilMeansStored
<1> QED
  BY <1>1, <1>2, <1>3, Zenon

\* Nothing is published on the first connection.
LEMMA InitBroker ==
  ASSUME BrokerInit
  PROVE  BrokerInv
<1>1. \A c \in Caller : callers[c] = Idle
  BY Zenon DEF BrokerInit
<1>2. Control
  BY <1>1, CallerAssumption, Zenon DEF BrokerInit, Control, Idle
<1> QED
  BY <1>2 DEF BrokerInit, BrokerInv, UnderWay, Silent, InUse, NilMeansStored

\* Every step keeps the invariant.
LEMMA NextBroker ==
  ASSUME BrokerInv, [BrokerNext]_brokerVars
  PROVE  BrokerInv'
<1>1. ASSUME NEW c \in Caller, PublishFails(c)
      PROVE  BrokerInv'
  <2>1. /\ mu \in {Nobody, c} /\ mu' = Nobody
        /\ callers' = [callers EXCEPT ![c].pc = "failing"]
        /\ failed' = TRUE
        /\ UNCHANGED <<published, connection, toBroker, frames, stored, reported>>
    BY <1>1, Zenon DEF PublishFails
  <2> QED
    BY <2>1, FailingInv, Zenon
<1>2. ASSUME NEW c \in Caller, TakesReturn(c) \/ TakesCancellation(c) \/ SeesClosedChannel(c)
      PROVE  BrokerInv'
  <2>1. /\ callers[c].pc = "waiting" /\ ReturnsError(c)
        /\ UNCHANGED <<published, connection, toBroker, frames, stored>>
    BY <1>2, Zenon DEF TakesReturn, TakesCancellation, SeesClosedChannel
  <2> QED
    BY <2>1, SelectFailsInv, Zenon
<1>3. CASE Interrupted \/ QueueDeleted \/ UNCHANGED brokerVars
  <2>1. UNCHANGED <<callers, mu, connection, published, toBroker, frames, confirms, returns,
                    stored, failed, reported>>
    BY <1>3, Zenon DEF Interrupted, QueueDeleted, brokerVars
  <2> QED
    BY <2>1 DEF BrokerInv, Control, UnderWay, Silent, OnlyMessage, AnswerOf, InUse, NilMeansStored
<1> QED
  BY <1>1, <1>2, <1>3, PublishesInv, TakesConfirmInv, FailsInv, ConnectionInv,
     BrokerAnswersInv, ReadsInv DEF BrokerNext, Selects

\* What Publish and Defer report: a nil of a call made before the first error on its
\* connection is of a message RabbitMQ has put into its queue.
THEOREM NilIsStored == BrokerSpec => []NilMeansStored
<1>1. BrokerInit => BrokerInv
  BY InitBroker, Zenon
<1>2. BrokerInv /\ [BrokerNext]_brokerVars => BrokerInv'
  BY NextBroker, Zenon
<1>3. BrokerInv => NilMeansStored
  BY Zenon DEF BrokerInv
<1> QED
  BY <1>1, <1>2, <1>3, PTL DEF BrokerSpec

-----------------------------------------------------------------------------
(***************************************************************************)
(* processMessage: no mixture of failed calls, cancellation and lost       *)
(* connections makes it lose a signal or dead-letter one that can be read, *)
(* for every prefetch and every set of messages.                           *)
(***************************************************************************)

\* Among the goroutines that are free there is a first one.
LEMMA FirstFree ==
  ASSUME Free # {}
  PROVE  (CHOOSE g \in Free : \A h \in Free : g <= h) \in Free
<1>1. Free \subseteq Nat
  BY ConsumerAssumption DEF Free, Goroutine
<1>2. PICK g \in Free : \A h \in Free : <<h, g>> \notin OpToRel(<, Nat)
  BY <1>1, WFMin, NatLessThanWellFounded, Zenon
<1>3. ASSUME NEW h \in Free
      PROVE  g <= h
  <2>1. h \in Nat /\ g \in Nat
    BY <1>1, Zenon
  <2>2. h < g => <<h, g>> \in OpToRel(<, Nat)
    BY <2>1, Zenon DEF OpToRel
  <2>3. ~(h < g)
    BY <1>2, <2>2, Zenon
  <2> QED
    BY <2>1, <2>3
<1> QED
  BY <1>3, Zenon

\* A message that some goroutine holds is requeued when the connection is lost.
LEMMA HeldCounted ==
  ASSUME NEW m
  PROVE  /\ Cardinality(Held(m)) \in Nat
         /\ Held(m) # {} => Cardinality(Held(m)) > 0
<1>1. IsFiniteSet(Goroutine)
  <2>1. 1 \in Int /\ Prefetch \in Int
    BY ConsumerAssumption
  <2> QED
    BY <2>1, FS_Interval, Zenon DEF Goroutine
<1>2. IsFiniteSet(Held(m))
  BY <1>1, FS_Subset, Zenon DEF Held
<1> QED
  BY <1>2, FS_CardinalityType, FS_EmptySet

\* One goroutine moves on.
LEMMA TaskMoves ==
  ASSUME TypeOK, TasksFit, NEW g \in Goroutine, NEW task \in TaskState,
         tasks' = [tasks EXCEPT ![g] = task],
         task.pc \in {"none", "failed"} \/ task.message \in Message,
         task.pc = "reject" => task.message \in Malformed
  PROVE  /\ tasks' \in [Goroutine -> TaskState]
         /\ TasksFit'
         /\ tasks'[g] = task
         /\ \A h \in Goroutine : h # g => tasks'[h] = tasks[h]
<1>1. /\ tasks' \in [Goroutine -> TaskState]
      /\ tasks'[g] = task
      /\ \A h \in Goroutine : h # g => tasks'[h] = tasks[h]
  BY Zenon DEF TypeOK
<1> QED
  BY <1>1, Zenon DEF TasksFit

\* What is kept stays so, if the copies in the queues and with the other goroutines stay.
LEMMA KeptFrame ==
  ASSUME ConsumerInv, NEW g \in Goroutine, NEW task \in TaskState,
         tasks' = [tasks EXCEPT ![g] = task],
         task.pc \in {"none", "failed"} \/ task.message \in Message,
         task.pc = "reject" => task.message \in Malformed,
         ready' \in [Message -> Nat], deferred' \in [Message -> Nat],
         \A m \in Message : ready'[m] >= ready[m] /\ deferred'[m] >= deferred[m],
         UNCHANGED channel, finished \subseteq finished', dropped \subseteq dropped',
         dead' \subseteq Malformed,
         \/ channel = "lost"
         \/ tasks[g].pc \notin {"process", "defer", "requeue"}
         \/ /\ task.message = tasks[g].message
            /\ task.pc \in {"process", "defer", "requeue"}
         \/ tasks[g].message \in (Prompt \cap finished') \cup dropped'
         \/ ready'[tasks[g].message] > 0
         \/ deferred'[tasks[g].message] > 0
  PROVE  ConsumerInv'
<1>1. /\ tasks' \in [Goroutine -> TaskState] /\ TasksFit'
      /\ tasks'[g] = task
      /\ \A h \in Goroutine : h # g => tasks'[h] = tasks[h]
  BY TaskMoves, Zenon DEF ConsumerInv
<1>2. TypeOK'
  BY <1>1, Zenon DEF ConsumerInv, TypeOK
<1>3. ASSUME NEW m \in (Busy \cup (Prompt \ finished')) \ dropped'
      PROVE  Kept(m)'
  <2>1. Kept(m) /\ m \in Message /\ ready[m] \in Nat /\ deferred[m] \in Nat
        /\ ready'[m] \in Nat /\ deferred'[m] \in Nat
    BY Zenon DEF ConsumerInv, TypeOK, Message
  <2>2. CASE ready[m] > 0 \/ deferred[m] > 0
    BY <2>1, <2>2 DEF Kept
  <2>3. ASSUME channel = "open", NEW h \in Goroutine, tasks[h].message = m,
               tasks[h].pc \in {"process", "defer", "requeue"}
        PROVE  Kept(m)'
    <3>1. CASE h # g
      BY <1>1, <2>3, <3>1, Zenon DEF Kept
    <3>2. CASE h = g
      <4>1. m \notin (Prompt \cap finished') \cup dropped'
        BY ConsumerAssumption, Zenon
      <4> QED
        BY <1>1, <2>3, <3>2, <4>1 DEF Kept
    <3> QED
      BY <3>1, <3>2, Zenon
  <2> QED
    BY <2>1, <2>2, <2>3, Zenon DEF Kept
<1> QED
  BY <1>1, <1>2, <1>3, Zenon DEF ConsumerInv

-----------------------------------------------------------------------------
(***************************************************************************)
(* The steps.                                                              *)
(***************************************************************************)

\* A goroutine starts with the message the queue loses.
LEMMA ReceivesKept ==
  ASSUME ConsumerInv, NEW m \in Message, Receives(m)
  PROVE  ConsumerInv'
<1> DEFINE first == CHOOSE g \in Free : \A h \in Free : g <= h
           task == [pc |-> Decodes(m), message |-> m]
<1>1. first \in Free /\ first \in Goroutine
  BY FirstFree, Zenon DEF Receives, Free
<1>2. /\ task \in TaskState /\ task.message = m
      /\ task.pc = Decodes(m)
      /\ task.pc = "reject" => task.message \in Malformed
      /\ task.pc \in {"reject", "process"} /\ (task.pc = "process" \/ m \in Malformed)
  BY Zenon DEF Decodes, TaskState
<1>3. /\ tasks' = [tasks EXCEPT ![first] = task]
      /\ ready' = [ready EXCEPT ![m] = ready[m] - 1] /\ ready[m] > 0
      /\ channel = "open" /\ UNCHANGED <<deferred, dead, finished, channel, dropped>>
  BY Zenon DEF Receives
<1>4. tasks[first].pc = "none"
  BY <1>1 DEF Free, NoTask
<1> HIDE DEF first, task
<1>5. /\ tasks' \in [Goroutine -> TaskState] /\ TasksFit'
      /\ tasks'[first] = task
      /\ \A h \in Goroutine : h # first => tasks'[h] = tasks[h]
  BY <1>1, <1>2, <1>3, TaskMoves, Zenon DEF ConsumerInv
<1>6. ready' \in [Message -> Nat] /\ \A n \in Message : n # m => ready'[n] = ready[n]
  BY <1>3 DEF ConsumerInv, TypeOK
<1>7. TypeOK'
  BY <1>3, <1>5, <1>6, Zenon DEF ConsumerInv, TypeOK
<1>8. ASSUME NEW n \in (Busy \cup (Prompt \ finished')) \ dropped'
      PROVE  Kept(n)'
  <2>1. Kept(n) /\ n \in Message /\ n \notin Malformed
    BY <1>3, ConsumerAssumption, Zenon DEF ConsumerInv, Message
  <2>2. CASE n = m
    <3>1. tasks'[first].message = n /\ tasks'[first].pc = "process"
      BY <1>2, <1>5, <2>1, <2>2
    <3> QED
      BY <1>1, <1>3, <3>1, Zenon DEF Kept
  <2>3. CASE n # m
    <3>1. \A g \in Goroutine : tasks[g].pc \in {"process", "defer", "requeue"} =>
                                 tasks'[g] = tasks[g]
      BY <1>4, <1>5, Zenon
    <3> QED
      BY <1>3, <1>6, <2>1, <2>3, <3>1 DEF Kept
  <2> QED
    BY <2>2, <2>3, Zenon
<1> QED
  BY <1>3, <1>5, <1>7, <1>8 DEF ConsumerInv

\* Process, Defer, and what processMessage makes of their answers.
LEMMA ProcessKept ==
  ASSUME ConsumerInv, NEW g \in Goroutine,
         Processes(g) \/ ProcessFails(g) \/ Defers(g) \/ DeferFails(g)
  PROVE  ConsumerInv'
<1> DEFINE m == tasks[g].message
<1>1. /\ tasks \in [Goroutine -> TaskState] /\ tasks[g] \in TaskState
      /\ ready \in [Message -> Nat] /\ deferred \in [Message -> Nat]
      /\ m \in Message /\ dead \subseteq Malformed
  BY Zenon DEF ConsumerInv, TypeOK, TasksFit, Processes, ProcessFails, Defers, DeferFails
<1>2. ASSUME NEW pc \in {"defer", "ack", "requeue"}, Goto(g, pc)
      PROVE  LET task == [tasks[g] EXCEPT !.pc = pc]
             IN  /\ task \in TaskState /\ task.pc = pc /\ task.message = m
                 /\ tasks' = [tasks EXCEPT ![g] = task]
  BY <1>1, <1>2, Zenon DEF Goto, TaskState
<1>3. PICK pc \in {"defer", "ack", "requeue"} :
        /\ Goto(g, pc)
        /\ pc = "ack" => m \in (Prompt \cap finished') \cup dropped' \/ deferred'[m] > 0
  <2>1. [deferred EXCEPT ![m] = @ + 1][m] > 0
    BY <1>1
  <2> QED
    BY <2>1, Zenon DEF Processes, ProcessFails, Defers, Stores, DeferFails
<1>4. /\ deferred' = deferred \/ deferred' = [deferred EXCEPT ![m] = @ + 1]
      /\ finished \subseteq finished' /\ dropped \subseteq dropped'
      /\ UNCHANGED <<ready, dead, channel>>
  BY Zenon DEF Processes, ProcessFails, Defers, Stores, DeferFails
<1>5. /\ deferred' \in [Message -> Nat]
      /\ \A n \in Message : ready'[n] >= ready[n] /\ deferred'[n] >= deferred[n]
  BY <1>1, <1>4
<1> DEFINE task == [tasks[g] EXCEPT !.pc = pc]
<1>6. /\ task \in TaskState /\ task.pc = pc /\ task.message = m
      /\ tasks' = [tasks EXCEPT ![g] = task]
  BY <1>2, <1>3, Zenon
<1> HIDE DEF task, m
<1> QED
  BY <1>1, <1>3, <1>4, <1>5, <1>6, KeptFrame, Zenon DEF m

\* The message is settled with the broker, or the channel is gone and the broker has it.
LEMMA SettlesKept ==
  ASSUME ConsumerInv, NEW g \in Goroutine,
         Acks(g) \/ Rejects(g) \/ Requeues(g) \/ SettleFails(g) \/ Reports(g)
  PROVE  ConsumerInv'
<1> DEFINE m == tasks[g].message
           settled == [pc |-> "failed", message |-> NULL]
<1>1. /\ tasks \in [Goroutine -> TaskState] /\ tasks[g] \in TaskState
      /\ ready \in [Message -> Nat] /\ deferred \in [Message -> Nat]
      /\ dead \subseteq Malformed
      /\ tasks[g].pc \in {"none", "failed"} \/ m \in Message
      /\ tasks[g].pc = "reject" => m \in Malformed
  BY Zenon DEF ConsumerInv, TypeOK, TasksFit
<1>2. PICK task \in {NoTask, settled} : tasks' = [tasks EXCEPT ![g] = task]
  BY Zenon DEF Acks, Rejects, Requeues, SettleFails, Reports
<1>3. task \in TaskState /\ task.pc \in {"none", "failed"}
  BY <1>2 DEF NoTask, TaskState
<1>4. /\ UNCHANGED <<deferred, finished, channel, dropped>>
      /\ dead' \subseteq Malformed
  BY <1>1, Zenon DEF Acks, Rejects, Requeues, SettleFails, Reports
<1>5. \/ ready' = ready
      \/ m \in Message /\ ready' = [ready EXCEPT ![m] = @ + 1]
  BY <1>1, Zenon DEF Acks, Rejects, Requeues, SettleFails, Reports
<1>6. /\ ready' \in [Message -> Nat]
      /\ \A n \in Message : ready'[n] >= ready[n] /\ deferred'[n] >= deferred[n]
  BY <1>1, <1>4, <1>5
<1>7. \/ tasks[g].pc \notin {"process", "defer", "requeue"}
      \/ channel = "lost"
      \/ ready'[m] > 0
  <2>1. CASE Requeues(g)
    <3>1. m \in Message /\ ready' = [ready EXCEPT ![m] = @ + 1]
      BY <1>1, <2>1, Zenon DEF Requeues
    <3> QED
      BY <1>1, <3>1
  <2>2. CASE Acks(g) \/ Rejects(g) \/ SettleFails(g) \/ Reports(g)
    BY <2>2, Zenon DEF Acks, Rejects, SettleFails, Reports
  <2> QED
    BY <2>1, <2>2, Zenon
<1> QED
  BY <1>1, <1>2, <1>3, <1>4, <1>6, <1>7, KeptFrame, Zenon

\* The connection is lost: what goroutines hold is back in the queue.
LEMMA ConnectionLostKept ==
  ASSUME ConsumerInv, ConnectionLost
  PROVE  ConsumerInv'
<1>1. /\ channel' = "lost"
      /\ ready' = [m \in Message |-> ready[m] + Cardinality(Held(m))]
      /\ UNCHANGED <<deferred, dead, finished, tasks, dropped>>
  BY Zenon DEF ConnectionLost
<1>2. TypeOK' /\ TasksFit'
  BY <1>1, HeldCounted DEF ConsumerInv, TypeOK, TasksFit
<1>3. ASSUME NEW m \in (Busy \cup (Prompt \ finished')) \ dropped'
      PROVE  Kept(m)'
  <2>1. /\ Kept(m) /\ m \in Message /\ ready[m] \in Nat
        /\ ready'[m] = ready[m] + Cardinality(Held(m))
    BY <1>1, Zenon DEF ConsumerInv, TypeOK, Message
  <2>2. CASE ready[m] > 0 \/ Held(m) # {}
    BY <2>1, <2>2, HeldCounted DEF Kept
  <2>3. CASE deferred[m] > 0
    BY <1>1, <2>3, Zenon DEF Kept
  <2> QED
    BY <2>1, <2>2, <2>3, Zenon DEF Kept, Held
<1> QED
  BY <1>1, <1>2, <1>3, Zenon DEF ConsumerInv

\* The deferral queue hands a message back.
LEMMA DeferralExpiresKept ==
  ASSUME ConsumerInv, NEW m \in Message, DeferralExpires(m)
  PROVE  ConsumerInv'
<1>1. /\ ready \in [Message -> Nat] /\ deferred \in [Message -> Nat] /\ deferred[m] > 0
      /\ ready' = [ready EXCEPT ![m] = ready[m] + 1]
      /\ deferred' = [deferred EXCEPT ![m] = deferred[m] - 1]
      /\ UNCHANGED <<dead, finished, tasks, channel, dropped>>
  BY Zenon DEF ConsumerInv, TypeOK, DeferralExpires
<1>2. TypeOK' /\ TasksFit'
  BY <1>1 DEF ConsumerInv, TypeOK, TasksFit
<1>3. ASSUME NEW n \in (Busy \cup (Prompt \ finished')) \ dropped'
      PROVE  Kept(n)'
  <2>1. Kept(n) /\ n \in Message
    BY <1>1, Zenon DEF ConsumerInv, Message
  <2> QED
    BY <1>1, <2>1 DEF Kept
<1> QED
  BY <1>1, <1>2, <1>3 DEF ConsumerInv

\* Run leaves and returns, and a new one is started: by then nothing is with goroutines.
LEMMA RunKept ==
  ASSUME ConsumerInv, RunInv, Leaves \/ WaitEnds \/ Restarts \/ DeferrerLost
  PROVE  ConsumerInv'
<1>1. /\ UNCHANGED <<ready, deferred, dead, finished, tasks, dropped>>
      /\ channel' \in {"open", "lost"}
      /\ UNCHANGED channel \/ \A g \in Goroutine : tasks[g] = NoTask
  BY Zenon DEF Leaves, WaitEnds, Restarts, DeferrerLost, ConsumerInv, TypeOK, RunInv
<1>2. TypeOK' /\ TasksFit'
  BY <1>1, Zenon DEF ConsumerInv, TypeOK, TasksFit
<1>3. ASSUME NEW n \in (Busy \cup (Prompt \ finished')) \ dropped'
      PROVE  Kept(n)'
  <2>1. Kept(n)
    BY <1>1, Zenon DEF ConsumerInv
  <2> QED
    BY <1>1, <2>1 DEF Kept, NoTask
<1> QED
  BY <1>1, <1>2, <1>3 DEF ConsumerInv

-----------------------------------------------------------------------------
(***************************************************************************)
(* The error paths are entered by a fault, and Run returns after them.     *)
(***************************************************************************)

\* A step of a goroutine, which no returned Run has.
LEMMA TaskStepRun ==
  ASSUME ConsumerInv, RunInv, NEW g \in Goroutine,
         TaskNext(g) \/ ProcessFails(g) \/ DeferFails(g)
  PROVE  RunInv'
<1>1. /\ tasks \in [Goroutine -> TaskState] /\ faults \in Nat
      /\ faults' = faults \/ faults' = faults + 1
      /\ UNCHANGED <<run, channel>>
  BY Zenon DEF ConsumerInv, TypeOK, RunInv, TaskNext, Processes, ProcessFails, Defers, DeferFails,
     Fault, Acks, Rejects, Requeues, SettleFails, Reports
<1>2. tasks[g].pc # "none"
  <2>1. tasks[g].pc \in {"process", "defer", "ack", "reject", "requeue", "failed"}
    BY Zenon DEF TaskNext, Processes, ProcessFails, Defers, DeferFails, Acks, Rejects, Requeues,
       SettleFails, Reports
  <2> QED
    BY <2>1
<1>3. run # "returned"
  BY <1>2 DEF RunInv, NoTask
<1>4. ASSUME faults' = 0 PROVE NothingFailedYet'
  <2>1. faults = 0 /\ UNCHANGED faults /\ NothingFailedYet
    BY <1>1, <1>4 DEF RunInv
  <2>2. /\ UNCHANGED <<failures, cancelled, unread, dropped>>
        /\ \/ \E pc \in {"defer", "ack"} : Goto(g, pc)
           \/ tasks' = [tasks EXCEPT ![g] = NoTask]
    <3>1. ASSUME Processes(g) \/ Defers(g)
          PROVE  /\ Goto(g, "defer") \/ Goto(g, "ack")
                 /\ UNCHANGED dropped \/ unread > 0
                 /\ UNCHANGED <<failures, cancelled, unread>>
      BY <3>1, Zenon DEF Processes, Defers
    <3>2. ASSUME Acks(g) \/ Rejects(g)
          PROVE  /\ tasks' = [tasks EXCEPT ![g] = NoTask]
                 /\ UNCHANGED <<failures, cancelled, unread, dropped>>
      BY <3>2, Zenon DEF Acks, Rejects
    <3>3. ~(unread > 0)
      BY <2>1 DEF NothingFailedYet
    <3>4. ~ProcessFails(g) /\ ~DeferFails(g)
      BY <2>1 DEF NothingFailedYet, ProcessFails, DeferFails, Fault
    <3>5. ~Requeues(g) /\ ~SettleFails(g) /\ ~Reports(g)
      BY <2>1 DEF NothingFailedYet, Requeues, SettleFails, Reports
    <3> QED
      BY <3>1, <3>2, <3>3, <3>4, <3>5, Zenon DEF TaskNext
  <2>3. \A h \in Goroutine : tasks'[h].pc \notin {"requeue", "failed"}
    BY <1>1, <2>1, <2>2 DEF NothingFailedYet, Goto, NoTask, TaskState
  <2> QED
    BY <1>1, <2>1, <2>2, <2>3, Zenon DEF NothingFailedYet
<1> QED
  BY <1>1, <1>3, <1>4 DEF RunInv

\* All the other steps.
LEMMA OtherStepRun ==
  ASSUME ConsumerInv, RunInv,
         \/ \E m \in Message : Receives(m) \/ DeferralExpires(m)
         \/ Leaves \/ WaitEnds \/ Restarts \/ ConnectionLost \/ DeferrerLost
  PROVE  RunInv'
<1>1. ASSUME NEW m \in Message, Receives(m) PROVE RunInv'
  <2> DEFINE first == CHOOSE g \in Free : \A h \in Free : g <= h
             task == [pc |-> Decodes(m), message |-> m]
  <2>1. /\ tasks \in [Goroutine -> TaskState] /\ tasks' = [tasks EXCEPT ![first] = task]
        /\ run = "running"
        /\ UNCHANGED <<failures, cancelled, run, channel, unread, dropped, faults>>
    BY <1>1, Zenon DEF ConsumerInv, TypeOK, Receives
  <2>2. task.pc \notin {"requeue", "failed"}
    BY DEF Decodes
  <2> HIDE DEF first, task
  <2>3. \A h \in Goroutine : tasks'[h] = tasks[h] \/ tasks'[h] = task
    BY <2>1
  <2> QED
    BY <2>1, <2>2, <2>3 DEF RunInv, NothingFailedYet
<1>2. ASSUME NEW m \in Message, DeferralExpires(m) PROVE RunInv'
  BY <1>2, Zenon DEF DeferralExpires, RunInv, NothingFailedYet
<1>3. CASE Leaves
  BY <1>3 DEF Leaves, RunInv, NothingFailedYet
<1>4. CASE WaitEnds
  BY <1>4 DEF WaitEnds, RunInv, NothingFailedYet
<1>5. CASE Restarts
  BY <1>5 DEF Restarts, RunInv, NothingFailedYet
<1>6. CASE ConnectionLost
  BY <1>6 DEF ConnectionLost, Fault, RunInv
<1>7. CASE DeferrerLost
  BY <1>7 DEF DeferrerLost, CloseBlocked, RunInv, NothingFailedYet
<1> QED
  BY <1>1, <1>2, <1>3, <1>4, <1>5, <1>6, <1>7, Zenon

-----------------------------------------------------------------------------
(***************************************************************************)
(* The theorem.                                                            *)
(***************************************************************************)

\* A message is acknowledged, rejected or requeued so that a signal that is not finished
\* always has a copy, unless a Defer took another's confirmation for its own, which needs a
\* failed call before it; and only what cannot be read is dead-lettered.
THEOREM SignalsAreKept == Spec => []EverySignalKept
<1>1. Init => ConsumerInv /\ RunInv
  <2> SUFFICES ASSUME Init PROVE ConsumerInv /\ RunInv
    OBVIOUS
  <2>1. TypeOK /\ TasksFit
    BY Zenon DEF Init, TypeOK, TasksFit, TaskState, NoTask
  <2>2. RunInv
    BY DEF Init, RunInv, NothingFailedYet, NoTask
  <2> QED
    BY <2>1, <2>2 DEF Init, ConsumerInv, Kept, Message
<1>2. ConsumerInv /\ RunInv /\ [Next]_vars => ConsumerInv' /\ RunInv'
  <2> SUFFICES ASSUME ConsumerInv, RunInv, [Next]_vars PROVE ConsumerInv' /\ RunInv'
    OBVIOUS
  <2>1. CASE UNCHANGED vars
    BY <2>1, Zenon DEF vars, ConsumerInv, TypeOK, TasksFit, Kept, RunInv, NothingFailedYet
  <2>2. CASE Next
    <3>1. ConsumerInv'
      BY <2>2, ReceivesKept, ProcessKept, SettlesKept, ConnectionLostKept, DeferralExpiresKept,
         RunKept DEF Next, TaskNext
    <3>2. RunInv'
      BY <2>2, TaskStepRun, OtherStepRun, Zenon DEF Next
    <3> QED
      BY <3>1, <3>2
  <2> QED
    BY <2>1, <2>2
<1>3. ConsumerInv /\ RunInv => EverySignalKept
  <2> SUFFICES ASSUME ConsumerInv, RunInv PROVE EverySignalKept
    OBVIOUS
  <2>1. ASSUME NEW m \in (Busy \cup (Prompt \ finished)) \ dropped
        PROVE  ready[m] + deferred[m] > 0 \/ Held(m) # {}
    <3>1. Kept(m) /\ ready[m] \in Nat /\ deferred[m] \in Nat
      BY Zenon DEF ConsumerInv, TypeOK, Message
    <3> QED
      BY <3>1 DEF Kept, Held
  <2> QED
    BY <2>1, Zenon DEF ConsumerInv, RunInv, NothingFailedYet, EverySignalKept
<1> QED
  BY <1>1, <1>2, <1>3, PTL DEF Spec

=============================================================================
