-------------------------- MODULE DeliveryLifecycle --------------------------
(***************************************************************************)
(* What reliable-notifier promises of a delivery, without saying how: no   *)
(* clock, lease, Outbox or message.  A delivery is accepted once, attempted *)
(* one generation at a time, and every attempt that began ends in exactly  *)
(* one result, of its own generation, which nothing rewrites.  Only a       *)
(* retryable result or a reopening offers a further generation.  A settled  *)
(* delivery is reopened only after a failure and on record, and forgotten   *)
(* as a whole.                                                              *)
(*                                                                         *)
(* A statement of the program may move several deliveries at once, so each *)
(* of them takes a step of its own or rests.                               *)
(***************************************************************************)
EXTENDS Naturals, Sequences

CONSTANT Delivery

VARIABLE life  \* life[d]: phase, generation, results and reopenings of d

Lived(phase, generation, results, reopened) ==
  [phase |-> phase, generation |-> generation, results |-> results, reopened |-> reopened]

\* Nothing is known of a delivery that is not there yet or no longer.
Begun(phase) == Lived(phase, 0, <<>>, {})

Init == life = [d \in Delivery |-> Begun("unknown")]

Accepted(was, is) ==
  /\ was.phase = "unknown"
  /\ is = Begun("waiting")

AttemptBegins(was, is) ==
  /\ was.phase = "waiting"
  /\ is = Lived("attempting", was.generation, was.results, was.reopened)

\* The attempt under way ends in class; the delivery goes on to phase and generation.
Ends(was, is, class, phase, generation) ==
  /\ was.phase = "attempting"
  /\ is = Lived(phase, generation,
                Append(was.results, [generation |-> was.generation, class |-> class]),
                was.reopened)

Succeeds(was, is) == Ends(was, is, "succeeded", "succeeded", was.generation)

Fails(was, is) == Ends(was, is, "permanent_failure", "failed", was.generation)

IsRetried(was, is) == Ends(was, is, "retryable_failure", "waiting", was.generation + 1)

\* The retry deadline passed before another attempt.
GivenUp(was, is) ==
  /\ was.phase = "waiting"
  /\ is = Lived("failed", was.generation, was.results, was.reopened)

\* An operator's decision, on record with the generation it opened.
Reopened(was, is) ==
  /\ was.phase = "failed"
  /\ is = Lived("waiting", was.generation + 1, was.results,
                was.reopened \cup {was.generation + 1})

Forgotten(was, is) ==
  /\ was.phase \in {"succeeded", "failed"}
  /\ is = Begun("forgotten")

\* A delivery that was so rests or moves on.
Moves(was, is) ==
  \/ is = was
  \/ Accepted(was, is)
  \/ AttemptBegins(was, is)
  \/ Succeeds(was, is)
  \/ Fails(was, is)
  \/ IsRetried(was, is)
  \/ GivenUp(was, is)
  \/ Reopened(was, is)
  \/ Forgotten(was, is)

Next == \A d \in Delivery : Moves(life[d], life'[d])

Spec == Init /\ [][Next]_life

=============================================================================
