----------------------------- MODULE RetryTiming -----------------------------
(***************************************************************************)
(* When a retry is due: parseRetryAfter and nextAttemptAt of the Worker, in *)
(* seconds.                                                                *)
(***************************************************************************)
EXTENDS Integers

CONSTANT Hour

ASSUME HourAssumption == Hour \in Nat \ {0}

\* A Retry-After header: a number ParseInt takes, a date, or anything else, an absent
\* header and a number beyond 64 bits included.
Seconds(n) == [kind |-> "seconds", value |-> n]
Date(t) == [kind |-> "date", value |-> t]
NoRetryAfter == [kind |-> "none", value |-> 0]

AtMostHour(delay) == IF delay > Hour THEN Hour ELSE delay

\* Whether parseRetryAfter returns a delay; a date is one of the worker's clock.
HasRetryAfter(now, raw) ==
  \/ raw.kind = "seconds" /\ raw.value >= 0
  \/ raw.kind = "date" /\ raw.value > now

\* Mutant: the delay is not bounded.
RetryAfterUnbounded(now, raw) ==
  IF raw.kind = "seconds" THEN raw.value ELSE raw.value - now

\* The delay parseRetryAfter returns then.
parseRetryAfter(now, raw) ==
  AtMostHour(IF raw.kind = "seconds" THEN raw.value ELSE raw.value - now)

\* worker.jitter picks any delay below its bound, which doubles from a second and is an
\* hour at most.
Backoff(generation) ==
  {delay \in 0..(Hour - 1) : delay < 2^(IF generation > 12 THEN 12 ELSE generation)}

nextAttemptAt(now, generation, raw) ==
  IF HasRetryAfter(now, raw)
  THEN {now + parseRetryAfter(now, raw)}
  ELSE {now + delay : delay \in Backoff(generation)}

=============================================================================
