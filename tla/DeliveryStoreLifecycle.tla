----------------------- MODULE DeliveryStoreLifecycle -----------------------
(***************************************************************************)
(* The store implements the life of a delivery: the refinement mapping     *)
(* from the tables to DeliveryLifecycle.                                   *)
(***************************************************************************)
EXTENDS DeliveryStore

\* The phase a status column stands for.
Phase(status) ==
  IF status = "absent" THEN "unknown"
  ELSE IF status = "pending" THEN "waiting"
  ELSE IF status = "delivering" THEN "attempting"
  ELSE IF status = "failed_permanent" THEN "failed"
  ELSE IF status = "deleted" THEN "forgotten"
  ELSE status

\* What delivery_attempts keeps of an attempt, without its lease token.
Result(attempt) == [generation |-> attempt.generation, class |-> attempt.result_class]
Results(attempts) == [i \in DOMAIN attempts |-> Result(attempts[i])]

LifeOf(row, attempts, audits) ==
  [phase |-> Phase(row.status),
   generation |-> row.generation,
   results |-> Results(attempts),
   reopened |-> {audit.to_generation : audit \in audits}]

Life ==
  [d \in Delivery |-> LifeOf(deliveries[d], delivery_attempts[d], replay_audits[d])]

Lifecycle == INSTANCE DeliveryLifecycle WITH life <- Life

\* Whatever Workers that crash, stall or lost their lease, the background loops and
\* Replay do to a row, in whatever order: each statement of the store moves a
\* delivery along its life or leaves it alone.  An attempt that ClaimDelivery began
\* gets one result, by completeResult or RecoverExpiredDeliveries but never by both;
\* no result is rewritten; a generation follows only a retryable result or a replay
\* with its audit row; and what is settled stays so until replay or retention.
ImplementsLifecycle == Lifecycle!Spec

=============================================================================
