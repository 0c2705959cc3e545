--------------------------- MODULE OutboundAttempt ---------------------------
(***************************************************************************)
(* Worker.Process from the claim to the result, with every step of         *)
(* Sender.Send in between, for one delivery: goroutines that may stall     *)
(* anywhere, DNS that answers what it likes, a supplier, the worker's wall *)
(* clock that can be set, and the lease that runs on PostgreSQL's clock    *)
(* meanwhile.                                                              *)
(*                                                                         *)
(* Time is PostgreSQL's.  Context deadlines of Go are monotonic and keep   *)
(* the same pace; what worker.now() returns is off by clock.               *)
(***************************************************************************)
EXTENDS RetryTiming

CONSTANTS
  Goroutine,        \* those that may hold a claim of the delivery
  Approved,         \* addresses forbidden() lets through
  Forbidden,        \* addresses it does not
  Policy,           \* public-internet or test-only-supplier, the bound version's
  RetryAfter,       \* Retry-After headers of the supplier
  RequestTimeout,   \* of the bound version, at most 60 s
  LeaseDuration,    \* 90 s
  RetryWindow,      \* 24 h
  MaxClock,         \* bound: how far the worker's clock is off
  MaxStall,         \* bound: time goroutines spend neither running nor waiting
  MaxTime,          \* bound: the clock stops here
  MaxGeneration     \* bound: retries stop here

Address == Approved \cup Forbidden

ASSUME AttemptAssumption ==
  /\ RequestTimeout \in Nat \ {0}
  /\ LeaseDuration \in Nat \ {0}
  /\ RequestTimeout < LeaseDuration
  /\ RetryWindow \in Nat \ {0}
  /\ MaxClock \in Nat /\ MaxStall \in Nat /\ MaxTime \in Nat /\ MaxGeneration \in Nat
  /\ Policy \in {"public-internet", "test-only-supplier"}
  /\ RetryAfter \subseteq [kind : {"seconds", "date", "none"}, value : Int]

\* A status the version counts as success, one it retries, and any other.
Response == {"success", "retry", "other"}

VARIABLES
  now,        \* clock_timestamp()
  clock,      \* worker.now() is now + clock
  row,        \* the delivery
  sends,      \* sends[g]: the attempt goroutine g is in
  dialled,    \* addresses connections were made to
  responses   \* generations and responses received

vars == <<now, clock, row, sends, dialled, responses>>

Idle == [pc |-> "idle", generation |-> 0, lease_until |-> 0, startedAt |-> 0,
         finishedAt |-> 0, deadline |-> 0, address |-> "none", class |-> "none",
         raw |-> NoRetryAfter, stalled |-> 0]

\* Send waits for somebody else in these states, under attemptContext.
Waiting == {"resolving", "credential", "connecting", "responding"}

Init ==
  /\ now = 0
  /\ clock \in 0..MaxClock
  /\ row = [status |-> "pending", generation |-> 0, next_attempt_at |-> 0,
            retry_deadline |-> RetryWindow, lease_until |-> 0, failure |-> "none"]
  /\ sends = [g \in Goroutine |-> Idle]
  /\ dialled = {}
  /\ responses = {}

-----------------------------------------------------------------------------
(***************************************************************************)
(* Time.                                                                   *)
(***************************************************************************)

\* Goroutines a tick holds up: those that wait for nobody, or no longer need to.
HeldUp == {g \in Goroutine : \/ sends[g].pc \in {"claimed", "result"}
                             \/ sends[g].pc \in Waiting /\ now >= sends[g].deadline}

Tick ==
  /\ now < MaxTime
  /\ \A g \in HeldUp : sends[g].stalled < MaxStall
  /\ now' = now + 1
  /\ sends' = [g \in Goroutine |->
                 IF g \in HeldUp THEN [sends[g] EXCEPT !.stalled = @ + 1] ELSE sends[g]]
  /\ UNCHANGED <<clock, row, dialled, responses>>

\* The worker's clock is set.
ClockSteps ==
  /\ clock' \in 0..MaxClock
  /\ clock' # clock
  /\ UNCHANGED <<now, row, sends, dialled, responses>>

-----------------------------------------------------------------------------
(***************************************************************************)
(* Sender.Send.                                                            *)
(***************************************************************************)

\* Send returns, finishedAt is read, and the result is classified.
Returns(g, class, raw) ==
  sends' = [sends EXCEPT ![g].pc = "result", ![g].class = class, ![g].raw = raw,
                         ![g].finishedAt = now + clock]

ClaimDelivery(g) ==
  /\ sends[g] = Idle
  /\ row.status = "pending"
  /\ row.next_attempt_at <= now
  /\ row.retry_deadline > now
  /\ row' = [row EXCEPT !.status = "delivering", !.lease_until = now + LeaseDuration]
  /\ sends' = [sends EXCEPT ![g] = [Idle EXCEPT !.pc = "claimed",
                                                !.generation = row.generation,
                                                !.lease_until = now + LeaseDuration]]
  /\ UNCHANGED <<now, clock, dialled, responses>>

\* startedAt is read, attemptContext created, and what is known beforehand checked: the
\* URL, the method, the stored headers and the network policy.
SendStarts(g) ==
  /\ sends[g].pc = "claimed"
  /\ sends' = [sends EXCEPT ![g].pc = "resolving", ![g].startedAt = now + clock,
                            ![g].deadline = now + RequestTimeout]
  /\ UNCHANGED <<now, clock, row, dialled, responses>>

SendRefuses(g) ==
  /\ sends[g].pc = "claimed"
  /\ sends' = [sends EXCEPT ![g].pc = "result", ![g].class = "permanent",
                            ![g].startedAt = now + clock, ![g].finishedAt = now + clock]
  /\ UNCHANGED <<now, clock, row, dialled, responses>>

\* validateAddresses: under public-internet a single forbidden address spoils the answer.
validateAddresses(addresses) ==
  /\ addresses # {}
  /\ Policy = "public-internet" => addresses \cap Forbidden = {}

\* LookupIP answered in time; addresses[0] is kept for the connection.
Resolves(g, addresses) ==
  /\ sends[g].pc = "resolving"
  /\ now <= sends[g].deadline
  /\ IF validateAddresses(addresses)
     THEN \E a \in addresses :
            sends' = [sends EXCEPT ![g].pc = "credential", ![g].address = a]
     ELSE Returns(g, "permanent", NoRetryAfter)
  /\ UNCHANGED <<now, clock, row, dialled, responses>>

\* Mutant: the HTTP client starts a timeout of its own.
CredentialResolvesAnew(g) ==
  /\ sends[g].pc = "credential"
  /\ now <= sends[g].deadline
  /\ sends' = [sends EXCEPT ![g].pc = "connecting", ![g].deadline = now + RequestTimeout]
  /\ UNCHANGED <<now, clock, row, dialled, responses>>

\* The request is built with it, which does not fail for a URL and a method that were
\* checked.
CredentialResolves(g) ==
  /\ sends[g].pc = "credential"
  /\ now <= sends[g].deadline
  /\ sends' = [sends EXCEPT ![g].pc = "connecting"]
  /\ UNCHANGED <<now, clock, row, dialled, responses>>

\* Mutant: the connection is made by name, and DNS asked once more.
ConnectsByName(g) ==
  /\ sends[g].pc = "connecting"
  /\ now <= sends[g].deadline
  /\ \E a \in Address : dialled' = dialled \cup {a}
  /\ sends' = [sends EXCEPT ![g].pc = "responding"]
  /\ UNCHANGED <<now, clock, row, responses>>

\* DialContext connects to the address that was validated, whatever DNS says now.
Connects(g) ==
  /\ sends[g].pc = "connecting"
  /\ now <= sends[g].deadline
  /\ dialled' = dialled \cup {sends[g].address}
  /\ sends' = [sends EXCEPT ![g].pc = "responding"]
  /\ UNCHANGED <<now, clock, row, responses>>

\* Mutant: a response is a success unless it asks for a retry.
classifyLeniently(response) == IF response = "retry" THEN "retryable" ELSE "success"

\* classify, for a response.
classify(response) ==
  IF response = "success" THEN "success"
  ELSE IF response = "retry" THEN "retryable" ELSE "permanent"

Responds(g, response, raw) ==
  /\ sends[g].pc = "responding"
  /\ now <= sends[g].deadline
  /\ responses' = responses \cup {<<sends[g].generation, response>>}
  /\ Returns(g, classify(response), raw)
  /\ UNCHANGED <<now, clock, row, dialled>>

\* DNS, the secret, the connection or the request failed, or attemptContext is done:
\* not a permanent error.
SendFails(g) ==
  /\ sends[g].pc \in Waiting
  /\ Returns(g, "retryable", NoRetryAfter)
  /\ UNCHANGED <<now, clock, row, dialled, responses>>

-----------------------------------------------------------------------------
(***************************************************************************)
(* The result.                                                             *)
(***************************************************************************)

\* The fencing predicate; the token stands for the claim, here its generation.
LeaseHeld(g) ==
  /\ row.status = "delivering"
  /\ row.generation = sends[g].generation
  /\ row.lease_until > now

\* CHECK (finished_at >= started_at) of delivery_attempts.
Recordable(g) == sends[g].finishedAt >= sends[g].startedAt

\* The row completeResult leaves; the attempt it inserts is DeliveryStore's.
Finishes(status, failure, advance, nextAttempt) ==
  row' = [row EXCEPT !.status = status, !.lease_until = 0, !.failure = failure,
                     !.generation = @ + advance, !.next_attempt_at = nextAttempt]

\* Mutant: the last hour of the cycle is not used.
ExhaustsEarly(nextAttempt) == nextAttempt + Hour >= row.retry_deadline

Exhausts(nextAttempt) == nextAttempt >= row.retry_deadline

\* CompleteSuccess, CompletePermanent or CompleteRetry commits; the UPDATE of a retry
\* compares it with retry_deadline once more.
Commits(g) ==
  /\ sends[g].pc = "result"
  /\ LeaseHeld(g)
  /\ Recordable(g)
  /\ \/ /\ sends[g].class = "success"
        /\ Finishes("succeeded", "none", 0, row.next_attempt_at)
     \/ /\ sends[g].class = "permanent"
        /\ Finishes("failed_permanent", "permanent", 0, row.next_attempt_at)
     \/ /\ sends[g].class = "retryable"
        /\ row.generation < MaxGeneration
        /\ \E t \in nextAttemptAt(sends[g].finishedAt, sends[g].generation, sends[g].raw) :
             IF Exhausts(t)
             THEN Finishes("failed_permanent", "retry_deadline_exhausted", 0,
                           row.next_attempt_at)
             ELSE /\ t < row.retry_deadline
                  /\ Finishes("pending", "none", 1, t)
  /\ sends' = [sends EXCEPT ![g] = Idle]
  /\ UNCHANGED <<now, clock, dialled, responses>>

\* ErrWorkerLeaseLost, a row the CHECK refuses, a failed call or a crash: nothing changes
\* and the goroutine forgets the attempt.
Forgets(g) ==
  /\ sends[g] # Idle
  /\ sends' = [sends EXCEPT ![g] = Idle]
  /\ UNCHANGED <<now, clock, row, dialled, responses>>

\* RecoverExpiredDeliveries.
Recovers ==
  /\ row.status = "delivering"
  /\ row.lease_until <= now
  /\ row.generation < MaxGeneration
  /\ row' = IF row.retry_deadline <= now
            THEN [row EXCEPT !.status = "failed_permanent", !.lease_until = 0,
                             !.failure = "lease_expired", !.next_attempt_at = now]
            ELSE [row EXCEPT !.status = "pending", !.lease_until = 0,
                             !.generation = @ + 1, !.next_attempt_at = now]
  /\ UNCHANGED <<now, clock, sends, dialled, responses>>

\* ScheduleDueRetries on a pending delivery past its deadline.
Expires ==
  /\ row.status = "pending"
  /\ row.retry_deadline <= now
  /\ row' = [row EXCEPT !.status = "failed_permanent", !.failure = "deadline"]
  /\ UNCHANGED <<now, clock, sends, dialled, responses>>

-----------------------------------------------------------------------------
Next ==
  \/ Tick
  \/ ClockSteps
  \/ \E g \in Goroutine :
       \/ ClaimDelivery(g)
       \/ SendStarts(g)
       \/ SendRefuses(g)
       \/ \E addresses \in SUBSET Address : Resolves(g, addresses)
       \/ CredentialResolves(g)
       \/ Connects(g)
       \/ \E response \in Response, raw \in RetryAfter : Responds(g, response, raw)
       \/ SendFails(g)
       \/ Commits(g)
       \/ Forgets(g)
  \/ Recovers
  \/ Expires

Spec == Init /\ [][Next]_vars

-----------------------------------------------------------------------------
(***************************************************************************)
(* Properties.                                                             *)
(***************************************************************************)

\* No connection is made to an address that a check of the same attempt did not approve,
\* though DNS is free to answer differently at every question.
OnlyApprovedDialled == Policy = "public-internet" => dialled \subseteq Approved

\* A delivery is succeeded only if the supplier gave a qualifying response to the very
\* generation that succeeded: not for a response of an earlier one, nor for any answer.
SuccessWasObserved ==
  row.status = "succeeded" => <<row.generation, "success">> \in responses

\* The lease outlives the attempt: as one attemptContext bounds DNS, secret, connection
\* and response together, a goroutine that comes back with a result after its lease has
\* expired was held up for longer than LeaseDuration - RequestTimeout.
LeaseOutlivesAttempt ==
  \A g \in Goroutine :
    sends[g].pc = "result" /\ now >= sends[g].lease_until =>
      sends[g].stalled >= LeaseDuration - RequestTimeout

\* A retry is due within its cycle and within an hour of the attempt before it, in
\* PostgreSQL's time up to the error of the worker's clock.
RetryIsDueInTime ==
  row.status = "pending" =>
    /\ row.next_attempt_at < row.retry_deadline
    /\ row.next_attempt_at <= now + Hour + MaxClock

\* A delivery is not given up early: it fails without a permanent error only when its
\* deadline is less than an hour, and the error of the worker's clock, away.
NotGivenUpEarly ==
  row.failure = "retry_deadline_exhausted" => now + Hour + MaxClock >= row.retry_deadline

-----------------------------------------------------------------------------
(***************************************************************************)
(* The inductive invariant.                                                *)
(***************************************************************************)

\* The delivery, and the attempt of a goroutine.
Row ==
  [status : {"pending", "delivering", "succeeded", "failed_permanent"},
   generation : Nat, next_attempt_at : Int, retry_deadline : {RetryWindow}, lease_until : Nat,
   failure : {"none", "permanent", "retry_deadline_exhausted", "lease_expired", "deadline"}]

State ==
  [pc : Waiting \cup {"idle", "claimed", "result"}, generation : Nat, lease_until : Nat,
   startedAt : Nat, finishedAt : Nat, deadline : Nat, address : Address \cup {"none"},
   class : {"none", "success", "retryable", "permanent"},
   raw : RetryAfter \cup {NoRetryAfter}, stalled : Nat]

TypeOK ==
  /\ now \in Nat
  /\ clock \in 0..MaxClock
  /\ row \in Row
  /\ sends \in [Goroutine -> State]

\* What is known of attempt s at time t, given the responses received: the address that
\* was validated, the response behind a success, the worker's clock when it finished, and
\* the time since the claim, which is spent stalled but for RequestTimeout.
AttemptFits(s, t, received) ==
  /\ s.pc \in Waiting \ {"resolving"} /\ Policy = "public-internet" => s.address \in Approved
  /\ s.pc = "result" =>
       /\ s.class = "success" => <<s.generation, "success">> \in received
       /\ s.finishedAt <= t + MaxClock
       /\ t + LeaseDuration <= s.lease_until + s.stalled + RequestTimeout
  /\ s.pc = "claimed" => t + LeaseDuration <= s.lease_until + s.stalled
  /\ s.pc \in Waiting =>
       /\ t + LeaseDuration <= s.lease_until + s.stalled + RequestTimeout
       /\ s.deadline + LeaseDuration <= s.lease_until + s.stalled + RequestTimeout

AttemptInv ==
  /\ TypeOK
  /\ \A g \in Goroutine : AttemptFits(sends[g], now, responses)
  /\ OnlyApprovedDialled
  /\ SuccessWasObserved
  /\ RetryIsDueInTime
  /\ NotGivenUpEarly

=============================================================================
