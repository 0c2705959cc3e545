------------------------- MODULE DestinationLimiter -------------------------
(***************************************************************************)
(* The in-process limiter of a Worker (internal/worker/limiter.go), for    *)
(* one destination: the entries of its map share nothing but the mutex.    *)
(* Every operation holds the mutex, so it is one step; between the steps   *)
(* of one goroutine come those of the others, the clock, and signals that  *)
(* bring newer or older versions of the destination's limits.              *)
(*                                                                         *)
(* The defaults of state() for limits that are not positive are left out:  *)
(* the CHECKs on destination_versions exclude such limits.  The channel    *)
(* changed only serves acquire, which the Worker does not call.            *)
(***************************************************************************)
EXTENDS Naturals, FiniteSets

CONSTANTS
  Caller,      \* the goroutines of the process
  Version,     \* limits of the destination's versions: [maxConcurrency, interval]
  NULL,
  LastTime,    \* bound: the clock stops here
  MaxSequence  \* bound: permits granted

ASSUME LimiterAssumption ==
  /\ IsFiniteSet(Caller)
  /\ Version \subseteq [maxConcurrency : Nat \ {0}, interval : Nat]
  /\ LastTime \in Nat
  /\ MaxSequence \in Nat

VARIABLES
  time,     \* limiter.now()
  limits,   \* the destinationLimitState, NULL before the first signal
  permits,  \* permits[g]: the destinationPermit goroutine g holds
  admitted  \* history: grants whose permit is held or was released as claimed

limiterVars == <<time, limits, permits, admitted>>

LimitState ==
  [active : Nat, maxConcurrent : Nat \ {0}, minInterval : Nat,
   nextAllowed : Nat, lastSequence : Nat]

\* limit and at are history: the limit of the version the permit was asked for, and
\* the time it was granted.
Permit ==
  [sequence : Nat, previousNext : Nat, reservedNext : Nat, limit : Nat \ {0}, at : Nat]

ASSUME NoPermit == NULL \notin LimitState \cup Permit

LimiterInit ==
  /\ time = 0
  /\ limits = NULL
  /\ permits = [g \in Caller |-> NULL]
  /\ admitted = {}

ClockTicks ==
  /\ time < LastTime
  /\ time' = time + 1
  /\ UNCHANGED <<limits, permits, admitted>>

NewState(version) ==
  [active |-> 0, maxConcurrent |-> version.maxConcurrency,
   minInterval |-> version.interval, nextAllowed |-> 0, lastSequence |-> 0]

\* Mutant: the concurrency of the first version seen is kept.
StateKeepingFirst(version) ==
  IF limits = NULL THEN NewState(version) ELSE limits

\* The strictest limits seen so far win, in whatever order versions arrive.
state(version) ==
  IF limits = NULL THEN NewState(version)
  ELSE [limits EXCEPT
          !.maxConcurrent = IF version.maxConcurrency < @ THEN version.maxConcurrency ELSE @,
          !.minInterval = IF version.interval > @ THEN version.interval ELSE @]

Refuses(st) == st.active >= st.maxConcurrent \/ time < st.nextAllowed

Granted(st, version) ==
  [sequence |-> st.lastSequence + 1, previousNext |-> st.nextAllowed,
   reservedNext |-> time + st.minInterval, limit |-> version.maxConcurrency, at |-> time]

Reserved(st) ==
  [st EXCEPT !.active = @ + 1, !.lastSequence = @ + 1, !.nextAllowed = time + st.minInterval]

\* A refusal keeps what state() tightened.
tryAcquireRefused(g, version) ==
  /\ permits[g] = NULL
  /\ Refuses(state(version))
  /\ limits' = state(version)
  /\ UNCHANGED <<time, permits, admitted>>

tryAcquire(g, version) ==
  LET st == state(version)
      permit == Granted(st, version)
  IN  /\ permits[g] = NULL
      /\ st.lastSequence < MaxSequence
      /\ ~Refuses(st)
      /\ limits' = Reserved(st)
      /\ permits' = [permits EXCEPT ![g] = permit]
      /\ admitted' = admitted \cup {permit}
      /\ UNCHANGED time

\* Mutant: an unclaimed permit always gives its reservation back.
ReleasedRestoringAlways(permit, claimed) ==
  [limits EXCEPT !.active = @ - 1,
                 !.nextAllowed = IF claimed THEN @ ELSE permit.previousNext]

\* Mutant: the permit of a delivery that was not claimed stays counted.
ReleasedIfClaimed(permit, claimed) ==
  [limits EXCEPT !.active = IF claimed THEN @ - 1 ELSE @,
                 !.nextAllowed = IF /\ ~claimed
                                    /\ limits.lastSequence = permit.sequence
                                    /\ limits.nextAllowed = permit.reservedNext
                                 THEN permit.previousNext ELSE @]

\* Only the latest permit gives its reservation back.
Released(permit, claimed) ==
  [limits EXCEPT !.active = @ - 1,
                 !.nextAllowed = IF /\ ~claimed
                                    /\ limits.lastSequence = permit.sequence
                                    /\ limits.nextAllowed = permit.reservedNext
                                 THEN permit.previousNext ELSE @]

release(g, claimed) ==
  /\ permits[g] # NULL
  /\ limits' = Released(permits[g], claimed)
  /\ permits' = [permits EXCEPT ![g] = NULL]
  /\ admitted' = IF claimed THEN admitted ELSE admitted \ {permits[g]}
  /\ UNCHANGED time

LimiterNext ==
  \/ ClockTicks
  \/ \E g \in Caller, version \in Version :
       tryAcquireRefused(g, version) \/ tryAcquire(g, version)
  \/ \E g \in Caller, claimed \in BOOLEAN : release(g, claimed)

LimiterSpec == LimiterInit /\ [][LimiterNext]_limiterVars

-----------------------------------------------------------------------------
(***************************************************************************)
(* Properties.                                                             *)
(***************************************************************************)

Holders == {g \in Caller : permits[g] # NULL}

\* The limiter and its permits are well formed, and a permit has its grant on record.
LimiterTypeOK ==
  /\ time \in Nat
  /\ limits \in LimitState \cup {NULL}
  /\ permits \in [Caller -> Permit \cup {NULL}]
  /\ admitted \subseteq Permit
  /\ \A g \in Holders : permits[g] \in admitted /\ limits # NULL

\* The counter active is the number of permits held: however grants and releases, with and
\* without a claim, follow each other, none is forgotten and none counted twice.
ActiveIsOutstanding ==
  limits # NULL => limits.active = Cardinality(Holders)

\* Requests to the supplier are paced: the permits of two sends were granted at least the
\* interval apart that was in force at the first of them, although permits of deliveries
\* that turned out not to be claimable gave reservations back in between, in any order.
\* When a goroutine sends after its grant is up to the claim, which the limiter does not see.
SendsSpaced ==
  \A a, b \in admitted : a.sequence < b.sequence => b.at >= a.reservedNext

\* No goroutine was admitted beyond max_concurrency of the version it asked for,
\* whatever looser versions other goroutines still work with.
GrantedWithinLimit ==
  \A g \in Holders :
    Cardinality({h \in Holders : permits[h].sequence <= permits[g].sequence}) <= permits[g].limit

\* Every grant has a number of its own.
SequencesUnique ==
  /\ \A a, b \in admitted : a.sequence = b.sequence => a = b
  /\ \A g, h \in Holders : permits[g] = permits[h] => g = h

\* No reservation reaches past nextAllowed, nor past what a later permit would restore.
ReservationsKept ==
  \A a \in admitted :
    /\ a.sequence <= limits.lastSequence
    /\ a.reservedNext <= limits.nextAllowed
    /\ \A g \in Holders : a.sequence < permits[g].sequence => a.reservedNext <= permits[g].previousNext

LimiterInv ==
  /\ LimiterTypeOK
  /\ ActiveIsOutstanding
  /\ SendsSpaced
  /\ SequencesUnique
  /\ admitted # {} => limits # NULL
  /\ ReservationsKept

=============================================================================
