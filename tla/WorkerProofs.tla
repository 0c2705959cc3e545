---------------------------- MODULE WorkerProofs ----------------------------
(***************************************************************************)
(* What Process does between a claim and its result: the theorems about    *)
(* DestinationLimiter, for any number of goroutines, any set of versions   *)
(* and any rate, and about OutboundAttempt, for any number of goroutines,  *)
(* any DNS, supplier and worker's clock, and every timeout below the       *)
(* lease.                                                                  *)
(***************************************************************************)
EXTENDS DestinationLimiter, OutboundAttempt, FiniteSetTheorems, TLAPS

-----------------------------------------------------------------------------
(***************************************************************************)
(* The limiter.                                                            *)
(***************************************************************************)

\* state() leaves a limit state with the counters and reservation it had.
LEMMA StateOf ==
  ASSUME limits \in LimitState \cup {NULL}, NEW v \in Version
  PROVE  /\ state(v) \in LimitState
         /\ limits # NULL => /\ state(v).active = limits.active
                             /\ state(v).lastSequence = limits.lastSequence
                             /\ state(v).nextAllowed = limits.nextAllowed
         /\ limits = NULL => state(v).active = 0
<1>1. v.maxConcurrency \in Nat \ {0} /\ v.interval \in Nat
  BY LimiterAssumption, Zenon
<1>2. CASE limits = NULL
  BY <1>1, <1>2, Zenon DEF state, NewState, LimitState
<1>3. CASE limits # NULL
  <2>1. limits \in LimitState
    BY <1>3, Zenon
  <2> QED
    BY <1>1, <1>3, <2>1, Zenon DEF state, LimitState
<1> QED
  BY <1>2, <1>3, Zenon

\* A grant takes the next number and reserves the time up to reservedNext.
LEMMA GrantOf ==
  ASSUME NEW st \in LimitState, NEW v \in Version, time \in Nat
  PROVE  /\ Granted(st, v) \in Permit
         /\ Granted(st, v).sequence = st.lastSequence + 1
         /\ Granted(st, v).previousNext = st.nextAllowed
         /\ Granted(st, v).reservedNext = time + st.minInterval
         /\ Granted(st, v).at = time
         /\ Reserved(st) \in LimitState
         /\ Reserved(st).lastSequence = st.lastSequence + 1
         /\ Reserved(st).nextAllowed = time + st.minInterval
         /\ Reserved(st).active = st.active + 1
<1>1. v.maxConcurrency \in Nat \ {0}
  BY LimiterAssumption, Zenon
<1>2. st.lastSequence + 1 \in Nat /\ time + st.minInterval \in Nat /\ st.active + 1 \in Nat
  BY DEF LimitState
<1> QED
  BY <1>1, <1>2, Zenon DEF Granted, Reserved, LimitState, Permit

\* One goroutine more or less holds a permit.
LEMMA CountHolders ==
  ASSUME NEW g \in Caller
  PROVE  /\ Cardinality(Holders) \in Nat
         /\ g \notin Holders => Cardinality(Holders \cup {g}) = Cardinality(Holders) + 1
         /\ g \in Holders => /\ Cardinality(Holders \ {g}) = Cardinality(Holders) - 1
                             /\ Cardinality(Holders) > 0
<1>1. IsFiniteSet(Holders)
  BY LimiterAssumption, FS_Subset, Zenon DEF Holders
<1>2. Cardinality(Holders) \in Nat
  BY <1>1, FS_CardinalityType, Zenon
<1>3. g \notin Holders => Cardinality(Holders \cup {g}) = Cardinality(Holders) + 1
  BY <1>1, FS_AddElement, Zenon
<1>4. g \in Holders => Cardinality(Holders \ {g}) = Cardinality(Holders) - 1
  BY <1>1, FS_RemoveElement, Zenon
<1>5. g \in Holders => Cardinality(Holders) # 0
  BY <1>1, FS_EmptySet, Zenon
<1> QED
  BY <1>2, <1>3, <1>4, <1>5

\* No permit is held and nothing was sent.
LEMMA InitLimiter == LimiterInit => LimiterInv
  BY DEF LimiterInit, LimiterInv, LimiterTypeOK, ActiveIsOutstanding, Holders, SendsSpaced,
     SequencesUnique, ReservationsKept

\* A refused request changes no reservation.
LEMMA RefusedLimiter ==
  ASSUME LimiterInv, NEW g \in Caller, NEW v \in Version, tryAcquireRefused(g, v)
  PROVE  LimiterInv'
<1>1. limits \in LimitState \cup {NULL}
  BY Zenon DEF LimiterInv, LimiterTypeOK
<1>2. limits' \in LimitState /\ limits' # NULL
  BY <1>1, StateOf, NoPermit, Zenon DEF tryAcquireRefused
<1>3. limits # NULL => /\ limits'.lastSequence = limits.lastSequence
                       /\ limits'.nextAllowed = limits.nextAllowed
  BY <1>1, StateOf, Zenon DEF tryAcquireRefused
<1>4. UNCHANGED <<time, permits, admitted>>
  BY Zenon DEF tryAcquireRefused
<1>5. LimiterTypeOK'
  BY <1>2, <1>4, Zenon DEF LimiterInv, LimiterTypeOK, Holders
<1>6. SendsSpaced' /\ SequencesUnique'
  BY <1>4, Zenon DEF LimiterInv, SendsSpaced, SequencesUnique, Holders
<1>7. ReservationsKept'
  BY <1>3, <1>4, Zenon DEF LimiterInv, ReservationsKept, Holders
<1>8. ActiveIsOutstanding'
  <2>1. Holders' = Holders
    BY <1>4, Zenon DEF Holders
  <2>2. limits = NULL => Holders = {} /\ limits'.active = 0
    BY <1>1, StateOf, Zenon DEF tryAcquireRefused, LimiterInv, LimiterTypeOK
  <2>3. limits # NULL => limits'.active = limits.active
    BY <1>1, StateOf, Zenon DEF tryAcquireRefused
  <2> QED
    BY <2>1, <2>2, <2>3, FS_EmptySet, Zenon DEF LimiterInv, ActiveIsOutstanding
<1> QED
  BY <1>2, <1>5, <1>6, <1>7, <1>8, Zenon DEF LimiterInv

\* A grant comes after every reservation, and would give back no other one.
LEMMA AcquireLimiter ==
  ASSUME LimiterInv, NEW g \in Caller, NEW v \in Version, tryAcquire(g, v)
  PROVE  LimiterInv'
<1> DEFINE st == state(v)
           permit == Granted(st, v)
<1>1. limits \in LimitState \cup {NULL} /\ time \in Nat
  BY Zenon DEF LimiterInv, LimiterTypeOK
<1>2. /\ st \in LimitState
      /\ limits # NULL => st.lastSequence = limits.lastSequence
                          /\ st.nextAllowed = limits.nextAllowed
  BY <1>1, StateOf, Zenon
<1>3. /\ permits[g] = NULL
      /\ st.nextAllowed <= time
      /\ limits' = Reserved(st)
      /\ permits' = [permits EXCEPT ![g] = permit]
      /\ admitted' = admitted \cup {permit}
      /\ time' = time
  BY <1>1, <1>2 DEF tryAcquire, Refuses, LimitState
<1> HIDE DEF st, permit
<1>4. /\ permit \in Permit
      /\ permit.sequence = st.lastSequence + 1
      /\ permit.previousNext = st.nextAllowed
      /\ permit.reservedNext = time + st.minInterval
      /\ permit.at = time
      /\ limits' \in LimitState /\ limits' # NULL
      /\ limits'.lastSequence = st.lastSequence + 1
      /\ limits'.nextAllowed = time + st.minInterval
  BY <1>1, <1>2, <1>3, GrantOf, NoPermit, Zenon DEF permit
<1>5. permits \in [Caller -> Permit \cup {NULL}] /\ admitted \subseteq Permit
  BY Zenon DEF LimiterInv, LimiterTypeOK
<1>6. /\ permits'[g] = permit /\ permit # NULL
      /\ \A h \in Caller : h # g => permits'[h] = permits[h]
  BY <1>3, <1>4, <1>5, NoPermit, Zenon
<1>7. \A a \in admitted : /\ a.sequence \in Nat /\ a.reservedNext \in Nat
                       /\ a.sequence <= st.lastSequence
                       /\ a.reservedNext <= st.nextAllowed
  BY <1>2, <1>5, Zenon DEF LimiterInv, ReservationsKept, Permit
<1>8. st.lastSequence \in Nat /\ st.nextAllowed \in Nat /\ st.minInterval \in Nat
  BY <1>2, Zenon DEF LimitState
<1>9. LimiterTypeOK'
  BY <1>1, <1>3, <1>4, <1>5, <1>6, Zenon DEF LimiterInv, LimiterTypeOK, Holders
<1>10. \A a \in admitted : a.sequence < permit.sequence /\ permit.at >= a.reservedNext
  BY <1>1, <1>3, <1>4, <1>7, <1>8
<1>11. SendsSpaced'
  <2> SUFFICES ASSUME NEW a \in admitted', NEW b \in admitted', a.sequence < b.sequence
               PROVE  b.at >= a.reservedNext
    BY Zenon DEF SendsSpaced
  <2>1. permit.sequence \in Nat
    BY <1>4, <1>8
  <2>2. CASE a \in admitted /\ b \in admitted
    BY <2>2, Zenon DEF LimiterInv, SendsSpaced
  <2>3. CASE a = permit
    BY <1>3, <1>7, <1>10, <2>1, <2>3
  <2>4. CASE b = permit /\ a \in admitted
    BY <1>10, <2>4, Zenon
  <2> QED
    BY <1>3, <2>2, <2>3, <2>4, Zenon
<1>12. SequencesUnique'
  <2>1. permit.sequence \in Nat /\ permit \notin admitted
    BY <1>4, <1>7, <1>8, <1>10
  <2>2. \A a, b \in admitted' : a.sequence = b.sequence => a = b
    BY <1>3, <1>7, <1>10, <2>1 DEF LimiterInv, SequencesUnique
  <2>3. \A h \in Holders : permits[h] # permit
    BY <2>1, Zenon DEF LimiterInv, LimiterTypeOK
  <2>4. \A i, h \in Holders' : permits'[i] = permits'[h] => i = h
    BY <1>6, <2>3 DEF LimiterInv, SequencesUnique, Holders
  <2> QED
    BY <2>2, <2>4, Zenon DEF SequencesUnique
<1>13. ReservationsKept'
  <2> SUFFICES ASSUME NEW a \in admitted'
               PROVE  /\ a.sequence <= limits'.lastSequence
                      /\ a.reservedNext <= limits'.nextAllowed
                      /\ \A h \in Holders' : a.sequence < permits'[h].sequence =>
                                               a.reservedNext <= permits'[h].previousNext
    BY Zenon DEF ReservationsKept
  <2>1. CASE a \in admitted
    <3>1. a.sequence <= limits'.lastSequence /\ a.reservedNext <= limits'.nextAllowed
      BY <1>1, <1>3, <1>4, <1>7, <1>8, <2>1
    <3>2. a.reservedNext <= permit.previousNext
      BY <1>4, <1>7, <2>1, Zenon
    <3> QED
      BY <1>6, <2>1, <3>1, <3>2, Zenon DEF LimiterInv, ReservationsKept, Holders
  <2>2. CASE a = permit
    <3>1. a.sequence <= limits'.lastSequence /\ a.reservedNext <= limits'.nextAllowed
      BY <1>1, <1>4, <1>8, <2>2
    <3>2. \A h \in Holders : permits[h] \in admitted
      BY Zenon DEF LimiterInv, LimiterTypeOK
    <3>3. \A h \in Holders' : ~(a.sequence < permits'[h].sequence)
      BY <1>4, <1>6, <1>7, <1>8, <1>10, <2>2, <3>2 DEF Holders
    <3> QED
      BY <3>1, <3>3, Zenon
  <2> QED
    BY <1>3, <2>1, <2>2, Zenon
<1>14. ActiveIsOutstanding'
  <2>1. Holders' = Holders \cup {g} /\ g \notin Holders
    BY <1>3, <1>6, Zenon DEF Holders
  <2>2. limits'.active = st.active + 1
    BY <1>1, <1>2, <1>3, GrantOf, Zenon
  <2>3. st.active = Cardinality(Holders)
    <3>1. CASE limits = NULL
      <4>1. Holders = {}
        BY <3>1, Zenon DEF LimiterInv, LimiterTypeOK
      <4> QED
        BY <1>1, <3>1, <4>1, StateOf, FS_EmptySet, Zenon DEF st
    <3>2. CASE limits # NULL
      BY <1>1, <3>2, StateOf, Zenon DEF st, LimiterInv, ActiveIsOutstanding
    <3> QED
      BY <3>1, <3>2, Zenon
  <2> QED
    BY <2>1, <2>2, <2>3, CountHolders, Zenon DEF ActiveIsOutstanding
<1> QED
  BY <1>4, <1>9, <1>11, <1>12, <1>13, <1>14, Zenon DEF LimiterInv

\* A permit given back takes its own reservation with it at most.
LEMMA ReleaseLimiter ==
  ASSUME LimiterInv, NEW g \in Caller, NEW claimed \in BOOLEAN, release(g, claimed)
  PROVE  LimiterInv'
<1> DEFINE permit == permits[g]
<1>1. /\ g \in Holders /\ permit \in admitted /\ permit \in Permit
      /\ limits \in LimitState /\ limits # NULL
      /\ permits \in [Caller -> Permit \cup {NULL}]
      /\ admitted \subseteq Permit
  BY Zenon DEF release, LimiterInv, LimiterTypeOK, Holders
<1>2. /\ limits' = Released(permit, claimed)
      /\ permits' = [permits EXCEPT ![g] = NULL]
      /\ admitted' = (IF claimed THEN admitted ELSE admitted \ {permit})
      /\ time' = time
  BY Zenon DEF release
<1> HIDE DEF permit
<1>3. admitted' \subseteq admitted
  BY <1>2, Zenon
<1>4. /\ Holders' = Holders \ {g}
      /\ \A h \in Holders' : permits'[h] = permits[h] /\ permits[h] # permit
  BY <1>1, <1>2, Zenon DEF Holders, LimiterInv, SequencesUnique, permit
<1>5. limits.active = Cardinality(Holders) /\ limits.active \in Nat /\ limits.active > 0
  BY <1>1, CountHolders, Zenon DEF LimiterInv, ActiveIsOutstanding
<1>6. limits.active - 1 \in Nat
  BY <1>5
<1>7. /\ limits' \in LimitState /\ limits' # NULL
      /\ limits'.active = limits.active - 1
      /\ limits'.lastSequence = limits.lastSequence
      /\ \/ limits'.nextAllowed = limits.nextAllowed
         \/ /\ ~claimed
            /\ limits.lastSequence = permit.sequence
            /\ limits'.nextAllowed = permit.previousNext
  <2>1. permit.previousNext \in Nat
    BY <1>1, Zenon DEF Permit
  <2>2. limits' \in LimitState
    BY <1>1, <1>2, <1>6, <2>1, Zenon DEF Released, LimitState
  <2> QED
    BY <1>1, <1>2, <2>2, NoPermit, Zenon DEF Released, LimitState
<1>8. LimiterTypeOK'
  <2>1. permits' \in [Caller -> Permit \cup {NULL}]
    BY <1>1, <1>2, Zenon
  <2>2. \A h \in Holders' : permits'[h] \in admitted'
    BY <1>2, <1>4 DEF LimiterInv, LimiterTypeOK
  <2> QED
    BY <1>1, <1>2, <1>3, <1>7, <2>1, <2>2, Zenon DEF LimiterInv, LimiterTypeOK
<1>9. SendsSpaced' /\ SequencesUnique'
  BY <1>3, <1>4 DEF LimiterInv, SendsSpaced, SequencesUnique
<1>10. ReservationsKept'
  <2> SUFFICES ASSUME NEW a \in admitted'
               PROVE  /\ a.sequence <= limits'.lastSequence
                      /\ a.reservedNext <= limits'.nextAllowed
                      /\ \A h \in Holders' : a.sequence < permits'[h].sequence =>
                                               a.reservedNext <= permits'[h].previousNext
    BY Zenon DEF ReservationsKept
  <2>1. a \in admitted /\ a.sequence <= limits.lastSequence /\ a.reservedNext <= limits.nextAllowed
    BY <1>3, Zenon DEF LimiterInv, ReservationsKept
  <2>2. a.reservedNext <= limits'.nextAllowed
    <3>1. CASE limits'.nextAllowed = limits.nextAllowed
      BY <2>1, <3>1, Zenon
    <3>2. CASE ~claimed /\ limits.lastSequence = permit.sequence
               /\ limits'.nextAllowed = permit.previousNext
      <4>1. a # permit
        BY <1>2, <3>2, Zenon
      <4>2. a.sequence # permit.sequence
        BY <1>1, <2>1, <4>1, Zenon DEF LimiterInv, SequencesUnique
      <4>3. a.sequence \in Nat /\ permit.sequence \in Nat
        BY <1>1, <2>1, Zenon DEF Permit
      <4>4. a.sequence < permit.sequence
        BY <2>1, <3>2, <4>2, <4>3
      <4> QED
        BY <1>1, <2>1, <3>2, <4>4, Zenon DEF LimiterInv, ReservationsKept, permit
    <3> QED
      BY <1>7, <3>1, <3>2, Zenon
  <2> QED
    BY <1>4, <1>7, <2>1, <2>2, Zenon DEF LimiterInv, ReservationsKept
<1>11. ActiveIsOutstanding'
  BY <1>1, <1>4, <1>5, <1>7, CountHolders, Zenon DEF ActiveIsOutstanding
<1> QED
  BY <1>7, <1>8, <1>9, <1>10, <1>11, Zenon DEF LimiterInv

\* Every operation of the limiter preserves the inductive invariant.
LEMMA NextLimiter == LimiterInv /\ [LimiterNext]_limiterVars => LimiterInv'
<1> SUFFICES ASSUME LimiterInv, [LimiterNext]_limiterVars PROVE LimiterInv'
  BY Zenon
<1>1. CASE ClockTicks
  BY <1>1 DEF ClockTicks, LimiterInv, LimiterTypeOK, ActiveIsOutstanding, SendsSpaced, SequencesUnique,
     ReservationsKept, Holders
<1>2. CASE UNCHANGED limiterVars
  BY <1>2, Zenon DEF limiterVars, LimiterInv, LimiterTypeOK, ActiveIsOutstanding, SendsSpaced, SequencesUnique,
     ReservationsKept, Holders
<1> QED
  BY <1>1, <1>2, RefusedLimiter, AcquireLimiter, ReleaseLimiter, Zenon DEF LimiterNext

\* The inductive invariant holds in every reachable state of the limiter.
THEOREM LimiterInvariance == LimiterSpec => []LimiterInv
  BY InitLimiter, NextLimiter, PTL DEF LimiterSpec

\* Whatever the order of grants, refused claims and releases, the sends to a
\* destination keep the interval tryAcquire reserved for them.
THEOREM Pacing == LimiterSpec => []SendsSpaced
<1>1. LimiterInv => SendsSpaced
  BY Zenon DEF LimiterInv
<1> QED
  BY <1>1, LimiterInvariance, PTL

\* No path of acquire and release loses or doubles a permit.
THEOREM PermitsAccountedFor == LimiterSpec => []ActiveIsOutstanding
<1>1. LimiterInv => ActiveIsOutstanding
  BY Zenon DEF LimiterInv
<1> QED
  BY <1>1, LimiterInvariance, PTL

\* The strictest limit of state() is no looser than the version asked for, and a grant
\* carries that version's own limit.
LEMMA LimitOf ==
  ASSUME limits \in LimitState \cup {NULL}, NEW v \in Version
  PROVE  /\ v.maxConcurrency \in Nat /\ state(v).maxConcurrent \in Nat
         /\ state(v).maxConcurrent <= v.maxConcurrency
         /\ Granted(state(v), v).limit = v.maxConcurrency
<1>1. v.maxConcurrency \in Nat \ {0}
  BY LimiterAssumption, Zenon
<1>2. Granted(state(v), v).limit = v.maxConcurrency
  BY Zenon DEF Granted
<1>3. CASE limits = NULL
  BY <1>1, <1>2, <1>3 DEF state, NewState
<1>4. CASE limits # NULL
  <2>1. limits \in LimitState /\ limits.maxConcurrent \in Nat
    BY <1>4, Zenon DEF LimitState
  <2>2. state(v).maxConcurrent = IF v.maxConcurrency < limits.maxConcurrent
                                 THEN v.maxConcurrency ELSE limits.maxConcurrent
    BY <1>4, <2>1, Zenon DEF state, LimitState
  <2> QED
    BY <1>1, <1>2, <2>1, <2>2
<1> QED
  BY <1>3, <1>4, Zenon

\* Those whose permit was granted no later than goroutine g's.
Before(g) == {h \in Holders : permits[h].sequence <= permits[g].sequence}

\* A permit is granted only while fewer than the limit are held, and it comes after all
\* of these; the permits before an older one do not become more.
LEMMA AcquireWithinLimit ==
  ASSUME LimiterInv, GrantedWithinLimit,
         NEW g \in Caller, NEW v \in Version, tryAcquire(g, v)
  PROVE  GrantedWithinLimit'
<1> DEFINE st == state(v)
           permit == Granted(st, v)
<1>1. limits \in LimitState \cup {NULL} /\ time \in Nat
  BY Zenon DEF LimiterInv, LimiterTypeOK
<1>2. /\ st \in LimitState
      /\ limits # NULL => st.active = limits.active /\ st.lastSequence = limits.lastSequence
      /\ limits = NULL => st.active = 0
  BY <1>1, StateOf, Zenon
<1>3. permits[g] = NULL /\ permits' = [permits EXCEPT ![g] = permit]
  BY Zenon DEF tryAcquire
<1>4. st.active < st.maxConcurrent
  BY <1>1, <1>2 DEF tryAcquire, Refuses, LimitState
<1>5. st.maxConcurrent <= permit.limit /\ permit.limit \in Nat /\ st.maxConcurrent \in Nat
  BY <1>1, LimitOf, Zenon
<1>6. permit \in Permit /\ permit.sequence = st.lastSequence + 1
  BY <1>1, <1>2, GrantOf, Zenon
<1> HIDE DEF st, permit
<1>7. permits \in [Caller -> Permit \cup {NULL}]
  BY Zenon DEF LimiterInv, LimiterTypeOK
<1>8. /\ permits'[g] = permit /\ permit # NULL
      /\ \A h \in Caller : h # g => permits'[h] = permits[h]
  BY <1>3, <1>6, <1>7, NoPermit, Zenon
<1>9. Holders' = Holders \cup {g} /\ g \notin Holders
  BY <1>3, <1>8, Zenon DEF Holders
<1>10. st.active = Cardinality(Holders) /\ st.active \in Nat
  <2>1. limits = NULL => Holders = {}
    BY Zenon DEF LimiterInv, LimiterTypeOK
  <2> QED
    BY <1>2, <2>1, FS_EmptySet, Zenon DEF LimiterInv, ActiveIsOutstanding, LimitState
<1>11. \A h \in Holders : permits[h].sequence \in Nat /\ permits[h].sequence < permit.sequence
  <2> SUFFICES ASSUME NEW h \in Holders
               PROVE  permits[h].sequence \in Nat /\ permits[h].sequence < permit.sequence
    BY Zenon
  <2>1. permits[h] \in admitted /\ permits[h] \in Permit /\ limits # NULL
    BY Zenon DEF LimiterInv, LimiterTypeOK
  <2>2. permits[h].sequence <= limits.lastSequence
    BY <2>1, Zenon DEF LimiterInv, ReservationsKept
  <2>3. permits[h].sequence \in Nat /\ st.lastSequence \in Nat
    BY <1>2, <2>1, Zenon DEF Permit, LimitState
  <2> QED
    BY <1>2, <1>6, <2>1, <2>2, <2>3
<1> SUFFICES ASSUME NEW h \in Holders'
             PROVE  Cardinality(Before(h)') <= permits'[h].limit
  BY Zenon DEF GrantedWithinLimit, Before
<1>12. CASE h = g
  <2>1. permit.sequence \in Nat
    BY <1>6, Zenon DEF Permit
  <2>2. Before(h)' = Holders \cup {g}
    BY <1>8, <1>9, <1>11, <1>12, <2>1 DEF Before, Holders
  <2>3. Cardinality(Holders \cup {g}) = Cardinality(Holders) + 1
    BY <1>9, CountHolders, Zenon
  <2> QED
    BY <1>4, <1>5, <1>8, <1>10, <1>12, <2>2, <2>3
<1>13. CASE h \in Holders
  <2>1. permit.sequence \in Nat
    BY <1>6 DEF Permit
  <2>2. h \in Caller /\ h # g /\ permits'[h] = permits[h]
    BY <1>8, <1>9, <1>13, Zenon DEF Holders
  <2>3. Before(h)' = Before(h)
    BY <1>8, <1>9, <1>11, <1>13, <2>1, <2>2 DEF Before, Holders
  <2> QED
    BY <1>13, <2>2, <2>3, Zenon DEF GrantedWithinLimit, Before
<1> QED
  BY <1>9, <1>12, <1>13, Zenon

\* Giving a permit back only makes the others fewer.
LEMMA ReleaseWithinLimit ==
  ASSUME LimiterInv, GrantedWithinLimit,
         NEW g \in Caller, NEW claimed \in BOOLEAN, release(g, claimed)
  PROVE  GrantedWithinLimit'
<1>1. permits \in [Caller -> Permit \cup {NULL}] /\ permits' = [permits EXCEPT ![g] = NULL]
  BY Zenon DEF LimiterInv, LimiterTypeOK, release
<1>2. Holders' \subseteq Holders /\ \A h \in Holders' : permits'[h] = permits[h]
  BY <1>1, Zenon DEF Holders
<1> SUFFICES ASSUME NEW h \in Holders'
             PROVE  Cardinality(Before(h)') <= permits'[h].limit
  BY Zenon DEF GrantedWithinLimit, Before
<1>3. h \in Holders /\ permits'[h] = permits[h] /\ permits[h].limit \in Nat
  BY <1>1, <1>2, Zenon DEF Holders, Permit
<1>4. Before(h)' \subseteq Before(h)
  BY <1>2, <1>3, Zenon DEF Before
<1>5. IsFiniteSet(Before(h))
  BY LimiterAssumption, FS_Subset, Zenon DEF Before, Holders
<1>6. /\ Cardinality(Before(h)') <= Cardinality(Before(h))
      /\ Cardinality(Before(h)) \in Nat /\ Cardinality(Before(h)') \in Nat
  BY <1>4, <1>5, FS_Subset, FS_CardinalityType, Zenon
<1>7. Cardinality(Before(h)) <= permits[h].limit
  BY <1>3, Zenon DEF GrantedWithinLimit, Before
<1> QED
  BY <1>3, <1>6, <1>7

\* No goroutine is admitted beyond the concurrency of the version it asked for, whatever
\* versions the others hold permits for and however many permits were given back.
THEOREM ConcurrencyBounded == LimiterSpec => []GrantedWithinLimit
<1>1. LimiterInit => GrantedWithinLimit
  BY Zenon DEF LimiterInit, GrantedWithinLimit, Holders
<1>2. LimiterInv /\ GrantedWithinLimit /\ [LimiterNext]_limiterVars => GrantedWithinLimit'
  <2> SUFFICES ASSUME LimiterInv, GrantedWithinLimit, [LimiterNext]_limiterVars PROVE GrantedWithinLimit'
    BY Zenon
  <2>1. CASE UNCHANGED permits
    BY <2>1, Zenon DEF GrantedWithinLimit, Holders
  <2>2. ASSUME NEW g \in Caller, NEW v \in Version, tryAcquireRefused(g, v)
        PROVE  UNCHANGED permits
    BY <2>2, Zenon DEF tryAcquireRefused
  <2> QED
    BY <2>1, <2>2, AcquireWithinLimit, ReleaseWithinLimit, Zenon DEF LimiterNext, ClockTicks, limiterVars
<1> QED
  BY <1>1, <1>2, LimiterInvariance, PTL DEF LimiterSpec

-----------------------------------------------------------------------------
(***************************************************************************)
(* The retry time.                                                         *)
(***************************************************************************)

\* nextAttemptAt is at most an hour after the attempt finished, whatever the header.
LEMMA DueWithinHour ==
  ASSUME NEW t \in Nat, NEW n \in Nat, NEW raw \in RetryAfter \cup {NoRetryAfter},
         NEW next \in nextAttemptAt(t, n, raw)
  PROVE  next \in Int /\ next <= t + Hour
<1>1. Hour \in Nat /\ raw.value \in Int
  BY HourAssumption, AttemptAssumption DEF NoRetryAfter
<1>2. CASE HasRetryAfter(t, raw)
  <2>1. next = t + parseRetryAfter(t, raw)
    BY <1>2, Zenon DEF nextAttemptAt
  <2>2. parseRetryAfter(t, raw) \in Int /\ parseRetryAfter(t, raw) <= Hour
    BY <1>1 DEF parseRetryAfter, AtMostHour
  <2> QED
    BY <1>1, <2>1, <2>2
<1>3. CASE ~HasRetryAfter(t, raw)
  <2>1. PICK delay \in Backoff(n) : next = t + delay
    BY <1>3, Zenon DEF nextAttemptAt
  <2>2. delay \in 0..(Hour - 1)
    BY Zenon DEF Backoff
  <2> QED
    BY <1>1, <2>1, <2>2
<1> QED
  BY <1>2, <1>3, Zenon

-----------------------------------------------------------------------------
(***************************************************************************)
(* Steps of one goroutine.                                                 *)
(***************************************************************************)

\* A step of goroutine g that leaves the row alone, connects to an approved address if at
\* all, and only adds responses, keeps the invariant when it keeps what is known of g's attempt.
LEMMA GoroutineStep ==
  ASSUME AttemptInv, NEW g \in Goroutine, NEW s \in State,
         sends' = [sends EXCEPT ![g] = s], AttemptFits(s, now, responses'),
         responses \subseteq responses', UNCHANGED dialled \/ OnlyApprovedDialled',
         UNCHANGED <<now, clock, row>>
  PROVE  AttemptInv'
<1>1. sends \in [Goroutine -> State] /\ TypeOK
  BY Zenon DEF AttemptInv, TypeOK, State
<1>2. sends' \in [Goroutine -> State]
  BY <1>1, Zenon
<1>3. TypeOK'
  BY <1>1, <1>2, Zenon DEF TypeOK, State
<1>4. ASSUME NEW h \in Goroutine
      PROVE  AttemptFits(sends'[h], now, responses')
  <2>1. CASE h = g
    BY <1>1, <2>1, Zenon
  <2>2. CASE h # g
    <3>1. sends'[h] = sends[h] /\ AttemptFits(sends[h], now, responses)
      BY <1>1, <2>2, Zenon DEF AttemptInv
    <3> QED
      BY <3>1, Zenon DEF AttemptFits
  <2> QED
    BY <2>1, <2>2, Zenon
<1>5. (\A h \in Goroutine : AttemptFits(sends[h], now, responses))'
  BY <1>4, Zenon
<1>6. /\ OnlyApprovedDialled' /\ SuccessWasObserved'
      /\ RetryIsDueInTime' /\ NotGivenUpEarly'
  BY Zenon DEF AttemptInv, OnlyApprovedDialled, SuccessWasObserved, RetryIsDueInTime, NotGivenUpEarly
<1> QED
  BY <1>3, <1>5, <1>6, Zenon DEF AttemptInv

\* What the invariant says of goroutine g.
LEMMA Known ==
  ASSUME AttemptInv, NEW g \in Goroutine
  PROVE  /\ sends[g] \in State /\ AttemptFits(sends[g], now, responses)
         /\ now \in Nat /\ clock \in Nat /\ clock <= MaxClock /\ MaxClock \in Nat
         /\ RequestTimeout \in Nat /\ LeaseDuration \in Nat
BY AttemptAssumption DEF AttemptInv, TypeOK, State

\* An attempt that is over, or was never begun, is nothing to be known of.
LEMMA IdleFits ==
  ASSUME NEW t, NEW received
  PROVE  Idle \in State /\ AttemptFits(Idle, t, received)
BY Zenon DEF Idle, State, AttemptFits, Waiting

\* Send returns with a result: a success needs its response.
LEMMA ReturnsFits ==
  ASSUME AttemptInv, NEW g \in Goroutine, sends[g].pc \in Waiting,
         NEW class \in {"success", "retryable", "permanent"},
         NEW raw \in RetryAfter \cup {NoRetryAfter}, Returns(g, class, raw),
         class = "success" => <<sends[g].generation, "success">> \in responses',
         responses \subseteq responses', UNCHANGED <<now, clock, row, dialled>>
  PROVE  AttemptInv'
<1> DEFINE s == [sends[g] EXCEPT !.pc = "result", !.class = class, !.raw = raw,
                                 !.finishedAt = now + clock]
<1>1. /\ sends[g] \in State /\ AttemptFits(sends[g], now, responses)
      /\ now \in Nat /\ clock \in Nat /\ clock <= MaxClock /\ MaxClock \in Nat
  BY Known, Zenon
<1>2. sends' = [sends EXCEPT ![g] = s]
  BY Zenon DEF Returns
<1>3. /\ s.pc = "result" /\ s.class = class /\ s.finishedAt = now + clock
      /\ s.generation = sends[g].generation /\ s.lease_until = sends[g].lease_until
      /\ s.stalled = sends[g].stalled
  BY <1>1, Zenon DEF State
<1>4. now + clock \in Nat
  BY <1>1
<1>5. s \in State
  BY <1>1, <1>4, Zenon DEF State
<1> HIDE DEF s
<1>6. AttemptFits(s, now, responses')
  BY <1>1, <1>3 DEF AttemptFits, Waiting
<1> QED
  BY <1>2, <1>5, <1>6, GoroutineStep, Zenon

\* The claim: the lease is as old as the attempt.
LEMMA ClaimInv ==
  ASSUME AttemptInv, NEW g \in Goroutine, ClaimDelivery(g)
  PROVE  AttemptInv'
<1> DEFINE until == now + LeaseDuration
           s == [Idle EXCEPT !.pc = "claimed", !.generation = row.generation,
                             !.lease_until = until]
<1>1. /\ now \in Nat /\ LeaseDuration \in Nat /\ until \in Nat
      /\ row.generation \in Nat /\ sends \in [Goroutine -> State] /\ TypeOK
  BY Known DEF AttemptInv, TypeOK, State, Row
<1>2. /\ sends' = [sends EXCEPT ![g] = s]
      /\ row' = [row EXCEPT !.status = "delivering", !.lease_until = until]
      /\ UNCHANGED <<now, clock, dialled, responses>>
  BY Zenon DEF ClaimDelivery
<1>3. /\ s \in State /\ s.pc = "claimed" /\ s.lease_until = until /\ s.stalled = 0
  BY <1>1, Zenon DEF State, Idle, Waiting
<1> HIDE DEF s
<1>4. AttemptFits(s, now, responses)
  BY <1>1, <1>3 DEF AttemptFits, Waiting
<1>5. /\ row'.status = "delivering" /\ row'.failure = row.failure
      /\ row'.retry_deadline = row.retry_deadline
  BY <1>1, <1>2 DEF TypeOK
<1>6. TypeOK'
  <2>1. sends' \in [Goroutine -> State]
    BY <1>1, <1>2, <1>3, Zenon
  <2>2. row' \in Row
    BY <1>1, <1>2, Zenon DEF TypeOK, Row
  <2> QED
    BY <1>1, <1>2, <2>1, <2>2, Zenon DEF TypeOK, State, Row
<1>7. \A h \in Goroutine : AttemptFits(sends'[h], now, responses)
  BY <1>1, <1>2, <1>4, Zenon DEF AttemptInv
<1>8. /\ OnlyApprovedDialled' /\ SuccessWasObserved'
      /\ RetryIsDueInTime' /\ NotGivenUpEarly'
  BY <1>2, <1>5, Zenon DEF AttemptInv, OnlyApprovedDialled, SuccessWasObserved, RetryIsDueInTime,
                    NotGivenUpEarly
<1> QED
  BY <1>2, <1>6, <1>7, <1>8, Zenon DEF AttemptInv

\* Send starts its deadline, or refuses what it is given.
LEMMA SendInv ==
  ASSUME AttemptInv, NEW g \in Goroutine, SendStarts(g) \/ SendRefuses(g)
  PROVE  AttemptInv'
<1>1. /\ sends[g] \in State /\ AttemptFits(sends[g], now, responses)
      /\ now \in Nat /\ clock \in Nat /\ clock <= MaxClock /\ MaxClock \in Nat
      /\ RequestTimeout \in Nat /\ LeaseDuration \in Nat
      /\ sends[g].pc = "claimed" /\ UNCHANGED <<now, clock, row, dialled, responses>>
  BY Known, Zenon DEF SendStarts, SendRefuses
<1>2. now + clock \in Nat /\ now + RequestTimeout \in Nat
  BY <1>1
<1>3. CASE SendStarts(g)
  <2> DEFINE s == [sends[g] EXCEPT !.pc = "resolving", !.startedAt = now + clock,
                                   !.deadline = now + RequestTimeout]
  <2>1. sends' = [sends EXCEPT ![g] = s]
    BY <1>3, Zenon DEF SendStarts
  <2>2. /\ s.pc = "resolving" /\ s.deadline = now + RequestTimeout
        /\ s.lease_until = sends[g].lease_until /\ s.stalled = sends[g].stalled
    BY <1>1, Zenon DEF State
  <2>3. s \in State
    BY <1>1, <1>2, Zenon DEF State, Waiting
  <2> HIDE DEF s
  <2>4. sends[g].lease_until \in Nat /\ sends[g].stalled \in Nat
    BY <1>1, Zenon DEF State
  <2>5. AttemptFits(s, now, responses')
    BY <1>1, <2>2, <2>4 DEF AttemptFits, Waiting
  <2> QED
    BY <1>1, <2>1, <2>3, <2>5, GoroutineStep, Zenon
<1>4. CASE SendRefuses(g)
  <2> DEFINE s == [sends[g] EXCEPT !.pc = "result", !.class = "permanent",
                                   !.startedAt = now + clock, !.finishedAt = now + clock]
  <2>1. sends' = [sends EXCEPT ![g] = s]
    BY <1>4, Zenon DEF SendRefuses
  <2>2. /\ s.pc = "result" /\ s.class = "permanent" /\ s.finishedAt = now + clock
        /\ s.lease_until = sends[g].lease_until /\ s.stalled = sends[g].stalled
    BY <1>1, Zenon DEF State
  <2>3. s \in State
    BY <1>1, <1>2, Zenon DEF State, Waiting
  <2> HIDE DEF s
  <2>4. sends[g].lease_until \in Nat /\ sends[g].stalled \in Nat
    BY <1>1 DEF State
  <2>5. AttemptFits(s, now, responses')
    BY <1>1, <2>2, <2>4 DEF AttemptFits, Waiting
  <2> QED
    BY <1>1, <2>1, <2>3, <2>5, GoroutineStep, Zenon
<1> QED
  BY <1>3, <1>4, Zenon

\* The steps that wait for DNS, the secret, the connection and the response: the address
\* that was validated is the one connected to, and a success is a response's.
LEMMA WaitsInv ==
  ASSUME AttemptInv, NEW g \in Goroutine,
         \/ \E addresses \in SUBSET Address : Resolves(g, addresses)
         \/ CredentialResolves(g) \/ Connects(g) \/ SendFails(g)
         \/ \E response \in Response, raw \in RetryAfter : Responds(g, response, raw)
  PROVE  AttemptInv'
<1>1. /\ sends[g] \in State /\ AttemptFits(sends[g], now, responses)
      /\ sends[g].pc \in Waiting /\ UNCHANGED <<now, clock, row>>
      /\ responses \subseteq responses'
  BY Known, Zenon DEF Resolves, CredentialResolves, Connects, SendFails, Responds, Waiting
<1>2. ASSUME NEW pc \in {"credential", "connecting", "responding"},
             NEW a \in Address \cup {"none"}, Policy = "public-internet" => a \in Approved,
             sends' = [sends EXCEPT ![g] = [sends[g] EXCEPT !.pc = pc, !.address = a]],
             UNCHANGED dialled \/ OnlyApprovedDialled'
      PROVE  AttemptInv'
  <2> DEFINE s == [sends[g] EXCEPT !.pc = pc, !.address = a]
  <2>1. /\ s.pc = pc /\ s.address = a /\ s.deadline = sends[g].deadline
        /\ s.lease_until = sends[g].lease_until /\ s.stalled = sends[g].stalled
        /\ s \in State
    BY <1>1, Zenon DEF State, Waiting
  <2>2. sends' = [sends EXCEPT ![g] = s]
    BY <1>2, Zenon
  <2> HIDE DEF s
  <2>3. AttemptFits(s, now, responses')
    BY <1>1, <1>2, <2>1, Zenon DEF AttemptFits, Waiting
  <2> QED
    BY <1>1, <1>2, <2>1, <2>2, <2>3, GoroutineStep, Zenon
<1>3. ASSUME NEW addresses \in SUBSET Address, Resolves(g, addresses)
      PROVE  AttemptInv'
  <2>1. UNCHANGED <<dialled, responses>>
    BY <1>3, Zenon DEF Resolves
  <2>2. CASE validateAddresses(addresses)
    <3>1. PICK a \in addresses : sends' = [sends EXCEPT ![g].pc = "credential", ![g].address = a]
      BY <1>3, <2>2, Zenon DEF Resolves
    <3>2. a \in Address /\ (Policy = "public-internet" => a \in Approved)
      BY <2>2, Zenon DEF validateAddresses, Address
    <3>3. sends' = [sends EXCEPT ![g] = [sends[g] EXCEPT !.pc = "credential", !.address = a]]
      BY <3>1, Zenon
    <3> QED
      BY <1>2, <2>1, <3>2, <3>3, Zenon
  <2>3. CASE ~validateAddresses(addresses)
    <3>1. Returns(g, "permanent", NoRetryAfter)
      BY <1>3, <2>3, Zenon DEF Resolves
    <3> QED
      BY <1>1, <2>1, <3>1, ReturnsFits, Zenon
  <2> QED
    BY <2>2, <2>3, Zenon
<1>4. ASSUME CredentialResolves(g) \/ Connects(g)
      PROVE  AttemptInv'
  <2> DEFINE a == sends[g].address
  <2>1. /\ a \in Address \cup {"none"} /\ (Policy = "public-internet" => a \in Approved)
        /\ sends[g].pc \in {"credential", "connecting"}
    BY <1>1, <1>4, Zenon DEF CredentialResolves, Connects, AttemptFits, State, Waiting
  <2>2. PICK pc \in {"connecting", "responding"} : sends' = [sends EXCEPT ![g].pc = pc]
    BY <1>4, Zenon DEF CredentialResolves, Connects
  <2>3. [sends[g] EXCEPT !.pc = pc] = [sends[g] EXCEPT !.pc = pc, !.address = a]
    BY <1>1, Zenon DEF State
  <2>4. sends' = [sends EXCEPT ![g] = [sends[g] EXCEPT !.pc = pc, !.address = a]]
    BY <2>2, <2>3, Zenon
  <2>5. UNCHANGED dialled \/ OnlyApprovedDialled'
    BY <1>4, <2>1, Zenon DEF CredentialResolves, Connects, AttemptInv, OnlyApprovedDialled
  <2> QED
    BY <1>2, <2>1, <2>4, <2>5, Zenon
<1>5. ASSUME SendFails(g)
      PROVE  AttemptInv'
  <2>1. Returns(g, "retryable", NoRetryAfter) /\ UNCHANGED dialled
    BY <1>5, Zenon DEF SendFails
  <2> QED
    BY <1>1, <2>1, ReturnsFits, Zenon
<1>6. ASSUME NEW response \in Response, NEW raw \in RetryAfter, Responds(g, response, raw)
      PROVE  AttemptInv'
  <2> DEFINE class == classify(response)
  <2>1. class \in {"success", "retryable", "permanent"} /\ (class = "success" => response = "success")
    BY Zenon DEF classify
  <2>2. /\ responses' = responses \cup {<<sends[g].generation, response>>}
        /\ Returns(g, class, raw) /\ UNCHANGED dialled
    BY <1>6, Zenon DEF Responds
  <2> HIDE DEF class
  <2>3. class = "success" => <<sends[g].generation, "success">> \in responses'
    BY <2>1, <2>2, Zenon
  <2> QED
    BY <1>1, <2>1, <2>2, <2>3, ReturnsFits, Zenon
<1> QED
  BY <1>3, <1>4, <1>5, <1>6, Zenon

\* A step that changes the row, and may end the attempt of a goroutine.
LEMMA RowStep ==
  ASSUME AttemptInv, row' \in Row,
         \/ UNCHANGED sends
         \/ \E g \in Goroutine : sends' = [sends EXCEPT ![g] = Idle],
         SuccessWasObserved', RetryIsDueInTime', NotGivenUpEarly',
         UNCHANGED <<now, clock, dialled, responses>>
  PROVE  AttemptInv'
<1>1. sends \in [Goroutine -> State] /\ TypeOK
  BY Zenon DEF AttemptInv, TypeOK, State
<1>2. \A h \in Goroutine : sends'[h] = sends[h] \/ sends'[h] = Idle
  BY <1>1, Zenon
<1>3. \A h \in Goroutine : AttemptFits(sends'[h], now, responses)
  BY <1>2, IdleFits, Zenon DEF AttemptInv
<1>4. (\A h \in Goroutine : AttemptFits(sends[h], now, responses))'
  BY <1>3, Zenon
<1>5. OnlyApprovedDialled'
  BY Zenon DEF AttemptInv, OnlyApprovedDialled
<1>6. sends' \in [Goroutine -> State]
  BY <1>1, IdleFits, Zenon
<1>7. TypeOK'
  BY <1>1, <1>6, Zenon DEF TypeOK, State, Row
<1> QED
  BY <1>4, <1>5, <1>7, Zenon DEF AttemptInv

\* The row completeResult leaves.
LEMMA FinishedRow ==
  ASSUME row \in Row, NEW status \in {"pending", "succeeded", "failed_permanent"},
         NEW failure \in {"none", "permanent", "retry_deadline_exhausted"},
         NEW advance \in Nat, NEW next \in Int, Finishes(status, failure, advance, next)
  PROVE  /\ row' \in Row /\ row'.status = status /\ row'.failure = failure
         /\ row'.generation = row.generation + advance /\ row'.next_attempt_at = next
         /\ row'.retry_deadline = row.retry_deadline
<1>1. row.generation + advance \in Nat
  BY DEF Row
<1> QED
  BY <1>1, Zenon DEF Finishes, Row

\* The result: a success was observed, a retry is due in time, and the cycle ends only
\* where the next attempt would be past it.
LEMMA CommitsInv ==
  ASSUME AttemptInv, NEW g \in Goroutine, Commits(g)
  PROVE  AttemptInv'
<1>1. /\ sends[g] \in State /\ AttemptFits(sends[g], now, responses)
      /\ now \in Nat /\ MaxClock \in Nat /\ row \in Row
      /\ Hour \in Nat /\ row.retry_deadline \in Nat
  BY Known, HourAssumption, AttemptAssumption, Zenon DEF AttemptInv, TypeOK, Row
<1>2. /\ sends[g].pc = "result" /\ row.generation = sends[g].generation
      /\ row.next_attempt_at \in Int /\ 0 \in Nat /\ 1 \in Nat
      /\ sends' = [sends EXCEPT ![g] = Idle]
      /\ UNCHANGED <<now, clock, dialled, responses>>
  BY <1>1, Zenon DEF Commits, LeaseHeld, Row
<1>3. CASE /\ sends[g].class = "success"
           /\ Finishes("succeeded", "none", 0, row.next_attempt_at)
  <2>1. /\ row' \in Row /\ row'.status = "succeeded" /\ row'.failure = "none"
        /\ row'.generation = row.generation + 0
    BY <1>1, <1>2, <1>3, FinishedRow
  <2>2. row'.generation = sends[g].generation
    BY <1>1, <1>2, <2>1 DEF Row
  <2>3. SuccessWasObserved'
    BY <1>1, <1>2, <1>3, <2>2, Zenon DEF AttemptFits, SuccessWasObserved
  <2>4. RetryIsDueInTime' /\ NotGivenUpEarly'
    BY <2>1, Zenon DEF RetryIsDueInTime, NotGivenUpEarly
  <2> QED
    BY <1>2, <2>1, <2>3, <2>4, RowStep, Zenon
<1>4. CASE Finishes("failed_permanent", "permanent", 0, row.next_attempt_at)
  <2>1. /\ row' \in Row /\ row'.status = "failed_permanent" /\ row'.failure = "permanent"
    BY <1>1, <1>2, <1>4, FinishedRow
  <2>2. SuccessWasObserved' /\ RetryIsDueInTime' /\ NotGivenUpEarly'
    BY <2>1, Zenon DEF SuccessWasObserved, RetryIsDueInTime, NotGivenUpEarly
  <2> QED
    BY <1>2, <2>1, <2>2, RowStep, Zenon
<1>5. ASSUME NEW t \in nextAttemptAt(sends[g].finishedAt, sends[g].generation, sends[g].raw),
             IF Exhausts(t)
             THEN Finishes("failed_permanent", "retry_deadline_exhausted", 0,
                           row.next_attempt_at)
             ELSE /\ t < row.retry_deadline
                  /\ Finishes("pending", "none", 1, t)
      PROVE  AttemptInv'
  <2>1. /\ sends[g].finishedAt \in Nat /\ sends[g].generation \in Nat
        /\ sends[g].raw \in RetryAfter \cup {NoRetryAfter}
        /\ sends[g].finishedAt <= now + MaxClock
    BY <1>1, <1>2, Zenon DEF State, AttemptFits
  <2>2. t \in Int /\ t <= sends[g].finishedAt + Hour
    BY <2>1, DueWithinHour, Zenon
  <2>3. t <= now + Hour + MaxClock
    BY <1>1, <2>1, <2>2
  <2>4. CASE Exhausts(t)
    <3>1. Finishes("failed_permanent", "retry_deadline_exhausted", 0, row.next_attempt_at)
      BY <1>5, <2>4, Zenon
    <3>2. /\ row' \in Row /\ row'.status = "failed_permanent"
          /\ row'.retry_deadline = row.retry_deadline
      BY <1>1, <1>2, <3>1, FinishedRow
    <3>3. now + Hour + MaxClock >= row.retry_deadline
      BY <1>1, <2>2, <2>3, <2>4 DEF Exhausts
    <3>4. SuccessWasObserved' /\ RetryIsDueInTime' /\ NotGivenUpEarly'
      BY <1>2, <3>2, <3>3 DEF SuccessWasObserved, RetryIsDueInTime, NotGivenUpEarly
    <3> QED
      BY <1>2, <3>2, <3>4, RowStep, Zenon
  <2>5. CASE ~Exhausts(t)
    <3>1. t < row.retry_deadline /\ Finishes("pending", "none", 1, t)
      BY <1>5, <2>5, Zenon
    <3>2. /\ row' \in Row /\ row'.status = "pending" /\ row'.failure = "none"
          /\ row'.next_attempt_at = t /\ row'.retry_deadline = row.retry_deadline
      BY <1>1, <1>2, <2>2, <3>1, FinishedRow
    <3>3. SuccessWasObserved' /\ RetryIsDueInTime' /\ NotGivenUpEarly'
      BY <1>2, <2>3, <3>1, <3>2 DEF SuccessWasObserved, RetryIsDueInTime, NotGivenUpEarly
    <3> QED
      BY <1>2, <3>2, <3>3, RowStep, Zenon
  <2> QED
    BY <2>4, <2>5, Zenon
<1> QED
  BY <1>3, <1>4, <1>5, Zenon DEF Commits

\* Recovery and the scheduler, and a goroutine that forgets its attempt.
LEMMA OthersInv ==
  ASSUME AttemptInv, Recovers \/ Expires \/ \E g \in Goroutine : Forgets(g)
  PROVE  AttemptInv'
<1>1. /\ row \in Row /\ now \in Nat /\ MaxClock \in Nat /\ Hour \in Nat
      /\ UNCHANGED <<now, clock, dialled, responses>>
      /\ \/ UNCHANGED sends
         \/ \E g \in Goroutine : sends' = [sends EXCEPT ![g] = Idle]
      /\ row.generation + 1 \in Nat /\ row.retry_deadline = RetryWindow /\ RetryWindow \in Nat
  BY HourAssumption, AttemptAssumption DEF AttemptInv, TypeOK, Row, Recovers, Expires, Forgets
<1>2. CASE UNCHANGED row
  <2>1. row' \in Row /\ SuccessWasObserved' /\ RetryIsDueInTime' /\ NotGivenUpEarly'
    BY <1>1, <1>2, Zenon DEF AttemptInv, SuccessWasObserved, RetryIsDueInTime, NotGivenUpEarly
  <2> QED
    BY <1>1, <2>1, RowStep, Zenon
<1>3. CASE Recovers
  <2>1. /\ row' \in Row /\ row'.status \in {"pending", "failed_permanent"}
        /\ row'.failure \in {row.failure, "lease_expired"}
        /\ row'.retry_deadline = row.retry_deadline
        /\ row'.status = "pending" => row'.next_attempt_at = now /\ now < row.retry_deadline
    <3>1. CASE row.retry_deadline <= now
      <4>1. row' = [row EXCEPT !.status = "failed_permanent", !.lease_until = 0,
                               !.failure = "lease_expired", !.next_attempt_at = now]
        BY <1>3, <3>1, Zenon DEF Recovers
      <4>2. /\ row'.status = "failed_permanent" /\ row'.failure = "lease_expired"
            /\ row'.retry_deadline = row.retry_deadline
        BY <1>1, <4>1, Zenon DEF Row
      <4>3. now \in Int /\ 0 \in Nat
        BY <1>1
      <4>4. row' \in Row
        BY <1>1, <4>1, <4>3, Zenon DEF Row
      <4> QED
        BY <4>2, <4>4, Zenon
    <3>2. CASE ~(row.retry_deadline <= now)
      <4>1. row' = [row EXCEPT !.status = "pending", !.lease_until = 0,
                               !.generation = row.generation + 1, !.next_attempt_at = now]
        BY <1>3, <3>2, Zenon DEF Recovers
      <4>2. /\ row'.status = "pending" /\ row'.failure = row.failure
            /\ row'.retry_deadline = row.retry_deadline /\ row'.next_attempt_at = now
        BY <1>1, <4>1 DEF Row
      <4>3. now \in Int /\ 0 \in Nat
        BY <1>1
      <4>4. row' \in Row
        BY <1>1, <4>1, <4>3, Zenon DEF Row
      <4>5. now < row.retry_deadline
        BY <1>1, <3>2
      <4> QED
        BY <4>2, <4>4, <4>5
    <3> QED
      BY <3>1, <3>2, Zenon
  <2>2. SuccessWasObserved' /\ RetryIsDueInTime' /\ NotGivenUpEarly'
    BY <1>1, <2>1 DEF AttemptInv, SuccessWasObserved, RetryIsDueInTime, NotGivenUpEarly
  <2> QED
    BY <1>1, <2>1, <2>2, RowStep
<1>4. CASE Expires
  <2>1. row' \in Row /\ row'.status = "failed_permanent" /\ row'.failure = "deadline"
    BY <1>1, <1>4, Zenon DEF Expires, Row
  <2>2. SuccessWasObserved' /\ RetryIsDueInTime' /\ NotGivenUpEarly'
    BY <2>1, Zenon DEF SuccessWasObserved, RetryIsDueInTime, NotGivenUpEarly
  <2> QED
    BY <1>1, <2>1, <2>2, RowStep
<1> QED
  BY <1>2, <1>3, <1>4 DEF Forgets

-----------------------------------------------------------------------------
(***************************************************************************)
(* Time.                                                                   *)
(***************************************************************************)

\* Time passes: an attempt that does not wait, or no longer needs to, is held up by it.
LEMMA TickInv ==
  ASSUME AttemptInv, Tick
  PROVE  AttemptInv'
<1>1. /\ now \in Nat /\ now' = now + 1 /\ UNCHANGED <<clock, row, dialled, responses>>
      /\ sends \in [Goroutine -> State] /\ TypeOK /\ LeaseDuration \in Nat
      /\ RequestTimeout \in Nat /\ MaxClock \in Nat /\ Hour \in Nat
      /\ row \in Row /\ RetryWindow \in Nat
  BY HourAssumption, AttemptAssumption DEF Tick, AttemptInv, TypeOK, State, Row
<1>2. ASSUME NEW g \in Goroutine
      PROVE  sends'[g] \in State /\ AttemptFits(sends'[g], now + 1, responses)
  <2>1. sends[g] \in State /\ AttemptFits(sends[g], now, responses)
    BY <1>1, Zenon DEF AttemptInv
  <2>2. /\ sends[g].lease_until \in Nat /\ sends[g].stalled \in Nat /\ sends[g].deadline \in Nat
        /\ sends[g].finishedAt \in Nat
    BY <2>1, Zenon DEF State
  <2>3. CASE g \in HeldUp
    <3> DEFINE s == [sends[g] EXCEPT !.stalled = sends[g].stalled + 1]
    <3>1. sends'[g] = s
      BY <2>3, Zenon DEF Tick
    <3>2. sends[g].stalled + 1 \in Nat
      BY <2>2
    <3>3. /\ s \in State /\ s.pc = sends[g].pc /\ s.address = sends[g].address
          /\ s.class = sends[g].class /\ s.generation = sends[g].generation
          /\ s.lease_until = sends[g].lease_until /\ s.deadline = sends[g].deadline
          /\ s.finishedAt = sends[g].finishedAt /\ s.stalled = sends[g].stalled + 1
      BY <2>1, <3>2, Zenon DEF State
    <3> HIDE DEF s
    <3>4. AttemptFits(s, now + 1, responses)
      BY <1>1, <2>1, <2>2, <3>3 DEF AttemptFits
    <3> QED
      BY <3>1, <3>3, <3>4
  <2>4. CASE g \notin HeldUp
    <3>1. sends'[g] = sends[g]
      BY <2>4, Zenon DEF Tick
    <3>2. /\ sends[g].pc \notin {"claimed", "result"}
          /\ sends[g].pc \in Waiting => now < sends[g].deadline
      BY <1>1, <2>2, <2>4 DEF HeldUp
    <3>3. AttemptFits(sends[g], now + 1, responses)
      BY <1>1, <2>1, <2>2, <3>2 DEF AttemptFits
    <3> QED
      BY <2>1, <3>1, <3>3
  <2> QED
    BY <2>3, <2>4, Zenon
<1>3. sends' \in [Goroutine -> State]
  <2>1. sends' = [g \in Goroutine |-> sends'[g]]
    BY Zenon DEF Tick
  <2> QED
    BY <1>2, <2>1, Zenon
<1>4. TypeOK'
  BY <1>1, <1>3 DEF TypeOK, State
<1>5. (\A g \in Goroutine : AttemptFits(sends[g], now, responses))'
  BY <1>1, <1>2, Zenon
<1>6. row.next_attempt_at \in Int /\ row.retry_deadline \in Int
  BY <1>1 DEF Row
<1>7. /\ OnlyApprovedDialled' /\ SuccessWasObserved'
      /\ RetryIsDueInTime' /\ NotGivenUpEarly'
  BY <1>1, <1>6 DEF AttemptInv, OnlyApprovedDialled, SuccessWasObserved, RetryIsDueInTime,
                    NotGivenUpEarly
<1> QED
  BY <1>4, <1>5, <1>7 DEF AttemptInv

\* The worker's clock is set, or nothing happens.
LEMMA ClockInv ==
  ASSUME AttemptInv, ClockSteps \/ UNCHANGED vars
  PROVE  AttemptInv'
<1>1. clock' \in 0..MaxClock /\ UNCHANGED <<now, row, sends, dialled, responses>>
  BY Zenon DEF ClockSteps, vars, AttemptInv, TypeOK
<1>2. TypeOK'
  BY <1>1, Zenon DEF AttemptInv, TypeOK
<1> QED
  BY <1>1, <1>2 DEF AttemptInv, OnlyApprovedDialled, SuccessWasObserved, RetryIsDueInTime,
                    NotGivenUpEarly

-----------------------------------------------------------------------------
(***************************************************************************)
(* The theorems.                                                           *)
(***************************************************************************)

\* Nothing is claimed at first.
LEMMA InitAttempt ==
  ASSUME Init
  PROVE  AttemptInv
<1>1. sends \in [Goroutine -> State] /\ \A g \in Goroutine : sends[g] = Idle
  BY IdleFits, Zenon DEF Init
<1>2. row \in Row
  BY AttemptAssumption DEF Init, Row
<1>3. TypeOK
  BY <1>1, <1>2, Zenon DEF Init, TypeOK, State, Row
<1>4. \A g \in Goroutine : AttemptFits(sends[g], now, responses)
  BY <1>1, IdleFits, Zenon
<1>5. 0 < RetryWindow /\ 0 <= 0 + Hour + MaxClock
  BY HourAssumption, AttemptAssumption
<1>6. OnlyApprovedDialled /\ SuccessWasObserved /\ RetryIsDueInTime /\ NotGivenUpEarly
  BY <1>5, Zenon DEF Init, OnlyApprovedDialled, SuccessWasObserved, RetryIsDueInTime, NotGivenUpEarly
<1> QED
  BY <1>3, <1>4, <1>6 DEF AttemptInv

\* Every step keeps the invariant, and so it always holds.
THEOREM AttemptInvariance == Spec => []AttemptInv
<1>1. Init => AttemptInv
  BY InitAttempt, Zenon
<1>2. AttemptInv /\ [Next]_vars => AttemptInv'
  <2> SUFFICES ASSUME AttemptInv, [Next]_vars PROVE AttemptInv'
    OBVIOUS
  <2> QED
    BY TickInv, ClockInv, ClaimInv, SendInv, WaitsInv, CommitsInv, OthersInv DEF Next
<1> QED
  BY <1>1, <1>2, PTL DEF Spec

\* DialContext: no connection is made to an address the attempt did not approve.
THEOREM ApprovedDialled == Spec => []OnlyApprovedDialled
<1>1. AttemptInv => OnlyApprovedDialled
  BY DEF AttemptInv
<1> QED
  BY <1>1, AttemptInvariance, PTL

\* CompleteSuccess: the supplier gave a qualifying response to the generation that succeeded.
THEOREM SuccessObserved == Spec => []SuccessWasObserved
<1>1. AttemptInv => SuccessWasObserved
  BY DEF AttemptInv
<1> QED
  BY <1>1, AttemptInvariance, PTL

\* attemptContext: a result after the lease has expired is that of a goroutine held up for
\* LeaseDuration - RequestTimeout.
THEOREM LeaseOutlives == Spec => []LeaseOutlivesAttempt
<1>1. AttemptInv => LeaseOutlivesAttempt
  <2> SUFFICES ASSUME AttemptInv, NEW g \in Goroutine, sends[g].pc = "result",
                      now >= sends[g].lease_until
               PROVE  sends[g].stalled >= LeaseDuration - RequestTimeout
    BY Zenon DEF LeaseOutlivesAttempt
  <2>1. /\ now \in Nat /\ LeaseDuration \in Nat /\ RequestTimeout \in Nat
        /\ sends[g].lease_until \in Nat /\ sends[g].stalled \in Nat
        /\ now + LeaseDuration <= sends[g].lease_until + sends[g].stalled + RequestTimeout
    BY Known, Zenon DEF AttemptFits, State
  <2> QED
    BY <2>1
<1> QED
  BY <1>1, AttemptInvariance, PTL

\* nextAttemptAt and CompleteRetry: a retry is due within its cycle and within an hour.
THEOREM RetryInTime == Spec => []RetryIsDueInTime
<1>1. AttemptInv => RetryIsDueInTime
  BY DEF AttemptInv
<1> QED
  BY <1>1, AttemptInvariance, PTL

\* CompleteRetry gives up only where less than an hour of the cycle is left.
THEOREM NotGivenUp == Spec => []NotGivenUpEarly
<1>1. AttemptInv => NotGivenUpEarly
  BY Zenon DEF AttemptInv
<1> QED
  BY <1>1, AttemptInvariance, PTL

=============================================================================
