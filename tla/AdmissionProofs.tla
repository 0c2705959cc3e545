--------------------------- MODULE AdmissionProofs ---------------------------
(***************************************************************************)
(* What a 202 promises holds for every number of concurrent requests, keys *)
(* contents and versions, whatever Bootstrap publishes in between and      *)
(* whichever answers are lost.  Each property of Admission follows from    *)
(* AdmissionInv, which every step preserves.                               *)
(***************************************************************************)
EXTENDS Admission, TLAPS

-----------------------------------------------------------------------------
(***************************************************************************)
(* Rows and versions.                                                      *)
(***************************************************************************)

\* Rows holds deliveries.
LEMMA RowsTyped ==
  ASSUME TypeOK, NEW i \in Rows
  PROVE  i \in Id /\ deliveries[i] \in DeliveryRow
BY Zenon DEF TypeOK, Rows

\* A version that admits a content is a configuration.
LEMMA AdmittingVersion ==
  ASSUME TypeOK, NEW v, NEW c, AdmittedBy(v, c)
  PROVE  destination_versions[v] \in Config /\ c \in destination_versions[v]
BY Zenon DEF TypeOK, AdmittedBy

\* A request without a delivery in hand.
LEMMA NoRequestState ==
  /\ NoRequest \in RequestState
  /\ NoRequest.pc = "none"
BY Zenon DEF NoRequest, RequestState

\* The end of a request: what is recorded fits, and no other request is touched.
LEMMA RequestEnds ==
  ASSUME TypeOK, RequestsResolved, NEW r \in Request, requests' = [requests EXCEPT ![r] = NoRequest],
         UNCHANGED <<destination_versions, current_version>>
  PROVE  requests' \in [Request -> RequestState] /\ RequestsResolved'
<1>1. requests' \in [Request -> RequestState]
  BY NoRequestState, Zenon DEF TypeOK
<1>2. \A q \in Request : requests'[q] = requests[q] \/ requests'[q].pc = "none"
  BY NoRequestState, Zenon DEF TypeOK
<1> QED
  BY <1>1, <1>2, Zenon DEF RequestsResolved, AdmittedBy

\* What Answers adds to the answers.
NewAnswer(r, status, id) ==
  [key |-> requests[r].key, content |-> requests[r].content,
   status |-> status, id |-> id, original |-> Original(r),
   stable |-> \A i \in Original(r) : requests[r].during = {deliveries[i].version}]

\* The new answer is one, and says what submit says.
LEMMA AnswerTyped ==
  ASSUME TypeOK, RequestsResolved, NEW r \in Request, requests[r].pc # "none",
         NEW status \in {"accepted", "forbidden", "invalid", "conflict", "backlog"},
         NEW id \in Id \cup {NULL}
  PROVE  /\ NewAnswer(r, status, id) \in Answer
         /\ NewAnswer(r, status, id).key = requests[r].key
         /\ NewAnswer(r, status, id).content = requests[r].content
         /\ NewAnswer(r, status, id).status = status
         /\ NewAnswer(r, status, id).id = id
         /\ NewAnswer(r, status, id).original = Original(r)
<1>1. requests[r].key \in Key /\ requests[r].content \in Content
  BY Zenon DEF RequestsResolved
<1>2. Original(r) \in SUBSET Id
  BY Zenon DEF Original, WithKey, Rows
<1>3. (\A i \in Original(r) : requests[r].during = {deliveries[i].version}) \in BOOLEAN
  BY Zenon
<1> QED
  BY <1>1, <1>2, <1>3, Zenon DEF NewAnswer, Answer

\* It says that the destination was stable when it was.
LEMMA AnswerStable ==
  ASSUME NEW r, NEW status, NEW id, NewAnswer(r, status, id).stable
  PROVE  \A i \in Original(r) : requests[r].during = {deliveries[i].version}
BY Zenon DEF NewAnswer

\* The original of a request is the delivery of its key; it is unique.
LEMMA OriginalUnique ==
  ASSUME TypeOK, RowsBound, NEW r \in Request, NEW i \in Original(r)
  PROVE  /\ i \in Rows
         /\ deliveries[i].key = requests[r].key
         /\ deliveries[i].content = requests[r].content
         /\ \A j \in WithKey(requests[r].key) : j = i
BY Zenon DEF Original, WithKey, RowsBound

-----------------------------------------------------------------------------
(***************************************************************************)
(* Deliveries come and go.                                                 *)
(***************************************************************************)

\* Bootstrap never changes what a version admits.
LEMMA StillAdmitted ==
  ASSUME TypeOK, NEW v \in Version, NEW config \in Config, destination_versions[v] \in {NULL, config},
         destination_versions' = [destination_versions EXCEPT ![v] = config],
         NEW w, NEW c, AdmittedBy(w, c)
  PROVE  AdmittedBy(w, c)'
<1>1. config # NULL
  BY AdmissionAssumption, Zenon
<1> QED
  BY <1>1, Zenon DEF TypeOK, AdmittedBy

\* The rows that stay are what they were, apart from their status: nothing that the
\* invariant says of rows and answers is lost.
LEMMA RowsStay ==
  ASSUME TypeOK, RowsBound, AnswersFit, UNCHANGED <<destination_versions, created, answers>>,
         deliveries' \in [Id -> DeliveryRow \cup {NULL}],
         \A i \in Rows' : /\ i \in Rows
                          /\ deliveries'[i].key = deliveries[i].key
                          /\ deliveries'[i].content = deliveries[i].content
                          /\ deliveries'[i].version = deliveries[i].version
                          /\ deliveries'[i].hash = deliveries[i].hash
                          /\ deliveries'[i].wasCurrent = deliveries[i].wasCurrent
  PROVE  RowsBound' /\ AnswersFit'
<1>1. RowsBound'
  BY DEF RowsBound, AdmittedBy, Hash
<1>2. AnswersFit'
  BY DEF AnswersFit
<1> QED
  BY <1>1, <1>2, Zenon

\* The row Submit inserts is bound to what its request was hashed with.
LEMMA NewRow ==
  ASSUME AdmissionInv, NEW r \in Request, Admits(r), UNCHANGED destination_versions
  PROVE  /\ created' \in 0..MaxDeliveries /\ created + 1 \in Id
         /\ deliveries' \in [Id -> DeliveryRow \cup {NULL}]
         /\ Rows' = Rows \cup {created + 1}
         /\ \A i \in Rows : i # created + 1 /\ deliveries'[i] = deliveries[i]
         /\ deliveries'[created + 1].key = requests[r].key
         /\ deliveries'[created + 1].content = requests[r].content
         /\ RowsBound'
<1> DEFINE row == NewDelivery(r)
           n == created + 1
<1>1. /\ TypeOK /\ RowsBound
      /\ requests[r].pc = "hashed" /\ requests[r].key \in Key /\ requests[r].content \in Content
      /\ requests[r].version \in requests[r].during
      /\ AdmittedBy(requests[r].version, requests[r].content)
      /\ requests[r].version \in Version
  BY Zenon DEF AdmissionInv, RequestsResolved, Admits, AdmittedBy
<1>2. /\ row \in DeliveryRow
      /\ row.key = requests[r].key /\ row.content = requests[r].content
      /\ row.version = requests[r].version
      /\ row.hash = Hash(row.version, row.content) /\ row.wasCurrent
  BY <1>1, Zenon DEF NewDelivery, DeliveryRow, Hash
<1>3. created \in 0..MaxDeliveries /\ created < MaxDeliveries /\ MaxDeliveries \in Nat
  BY <1>1, AdmissionAssumption, Zenon DEF TypeOK, Admits
<1>4. n \in Id /\ created' = n /\ created' \in 0..MaxDeliveries
  BY <1>3 DEF Id, Admits
<1>5. /\ deliveries' = [deliveries EXCEPT ![n] = row]
      /\ deliveries \in [Id -> DeliveryRow \cup {NULL}]
  BY <1>1, Zenon DEF Admits, TypeOK
<1> HIDE DEF row
<1>6. /\ deliveries' \in [Id -> DeliveryRow \cup {NULL}]
      /\ deliveries'[n] = row
      /\ \A i \in Id : i # n => deliveries'[i] = deliveries[i]
  BY <1>2, <1>4, <1>5, Zenon
<1>7. \A i \in Rows : i \in Id /\ i # n /\ i <= created
  BY <1>1, <1>3 DEF RowsBound, Rows, Id
<1>8. Rows' = Rows \cup {n}
  BY <1>2, <1>4, <1>6, <1>7, RowAssumption, Zenon DEF Rows
<1>9. \A i \in Rows : deliveries[i].key # row.key
  BY <1>1, <1>2, Zenon DEF Admits, WithKey
<1>10. RowsBound'
  <2>1. AdmittedBy(row.version, row.content) /\ UNCHANGED destination_versions
    BY <1>1, <1>2, Zenon
  <2>2. ASSUME NEW i \in Rows'
        PROVE  /\ i <= created'
               /\ deliveries'[i].hash = Hash(deliveries'[i].version, deliveries'[i].content)
               /\ deliveries'[i].wasCurrent
               /\ AdmittedBy(deliveries'[i].version, deliveries'[i].content)
    <3>1. CASE i = n
      BY <1>2, <1>3, <1>4, <1>6, <2>1, <3>1
    <3>2. CASE i \in Rows
      <4>1. deliveries'[i] = deliveries[i] /\ i <= created'
        BY <1>3, <1>4, <1>6, <1>7, <3>2 DEF Id
      <4>2. /\ deliveries[i].hash = Hash(deliveries[i].version, deliveries[i].content)
            /\ deliveries[i].wasCurrent
            /\ AdmittedBy(deliveries[i].version, deliveries[i].content)
        BY <1>1, <3>2, Zenon DEF RowsBound
      <4> QED
        BY <4>1, <4>2, Zenon
    <3> QED
      BY <1>8, <3>1, <3>2, Zenon
  <2>3. ASSUME NEW i \in Rows', NEW j \in Rows', deliveries'[i].key = deliveries'[j].key
        PROVE  i = j
    BY <1>1, <1>6, <1>7, <1>8, <1>9, <2>3 DEF RowsBound
  <2> QED
    BY <2>1, <2>2, <2>3, Zenon DEF RowsBound, Hash, AdmittedBy
<1> QED
  BY <1>2, <1>4, <1>6, <1>7, <1>8, <1>10, Zenon

-----------------------------------------------------------------------------
(***************************************************************************)
(* A request is answered.                                                  *)
(***************************************************************************)

\* The answer a step adds, if any, keeps the invariant of the answers.
LEMMA AnswerAdded ==
  ASSUME AdmissionInv, NEW r \in Request, requests[r].pc # "none",
         NEW status \in {"accepted", "forbidden", "invalid", "conflict", "backlog"},
         NEW id \in Id \cup {NULL}, Answers(r, status, id), created' \in Nat, created <= created',
         \A i \in 1..created : deliveries'[i] = deliveries[i],
         status = "accepted" => /\ id \in 1..created'
                                /\ deliveries'[id].key = requests[r].key
                                /\ deliveries'[id].content = requests[r].content,
         \A i \in Original(r) : requests[r].during = {deliveries[i].version} =>
           status = "accepted" /\ id = i
  PROVE  answers' \subseteq Answer /\ AnswersFit' /\ RetryReturnsOriginalOfVersion'
<1> DEFINE a == NewAnswer(r, status, id)
<1>1. /\ TypeOK /\ RequestsResolved /\ AnswersFit /\ RetryReturnsOriginalOfVersion
      /\ answers \subseteq Answer /\ created \in Nat
  BY AdmissionAssumption DEF AdmissionInv, TypeOK
<1>2. /\ a \in Answer /\ a.key = requests[r].key /\ a.content = requests[r].content
      /\ a.status = status /\ a.id = id /\ a.original = Original(r)
  BY <1>1, AnswerTyped
<1>3. answers' = answers \/ answers' = answers \cup {a}
  BY Zenon DEF Answers, NewAnswer
<1> HIDE DEF a
<1>4. answers' \subseteq Answer
  BY <1>1, <1>2, <1>3, Zenon
<1>5. AnswersFit'
  <2>1. ASSUME NEW b \in answers, b.status = "accepted"
        PROVE  /\ b.id \in 1..created'
               /\ b.id \in Rows' => deliveries'[b.id].key = b.key /\ deliveries'[b.id].content = b.content
    <3>1. b.id \in 1..created
      BY <1>1, <2>1, Zenon DEF AnswersFit
    <3>2. deliveries'[b.id] = deliveries[b.id] /\ b.id \in 1..created'
      BY <1>1, <3>1
    <3>3. b.id \in Rows' => b.id \in Rows
      BY <3>2, Zenon DEF Rows
    <3> QED
      BY <1>1, <2>1, <3>2, <3>3, Zenon DEF AnswersFit
  <2>2. a.status = "accepted" =>
          /\ a.id \in 1..created'
          /\ deliveries'[a.id].key = a.key /\ deliveries'[a.id].content = a.content
    BY <1>2, Zenon
  <2> QED
    BY <1>3, <2>1, <2>2 DEF AnswersFit
<1>6. RetryReturnsOriginalOfVersion'
  <2>1. \A original \in a.original : a.stable => a.status = "accepted" /\ a.id = original
    BY <1>2, AnswerStable DEF a
  <2> QED
    BY <1>1, <1>3, <2>1, Zenon DEF RetryReturnsOriginalOfVersion
<1> QED
  BY <1>4, <1>5, <1>6, Zenon

\* A request that ends with the tables as they were.
LEMMA EndsQuietly ==
  ASSUME AdmissionInv, NEW r \in Request, requests' = [requests EXCEPT ![r] = NoRequest],
         answers' \subseteq Answer, AnswersFit', RetryReturnsOriginalOfVersion',
         UNCHANGED <<destination_versions, current_version, deliveries, created>>
  PROVE  AdmissionInv'
<1>1. requests' \in [Request -> RequestState] /\ RequestsResolved'
  BY RequestEnds, Zenon DEF AdmissionInv
<1>2. TypeOK' /\ CurrentExists'
  BY <1>1, Zenon DEF AdmissionInv, TypeOK, CurrentExists
<1>3. RowsBound'
  BY Zenon DEF AdmissionInv, RowsBound, Rows, AdmittedBy, Hash
<1> QED
  BY <1>1, <1>2, <1>3, Zenon DEF AdmissionInv

\* 503: nothing is recorded.
LEMMA UnavailableInv ==
  ASSUME AdmissionInv, NEW r \in Request, ResolveFails(r) \/ SubmitFails(r)
  PROVE  AdmissionInv'
<1>1. /\ requests' = [requests EXCEPT ![r] = NoRequest]
      /\ UNCHANGED <<destination_versions, current_version, deliveries, created, answers>>
  BY Zenon DEF ResolveFails, SubmitFails, Answers
<1>2. answers' \subseteq Answer /\ AnswersFit' /\ RetryReturnsOriginalOfVersion'
  BY <1>1, Zenon DEF AdmissionInv, TypeOK, AnswersFit, Rows, RetryReturnsOriginalOfVersion
<1> QED
  BY <1>1, <1>2, EndsQuietly, Zenon

\* A repeated request passes the checks of the version its original is bound to.
LEMMA RefusesInv ==
  ASSUME AdmissionInv, NEW r \in Request, Refuses(r)
  PROVE  AdmissionInv'
<1>1. PICK status \in {"forbidden", "invalid"} :
        /\ Answers(r, status, NULL)
        /\ \/ current_version = NULL
           \/ requests[r].content \notin destination_versions[current_version]
  BY Zenon DEF Refuses
<1>2. /\ requests[r].pc # "none"
      /\ UNCHANGED <<destination_versions, current_version, deliveries, created>>
  BY Zenon DEF Refuses
<1>3. ASSUME NEW i \in Original(r), requests[r].during = {deliveries[i].version}
      PROVE  FALSE
  <2>1. current_version = deliveries[i].version
    BY <1>2, <1>3, Zenon DEF AdmissionInv, RequestsResolved
  <2>2. i \in Rows /\ deliveries[i].content = requests[r].content
    BY OriginalUnique, Zenon DEF AdmissionInv
  <2>3. AdmittedBy(current_version, requests[r].content)
    BY <2>1, <2>2, Zenon DEF AdmissionInv, RowsBound
  <2> QED
    BY <1>1, <2>3, AdmissionAssumption, Zenon DEF AdmittedBy
<1>4. created \in Nat
  BY AdmissionAssumption DEF AdmissionInv, TypeOK
<1>5. answers' \subseteq Answer /\ AnswersFit' /\ RetryReturnsOriginalOfVersion'
  BY <1>1, <1>2, <1>3, <1>4, AnswerAdded
<1>6. requests' = [requests EXCEPT ![r] = NoRequest]
  BY <1>1, Zenon DEF Answers
<1> QED
  BY <1>2, <1>5, <1>6, EndsQuietly, Zenon

\* The key is taken: a repeated request of the same version has the same hash.
LEMMA SubmitFindsInv ==
  ASSUME AdmissionInv, NEW r \in Request, SubmitFinds(r)
  PROVE  AdmissionInv'
<1>1. PICK j \in WithKey(requests[r].key) :
        IF deliveries[j].hash = Hash(requests[r].version, requests[r].content)
        THEN Answers(r, "accepted", j)
        ELSE Answers(r, "conflict", NULL)
  BY Zenon DEF SubmitFinds
<1>2. /\ requests[r].pc = "hashed"
      /\ UNCHANGED <<destination_versions, current_version, deliveries, created>>
  BY Zenon DEF SubmitFinds
<1>3. /\ j \in Rows /\ deliveries[j].key = requests[r].key
      /\ j \in Id /\ j <= created
      /\ deliveries[j].hash = Hash(deliveries[j].version, deliveries[j].content)
  BY Zenon DEF WithKey, Rows, AdmissionInv, RowsBound
<1>4. created \in Nat /\ j \in 1..created
  BY <1>3, AdmissionAssumption DEF AdmissionInv, TypeOK, Id
<1>5. ASSUME NEW i \in Original(r), requests[r].during = {deliveries[i].version}
      PROVE  i = j /\ deliveries[j].hash = Hash(requests[r].version, requests[r].content)
  <2>1. i = j /\ deliveries[i].content = requests[r].content
    BY OriginalUnique, Zenon DEF AdmissionInv
  <2>2. requests[r].version = deliveries[i].version
    BY <1>2, <1>5, Zenon DEF AdmissionInv, RequestsResolved
  <2> QED
    BY <1>3, <2>1, <2>2, Zenon
<1>6. answers' \subseteq Answer /\ AnswersFit' /\ RetryReturnsOriginalOfVersion'
  <2>1. CASE deliveries[j].hash = Hash(requests[r].version, requests[r].content)
    <3>1. deliveries[j].content = requests[r].content
      BY <1>3, <2>1 DEF Hash
    <3>2. Answers(r, "accepted", j)
      BY <1>1, <2>1, Zenon
    <3> QED
      BY <1>2, <1>3, <1>4, <1>5, <3>1, <3>2, AnswerAdded
  <2>2. CASE deliveries[j].hash # Hash(requests[r].version, requests[r].content)
    <3>1. Answers(r, "conflict", NULL)
      BY <1>1, <2>2, Zenon
    <3> QED
      BY <1>2, <1>4, <1>5, <2>2, <3>1, AnswerAdded
  <2> QED
    BY <2>1, <2>2, Zenon
<1>7. requests' = [requests EXCEPT ![r] = NoRequest]
  BY <1>1, Zenon DEF Answers
<1> QED
  BY <1>2, <1>6, <1>7, EndsQuietly, Zenon

\* A full backlog turns away new requests only.
LEMMA SubmitAtCapacityInv ==
  ASSUME AdmissionInv, NEW r \in Request, SubmitAtCapacity(r)
  PROVE  AdmissionInv'
<1>1. /\ requests[r].pc = "hashed" /\ WithKey(requests[r].key) = {}
      /\ Answers(r, "backlog", NULL)
      /\ UNCHANGED <<destination_versions, current_version, deliveries, created>>
  BY Zenon DEF SubmitAtCapacity
<1>2. Original(r) = {}
  BY <1>1, Zenon DEF Original
<1>3. created \in Nat
  BY AdmissionAssumption DEF AdmissionInv, TypeOK
<1>4. answers' \subseteq Answer /\ AnswersFit' /\ RetryReturnsOriginalOfVersion'
  BY <1>1, <1>2, <1>3, AnswerAdded
<1>5. requests' = [requests EXCEPT ![r] = NoRequest]
  BY <1>1, Zenon DEF Answers
<1> QED
  BY <1>1, <1>4, <1>5, EndsQuietly, Zenon

\* A delivery is inserted, and the caller may or may not be told.
LEMMA SubmitInsertsInv ==
  ASSUME AdmissionInv, NEW r \in Request, SubmitInserts(r) \/ SubmitCommitsUnseen(r)
  PROVE  AdmissionInv'
<1> DEFINE n == created + 1
<1>1. /\ Admits(r) /\ requests[r].pc = "hashed" /\ created' = n
      /\ UNCHANGED <<destination_versions, current_version>>
      /\ requests' = [requests EXCEPT ![r] = NoRequest]
  BY Zenon DEF SubmitInserts, SubmitCommitsUnseen, Admits, Answers
<1>2. /\ created' \in 0..MaxDeliveries /\ n \in Id
      /\ deliveries' \in [Id -> DeliveryRow \cup {NULL}]
      /\ Rows' = Rows \cup {n}
      /\ \A i \in Rows : i # n /\ deliveries'[i] = deliveries[i]
      /\ deliveries'[n].key = requests[r].key
      /\ deliveries'[n].content = requests[r].content
      /\ RowsBound'
  BY <1>1, NewRow, Zenon
<1>3. created \in Nat /\ created' \in Nat /\ created <= created' /\ n \in 1..created'
  BY <1>1, <1>2, AdmissionAssumption DEF AdmissionInv, TypeOK, Id
<1>4. \A i \in 1..created : deliveries'[i] = deliveries[i]
  BY <1>1, <1>2, <1>3 DEF Admits, AdmissionInv, TypeOK, Id
<1>5. Original(r) = {}
  BY <1>1, Zenon DEF Original, Admits
<1>6. answers' \subseteq Answer /\ AnswersFit' /\ RetryReturnsOriginalOfVersion'
  <2>1. CASE SubmitInserts(r)
    <3>1. Answers(r, "accepted", n)
      BY <2>1, Zenon DEF SubmitInserts
    <3> QED
      BY <1>1, <1>2, <1>3, <1>4, <1>5, <3>1, AnswerAdded, Zenon
  <2>2. CASE SubmitCommitsUnseen(r)
    <3>1. answers' = answers
      BY <2>2, Zenon DEF SubmitCommitsUnseen, Answers
    <3>2. answers \subseteq Answer /\ AnswersFit /\ RetryReturnsOriginalOfVersion
      BY Zenon DEF AdmissionInv, TypeOK
    <3>3. ASSUME NEW b \in answers, b.status = "accepted"
          PROVE  /\ b.id \in 1..created'
                 /\ b.id \in Rows' => deliveries'[b.id].key = b.key
                                      /\ deliveries'[b.id].content = b.content
      <4>1. b.id \in 1..created /\ b.id \in 1..created' /\ b.id # n
        BY <1>3, <3>2, <3>3 DEF AnswersFit
      <4> QED
        BY <1>2, <1>4, <3>2, <3>3, <4>1 DEF AnswersFit
    <3>4. AnswersFit' /\ RetryReturnsOriginalOfVersion'
      BY <3>1, <3>2, <3>3, Zenon DEF AnswersFit, RetryReturnsOriginalOfVersion
    <3> QED
      BY <3>1, <3>2, <3>4, Zenon
  <2> QED
    BY <2>1, <2>2, Zenon
<1>7. requests' \in [Request -> RequestState] /\ RequestsResolved'
  BY <1>1, RequestEnds, Zenon DEF AdmissionInv
<1>8. TypeOK' /\ CurrentExists'
  BY <1>1, <1>2, <1>6, <1>7, Zenon DEF AdmissionInv, TypeOK, CurrentExists
<1> QED
  BY <1>2, <1>6, <1>7, <1>8, Zenon DEF AdmissionInv

-----------------------------------------------------------------------------
(***************************************************************************)
(* The other steps.                                                        *)
(***************************************************************************)

\* A request goes on with the tables and answers as they were.
LEMMA RequestGoesOn ==
  ASSUME AdmissionInv, NEW r \in Request, NEW state \in RequestState, state.pc # "none",
         requests' = [requests EXCEPT ![r] = state], state.key \in Key, state.content \in Content,
         current_version \in state.during,
         state.pc = "hashed" => /\ state.version \in state.during
                                /\ AdmittedBy(state.version, state.content),
         UNCHANGED <<destination_versions, current_version, deliveries, created, answers>>
  PROVE  AdmissionInv'
<1>1. requests' \in [Request -> RequestState]
      /\ \A q \in Request : requests'[q] = IF q = r THEN state ELSE requests[q]
  BY Zenon DEF AdmissionInv, TypeOK
<1>2. TypeOK' /\ CurrentExists'
  BY <1>1, Zenon DEF AdmissionInv, TypeOK, CurrentExists
<1>3. RequestsResolved'
  BY <1>1 DEF AdmissionInv, RequestsResolved, AdmittedBy
<1>4. RowsBound' /\ AnswersFit' /\ RetryReturnsOriginalOfVersion'
  BY DEF AdmissionInv, RowsBound, AnswersFit, RetryReturnsOriginalOfVersion, Rows, AdmittedBy, Hash
<1> QED
  BY <1>2, <1>3, <1>4, Zenon DEF AdmissionInv

\* A request arrives, and is resolved against the current version.
LEMMA ArrivesInv ==
  ASSUME AdmissionInv, NEW r \in Request, NEW k \in Key, NEW c \in Content, Arrives(r, k, c)
  PROVE  AdmissionInv'
<1> DEFINE state == [NoRequest EXCEPT !.pc = "arrived", !.key = k, !.content = c,
                                      !.during = {current_version}]
<1>1. current_version \in Version \cup {NULL}
  BY Zenon DEF AdmissionInv, TypeOK
<1>2. /\ state \in RequestState /\ state.pc = "arrived" /\ state.key = k /\ state.content = c
      /\ state.during = {current_version}
  BY <1>1, Zenon DEF NoRequest, RequestState
<1>3. /\ requests' = [requests EXCEPT ![r] = state]
      /\ UNCHANGED <<destination_versions, current_version, deliveries, created, answers>>
  BY Zenon DEF Arrives
<1> HIDE DEF state
<1> QED
  BY <1>2, <1>3, RequestGoesOn, Zenon

\* The version it is resolved with is current at that moment.
LEMMA ResolvesInv ==
  ASSUME AdmissionInv, NEW r \in Request, Resolves(r)
  PROVE  AdmissionInv'
<1> DEFINE state == [requests[r] EXCEPT !.pc = "hashed", !.version = current_version]
<1>1. /\ requests \in [Request -> RequestState] /\ requests[r] \in RequestState
      /\ current_version \in Version
  BY Zenon DEF AdmissionInv, TypeOK, Resolves
<1>2. /\ state \in RequestState /\ state.pc = "hashed" /\ state.key = requests[r].key
      /\ state.content = requests[r].content /\ state.version = current_version
      /\ state.during = requests[r].during
  BY <1>1, Zenon DEF RequestState
<1>3. /\ requests' = [requests EXCEPT ![r] = state]
      /\ requests[r].pc = "arrived"
      /\ UNCHANGED <<destination_versions, current_version, deliveries, created, answers>>
  BY <1>1, Zenon DEF Resolves
<1>4. /\ requests[r].key \in Key /\ requests[r].content \in Content
      /\ current_version \in requests[r].during
  BY <1>3, Zenon DEF AdmissionInv, RequestsResolved
<1>5. AdmittedBy(current_version, requests[r].content)
  BY <1>1, Zenon DEF Resolves, AdmissionInv, CurrentExists, AdmittedBy
<1> HIDE DEF state
<1> QED
  BY <1>2, <1>3, <1>4, <1>5, RequestGoesOn, Zenon

\* Bootstrap publishes a version and never changes one.
LEMMA BootstrapInv ==
  ASSUME AdmissionInv, NEW v \in Version, NEW config \in Config, Bootstrap(v, config)
  PROVE  AdmissionInv'
<1> DEFINE Aware(state) == IF state = NoRequest THEN NoRequest
                           ELSE [state EXCEPT !.during = @ \cup {v}]
<1>1. /\ TypeOK /\ destination_versions[v] \in {NULL, config}
      /\ destination_versions' = [destination_versions EXCEPT ![v] = config]
      /\ current_version' = v
      /\ requests' = [r \in Request |-> Aware(requests[r])]
      /\ UNCHANGED <<deliveries, created, answers>>
  BY Zenon DEF AdmissionInv, Bootstrap
<1>2. ASSUME NEW state \in RequestState
      PROVE  /\ Aware(state) \in RequestState
             /\ Aware(state).pc = state.pc
             /\ state.pc # "none" => /\ Aware(state).key = state.key
                                     /\ Aware(state).content = state.content
                                     /\ Aware(state).version = state.version
                                     /\ Aware(state).during = state.during \cup {v}
  BY NoRequestState, Zenon DEF RequestState
<1> HIDE DEF Aware
<1>3. /\ requests \in [Request -> RequestState] /\ requests' \in [Request -> RequestState]
      /\ \A r \in Request : requests[r] \in RequestState /\ requests'[r] = Aware(requests[r])
  BY <1>1, <1>2, Zenon DEF TypeOK
<1>4. TypeOK'
  BY <1>1, <1>3, Zenon DEF TypeOK
<1>5. CurrentExists'
  BY <1>1, AdmissionAssumption DEF CurrentExists, TypeOK
<1>6. \A w, c : AdmittedBy(w, c) => AdmittedBy(w, c)'
  BY <1>1, StillAdmitted, Zenon
<1>7. RequestsResolved'
  <2> SUFFICES ASSUME NEW r \in Request, requests'[r].pc # "none"
               PROVE  /\ requests'[r].key \in Key /\ requests'[r].content \in Content
                      /\ current_version' \in requests'[r].during
                      /\ requests'[r].pc = "hashed" =>
                           /\ requests'[r].version \in requests'[r].during
                           /\ AdmittedBy(requests[r].version, requests[r].content)'
    BY Zenon DEF RequestsResolved
  <2>1. /\ requests[r].pc # "none" /\ requests'[r].pc = requests[r].pc
        /\ requests'[r].key = requests[r].key
        /\ requests'[r].content = requests[r].content
        /\ requests'[r].version = requests[r].version
        /\ requests'[r].during = requests[r].during \cup {v}
    BY <1>2, <1>3
  <2>2. ASSUME requests[r].pc = "hashed"
        PROVE  AdmittedBy(requests[r].version, requests[r].content)'
    <3>1. AdmittedBy(requests[r].version, requests[r].content)
      BY <2>1, <2>2, Zenon DEF AdmissionInv, RequestsResolved
    <3> QED
      BY <1>6, <2>1, <3>1, Zenon DEF AdmittedBy
  <2> QED
    BY <1>1, <2>1, <2>2, Zenon DEF AdmissionInv, RequestsResolved
<1>8. RowsBound'
  <2>1. Rows' = Rows
    BY <1>1, Zenon DEF Rows
  <2>2. \A i \in Rows : AdmittedBy(deliveries[i].version, deliveries[i].content)
    BY Zenon DEF AdmissionInv, RowsBound
  <2>3. \A i \in Rows : AdmittedBy(deliveries[i].version, deliveries[i].content)'
    BY <1>1, <1>6, <2>2, Zenon DEF AdmittedBy
  <2> QED
    BY <1>1, <2>1, <2>3, Zenon DEF AdmissionInv, RowsBound, Hash
<1>9. AnswersFit' /\ RetryReturnsOriginalOfVersion'
  BY <1>1, Zenon DEF AdmissionInv, AnswersFit, RetryReturnsOriginalOfVersion, Rows
<1> QED
  BY <1>4, <1>5, <1>7, <1>8, <1>9, Zenon DEF AdmissionInv

\* A delivery ends, and is removed in time.
LEMMA DeliveryEndsInv ==
  ASSUME AdmissionInv, NEW i \in Id, Ends(i) \/ Deletes(i)
  PROVE  AdmissionInv'
<1>1. /\ TypeOK /\ deliveries \in [Id -> DeliveryRow \cup {NULL}] /\ i \in Rows
      /\ deliveries[i] \in DeliveryRow
      /\ UNCHANGED <<destination_versions, current_version, created, requests, answers>>
  BY Zenon DEF AdmissionInv, TypeOK, Ends, Deletes, Active, Rows
<1> DEFINE ended == [deliveries[i] EXCEPT !.status = "terminal"]
<1>2. /\ ended \in DeliveryRow
      /\ ended.key = deliveries[i].key /\ ended.content = deliveries[i].content
      /\ ended.version = deliveries[i].version /\ ended.hash = deliveries[i].hash
      /\ ended.wasCurrent = deliveries[i].wasCurrent
  BY <1>1, Zenon DEF DeliveryRow
<1>3. \/ deliveries' = [deliveries EXCEPT ![i] = ended]
      \/ deliveries' = [deliveries EXCEPT ![i] = NULL]
  BY Zenon DEF Ends, Deletes
<1> HIDE DEF ended
<1>4. deliveries' \in [Id -> DeliveryRow \cup {NULL}]
  BY <1>1, <1>2, <1>3, Zenon
<1>5. ASSUME NEW j \in Rows'
      PROVE  /\ j \in Rows
             /\ deliveries'[j].key = deliveries[j].key
             /\ deliveries'[j].content = deliveries[j].content
             /\ deliveries'[j].version = deliveries[j].version
             /\ deliveries'[j].hash = deliveries[j].hash
             /\ deliveries'[j].wasCurrent = deliveries[j].wasCurrent
  BY <1>1, <1>2, <1>3, Zenon DEF Rows
<1>6. RowsBound' /\ AnswersFit'
  BY <1>1, <1>4, <1>5, RowsStay, Zenon DEF AdmissionInv
<1>7. TypeOK' /\ CurrentExists' /\ RequestsResolved' /\ RetryReturnsOriginalOfVersion'
  BY <1>1, <1>4, Zenon DEF AdmissionInv, TypeOK, CurrentExists, RequestsResolved, AdmittedBy,
     RetryReturnsOriginalOfVersion
<1> QED
  BY <1>6, <1>7, Zenon DEF AdmissionInv

-----------------------------------------------------------------------------
(***************************************************************************)
(* The theorems.                                                           *)
(***************************************************************************)

\* AdmissionInv holds, whatever requests, Bootstrap and retention do in any order.
THEOREM AdmissionInvariance == Spec => []AdmissionInv
<1>1. Init => AdmissionInv
  <2> SUFFICES ASSUME Init PROVE AdmissionInv
    BY Zenon
  <2>1. Rows = {}
    BY Zenon DEF Init, Rows
  <2>2. TypeOK
    BY NoRequestState, AdmissionAssumption DEF Init, TypeOK
  <2>3. RequestsResolved
    BY NoRequestState, Zenon DEF Init, RequestsResolved
  <2> QED
    BY <2>1, <2>2, <2>3, Zenon DEF Init, AdmissionInv, CurrentExists, RowsBound, AnswersFit,
       RetryReturnsOriginalOfVersion
<1>2. AdmissionInv /\ [Next]_vars => AdmissionInv'
  <2> SUFFICES ASSUME AdmissionInv, [Next]_vars PROVE AdmissionInv'
    BY Zenon
  <2>1. CASE UNCHANGED vars
    BY <2>1 DEF vars, AdmissionInv, TypeOK, CurrentExists, RequestsResolved, RowsBound, Rows,
       AdmittedBy, Hash, AnswersFit, RetryReturnsOriginalOfVersion
  <2> QED
    BY <2>1, ArrivesInv, ResolvesInv, RefusesInv, UnavailableInv, SubmitFindsInv,
       SubmitAtCapacityInv, SubmitInsertsInv, BootstrapInv, DeliveryEndsInv, Zenon DEF Next
<1> QED
  BY <1>1, <1>2, PTL DEF Spec

\* A 202 never answers for another request: all accepted answers of a key name one
\* delivery, of the content each of them submitted.
THEOREM AcceptedIsTheOriginal == Spec => []AcceptedIsOriginal
<1>1. AdmissionInv => AcceptedIsOriginal
  BY DEF AdmissionInv, RowsBound, AnswersFit, AcceptedIsOriginal
<1> QED
  BY <1>1, AdmissionInvariance, PTL

\* A delivery is bound to a version that was current while it was submitted.
THEOREM BoundVersionCurrent == Spec => []BoundVersionWasCurrent
<1>1. AdmissionInv => BoundVersionWasCurrent
  BY Zenon DEF AdmissionInv, RowsBound, BoundVersionWasCurrent
<1> QED
  BY <1>1, AdmissionInvariance, PTL

\* That version admits the content of the delivery for as long as the delivery exists,
\* whatever Bootstrap publishes.
THEOREM BoundVersionStays == Spec => []BoundVersionAdmits
<1>1. AdmissionInv => BoundVersionAdmits
  BY Zenon DEF AdmissionInv, RowsBound, AdmittedBy, BoundVersionAdmits
<1> QED
  BY <1>1, AdmissionInvariance, PTL

\* A repeated request is given its original delivery or told to try again, full backlog
\* or not, as long as the destination stays at the version of the original.
THEOREM RetryReturnsOriginal == Spec => []RetryReturnsOriginalOfVersion
<1>1. AdmissionInv => RetryReturnsOriginalOfVersion
  BY Zenon DEF AdmissionInv
<1> QED
  BY <1>1, AdmissionInvariance, PTL

=============================================================================
