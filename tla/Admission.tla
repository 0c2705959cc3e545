------------------------------ MODULE Admission ------------------------------
(***************************************************************************)
(* POST /deliveries as the concurrent requests of one caller to one        *)
(* destination see it.  API.submit resolves the destination version in one *)
(* statement, checks and hashes the request against what it read, and only *)
(* then enters the transaction of Store.Submit; Bootstrap may publish      *)
(* another version in between.  The answer to a committed transaction may  *)
(* be lost, and callers repeat what they have no answer for.               *)
(*                                                                         *)
(* DeliveryStore has Submit among all the other users of the tables; here  *)
(* a delivery after acceptance is only pending, terminal or removed.       *)
(***************************************************************************)
EXTENDS Naturals, FiniteSets

CONSTANTS
  Request,        \* HTTP requests that may be under way together
  Key,            \* idempotency keys of the caller
  Content,        \* method, caller headers and body after normalisation
  Config,         \* destination configurations: what their allow-lists admit
  Version,        \* destination versions, positive
  NULL,
  BacklogLimit,   \* pending deliveries the store admits
  MaxDeliveries,  \* bound: deliveries created
  MaxAnswers      \* bound: answers about deliveries

Id == 1..MaxDeliveries

ASSUME AdmissionAssumption ==
  /\ BacklogLimit \in Nat \ {0}
  /\ MaxDeliveries \in Nat
  /\ MaxAnswers \in Nat
  /\ Config \subseteq SUBSET Content /\ NULL \notin Config
  /\ Version \subseteq Nat \ {0}
  /\ NULL \notin Key /\ NULL \notin Content /\ NULL \notin Version /\ NULL \notin Id

VARIABLES
  destination_versions,  \* each version's configuration, or NULL
  current_version,       \* of the destination, or NULL before the first Bootstrap
  deliveries,            \* rows by id, or NULL
  created,               \* ids used
  requests,              \* requests[r]: what submit of this request has in hand
  answers                \* what callers were told, with what was so at that moment

vars == <<destination_versions, current_version, deliveries, created, requests, answers>>

NoRequest == [pc |-> "none", key |-> NULL, content |-> NULL, version |-> NULL,
              during |-> {}]

\* hash and wasCurrent: see NewDelivery.
DeliveryRow ==
  [key : Key, hash : Version \X Content, content : Content, version : Version,
   status : {"pending", "terminal"}, wasCurrent : BOOLEAN]

ASSUME RowAssumption == NULL \notin DeliveryRow

Rows == {i \in Id : deliveries[i] # NULL}
Active == {i \in Rows : deliveries[i].status = "pending"}
WithKey(k) == {i \in Rows : deliveries[i].key = k}

\* RequestHash, which HashIsFaithful of RequestRules has equal for equal fields only.
Hash(version, content) == <<version, content>>

Init ==
  /\ destination_versions = [v \in Version |-> NULL]
  /\ current_version = NULL
  /\ deliveries = [i \in Id |-> NULL]
  /\ created = 0
  /\ requests = [r \in Request |-> NoRequest]
  /\ answers = {}

-----------------------------------------------------------------------------
(***************************************************************************)
(* API.submit.                                                             *)
(***************************************************************************)

\* The delivery, if there is one, that the same key and content made before.
Original(r) == {i \in WithKey(requests[r].key) : deliveries[i].content = requests[r].content}

\* The request ends.  Answers that tell the caller nothing about a delivery are not kept.
Answers(r, status, id) ==
  /\ requests' = [requests EXCEPT ![r] = NoRequest]
  /\ IF status = "accepted" \/ (status # "unavailable" /\ Original(r) # {})
     THEN /\ Cardinality(answers) < MaxAnswers
          /\ answers' = answers \cup
               {[key |-> requests[r].key, content |-> requests[r].content,
                 status |-> status, id |-> id, original |-> Original(r),
                 stable |-> \A i \in Original(r) :
                              requests[r].during = {deliveries[i].version}]}
     ELSE UNCHANGED answers

\* An authenticated request that decodes; the others change nothing.
Arrives(r, k, c) ==
  /\ requests[r] = NoRequest
  /\ requests' = [requests EXCEPT ![r] = [NoRequest EXCEPT !.pc = "arrived", !.key = k,
                                          !.content = c, !.during = {current_version}]]
  /\ UNCHANGED <<destination_versions, current_version, deliveries, created, answers>>

\* Mutant: the version is the first there ever was, as from a cache.
ResolvesFirst(r) ==
  /\ requests[r].pc = "arrived"
  /\ current_version # NULL
  /\ LET v == CHOOSE v \in Version :
                /\ destination_versions[v] # NULL
                /\ \A w \in Version : destination_versions[w] # NULL => v <= w
     IN  /\ requests[r].content \in destination_versions[v]
         /\ requests' = [requests EXCEPT ![r].pc = "hashed", ![r].version = v]
  /\ UNCHANGED <<destination_versions, current_version, deliveries, created, answers>>

\* AuthorizedDestination found the version, and the request passes its checks.
Resolves(r) ==
  /\ requests[r].pc = "arrived"
  /\ current_version # NULL
  /\ requests[r].content \in destination_versions[current_version]
  /\ requests' = [requests EXCEPT ![r].pc = "hashed", ![r].version = current_version]
  /\ UNCHANGED <<destination_versions, current_version, deliveries, created, answers>>

\* 403 without a destination, 400 for a method or header the version does not allow.
Refuses(r) ==
  /\ requests[r].pc = "arrived"
  /\ IF current_version = NULL
     THEN Answers(r, "forbidden", NULL)
     ELSE /\ requests[r].content \notin destination_versions[current_version]
          /\ Answers(r, "invalid", NULL)
  /\ UNCHANGED <<destination_versions, current_version, deliveries, created>>

\* The statement failed: 503.
ResolveFails(r) ==
  /\ requests[r].pc = "arrived"
  /\ Answers(r, "unavailable", NULL)
  /\ UNCHANGED <<destination_versions, current_version, deliveries, created>>

-----------------------------------------------------------------------------
(***************************************************************************)
(* Store.Submit, one transaction under the admission lock.                 *)
(***************************************************************************)

\* The row; and for the properties, whether its version was current at
\* some moment of the request.
NewDelivery(r) ==
  [key |-> requests[r].key, hash |-> Hash(requests[r].version, requests[r].content),
   content |-> requests[r].content, version |-> requests[r].version,
   status |-> "pending",
   wasCurrent |-> requests[r].version \in requests[r].during]

\* The key is taken: the same hash gets the original, another hash a conflict.
SubmitFinds(r) ==
  /\ requests[r].pc = "hashed"
  /\ \E i \in WithKey(requests[r].key) :
       IF deliveries[i].hash = Hash(requests[r].version, requests[r].content)
       THEN Answers(r, "accepted", i)
       ELSE Answers(r, "conflict", NULL)
  /\ UNCHANGED <<destination_versions, current_version, deliveries, created>>

\* Mutant: the backlog is counted before the key is looked up.
SubmitAtCapacityFirst(r) ==
  /\ requests[r].pc = "hashed"
  /\ Cardinality(Active) >= BacklogLimit
  /\ Answers(r, "backlog", NULL)
  /\ UNCHANGED <<destination_versions, current_version, deliveries, created>>

SubmitAtCapacity(r) ==
  /\ requests[r].pc = "hashed"
  /\ WithKey(requests[r].key) = {}
  /\ Cardinality(Active) >= BacklogLimit
  /\ Answers(r, "backlog", NULL)
  /\ UNCHANGED <<destination_versions, current_version, deliveries, created>>

\* Mutant: the key was looked up before the lock was taken.
AdmitsTakenKey(r) ==
  /\ requests[r].pc = "hashed"
  /\ Cardinality(Active) < BacklogLimit
  /\ created < MaxDeliveries
  /\ created' = created + 1
  /\ deliveries' = [deliveries EXCEPT ![created + 1] = NewDelivery(r)]

\* The inserts; UNIQUE (caller_id, idempotency_key) is never hit under the lock.
Admits(r) ==
  /\ requests[r].pc = "hashed"
  /\ WithKey(requests[r].key) = {}
  /\ Cardinality(Active) < BacklogLimit
  /\ created < MaxDeliveries
  /\ created' = created + 1
  /\ deliveries' = [deliveries EXCEPT ![created + 1] = NewDelivery(r)]

SubmitInserts(r) ==
  /\ Admits(r)
  /\ Answers(r, "accepted", created + 1)
  /\ UNCHANGED <<destination_versions, current_version>>

\* Some call of the transaction failed and it is rolled back: 503.
SubmitFails(r) ==
  /\ requests[r].pc = "hashed"
  /\ Answers(r, "unavailable", NULL)
  /\ UNCHANGED <<destination_versions, current_version, deliveries, created>>

\* The commit took effect and its answer, or the response, was lost: 503, or nothing.
SubmitCommitsUnseen(r) ==
  /\ Admits(r)
  /\ Answers(r, "unavailable", NULL)
  /\ UNCHANGED <<destination_versions, current_version>>

-----------------------------------------------------------------------------
(***************************************************************************)
(* Bootstrap, and what happens to deliveries afterwards.                   *)
(***************************************************************************)

\* Mutant: an existing version is overwritten.
BootstrapOverwrites(v, config) ==
  /\ destination_versions' = [destination_versions EXCEPT ![v] = config]
  /\ current_version' = v
  /\ requests' = [r \in Request |->
                    IF requests[r] = NoRequest THEN NoRequest
                    ELSE [requests[r] EXCEPT !.during = @ \cup {v}]]
  /\ UNCHANGED <<deliveries, created, answers>>

\* A version that exists must be the very one asked for, or the transaction rolls back;
\* the destination then points to it, whichever it pointed to before.
Bootstrap(v, config) ==
  /\ destination_versions[v] \in {NULL, config}
  /\ destination_versions' = [destination_versions EXCEPT ![v] = config]
  /\ current_version' = v
  /\ requests' = [r \in Request |->
                    IF requests[r] = NoRequest THEN NoRequest
                    ELSE [requests[r] EXCEPT !.during = @ \cup {v}]]
  /\ UNCHANGED <<deliveries, created, answers>>

\* A worker's result (DeliveryStore).
Ends(i) ==
  /\ i \in Active
  /\ deliveries' = [deliveries EXCEPT ![i].status = "terminal"]
  /\ UNCHANGED <<destination_versions, current_version, created, requests, answers>>

\* DeleteExpiredTerminal, after which the key is free.
Deletes(i) ==
  /\ i \in Rows \ Active
  /\ deliveries' = [deliveries EXCEPT ![i] = NULL]
  /\ UNCHANGED <<destination_versions, current_version, created, requests, answers>>

-----------------------------------------------------------------------------
Next ==
  \/ \E r \in Request :
       \/ \E k \in Key, c \in Content : Arrives(r, k, c)
       \/ Resolves(r)
       \/ Refuses(r)
       \/ ResolveFails(r)
       \/ SubmitFinds(r)
       \/ SubmitAtCapacity(r)
       \/ SubmitInserts(r)
       \/ SubmitFails(r)
       \/ SubmitCommitsUnseen(r)
  \/ \E v \in Version, config \in Config : Bootstrap(v, config)
  \/ \E i \in Id : Ends(i) \/ Deletes(i)

Spec == Init /\ [][Next]_vars

-----------------------------------------------------------------------------
(***************************************************************************)
(* Properties.                                                             *)
(***************************************************************************)

\* All that 202 answers of one key say while their deliveries are retained is the same
\* delivery, made of the content each of them submitted: neither races of requests, nor
\* lost answers, nor keys freed by retention make submit answer for another request.
AcceptedIsOriginal ==
  \A a \in answers : a.status = "accepted" /\ a.id \in Rows =>
    /\ deliveries[a.id].key = a.key
    /\ deliveries[a.id].content = a.content
    /\ \A b \in answers : b.status = "accepted" /\ b.id \in Rows /\ b.key = a.key =>
         b.id = a.id

\* A delivery is bound to a version that was current at some moment of its request,
\* although AuthorizedDestination reads it outside the transaction that binds it.
BoundVersionWasCurrent ==
  \A i \in Rows : deliveries[i].wasCurrent

\* The version a delivery is bound to goes on admitting its content: what submit
\* checked is what every later attempt is checked against.
BoundVersionAdmits ==
  \A i \in Rows : deliveries[i].content \in destination_versions[deliveries[i].version]

\* A caller that repeats a request is given the original delivery, full backlog or not,
\* or told to try again (503) - provided the destination stays at the version the original
\* was bound to.
RetryReturnsOriginalOfVersion ==
  \A a \in answers : \A original \in a.original :
    a.stable => a.status = "accepted" /\ a.id = original

-----------------------------------------------------------------------------
(***************************************************************************)
(* The inductive invariant.                                                *)
(***************************************************************************)

RequestState ==
  [pc : {"none", "arrived", "hashed"}, key : Key \cup {NULL}, content : Content \cup {NULL},
   version : Version \cup {NULL}, during : SUBSET (Version \cup {NULL})]

Answer ==
  [key : Key, content : Content,
   status : {"accepted", "forbidden", "invalid", "conflict", "backlog"},
   id : Id \cup {NULL}, original : SUBSET Id, stable : BOOLEAN]

TypeOK ==
  /\ destination_versions \in [Version -> Config \cup {NULL}]
  /\ current_version \in Version \cup {NULL}
  /\ deliveries \in [Id -> DeliveryRow \cup {NULL}]
  /\ created \in 0..MaxDeliveries
  /\ requests \in [Request -> RequestState]
  /\ answers \subseteq Answer

\* The destination points to a version that exists.
CurrentExists ==
  current_version # NULL => destination_versions[current_version] # NULL

\* version exists, and its configuration admits content.
AdmittedBy(version, content) ==
  /\ version \in Version
  /\ destination_versions[version] # NULL
  /\ content \in destination_versions[version]

\* A request knows every version that is current while it is under way; the one it was
\* hashed with is among them, and admits it.
RequestsResolved ==
  \A r \in Request : requests[r].pc # "none" =>
    /\ requests[r].key \in Key /\ requests[r].content \in Content
    /\ current_version \in requests[r].during
    /\ requests[r].pc = "hashed" =>
         /\ requests[r].version \in requests[r].during
         /\ AdmittedBy(requests[r].version, requests[r].content)

\* A row is made of a request that was resolved, under an id and a key of its own.
RowsBound ==
  /\ \A i \in Rows : /\ i <= created
                     /\ deliveries[i].hash = Hash(deliveries[i].version, deliveries[i].content)
                     /\ deliveries[i].wasCurrent
                     /\ AdmittedBy(deliveries[i].version, deliveries[i].content)
  /\ \A i, j \in Rows : deliveries[i].key = deliveries[j].key => i = j

\* A 202 names a delivery that was there, of the key and content it answers.
AnswersFit ==
  \A a \in answers : a.status = "accepted" =>
    /\ a.id \in 1..created
    /\ a.id \in Rows => deliveries[a.id].key = a.key /\ deliveries[a.id].content = a.content

AdmissionInv ==
  /\ TypeOK
  /\ CurrentExists
  /\ RequestsResolved
  /\ RowsBound
  /\ AnswersFit
  /\ RetryReturnsOriginalOfVersion

=============================================================================
