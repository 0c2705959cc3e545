---------------------------- MODULE RequestRules ----------------------------
(***************************************************************************)
(* What a request must look like, twice, and what identifies it.           *)
(* API.submit checks a request against the destination version and hashes  *)
(* it before it is stored, and Sender.Send checks what was stored, and the *)
(* version itself, before every attempt.  The two checks are written       *)
(* separately, in different packages and not alike.                        *)
(***************************************************************************)
EXTENDS RequestHash

CONSTANTS
  Ordinary,   \* header names with no meaning of their own
  Separated,  \* names with a character validHeaderName refuses and Send does not
  Blanked,    \* names with a blank or colon inside, or empty
  Cases,      \* the requests and the destination versions they are made of
  Reference   \* requests, one for each normalised one

\* One name for each class of the protected lists.
Hop == {"host"}                     \* host, connection, content-length, cookie...
Authorization == {"authorization"}  \* authorization, proxy-authorization
Name == Hop \cup Authorization \cup Ordinary \cup Separated \cup Blanked

\* POST, PUT, PATCH and DELETE, and all the others.
SupportedMethod == {"POST", "PUT"}
Method == SupportedMethod \cup {"GET"}

\* Names and methods as they are written: as they should be, in another case, with
\* blanks around them.
Spelling == {"plain", "cased", "padded"}
Spelled(words) == [name : words, spelling : Spelling]
Field(names, values) == [name : Spelled(names), value : values]

\* A request as the API decodes it.
ReceivedRequest ==
  [method : Spelled(Method), headers : Seq(Field(Name, Seq(Nat))), body : Seq(Nat)]

\* What Bootstrap lets in: supported methods only, and all else unchecked.
DestinationVersion(ids, numbers, allowLists, injected) ==
  [id : ids, number : numbers, methods : SUBSET SupportedMethod, headers : allowLists,
   credential : injected, idempotency : injected]

\* A destination version the request hash can name.
Identified(d) == d.id \in Seq(Nat) /\ d.number \in 0..99

ASSUME RulesAssumption ==
  /\ Ordinary \cap (Hop \cup Authorization) = {}
  /\ Name \cup Method \subseteq DOMAIN Bytes
  /\ \A word \in Name \cup Method : Bytes[word] \in Seq(Nat)
  /\ \A a, b \in Name : Bytes[a] = Bytes[b] => a = b
  /\ \A a, b \in Method : Bytes[a] = Bytes[b] => a = b
  /\ \A case \in Cases : /\ case.requests \subseteq ReceivedRequest
                         /\ \A d \in case.versions : Identified(d)

VARIABLES
  request,      \* method, header fields and body as they came in
  destination,  \* the version in force
  stored,       \* the delivery's method, headers and request hash
  outgoing,     \* the headers of the request to the supplier
  stage         \* received, rejected, stored, refused, failed or sent

rulesVars == <<request, destination, stored, outgoing, stage>>

-----------------------------------------------------------------------------
(***************************************************************************)
(* API.submit.                                                             *)
(***************************************************************************)

\* strings.ToLower alone: blanks around a name stay, and it equals no trimmed name.
Lower(spelled) == IF spelled.spelling = "padded" THEN {} ELSE {spelled.name}

validHeaderName(name) == name \notin Separated \cup Blanked
validHeaderValue(value) == \A i \in DOMAIN value : value[i] \notin {Control, LineBreak}

\* decodeCallerHeaders, and the errors of CanonicalCallerHeaders.
AcceptableHeaders(fields) ==
  /\ \A i \in DOMAIN fields : /\ validHeaderName(Canonical(fields[i].name))
                              /\ validHeaderValue(fields[i].value)
  /\ \A i, j \in DOMAIN fields :
       i # j => Canonical(fields[i].name) # Canonical(fields[j].name)

ASSUME ReferenceAssumption ==
  \A other \in Reference : /\ other.request \in ReceivedRequest
                           /\ AcceptableHeaders(other.request.headers)
                           /\ Identified(other.destination)

IsSupportedOutboundMethod(method) == method \in SupportedMethod

\* Mutant: only the fixed names are protected.
ProtectedByName(d) == Hop \cup Authorization

Protected(d) == Hop \cup Authorization \cup Lower(d.credential) \cup Lower(d.idempotency)

validateCallerHeaders(headers, d) ==
  \A name \in DOMAIN headers : name \notin Protected(d) /\ name \in d.headers

Accepts(r, d) ==
  /\ AcceptableHeaders(r.headers)
  /\ IsSupportedOutboundMethod(Canonical(r.method))
  /\ Canonical(r.method) \in d.methods
  /\ validateCallerHeaders(CanonicalCallerHeaders(r.headers), d)

HashOf(r, d) ==
  RequestDigest(d.id, d.number, Canonical(r.method), CanonicalCallerHeaders(r.headers), r.body)

Submit ==
  /\ stage = "received"
  /\ IF Accepts(request, destination)
     THEN /\ stored' = [method |-> Canonical(request.method),
                        headers |-> CanonicalCallerHeaders(request.headers),
                        request_hash |-> HashOf(request, destination)]
          /\ stage' = "stored"
     ELSE /\ stage' = "rejected"
          /\ UNCHANGED stored
  /\ UNCHANGED <<request, destination, outgoing>>

-----------------------------------------------------------------------------
(***************************************************************************)
(* Sender.Send.                                                            *)
(***************************************************************************)

validInjectedHeader(spelled) == Canonical(spelled) \notin Hop \cup Blanked

\* strings.EqualFold, which does not trim.
EqualFold(a, b) ==
  a.name = b.name /\ (a.spelling = "padded" <=> b.spelling = "padded")

\* Mutant: two injected headers may be one.
validInjection1(d) == validInjectedHeader(d.credential) /\ validInjectedHeader(d.idempotency)

validInjection(d) ==
  /\ validInjectedHeader(d.credential)
  /\ validInjectedHeader(d.idempotency)
  /\ ~EqualFold(d.credential, d.idempotency)

\* The list of protected names is written out once more in this package.
ProtectedAtSend(d) ==
  Hop \cup Authorization \cup Lower(d.credential) \cup Lower(d.idempotency)

validateStoredHeaders(headers, d) ==
  /\ validInjection(d)
  /\ \A name \in DOMAIN headers : /\ name \notin Blanked
                                  /\ \A i \in DOMAIN headers[name] :
                                       headers[name][i] # LineBreak
                                  /\ name \notin ProtectedAtSend(d)
                                  /\ name \in d.headers

\* A permanent error, before anything is looked up or connected.
SendRefuses ==
  /\ stage = "stored"
  /\ ~ /\ IsSupportedOutboundMethod(stored.method)
       /\ stored.method \in destination.methods
       /\ validateStoredHeaders(stored.headers, destination)
  /\ stage' = "refused"
  /\ UNCHANGED <<request, destination, stored, outgoing>>

\* net/http (external) refuses names that are no tokens, padded ones among them.
Token(spelled) == spelled.spelling # "padded" /\ validHeaderName(spelled.name)

\* The caller's headers are set first, then the idempotency value, then the credential.
Sends ==
  /\ stage = "stored"
  /\ IsSupportedOutboundMethod(stored.method)
  /\ stored.method \in destination.methods
  /\ validateStoredHeaders(stored.headers, destination)
  /\ outgoing' =
       [name \in DOMAIN stored.headers
                 \cup {destination.idempotency.name, destination.credential.name} |->
          IF name = destination.credential.name THEN "secret"
          ELSE IF name = destination.idempotency.name THEN "supplier_idempotency_value"
          ELSE stored.headers[name]]
  /\ stage' = IF Token(destination.credential) /\ Token(destination.idempotency)
              THEN "sent" ELSE "failed"
  /\ UNCHANGED <<request, destination, stored>>

-----------------------------------------------------------------------------
NotStored == [method |-> "none", headers |-> <<>>, request_hash |-> <<>>]

RulesInit ==
  /\ \E case \in Cases : request \in case.requests /\ destination \in case.versions
  /\ stored = NotStored
  /\ outgoing = <<>>
  /\ stage = "received"

RulesNext == Submit \/ SendRefuses \/ Sends

RulesSpec == RulesInit /\ [][RulesNext]_rulesVars

-----------------------------------------------------------------------------
(***************************************************************************)
(* Properties.                                                             *)
(***************************************************************************)

\* A destination version whose two injected headers can be sent side by side.
WellConfigured(d) ==
  /\ Token(d.credential) /\ Token(d.idempotency)
  /\ d.credential.name # d.idempotency.name
  /\ d.credential.name \notin Hop /\ d.idempotency.name \notin Hop

\* What submit accepts, Send sends: the checks of the two packages agree wherever the
\* destination version is usable at all, so no accepted delivery fails permanently over
\* its own method or headers.
AcceptedIsSendable ==
  stage \in {"refused", "failed"} => ~WellConfigured(destination)

\* A request that leaves carries every header of the caller with the caller's value, the
\* delivery's idempotency value and the credential: none of them replaces another.
SentIsComplete ==
  stage = "sent" =>
    /\ \A name \in DOMAIN stored.headers : outgoing[name] = stored.headers[name]
    /\ outgoing[destination.idempotency.name] = "supplier_idempotency_value"
    /\ outgoing[destination.credential.name] = "secret"

\* The normalised request of the product specification: names and method without case,
\* values and names without white space around them, and no order of header fields.
Normalized(r, d) ==
  [destination |-> d.id, version |-> d.number, method |-> r.method.name,
   headers |-> {<<r.headers[i].name.name, trimOptionalWhitespace(r.headers[i].value)>> :
                  i \in DOMAIN r.headers},
   body |-> r.body]

ReferenceHash == [other \in Reference |-> HashOf(other.request, other.destination)]
ReferenceForm == [other \in Reference |-> Normalized(other.request, other.destination)]

\* submit gives two requests the same hash exactly when they are the same after
\* normalisation: spelling and order never make an idempotent retry look different, and
\* no field can be read as the end of one and the beginning of the next.
HashIsFaithful ==
  stage = "stored" =>
    LET normalized == Normalized(request, destination)
    IN  \A other \in Reference :
          stored.request_hash = ReferenceHash[other] <=> normalized = ReferenceForm[other]

-----------------------------------------------------------------------------
(***************************************************************************)
(* The inductive invariant.                                                *)
(***************************************************************************)

\* What is stored is what submit accepted, as it normalised it.
RulesInv ==
  /\ request \in ReceivedRequest
  /\ Identified(destination)
  /\ stage \in {"stored", "refused", "failed", "sent"} =>
       /\ Accepts(request, destination)
       /\ stored.method = Canonical(request.method)
       /\ stored.headers = CanonicalCallerHeaders(request.headers)
       /\ stored.request_hash = HashOf(request, destination)
  /\ AcceptedIsSendable
  /\ SentIsComplete

=============================================================================
