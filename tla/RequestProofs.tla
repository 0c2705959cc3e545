---------------------------- MODULE RequestProofs ----------------------------
(***************************************************************************)
(* The rules of submit and of Send agree, for requests with any number of  *)
(* headers and values of any length and for every destination version; and *)
(* two requests have the same hash exactly when they are the same after    *)
(* normalisation.                                                          *)
(***************************************************************************)
EXTENDS RequestRules, FiniteSetTheorems, SequenceTheorems, TLAPS

-----------------------------------------------------------------------------
(***************************************************************************)
(* Texts and headers.                                                      *)
(***************************************************************************)

\* A set of numbers has a least one; so the positions of a text have a first.
LEMMA FirstOf ==
  ASSUME NEW S \in SUBSET Nat, S # {}
  PROVE  \E m \in S : \A n \in S : m <= n
<1>1. PICK m \in S : \A n \in S : <<n, m>> \notin OpToRel(<, Nat)
  BY WFMin, NatLessThanWellFounded, Zenon
<1>2. ASSUME NEW n \in S
      PROVE  m <= n
  <2>1. n \in Nat /\ m \in Nat
    BY Zenon
  <2>2. n < m => <<n, m>> \in OpToRel(<, Nat)
    BY <2>1, Zenon DEF OpToRel
  <2>3. ~(n < m)
    BY <1>1, <2>2, Zenon
  <2> QED
    BY <2>1, <2>3
<1> QED
  BY <1>2, Zenon

\* A set of positions up to a bound has a last one.
LEMMA LastOf ==
  ASSUME NEW bound \in Nat, NEW S \in SUBSET (1..bound), S # {}
  PROVE  \E m \in S : \A n \in S : n <= m
<1> DEFINE gaps == {bound - n : n \in S}
<1>1. gaps \in SUBSET Nat /\ gaps # {}
  <2>1. \A n \in S : bound - n \in Nat
    OBVIOUS
  <2> QED
    BY <2>1, Zenon
<1>2. PICK gap \in gaps : \A g \in gaps : gap <= g
  <2> HIDE DEF gaps
  <2> QED
    BY <1>1, FirstOf, Zenon
<1>3. PICK m \in S : gap = bound - m
  BY Zenon
<1>4. ASSUME NEW n \in S
      PROVE  n <= m
  <2>1. bound - m <= bound - n
    BY <1>2, <1>3, Zenon
  <2> QED
    BY <2>1
<1> QED
  BY <1>4, Zenon

\* The characters of a part of a text.
LEMMA PartOf ==
  ASSUME NEW s \in Seq(Nat), NEW m \in 1..Len(s), NEW n \in 1..Len(s),
         NEW k \in DOMAIN SubSeq(s, m, n)
  PROVE  SubSeq(s, m, n)[k] = s[m + k - 1] /\ m + k - 1 \in 1..Len(s)
<1>1. m <= n /\ k \in 1..(n - m + 1)
  OBVIOUS
<1>2. m + k - 1 \in 1..Len(s)
  BY <1>1
<1>3. SubSeq(s, m, n)[k] = s[m + k - 1]
  BY <1>1
<1> QED
  BY <1>2, <1>3, Zenon

\* trimOptionalWhitespace adds no character.
LEMMA TrimmedCharacters ==
  ASSUME NEW value \in Seq(Nat)
  PROVE  /\ trimOptionalWhitespace(value) \in Seq(Nat)
         /\ \A k \in DOMAIN trimOptionalWhitespace(value) :
              \E i \in DOMAIN value : value[i] = trimOptionalWhitespace(value)[k]
<1> DEFINE inner == {i \in DOMAIN value : value[i] # Blank}
           first == CHOOSE i \in inner : \A j \in inner : i <= j
           last == CHOOSE i \in inner : \A j \in inner : j <= i
<1>1. /\ inner \in SUBSET (1..Len(value)) /\ Len(value) \in Nat /\ inner \in SUBSET Nat
      /\ DOMAIN value = 1..Len(value)
  OBVIOUS
<1>2. trimOptionalWhitespace(value) = IF inner = {} THEN <<>> ELSE SubSeq(value, first, last)
  BY Zenon DEF trimOptionalWhitespace
<1> HIDE DEF inner
<1>3. CASE inner = {}
  <2>1. trimOptionalWhitespace(value) = <<>>
    BY <1>2, <1>3, Zenon
  <2>2. <<>> \in Seq(Nat) /\ DOMAIN <<>> = {}
    OBVIOUS
  <2> QED
    BY <2>1, <2>2, Zenon
<1>4. CASE inner # {}
  <2>1. first \in inner /\ last \in inner
    BY <1>1, <1>4, FirstOf, LastOf, Zenon
  <2>2. trimOptionalWhitespace(value) = SubSeq(value, first, last)
    BY <1>2, <1>4, Zenon
  <2> HIDE DEF first, last
  <2>3. first \in 1..Len(value) /\ last \in 1..Len(value)
    BY <1>1, <2>1, Zenon
  <2>4. SubSeq(value, first, last) \in Seq(Nat)
    BY <2>3
  <2>5. ASSUME NEW k \in DOMAIN SubSeq(value, first, last)
        PROVE  \E i \in DOMAIN value : value[i] = SubSeq(value, first, last)[k]
    <3>1. /\ SubSeq(value, first, last)[k] = value[first + k - 1]
          /\ first + k - 1 \in DOMAIN value
      BY <1>1, <2>3, PartOf, Zenon
    <3> QED
      BY <3>1, Zenon
  <2> QED
    BY <2>2, <2>4, <2>5, Zenon
<1> QED
  BY <1>3, <1>4, Zenon

\* What submit accepts names headers by words Send takes, with texts of one line.
LEMMA CanonicalHeaders ==
  ASSUME NEW fields \in Seq(Field(Name, Seq(Nat))), AcceptableHeaders(fields),
         NEW name \in DOMAIN CanonicalCallerHeaders(fields)
  PROVE  /\ name \notin Separated \cup Blanked
         /\ name \in Name
         /\ CanonicalCallerHeaders(fields)[name] \in Seq(Nat)
         /\ \A i \in DOMAIN CanonicalCallerHeaders(fields)[name] :
              CanonicalCallerHeaders(fields)[name][i] # LineBreak
<1> DEFINE named == CHOOSE i \in DOMAIN fields : Canonical(fields[i].name) = name
<1>1. \E i \in DOMAIN fields : Canonical(fields[i].name) = name
  BY Zenon DEF CanonicalCallerHeaders
<1>2. named \in DOMAIN fields /\ Canonical(fields[named].name) = name
  BY <1>1, Zenon
<1>3. CanonicalCallerHeaders(fields)[name] = trimOptionalWhitespace(fields[named].value)
  BY Zenon DEF CanonicalCallerHeaders
<1> HIDE DEF named
<1>4. fields[named].value \in Seq(Nat) /\ fields[named].name.name \in Name
  <2>1. fields[named] \in Field(Name, Seq(Nat))
    BY <1>2
  <2> QED
    BY <2>1, Zenon DEF Field, Spelled
<1>5. validHeaderName(name) /\ validHeaderValue(fields[named].value)
  BY <1>2, Zenon DEF AcceptableHeaders
<1> DEFINE trimmed == trimOptionalWhitespace(fields[named].value)
<1>6. trimmed \in Seq(Nat) /\ \A i \in DOMAIN trimmed : trimmed[i] # LineBreak
  <2>1. /\ trimmed \in Seq(Nat)
        /\ \A k \in DOMAIN trimmed : \E i \in DOMAIN fields[named].value :
             fields[named].value[i] = trimmed[k]
    BY <1>4, TrimmedCharacters, Zenon
  <2> HIDE DEF trimmed
  <2> QED
    BY <1>5, <2>1, Zenon DEF validHeaderValue
<1> QED
  BY <1>2, <1>3, <1>4, <1>5, <1>6, Zenon DEF validHeaderName, Canonical

-----------------------------------------------------------------------------
(***************************************************************************)
(* The checks of submit and of Send.                                       *)
(***************************************************************************)

\* The checks of Send follow from those of submit.
LEMMA AcceptedPasses ==
  ASSUME NEW r \in ReceivedRequest, NEW d, Accepts(r, d), WellConfigured(d)
  PROVE  /\ IsSupportedOutboundMethod(Canonical(r.method))
         /\ Canonical(r.method) \in d.methods
         /\ validateStoredHeaders(CanonicalCallerHeaders(r.headers), d)
<1> DEFINE headers == CanonicalCallerHeaders(r.headers)
<1>1. r.headers \in Seq(Field(Name, Seq(Nat))) /\ AcceptableHeaders(r.headers)
  BY Zenon DEF ReceivedRequest, Accepts
<1>2. ASSUME NEW name \in DOMAIN headers
      PROVE  /\ name \notin Blanked
             /\ \A i \in DOMAIN headers[name] : headers[name][i] # LineBreak
  BY <1>1, <1>2, CanonicalHeaders, Zenon
<1>3. ASSUME NEW name \in DOMAIN headers
      PROVE  name \notin ProtectedAtSend(d) /\ name \in d.headers
  BY <1>3, Zenon DEF Accepts, validateCallerHeaders, Protected, ProtectedAtSend
<1>4. validInjection(d)
  BY Zenon DEF WellConfigured, Token, validHeaderName, validInjection, validInjectedHeader,
     EqualFold, Canonical
<1> QED
  BY <1>2, <1>3, <1>4, Zenon DEF Accepts, validateStoredHeaders

\* An injected header that can be sent is none of the caller's, and not the other one.
LEMMA InjectedApart ==
  ASSUME NEW r \in ReceivedRequest, NEW d, Accepts(r, d), validInjection(d),
         Token(d.credential), Token(d.idempotency)
  PROVE  /\ d.credential.name # d.idempotency.name
         /\ d.credential.name \notin DOMAIN CanonicalCallerHeaders(r.headers)
         /\ d.idempotency.name \notin DOMAIN CanonicalCallerHeaders(r.headers)
<1>1. d.credential.name # d.idempotency.name
  BY Zenon DEF validInjection, EqualFold, Token
<1>2. d.credential.name \in Protected(d) /\ d.idempotency.name \in Protected(d)
  BY Zenon DEF Protected, Lower, Token
<1> QED
  BY <1>1, <1>2, Zenon DEF Accepts, validateCallerHeaders

\* Submit and Send keep what is stored in line with what was accepted.
LEMMA NextRules == RulesInv /\ [RulesNext]_rulesVars => RulesInv'
<1> SUFFICES ASSUME RulesInv, [RulesNext]_rulesVars PROVE RulesInv'
  BY Zenon
<1> DEFINE headers == CanonicalCallerHeaders(request.headers)
<1>1. CASE UNCHANGED rulesVars
  BY <1>1, Zenon DEF rulesVars, RulesInv, AcceptedIsSendable, SentIsComplete
<1>2. CASE Submit
  <2>1. UNCHANGED <<request, destination>> /\ stage' \in {"stored", "rejected"}
    BY <1>2, Zenon DEF Submit
  <2>2. stage' = "stored" =>
          /\ Accepts(request, destination)
          /\ stored'.method = Canonical(request.method)
          /\ stored'.headers = headers
          /\ stored'.request_hash = HashOf(request, destination)
    BY <1>2 DEF Submit
  <2>3. stage' \notin {"refused", "failed", "sent"}
    BY <2>1, Zenon
  <2> QED
    BY <2>1, <2>2, <2>3, Zenon DEF RulesInv, AcceptedIsSendable, SentIsComplete
<1>3. CASE SendRefuses
  <2>1. /\ UNCHANGED <<request, destination, stored>>
        /\ stage = "stored" /\ stage' = "refused"
        /\ ~ /\ IsSupportedOutboundMethod(stored.method)
             /\ stored.method \in destination.methods
             /\ validateStoredHeaders(stored.headers, destination)
    BY <1>3, Zenon DEF SendRefuses
  <2>2. /\ request \in ReceivedRequest /\ Accepts(request, destination)
        /\ stored.method = Canonical(request.method) /\ stored.headers = headers
        /\ stored.request_hash = HashOf(request, destination) /\ Identified(destination)
    BY <2>1, Zenon DEF RulesInv
  <2>3. ~WellConfigured(destination)
    BY <2>1, <2>2, AcceptedPasses, Zenon
  <2> QED
    BY <2>1, <2>2, <2>3, Zenon DEF RulesInv, AcceptedIsSendable, SentIsComplete
<1>4. CASE Sends
  <2>1. /\ UNCHANGED <<request, destination, stored>> /\ stage = "stored"
        /\ validateStoredHeaders(stored.headers, destination)
        /\ stage' = IF Token(destination.credential) /\ Token(destination.idempotency)
                    THEN "sent" ELSE "failed"
    BY <1>4, Zenon DEF Sends
  <2>2. /\ request \in ReceivedRequest /\ Accepts(request, destination)
        /\ stored.method = Canonical(request.method) /\ stored.headers = headers
        /\ stored.request_hash = HashOf(request, destination) /\ Identified(destination)
    BY <2>1, Zenon DEF RulesInv
  <2>3. AcceptedIsSendable'
    BY <2>1, Zenon DEF AcceptedIsSendable, WellConfigured
  <2>4. SentIsComplete'
    <3> SUFFICES ASSUME stage' = "sent"
                 PROVE  /\ \A name \in DOMAIN stored.headers :
                             outgoing'[name] = stored.headers[name]
                        /\ outgoing'[destination.idempotency.name]
                             = "supplier_idempotency_value"
                        /\ outgoing'[destination.credential.name] = "secret"
      BY <2>1, Zenon DEF SentIsComplete
    <3>1. Token(destination.credential) /\ Token(destination.idempotency)
      BY <2>1, Zenon
    <3>2. validInjection(destination)
      BY <2>1, Zenon DEF validateStoredHeaders
    <3>3. /\ destination.credential.name # destination.idempotency.name
          /\ destination.credential.name \notin DOMAIN stored.headers
          /\ destination.idempotency.name \notin DOMAIN stored.headers
      BY <2>2, <3>1, <3>2, InjectedApart, Zenon
    <3> QED
      BY <1>4, <3>3, Zenon DEF Sends
  <2> QED
    BY <2>1, <2>2, <2>3, <2>4, Zenon DEF RulesInv
<1> QED
  BY <1>1, <1>2, <1>3, <1>4, Zenon DEF RulesNext

\* The rules of the two packages and what they store hold together for every request and
\* every destination version.
THEOREM RulesInvariance == RulesSpec => []RulesInv
<1>1. RulesInit => RulesInv
  <2> SUFFICES ASSUME RulesInit PROVE RulesInv
    BY Zenon
  <2>1. request \in ReceivedRequest /\ Identified(destination)
    BY RulesAssumption, Zenon DEF RulesInit
  <2>2. stage = "received"
    BY Zenon DEF RulesInit
  <2> QED
    BY <2>1, <2>2, Zenon DEF RulesInv, AcceptedIsSendable, SentIsComplete
<1> QED
  BY <1>1, NextRules, PTL DEF RulesSpec

\* What submit accepts, Send sends, unless the destination version itself is unusable.
THEOREM AcceptedSendable == RulesSpec => []AcceptedIsSendable
<1>1. RulesInv => AcceptedIsSendable
  BY Zenon DEF RulesInv
<1> QED
  BY <1>1, RulesInvariance, PTL

\* None of the caller's headers, the idempotency value and the credential replaces
\* another in a request that leaves.
THEOREM SentComplete == RulesSpec => []SentIsComplete
<1>1. RulesInv => SentIsComplete
  BY Zenon DEF RulesInv
<1> QED
  BY <1>1, RulesInvariance, PTL

-----------------------------------------------------------------------------
(***************************************************************************)
(* Fields.                                                                 *)
(***************************************************************************)

\* What the hash is fed: lengths and bytes.
Symbol == {<<n>> : n \in Nat} \cup {<<"byte", c>> : c \in Nat}

\* The provers take texts apart only where these are expanded.
Word == Seq(Nat)
Text == Seq(Symbol)
Join(s, t) == s \o t

\* A field begins with its length.
LEMMA FieldWritten ==
  ASSUME NEW value \in Seq(Nat)
  PROVE  /\ writeHashField(value) \in Seq(Symbol)
         /\ Len(writeHashField(value)) = Len(value) + 1
         /\ writeHashField(value)[1] = <<Len(value)>>
         /\ \A i \in 1..Len(value) : writeHashField(value)[i + 1] = <<"byte", value[i]>>
<1> DEFINE size == <<<<Len(value)>>>>
           bytes == [i \in DOMAIN value |-> <<"byte", value[i]>>]
<1>1. Len(value) \in Nat /\ DOMAIN value = 1..Len(value)
  OBVIOUS
<1>2. size \in Seq(Symbol) /\ Len(size) = 1 /\ size[1] = <<Len(value)>>
  <2>1. <<Len(value)>> \in Symbol
    BY <1>1, Zenon DEF Symbol
  <2> QED
    BY <2>1
<1>3. /\ bytes \in Seq(Symbol) /\ Len(bytes) = Len(value)
      /\ \A i \in 1..Len(value) : bytes[i] = <<"byte", value[i]>>
  <2>1. \A i \in 1..Len(value) : <<"byte", value[i]>> \in Symbol
    <3>1. \A i \in 1..Len(value) : value[i] \in Nat
      OBVIOUS
    <3> QED
      BY <3>1, Zenon DEF Symbol
  <2> QED
    BY <1>1, <2>1
<1>4. writeHashField(value) = size \o bytes
  BY Zenon DEF writeHashField
<1> HIDE DEF size, bytes
<1>5. /\ size \o bytes \in Seq(Symbol) /\ Len(size \o bytes) = Len(size) + Len(bytes)
      /\ \A i \in 1..(Len(size) + Len(bytes)) :
           (size \o bytes)[i] = IF i <= Len(size) THEN size[i] ELSE bytes[i - Len(size)]
  <2>1. size \in Seq(Symbol) /\ bytes \in Seq(Symbol)
    BY <1>2, <1>3, Zenon
  <2> QED
    BY ONLY <2>1, ConcatProperties, Zenon
<1>6. (size \o bytes)[1] = <<Len(value)>> /\ Len(size \o bytes) = Len(value) + 1
  BY <1>1, <1>2, <1>3, <1>5
<1>7. ASSUME NEW i \in 1..Len(value)
      PROVE  (size \o bytes)[i + 1] = <<"byte", value[i]>>
  <2>1. i + 1 \in 1..(Len(size) + Len(bytes)) /\ ~(i + 1 <= Len(size)) /\ i + 1 - Len(size) = i
    BY <1>1, <1>2, <1>3
  <2>2. (size \o bytes)[i + 1] = bytes[i]
    BY <1>5, <2>1
  <2> QED
    BY <1>3, <2>2, Zenon
<1> QED
  BY <1>4, <1>5, <1>6, <1>7, Zenon

LEMMA FieldText ==
  ASSUME NEW value \in Word
  PROVE  writeHashField(value) \in Text
BY FieldWritten, Zenon DEF Word, Text

LEMMA FieldNotEmpty ==
  ASSUME NEW value \in Word, NEW rest \in Text
  PROVE  Join(writeHashField(value), rest) # <<>>
<1>1. Len(value) \in Nat /\ writeHashField(value) \in Text
      /\ Len(writeHashField(value)) = Len(value) + 1
  BY FieldWritten, LenProperties, Zenon DEF Word, Text
<1>2. Len(<<>>) = 0 /\ \A n \in Nat : n + 1 # 0
  OBVIOUS
<1>3. writeHashField(value) # <<>>
  BY <1>1, <1>2, Zenon
<1> QED
  BY <1>1, <1>3, ConcatSimplifications, Zenon DEF Text, Join

\* Two texts that start with a field start with the same field, and go on alike.
LEMMA FieldCut ==
  ASSUME NEW a \in Word, NEW b \in Word, NEW x \in Text, NEW y \in Text,
         Join(writeHashField(a), x) = Join(writeHashField(b), y)
  PROVE  a = b /\ x = y
<1> USE DEF Word, Text, Join
<1> DEFINE v == writeHashField(a)
           w == writeHashField(b)
<1>0. Len(a) \in Nat /\ Len(b) \in Nat
  OBVIOUS
<1>1. /\ v \in Seq(Symbol) /\ Len(v) = Len(a) + 1 /\ v[1] = <<Len(a)>>
      /\ \A i \in 1..Len(a) : v[i + 1] = <<"byte", a[i]>>
      /\ w \in Seq(Symbol) /\ Len(w) = Len(b) + 1 /\ w[1] = <<Len(b)>>
      /\ \A i \in 1..Len(b) : w[i + 1] = <<"byte", b[i]>>
  BY FieldWritten, Zenon
<1>2. v \o x = w \o y
  BY Zenon
<1> HIDE DEF v, w
<1>3. /\ \A i \in 1..Len(v) : (v \o x)[i] = v[i]
      /\ \A i \in 1..Len(w) : (w \o y)[i] = w[i]
  <2>1. ASSUME NEW s \in Seq(Symbol), NEW t \in Seq(Symbol), NEW i \in 1..Len(s)
        PROVE  (s \o t)[i] = s[i]
    OBVIOUS
  <2> QED
    BY <1>1, <2>1, Zenon
<1>4. Len(a) = Len(b)
  <2>1. (v \o x)[1] = <<Len(a)>> /\ (w \o y)[1] = <<Len(b)>>
    BY <1>0, <1>1, <1>3
  <2>2. <<Len(a)>> = <<Len(b)>>
    BY <1>2, <2>1, Zenon
  <2> QED
    BY <2>2, Zenon
<1>5. ASSUME NEW i \in 1..Len(a) PROVE a[i] = b[i]
  <2>1. i + 1 \in 1..Len(v) /\ i + 1 \in 1..Len(w) /\ i \in 1..Len(b)
    <3>1. Len(v) = Len(a) + 1 /\ Len(w) = Len(a) + 1 /\ Len(b) = Len(a)
      BY <1>1, <1>4, Zenon
    <3>2. ASSUME NEW l \in Nat, NEW j \in 1..l PROVE j + 1 \in 1..(l + 1)
      OBVIOUS
    <3> QED
      BY <1>0, <3>1, <3>2, Zenon
  <2>2. v[i + 1] = w[i + 1]
    BY <1>2, <1>3, <2>1, Zenon
  <2>3. <<"byte", a[i]>> = <<"byte", b[i]>>
    BY <1>1, <2>1, <2>2, Zenon
  <2> QED
    BY <2>3, Zenon
<1>6. a = b
  BY <1>4, <1>5, SeqEqual, Zenon
<1>7. v = w
  BY <1>6, Zenon DEF v, w
<1> QED
  BY <1>1, <1>2, <1>6, <1>7, ConcatSimplifications, Zenon

\* Different versions are written differently.
LEMMA VersionWritten ==
  ASSUME NEW m \in 0..99, NEW n \in 0..99
  PROVE  /\ FormatInt(m) \in Word
         /\ FormatInt(m) = FormatInt(n) => m = n
<1>1. ASSUME NEW k \in 0..99
      PROVE  /\ k \div 10 \in Nat /\ k % 10 \in Nat
             /\ k = 10 * (k \div 10) + (k % 10)
  OBVIOUS
<1>2. FormatInt(m) \in Word
  BY <1>1 DEF FormatInt, Word
<1>3. ASSUME FormatInt(m) = FormatInt(n) PROVE m = n
  <2>1. CASE m < 10 /\ n < 10
    BY <1>3, <2>1, Zenon DEF FormatInt
  <2>2. CASE ~(m < 10) /\ ~(n < 10)
    <3>1. m \div 10 = n \div 10 /\ m % 10 = n % 10
      BY <1>3, <2>2, Zenon DEF FormatInt
    <3> QED
      BY <1>1, <3>1, Zenon
  <2>3. CASE m < 10 /\ ~(n < 10)
    BY <1>3, <2>3, Zenon DEF FormatInt
  <2>4. CASE ~(m < 10) /\ n < 10
    BY <1>3, <2>4, Zenon DEF FormatInt
  <2> QED
    BY <2>1, <2>2, <2>3, <2>4, Zenon
<1> QED
  BY <1>2, <1>3, Zenon
\* Texts can be joined in any grouping, and a common beginning taken off.
LEMMA Joined ==
  ASSUME NEW s \in Text, NEW t \in Text
  PROVE  Join(s, t) \in Text
BY ConcatProperties, Zenon DEF Join, Text

LEMMA Regrouped ==
  ASSUME NEW s \in Text, NEW t \in Text, NEW u \in Text
  PROVE  Join(Join(s, t), u) = Join(s, Join(t, u))
BY ConcatAssociative DEF Join, Text

LEMMA Cancelled ==
  ASSUME NEW s \in Text, NEW t \in Text, NEW u \in Text, Join(s, t) = Join(s, u)
  PROVE  t = u
BY ConcatSimplifications, Zenon DEF Join, Text

LEMMA EmptyText ==
  /\ <<>> \in Text
  /\ \A s \in Text : Join(s, <<>>) = s
BY EmptySeq, ConcatEmptySeq, Zenon DEF Join, Text

-----------------------------------------------------------------------------
(***************************************************************************)
(* The order of the header names.                                          *)
(***************************************************************************)

LEMMA LessThrough ==
  ASSUME NEW x \in Nat, NEW y \in Nat, NEW z \in Nat, x < y \/ x = y, y < z
  PROVE  x < z
OBVIOUS

\* Byte order is a strict order.
LEMMA BeforeIrreflexive ==
  ASSUME NEW a \in Seq(Nat)
  PROVE  ~Before(a, a)
BY DEF Before

LEMMA BeforeTransitive ==
  ASSUME NEW a \in Seq(Nat), NEW b \in Seq(Nat), NEW c \in Seq(Nat),
         Before(a, b), Before(b, c)
  PROVE  Before(a, c)
<1>1. PICK m \in 1..Len(b) : /\ \A i \in 1..(m - 1) : i <= Len(a) /\ a[i] = b[i]
                             /\ m <= Len(a) => a[m] < b[m]
  BY Zenon DEF Before
<1>2. PICK n \in 1..Len(c) : /\ \A i \in 1..(n - 1) : i <= Len(b) /\ b[i] = c[i]
                             /\ n <= Len(b) => b[n] < c[n]
  BY Zenon DEF Before
<1>3. CASE m < n
  <2>1. m \in 1..Len(c) /\ b[m] = c[m]
    BY <1>2, <1>3
  <2>2. \A i \in 1..(m - 1) : i <= Len(a) /\ a[i] = c[i]
    BY <1>1, <1>2, <1>3
  <2>3. m <= Len(a) => a[m] < c[m]
    BY <1>1, <2>1, Zenon
  <2> QED
    BY <2>1, <2>2, <2>3, Zenon DEF Before
<1>4. CASE n <= m
  <2>1. \A i \in 1..(n - 1) : i <= Len(a) /\ a[i] = c[i]
    BY <1>1, <1>2, <1>4
  <2>2. b[n] < c[n] /\ n \in 1..Len(b)
    BY <1>2, <1>4
  <2>3. ASSUME n <= Len(a) PROVE a[n] < c[n]
    <3>1. n \in 1..Len(a)
      BY <2>3
    <3>2. a[n] \in Nat /\ b[n] \in Nat /\ c[n] \in Nat
      BY <2>2, <3>1, ElementOfSeq, Zenon
    <3>3. a[n] < b[n] \/ a[n] = b[n]
      <4>1. CASE n = m
        BY <1>1, <2>3, <4>1, Zenon
      <4>2. CASE n # m
        <5>1. n \in 1..(m - 1)
          BY <1>4, <4>2
        <5> QED
          BY <1>1, <5>1, Zenon
      <4> QED
        BY <4>1, <4>2, Zenon
    <3> QED
      BY <2>2, <3>2, <3>3, LessThrough, Zenon
  <2> QED
    BY <2>1, <2>3, Zenon DEF Before
<1> QED
  BY <1>3, <1>4

LEMMA BeforeTotal ==
  ASSUME NEW a \in Seq(Nat), NEW b \in Seq(Nat), a # b
  PROVE  Before(a, b) \/ Before(b, a)
<1> DEFINE apart == {n \in Nat \ {0} : n > Len(a) \/ n > Len(b) \/ a[n] # b[n]}
<1>0. Len(a) \in Nat /\ Len(b) \in Nat
  OBVIOUS
<1>1. apart \in SUBSET Nat /\ apart # {}
  <2>1. Len(a) + 1 \in apart
    BY <1>0
  <2> QED
    BY <2>1, Zenon
<1>2. PICK n \in apart : \A k \in apart : n <= k
  <2> HIDE DEF apart
  <2> QED
    BY <1>1, FirstOf, Zenon
<1>3. ASSUME NEW i \in 1..(n - 1)
      PROVE  i <= Len(a) /\ i <= Len(b) /\ a[i] = b[i]
  <2>1. i \in Nat \ {0} /\ ~(n <= i)
    OBVIOUS
  <2>2. i \notin apart
    BY <1>2, <2>1, Zenon
  <2> QED
    BY <1>0, <2>1, <2>2
<1>4. n \in Nat \ {0}
  BY Zenon
<1>5. CASE n > Len(a) /\ n > Len(b)
  <2>1. Len(a) <= n - 1 /\ Len(b) <= n - 1
    BY <1>0, <1>4, <1>5
  <2>2. Len(a) = Len(b)
    BY <1>0, <1>3, <1>4, <2>1
  <2>3. \A i \in 1..Len(a) : a[i] = b[i]
    BY <1>0, <1>3, <1>4, <2>1
  <2> QED
    BY <2>2, <2>3, SeqEqual, Zenon
<1>6. CASE n > Len(a) /\ n <= Len(b)
  <2>1. n \in 1..Len(b) /\ ~(n <= Len(a))
    BY <1>0, <1>4, <1>6
  <2> QED
    BY <1>3, <2>1, Zenon DEF Before
<1>7. CASE n <= Len(a) /\ n > Len(b)
  <2>1. n \in 1..Len(a) /\ ~(n <= Len(b))
    BY <1>0, <1>4, <1>7
  <2> QED
    BY <1>3, <2>1, Zenon DEF Before
<1>8. CASE n <= Len(a) /\ n <= Len(b)
  <2>1. a[n] # b[n] /\ a[n] \in Nat /\ b[n] \in Nat
    BY <1>0, <1>4, <1>8
  <2>2. n \in 1..Len(a) /\ n \in 1..Len(b)
    BY <1>0, <1>4, <1>8
  <2>3. CASE a[n] < b[n]
    BY <1>3, <2>2, <2>3, Zenon DEF Before
  <2>4. CASE b[n] < a[n]
    BY <1>3, <2>2, <2>4, Zenon DEF Before
  <2> QED
    BY <2>1, <2>3, <2>4
<1> QED
  BY <1>0, <1>4, <1>5, <1>6, <1>7, <1>8

\* Names that are written differently.
Distinct(W) == /\ \A w \in W : Bytes[w] \in Word
               /\ \A v, w \in W : Bytes[v] = Bytes[w] => v = w

\* Of some subsets of a finite set one has no smaller one next to it.
LEMMA SmallestSubset ==
  ASSUME NEW W, IsFiniteSet(W), NEW B \in SUBSET (SUBSET W), B # {}
  PROVE  \E V \in B : /\ Cardinality(V) \in Nat /\ IsFiniteSet(V)
                      /\ \A x \in V : /\ V \ {x} \notin B
                                       /\ Cardinality(V \ {x}) = Cardinality(V) - 1
<1> DEFINE sizes == {Cardinality(V) : V \in B}
<1>1. \A V \in SUBSET W : IsFiniteSet(V) /\ Cardinality(V) \in Nat
  BY FS_Subset, FS_CardinalityType, Zenon
<1>2. sizes \in SUBSET Nat /\ sizes # {}
  <2>1. \A n \in sizes : n \in Nat
    BY <1>1, Zenon
  <2>2. \A V \in B : Cardinality(V) \in sizes
    BY Zenon
  <2> QED
    BY <2>1, <2>2, Zenon
<1>3. PICK m \in sizes : \A n \in sizes : m <= n
  <2> HIDE DEF sizes
  <2> QED
    BY <1>2, FirstOf, Zenon
<1>4. PICK V \in B : m = Cardinality(V)
  BY Zenon
<1>5. \A U \in B : Cardinality(V) <= Cardinality(U)
  <2>1. \A U \in B : Cardinality(U) \in sizes
    BY Zenon
  <2> QED
    BY <1>3, <1>4, <2>1, Zenon
<1>6. Cardinality(V) \in Nat /\ IsFiniteSet(V)
  BY <1>1, Zenon
<1>7. ASSUME NEW x \in V
      PROVE  V \ {x} \notin B /\ Cardinality(V \ {x}) = Cardinality(V) - 1
  <2>1. Cardinality(V \ {x}) = Cardinality(V) - 1
    BY <1>6, FS_RemoveElement, Zenon
  <2>2. ~(Cardinality(V) <= Cardinality(V \ {x}))
    BY <1>6, <2>1
  <2> QED
    BY <1>5, <2>1, <2>2, Zenon
<1> QED
  BY <1>6, <1>7, Zenon

\* A finite set of names has a last one.
LEMMA LastName ==
  ASSUME NEW W, Distinct(W), IsFiniteSet(W), W # {}
  PROVE  \E w \in W : \A v \in W \ {w} : Before(Bytes[v], Bytes[w])
<1> DEFINE has(V) == \E w \in V : \A v \in V \ {w} : Before(Bytes[v], Bytes[w])
           bad == {V \in SUBSET W : V # {} /\ ~has(V)}
<1>1. ASSUME bad # {} PROVE FALSE
  <2>1. PICK V \in bad : \A x \in V : V \ {x} \notin bad
    <3>1. bad \in SUBSET (SUBSET W)
      BY Zenon
    <3> HIDE DEF bad
    <3> QED
      BY <1>1, <3>1, SmallestSubset, Zenon
  <2>2. V \in SUBSET W /\ V # {} /\ ~has(V)
    BY <2>1, Zenon
  <2>3. PICK x \in V : TRUE
    BY <2>2, Zenon
  <2>4. V \ {x} \in SUBSET W /\ V \ {x} \notin bad
    <3> HIDE DEF bad
    <3> QED
      BY <2>1, <2>2, <2>3, Zenon
  <2>5. V \ {x} # {}
    <3>1. ASSUME V \ {x} = {} PROVE has(V)
      BY <2>3, <3>1, Zenon
    <3> QED
      BY <2>2, <3>1, Zenon
  <2>6. PICK w \in V \ {x} : \A v \in (V \ {x}) \ {w} : Before(Bytes[v], Bytes[w])
    BY <2>4, <2>5, Zenon
  <2>7. w \in W /\ x \in W /\ w # x
    BY <2>2, <2>3, <2>6, Zenon
  <2>8. Bytes[w] \in Word /\ Bytes[x] \in Word /\ Bytes[w] # Bytes[x]
    BY <2>7, Zenon DEF Distinct
  <2>9. CASE Before(Bytes[x], Bytes[w])
    <3>1. \A v \in V \ {w} : Before(Bytes[v], Bytes[w])
      BY <2>6, <2>9, Zenon
    <3> QED
      BY <2>2, <2>6, <3>1, Zenon
  <2>10. CASE Before(Bytes[w], Bytes[x])
    <3>1. ASSUME NEW v \in V \ {x} PROVE Before(Bytes[v], Bytes[x])
      <4>1. Bytes[v] \in Word
        BY <2>2, Zenon DEF Distinct
      <4>2. CASE v = w
        BY <2>10, <4>2, Zenon
      <4>3. CASE v # w
        <5>1. Before(Bytes[v], Bytes[w])
          BY <2>6, <4>3, Zenon
        <5> QED
          BY <2>8, <2>10, <4>1, <5>1, BeforeTransitive, Zenon DEF Word
      <4> QED
        BY <4>2, <4>3, Zenon
    <3> QED
      BY <2>2, <2>3, <3>1, Zenon
  <2> QED
    BY <2>8, <2>9, <2>10, BeforeTotal, Zenon DEF Word
<1> QED
  BY <1>1, Zenon

\* A finite set of names can be put into byte order.
LEMMA Sortable ==
  ASSUME NEW W, Distinct(W), IsFiniteSet(W)
  PROVE  \E s \in [1..Cardinality(W) -> W] :
           \A i, j \in 1..Cardinality(W) : i < j => Before(Bytes[s[i]], Bytes[s[j]])
<1> DEFINE ordered(V, s) ==
             \A i, j \in 1..Cardinality(V) : i < j => Before(Bytes[s[i]], Bytes[s[j]])
           has(V) == \E s \in [1..Cardinality(V) -> V] : ordered(V, s)
           bad == {V \in SUBSET W : ~has(V)}
<1>1. ASSUME bad # {} PROVE FALSE
  <2>1. PICK V \in bad : /\ Cardinality(V) \in Nat /\ IsFiniteSet(V)
                        /\ \A x \in V : /\ V \ {x} \notin bad
                                         /\ Cardinality(V \ {x}) = Cardinality(V) - 1
    <3>1. bad \in SUBSET (SUBSET W)
      BY Zenon
    <3> HIDE DEF bad
    <3> QED
      BY <1>1, <3>1, SmallestSubset, Zenon
  <2>2. V \in SUBSET W /\ ~has(V) /\ IsFiniteSet(V) /\ Cardinality(V) \in Nat
    BY <2>1, Zenon
  <2>3. V # {}
    <3>1. ASSUME V = {} PROVE has(V)
      <4>1. Cardinality(V) = 0
        BY <3>1, FS_EmptySet, Zenon
      <4>2. 1..Cardinality(V) = {}
        BY <4>1
      <4>3. [i \in {} |-> i] \in [1..Cardinality(V) -> V]
        BY <4>2, Zenon
      <4> QED
        BY <4>2, <4>3, Zenon
    <3> QED
      BY <2>2, <3>1, Zenon
  <2>4. Distinct(V)
    BY <2>2, Zenon DEF Distinct
  <2>5. PICK w \in V : \A v \in V \ {w} : Before(Bytes[v], Bytes[w])
    BY <2>2, <2>3, <2>4, LastName, Zenon
  <2>6. V \ {w} \in SUBSET W /\ Cardinality(V \ {w}) = Cardinality(V) - 1
    <3> HIDE DEF bad
    <3> QED
      BY <2>1, <2>2, <2>5, Zenon
  <2>7. V \ {w} \notin bad
    <3> HIDE DEF bad
    <3> QED
      BY <2>1, <2>5, Zenon
  <2>8. PICK s \in [1..Cardinality(V \ {w}) -> V \ {w}] : ordered(V \ {w}, s)
    BY <2>6, <2>7, Zenon
  <2> DEFINE n == Cardinality(V)
             t == [i \in 1..n |-> IF i = n THEN w ELSE s[i]]
  <2>9. \A i \in 1..n : i # n => i \in 1..Cardinality(V \ {w})
    BY <2>2, <2>6
  <2>10. \A i \in 1..n : t[i] = IF i = n THEN w ELSE s[i]
    BY Zenon
  <2>11. \A i \in 1..n : i # n => s[i] \in V \ {w}
    BY <2>8, <2>9, Zenon
  <2>12. t \in [1..n -> V]
    BY <2>5, <2>11, Zenon
  <2>13. n \in Nat
    BY <2>2, Zenon
  <2> HIDE DEF n, t
  <2>14. ASSUME NEW i \in 1..n, NEW j \in 1..n, i < j
         PROVE  Before(Bytes[t[i]], Bytes[t[j]])
    <3>1. i # n
      BY <2>13, <2>14
    <3>2. CASE j = n
      BY <2>5, <2>10, <2>11, <3>1, <3>2, Zenon
    <3>3. CASE j # n
      <4>1. t[i] = s[i] /\ t[j] = s[j]
        BY <2>10, <3>1, <3>3, Zenon
      <4> QED
        BY <2>8, <2>9, <2>14, <3>1, <3>3, <4>1, Zenon
    <3> QED
      BY <3>2, <3>3, Zenon
  <2> QED
    BY <2>2, <2>12, <2>14, Zenon DEF n
<1>2. has(W)
  BY <1>1, Zenon
<1> QED
  BY <1>2, Zenon

\* sort.Strings lists every name.
LEMMA SortedNames ==
  ASSUME NEW W, Distinct(W), IsFiniteSet(W)
  PROVE  /\ Sorted(W) \in [1..Cardinality(W) -> W]
         /\ \A w \in W : \E i \in 1..Cardinality(W) : Sorted(W)[i] = w
<1> DEFINE n == Cardinality(W)
           s == Sorted(W)
<1>0. n \in Nat
  BY FS_CardinalityType, Zenon
<1>1. /\ s \in [1..n -> W]
      /\ \A i, j \in 1..n : i < j => Before(Bytes[s[i]], Bytes[s[j]])
  BY Sortable, Zenon DEF Sorted
<1> HIDE DEF s
<1>2. ASSUME NEW i \in 1..n, NEW j \in 1..n, s[i] = s[j] PROVE i = j
  <2>1. Bytes[s[i]] \in Word /\ Bytes[s[i]] = Bytes[s[j]]
    BY <1>1, <1>2, Zenon DEF Distinct
  <2>2. ~(i < j) /\ ~(j < i)
    BY <1>1, <2>1, BeforeIrreflexive, Zenon DEF Word
  <2> HIDE DEF n
  <2> QED
    BY <1>0, <2>2
<1>3. s \in Injection(1..n, W)
  BY <1>1, <1>2, Zenon DEF Injection, IsInjective
<1>4. Cardinality(1..n) = n
  <2> HIDE DEF n
  <2>1. 1 - 1 = 0 /\ 1 \in Int /\ n \in Int /\ ~(1 > n + 1)
    BY <1>0
  <2> QED
    BY <1>0, <2>1, FS_Interval
<1>5. s \in Surjection(1..n, W)
  BY <1>3, <1>4, FS_Injection, Zenon
<1>6. \A w \in W : \E i \in 1..n : s[i] = w
  BY <1>5, Zenon DEF Surjection
<1> QED
  BY <1>1, <1>6, Zenon DEF s

-----------------------------------------------------------------------------
(***************************************************************************)
(* The loop over the headers.                                              *)
(***************************************************************************)

\* Induction up to a bound.
LEMMA Upward ==
  ASSUME NEW n \in Nat, NEW S, 0 \in S, \A k \in 1..n : k - 1 \in S => k \in S
  PROVE  \A k \in 0..n : k \in S
<1> DEFINE bad == {k \in 0..n : k \notin S}
<1>1. ASSUME bad # {} PROVE FALSE
  <2>1. bad \in SUBSET Nat
    OBVIOUS
  <2>2. PICK k \in bad : \A i \in bad : k <= i
    <3> HIDE DEF bad
    <3> QED
      BY <1>1, <2>1, FirstOf, Zenon
  <2>3. k \in 0..n /\ k \notin S
    BY <2>2, Zenon
  <2>4. k # 0
    BY <2>3, Zenon
  <2>5. k \in 1..n /\ k - 1 \in 0..n /\ ~(k <= k - 1)
    BY <2>3, <2>4
  <2>6. k - 1 \in S
    BY <2>2, <2>5, Zenon
  <2> QED
    BY <2>3, <2>5, <2>6, Zenon
<1> QED
  BY <1>1, Zenon

\* f[k]: what the loop over the headers has written after k names a and values b.
Loop(f, a, b, n) ==
  /\ n \in Nat
  /\ a \in [1..n -> Word] /\ b \in [1..n -> Word]
  /\ f[0] = <<>>
  /\ \A k \in 1..n :
       f[k] = Join(Join(f[k - 1], writeHashField(a[k])), writeHashField(b[k]))

\* The loop writes lengths and bytes.
LEMMA LoopWrites ==
  ASSUME NEW f, NEW a, NEW b, NEW n, Loop(f, a, b, n)
  PROVE  \A k \in 0..n : f[k] \in Text
<1> DEFINE S == {k \in 0..n : f[k] \in Text}
<1>1. n \in Nat /\ 0 \in 0..n /\ \A k \in 1..n : k \in 0..n
  BY DEF Loop
<1>2. 0 \in S
  BY <1>1, EmptyText, Zenon DEF Loop
<1>3. ASSUME NEW k \in 1..n, k - 1 \in S PROVE k \in S
  BY <1>1, <1>3, FieldText, Joined DEF Loop
<1>4. \A k \in 0..n : k \in S
  <2> HIDE DEF S
  <2> QED
    BY <1>1, <1>2, <1>3, Upward, Zenon
<1> QED
  BY <1>4, Zenon

\* The loop only adds to what is written.
LEMMA LoopGrows ==
  ASSUME NEW f, NEW a, NEW b, NEW n, Loop(f, a, b, n), NEW k \in 0..n
  PROVE  \E rest \in Text : f[n] = Join(f[k], rest)
<1> DEFINE after(m) == \E rest \in Text : f[m] = Join(f[k], rest)
           S == {m \in 0..n : k <= m => after(m)}
<1>1. n \in Nat /\ 0 \in 0..n /\ n \in 0..n /\ k <= n /\ \A m \in 1..n : m \in 0..n
  BY DEF Loop
<1>2. \A m \in 0..n : f[m] \in Text
  BY LoopWrites, Zenon
<1>3. after(k)
  BY <1>2, EmptyText, Zenon
<1>4. 0 \in S
  <2>1. k <= 0 => k = 0
    BY <1>1
  <2> QED
    BY <1>1, <1>3, <2>1, Zenon
<1>5. ASSUME NEW m \in 1..n, m - 1 \in S PROVE m \in S
  <2>1. CASE k <= m - 1
    <3>1. PICK rest \in Text : f[m - 1] = Join(f[k], rest)
      BY <1>5, <2>1, Zenon
    <3> DEFINE v == writeHashField(a[m])
               u == writeHashField(b[m])
    <3>2. v \in Text /\ u \in Text /\ f[k] \in Text /\ rest \in Text
      BY <1>2, FieldText, Zenon DEF Loop
    <3>3. f[m] = Join(Join(Join(f[k], rest), v), u)
      BY <3>1, Zenon DEF Loop
    <3> HIDE DEF v, u
    <3>4. Join(Join(rest, v), u) \in Text
      BY <3>2, Joined, Zenon
    <3>5. f[m] = Join(f[k], Join(Join(rest, v), u))
      <4>1. Join(Join(f[k], rest), v) = Join(f[k], Join(rest, v))
        BY <3>2, Regrouped, Zenon
      <4>2. Join(rest, v) \in Text
        BY <3>2, Joined, Zenon
      <4>3. Join(Join(f[k], Join(rest, v)), u) = Join(f[k], Join(Join(rest, v), u))
        BY <3>2, <4>2, Regrouped
      <4> QED
        BY <3>3, <4>1, <4>3, Zenon
    <3>6. after(m)
      BY <3>4, <3>5, Zenon
    <3> QED
      BY <1>1, <3>6, Zenon
  <2>2. CASE ~(k <= m - 1)
    <3>1. k <= m => k = m
      BY <1>1, <2>2
    <3> QED
      BY <1>1, <1>3, <3>1, Zenon
  <2> QED
    BY <2>1, <2>2, Zenon
<1>6. \A m \in 0..n : m \in S
  <2> HIDE DEF S
  <2> QED
    BY <1>1, <1>4, <1>5, Upward, Zenon
<1> QED
  BY <1>1, <1>6, Zenon

\* What follows the headers before the k-th begins with its name and its value.
LEMMA LoopGoesOn ==
  ASSUME NEW f, NEW a, NEW b, NEW n, Loop(f, a, b, n), NEW k \in 1..n, NEW w \in Text
  PROVE  \E rest \in Text :
           Join(f[n], w)
             = Join(f[k - 1], Join(writeHashField(a[k]), Join(writeHashField(b[k]), rest)))
<1> DEFINE v == writeHashField(a[k])
           u == writeHashField(b[k])
           p == f[k - 1]
<1>1. n \in Nat /\ k - 1 \in 0..n /\ k \in 0..n
  BY DEF Loop
<1>2. PICK rest \in Text : f[n] = Join(f[k], rest)
  BY <1>1, LoopGrows
<1>3. f[k] = Join(Join(p, v), u)
  BY Zenon DEF Loop
<1>4. v \in Text /\ u \in Text
  BY FieldText, Zenon DEF Loop
<1>5. p \in Text
  BY <1>1, LoopWrites, Zenon
<1> HIDE DEF v, u, p
<1>6. Join(rest, w) \in Text
  BY Joined, Zenon
<1>7. Join(Join(Join(Join(p, v), u), rest), w) = Join(p, Join(v, Join(u, Join(rest, w))))
  <2>1. Join(p, v) \in Text /\ Join(Join(p, v), u) \in Text /\ Join(u, Join(rest, w)) \in Text
    BY <1>4, <1>5, <1>6, Joined, Zenon
  <2>2. Join(Join(Join(Join(p, v), u), rest), w) = Join(Join(Join(p, v), u), Join(rest, w))
    BY <2>1, Regrouped
  <2>3. Join(Join(Join(p, v), u), Join(rest, w)) = Join(Join(p, v), Join(u, Join(rest, w)))
    BY <1>4, <1>6, <2>1, Regrouped
  <2>4. Join(Join(p, v), Join(u, Join(rest, w))) = Join(p, Join(v, Join(u, Join(rest, w))))
    BY <1>4, <1>5, <2>1, Regrouped
  <2> QED
    BY <2>2, <2>3, <2>4, Zenon
<1>8. Join(f[n], w) = Join(p, Join(v, Join(u, Join(rest, w))))
  BY <1>2, <1>3, <1>7, Zenon
<1> QED
  BY <1>6, <1>8, Zenon DEF v, u, p

\* Two runs of the loop that a body follows, and that end alike, wrote the same headers as
\* far as both go.
LEMMA LoopsAgree ==
  ASSUME NEW f, NEW a, NEW b, NEW n, Loop(f, a, b, n),
         NEW g, NEW c, NEW d, NEW m, Loop(g, c, d, m),
         NEW x \in Word, NEW y \in Word,
         Join(f[n], writeHashField(x)) = Join(g[m], writeHashField(y))
  PROVE  \A k \in 0..n : k <= m => /\ f[k] = g[k]
                                   /\ \A i \in 1..k : a[i] = c[i] /\ b[i] = d[i]
<1> DEFINE agree(k) == f[k] = g[k] /\ \A i \in 1..k : a[i] = c[i] /\ b[i] = d[i]
           S == {k \in 0..n : k <= m => agree(k)}
<1>1. n \in Nat /\ m \in Nat /\ 0 \in 0..n /\ \A m_1 \in 1..n : m_1 \in 0..n
  BY DEF Loop
<1>2. 0 \in S
  <2>1. 1..0 = {}
    OBVIOUS
  <2> QED
    BY <1>1, <2>1, Zenon DEF Loop
<1>3. ASSUME NEW k \in 1..n, k - 1 \in S PROVE k \in S
  <2> SUFFICES ASSUME k <= m PROVE agree(k)
    BY <1>1, Zenon
  <2>1. /\ k \in 1..m /\ k - 1 \in 0..n /\ k - 1 <= m
        /\ \A i \in 1..k : i # k => i \in 1..(k - 1)
    BY <1>1
  <2>2. agree(k - 1)
    BY <1>3, <2>1, Zenon
  <2>3. writeHashField(x) \in Text /\ writeHashField(y) \in Text /\ f[k - 1] \in Text
    BY <2>1, FieldText, LoopWrites, Zenon
  <2>4. a[k] \in Word /\ b[k] \in Word /\ c[k] \in Word /\ d[k] \in Word
    BY <2>1, Zenon DEF Loop
  <2>5. PICK r \in Text :
          Join(f[n], writeHashField(x))
            = Join(f[k - 1], Join(writeHashField(a[k]), Join(writeHashField(b[k]), r)))
    BY <2>3, LoopGoesOn
  <2>6. PICK q \in Text :
          Join(g[m], writeHashField(y))
            = Join(g[k - 1], Join(writeHashField(c[k]), Join(writeHashField(d[k]), q)))
    BY <2>1, <2>3, LoopGoesOn
  <2>7. a[k] = c[k] /\ b[k] = d[k]
    <3> DEFINE s == Join(writeHashField(b[k]), r)
               t == Join(writeHashField(d[k]), q)
    <3>1. s \in Text /\ t \in Text
      BY <2>4, FieldText, Joined, Zenon
    <3>2. Join(f[k - 1], Join(writeHashField(a[k]), s))
            = Join(f[k - 1], Join(writeHashField(c[k]), t))
      BY <2>2, <2>5, <2>6, Zenon
    <3> HIDE DEF s, t
    <3>3. Join(writeHashField(a[k]), s) \in Text /\ Join(writeHashField(c[k]), t) \in Text
      BY <2>4, <3>1, FieldText, Joined, Zenon
    <3>4. Join(writeHashField(a[k]), s) = Join(writeHashField(c[k]), t)
      BY <2>3, <3>2, <3>3, Cancelled, Zenon
    <3>5. a[k] = c[k] /\ s = t
      BY <2>4, <3>1, <3>4, FieldCut
    <3>6. b[k] = d[k]
      BY <2>4, <3>5, FieldCut DEF s, t
    <3> QED
      BY <3>5, <3>6, Zenon
  <2>8. f[k] = g[k]
    <3>1. /\ f[k] = Join(Join(f[k - 1], writeHashField(a[k])), writeHashField(b[k]))
          /\ g[k] = Join(Join(g[k - 1], writeHashField(c[k])), writeHashField(d[k]))
      BY <2>1, Zenon DEF Loop
    <3> QED
      BY <2>2, <2>7, <3>1, Zenon
  <2> QED
    BY <2>1, <2>2, <2>7, <2>8, Zenon
<1>4. \A k \in 0..n : k \in S
  <2> HIDE DEF S
  <2> QED
    BY <1>1, <1>2, <1>3, Upward, Zenon
<1> QED
  BY <1>4, Zenon

\* Neither of them wrote more headers: a body is one field and a header is two.
LEMMA LoopNotLonger ==
  ASSUME NEW f, NEW a, NEW b, NEW n, Loop(f, a, b, n),
         NEW g, NEW c, NEW d, NEW m, Loop(g, c, d, m),
         NEW x \in Word, NEW y \in Word,
         Join(f[n], writeHashField(x)) = Join(g[m], writeHashField(y))
  PROVE  ~(n < m)
<1> SUFFICES ASSUME n < m PROVE FALSE
  BY Zenon
<1> DEFINE k == n + 1
<1>1. n \in Nat /\ m \in Nat /\ n \in 0..n /\ n <= m /\ k \in 1..m /\ k - 1 = n
  BY DEF Loop
<1> HIDE DEF k
<1>2. \A i \in 0..n : i <= m => f[i] = g[i]
  BY LoopsAgree
<1>3. f[n] = g[k - 1] /\ f[n] \in Text
  BY <1>1, <1>2, LoopWrites, Zenon
<1>4. writeHashField(x) \in Text /\ writeHashField(y) \in Text
  BY FieldText, Zenon
<1>5. c[k] \in Word /\ d[k] \in Word
  BY <1>1, Zenon DEF Loop
<1>6. PICK r \in Text :
        Join(g[m], writeHashField(y))
          = Join(g[k - 1], Join(writeHashField(c[k]), Join(writeHashField(d[k]), r)))
  BY <1>1, <1>4, LoopGoesOn
<1> DEFINE u == Join(writeHashField(d[k]), r)
<1>7. u \in Text
  BY <1>5, FieldText, Joined, Zenon
<1>8. u # <<>>
  BY <1>5, FieldNotEmpty, Zenon
<1> HIDE DEF u
<1>9. Join(writeHashField(c[k]), u) \in Text
  BY <1>5, <1>7, FieldText, Joined, Zenon
<1>10. writeHashField(x) = Join(writeHashField(c[k]), u)
  BY <1>3, <1>4, <1>6, <1>9, Cancelled, Zenon DEF u
<1>11. Join(writeHashField(x), <<>>) = Join(writeHashField(c[k]), u) /\ <<>> \in Text
  BY <1>4, <1>10, EmptyText, Zenon
<1> QED
  BY <1>5, <1>7, <1>8, <1>11, FieldCut

\* The headers of a request: their names are some of W.
HeaderMap(h, W) ==
  /\ DOMAIN h \subseteq W /\ IsFiniteSet(DOMAIN h)
  /\ \A w \in DOMAIN h : h[w] \in Word
  /\ h = [w \in DOMAIN h |-> h[w]]

NamesOf(h) == [i \in 1..Cardinality(DOMAIN h) |-> Bytes[Sorted(DOMAIN h)[i]]]
ValuesOf(h) == [i \in 1..Cardinality(DOMAIN h) |-> h[Sorted(DOMAIN h)[i]]]

\* RequestHash writes the headers in one run of the loop.
LEMMA HeadersWritten ==
  ASSUME NEW W, Distinct(W), NEW h, HeaderMap(h, W)
  PROVE  \E f : /\ Loop(f, NamesOf(h), ValuesOf(h), Cardinality(DOMAIN h))
                /\ hashedHeaders(h) = f[Cardinality(DOMAIN h)]
<1> DEFINE n == Cardinality(DOMAIN h)
           names == Sorted(DOMAIN h)
           step(f, k) ==
             IF k = 0 THEN <<>>
             ELSE (f[k - 1] \o writeHashField(Bytes[names[k]])) \o writeHashField(h[names[k]])
           has(m) == \E f : f = [k \in 0..m |-> step(f, k)]
           S == {m \in 0..n : has(m)}
<1>1. Distinct(DOMAIN h) /\ IsFiniteSet(DOMAIN h)
  BY Zenon DEF HeaderMap, Distinct
<1>2. n \in Nat
  BY <1>1, FS_CardinalityType, Zenon
<1>3. names \in [1..n -> DOMAIN h]
  BY <1>1, SortedNames, Zenon
<1> HIDE DEF n, names
<1>4. 0 \in 0..n /\ n \in 0..n /\ \A m \in 1..n : m \in 0..n
  BY <1>2
<1>5. 0 \in S
  <2> DEFINE f == [k \in 0..0 |-> <<>>]
  <2>1. \A k \in 0..0 : k = 0
    OBVIOUS
  <2>2. \A k \in 0..0 : step(f, k) = <<>>
    BY <2>1, Zenon
  <2>3. f = [k \in 0..0 |-> step(f, k)]
    BY <2>2, Zenon
  <2>4. has(0)
    <3> HIDE DEF f, step
    <3> QED
      BY <2>3, Zenon
  <2> QED
    BY <1>4, <2>4, Zenon
<1>6. ASSUME NEW m \in 1..n, m - 1 \in S PROVE m \in S
  <2>1. PICK f : f = [k \in 0..(m - 1) |-> step(f, k)]
    BY <1>6, Zenon
  <2> DEFINE g == [k \in 0..m |-> IF k = m THEN step(f, k) ELSE f[k]]
  <2>2. \A k \in 0..m : k # m => k \in 0..(m - 1) /\ k - 1 # m
    OBVIOUS
  <2>3. \A k \in 0..m : k # 0 => k - 1 \in 0..m /\ k - 1 # m
    OBVIOUS
  <2>4. \A k \in 0..m : g[k] = IF k = m THEN step(f, k) ELSE f[k]
    BY Zenon
  <2>5. \A k \in 0..m : k # m => f[k] = step(f, k)
    <3> HIDE DEF step
    <3> QED
      BY <2>1, <2>2, Zenon
  <2> HIDE DEF g
  <2>6. ASSUME NEW k \in 0..m PROVE g[k] = step(g, k)
    <3>1. step(g, k) = step(f, k)
      <4>1. k # 0 => g[k - 1] = f[k - 1]
        <5> HIDE DEF step
        <5> QED
          BY <2>3, <2>4, Zenon
      <4> QED
        BY <4>1, Zenon
    <3> HIDE DEF step
    <3> QED
      BY <2>4, <2>5, <3>1, Zenon
  <2>7. g = [k \in 0..m |-> step(g, k)]
    <3> HIDE DEF step
    <3> QED
      BY <2>6, Zenon DEF g
  <2>8. has(m)
    <3> HIDE DEF step
    <3> QED
      BY <2>7, Zenon
  <2> QED
    BY <1>4, <2>8, Zenon
<1>7. has(n)
  <2>1. \A m \in 0..n : m \in S
    <3> HIDE DEF S
    <3> QED
      BY <1>2, <1>5, <1>6, Upward, Zenon
  <2> QED
    BY <1>4, <2>1, Zenon
<1> DEFINE f == CHOOSE f : f = [k \in 0..n |-> step(f, k)]
<1>8. f = [k \in 0..n |-> step(f, k)]
  <2> HIDE DEF step
  <2> QED
    BY <1>7, Zenon
<1>9. hashedHeaders(h) = f[n]
  BY Zenon DEF hashedHeaders, n, names
<1> HIDE DEF f
<1>10. \A k \in 0..n : f[k] = step(f, k)
  <2> HIDE DEF step
  <2> QED
    BY <1>8, Zenon
<1>11. \A k \in 1..n : k # 0 /\ k \in 0..n
  BY <1>2
<1>12. /\ \A k \in 1..n : NamesOf(h)[k] = Bytes[names[k]] /\ ValuesOf(h)[k] = h[names[k]]
       /\ NamesOf(h) = [k \in 1..n |-> Bytes[names[k]]]
       /\ ValuesOf(h) = [k \in 1..n |-> h[names[k]]]
  BY Zenon DEF NamesOf, ValuesOf, n, names
<1>13. \A k \in 1..n : Bytes[names[k]] \in Word /\ h[names[k]] \in Word
  BY <1>1, <1>3, Zenon DEF HeaderMap, Distinct
<1>14. NamesOf(h) \in [1..n -> Word] /\ ValuesOf(h) \in [1..n -> Word]
  BY <1>12, <1>13, Zenon
<1>15. f[0] = <<>>
  BY <1>4, <1>10, Zenon
<1>16. ASSUME NEW k \in 1..n
       PROVE  f[k] = Join(Join(f[k - 1], writeHashField(NamesOf(h)[k])),
                          writeHashField(ValuesOf(h)[k]))
  BY <1>10, <1>11, <1>12, Zenon DEF Join
<1>17. Loop(f, NamesOf(h), ValuesOf(h), n)
  BY <1>2, <1>14, <1>15, <1>16, Zenon DEF Loop
<1> QED
  BY <1>9, <1>17, Zenon DEF n

\* Headers and body are read back from what is written in only one way.
LEMMA HeadersFaithful ==
  ASSUME NEW W, Distinct(W), NEW h, NEW g, HeaderMap(h, W), HeaderMap(g, W),
         NEW x \in Word, NEW y \in Word,
         Join(hashedHeaders(h), writeHashField(x)) = Join(hashedHeaders(g), writeHashField(y))
  PROVE  h = g /\ x = y
<1> DEFINE n == Cardinality(DOMAIN h)
           m == Cardinality(DOMAIN g)
           s == Sorted(DOMAIN h)
           t == Sorted(DOMAIN g)
<1>1. PICK p : Loop(p, NamesOf(h), ValuesOf(h), n) /\ hashedHeaders(h) = p[n]
  BY HeadersWritten, Zenon
<1>2. PICK q : Loop(q, NamesOf(g), ValuesOf(g), m) /\ hashedHeaders(g) = q[m]
  BY HeadersWritten, Zenon
<1>3. Join(p[n], writeHashField(x)) = Join(q[m], writeHashField(y))
  BY <1>1, <1>2, Zenon
<1>4. /\ s \in [1..n -> DOMAIN h] /\ \A w \in DOMAIN h : \E i \in 1..n : s[i] = w
      /\ t \in [1..m -> DOMAIN g] /\ \A w \in DOMAIN g : \E i \in 1..m : t[i] = w
  <2>1. /\ Distinct(DOMAIN h) /\ IsFiniteSet(DOMAIN h)
        /\ Distinct(DOMAIN g) /\ IsFiniteSet(DOMAIN g)
    BY Zenon DEF HeaderMap, Distinct
  <2> QED
    BY <2>1, SortedNames, Zenon
<1>5. /\ \A i \in 1..n : NamesOf(h)[i] = Bytes[s[i]] /\ ValuesOf(h)[i] = h[s[i]]
      /\ \A i \in 1..m : NamesOf(g)[i] = Bytes[t[i]] /\ ValuesOf(g)[i] = g[t[i]]
  BY Zenon DEF NamesOf, ValuesOf
<1> HIDE DEF n, m, s, t
<1>6. n = m
  <2>1. ~(n < m)
    BY <1>1, <1>2, <1>3, LoopNotLonger, Zenon
  <2>2. ~(m < n)
    BY <1>1, <1>2, <1>3, LoopNotLonger, Zenon
  <2>3. n \in Nat /\ m \in Nat
    BY <1>1, <1>2, Zenon DEF Loop
  <2> QED
    BY <2>1, <2>2, <2>3
<1>7. \A k \in 0..n : k <= m => /\ p[k] = q[k]
                                /\ \A i \in 1..k : /\ NamesOf(h)[i] = NamesOf(g)[i]
                                                   /\ ValuesOf(h)[i] = ValuesOf(g)[i]
  BY <1>1, <1>2, <1>3, LoopsAgree
<1>8. n \in Nat /\ n \in 0..n /\ n <= m
  BY <1>1, <1>6 DEF Loop
<1>9. p[n] = q[n] /\ \A i \in 1..n : /\ NamesOf(h)[i] = NamesOf(g)[i]
                                     /\ ValuesOf(h)[i] = ValuesOf(g)[i]
  BY <1>7, <1>8, Zenon
<1>10. 1..m = 1..n
  BY <1>6, Zenon
<1>11. ASSUME NEW i \in 1..n
       PROVE  s[i] = t[i] /\ h[s[i]] = g[s[i]] /\ s[i] \in DOMAIN g /\ s[i] \in DOMAIN h
  <2>1. i \in 1..m
    BY <1>10, Zenon
  <2>2. s[i] \in DOMAIN h /\ t[i] \in DOMAIN g
    BY <1>4, <2>1, Zenon
  <2>3. Bytes[s[i]] = Bytes[t[i]] /\ h[s[i]] = g[t[i]]
    BY <1>5, <1>9, <2>1, Zenon
  <2>4. s[i] \in W /\ t[i] \in W
    BY <2>2, Zenon DEF HeaderMap
  <2>5. s[i] = t[i]
    BY <2>3, <2>4, Zenon DEF Distinct
  <2> QED
    BY <2>2, <2>3, <2>5, Zenon
<1>12. DOMAIN h = DOMAIN g /\ \A w \in DOMAIN h : h[w] = g[w]
  <2>1. ASSUME NEW w \in DOMAIN h PROVE w \in DOMAIN g /\ h[w] = g[w]
    <3>1. PICK i \in 1..n : s[i] = w
      BY <1>4, Zenon
    <3> QED
      BY <1>11, <3>1, Zenon
  <2>2. ASSUME NEW w \in DOMAIN g PROVE w \in DOMAIN h
    <3>1. PICK i \in 1..m : t[i] = w
      BY <1>4, Zenon
    <3>2. i \in 1..n
      BY <1>10, Zenon
    <3> QED
      BY <1>11, <3>1, <3>2, Zenon
  <2> QED
    BY <2>1, <2>2, Zenon
<1>13. h = g
  BY <1>12, Zenon DEF HeaderMap
<1>14. x = y
  <2>1. p[n] \in Text
    BY <1>1, <1>8, LoopWrites, Zenon
  <2>2. writeHashField(x) \in Text /\ writeHashField(y) \in Text
    BY FieldText, Zenon
  <2>3. writeHashField(x) = writeHashField(y)
    BY <1>3, <1>6, <1>9, <2>1, <2>2, Cancelled, Zenon
  <2>4. Join(writeHashField(x), <<>>) = Join(writeHashField(y), <<>>) /\ <<>> \in Text
    BY <2>3, EmptyText, Zenon
  <2> QED
    BY <2>4, FieldCut, Zenon
<1> QED
  BY <1>13, <1>14, Zenon

\* What RequestHash is given.
HashInput(i, k, v, h, x, W) ==
  i \in Word /\ k \in 0..99 /\ Bytes[v] \in Word /\ HeaderMap(h, W) /\ x \in Word

\* The bytes that are hashed determine what they were written from.
LEMMA DigestFaithful ==
  ASSUME NEW W, Distinct(W),
         NEW i, NEW k, NEW v, NEW h, NEW x, HashInput(i, k, v, h, x, W),
         NEW j, NEW l, NEW w, NEW g, NEW y, HashInput(j, l, w, g, y, W),
         RequestDigest(i, k, v, h, x) = RequestDigest(j, l, w, g, y)
  PROVE  i = j /\ k = l /\ Bytes[v] = Bytes[w] /\ h = g /\ x = y
<1>1. ASSUME NEW e, HeaderMap(e, W) PROVE hashedHeaders(e) \in Text
  <2>1. PICK f : /\ Loop(f, NamesOf(e), ValuesOf(e), Cardinality(DOMAIN e))
                 /\ hashedHeaders(e) = f[Cardinality(DOMAIN e)]
    BY <1>1, HeadersWritten, Zenon
  <2> DEFINE n == Cardinality(DOMAIN e)
  <2>2. \A m \in 0..n : f[m] \in Text
    BY <2>1, LoopWrites, Zenon
  <2>3. n \in Nat
    BY <2>1, Zenon DEF Loop
  <2> HIDE DEF n
  <2>4. n \in 0..n
    BY <2>3
  <2> QED
    BY <2>1, <2>2, <2>4, Zenon DEF n
<1>2. ASSUME NEW a \in Text, NEW b \in Text, NEW c \in Text, NEW d \in Text, NEW e \in Text
      PROVE  Join(Join(Join(Join(a, b), c), d), e) = Join(a, Join(b, Join(c, Join(d, e))))
  <2>1. /\ Join(a, b) \in Text /\ Join(Join(a, b), c) \in Text
        /\ Join(d, e) \in Text /\ Join(c, Join(d, e)) \in Text
    BY Joined, Zenon
  <2>2. Join(Join(Join(Join(a, b), c), d), e) = Join(Join(Join(a, b), c), Join(d, e))
    BY <2>1, Regrouped
  <2>3. Join(Join(Join(a, b), c), Join(d, e)) = Join(Join(a, b), Join(c, Join(d, e)))
    BY <2>1, Regrouped
  <2>4. Join(Join(a, b), Join(c, Join(d, e))) = Join(a, Join(b, Join(c, Join(d, e))))
    BY <2>1, Regrouped
  <2> QED
    BY <2>2, <2>3, <2>4, Zenon
<1> DEFINE rest(e, z) == Join(hashedHeaders(e), writeHashField(z))
           fields(a, b, c, e, z) ==
             Join(writeHashField(a), Join(writeHashField(FormatInt(b)),
               Join(writeHashField(Bytes[c]), rest(e, z))))
<1>3. ASSUME NEW a, NEW b, NEW c, NEW e, NEW z, HashInput(a, b, c, e, z, W)
      PROVE  /\ RequestDigest(a, b, c, e, z) = fields(a, b, c, e, z)
             /\ FormatInt(b) \in Word
             /\ rest(e, z) \in Text
             /\ Join(writeHashField(Bytes[c]), rest(e, z)) \in Text
             /\ Join(writeHashField(FormatInt(b)),
                  Join(writeHashField(Bytes[c]), rest(e, z))) \in Text
  <2>1. FormatInt(b) \in Word
    BY <1>3, VersionWritten, Zenon DEF HashInput
  <2>2. /\ writeHashField(a) \in Text /\ writeHashField(FormatInt(b)) \in Text
        /\ writeHashField(Bytes[c]) \in Text /\ hashedHeaders(e) \in Text
        /\ writeHashField(z) \in Text
    BY <1>1, <1>3, <2>1, FieldText, Zenon DEF HashInput
  <2>3. RequestDigest(a, b, c, e, z) =
          Join(Join(Join(Join(writeHashField(a), writeHashField(FormatInt(b))),
            writeHashField(Bytes[c])), hashedHeaders(e)), writeHashField(z))
    BY Zenon DEF RequestDigest, Join
  <2>4. RequestDigest(a, b, c, e, z) = fields(a, b, c, e, z)
    BY <1>2, <2>2, <2>3
  <2> QED
    BY <2>1, <2>2, <2>4, Joined, Zenon
<1>4. fields(i, k, v, h, x) = fields(j, l, w, g, y)
  <2> HIDE DEF fields
  <2>1. /\ RequestDigest(i, k, v, h, x) = fields(i, k, v, h, x)
        /\ RequestDigest(j, l, w, g, y) = fields(j, l, w, g, y)
    BY <1>3, Zenon
  <2> QED
    BY <2>1, Zenon
<1>5. /\ FormatInt(k) \in Word /\ rest(h, x) \in Text
      /\ Join(writeHashField(Bytes[v]), rest(h, x)) \in Text
      /\ Join(writeHashField(FormatInt(k)), Join(writeHashField(Bytes[v]), rest(h, x))) \in Text
      /\ FormatInt(l) \in Word /\ rest(g, y) \in Text
      /\ Join(writeHashField(Bytes[w]), rest(g, y)) \in Text
      /\ Join(writeHashField(FormatInt(l)), Join(writeHashField(Bytes[w]), rest(g, y))) \in Text
  BY <1>3, Zenon
<1>6. /\ i = j
      /\ Join(writeHashField(FormatInt(k)), Join(writeHashField(Bytes[v]), rest(h, x)))
           = Join(writeHashField(FormatInt(l)), Join(writeHashField(Bytes[w]), rest(g, y)))
  <2> HIDE DEF rest
  <2> QED
    BY <1>4, <1>5, FieldCut DEF HashInput
<1>7. /\ FormatInt(k) = FormatInt(l)
      /\ Join(writeHashField(Bytes[v]), rest(h, x)) = Join(writeHashField(Bytes[w]), rest(g, y))
  <2> HIDE DEF rest
  <2> QED
    BY <1>5, <1>6, FieldCut
<1>8. Bytes[v] = Bytes[w] /\ rest(h, x) = rest(g, y)
  <2> HIDE DEF rest
  <2> QED
    BY <1>5, <1>7, FieldCut DEF HashInput
<1>9. k = l
  BY <1>7, VersionWritten, Zenon DEF HashInput
<1>10. h = g /\ x = y
  BY <1>8, HeadersFaithful DEF HashInput
<1> QED
  BY <1>6, <1>8, <1>9, <1>10, Zenon

-----------------------------------------------------------------------------
(***************************************************************************)
(* The request hash.                                                       *)
(***************************************************************************)

\* A repeated request has the hash of the original however its method and header names
\* are spelled, its values padded and its headers ordered.
THEOREM HashIgnoresSpelling ==
  ASSUME NEW r, NEW o, NEW d, NEW e,
         AcceptableHeaders(r.headers), AcceptableHeaders(o.headers),
         Normalized(r, d) = Normalized(o, e)
  PROVE  HashOf(r, d) = HashOf(o, e)
<1> DEFINE pairs(q) ==
             {<<q.headers[i].name.name, trimOptionalWhitespace(q.headers[i].value)>> :
                i \in DOMAIN q.headers}
           form(texts) == [name \in {pair[1] : pair \in texts} |->
                             CHOOSE text : <<name, text>> \in texts]
<1>1. /\ d.id = e.id /\ d.number = e.number /\ r.method.name = o.method.name
      /\ pairs(r) = pairs(o) /\ r.body = o.body
  BY Zenon DEF Normalized
<1>2. ASSUME NEW q, AcceptableHeaders(q.headers)
      PROVE  CanonicalCallerHeaders(q.headers) = form(pairs(q))
  <2>1. {Canonical(q.headers[i].name) : i \in DOMAIN q.headers} = {pair[1] : pair \in pairs(q)}
    <3>1. ASSUME NEW i \in DOMAIN q.headers
          PROVE  Canonical(q.headers[i].name) \in {pair[1] : pair \in pairs(q)}
      <4>1. <<q.headers[i].name.name, trimOptionalWhitespace(q.headers[i].value)>> \in pairs(q)
        BY Zenon
      <4> HIDE DEF pairs
      <4> QED
        BY <4>1 DEF Canonical
    <3>2. ASSUME NEW pair \in pairs(q)
          PROVE  pair[1] \in {Canonical(q.headers[i].name) : i \in DOMAIN q.headers}
      <4>1. PICK i \in DOMAIN q.headers :
              pair = <<q.headers[i].name.name, trimOptionalWhitespace(q.headers[i].value)>>
        BY Zenon
      <4>2. pair[1] = Canonical(q.headers[i].name)
        BY <4>1, Zenon DEF Canonical
      <4> QED
        BY <4>2, Zenon
    <3> QED
      BY <3>1, <3>2, Zenon
  <2>2. ASSUME NEW name \in {Canonical(q.headers[i].name) : i \in DOMAIN q.headers}
        PROVE  trimOptionalWhitespace(q.headers[CHOOSE i \in DOMAIN q.headers :
                   Canonical(q.headers[i].name) = name].value)
                 = CHOOSE text : <<name, text>> \in pairs(q)
    <3> DEFINE named == CHOOSE i \in DOMAIN q.headers : Canonical(q.headers[i].name) = name
    <3>1. named \in DOMAIN q.headers /\ Canonical(q.headers[named].name) = name
      BY Zenon
    <3> HIDE DEF named
    <3>2. \A text : <<name, text>> \in pairs(q) <=>
                     text = trimOptionalWhitespace(q.headers[named].value)
      BY <1>2, <3>1, Zenon DEF AcceptableHeaders, Canonical
    <3> QED
      BY <3>2, Zenon DEF named
  <2> QED
    BY <2>1, <2>2, Zenon DEF CanonicalCallerHeaders
<1>3. CanonicalCallerHeaders(r.headers) = CanonicalCallerHeaders(o.headers)
  <2> HIDE DEF pairs, form
  <2>1. /\ CanonicalCallerHeaders(r.headers) = form(pairs(r))
        /\ CanonicalCallerHeaders(o.headers) = form(pairs(o))
    BY <1>2, Zenon
  <2> QED
    BY <1>1, <2>1, Zenon
<1> QED
  BY <1>1, <1>3, Zenon DEF HashOf, Canonical

\* The headers submit hashes are a finite map from names to texts.
LEMMA CanonicalMap ==
  ASSUME NEW fields \in Seq(Field(Name, Seq(Nat))), AcceptableHeaders(fields)
  PROVE  HeaderMap(CanonicalCallerHeaders(fields), Name)
<1> DEFINE headers == CanonicalCallerHeaders(fields)
           name == [i \in DOMAIN fields |-> Canonical(fields[i].name)]
<1>1. DOMAIN headers = {Canonical(fields[i].name) : i \in DOMAIN fields}
  BY Zenon DEF CanonicalCallerHeaders
<1>2. name \in Surjection(DOMAIN fields, DOMAIN headers)
  BY <1>1, Zenon DEF Surjection
<1>3. IsFiniteSet(DOMAIN fields)
  <2>1. DOMAIN fields = 1..Len(fields) /\ Len(fields) \in Int /\ 1 \in Int
    OBVIOUS
  <2> QED
    BY <2>1, FS_Interval, Zenon
<1>4. IsFiniteSet(DOMAIN headers)
  <2> HIDE DEF name, headers
  <2> QED
    BY <1>2, <1>3, FS_Surjection, Zenon
<1>5. \A w \in DOMAIN headers : w \in Name /\ headers[w] \in Word
  BY CanonicalHeaders, Zenon DEF Word
<1>6. headers = [w \in DOMAIN headers |-> headers[w]]
  BY DEF CanonicalCallerHeaders
<1> QED
  BY <1>4, <1>5, <1>6, Zenon DEF HeaderMap

\* Requests with the same hash are the same after normalisation: no field can be read as
\* the end of one and the beginning of the next, and no header as the body.
THEOREM HashTellsApart ==
  ASSUME NEW r \in ReceivedRequest, NEW o \in ReceivedRequest, NEW d, NEW e,
         AcceptableHeaders(r.headers), AcceptableHeaders(o.headers),
         Identified(d), Identified(e), HashOf(r, d) = HashOf(o, e)
  PROVE  Normalized(r, d) = Normalized(o, e)
<1> DEFINE headers(q) == CanonicalCallerHeaders(q.headers)
<1>1. Distinct(Name)
  BY RulesAssumption, Zenon DEF Distinct, Word
<1>2. ASSUME NEW q \in ReceivedRequest
      PROVE  /\ q.headers \in Seq(Field(Name, Seq(Nat))) /\ q.body \in Word
             /\ q.method.name \in Method /\ Bytes[q.method.name] \in Word
  BY <1>2, RulesAssumption, Zenon DEF ReceivedRequest, Spelled, Word
<1>3. HeaderMap(headers(r), Name) /\ HeaderMap(headers(o), Name)
  BY <1>2, CanonicalMap, Zenon
<1>4. RequestDigest(d.id, d.number, r.method.name, headers(r), r.body)
        = RequestDigest(e.id, e.number, o.method.name, headers(o), o.body)
  BY Zenon DEF HashOf, Canonical
<1>5. d.id \in Word /\ d.number \in 0..99 /\ e.id \in Word /\ e.number \in 0..99
  BY Zenon DEF Identified, Word
<1>6. /\ d.id = e.id /\ d.number = e.number /\ Bytes[r.method.name] = Bytes[o.method.name]
      /\ headers(r) = headers(o) /\ r.body = o.body
  <2> HIDE DEF headers
  <2>1. /\ HashInput(d.id, d.number, r.method.name, headers(r), r.body, Name)
        /\ HashInput(e.id, e.number, o.method.name, headers(o), o.body, Name)
    BY <1>2, <1>3, <1>5, Zenon DEF HashInput
  <2> QED
    BY <1>1, <1>4, <2>1, DigestFaithful
<1>7. r.method.name = o.method.name
  BY <1>2, <1>6, RulesAssumption, Zenon
<1> DEFINE pairs(q) ==
             {<<q.headers[i].name.name, trimOptionalWhitespace(q.headers[i].value)>> :
                i \in DOMAIN q.headers}
           graph(h) == {<<w, h[w]>> : w \in DOMAIN h}
<1>8. ASSUME NEW q, AcceptableHeaders(q.headers)
      PROVE  pairs(q) = graph(headers(q))
  <2>1. ASSUME NEW i \in DOMAIN q.headers
        PROVE  /\ q.headers[i].name.name \in DOMAIN headers(q)
               /\ headers(q)[q.headers[i].name.name]
                    = trimOptionalWhitespace(q.headers[i].value)
    <3> DEFINE w == q.headers[i].name.name
               named == CHOOSE j \in DOMAIN q.headers : Canonical(q.headers[j].name) = w
    <3>1. w \in DOMAIN headers(q)
      BY Zenon DEF CanonicalCallerHeaders, Canonical
    <3>2. headers(q)[w] = trimOptionalWhitespace(q.headers[named].value)
      BY <3>1, Zenon DEF CanonicalCallerHeaders
    <3>3. named \in DOMAIN q.headers /\ Canonical(q.headers[named].name) = w
      BY Zenon DEF Canonical
    <3>4. named = i
      <4> HIDE DEF named
      <4> QED
        BY <1>8, <3>3, Zenon DEF AcceptableHeaders, Canonical
    <3> QED
      BY <3>1, <3>2, <3>4, Zenon
  <2>2. ASSUME NEW w \in DOMAIN headers(q)
        PROVE  \E i \in DOMAIN q.headers : q.headers[i].name.name = w
    BY Zenon DEF CanonicalCallerHeaders, Canonical
  <2> HIDE DEF headers
  <2>3. pairs(q) \subseteq graph(headers(q))
    BY <2>1, Zenon
  <2>4. graph(headers(q)) \subseteq pairs(q)
    <3> SUFFICES ASSUME NEW w \in DOMAIN headers(q)
                 PROVE  <<w, headers(q)[w]>> \in pairs(q)
      BY Zenon
    <3>1. PICK i \in DOMAIN q.headers : q.headers[i].name.name = w
      BY <2>2, Zenon
    <3>2. headers(q)[w] = trimOptionalWhitespace(q.headers[i].value)
      BY <2>1, <3>1, Zenon
    <3> QED
      BY <3>1, <3>2, Zenon
  <2> QED
    BY <2>3, <2>4, Zenon
<1>9. pairs(r) = pairs(o)
  <2>1. pairs(r) = graph(headers(r)) /\ pairs(o) = graph(headers(o))
    <3> HIDE DEF pairs, graph, headers
    <3> QED
      BY <1>8, Zenon
  <2> HIDE DEF pairs, graph, headers
  <2> QED
    BY <1>6, <2>1, Zenon
<1> QED
  BY <1>6, <1>7, <1>9, Zenon DEF Normalized

\* submit gives two requests the same hash exactly when they are the same after
\* normalisation, whatever they consist of and whatever came before.
THEOREM HashFaithful == RulesSpec => []HashIsFaithful
<1>1. RulesInv => HashIsFaithful
  <2> SUFFICES ASSUME RulesInv, stage = "stored", NEW other \in Reference
               PROVE  stored.request_hash = ReferenceHash[other]
                        <=> Normalized(request, destination) = ReferenceForm[other]
    BY Zenon DEF HashIsFaithful
  <2>1. /\ request \in ReceivedRequest /\ Identified(destination)
        /\ AcceptableHeaders(request.headers)
        /\ stored.request_hash = HashOf(request, destination)
    BY Zenon DEF RulesInv, Accepts
  <2>2. /\ other.request \in ReceivedRequest /\ Identified(other.destination)
        /\ AcceptableHeaders(other.request.headers)
    BY ReferenceAssumption, Zenon
  <2>3. /\ ReferenceHash[other] = HashOf(other.request, other.destination)
        /\ ReferenceForm[other] = Normalized(other.request, other.destination)
    BY Zenon DEF ReferenceHash, ReferenceForm
  <2>4. HashOf(request, destination) = HashOf(other.request, other.destination)
          => Normalized(request, destination) = Normalized(other.request, other.destination)
    BY <2>1, <2>2, HashTellsApart
  <2>5. Normalized(request, destination) = Normalized(other.request, other.destination)
          => HashOf(request, destination) = HashOf(other.request, other.destination)
    BY <2>1, <2>2, HashIgnoresSpelling
  <2> QED
    BY <2>1, <2>3, <2>4, <2>5, Zenon
<1> QED
  BY <1>1, RulesInvariance, PTL

=============================================================================
