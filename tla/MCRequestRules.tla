--------------------------- MODULE MCRequestRules ---------------------------
(***************************************************************************)
(* One header name of each class in every part of a destination version;   *)
(* and texts that begin like each other, so that hashed fields could run   *)
(* together.                                                               *)
(***************************************************************************)
EXTENDS RequestRules, SequencesExt

SmallBytes ==
  [word \in Name \cup Method |->
     CASE word \in {"x-one", "POST"} -> <<1>>
       [] word = "x-two" -> <<1, 1>>
       [] word \in {"host", "PUT"} -> <<2>>
       [] word \in {"authorization", "GET"} -> <<3>>
       [] word = "x-key" -> <<4>>
       [] word \in Separated -> <<5>>
       [] word \in Blanked -> <<6>>]

Requests(methods, headers, bodies) == [method : methods, headers : headers, body : bodies]

\* Every class of header name and spelling in request and version.
Injected ==
  {[name |-> "authorization", spelling |-> "cased"],
   [name |-> "host", spelling |-> "plain"],
   [name |-> "x-one", spelling |-> "plain"],
   [name |-> "x-one", spelling |-> "cased"],
   [name |-> "x-two", spelling |-> "padded"],
   [name |-> "x-two", spelling |-> "plain"],
   [name |-> "x/three", spelling |-> "plain"]}

Versions == DestinationVersion({<<1>>}, {1}, {{"x-one"}, Name}, Injected)

OneField == Field(Name, {<<1>>, <<Control>>, <<LineBreak>>})

TwoFields ==
  {field \in Field(Name \ {"x-key"}, {<<1>>, <<LineBreak>>}) : field.name.spelling # "cased"}

\* Short texts that run together, for versions that allow them.
Text == BoundedSeq({Blank, 1}, 1)

HashVersions ==
  [id : {<<1>>, <<1, 1>>}, number : {1, 2}, methods : {{"POST"}}, headers : {{"x-one", "x-two"}},
   credential : {[name |-> "authorization", spelling |-> "cased"]},
   idempotency : {[name |-> "x-key", spelling |-> "cased"]}]

HashRequests ==
  Requests(Spelled({"POST"}), BoundedSeq(Field({"x-one", "x-two"}, Text), 2), Text)

SmallCases ==
  {[requests |-> Requests(Spelled(Method), BoundedSeq(OneField, 1), {<<>>}),
    versions |-> Versions],
   [requests |-> Requests([name : Method, spelling : {"padded"}],
                          [1..2 -> TwoFields], {<<>>}),
    versions |-> Versions],
   [requests |-> HashRequests, versions |-> HashVersions]}

\* Of each of these requests, the one with plain names in order and trimmed values.
Plain(name) == [name |-> name, spelling |-> "plain"]
PlainField(name, value) == [name |-> Plain(name), value |-> value]

PlainHeaders ==
  LET values == {<<>>, <<1>>}
  IN  {<<>>}
        \cup {<<PlainField(name, v)>> : name \in {"x-one", "x-two"}, v \in values}
        \cup {<<PlainField("x-one", v), PlainField("x-two", w)>> : v \in values, w \in values}

SmallReference ==
  [request : Requests({Plain("POST")}, PlainHeaders, Text), destination : HashVersions]

=============================================================================
