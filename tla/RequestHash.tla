----------------------------- MODULE RequestHash -----------------------------
(***************************************************************************)
(* CanonicalCallerHeaders, and the bytes RequestHash feeds to SHA-256,     *)
(* which is taken to have no collisions.                                   *)
(*                                                                         *)
(* Values and bodies are sequences of characters.  A header name or method *)
(* is a word in lower or upper case without blanks, together with the      *)
(* spelling it came in: its letter case and the white space around it.     *)
(***************************************************************************)
EXTENDS Naturals, Sequences, FiniteSets

CONSTANT Bytes  \* Bytes[word]: the bytes of a header name or method

Blank == 0      \* blank and tab
Control == 8    \* control characters other than these
LineBreak == 9  \* carriage return and line feed

-----------------------------------------------------------------------------
(***************************************************************************)
(* CanonicalCallerHeaders.                                                 *)
(***************************************************************************)

\* strings.ToLower(strings.TrimSpace(name)), and strings.ToUpper for a method.
Canonical(spelled) == spelled.name

\* strings.Trim(value, " \t")
trimOptionalWhitespace(value) ==
  LET inner == {i \in DOMAIN value : value[i] # Blank}
  IN  IF inner = {} THEN <<>>
      ELSE SubSeq(value, CHOOSE i \in inner : \A j \in inner : i <= j,
                         CHOOSE i \in inner : \A j \in inner : j <= i)

CanonicalCallerHeaders(fields) ==
  [name \in {Canonical(fields[i].name) : i \in DOMAIN fields} |->
     trimOptionalWhitespace(
       fields[CHOOSE i \in DOMAIN fields : Canonical(fields[i].name) = name].value)]

-----------------------------------------------------------------------------
(***************************************************************************)
(* RequestHash.                                                            *)
(***************************************************************************)

\* Mutant: fields follow each other with no lengths.
writesValue(value) == value

\* Eight bytes of length and the value; the length is one symbol here, of its own kind.
writeHashField(value) == <<<<Len(value)>>>> \o [i \in DOMAIN value |-> <<"byte", value[i]>>]

\* strconv.FormatInt(version, 10), for versions of at most two digits.
FormatInt(n) == IF n < 10 THEN <<n>> ELSE <<n \div 10, n % 10>>

\* Byte order: n is the first position where a and b differ, or where a has ended.
Before(a, b) ==
  \E n \in 1..Len(b) : /\ \A i \in 1..(n - 1) : i <= Len(a) /\ a[i] = b[i]
                       /\ n <= Len(a) => a[n] < b[n]

\* sort.Strings
Sorted(names) ==
  CHOOSE s \in [1..Cardinality(names) -> names] :
    \A i, j \in 1..Cardinality(names) : i < j => Before(Bytes[s[i]], Bytes[s[j]])

\* Names and values in the order of the names.  The headers are canonical already, and
\* the second pass through CanonicalCallerHeaders leaves them alone.
hashedHeaders(headers) ==
  LET names == Sorted(DOMAIN headers)
      written[n \in 0..Cardinality(DOMAIN headers)] ==
        IF n = 0 THEN <<>>
        ELSE written[n - 1] \o writeHashField(Bytes[names[n]])
                            \o writeHashField(headers[names[n]])
  IN  written[Cardinality(DOMAIN headers)]

RequestDigest(destination, version, method, headers, body) ==
  writeHashField(destination)
    \o writeHashField(FormatInt(version))
    \o writeHashField(Bytes[method])
    \o hashedHeaders(headers)
    \o writeHashField(body)

=============================================================================
