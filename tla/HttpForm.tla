------------------------------- MODULE HttpForm -------------------------------
(***************************************************************************)
(* What the body of a configuration request means: the reference the       *)
(* streaming parser is checked against.  It sees the whole body, splits it *)
(* at its delimiters and takes the fields in order.                        *)
(***************************************************************************)
EXTENDS HttpParser

Split(characters, delimiter) ==
    FoldLeft(LAMBDA parts, c : IF c = delimiter THEN Append(parts, <<>>)
                               ELSE Append(Front(parts), Append(Last(parts), c)),
             << <<>> >>, characters)

Fields(body) == Split(body, "&")

\* The key and the value of a field that has a key.
HasKey(field)  == \E key \in ToSet(Keys) : IsPrefix(Text[key], field)
KeyOf(field)   == CHOOSE key \in ToSet(Keys) : IsPrefix(Text[key], field)
ValueOf(field) == SubSeq(field, Len(Text[KeyOf(field)]) + 1, Len(field))

NumberOf(digits) == FoldLeft(LAMBDA n, c : n * 10 + Number(c), 0, digits)
AllDigits(value) == \A k \in DOMAIN value : IsDigit(value[k])

\* A string without escapes: two digits after a percent sign are one character.  An
\* escape that is cut off is left out.
Decoded(value) ==
    LET escapes == {k \in DOMAIN value : value[k] = "%"}
        kept    == {k \in DOMAIN value : /\ {k - 1, k - 2} \cap escapes = {}
                                         /\ k \in escapes => k + 2 <= Len(value)}
        char(k) == CASE value[k] = "%" -> value[k + 1] \o value[k + 2]
                     [] value[k] = "+" -> " "
                     [] OTHER          -> value[k]
    IN  [j \in 1..Cardinality(kept) |-> char(SetToSortSeq(kept, <)[j])]

\* An empty number is taken for 0 if a field follows.
ValidValue(type, value, last, size) ==
    CASE type = "string"  -> Len(Decoded(value)) <= size
      [] type = "flag"    -> value \in {<<"0">>, <<"1">>}
      [] type = "uint8"   -> IF value = <<>> THEN ~ last
                             ELSE AllDigits(value) /\ value[1] # "0" /\ NumberOf(value) <= 254
      [] type = "address" -> LET octets == Split(value, ".")
                             IN  /\ Len(octets) = 4
                                 /\ \A k \in 1..4 : AllDigits(octets[k]) /\ NumberOf(octets[k]) <= 255

Valid(body, size) ==
    LET fields == Fields(body)
    IN  \A k \in DOMAIN fields :
            \/ fields[k] = <<>> /\ k = Len(fields)
            \/ HasKey(fields[k]) /\ ValidValue(Type[KeyOf(fields[k])], ValueOf(fields[k]),
                                               k = Len(fields), size)

ValueMeaning(type, value) ==
    CASE type = "string"  -> Decoded(value)
      [] type = "flag"    -> value = <<"1">>
      [] type = "uint8"   -> NumberOf(value)
      [] type = "address" -> [octet \in 0..3 |-> NumberOf(Split(value, ".")[octet + 1])]

\* The configuration a valid body makes of another one.
Meaning(body, config) ==
    FoldLeft(LAMBDA c, field :
                IF field = <<>> THEN c
                ELSE [c EXCEPT ![KeyOf(field)] = ValueMeaning(Type[KeyOf(field)], ValueOf(field))],
             config, Fields(body))

\* The body ends in an address before its third dot.
InAddress(body) ==
    LET field == Last(Fields(body))
    IN  HasKey(field) /\ Type[KeyOf(field)] = "address" /\ Len(Split(ValueOf(field), ".")) < 4

\* How many flags in the body are followed by another field.
FlagDelimiters(body) ==
    LET fields == Front(Fields(body))
    IN  Cardinality({k \in DOMAIN fields : HasKey(fields[k]) /\ Type[KeyOf(fields[k])] = "flag"})

===============================================================================
