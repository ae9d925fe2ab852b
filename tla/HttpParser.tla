------------------------------ MODULE HttpParser ------------------------------
(***************************************************************************)
(* The streaming parser of the firmware's HTTP server (firmware/http.c).   *)
(*                                                                         *)
(* A request arrives in segments that end anywhere.  The parser consumes   *)
(* segments character by character and keeps in struct http_ctx what it    *)
(* needs to go on with the next one: Char is what a character does, Cut    *)
(* what the end of a segment does.  Operators map the context before to    *)
(* the context after.                                                      *)
(*                                                                         *)
(* Words are abbreviated to the letters that tell them apart; of the       *)
(* form's keys there are a string, a number, a flag and two addresses,     *)
(* whose names share first letters like those in the source.  A character  *)
(* is a string; line ends are "CR" and "LF".                               *)
(*                                                                         *)
(* cmp, hex and response_state are a union: h.union holds the one written  *)
(* last and what it is.  remaining_body_len is a union with                *)
(* string_escape_index, which writing the configuration page resets.       *)
(***************************************************************************)
EXTENDS Integers, Sequences, FiniteSetsExt, SequencesExt

CONSTANTS
    StringSize,    \* sizeof(cache.wlan.name)
    MaxLength      \* largest content length (INT32_MAX)

ASSUME ParserAssumption == StringSize \in Nat /\ MaxLength \in Nat

CRLF == <<"CR", "LF">>

\* The word each comparing state compares the stream to.
Text == [get     |-> <<"G", "/">>,
         post    |-> <<"P", "/">>,
         missing |-> CRLF,                   \* ..._CONTENT_LENGTH_MISSING
         length  |-> <<"c", "l", ":">>,      \* ..._CONTENT_LENGTH_KEY
         crlf    |-> CRLF,                   \* ..._CONTENT_LENGTH_CRLF
         name    |-> <<"n", "a", "=">>,
         dest    |-> <<"d", "e", "=">>,
         atem    |-> <<"a", "=">>,
         dhcp    |-> <<"d", "h", "=">>,
         netmask |-> <<"n", "e", "=">>]

\* States that fall through to each other when a comparison fails.
Keys   == <<"name", "dest", "atem", "dhcp", "netmask">>
Chains == {<<"get", "post">>, <<"missing", "length">>, <<"crlf">>, Keys}

Comparing == DOMAIN Text
States    == Comparing \cup {"next", "digits", "flush", "value", "done"}

Type == [name |-> "string", dest |-> "uint8", atem |-> "address", dhcp |-> "flag",
         netmask |-> "address"]

\* A state and those its comparison falls through to.
From(state) ==
    LET chain == CHOOSE chain \in Chains : state \in ToSet(chain)
        k == CHOOSE k \in DOMAIN chain : chain[k] = state
    IN  SubSeq(chain, k, Len(chain))

Digits    == <<"0", "1", "2", "3", "4", "5", "6", "7", "8", "9">>
IsDigit(c) == c \in ToSet(Digits)
Number(c) == (CHOOSE k \in DOMAIN Digits : Digits[k] = c) - 1

NoAddress == [octet \in 0..3 |-> 0]

Cmp(p)      == [as |-> "cmp", is |-> p]         \* "null" or "word"
Hex(digit)  == [as |-> "hex", is |-> digit]     \* "idle", "ready" or the first digit
Response(s) == [as |-> "response", is |-> s]

\* http_accept_callback().
NewContext(cache) ==
    [state |-> "get", key |-> "name", offset |-> 0, union |-> Cmp("null"),
     remaining |-> 0, cache |-> cache, code |-> 0]

-------------------------------------------------------------------------------
(***************************************************************************)
(* Responses                                                               *)
(***************************************************************************)

\* http_err() and http_post_err().
Fail(h, code) ==
    [h EXCEPT !.state = "done", !.union = Response("err"), !.offset = 0, !.code = code]

Finish(h) ==
    [h EXCEPT !.state = "done", !.union = Response("post"), !.offset = 0, !.code = 200]

\* http_post_completed(), and what to do if the body is not complete.
Completed(h, otherwise) == IF h.remaining <= 0 THEN Finish(h) ELSE otherwise

-------------------------------------------------------------------------------
(***************************************************************************)
(* Values of the form                                                      *)
(***************************************************************************)

\* The next key follows.
Keyed(h) == [h EXCEPT !.state = Head(Keys), !.offset = 0]

Consumed(h) == [h EXCEPT !.remaining = @ - 1]

Delimited(h) == Keyed(Consumed(h))

StringChar(h, c) ==
    IF h.offset >= StringSize THEN Fail(h, 400)
    ELSE [h EXCEPT !.cache.name = Append(SubSeq(@, 1, h.offset), c), !.offset = @ + 1]

Terminated(h) ==
    IF h.offset < StringSize THEN [h EXCEPT !.cache.name = SubSeq(@, 1, h.offset)] ELSE h

\* The union read as hex: what was written while the value was parsed left the
\* state of a response in it.
HexRead(h) ==
    CASE h.union.as = "hex" -> h.union.is
      [] h.union = Response("root") -> "idle"
      [] h.union = Response("none") -> "0"
      [] OTHER -> "?"

StringValue(h, c) ==
    LET hex == HexRead(h)
    IN  CASE hex = "ready"       -> [h EXCEPT !.union = Hex(c)]
          [] hex \notin {"idle", "ready"} -> StringChar([h EXCEPT !.union = Hex("idle")], hex \o c)
          [] hex = "idle" /\ c = "&" -> Keyed([Terminated(h) EXCEPT !.union = Cmp("null")])
          [] hex = "idle" /\ c = "+" -> StringChar(h, " ")
          [] hex = "idle" /\ c = "%" -> [h EXCEPT !.union = Hex("ready")]
          [] OTHER -> StringChar(h, c)

\* Mutation: octets may overflow.
FitsAlways(octet, c) == TRUE

\* http_post_octet(): a digit is appended unless it overflows eight bits.
Fits(octet, c) == octet <= 255 \div 10 /\ octet * 10 <= 255 - Number(c)

DestMin == 1
DestMax == 254

UintValue(h, c) ==
    LET dest == h.cache.dest * 10 + Number(c)
    IN  CASE c = "&" -> Delimited(h)
          [] IsDigit(c) /\ Fits(h.cache.dest, c) /\ dest \in DestMin..DestMax ->
                Consumed([h EXCEPT !.cache.dest = dest])
          [] OTHER -> Fail(h, 400)

AddressValue(h, c) ==
    LET octet == h.cache[h.key][h.offset]
    IN  CASE IsDigit(c) /\ Fits(octet, c) ->
                Consumed([h EXCEPT !.cache[h.key][h.offset] = octet * 10 + Number(c)])
          [] c = "." /\ h.offset < 3 -> Consumed([h EXCEPT !.offset = @ + 1])
          [] c = "&" /\ h.offset = 3 -> Delimited(h)
          [] OTHER -> Fail(h, 400)

\* The offset is 1 after the value.  Its delimiter is counted twice.
FlagValue(h, c) ==
    CASE h.offset = 0 /\ c \in {"0", "1"} ->
            Consumed([h EXCEPT !.cache.dhcp = (c = "1"), !.offset = 1])
      [] h.offset = 1 /\ c = "&" -> Consumed(Delimited(h))
      [] OTHER -> Fail(h, 400)

Value(h, c) ==
    CASE Type[h.key] = "string"  -> StringValue(Consumed(h), c)
      [] Type[h.key] = "uint8"   -> UintValue(h, c)
      [] Type[h.key] = "address" -> AddressValue(h, c)
      [] Type[h.key] = "flag"    -> FlagValue(h, c)

\* The segment ends in a value.
ValueCut(h) ==
    CASE Type[h.key] = "string"  -> Completed(Terminated(h), Terminated(h))
      [] Type[h.key] = "uint8"   -> Completed(h, h)
      [] Type[h.key] = "address" -> IF h.offset < 3 THEN Fail(h, 400) ELSE Completed(h, h)
      [] Type[h.key] = "flag"    -> IF h.offset = 0
                                    THEN (IF h.remaining <= 0 THEN Fail(h, 400) ELSE h)
                                    ELSE Completed(h, h)

-------------------------------------------------------------------------------
(***************************************************************************)
(* Words                                                                   *)
(***************************************************************************)

\* Mutation: the octets of addresses are appended to what is stored.
KeyKeeping(h, key) ==
    [h EXCEPT !.state = "value", !.key = key, !.remaining = @ - Len(Text[key]),
              !.union = IF Type[key] = "string" THEN Hex("idle") ELSE @,
              !.cache.dest = IF Type[key] = "uint8" THEN 0 ELSE @]

\* A key of the form was found.
Key(h, key) ==
    LET counted == [h EXCEPT !.state = "value", !.key = key, !.remaining = @ - Len(Text[key])]
    IN  CASE Type[key] = "string"  -> [counted EXCEPT !.union = Hex("idle")]
          [] Type[key] = "uint8"   -> IF counted.remaining <= 0 THEN Fail(counted, 400)
                                      ELSE [counted EXCEPT !.cache.dest = 0]
          [] Type[key] = "address" -> [counted EXCEPT !.cache[key] = NoAddress]
          [] Type[key] = "flag"    -> counted

\* flash_cache_read(): nothing is stored if the flash cannot be read.
ReadCache(h, stored) ==
    IF stored = {} THEN Fail(h, 500) ELSE [h EXCEPT !.cache = CHOOSE cache \in stored : TRUE]

\* The configuration page is written.
Page(h) ==
    [h EXCEPT !.state = "done", !.union = Response("root"), !.remaining = 0, !.code = 200]

\* The word of a state was found.
Found(h, state, stored) ==
    CASE state = "get"     -> IF stored = {} THEN ReadCache(h, stored)
                              ELSE Page(ReadCache(h, stored))
      [] state = "post"    -> [h EXCEPT !.state = "next"]
      [] state = "missing" -> Fail(h, 411)
      [] state = "length"  -> [h EXCEPT !.state = "digits", !.remaining = 0]
      [] state = "crlf"    -> [h EXCEPT !.state = "flush", !.offset = 2]
      [] OTHER -> Key(h, state)

\* http_find(): the offset may be left over from a comparison that failed.
\* Beyond the end of the word nothing matches.
FindOffset(h, text, c) ==
    IF h.offset < Len(text) /\ text[h.offset + 1] = c THEN h.offset + 1 ELSE 0

\* The comparison with the next header's beginning starts at once: no word failed there yet.
NextHeader(h, c) ==
    LET offset == FindOffset(h, CRLF, c)
    IN  IF offset = Len(CRLF)
        THEN [h EXCEPT !.state = "missing", !.offset = 0, !.union = Cmp("null")]
        ELSE [h EXCEPT !.state = "next", !.offset = offset]

\* The configuration is read before the body.
Flush(h, c, stored) ==
    LET offset == FindOffset(h, CRLF \o CRLF, c)
    IN  IF offset = Len(CRLF \o CRLF) THEN ReadCache(Keyed(h), stored)
        ELSE [h EXCEPT !.offset = offset]

\* No word matches.  The character has not been consumed.
Mismatch(h, c) ==
    CASE h.state \in {"get", "post"}       -> Fail(h, 405)
      [] h.state \in {"missing", "length"} -> NextHeader([h EXCEPT !.union = Cmp("word")], c)
      [] h.state = "crlf"                  -> Fail(h, 400)
      [] OTHER -> Completed(h, Fail(h, 400))

\* Mutation: what was consumed of a word is not compared to the next words.
MatchesNext(h, state, c) == h.offset < Len(Text[state]) /\ Text[state][h.offset + 1] = c

\* What was consumed of a word is the beginning of the other word, and the next
\* character, too (http_cmp_back()).
Matches(h, state, c) ==
    /\ h.offset < Len(Text[state])
    /\ SubSeq(Text[state], 1, h.offset) = SubSeq(Text[h.state], 1, h.offset)
    /\ Text[state][h.offset + 1] = c

Compare(h, c, stored) ==
    LET states == From(h.state)
        found  == {k \in DOMAIN states : Matches(h, states[k], c)}
        state  == states[Min(found)]
    IN  IF found = {} THEN Mismatch(h, c)
        ELSE IF h.offset + 1 < Len(Text[state])
        THEN [h EXCEPT !.state = state, !.offset = @ + 1, !.union = Cmp("null")]
        ELSE Found([h EXCEPT !.offset = 0, !.union = Cmp("null")], state, stored)

\* The segment ends in a key of the form, or there is no other key.
\* Mutation: waits for it.
KeyWaiting(h) == h

KeyCut(h) == IF h.remaining > h.offset THEN h ELSE Completed(h, Fail(h, 400))

LengthDigit(h, c) ==
    IF h.remaining * 10 + Number(c) > MaxLength THEN Fail(h, 413)
    ELSE [h EXCEPT !.remaining = @ * 10 + Number(c)]

ContentLength(h, c, stored) ==
    CASE IsDigit(c) -> LengthDigit(h, c)
      [] c = " "    -> h
      [] OTHER      -> Compare([h EXCEPT !.state = "crlf"], c, stored)

-------------------------------------------------------------------------------
(***************************************************************************)
(* http_parse()                                                            *)
(***************************************************************************)
Char(h, c, stored) ==
    CASE h.state \in Comparing -> Compare(h, c, stored)
      [] h.state = "next"      -> NextHeader(h, c)
      [] h.state = "digits"    -> ContentLength(h, c, stored)
      [] h.state = "flush"     -> Flush(h, c, stored)
      [] h.state = "value"     -> Value(h, c)
      [] h.state = "done"      -> h

Cut(h) ==
    CASE h.state \in ToSet(Keys) -> KeyCut(h)
      [] h.state = "value"       -> ValueCut(h)
      [] OTHER                   -> h

\* A character is parsed, the last of its segment or not.
Parse(h, c, last, stored) == IF last THEN Cut(Char(h, c, stored)) ELSE Char(h, c, stored)

===============================================================================
