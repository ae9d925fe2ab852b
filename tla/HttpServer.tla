------------------------------ MODULE HttpServer ------------------------------
(***************************************************************************)
(* The configuration server of the firmware: one client's connection       *)
(* (firmware/http.c), its response (firmware/http_respond.c) and what it   *)
(* stores (flash_cache_write() of the platforms).                          *)
(*                                                                         *)
(* The client sends a request in any segments and reads any amount of the  *)
(* response; the server's TCP calls back for data, for data sent, when     *)
(* the client closes, on errors and every five seconds.  Callbacks run one *)
(* at a time.  Power may be lost at any time.                              *)
(***************************************************************************)
EXTENDS HttpForm

CONSTANTS
    Requests,      \* the requests clients may send: a kind and a body
    Configs        \* the stored configurations in which clients connect

VARIABLES
    conn,          \* "none", "open", "parsing" (within a segment), "rebooting"
                   \* (http_reboot()) or "deferred"
    http,          \* struct http_ctx
    queued,        \* is there data the client has not acknowledged (tcp_sndqueuelen())
    request,       \* what the client sends
    delivered,     \* number of characters parsed; those after the response are ignored
    flash,         \* the stored configuration
    polled         \* has the timer fired while the union was in use for a string

vars == <<conn, http, queued, request, delivered, flash, polled>>

Kinds == {"get", "post", "method", "missing", "letters", "large"}
Cache == [name : Seq(STRING), dest : 0..255, dhcp : BOOLEAN,
          atem : [0..3 -> 0..255], netmask : [0..3 -> 0..255]]

\* What is read from an erased sector, next to the name that is stored elsewhere.
Erased(name) ==
    [name |-> name, dest |-> 255, dhcp |-> TRUE,
     atem |-> [octet \in 0..3 |-> 255], netmask |-> [octet \in 0..3 |-> 255]]

NoRequest == [kind |-> "get", body |-> <<>>]

-------------------------------------------------------------------------------
(***************************************************************************)
(* Requests                                                                *)
(***************************************************************************)

\* A header that begins like the content length, and one that follows it.
Before == <<"c", "x">> \o CRLF
After  == <<"x">> \o CRLF \o CRLF

Length(n) == IF n < 10 THEN <<Digits[n + 1]>> ELSE <<Digits[(n \div 10) + 1], Digits[(n % 10) + 1]>>

Opening(r) ==
    LET post == <<"P", "/", "x">> \o CRLF
    IN  CASE r.kind = "get"     -> <<"G", "/", "x">> \o CRLF \o CRLF
          [] r.kind = "method"  -> <<"P", "U">>
          [] r.kind = "missing" -> post \o Before \o CRLF
          [] r.kind = "letters" -> post \o <<"c", "l", ":", "1", "x">> \o CRLF \o CRLF
          [] r.kind = "large"   -> post \o <<"c", "l", ":", "1", "0", "0">> \o CRLF \o CRLF
          [] r.kind = "post"    ->
                post \o Before \o <<"c", "l", ":", " ">> \o Length(Len(r.body)) \o CRLF \o After

Characters(r) == Opening(r) \o r.body

-------------------------------------------------------------------------------
(***************************************************************************)
(* The connection                                                          *)
(***************************************************************************)
NoContext == NewContext(Erased(<<>>))

Init ==
    /\ conn = "none" /\ http = NoContext /\ queued = FALSE
    /\ request = NoRequest /\ delivered = 0 /\ polled = FALSE
    /\ flash \in Configs

\* http_accept_callback().
Connect ==
    /\ conn = "none" /\ flash \in Configs
    /\ request' \in Requests
    /\ conn' = "open" /\ http' = NoContext /\ delivered' = 0 /\ queued' = FALSE /\ polled' = FALSE
    /\ UNCHANGED flash

\* The context is freed.
Free ==
    /\ conn' = "none" /\ http' = NoContext /\ queued' = FALSE
    /\ request' = NoRequest /\ delivered' = 0 /\ polled' = FALSE

\* The union read as the state of the response: a null pointer and a first digit
\* zero are none, HEX_IDLE is that of the configuration page.
ResponseState(h) ==
    CASE h.union.as = "response" -> h.union.is
      [] h.union \in {Cmp("null"), Hex("0")} -> "none"
      [] h.union = Hex("idle") -> "root"
      [] OTHER -> "unknown"

\* Mutation: the response is never completely written.
RestsAgain(state) == {state}

\* What writing leaves to be written, depending on the room there is.
Rests(state) ==
    CASE state = "root" -> {"root", "page", "none"}
      [] state = "page" -> {"page", "none"}
      [] state = "err"  -> {"err", "none"}

\* Pieces of the page that were written reset the index of its strings; the offset
\* is that of a piece.
Written(h, rest) ==
    CASE rest = "none" /\ ResponseState(h) \in {"root", "page"} ->
            {[h EXCEPT !.union = Response(rest), !.offset = 0, !.remaining = 0]}
      [] rest = "none" -> {[h EXCEPT !.union = Response(rest), !.offset = 0]}
      [] rest = "page" -> {[h EXCEPT !.union = Response(rest), !.offset = StringSize,
                                     !.remaining = remaining] : remaining \in {0, h.remaining}}
      [] OTHER         -> {[h EXCEPT !.union = Response(rest), !.offset = StringSize]}

\* http_respond(), unless it returns at once, with data of earlier writes on its way
\* or not.
Respond(h, earlier) ==
    LET state == ResponseState(h)
    IN  \/ /\ state \in {"root", "page", "err"}
           /\ \E rest \in Rests(state) :
                /\ http' \in Written(h, rest)
                /\ queued' \in {earlier, TRUE} /\ (rest # state => queued')
           /\ conn' = "open"
        \/ /\ state = "post"
           /\ http' = h
           /\ \/ conn' = "rebooting" /\ queued' = TRUE
              \/ conn' = "open" /\ queued' \in {earlier, TRUE}
        \/ /\ state = "unknown"
           /\ http' = h
           /\ conn' = "open" /\ queued' = earlier

InString == http.state = "value" /\ Type[http.key] = "string"

\* Goes on with the response, or closes when everything was acknowledged.
Continue(earlier) ==
    \/ /\ ResponseState(http) # "none"
       /\ Respond(http, earlier)
       /\ polled' = (polled \/ InString)
       /\ UNCHANGED <<request, delivered>>
    \/ /\ ResponseState(http) = "none" /\ earlier
       /\ queued' = earlier
       /\ UNCHANGED <<conn, http, request, delivered, polled>>
    \/ /\ ResponseState(http) = "none" /\ ~ earlier
       /\ Free

\* http_recv_callback() with data, a character of it at a time, the last one of its
\* segment or not.  What is sent ends with a segment.
Receive(last) ==
    /\ conn \in {"open", "parsing"} /\ http.state # "done"
    /\ delivered < Len(Characters(request))
    /\ delivered' = delivered + 1 /\ (delivered' = Len(Characters(request)) => last)
    /\ \E stored \in {{}, {flash}} :
          LET h == Parse(http, Characters(request)[delivered'], last, stored)
          IN  \/ h.state = "done" /\ Respond(h, queued)
              \/ /\ h.state # "done"
                 /\ http' = h
                 /\ conn' = IF last THEN "open" ELSE "parsing"
                 /\ UNCHANGED queued
    /\ UNCHANGED <<request, flash, polled>>

\* http_sent_callback(): the client acknowledged some of the data, or all of it.
Sent ==
    /\ conn = "open" /\ queued
    /\ \E earlier \in BOOLEAN : Continue(earlier)
    /\ UNCHANGED flash

\* http_drop_callback().  Within an escape the union reads as an error response
\* whose text was never set: what happens then is not modelled.
Poll ==
    /\ conn = "open" /\ http.union # Hex("ready")
    /\ Continue(queued)
    /\ UNCHANGED flash

\* http_recv_callback() without data, and http_err_callback().
Disconnect ==
    /\ conn = "open"
    /\ Free
    /\ UNCHANGED flash

\* The callbacks that http_reboot() set: the client closes or sends, an error, or
\* the timer.
Reboot ==
    /\ conn = "rebooting"
    /\ conn' = "deferred"
    /\ UNCHANGED <<http, queued, request, delivered, flash, polled>>

\* What flash_cache_write() has stored before each of its steps, and at its end: the
\* name with the WLAN settings, then the rest, which is erased first if it changed.
Stages(cache) ==
    LET named  == [flash EXCEPT !.name = cache.name]
        erased == IF named = cache THEN {} ELSE {Erased(cache.name)}
    IN  {flash, named} \cup erased \cup {cache}

\* http_reboot_callback_defer().  The device restarts at the end, goes on if a step
\* fails, or loses power between two.
Store ==
    /\ conn = "deferred"
    /\ flash' \in Stages(http.cache)
    /\ Free

PowerLoss ==
    /\ conn # "none"
    /\ Free
    /\ UNCHANGED flash

\* Bound: the next client is not looked at in every configuration.
Bounded ==
    /\ conn = "none" /\ flash \notin Configs
    /\ UNCHANGED vars

Next ==
    \/ Connect
    \/ \E last \in BOOLEAN : Receive(last)
    \/ Sent
    \/ Poll
    \/ Disconnect
    \/ Reboot
    \/ Store
    \/ PowerLoss
    \/ Bounded

Spec == Init /\ [][Next]_vars

\* Nothing is left to be written.
Complete == conn' # "open" \/ ResponseState(http)' \in {"none", "unknown"}

\* Segments end, the timer fires and what is deferred runs.  A client's TCP takes all of a response
\* in the end, and acknowledges it.
Fairness ==
    /\ WF_vars(conn = "parsing" /\ \E last \in BOOLEAN : Receive(last))
    /\ WF_vars(Poll /\ Complete) /\ WF_vars(Sent /\ Complete)
    /\ WF_vars(Reboot) /\ WF_vars(Store)

FairSpec == Spec /\ Fairness

-------------------------------------------------------------------------------
(***************************************************************************)
(* Properties                                                              *)
(***************************************************************************)

Errors == {400, 405, 411, 413, 500}

\* Everything stays in its type; numbers of the form in eight bits.
TypeOK ==
    /\ conn \in {"none", "open", "parsing", "rebooting", "deferred"}
    /\ http.state \in States /\ http.key \in ToSet(Keys) /\ http.offset \in 0..16
    /\ http.remaining \in -(Cardinality(DOMAIN request.body) + 4)..MaxLength
    /\ http.cache \in Cache /\ http.code \in {0, 200} \cup Errors
    /\ queued \in BOOLEAN /\ polled \in BOOLEAN
    /\ delivered \in 0..Len(Characters(request))
    /\ flash \in Cache

\* What was delivered of the body, and the delimiters of flags in it: each is
\* counted twice, so that many characters too early the body may be taken for
\* complete.
Delivered == SubSeq(request.body, 1, delivered - Len(Opening(request)))
Undelivered == Len(Characters(request)) - delivered
Miscounted == Undelivered <= FlagDelimiters(Delivered)

\* A configuration is accepted, and written, only from a request that is valid as
\* far as it was taken, and it is what the request says, on top of what is stored,
\* however the request was cut into segments (http_post_completed(),
\* http_reboot()).
StoresWhatWasSent ==
    conn \in {"rebooting", "deferred"} /\ ~ polled =>
        /\ request.kind = "post" /\ Miscounted
        /\ Valid(Delivered, StringSize)
        /\ http.cache = Meaning(Delivered, flash)

\* A request is answered with an error only for its fault, wherever it was cut, but
\* an address before its third dot (http_post_value_ip()) and a body that was
\* miscounted; and if the flash cannot be read.
RejectsOnlyInvalid ==
    [][\A last \in BOOLEAN : Receive(last) /\ http'.state = "done" /\ ~ polled =>
          CASE request.kind = "get"    -> http'.code \in {200, 500}
            [] request.kind = "method"  -> http'.code = 405
            [] request.kind = "missing" -> http'.code = 411
            [] request.kind = "letters" -> http'.code = 400
            [] request.kind = "large"   -> http'.code = 413
            [] request.kind = "post"    ->
                  \/ http'.code \in {200, 500}
                  \/ http'.code = 400 /\ \/ ~ Valid(request.body, StringSize)
                                         \/ last /\ InAddress(Delivered')
                                         \/ last /\ Undelivered' > 0 /\ Miscounted'
      ]_vars

\* A request that was delivered is not waited for: the parser is done, in whatever
\* state it was when the last segment came (http_parse()).
AnswersDelivered ==
    conn = "open" /\ delivered = Len(Characters(request)) /\ ~ polled => http.state = "done"

\* A connection ends by itself when the client does nothing any more
\* (http_drop_callback()), unless the union holds a word or the first digit of an
\* escape, which do not read as a response that is complete.
Undropped == conn = "open" /\ (http.union = Cmp("word") \/ http.union.as = "hex")

Ends == []<>(conn = "none") \/ <>[]Undropped

===============================================================================
