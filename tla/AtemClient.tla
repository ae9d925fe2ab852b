------------------------------ MODULE AtemClient ------------------------------
(***************************************************************************)
(* The client's end of the ATEM protocol (core/atem.c), which has no state *)
(* but struct atem: operators that map the client and a datagram from the  *)
(* switcher to the client after atem_parse(), its status and its reply.    *)
(*                                                                         *)
(* write_buf points to one of four buffers, and the client decides by it   *)
(* what it is doing: "open" requests a session, "close" closes one, "ack"  *)
(* and "retxreq" are the replies to data; "none" is NULL.                  *)
(***************************************************************************)
EXTENDS Integers

CONSTANT RemoteIdCount     \* how many ids packets are numbered with (0x8000 of them)

ASSUME ClientAssumption == RemoteIdCount \in Nat \ {0}

LenHeader == 12            \* ATEM_LEN_HEADER
LenSyn    == 20            \* ATEM_LEN_SYN

BufferLen(buf) == IF buf \in {"open", "close"} THEN LenSyn ELSE LenHeader

RemoteIds == 0..RemoteIdCount - 1
Clients   == [write_buf      : {"open", "close", "ack", "retxreq", "none"},
              write_len      : {LenSyn, LenHeader},
              remote_id_last : RemoteIds]

\* atem_connection_open(): the ids of the session before stay.
ConnectionOpen(c) == [c EXCEPT !.write_buf = "open", !.write_len = LenSyn]

NewClient == ConnectionOpen([write_buf |-> "none", write_len |-> LenSyn, remote_id_last |-> 0])

\* A reply carries the session id of the datagram it replies to.
Reply(kind, m, id) == [kind |-> kind, session |-> m.session, id |-> id]

Parsed(c, status, reply) == [client |-> c, status |-> status, reply |-> reply]
Unanswered(c, status, m) == Parsed(c, status, Reply("none", m, 0))

-------------------------------------------------------------------------------
\* A client that closes answers everything but the end of its closing handshake.
ParseClosing(c, m) ==
    IF m.kind = "closed" THEN Unanswered(c, "closed", m)
    ELSE Parsed(c, "write_only", Reply(IF m.kind = "closing" THEN "closed" ELSE "closing", m, 0))

\* Mutation: the id is not masked.
ExpectedUnmasked(c) == c.remote_id_last + 1

Expected(c) == (c.remote_id_last + 1) % RemoteIdCount

\* Mutation: a packet may be missing in between.
NextOrAhead(c, id) == (id - Expected(c)) % RemoteIdCount <= 1

IsNext(c, id) == id = Expected(c)

IsAhead(c, id) == (id - Expected(c)) % RemoteIdCount < (RemoteIdCount - 1) \div 2

\* Only the packet that is next in line has its commands processed.  One that is
\* ahead has the missing one requested, one behind has the latest acknowledged.
\* write_len is left alone.
ParseData(c, m) ==
    IF IsNext(c, m.id)
    THEN Parsed([c EXCEPT !.write_buf = "ack", !.remote_id_last = m.id],
                "write", Reply("ack", m, m.id))
    ELSE IF IsAhead(c, m.id)
    THEN Parsed([c EXCEPT !.write_buf = "retxreq"], "write_only", Reply("retxreq", m, Expected(c)))
    ELSE Parsed([c EXCEPT !.write_buf = "ack"], "write_only", Reply("ack", m, c.remote_id_last))

\* Mutation: the session goes on from the ids of the one before.
ParseAcceptContinuing(c, m) ==
    IF c.write_buf = "ack" THEN Parsed(c, "write_only", Reply("ack", m, 0))
    ELSE Parsed([c EXCEPT !.write_buf = "ack", !.write_len = LenHeader],
                "accepted", Reply("ack", m, 0))

\* Mutation: the length of the request stays.
ParseAcceptOverlong(c, m) ==
    IF c.write_buf = "ack" THEN Parsed(c, "write_only", Reply("ack", m, 0))
    ELSE Parsed([c EXCEPT !.write_buf = "ack", !.remote_id_last = 0],
                "accepted", Reply("ack", m, 0))

\* The switcher accepts the request to open a session.
ParseAccept(c, m) ==
    IF c.write_buf = "ack" THEN Parsed(c, "write_only", Reply("ack", m, 0))
    ELSE Parsed([write_buf |-> "ack", write_len |-> LenHeader, remote_id_last |-> 0],
                "accepted", Reply("ack", m, 0))

\* atem_parse().  Neither the session nor what the client is doing is looked at,
\* except for a client that closes.
Parse(c, m) ==
    CASE c.write_buf = "close" -> ParseClosing(c, m)
      [] c.write_buf # "close" /\ m.kind = "data"    -> ParseData(c, m)
      [] c.write_buf # "close" /\ m.kind = "accept"  -> ParseAccept(c, m)
      [] c.write_buf # "close" /\ m.kind = "closing" ->
            Parsed([c EXCEPT !.write_buf = "close", !.write_len = LenSyn],
                   "closing", Reply("closed", m, 0))
      [] c.write_buf # "close" /\ m.kind = "reject"  ->
            Unanswered([c EXCEPT !.write_buf = "none"], "rejected", m)
      [] c.write_buf # "close" /\ m.kind = "ack"     -> Unanswered(c, "none", m)
      [] OTHER -> Unanswered(c, "error", m)

===============================================================================
