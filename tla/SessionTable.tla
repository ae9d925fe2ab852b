----------------------------- MODULE SessionTable -----------------------------
(***************************************************************************)
(* The sessions array of the proxy server and its lookup table             *)
(* (struct atem_server), with the operations of proxy/atem_session.c that  *)
(* rearrange them.                                                         *)
(*                                                                         *)
(* Connected sessions are the first sessions_connected entries of the      *)
(* array, sessions in an opening or closing handshake the rest of it.  The *)
(* lookup table maps a session id to the array index of its session.  A    *)
(* session in its opening handshake is registered under two ids: the       *)
(* request id its client picked, and the session id the server assigned.   *)
(*                                                                         *)
(* An operator takes a record t with the fields sessions, sessions_len,    *)
(* sessions_connected and lookup (t may have more) and returns the record  *)
(* the C function leaves behind.  A session is a record that has at least  *)
(*   session_id   the id the server assigned                               *)
(*   send_id      the id it is addressed by (session_id_high and _low):    *)
(*                the request id while opening, then the session id        *)
(***************************************************************************)
EXTENDS Integers

CONSTANTS
    RequestIds,       \* ids clients pick for opening handshakes (below 0x8000)
    SessionIdCount,   \* how many ids the server can assign (0x8000 of them)
    SessionsLimit     \* sessions_limit

\* Session ids are numbered without their top bit, which no request id has.
SessionIds == 0..SessionIdCount - 1
Ids        == RequestIds \cup SessionIds
NoSession  == -1

ASSUME IdsAssumption ==
    /\ SessionIdCount \in Nat \ {0}
    /\ SessionsLimit \in Nat \ {0}
    /\ RequestIds \cap SessionIds = {}

Indexes(t) == 0..t.sessions_len - 1

Connected(t, i) == i < t.sessions_connected
Opening(t, i)   == t.sessions[i].send_id # t.sessions[i].session_id

NoSessions ==
    [sessions           |-> [i \in {} |-> i],
     sessions_len       |-> 0,
     sessions_connected |-> 0,
     lookup             |-> [id \in Ids |-> NoSession]]

-------------------------------------------------------------------------------
(***************************************************************************)
(* Operations                                                              *)
(***************************************************************************)

\* A new session takes the slot after the last one, under both of its ids.
AddSession(t, s) ==
    [t EXCEPT !.sessions = [i \in 0..t.sessions_len |->
                               IF i = t.sessions_len THEN s ELSE t.sessions[i]],
              !.sessions_len = @ + 1,
              !.lookup = [@ EXCEPT ![s.send_id] = t.sessions_len,
                                   ![s.session_id] = t.sessions_len]]

\* Trades places with the first session after the connected ones; a request id
\* of either session is left pointing to where the session was.
SwapSession(t, i) ==
    LET c == t.sessions_connected
    IN  [t EXCEPT !.sessions = [@ EXCEPT ![i] = t.sessions[c], ![c] = t.sessions[i]],
                  !.lookup = [@ EXCEPT ![t.sessions[c].session_id] = i,
                                       ![t.sessions[i].session_id] = c]]

\* The session in slot c joins the connected sessions and is addressed by its
\* session id from now on; the request id is free again.
PromoteSession(t, c, request) ==
    [t EXCEPT !.sessions_connected = c + 1,
              !.sessions = [@ EXCEPT ![c].send_id = t.sessions[c].session_id],
              !.lookup = [@ EXCEPT ![request] = NoSession]]

\* Mutation: the session is not moved to the connected ones.
ConnectSessionInPlace(t, request) == PromoteSession(t, t.sessions_connected, request)

\* The opening handshake registered under a request id completes.
ConnectSession(t, request) ==
    LET i       == t.lookup[request]
        c       == t.sessions_connected
        swapped == SwapSession(t, i)
        moved   == [swapped EXCEPT !.lookup =
                      [@ EXCEPT ![swapped.sessions[i].send_id] = i]]
    IN  PromoteSession(IF i = c THEN t ELSE moved, c, request)

\* A connected session leaves the connected ones for its closing handshake.
DropConnected(t, i) ==
    LET u == [t EXCEPT !.sessions_connected = @ - 1]
    IN  IF i = u.sessions_connected THEN u ELSE SwapSession(u, i)

\* A session in its opening handshake goes over to its closing handshake.
DropOpening(t, i) ==
    [t EXCEPT !.sessions = [@ EXCEPT ![i].send_id = t.sessions[i].session_id],
              !.lookup = [@ EXCEPT ![t.sessions[i].send_id] = NoSession]]

DropSession(t, i) == IF Connected(t, i) THEN DropConnected(t, i) ELSE DropOpening(t, i)

\* The slot of a session that is no longer registered is filled with the last one.
ReleaseSlot(t, i) ==
    LET last  == t.sessions_len - 1
        moved == t.sessions[last]
    IN  [t EXCEPT !.sessions = [j \in 0..last - 1 |-> IF j = i THEN moved ELSE t.sessions[j]],
                  !.sessions_len = last,
                  !.lookup = IF i = last THEN @
                             ELSE [@ EXCEPT ![moved.session_id] = i, ![moved.send_id] = i]]

\* Removes a session that is not connected.
TerminateSession(t, i) ==
    ReleaseSlot([t EXCEPT !.lookup = [@ EXCEPT ![t.sessions[i].session_id] = NoSession]], i)

\* Mutation: the request id stays registered.
CloseUnconnectedRequested(t, i) == TerminateSession(t, i)

\* Closes a session in a handshake on request of its client.
CloseUnconnected(t, i) ==
    LET u == TerminateSession(t, i)
    IN  [u EXCEPT !.lookup = [@ EXCEPT ![t.sessions[i].send_id] = NoSession]]

\* Closes a connected session on request of its client: the last connected
\* session takes its slot, and the last session of all the slot that frees.
CloseConnected(t, i) ==
    LET c       == t.sessions_connected - 1
        cleared == [t.lookup EXCEPT ![t.sessions[i].session_id] = NoSession]
        u == [t EXCEPT !.sessions_connected = c, !.lookup = cleared]
        v == [u EXCEPT !.sessions = [@ EXCEPT ![i] = t.sessions[c]],
                       !.lookup = [@ EXCEPT ![t.sessions[c].session_id] = i]]
    IN  ReleaseSlot(IF i = c THEN u ELSE v, c)

\* The server starts the closing handshake of every session.
EvictSessions(t) ==
    [t EXCEPT !.sessions = [i \in Indexes(t) |->
                  [t.sessions[i] EXCEPT !.send_id = t.sessions[i].session_id]],
              !.sessions_connected = 0,
              !.lookup = [id \in Ids |->
                  IF \E i \in Indexes(t) : Opening(t, i) /\ id = t.sessions[i].send_id
                  THEN NoSession ELSE t.lookup[id]]]

-------------------------------------------------------------------------------
(***************************************************************************)
(* Consistency of the array and the lookup table, as the server's debug    *)
(* checks state it (atem_assert_sessions() and its helpers).               *)
(***************************************************************************)

\* Every session is found under both of the ids it has.
Registered(t) ==
    \A i \in Indexes(t) :
        /\ t.lookup[t.sessions[i].session_id] = i
        /\ t.lookup[t.sessions[i].send_id] = i

\* A registered session id is the one of the session it leads to.
SessionIdsLead(t) ==
    \A id \in SessionIds : t.lookup[id] # NoSession =>
        /\ t.lookup[id] \in Indexes(t)
        /\ t.sessions[t.lookup[id]].session_id = id

\* A registered request id leads to a session that is not connected and is
\* still addressed by it.
RequestIdsLead(t) ==
    \A id \in RequestIds : t.lookup[id] # NoSession =>
        /\ t.lookup[id] \in Indexes(t)
        /\ ~ Connected(t, t.lookup[id])
        /\ t.sessions[t.lookup[id]].send_id = id

\* The connected sessions come first and are addressed by their session ids; a
\* session that is addressed by another id is in its opening handshake.
Partitioned(t) ==
    /\ t.sessions_connected <= t.sessions_len
    /\ \A i \in Indexes(t) :
          /\ Connected(t, i) => ~ Opening(t, i)
          /\ Opening(t, i) => t.sessions[i].send_id \in RequestIds

===============================================================================
