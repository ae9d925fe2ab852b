----------------------------- MODULE SessionSlots -----------------------------
(***************************************************************************)
(* The sessions array and the lookup table of the proxy server under every *)
(* sequence of the operations that rearrange them, called as the packet    *)
(* handlers and the retransmit timer call them, one C function per action. *)
(* Which packet or timer calls them, and when, is left open here; module   *)
(* AtemServer models the callers.                                          *)
(***************************************************************************)
EXTENDS SessionTable

VARIABLES
    table,             \* sessions, sessions_len, sessions_connected, lookup
    session_id_last    \* latest session id assigned

vars == <<table, session_id_last>>

NextSessionId == (session_id_last + 1) % SessionIdCount

Init ==
    /\ table = NoSessions
    /\ session_id_last = 0

\* Mutation: the limit on the sessions is not checked.
CreateUnlimited(request) ==
    /\ table.lookup[request] = NoSession
    /\ table.lookup[NextSessionId] = NoSession
    /\ session_id_last' = NextSessionId
    /\ table' = AddSession(table, [session_id |-> NextSessionId, send_id |-> request])

(***************************************************************************)
(* atem_session_create() for a request id that is not registered.  A       *)
(* session id is assumed not to come around again while its session lives; *)
(* AtemServer shows what happens when it does.                             *)
(***************************************************************************)
Create(request) ==
    /\ table.lookup[request] = NoSession
    /\ table.sessions_len # SessionsLimit
    /\ table.lookup[NextSessionId] = NoSession
    /\ session_id_last' = NextSessionId
    /\ table' = AddSession(table, [session_id |-> NextSessionId, send_id |-> request])

\* atem_session_connect() for a registered request id.
Connect(request) ==
    /\ table.lookup[request] # NoSession
    /\ table' = ConnectSession(table, request)
    /\ UNCHANGED session_id_last

\* atem_session_drop(): its packet ran out of retransmits.
Drop(i) ==
    /\ Connected(table, i) \/ Opening(table, i)
    /\ table' = DropSession(table, i)
    /\ UNCHANGED session_id_last

\* atem_session_terminate(): the closing handshake completed or ran out.
Terminate(i) ==
    /\ ~ Connected(table, i) /\ ~ Opening(table, i)
    /\ table' = TerminateSession(table, i)
    /\ UNCHANGED session_id_last

\* atem_session_closing(): the client closes its session.
Closing(i) ==
    /\ table' = IF Connected(table, i) THEN CloseConnected(table, i)
                ELSE CloseUnconnected(table, i)
    /\ UNCHANGED session_id_last

\* atem_server_flush(): the server closes every session.
Flush ==
    /\ table.sessions_len # 0
    /\ table' = EvictSessions(table)
    /\ UNCHANGED session_id_last

Next ==
    \/ \E request \in RequestIds : Create(request) \/ Connect(request)
    \/ \E i \in Indexes(table) : Drop(i) \/ Terminate(i) \/ Closing(i)
    \/ Flush

Spec == Init /\ [][Next]_vars

-------------------------------------------------------------------------------
(***************************************************************************)
(* Properties (the server's own debug checks, proxy/atem_assert.c)         *)
(***************************************************************************)

Session == [session_id : SessionIds, send_id : Ids]

TypeOK ==
    /\ DOMAIN table = {"sessions", "sessions_len", "sessions_connected", "lookup"}
    /\ table.sessions_len \in 0..SessionsLimit
    /\ table.sessions_connected \in 0..SessionsLimit
    /\ table.sessions \in [Indexes(table) -> Session]
    /\ table.lookup \in [Ids -> -1..SessionsLimit - 1]
    /\ session_id_last \in SessionIds

\* Every session is found under its session id and under the id it is addressed
\* by, wherever the array moved it.
SessionsRegistered == Registered(table)

\* A registered session id is that of the session it leads to: no id of a
\* session that is gone leads to the session that took its slot.
SessionIdsCurrent == SessionIdsLead(table)

\* A registered request id is that of a session still in its opening handshake,
\* so a late completion of a handshake cannot connect another session.
RequestIdsCurrent == RequestIdsLead(table)

\* Broadcasts go to a prefix of the array: it holds exactly sessions that are
\* addressed by their session ids, all others are in a handshake.
ConnectedPrefix == Partitioned(table)

\* However sessions were moved, connected and removed, the array and the lookup
\* table belong together (atem_assert_sessions()).
TableConsistent ==
    /\ SessionsRegistered
    /\ SessionIdsCurrent
    /\ RequestIdsCurrent
    /\ ConnectedPrefix

\* A session id belongs to one session for as long as that session is there: a
\* step may move sessions and remove them, but whoever is found under an id
\* before and after it is the same session in the same handshake or a later one.
HandshakesAdvance ==
    [][\A id \in SessionIds :
          LET i == table.lookup[id]
              j == table'.lookup[id]
          IN  i # NoSession /\ j # NoSession =>
                 /\ Opening(table, i) \/ ~ Opening(table', j)
                 /\ Connected(table', j) => Connected(table, i) \/ Opening(table, i)
      ]_vars

\* Together they are inductive.
TableInv ==
    /\ TypeOK
    /\ SessionsRegistered
    /\ SessionIdsCurrent
    /\ RequestIdsCurrent
    /\ ConnectedPrefix

===============================================================================
