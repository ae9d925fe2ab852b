-------------------------- MODULE SessionSlotsProofs --------------------------
(***************************************************************************)
(* For every limit on the sessions, every number of session ids and every  *)
(* set of request ids, the sessions array and the lookup table of the      *)
(* proxy server stay consistent with each other, and sessions keep their   *)
(* identity: SessionTableProofs has the operations one by one.             *)
(***************************************************************************)
EXTENDS SessionSlots, SessionTableProofs

\* The sessions of this module are session records.
LEMMA SessionEntries == Entries(Session)
BY IdsFacts DEF Entries, Settled, Session, Ids

\* TableInv is Good(table) and a latest session id that is one.
LEMMA TableInvGood ==
  TableInv <=> /\ Good(table, Session) /\ session_id_last \in SessionIds
               /\ DOMAIN table = Fields
BY DEF TableInv, TypeOK, SessionsRegistered, SessionIdsCurrent, RequestIdsCurrent,
       ConnectedPrefix, Good, Shape, Fields

\* The empty table is consistent.
LEMMA InitTableInv == Init => TableInv
<1> SUFFICES ASSUME Init
             PROVE  /\ Good(table, Session) /\ session_id_last \in SessionIds
                    /\ DOMAIN table = Fields
  BY TableInvGood
<1>1. /\ DOMAIN table = Fields
      /\ table.sessions = [i \in {} |-> i] /\ table.sessions_len = 0
      /\ table.sessions_connected = 0 /\ table.lookup = [id \in Ids |-> NoSession]
  BY DEF Init, NoSessions, Fields
<1>2. Indexes(table) = {} /\ 0 \in SessionIds /\ 0 \in 0..SessionsLimit
      /\ NoSession \in -1..SessionsLimit - 1
  BY <1>1, IdsAssumption, IdsFacts DEF Indexes, SessionIds
<1>3. Shape(table, Session)
  BY <1>1, <1>2 DEF Shape
<1>4. Partitioned(table) /\ Registered(table)
  BY <1>1, <1>2 DEF Partitioned, Registered
<1>5. SessionIdsLead(table) /\ RequestIdsLead(table)
  BY <1>1, <1>2, IdsFacts DEF SessionIdsLead, RequestIdsLead
<1> QED
  BY <1>1, <1>2, <1>3, <1>4, <1>5 DEF Init, Good

\* The session a request creates.
LEMMA NewSession ==
  ASSUME session_id_last \in SessionIds, NEW request \in RequestIds, Create(request)
  PROVE  LET s == [session_id |-> NextSessionId, send_id |-> request]
         IN  /\ s \in Session /\ s.session_id = NextSessionId /\ s.send_id = request
             /\ table' = AddSession(table, s)
             /\ session_id_last' = NextSessionId
             /\ table.lookup[s.send_id] = NoSession /\ table.lookup[s.session_id] = NoSession
             /\ table.sessions_len # SessionsLimit
<1> DEFINE s == [session_id |-> NextSessionId, send_id |-> request]
<1>1. NextSessionId \in SessionIds
  BY IdsAssumption DEF NextSessionId, SessionIds
<1>2. s \in Session /\ s.session_id = NextSessionId /\ s.send_id = request
  BY <1>1, IdsFacts DEF Session
<1>3. /\ table' = AddSession(table, s)
      /\ session_id_last' = NextSessionId
      /\ table.lookup[s.send_id] = NoSession /\ table.lookup[s.session_id] = NoSession
      /\ table.sessions_len # SessionsLimit
  BY <1>2 DEF Create
<1> QED
  BY <1>2, <1>3

\* Every operation keeps the table a record of the same four fields.
LEMMA NextFields == DOMAIN table = Fields /\ [Next]_vars => DOMAIN table' = Fields
<1> SUFFICES ASSUME DOMAIN table = Fields, [Next]_vars PROVE DOMAIN table' = Fields
  OBVIOUS
<1> USE DEF ReleaseSlot
<1>1. ASSUME NEW request \in RequestIds, Create(request) PROVE DOMAIN table' = Fields
  BY <1>1 DEF Create, AddSession
<1>2. ASSUME NEW request \in RequestIds, Connect(request) PROVE DOMAIN table' = Fields
  BY <1>2 DEF Connect, ConnectSession, PromoteSession, SwapSession
<1>3. ASSUME NEW i \in Indexes(table), Drop(i) PROVE DOMAIN table' = Fields
  BY <1>3 DEF Drop, DropSession, DropConnected, DropOpening, SwapSession
<1>4. ASSUME NEW i \in Indexes(table), Terminate(i) PROVE DOMAIN table' = Fields
  BY <1>4 DEF Terminate, TerminateSession
<1>5. ASSUME NEW i \in Indexes(table), Closing(i) PROVE DOMAIN table' = Fields
  BY <1>5 DEF Closing, CloseConnected, CloseUnconnected, TerminateSession
<1>6. CASE Flush
  BY <1>6 DEF Flush, EvictSessions
<1>7. CASE UNCHANGED vars
  BY <1>7 DEF vars
<1> QED
  BY <1>1, <1>2, <1>3, <1>4, <1>5, <1>6, <1>7 DEF Next

\* Every operation keeps the table consistent.
LEMMA NextTableInv == TableInv /\ [Next]_vars => TableInv'
<1> DEFINE Goal == Good(table', Session) /\ session_id_last' \in SessionIds
<1> SUFFICES ASSUME Good(table, Session), session_id_last \in SessionIds, [Next]_vars
             PROVE  Goal
  BY TableInvGood, NextFields DEF TableInv, TypeOK, SessionsRegistered, SessionIdsCurrent,
     RequestIdsCurrent, ConnectedPrefix, Good, Shape, Fields
<1>1. Entries(Session)
  BY SessionEntries
<1>2. ASSUME NEW request \in RequestIds, Create(request) PROVE Goal
  <2> DEFINE s == [session_id |-> NextSessionId, send_id |-> request]
  <2>1. /\ s \in Session /\ s.session_id = NextSessionId /\ s.send_id = request
        /\ table' = AddSession(table, s) /\ session_id_last' = NextSessionId
        /\ table.lookup[s.send_id] = NoSession /\ table.lookup[s.session_id] = NoSession
        /\ table.sessions_len # SessionsLimit
    BY <1>2, NewSession
  <2> HIDE DEF s
  <2>2. Good(table', Session)
    BY <1>1, <2>1, AddSessionGood
  <2>3. session_id_last' \in SessionIds
    BY <2>1 DEF Session
  <2> QED
    BY <2>2, <2>3
<1>3. ASSUME NEW request \in RequestIds, Connect(request) PROVE Goal
  BY <1>1, <1>3, ConnectGood DEF Connect
<1>4. ASSUME NEW i \in Indexes(table), Drop(i) PROVE Goal
  BY <1>1, <1>4, DropConnectedGood, DropOpeningGood DEF Drop, DropSession
<1>5. ASSUME NEW i \in Indexes(table), Terminate(i) PROVE Goal
  BY <1>1, <1>5, TerminateGood DEF Terminate
<1>6. ASSUME NEW i \in Indexes(table), Closing(i) PROVE Goal
  BY <1>1, <1>6, CloseConnectedGood, CloseUnconnectedGood DEF Closing
<1>7. CASE Flush
  BY <1>1, <1>7, EvictGood DEF Flush
<1>8. CASE UNCHANGED vars
  BY <1>8 DEF vars
<1> QED
  BY <1>2, <1>3, <1>4, <1>5, <1>6, <1>7, <1>8 DEF Next

\* For any number of sessions and ids: atem_assert_sessions() never fails.
THEOREM TableInvariant == Spec => []TableInv
<1>1. Init => TableInv
  BY InitTableInv
<1>2. TableInv /\ [Next]_vars => TableInv'
  BY NextTableInv
<1> QED
  BY <1>1, <1>2, PTL DEF Spec

\* Every variable keeps its type, the number of sessions its limit.
THEOREM TypeOKThm == Spec => []TypeOK
<1>1. TableInv => TypeOK
  BY DEF TableInv
<1> QED
  BY <1>1, TableInvariant, PTL

\* After any sequence of operations a session is found under both of its ids, no id
\* of a session that is gone leads to the one that took its slot, and the connected
\* sessions are a prefix of the array.
THEOREM TableConsistentThm == Spec => []TableConsistent
<1>1. TableInv => TableConsistent
  BY DEF TableInv, TableConsistent
<1> QED
  BY <1>1, TableInvariant, PTL

-------------------------------------------------------------------------------
\* Who is behind an id after a step was behind it before, or nobody was; only a
\* session in its opening handshake becomes connected.
Advances(t, u) ==
    \A id \in SessionIds : t.lookup[id] # NoSession /\ u.lookup[id] # NoSession =>
        /\ Entry(u, id) = Entry(t, id) \/ Entry(u, id) = Settled(Entry(t, id))
        /\ id \in ConnectedIds(u) =>
              \/ id \in ConnectedIds(t)
              \/ Entry(t, id).send_id # Entry(t, id).session_id

\* Settling and removing a session, and keeping the others, is an advance.
LEMMA ViewsAdvance ==
  ASSUME NEW t, NEW u,
         \/ \E x : Removed(t, u, x)
         \/ \E x : Settles(t, u, x, ConnectedIds(t) \ {x})
         \/ \E x : /\ Settles(t, u, x, ConnectedIds(t) \cup {x})
                   /\ Entry(t, x).send_id # Entry(t, x).session_id
  PROVE  Advances(t, u)
<1>1. ASSUME NEW x, Removed(t, u, x) PROVE Advances(t, u)
  BY <1>1 DEF Removed, Advances, LiveIds
<1>2. ASSUME NEW x, Settles(t, u, x, ConnectedIds(t) \ {x}) PROVE Advances(t, u)
  BY <1>2 DEF Settles, Advances, LiveIds
<1>3. ASSUME NEW x, Settles(t, u, x, ConnectedIds(t) \cup {x}),
             Entry(t, x).send_id # Entry(t, x).session_id
      PROVE  Advances(t, u)
  BY <1>3 DEF Settles, Advances, LiveIds
<1> QED
  BY <1>1, <1>2, <1>3

\* Every step is an advance.
LEMMA NextAdvances == TableInv /\ [Next]_vars => Advances(table, table')
<1> SUFFICES ASSUME Good(table, Session), session_id_last \in SessionIds, [Next]_vars
             PROVE  Advances(table, table')
  BY TableInvGood
<1>1. Entries(Session)
  BY SessionEntries
<1>2. ASSUME NEW request \in RequestIds, Create(request) PROVE Advances(table, table')
  <2> DEFINE s == [session_id |-> NextSessionId, send_id |-> request]
  <2>1. /\ s \in Session /\ s.session_id = NextSessionId /\ s.send_id = request
        /\ table' = AddSession(table, s)
        /\ table.lookup[s.send_id] = NoSession /\ table.lookup[s.session_id] = NoSession
        /\ table.sessions_len # SessionsLimit
    BY <1>2, NewSession
  <2> HIDE DEF s
  <2>2. /\ \A id \in LiveIds(table) : Entry(table', id) = Entry(table, id)
        /\ ConnectedIds(table') = ConnectedIds(table)
    BY <1>1, <2>1, AddSessionView
  <2> QED
    BY <2>2 DEF Advances, LiveIds
<1>3. ASSUME NEW request \in RequestIds, Connect(request) PROVE Advances(table, table')
  <2> DEFINE x == table.sessions[table.lookup[request]].session_id
  <2>1. /\ Settles(table, table', x, ConnectedIds(table) \cup {x})
        /\ x \in LiveIds(table) /\ Entry(table, x).send_id = request
    BY <1>1, <1>3, ConnectView DEF Connect
  <2>2. Entry(table, x).session_id \in SessionIds
    BY <1>1, <2>1, EntryFound, IdsFacts DEF LiveIds
  <2> HIDE DEF x
  <2> QED
    BY <2>1, <2>2, IdsFacts, ViewsAdvance
<1>4. ASSUME NEW i \in Indexes(table), Drop(i) PROVE Advances(table, table')
  BY <1>1, <1>4, DropConnectedView, DropOpeningView, ViewsAdvance DEF Drop, DropSession
<1>5. ASSUME NEW i \in Indexes(table), Terminate(i) PROVE Advances(table, table')
  BY <1>1, <1>5, TerminateView, ViewsAdvance DEF Terminate
<1>6. ASSUME NEW i \in Indexes(table), Closing(i) PROVE Advances(table, table')
  BY <1>1, <1>6, CloseConnectedView, CloseUnconnectedView, ViewsAdvance DEF Closing
<1>7. CASE Flush
  BY <1>1, <1>7, EvictView DEF Flush, Advances, LiveIds
<1>8. CASE UNCHANGED vars
  BY <1>8 DEF vars, Advances
<1> QED
  BY <1>2, <1>3, <1>4, <1>5, <1>6, <1>7, <1>8 DEF Next

\* Sessions may be moved, connected, dropped and removed in any order: an id leads to
\* the session it was given to, and its handshake never goes back.
THEOREM HandshakesAdvanceThm == Spec => HandshakesAdvance
<1> DEFINE Kind(id) ==
             LET i == table.lookup[id]
                 j == table'.lookup[id]
             IN  i # NoSession /\ j # NoSession =>
                    /\ Opening(table, i) \/ ~ Opening(table', j)
                    /\ Connected(table', j) => Connected(table, i) \/ Opening(table, i)
<1>1. ASSUME TableInv, TableInv', [Next]_vars, NEW id \in SessionIds PROVE Kind(id)
  <2> SUFFICES ASSUME table.lookup[id] # NoSession, table'.lookup[id] # NoSession
               PROVE  /\ Opening(table, table.lookup[id]) \/ ~ Opening(table', table'.lookup[id])
                      /\ Connected(table', table'.lookup[id]) =>
                            \/ Connected(table, table.lookup[id])
                            \/ Opening(table, table.lookup[id])
    OBVIOUS
  <2>1. id \in LiveIds(table) /\ id \in LiveIds(table')
    BY DEF LiveIds
  <2>2. /\ Entry(table', id) = Entry(table, id) \/ Entry(table', id) = Settled(Entry(table, id))
        /\ id \in ConnectedIds(table') =>
              \/ id \in ConnectedIds(table)
              \/ Entry(table, id).send_id # Entry(table, id).session_id
    BY <1>1, NextAdvances DEF Advances
  <2>3. Entry(table, id) \in Session
    BY <1>1, <2>1, TableInvGood, SessionEntries, EntryFound
  <2>4. Settled(Entry(table, id)).send_id = Settled(Entry(table, id)).session_id
    BY <2>3, SessionEntries DEF Entries
  <2> QED
    BY <2>1, <2>2, <2>4 DEF Opening, Entry, ConnectedIds
<1>2. TableInv /\ TableInv' /\ [Next]_vars => [\A id \in SessionIds : Kind(id)]_vars
  BY <1>1
<1>3. TableInv /\ [Next]_vars => TableInv'
  BY NextTableInv
<1> QED
  BY <1>2, <1>3, TableInvariant, PTL DEF Spec, HandshakesAdvance

===============================================================================
