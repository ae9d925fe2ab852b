-------------------------- MODULE SessionTableProofs --------------------------
(***************************************************************************)
(* Every operation on the sessions array and the lookup table keeps the    *)
(* two consistent, whatever else the record t holds and whatever else      *)
(* there is to a session: S is any set of session records.                 *)
(***************************************************************************)
EXTENDS SessionTable, TLAPS

Fields == {"sessions", "sessions_len", "sessions_connected", "lookup"}

\* A session that is addressed by its session id from now on.
Settled(s) == [s EXCEPT !.send_id = s.session_id]

\* A set of session records.
Entries(S) ==
    \A s \in S :
        /\ s.session_id \in SessionIds /\ s.send_id \in Ids
        /\ Settled(s) \in S
        /\ Settled(s).send_id = s.session_id /\ Settled(s).session_id = s.session_id
        /\ s.send_id = s.session_id => Settled(s) = s

\* Where an operation finds the table: its fields and what they range over.
Shape(t, S) ==
    /\ Fields \subseteq DOMAIN t
    /\ t.sessions_len \in 0..SessionsLimit
    /\ t.sessions_connected \in 0..SessionsLimit
    /\ t.sessions \in [Indexes(t) -> S]
    /\ t.lookup \in [Ids -> -1..SessionsLimit - 1]

\* A consistent table.
Good(t, S) ==
    /\ Shape(t, S)
    /\ Registered(t)
    /\ SessionIdsLead(t)
    /\ RequestIdsLead(t)
    /\ Partitioned(t)

\* A table that is consistent but for slot i, which no id leads to any more.
Vacant(t, i, S) ==
    /\ Shape(t, S)
    /\ i \in Indexes(t) /\ t.sessions_connected <= i
    /\ \A j \in Indexes(t) \ {i} :
          /\ t.lookup[t.sessions[j].session_id] = j
          /\ t.lookup[t.sessions[j].send_id] = j
          /\ Connected(t, j) => ~ Opening(t, j)
          /\ Opening(t, j) => t.sessions[j].send_id \in RequestIds
    /\ SessionIdsLead(t)
    /\ RequestIdsLead(t)
    /\ \A id \in Ids : t.lookup[id] # i

\* Session ids and request ids are different ids.
LEMMA IdsFacts ==
  /\ Ids = RequestIds \cup SessionIds
  /\ RequestIds \cap SessionIds = {}
  /\ NoSession = -1
  /\ SessionsLimit \in Nat
BY IdsAssumption DEF Ids, NoSession

\* What Entries says, without the abbreviation.
LEMMA EntryFacts ==
  ASSUME NEW S, Entries(S)
  PROVE  /\ \A s \in S : s.session_id \in SessionIds /\ s.send_id \in Ids
         /\ \A s \in S : s.session_id \in Ids
         /\ \A s \in S : /\ [s EXCEPT !.send_id = s.session_id] \in S
                         /\ [s EXCEPT !.send_id = s.session_id].send_id = s.session_id
                         /\ [s EXCEPT !.send_id = s.session_id].session_id = s.session_id
BY IdsFacts DEF Entries, Settled

\* NoSession is a value of the lookup table.
LEMMA NoSessionRange == NoSession \in -1..SessionsLimit - 1
BY IdsAssumption DEF NoSession

\* A new session is registered under both of its ids, and under no other.
LEMMA AddSessionGood ==
  ASSUME NEW S, Entries(S), NEW t, Good(t, S), NEW s \in S,
         s.send_id \in RequestIds,
         t.lookup[s.send_id] = NoSession, t.lookup[s.session_id] = NoSession,
         t.sessions_len # SessionsLimit
  PROVE  Good(AddSession(t, s), S)
<1> DEFINE request == s.send_id
           id == s.session_id
           u == AddSession(t, s)
           n == t.sessions_len
<1>1. /\ n \in Nat /\ n < SessionsLimit /\ SessionsLimit \in Nat
      /\ t.sessions_connected \in 0..n
      /\ Indexes(t) = 0..n-1
      /\ t.sessions \in [0..n-1 -> S] /\ t.lookup \in [Ids -> -1..SessionsLimit - 1]
  BY IdsFacts, EntryFacts DEF Good, Shape, Fields, Indexes, Partitioned
<1>2. s \in S /\ s.session_id = id /\ s.send_id = request
  BY IdsFacts, EntryFacts
<1>3. /\ Fields \subseteq DOMAIN u
      /\ u.sessions_len = n + 1
      /\ u.sessions_connected = t.sessions_connected
      /\ u.sessions = [i \in 0..n |-> IF i = n THEN s ELSE t.sessions[i]]
      /\ u.lookup = [t.lookup EXCEPT ![request] = n, ![id] = n]
  BY DEF AddSession, Good, Shape, Fields
<1> HIDE DEF u
<1>4. Indexes(u) = 0..n /\ n \in 0..n /\ \A i \in 0..n : i # n => i \in 0..n-1
  BY <1>1, <1>3 DEF Indexes
<1>5. \A i \in 0..n-1 : i \in 0..n /\ i # n /\ u.sessions[i] = t.sessions[i]
  BY <1>1, <1>3
<1>6. u.sessions[n] = s
  BY <1>3, <1>4
<1>7. Shape(u, S)
  <2>1. u.sessions \in [0..n -> S]
    BY <1>1, <1>2, <1>3, <1>4
  <2>2. u.lookup \in [Ids -> -1..SessionsLimit - 1]
    <3>1. n \in -1..SessionsLimit - 1
      BY <1>1
    <3> DEFINE R == -1..SessionsLimit - 1
    <3> HIDE DEF R
    <3>2. t.lookup \in [Ids -> R] /\ n \in R
      BY <1>1, <3>1 DEF R
    <3>3. u.lookup \in [Ids -> R]
      BY <1>3, <3>2
    <3> QED
      BY <3>3 DEF R
  <2>3. n + 1 \in 0..SessionsLimit
    BY <1>1
  <2>4. t.sessions_connected \in 0..SessionsLimit
    BY DEF Good, Shape, Fields
  <2> QED
    BY <1>3, <1>4, <2>1, <2>2, <2>3, <2>4 DEF Shape, Fields
<1>8. /\ u.lookup[request] = n /\ u.lookup[id] = n
      /\ \A x \in Ids : x # request /\ x # id => u.lookup[x] = t.lookup[x]
  BY <1>1, <1>3, IdsFacts, EntryFacts
<1>9. \A i \in 0..n-1 :
          /\ t.sessions[i].session_id \in Ids /\ t.sessions[i].send_id \in Ids
          /\ t.lookup[t.sessions[i].session_id] = i /\ t.lookup[t.sessions[i].send_id] = i
          /\ i # NoSession
  BY <1>1, IdsFacts, EntryFacts DEF Good, Registered
<1>10. Registered(u)
  BY <1>2, <1>4, <1>5, <1>6, <1>8, <1>9 DEF Registered
<1>11. SessionIdsLead(u)
  <2> SUFFICES ASSUME NEW x \in SessionIds, u.lookup[x] # NoSession
               PROVE  u.lookup[x] \in 0..n /\ u.sessions[u.lookup[x]].session_id = x
    BY <1>4 DEF SessionIdsLead
  <2>1. CASE x = id
    BY <2>1, <1>2, <1>4, <1>6, <1>8
  <2>2. CASE x # id
    <3>1. u.lookup[x] = t.lookup[x]
      BY <2>2, <1>8, IdsFacts, EntryFacts
    <3>2. t.lookup[x] \in 0..n-1 /\ t.sessions[t.lookup[x]].session_id = x
      BY <3>1, <1>1 DEF Good, SessionIdsLead
    <3> QED
      BY <3>1, <3>2, <1>5
  <2> QED
    BY <2>1, <2>2
<1>12. RequestIdsLead(u)
  <2>1. ~ Connected(u, n)
    BY <1>1, <1>3 DEF Connected
  <2> SUFFICES ASSUME NEW x \in RequestIds, u.lookup[x] # NoSession
               PROVE  /\ u.lookup[x] \in 0..n
                      /\ ~ Connected(u, u.lookup[x])
                      /\ u.sessions[u.lookup[x]].send_id = x
    BY <1>4 DEF RequestIdsLead
  <2>2. CASE x = request
    BY <2>1, <2>2, <1>2, <1>4, <1>6, <1>8
  <2>3. CASE x # request
    <3>1. u.lookup[x] = t.lookup[x]
      BY <2>3, <1>8, IdsFacts, EntryFacts
    <3>2. /\ t.lookup[x] \in 0..n-1 /\ t.sessions[t.lookup[x]].send_id = x
          /\ ~ Connected(u, t.lookup[x])
      BY <3>1, <1>1, <1>3 DEF Good, RequestIdsLead, Connected
    <3> QED
      BY <3>1, <3>2, <1>5
  <2> QED
    BY <2>2, <2>3
<1>13. Partitioned(u)
  <2>1. ~ Connected(u, n) /\ t.sessions_connected <= n + 1
    BY <1>1, <1>3 DEF Connected
  <2> QED
    BY <2>1, <1>1, <1>2, <1>3, <1>4, <1>5, <1>6 DEF Good, Partitioned, Connected, Opening
<1> QED
  BY <1>7, <1>10, <1>11, <1>12, <1>13 DEF Good, u

\* Filling a vacant slot with the last session makes the table consistent.
LEMMA ReleaseSlotGood ==
  ASSUME NEW S, Entries(S), NEW t, NEW i, Vacant(t, i, S)
  PROVE  Good(ReleaseSlot(t, i), S)
<1> DEFINE u    == ReleaseSlot(t, i)
           last == t.sessions_len - 1
           m    == t.sessions[last]
<1>1. /\ last \in Nat /\ last < SessionsLimit /\ SessionsLimit \in Nat
      /\ t.sessions_connected \in 0..last
      /\ Indexes(t) = 0..last /\ i \in 0..last /\ last \in 0..last
      /\ t.sessions_connected <= i
      /\ t.sessions \in [0..last -> S] /\ t.lookup \in [Ids -> -1..SessionsLimit - 1]
  BY IdsFacts, EntryFacts DEF Vacant, Shape, Fields, Indexes
<1>2. /\ Fields \subseteq DOMAIN u
      /\ u.sessions_len = last
      /\ u.sessions_connected = t.sessions_connected
      /\ u.sessions = [j \in 0..last - 1 |-> IF j = i THEN m ELSE t.sessions[j]]
      /\ u.lookup = IF i = last THEN t.lookup
                    ELSE [t.lookup EXCEPT ![m.session_id] = i, ![m.send_id] = i]
  BY DEF ReleaseSlot, Vacant, Shape, Fields
<1> HIDE DEF u
<1>3. /\ Indexes(u) = 0..last - 1
      /\ \A j \in 0..last - 1 : j \in 0..last /\ j # last
      /\ \A j \in 0..last : j # last => j \in 0..last - 1
  BY <1>1, <1>2 DEF Indexes
<1>4. /\ m \in S /\ m.session_id \in SessionIds /\ m.session_id \in Ids /\ m.send_id \in Ids
      /\ \A j \in 0..last : t.sessions[j].session_id \in Ids /\ t.sessions[j].send_id \in Ids
  BY <1>1, IdsFacts, EntryFacts
<1>5. Shape(u, S)
  <2>1. u.sessions \in [0..last - 1 -> S]
    BY <1>1, <1>2, <1>3, <1>4
  <2>2. u.lookup \in [Ids -> -1..SessionsLimit - 1]
    <3>1. i \in -1..SessionsLimit - 1
      BY <1>1
    <3> DEFINE R == -1..SessionsLimit - 1
    <3> HIDE DEF R
    <3>2. t.lookup \in [Ids -> R] /\ i \in R
      BY <1>1, <3>1 DEF R
    <3>3. u.lookup \in [Ids -> R]
      BY <1>2, <1>4, <3>2
    <3> QED
      BY <3>3 DEF R
  <2>3. last \in 0..SessionsLimit /\ t.sessions_connected \in 0..SessionsLimit
    BY <1>1
  <2> QED
    BY <1>2, <1>3, <2>1, <2>2, <2>3 DEF Shape, Fields
<1>6. \A j \in 0..last : j # i =>
          /\ t.lookup[t.sessions[j].session_id] = j
          /\ t.lookup[t.sessions[j].send_id] = j
          /\ Connected(t, j) => ~ Opening(t, j)
          /\ Opening(t, j) => t.sessions[j].send_id \in RequestIds
  BY <1>1 DEF Vacant
<1>7. CASE i = last
  <2>1. u.lookup = t.lookup /\ \A j \in 0..last - 1 : j # i /\ u.sessions[j] = t.sessions[j]
    BY <1>2, <1>3, <1>7
  <2>2. \A id \in Ids : t.lookup[id] # last
    BY <1>7 DEF Vacant
  <2>3. Registered(u)
    BY <1>3, <1>6, <2>1 DEF Registered
  <2>4. SessionIdsLead(u)
    BY <1>1, <1>3, <2>1, <2>2, IdsFacts, EntryFacts DEF Vacant, SessionIdsLead
  <2>5. RequestIdsLead(u)
    <3> SUFFICES ASSUME NEW id \in RequestIds, t.lookup[id] # NoSession
                 PROVE  /\ t.lookup[id] \in Indexes(u) /\ ~ Connected(u, t.lookup[id])
                        /\ u.sessions[t.lookup[id]].send_id = id
      BY <2>1 DEF RequestIdsLead
    <3>1. /\ t.lookup[id] \in Indexes(t) /\ ~ Connected(t, t.lookup[id])
          /\ t.sessions[t.lookup[id]].send_id = id
      BY DEF Vacant, RequestIdsLead
    <3>2. t.lookup[id] \in 0..last - 1
      BY <1>1, <1>3, <2>2, <3>1, IdsFacts
    <3> QED
      BY <1>2, <1>3, <2>1, <3>1, <3>2 DEF Connected
  <2>6. Partitioned(u)
    <3>1. \A j \in 0..last - 1 : /\ Connected(u, j) <=> Connected(t, j)
                                 /\ Opening(u, j) <=> Opening(t, j)
      BY <1>2, <2>1 DEF Connected, Opening
    <3> QED
      BY <1>1, <1>2, <1>3, <1>6, <2>1, <3>1 DEF Partitioned
  <2> QED
    BY <1>5, <2>3, <2>4, <2>5, <2>6 DEF Good, u
<1>8. CASE i # last
  <2>1. /\ u.sessions[i] = m /\ i \in 0..last - 1
        /\ \A j \in 0..last - 1 : j # i => u.sessions[j] = t.sessions[j]
    BY <1>1, <1>2, <1>3, <1>8
  <2>2. /\ u.lookup[m.session_id] = i /\ u.lookup[m.send_id] = i
        /\ \A id \in Ids : id # m.session_id /\ id # m.send_id => u.lookup[id] = t.lookup[id]
    BY <1>1, <1>2, <1>4, <1>8
  <2>3. t.lookup[m.session_id] = last /\ t.lookup[m.send_id] = last
    BY <1>1, <1>6, <1>8
  <2>4. Registered(u)
    BY <1>3, <1>4, <1>6, <2>1, <2>2, <2>3 DEF Registered
  <2>5. \A id \in SessionIds : t.lookup[id] = last => m.session_id = id
    BY <1>1, IdsFacts, EntryFacts DEF Vacant, SessionIdsLead
  <2>6. \A id \in RequestIds : t.lookup[id] = last => m.send_id = id
    BY <1>1, IdsFacts, EntryFacts DEF Vacant, RequestIdsLead
  <2>7. SessionIdsLead(u)
    <3> SUFFICES ASSUME NEW id \in SessionIds, u.lookup[id] # NoSession
                 PROVE  u.lookup[id] \in 0..last - 1 /\ u.sessions[u.lookup[id]].session_id = id
      BY <1>3 DEF SessionIdsLead
    <3>1. CASE id = m.session_id
      BY <3>1, <2>1, <2>2
    <3>2. CASE id # m.session_id /\ id = m.send_id
      BY <3>2, <2>3, <2>5
    <3>3. CASE id # m.session_id /\ id # m.send_id
      <4>1. u.lookup[id] = t.lookup[id]
        BY <3>3, <2>2, IdsFacts, EntryFacts
      <4>2. t.lookup[id] # i /\ t.lookup[id] # last
        BY <3>3, <2>5, IdsFacts, EntryFacts DEF Vacant
      <4>3. t.lookup[id] \in 0..last /\ t.sessions[t.lookup[id]].session_id = id
        BY <4>1, <1>1 DEF Vacant, SessionIdsLead
      <4> QED
        BY <4>1, <4>2, <4>3, <2>1, <1>3
    <3> QED
      BY <3>1, <3>2, <3>3
  <2>8. RequestIdsLead(u)
    <3> SUFFICES ASSUME NEW id \in RequestIds, u.lookup[id] # NoSession
                 PROVE  /\ u.lookup[id] \in 0..last - 1
                        /\ ~ Connected(u, u.lookup[id])
                        /\ u.sessions[u.lookup[id]].send_id = id
      BY <1>3 DEF RequestIdsLead
    <3>0. id # m.session_id
      BY <1>4, IdsFacts, EntryFacts
    <3>1. CASE id = m.send_id
      <4>1. ~ Connected(u, i)
        BY <1>1, <1>2 DEF Connected
      <4> QED
        BY <3>1, <4>1, <2>1, <2>2
    <3>2. CASE id # m.send_id
      <4>1. u.lookup[id] = t.lookup[id]
        BY <3>0, <3>2, <2>2, IdsFacts, EntryFacts
      <4>2. t.lookup[id] # i /\ t.lookup[id] # last
        BY <3>2, <2>6, IdsFacts, EntryFacts DEF Vacant
      <4>3. /\ t.lookup[id] \in 0..last /\ t.sessions[t.lookup[id]].send_id = id
            /\ ~ Connected(u, t.lookup[id])
        BY <4>1, <1>1, <1>2 DEF Vacant, RequestIdsLead, Connected
      <4> QED
        BY <4>1, <4>2, <4>3, <2>1, <1>3
    <3> QED
      BY <3>1, <3>2
  <2>9. Partitioned(u)
    <3>1. Opening(t, last) => m.send_id \in RequestIds
      BY <1>1, <1>6, <1>8
    <3>2. ~ Connected(u, i) /\ t.sessions_connected <= last
      BY <1>1, <1>2 DEF Connected
    <3> QED
      BY <3>1, <3>2, <1>2, <1>3, <1>6, <2>1 DEF Partitioned, Connected, Opening
  <2> QED
    BY <1>5, <2>4, <2>7, <2>8, <2>9 DEF Good, u
<1> QED
  BY <1>7, <1>8

-------------------------------------------------------------------------------
(***************************************************************************)
(* The other operations rearrange sessions that are already there.  For    *)
(* them it is easier to say which ids a session has, and that the lookup   *)
(* table is the inverse of that relation.                                  *)
(***************************************************************************)
Has(t, i, id) == id = t.sessions[i].session_id \/ id = t.sessions[i].send_id

Exact(t) ==
    \A id \in Ids :
        /\ t.lookup[id] = NoSession \/ t.lookup[id] \in Indexes(t)
        /\ \A i \in Indexes(t) : Has(t, i, id) <=> t.lookup[id] = i

\* The consistency of the table in terms of the relation.
LEMMA Exactness ==
  ASSUME NEW S, Entries(S), NEW t, Shape(t, S), Partitioned(t)
  PROVE  Good(t, S) <=> Exact(t)
<1>1. /\ \A i \in Indexes(t) :
           /\ t.sessions[i].session_id \in SessionIds /\ t.sessions[i].session_id \in Ids
           /\ t.sessions[i].send_id \in Ids
           /\ Opening(t, i) => t.sessions[i].send_id \in RequestIds
           /\ Connected(t, i) => ~ Opening(t, i)
           /\ i # NoSession
  BY IdsFacts, EntryFacts DEF Shape, Partitioned, Indexes
<1>2. ASSUME Good(t, S) PROVE Exact(t)
  <2> SUFFICES ASSUME NEW id \in Ids
               PROVE  /\ t.lookup[id] = NoSession \/ t.lookup[id] \in Indexes(t)
                      /\ \A i \in Indexes(t) : Has(t, i, id) <=> t.lookup[id] = i
    BY DEF Exact
  <2>1. t.lookup[id] = NoSession \/ (t.lookup[id] \in Indexes(t) /\ Has(t, t.lookup[id], id))
    BY <1>2, IdsFacts, EntryFacts DEF Good, SessionIdsLead, RequestIdsLead, Has
  <2>2. \A i \in Indexes(t) : Has(t, i, id) => t.lookup[id] = i
    BY <1>2 DEF Good, Registered, Has
  <2> QED
    BY <1>1, <2>1, <2>2
<1>3. ASSUME Exact(t) PROVE Good(t, S)
  <2>1. Registered(t)
    BY <1>1, <1>3 DEF Registered, Exact, Has
  <2>2. \A id \in Ids : t.lookup[id] # NoSession =>
           t.lookup[id] \in Indexes(t) /\ Has(t, t.lookup[id], id)
    BY <1>3 DEF Exact
  <2>3. SessionIdsLead(t)
    BY <1>1, <2>2, IdsFacts, EntryFacts DEF SessionIdsLead, Has, Opening
  <2>4. RequestIdsLead(t)
    BY <1>1, <2>2, IdsFacts, EntryFacts DEF RequestIdsLead, Has, Opening
  <2> QED
    BY <2>1, <2>3, <2>4 DEF Good
<1> QED
  BY <1>2, <1>3

\* What the lemmas below use of a consistent table.
LEMMA GoodFacts ==
  ASSUME NEW S, Entries(S), NEW t, Good(t, S)
  PROVE  /\ Shape(t, S) /\ Partitioned(t) /\ Exact(t)
         /\ t.sessions_len \in Nat /\ t.sessions_connected \in 0..t.sessions_len
         /\ t.sessions_len <= SessionsLimit
         /\ t.lookup \in [Ids -> -1..SessionsLimit - 1]
         /\ t.sessions \in [Indexes(t) -> S]
         /\ \A i \in Indexes(t) :
              /\ i \in Nat /\ i # NoSession /\ i \in -1..SessionsLimit - 1
              /\ t.sessions[i].session_id \in SessionIds /\ t.sessions[i].session_id \in Ids
              /\ t.sessions[i].send_id \in Ids
              /\ t.lookup[t.sessions[i].session_id] = i /\ t.lookup[t.sessions[i].send_id] = i
<1>1. Shape(t, S) /\ Partitioned(t) /\ Exact(t)
  BY Exactness DEF Good
<1>2. /\ t.sessions_len \in Nat /\ t.sessions_connected \in 0..t.sessions_len
      /\ t.sessions_len <= SessionsLimit
  BY <1>1, IdsFacts, EntryFacts DEF Shape, Partitioned
<1>3. \A i \in Indexes(t) : i \in Nat /\ i # NoSession /\ i \in -1..SessionsLimit - 1
  BY <1>2, IdsFacts, EntryFacts DEF Indexes
<1> QED
  BY <1>1, <1>2, <1>3, IdsFacts, EntryFacts DEF Shape, Good, Registered

\* Consistency depends on nothing but the four fields.
LEMMA SameFieldsGood ==
  ASSUME NEW S, Entries(S), NEW t, NEW u, Good(t, S), DOMAIN u = DOMAIN t,
         u.sessions_len = t.sessions_len, u.sessions_connected = t.sessions_connected,
         u.sessions = t.sessions, u.lookup = t.lookup
  PROVE  Good(u, S)
BY DEF Good, Shape, Fields, Registered, SessionIdsLead, RequestIdsLead, Partitioned, Indexes,
       Connected, Opening

\* Clearing the ids of a session that is not connected vacates its slot.
LEMMA ClearedVacant ==
  ASSUME NEW S, Entries(S), NEW t, Good(t, S), NEW i \in Indexes(t), ~ Connected(t, i), NEW u,
         Fields \subseteq DOMAIN u,
         u.sessions_len = t.sessions_len, u.sessions_connected = t.sessions_connected,
         u.sessions \in [Indexes(t) -> S],
         \A j \in Indexes(t) : j # i => u.sessions[j] = t.sessions[j],
         u.lookup \in [Ids -> -1..SessionsLimit - 1],
         \A id \in Ids : u.lookup[id] = IF Has(t, i, id) THEN NoSession ELSE t.lookup[id]
  PROVE  Vacant(u, i, S)
<1>1. /\ Exact(t) /\ Partitioned(t) /\ Indexes(u) = Indexes(t)
      /\ \A j \in Indexes(t) :
           /\ j # NoSession
           /\ t.sessions[j].session_id \in Ids /\ t.sessions[j].send_id \in Ids
           /\ t.lookup[t.sessions[j].session_id] = j /\ t.lookup[t.sessions[j].send_id] = j
  BY GoodFacts DEF Indexes
<1>2. Shape(u, S) /\ u.sessions_connected <= i
  BY <1>1, GoodFacts, IdsFacts, EntryFacts DEF Shape, Connected, Indexes
<1>3. \A j \in Indexes(t) \ {i} :
        /\ u.sessions[j] = t.sessions[j]
        /\ u.lookup[t.sessions[j].session_id] = j
        /\ u.lookup[t.sessions[j].send_id] = j
  BY <1>1 DEF Exact
<1>4. \A id \in Ids : u.lookup[id] # NoSession =>
        u.lookup[id] = t.lookup[id] /\ t.lookup[id] # i
  BY <1>1 DEF Exact
<1>5. \A j \in Indexes(t) : (Connected(u, j) <=> Connected(t, j))
  BY DEF Connected
<1>6. SessionIdsLead(u)
  BY <1>1, <1>3, <1>4, IdsFacts, EntryFacts DEF SessionIdsLead, Good
<1>7. RequestIdsLead(u)
  BY <1>1, <1>3, <1>4, <1>5, IdsFacts, EntryFacts DEF RequestIdsLead, Good
<1>8. \A j \in Indexes(t) \ {i} :
        /\ Connected(u, j) => ~ Opening(u, j)
        /\ Opening(u, j) => u.sessions[j].send_id \in RequestIds
  BY <1>1, <1>3, <1>5 DEF Partitioned, Opening
<1>9. \A id \in Ids : u.lookup[id] # i
  BY <1>1, <1>4
<1> QED
  BY <1>1, <1>2, <1>3, <1>6, <1>7, <1>8, <1>9 DEF Vacant

\* Completing a closing handshake, or giving it up, leaves the table consistent.
LEMMA TerminateGood ==
  ASSUME NEW S, Entries(S), NEW t, Good(t, S), NEW i \in Indexes(t), ~ Connected(t, i), ~ Opening(t, i)
  PROVE  Good(TerminateSession(t, i), S)
<1> DEFINE u == [t EXCEPT !.lookup = [@ EXCEPT ![t.sessions[i].session_id] = NoSession]]
<1>1. /\ Fields \subseteq DOMAIN u
      /\ u.sessions_len = t.sessions_len /\ u.sessions_connected = t.sessions_connected
      /\ u.sessions = t.sessions
      /\ u.lookup = [t.lookup EXCEPT ![t.sessions[i].session_id] = NoSession]
  BY DEF Good, Shape, Fields
<1> HIDE DEF u
<1>2. u.lookup \in [Ids -> -1..SessionsLimit - 1]
  <2>1. NoSession \in -1..SessionsLimit - 1
    BY IdsFacts, EntryFacts
  <2> QED
    BY <1>1, <2>1, GoodFacts
<1>3. \A id \in Ids : u.lookup[id] = IF Has(t, i, id) THEN NoSession ELSE t.lookup[id]
  BY <1>1, GoodFacts DEF Has, Opening
<1>4. Vacant(u, i, S)
  <2>1. u.sessions \in [Indexes(t) -> S]
    BY <1>1, GoodFacts
  <2> QED
    BY <1>1, <1>2, <1>3, <2>1, ClearedVacant
<1> QED
  BY <1>4, ReleaseSlotGood DEF TerminateSession, u

\* So does closing a session in a handshake: clearing the id it is addressed by
\* after the slot was filled is the same as clearing it before.
LEMMA CloseUnconnectedGood ==
  ASSUME NEW S, Entries(S), NEW t, Good(t, S), NEW i \in Indexes(t), ~ Connected(t, i)
  PROVE  Good(CloseUnconnected(t, i), S)
<1> DEFINE sid  == t.sessions[i].session_id
           send == t.sessions[i].send_id
           last == t.sessions_len - 1
           m    == t.sessions[last]
           one  == [t EXCEPT !.lookup = [@ EXCEPT ![sid] = NoSession]]
           both == [t EXCEPT !.lookup = [[@ EXCEPT ![sid] = NoSession] EXCEPT ![send] = NoSession]]
<1>1. /\ Fields \subseteq DOMAIN both
      /\ both.sessions_len = t.sessions_len /\ both.sessions_connected = t.sessions_connected
      /\ both.sessions = t.sessions
      /\ both.lookup = [[t.lookup EXCEPT ![sid] = NoSession] EXCEPT ![send] = NoSession]
  BY DEF Good, Shape, Fields
<1>2. NoSession \in -1..SessionsLimit - 1
  BY IdsFacts, EntryFacts
<1>3. Vacant(both, i, S)
  <2> HIDE DEF both
  <2>1. both.lookup \in [Ids -> -1..SessionsLimit - 1]
    BY <1>1, <1>2, GoodFacts
  <2>2. \A id \in Ids : both.lookup[id] = IF Has(t, i, id) THEN NoSession ELSE t.lookup[id]
    BY <1>1, GoodFacts DEF Has
  <2>3. both.sessions \in [Indexes(t) -> S]
    BY <1>1, GoodFacts
  <2> QED
    BY <1>1, <2>1, <2>2, <2>3, ClearedVacant
<1>4. last \in Indexes(t)
  BY GoodFacts DEF Indexes
<1>5. i # last => m.session_id # send /\ m.send_id # send
  BY <1>4, GoodFacts
<1>6. [ReleaseSlot(one, i).lookup EXCEPT ![send] = NoSession] = ReleaseSlot(both, i).lookup
  <2>1. CASE i = last
    BY <2>1 DEF ReleaseSlot, Good, Shape, Fields
  <2>2. CASE i # last
    <3> DEFINE L == [t.lookup EXCEPT ![sid] = NoSession]
    <3>1. /\ ReleaseSlot(one, i).lookup = [L EXCEPT ![m.session_id] = i, ![m.send_id] = i]
          /\ ReleaseSlot(both, i).lookup =
                [[L EXCEPT ![send] = NoSession] EXCEPT ![m.session_id] = i, ![m.send_id] = i]
      BY <2>2 DEF ReleaseSlot, Good, Shape, Fields
    <3> HIDE DEF L
    <3>2. m.session_id # send /\ m.send_id # send
      BY <1>5, <2>2
    <3> HIDE DEF m, send, one, both
    <3> QED
      BY <3>1, <3>2
  <2> QED
    BY <2>1, <2>2
<1>7. /\ DOMAIN CloseUnconnected(t, i) = DOMAIN ReleaseSlot(both, i)
      /\ CloseUnconnected(t, i).sessions_len = ReleaseSlot(both, i).sessions_len
      /\ CloseUnconnected(t, i).sessions_connected = ReleaseSlot(both, i).sessions_connected
      /\ CloseUnconnected(t, i).sessions = ReleaseSlot(both, i).sessions
  BY DEF CloseUnconnected, TerminateSession, ReleaseSlot, Good, Shape, Fields
<1>8. CloseUnconnected(t, i).lookup = ReleaseSlot(both, i).lookup
  <2>1. CloseUnconnected(t, i).lookup = [ReleaseSlot(one, i).lookup EXCEPT ![send] = NoSession]
    BY DEF CloseUnconnected, TerminateSession, ReleaseSlot, Good, Shape, Fields
  <2> QED
    BY <1>6, <2>1
<1>9. Good(ReleaseSlot(both, i), S)
  BY <1>3, ReleaseSlotGood
<1> DEFINE u == CloseUnconnected(t, i)
           v == ReleaseSlot(both, i)
<1> HIDE DEF u, v
<1>10. Good(u, S)
  BY <1>7, <1>8, <1>9, SameFieldsGood DEF u, v
<1> QED
  BY <1>10 DEF u

-------------------------------------------------------------------------------
\* Two sessions that are both connected, both not, or both addressed by their
\* session ids may trade places, if the lookup table follows.
LEMMA SwapGood ==
  ASSUME NEW S, Entries(S), NEW t, Good(t, S), NEW i \in Indexes(t), NEW c \in Indexes(t), i # c, NEW u,
         DOMAIN u = DOMAIN t,
         u.sessions_len = t.sessions_len, u.sessions_connected = t.sessions_connected,
         u.sessions = [t.sessions EXCEPT ![i] = t.sessions[c], ![c] = t.sessions[i]],
         u.lookup \in [Ids -> -1..SessionsLimit - 1],
         \A id \in Ids : u.lookup[id] = IF Has(t, i, id) THEN c
                                        ELSE IF Has(t, c, id) THEN i ELSE t.lookup[id],
         Connected(t, i) => ~ Opening(t, c),
         Connected(t, c) => ~ Opening(t, i)
  PROVE  Good(u, S)
<1>1. /\ Indexes(u) = Indexes(t) /\ Exact(t) /\ Partitioned(t)
      /\ t.sessions \in [Indexes(t) -> S]
      /\ i # NoSession /\ c # NoSession
  BY GoodFacts DEF Indexes
<1>2. /\ u.sessions[i] = t.sessions[c] /\ u.sessions[c] = t.sessions[i]
      /\ \A j \in Indexes(t) : j # i /\ j # c => u.sessions[j] = t.sessions[j]
      /\ u.sessions \in [Indexes(t) -> S]
  BY <1>1
<1>3. Shape(u, S)
  BY <1>1, <1>2, GoodFacts DEF Shape, Fields
<1>4. Partitioned(u)
  <2>1. \A j \in Indexes(t) : (Connected(u, j) <=> Connected(t, j))
    BY DEF Connected
  <2> QED
    BY <1>1, <1>2, <2>1 DEF Partitioned, Opening
<1>5. Exact(u)
  <2> SUFFICES ASSUME NEW id \in Ids
               PROVE  /\ u.lookup[id] = NoSession \/ u.lookup[id] \in Indexes(t)
                      /\ \A j \in Indexes(t) : Has(u, j, id) <=> u.lookup[id] = j
    BY <1>1 DEF Exact
  <2>1. /\ t.lookup[id] = NoSession \/ t.lookup[id] \in Indexes(t)
        /\ \A j \in Indexes(t) : Has(t, j, id) <=> t.lookup[id] = j
    BY <1>1 DEF Exact
  <2>2. /\ Has(u, i, id) <=> Has(t, c, id)
        /\ Has(u, c, id) <=> Has(t, i, id)
        /\ \A j \in Indexes(t) : j # i /\ j # c => (Has(u, j, id) <=> Has(t, j, id))
    BY <1>2 DEF Has
  <2> QED
    BY <2>1, <2>2, <1>1
<1> QED
  BY <1>3, <1>4, <1>5, Exactness

\* A session in its opening handshake may give up its request id, and then join
\* the connected sessions if it is the first one after them.
LEMMA SettleGood ==
  ASSUME NEW S, Entries(S), NEW t, Good(t, S), NEW i \in Indexes(t), Opening(t, i), NEW u,
         DOMAIN u = DOMAIN t,
         u.sessions_len = t.sessions_len,
         \/ u.sessions_connected = t.sessions_connected
         \/ i = t.sessions_connected /\ u.sessions_connected = i + 1,
         u.sessions = [t.sessions EXCEPT ![i].send_id = t.sessions[i].session_id],
         u.lookup = [t.lookup EXCEPT ![t.sessions[i].send_id] = NoSession]
  PROVE  Good(u, S)
<1>1. /\ Indexes(u) = Indexes(t) /\ Exact(t) /\ Partitioned(t)
      /\ t.sessions \in [Indexes(t) -> S] /\ t.sessions[i] \in S
      /\ t.sessions[i].send_id \in Ids /\ i # NoSession
      /\ t.lookup \in [Ids -> -1..SessionsLimit - 1]
  BY GoodFacts DEF Indexes
<1>2. /\ u.sessions[i] = [t.sessions[i] EXCEPT !.send_id = t.sessions[i].session_id]
      /\ \A j \in Indexes(t) : j # i => u.sessions[j] = t.sessions[j]
  BY <1>1
<1>3. u.sessions[i] \in S /\ u.sessions[i].send_id = t.sessions[i].session_id
      /\ u.sessions[i].session_id = t.sessions[i].session_id
  BY <1>1, <1>2, IdsFacts, EntryFacts
<1>4. Shape(u, S)
  <2>1. u.sessions \in [Indexes(t) -> S]
    BY <1>1, <1>2, <1>3
  <2>2. u.lookup \in [Ids -> -1..SessionsLimit - 1]
    <3>1. NoSession \in -1..SessionsLimit - 1
      BY IdsFacts, EntryFacts
    <3> QED
      BY <1>1, <3>1
  <2>3. u.sessions_connected \in 0..SessionsLimit
    BY GoodFacts, IdsFacts, EntryFacts DEF Indexes
  <2> QED
    BY <1>1, <2>1, <2>2, <2>3, GoodFacts DEF Shape, Fields
<1>5. Partitioned(u)
  <2>1. u.sessions_connected <= u.sessions_len
    BY GoodFacts DEF Indexes
  <2>2. \A j \in Indexes(t) : j # i => (Connected(u, j) <=> Connected(t, j))
    BY GoodFacts DEF Connected, Indexes
  <2>3. ~ Opening(u, i)
    BY <1>3 DEF Opening
  <2> QED
    BY <1>1, <1>2, <2>1, <2>2, <2>3 DEF Partitioned, Opening
<1>6. Exact(u)
  <2> SUFFICES ASSUME NEW id \in Ids
               PROVE  /\ u.lookup[id] = NoSession \/ u.lookup[id] \in Indexes(t)
                      /\ \A j \in Indexes(t) : Has(u, j, id) <=> u.lookup[id] = j
    BY <1>1 DEF Exact
  <2>1. /\ t.lookup[id] = NoSession \/ t.lookup[id] \in Indexes(t)
        /\ \A j \in Indexes(t) : Has(t, j, id) <=> t.lookup[id] = j
        /\ \A j \in Indexes(t) : j # NoSession
    BY <1>1, GoodFacts DEF Exact
  <2>2. /\ Has(u, i, id) <=> id = t.sessions[i].session_id
        /\ \A j \in Indexes(t) : j # i => (Has(u, j, id) <=> Has(t, j, id))
    BY <1>2, <1>3 DEF Has
  <2>3. u.lookup[id] = IF id = t.sessions[i].send_id THEN NoSession ELSE t.lookup[id]
    BY <1>1
  <2> QED
    BY <2>1, <2>2, <2>3 DEF Has, Opening
<1> QED
  BY <1>4, <1>5, <1>6, Exactness

\* The last connected session may stop being connected.
LEMMA ShrinkGood ==
  ASSUME NEW S, Entries(S), NEW t, Good(t, S), t.sessions_connected > 0, NEW u, DOMAIN u = DOMAIN t,
         u.sessions_len = t.sessions_len, u.sessions_connected = t.sessions_connected - 1,
         u.sessions = t.sessions, u.lookup = t.lookup
  PROVE  Good(u, S)
<1>1. /\ Indexes(u) = Indexes(t) /\ Exact(t) /\ Partitioned(t) /\ Shape(t, S)
  BY GoodFacts DEF Indexes
<1>2. /\ u.sessions_connected \in 0..SessionsLimit
      /\ u.sessions_connected <= u.sessions_len
      /\ \A j \in Indexes(t) : Connected(u, j) => Connected(t, j)
  <2>1. \A j \in Indexes(t) : j \in Nat
    BY GoodFacts
  <2>2. /\ t.sessions_connected \in 0..t.sessions_len /\ t.sessions_len \in Nat
        /\ t.sessions_len <= SessionsLimit /\ SessionsLimit \in Nat
    BY GoodFacts, IdsFacts, EntryFacts
  <2> QED
    BY <2>1, <2>2 DEF Connected
<1>3. Shape(u, S)
  BY <1>1, <1>2 DEF Shape, Fields
<1>4. Partitioned(u)
  BY <1>1, <1>2 DEF Partitioned, Opening
<1>5. Exact(u)
  BY <1>1 DEF Exact, Has
<1> QED
  BY <1>3, <1>4, <1>5, Exactness

\* A connected session is dropped.
LEMMA DropConnectedGood ==
  ASSUME NEW S, Entries(S), NEW t, Good(t, S), NEW i \in Indexes(t), Connected(t, i)
  PROVE  Good(DropConnected(t, i), S)
<1> DEFINE c == t.sessions_connected - 1
           u == [t EXCEPT !.sessions_connected = c]
           v == SwapSession(u, i)
<1>1. /\ t.sessions_connected > 0 /\ c \in Indexes(t) /\ Connected(t, c)
      /\ ~ Opening(t, i) /\ ~ Opening(t, c)
  <2>1. i \in Nat /\ t.sessions_connected \in 0..t.sessions_len /\ t.sessions_len \in Nat
    BY GoodFacts
  <2>2. t.sessions_connected > 0 /\ c \in Indexes(t) /\ Connected(t, c)
    BY <2>1 DEF Connected, Indexes
  <2> QED
    BY <2>2 DEF Good, Partitioned
<1>2. /\ DOMAIN u = DOMAIN t /\ u.sessions_len = t.sessions_len
      /\ u.sessions_connected = c /\ u.sessions = t.sessions /\ u.lookup = t.lookup
  BY DEF Good, Shape, Fields
<1>3. Good(u, S)
  BY <1>1, <1>2, ShrinkGood
<1>4. CASE i = c
  BY <1>3, <1>4 DEF DropConnected, Good, Shape, Fields
<1>5. CASE i # c
  <2>1. /\ DOMAIN v = DOMAIN u /\ v.sessions_len = u.sessions_len
        /\ v.sessions_connected = u.sessions_connected
        /\ v.sessions = [u.sessions EXCEPT ![i] = u.sessions[c], ![c] = u.sessions[i]]
        /\ v.lookup = [u.lookup EXCEPT ![u.sessions[c].session_id] = i,
                                      ![u.sessions[i].session_id] = c]
    BY <1>2 DEF SwapSession, Good, Shape, Fields
  <2>2. /\ i \in Indexes(u) /\ c \in Indexes(u)
        /\ ~ Opening(u, i) /\ ~ Opening(u, c)
    BY <1>1, <1>2 DEF Indexes, Opening
  <2> HIDE DEF u, v, c
  <2>3. /\ i \in -1..SessionsLimit - 1 /\ c \in -1..SessionsLimit - 1
        /\ u.lookup \in [Ids -> -1..SessionsLimit - 1]
        /\ u.lookup[u.sessions[c].session_id] = c /\ u.lookup[u.sessions[i].session_id] = i
    BY <1>3, <2>2, GoodFacts
  <2>4. v.lookup \in [Ids -> -1..SessionsLimit - 1]
    BY <2>1, <2>3
  <2>5. \A id \in Ids : v.lookup[id] = IF Has(u, i, id) THEN c
                                       ELSE IF Has(u, c, id) THEN i ELSE u.lookup[id]
    BY <1>5, <2>1, <2>2, <2>3 DEF Has, Opening
  <2>6. Good(v, S)
    BY <1>3, <1>5, <2>1, <2>2, <2>4, <2>5, SwapGood
  <2>7. DropConnected(t, i) = v
    BY <1>2, <1>5 DEF DropConnected, u, v, c
  <2> QED
    BY <2>6, <2>7
<1> QED
  BY <1>4, <1>5

\* A session in its opening handshake is dropped.
LEMMA DropOpeningGood ==
  ASSUME NEW S, Entries(S), NEW t, Good(t, S), NEW i \in Indexes(t), Opening(t, i)
  PROVE  Good(DropOpening(t, i), S)
<1> DEFINE u == DropOpening(t, i)
<1>1. /\ DOMAIN u = DOMAIN t /\ u.sessions_len = t.sessions_len
      /\ u.sessions_connected = t.sessions_connected
      /\ u.sessions = [t.sessions EXCEPT ![i].send_id = t.sessions[i].session_id]
      /\ u.lookup = [t.lookup EXCEPT ![t.sessions[i].send_id] = NoSession]
  BY DEF DropOpening, Good, Shape, Fields
<1> HIDE DEF u
<1>2. Good(u, S)
  BY <1>1, SettleGood
<1> QED
  BY <1>2 DEF u

\* A client completes its opening handshake.
LEMMA ConnectGood ==
  ASSUME NEW S, Entries(S), NEW t, Good(t, S), NEW request \in RequestIds, t.lookup[request] # NoSession
  PROVE  Good(ConnectSession(t, request), S)
<1> DEFINE i == t.lookup[request]
           c == t.sessions_connected
           v == [t EXCEPT
                   !.sessions = [@ EXCEPT ![i] = t.sessions[c], ![c] = t.sessions[i]],
                   !.lookup = [[[[@ EXCEPT ![t.sessions[c].session_id] = i]
                                    EXCEPT ![t.sessions[i].session_id] = c]
                                    EXCEPT ![t.sessions[c].send_id] = i]
                                    EXCEPT ![request] = c]]
           w == ConnectSession(t, request)
<1>1. /\ i \in Indexes(t) /\ ~ Connected(t, i)
      /\ t.sessions[i].send_id = request /\ Opening(t, i)
      /\ c \in Indexes(t) /\ ~ Connected(t, c)
  <2>1. i \in Indexes(t) /\ ~ Connected(t, i) /\ t.sessions[i].send_id = request
    BY DEF Good, RequestIdsLead
  <2>2. Opening(t, i)
    BY <2>1, GoodFacts, IdsFacts, EntryFacts DEF Opening
  <2>3. c \in 0..t.sessions_len /\ t.sessions_len \in Nat
    BY GoodFacts
  <2>4. c \in Indexes(t) /\ ~ Connected(t, c)
    BY <2>1, <2>3 DEF Indexes, Connected
  <2> QED
    BY <2>1, <2>2, <2>4
<1>2. CASE i = c
  <2>1. /\ DOMAIN w = DOMAIN t /\ w.sessions_len = t.sessions_len
        /\ w.sessions_connected = i + 1
        /\ w.sessions = [t.sessions EXCEPT ![i].send_id = t.sessions[i].session_id]
        /\ w.lookup = [t.lookup EXCEPT ![request] = NoSession]
    BY <1>1, <1>2 DEF ConnectSession, PromoteSession, Good, Shape, Fields
  <2> HIDE DEF w, i, c
  <2>2. Good(w, S)
    BY <1>1, <1>2, <2>1, SettleGood DEF c
  <2> QED
    BY <2>2 DEF w
<1>3. CASE i # c
  <2>1. /\ DOMAIN v = DOMAIN t /\ v.sessions_len = t.sessions_len
        /\ v.sessions_connected = c
        /\ v.sessions = [t.sessions EXCEPT ![i] = t.sessions[c], ![c] = t.sessions[i]]
        /\ v.lookup = [[[[t.lookup EXCEPT ![t.sessions[c].session_id] = i]
                                  EXCEPT ![t.sessions[i].session_id] = c]
                                  EXCEPT ![t.sessions[c].send_id] = i]
                                  EXCEPT ![request] = c]
    BY DEF Good, Shape, Fields
  <2>2. /\ DOMAIN w = DOMAIN t /\ w.sessions_len = t.sessions_len
        /\ w.sessions_connected = c + 1
        /\ w.sessions = [v.sessions EXCEPT ![c].send_id = v.sessions[c].session_id]
        /\ w.lookup = [v.lookup EXCEPT ![request] = NoSession]
    BY <1>1, <1>3, <2>1
    DEF ConnectSession, PromoteSession, SwapSession, Good, Shape, Fields
  <2> HIDE DEF v, w, i, c
  <2>3. /\ i \in -1..SessionsLimit - 1 /\ c \in -1..SessionsLimit - 1
        /\ t.lookup \in [Ids -> -1..SessionsLimit - 1]
        /\ \A j \in {i, c} :
             /\ t.sessions[j].session_id \in Ids /\ t.sessions[j].send_id \in Ids
             /\ t.lookup[t.sessions[j].session_id] = j
             /\ t.lookup[t.sessions[j].send_id] = j
    BY <1>1, GoodFacts
  <2>4. v.lookup \in [Ids -> -1..SessionsLimit - 1]
    BY ZenonT(30), <2>1, <2>3
  <2>5. \A id \in Ids : v.lookup[id] = IF Has(t, i, id) THEN c
                                       ELSE IF Has(t, c, id) THEN i ELSE t.lookup[id]
    BY <1>1, <1>3, <2>1, <2>3 DEF Has
  <2>6. Good(v, S)
    BY <1>1, <1>3, <2>1, <2>4, <2>5, SwapGood DEF c
  <2>7. /\ v.sessions[c] = t.sessions[i] /\ c \in Indexes(v) /\ Opening(v, c)
    <3>1. t.sessions \in [Indexes(t) -> S]
      BY GoodFacts
    <3> QED
      BY <1>1, <1>3, <2>1, <3>1 DEF Indexes, Opening
  <2>8. Good(w, S)
    BY <1>1, <2>1, <2>2, <2>6, <2>7, SettleGood
  <2> QED
    BY <2>8 DEF w
<1> QED
  BY <1>2, <1>3

\* A client closes a connected session: its slot first takes the last connected
\* session, as when it is dropped, and is then filled from the end of the array.
LEMMA CloseConnectedGood ==
  ASSUME NEW S, Entries(S), NEW t, Good(t, S), NEW i \in Indexes(t), Connected(t, i)
  PROVE  Good(CloseConnected(t, i), S)
<1> DEFINE c == t.sessions_connected - 1
           w == DropConnected(t, i)
           cleared == [t.lookup EXCEPT ![t.sessions[i].session_id] = NoSession]
           u == [t EXCEPT !.sessions_connected = c, !.lookup = cleared]
           v == IF i = c THEN u
                ELSE [u EXCEPT !.sessions = [@ EXCEPT ![i] = t.sessions[c]],
                               !.lookup = [@ EXCEPT ![t.sessions[c].session_id] = i]]
<1>1. /\ c \in Indexes(t) /\ i \in Indexes(t) /\ Good(w, S)
      /\ ~ Opening(t, i) /\ ~ Opening(t, c)
  <2>1. i \in Nat /\ t.sessions_connected \in 0..t.sessions_len /\ t.sessions_len \in Nat
    BY GoodFacts
  <2>2. c \in Indexes(t) /\ Connected(t, c)
    BY <2>1 DEF Connected, Indexes
  <2> QED
    BY <2>2, DropConnectedGood DEF Good, Partitioned
<1>2. /\ \A j \in {i, c} :
            /\ j \in -1..SessionsLimit - 1
            /\ t.sessions[j] \in S
            /\ t.sessions[j].session_id \in Ids
            /\ t.lookup[t.sessions[j].session_id] = j
      /\ t.lookup \in [Ids -> -1..SessionsLimit - 1]
      /\ t.sessions \in [Indexes(t) -> S]
      /\ NoSession \in -1..SessionsLimit - 1
  <2> HIDE DEF c
  <2>1. \A j \in Indexes(t) :
            /\ j \in -1..SessionsLimit - 1
            /\ t.sessions[j].session_id \in Ids
            /\ t.lookup[t.sessions[j].session_id] = j
    BY GoodFacts
  <2>2. t.sessions \in [Indexes(t) -> S] /\ t.lookup \in [Ids -> -1..SessionsLimit - 1]
    BY GoodFacts
  <2> QED
    BY <1>1, <2>1, <2>2, NoSessionRange
<1>3. /\ w.sessions_len = t.sessions_len /\ w.sessions_connected = c
      /\ w.sessions = IF i = c THEN t.sessions
                      ELSE [t.sessions EXCEPT ![i] = t.sessions[c], ![c] = t.sessions[i]]
      /\ w.lookup = IF i = c THEN t.lookup
                    ELSE [[t.lookup EXCEPT ![t.sessions[c].session_id] = i]
                                    EXCEPT ![t.sessions[i].session_id] = c]
  BY DEF DropConnected, SwapSession, Good, Shape, Fields
<1>4. /\ DOMAIN v = DOMAIN t /\ v.sessions_len = t.sessions_len /\ v.sessions_connected = c
      /\ v.sessions = IF i = c THEN t.sessions ELSE [t.sessions EXCEPT ![i] = t.sessions[c]]
      /\ v.lookup = IF i = c THEN cleared ELSE [cleared EXCEPT ![t.sessions[c].session_id] = i]
  BY DEF Good, Shape, Fields
<1>5. CloseConnected(t, i) = ReleaseSlot(v, c)
  BY DEF CloseConnected, Good, Shape, Fields
<1> HIDE DEF v, w, c
<1>6. /\ w.sessions[c] = t.sessions[i] /\ c \in Indexes(w) /\ ~ Connected(w, c)
      /\ Indexes(w) = Indexes(t)
  <2>1. ~ Connected(w, c)
    BY <1>3, GoodFacts DEF c, Connected
  <2> QED
    BY <1>1, <1>2, <1>3, <2>1 DEF Indexes
<1>7. \A id \in Ids : Has(w, c, id) <=> id = t.sessions[i].session_id
  BY <1>1, <1>6 DEF Has, Opening
<1>8. /\ v.sessions \in [Indexes(w) -> S]
      /\ \A j \in Indexes(w) : j # c => v.sessions[j] = w.sessions[j]
  BY <1>1, <1>2, <1>3, <1>4, <1>6
<1>9. v.lookup \in [Ids -> -1..SessionsLimit - 1]
  BY <1>2, <1>4
<1>10. \A id \in Ids : v.lookup[id] = IF Has(w, c, id) THEN NoSession ELSE w.lookup[id]
  BY <1>2, <1>3, <1>4, <1>7
<1>11. Fields \subseteq DOMAIN v
  BY <1>4 DEF Good, Shape, Fields
<1>12. Vacant(v, c, S)
  <2>1. v.sessions_len = w.sessions_len /\ v.sessions_connected = w.sessions_connected
    BY <1>3, <1>4
  <2> QED
    BY <1>1, <1>6, <1>8, <1>9, <1>10, <1>11, <2>1, ClearedVacant
<1> QED
  BY <1>5, <1>12, ReleaseSlotGood

\* The server closes every session.
LEMMA EvictGood ==
  ASSUME NEW S, Entries(S), NEW t, Good(t, S)
  PROVE  Good(EvictSessions(t), S)
<1> DEFINE u == EvictSessions(t)
<1>1. /\ DOMAIN u = DOMAIN t /\ u.sessions_len = t.sessions_len /\ u.sessions_connected = 0
      /\ u.sessions = [i \in Indexes(t) |->
                         [t.sessions[i] EXCEPT !.send_id = t.sessions[i].session_id]]
      /\ u.lookup = [id \in Ids |->
                       IF \E i \in Indexes(t) : Opening(t, i) /\ id = t.sessions[i].send_id
                       THEN NoSession ELSE t.lookup[id]]
  BY DEF EvictSessions, Good, Shape, Fields
<1> HIDE DEF u
<1>2. /\ Indexes(u) = Indexes(t) /\ Exact(t)
      /\ \A i \in Indexes(t) :
           /\ t.sessions[i] \in S /\ i # NoSession /\ i \in Nat
           /\ u.sessions[i] = [t.sessions[i] EXCEPT !.send_id = t.sessions[i].session_id]
  BY <1>1, GoodFacts DEF Indexes
<1>3. \A i \in Indexes(t) :
        /\ u.sessions[i] \in S
        /\ u.sessions[i].session_id = t.sessions[i].session_id
        /\ u.sessions[i].send_id = t.sessions[i].session_id
  <2> SUFFICES ASSUME NEW i \in Indexes(t)
               PROVE  /\ u.sessions[i] \in S
                      /\ u.sessions[i].session_id = t.sessions[i].session_id
                      /\ u.sessions[i].send_id = t.sessions[i].session_id
    OBVIOUS
  <2> DEFINE s == t.sessions[i]
  <2>1. u.sessions[i] = [s EXCEPT !.send_id = s.session_id] /\ s \in S
    BY <1>2
  <2> HIDE DEF s
  <2>2. /\ u.sessions[i] \in S /\ u.sessions[i].session_id = s.session_id
        /\ u.sessions[i].send_id = s.session_id
    BY <2>1, IdsFacts, EntryFacts
  <2> QED
    BY <2>2 DEF s
<1>4. Shape(u, S)
  <2>1. u.sessions \in [Indexes(t) -> S]
    BY <1>1, <1>3
  <2>2. u.lookup \in [Ids -> -1..SessionsLimit - 1]
    <3>1. NoSession \in -1..SessionsLimit - 1 /\ t.lookup \in [Ids -> -1..SessionsLimit - 1]
      BY GoodFacts, NoSessionRange
    <3> QED
      BY <1>1, <3>1
  <2> QED
    BY <1>1, <1>2, <2>1, <2>2, GoodFacts, IdsFacts, EntryFacts DEF Shape, Fields
<1>5. Partitioned(u)
  <2>1. \A i \in Indexes(t) : ~ Opening(u, i)
    BY <1>3 DEF Opening
  <2>2. u.sessions_connected <= u.sessions_len
    BY <1>1, GoodFacts
  <2> QED
    BY <1>2, <2>1, <2>2 DEF Partitioned
<1>6. Exact(u)
  <2> SUFFICES ASSUME NEW id \in Ids
               PROVE  /\ u.lookup[id] = NoSession \/ u.lookup[id] \in Indexes(t)
                      /\ \A i \in Indexes(t) : Has(u, i, id) <=> u.lookup[id] = i
    BY <1>2 DEF Exact
  <2>1. /\ t.lookup[id] = NoSession \/ t.lookup[id] \in Indexes(t)
        /\ \A i \in Indexes(t) : Has(t, i, id) <=> t.lookup[id] = i
    BY <1>2 DEF Exact
  <2>2. \A i \in Indexes(t) : Has(u, i, id) <=> id = t.sessions[i].session_id
    BY <1>3 DEF Has
  <2>3. CASE \E i \in Indexes(t) : Opening(t, i) /\ id = t.sessions[i].send_id
    <3>1. u.lookup[id] = NoSession
      BY <1>1, <2>3
    <3>2. PICK i \in Indexes(t) : Opening(t, i) /\ id = t.sessions[i].send_id
      BY <2>3
    <3>3. t.lookup[id] = i
      BY <2>1, <3>2 DEF Has
    <3>4. \A j \in Indexes(t) : id # t.sessions[j].session_id
      BY <2>1, <3>2, <3>3 DEF Has, Opening
    <3> QED
      BY <1>2, <2>2, <3>1, <3>4
  <2>4. CASE ~ \E i \in Indexes(t) : Opening(t, i) /\ id = t.sessions[i].send_id
    <3>1. u.lookup[id] = t.lookup[id]
      BY <1>1, <2>4
    <3> QED
      BY <2>1, <2>2, <2>4, <3>1 DEF Has, Opening
  <2> QED
    BY <2>3, <2>4
<1> QED
  BY <1>4, <1>5, <1>6, Exactness DEF u

-------------------------------------------------------------------------------
(***************************************************************************)
(* The array is moved about all the time.  What matters to everyone else   *)
(* is which ids there are, the session behind each of them, and which of   *)
(* them are connected: what an operation does to those is said here.       *)
(***************************************************************************)
LiveIds(t)      == {id \in SessionIds : t.lookup[id] # NoSession}
ConnectedIds(t) == {id \in LiveIds(t) : Connected(t, t.lookup[id])}
Entry(t, id)    == t.sessions[t.lookup[id]]

\* A session is found under its id.
LEMMA EntryFound ==
  ASSUME NEW S, Entries(S), NEW t, Good(t, S)
  PROVE  /\ \A i \in Indexes(t) : LET id == t.sessions[i].session_id IN
              /\ id \in LiveIds(t) /\ t.lookup[id] = i /\ Entry(t, id) = t.sessions[i]
              /\ id \in ConnectedIds(t) <=> Connected(t, i)
         /\ \A id \in LiveIds(t) :
              /\ t.lookup[id] \in Indexes(t) /\ Entry(t, id) \in S
              /\ Entry(t, id).session_id = id
<1>1. \A i \in Indexes(t) :
        /\ i # NoSession /\ t.sessions[i].session_id \in SessionIds
        /\ t.lookup[t.sessions[i].session_id] = i
  BY GoodFacts
<1>2. \A id \in LiveIds(t) :
        t.lookup[id] \in Indexes(t) /\ t.sessions[t.lookup[id]].session_id = id
  BY DEF LiveIds, Good, SessionIdsLead
<1>3. \A i \in Indexes(t) : t.sessions[i] \in S
  BY GoodFacts
<1> QED
  BY <1>1, <1>2, <1>3 DEF LiveIds, ConnectedIds, Entry

\* What is known of the places in a consistent table.
LEMMA Places ==
  ASSUME NEW S, Entries(S), NEW t, Good(t, S)
  PROVE  /\ t.sessions_len \in Nat /\ t.sessions_connected \in 0..t.sessions_len
         /\ Indexes(t) = 0..t.sessions_len - 1
         /\ t.sessions \in [0..t.sessions_len - 1 -> S]
         /\ \A i, j \in Indexes(t) :
               t.sessions[i].session_id = t.sessions[j].session_id => i = j
         /\ \A id \in LiveIds(t) : \E i \in Indexes(t) :
               /\ t.sessions[i].session_id = id /\ t.sessions[i] = Entry(t, id)
               /\ Connected(t, i) <=> id \in ConnectedIds(t)
         /\ ConnectedIds(t) \subseteq LiveIds(t)
<1>1. \A id \in LiveIds(t) : LET i == t.lookup[id] IN
         /\ i \in Indexes(t) /\ t.sessions[i].session_id = id /\ t.sessions[i] = Entry(t, id)
         /\ Connected(t, i) <=> id \in ConnectedIds(t)
  BY EntryFound DEF Entry, ConnectedIds
<1>2. \A i, j \in Indexes(t) : t.sessions[i].session_id = t.sessions[j].session_id => i = j
  BY GoodFacts
<1>3. /\ t.sessions_len \in Nat /\ t.sessions_connected \in 0..t.sessions_len
      /\ t.sessions \in [Indexes(t) -> S]
  BY GoodFacts
<1>4. Indexes(t) = 0..t.sessions_len - 1
  BY DEF Indexes
<1>5. ConnectedIds(t) \subseteq LiveIds(t)
  BY DEF ConnectedIds
<1>6. \A id \in LiveIds(t) : \E i \in Indexes(t) :
         /\ t.sessions[i].session_id = id /\ t.sessions[i] = Entry(t, id)
         /\ Connected(t, i) <=> id \in ConnectedIds(t)
  BY <1>1
<1> QED
  BY <1>2, <1>3, <1>4, <1>5, <1>6

\* The sessions of a table u in terms of those of t: old ids keep their session, or
\* are settled; ids that are not kept are gone.
Kept(t, u, ids) ==
    \A id \in ids : \E j \in Indexes(u) :
        u.sessions[j] = Entry(t, id) /\ (Connected(u, j) <=> id \in ConnectedIds(t))

\* What is kept is found under its id.
LEMMA KeptView ==
  ASSUME NEW S, Entries(S), NEW t, Good(t, S), NEW u, Good(u, S),
         NEW ids \in SUBSET LiveIds(t), Kept(t, u, ids)
  PROVE  \A id \in ids : /\ id \in LiveIds(u) /\ Entry(u, id) = Entry(t, id)
                         /\ id \in ConnectedIds(u) <=> id \in ConnectedIds(t)
<1> SUFFICES ASSUME NEW id \in ids
             PROVE  /\ id \in LiveIds(u) /\ Entry(u, id) = Entry(t, id)
                    /\ id \in ConnectedIds(u) <=> id \in ConnectedIds(t)
  OBVIOUS
<1>1. PICK j \in Indexes(u) : /\ u.sessions[j] = Entry(t, id)
                              /\ Connected(u, j) <=> id \in ConnectedIds(t)
  BY DEF Kept
<1>2. Entry(t, id).session_id = id
  BY EntryFound
<1> QED
  BY <1>1, <1>2, EntryFound

\* A session is added under its id.
LEMMA AddSessionView ==
  ASSUME NEW S, Entries(S), NEW t, Good(t, S), NEW s \in S,
         s.send_id \in RequestIds,
         t.lookup[s.send_id] = NoSession, t.lookup[s.session_id] = NoSession,
         t.sessions_len # SessionsLimit, NEW u, u = AddSession(t, s)
  PROVE  /\ LiveIds(u) = LiveIds(t) \cup {s.session_id}
         /\ Entry(u, s.session_id) = s
         /\ \A id \in LiveIds(t) : Entry(u, id) = Entry(t, id)
         /\ ConnectedIds(u) = ConnectedIds(t)
<1> DEFINE n == t.sessions_len
<1>1. Good(u, S)
  BY AddSessionGood
<1>2. /\ u.sessions_len = n + 1 /\ u.sessions_connected = t.sessions_connected
      /\ u.sessions = [i \in 0..n |-> IF i = n THEN s ELSE t.sessions[i]]
  BY DEF AddSession, Good, Shape, Fields
<1>3. /\ s.session_id \notin LiveIds(t)
      /\ \A i \in Indexes(t) : t.sessions[i].session_id \in LiveIds(t)
  BY EntryFound DEF LiveIds
<1>4. /\ n \in Indexes(u) /\ u.sessions[n] = s /\ ~ Connected(u, n)
      /\ \A i \in Indexes(t) : /\ i \in Indexes(u) /\ u.sessions[i] = t.sessions[i]
                               /\ Connected(u, i) <=> Connected(t, i)
      /\ \A j \in Indexes(u) : j = n \/ j \in Indexes(t)
  BY <1>2, Places DEF Indexes, Connected
<1>5. Kept(t, u, LiveIds(t))
  BY <1>4, Places DEF Kept
<1>6. \A id \in LiveIds(t) : /\ id \in LiveIds(u) /\ Entry(u, id) = Entry(t, id)
                             /\ id \in ConnectedIds(u) <=> id \in ConnectedIds(t)
  BY <1>1, <1>5, KeptView
<1>7. /\ s.session_id \in LiveIds(u) /\ Entry(u, s.session_id) = s
      /\ s.session_id \notin ConnectedIds(u)
  BY <1>1, <1>4, EntryFound
<1>8. \A id \in LiveIds(u) : id \in LiveIds(t) \cup {s.session_id}
  <2> SUFFICES ASSUME NEW id \in LiveIds(u) PROVE id \in LiveIds(t) \cup {s.session_id}
    OBVIOUS
  <2>1. PICK j \in Indexes(u) : u.sessions[j].session_id = id
    BY <1>1, Places
  <2> QED
    BY <2>1, <1>3, <1>4
<1>9. /\ ConnectedIds(u) \subseteq LiveIds(u) /\ ConnectedIds(t) \subseteq LiveIds(t)
  BY DEF ConnectedIds
<1> QED
  BY <1>3, <1>6, <1>7, <1>8, <1>9

\* A session is removed, the others are kept.
Removed(t, u, x) ==
    /\ LiveIds(u) = LiveIds(t) \ {x}
    /\ \A id \in LiveIds(t) \ {x} : Entry(u, id) = Entry(t, id)
    /\ ConnectedIds(u) = ConnectedIds(t) \ {x}

\* A place for every other session, and no more places, is what removing one takes.
LEMMA RemovedView ==
  ASSUME NEW S, Entries(S), NEW t, Good(t, S), NEW u, Good(u, S), NEW x,
         Kept(t, u, LiveIds(t) \ {x}),
         \A j \in Indexes(u) : \E i \in Indexes(t) :
             /\ t.sessions[i].session_id # x
             /\ u.sessions[j].session_id = t.sessions[i].session_id
  PROVE  Removed(t, u, x)
<1>1. \A id \in LiveIds(t) \ {x} :
         /\ id \in LiveIds(u) /\ Entry(u, id) = Entry(t, id)
         /\ id \in ConnectedIds(u) <=> id \in ConnectedIds(t)
  BY KeptView
<1>2. \A id \in LiveIds(u) : id \in LiveIds(t) \ {x}
  <2> SUFFICES ASSUME NEW id \in LiveIds(u) PROVE id \in LiveIds(t) \ {x}
    OBVIOUS
  <2>1. PICK j \in Indexes(u) : u.sessions[j].session_id = id
    BY Places
  <2>2. PICK i \in Indexes(t) : t.sessions[i].session_id # x /\ t.sessions[i].session_id = id
    BY <2>1
  <2> QED
    BY <2>2, EntryFound
<1>3. /\ ConnectedIds(u) \subseteq LiveIds(u) /\ ConnectedIds(t) \subseteq LiveIds(t)
  BY DEF ConnectedIds
<1> QED
  BY <1>1, <1>2, <1>3 DEF Removed

\* A session is addressed by its session id from now on, the others are kept; conn are
\* those that are connected then.
Settles(t, u, x, conn) ==
    /\ LiveIds(u) = LiveIds(t)
    /\ Entry(u, x) = Settled(Entry(t, x))
    /\ \A id \in LiveIds(t) \ {x} : Entry(u, id) = Entry(t, id)
    /\ ConnectedIds(u) = conn

\* What that takes, where k is the place of the session in u.
SettledAt(t, u, x, conn, k) ==
    /\ x \in LiveIds(t)
    /\ conn \in {ConnectedIds(t) \cup {x}, ConnectedIds(t) \ {x}}
    /\ Kept(t, u, LiveIds(t) \ {x})
    /\ k \in Indexes(u) /\ u.sessions[k] = Settled(Entry(t, x))
    /\ Connected(u, k) <=> x \in conn
    /\ \A j \in Indexes(u) : \E i \in Indexes(t) :
          u.sessions[j].session_id = t.sessions[i].session_id

\* Then the session is settled, and found in its place.
LEMMA SettlesView ==
  ASSUME NEW S, Entries(S), NEW t, Good(t, S), NEW u, Good(u, S),
         NEW x, NEW conn, NEW k, SettledAt(t, u, x, conn, k)
  PROVE  Settles(t, u, x, conn) /\ u.lookup[x] = k
<1>1. \A id \in LiveIds(t) \ {x} :
         /\ id \in LiveIds(u) /\ Entry(u, id) = Entry(t, id)
         /\ id \in ConnectedIds(u) <=> id \in ConnectedIds(t)
  BY KeptView DEF SettledAt
<1>2. \A id \in LiveIds(u) : id \in LiveIds(t)
  <2> SUFFICES ASSUME NEW id \in LiveIds(u) PROVE id \in LiveIds(t)
    OBVIOUS
  <2>1. PICK j \in Indexes(u) : u.sessions[j].session_id = id
    BY Places
  <2>2. PICK i \in Indexes(t) : t.sessions[i].session_id = id
    BY <2>1 DEF SettledAt
  <2> QED
    BY <2>2, EntryFound
<1>3. Settled(Entry(t, x)).session_id = x
  <2>1. Entry(t, x) \in S /\ Entry(t, x).session_id = x
    BY EntryFound DEF SettledAt
  <2> QED
    BY <2>1 DEF Entries
<1>4. /\ x \in LiveIds(u) /\ Entry(u, x) = Settled(Entry(t, x)) /\ u.lookup[x] = k
      /\ x \in ConnectedIds(u) <=> x \in conn
  BY <1>3, EntryFound DEF SettledAt
<1>5. /\ ConnectedIds(u) \subseteq LiveIds(u) /\ ConnectedIds(t) \subseteq LiveIds(t)
  BY DEF ConnectedIds
<1> QED
  BY <1>1, <1>2, <1>4, <1>5 DEF Settles, SettledAt

\* Dropping a connected session moves it behind the connected ones.
LEMMA DropConnectedView ==
  ASSUME NEW S, Entries(S), NEW t, Good(t, S), NEW i \in Indexes(t), Connected(t, i),
         NEW x, x = t.sessions[i].session_id, NEW u, u = DropConnected(t, i)
  PROVE  Settles(t, u, x, ConnectedIds(t) \ {x})
<1> DEFINE c == t.sessions_connected - 1
<1>1. Good(u, S)
  BY DropConnectedGood
<1>2. /\ u.sessions_len = t.sessions_len /\ u.sessions_connected = c
      /\ u.sessions = IF i = c THEN t.sessions
                      ELSE [t.sessions EXCEPT ![i] = t.sessions[c], ![c] = t.sessions[i]]
  BY DEF DropConnected, SwapSession, Good, Shape, Fields
<1>3. /\ c \in Indexes(t) /\ i \in Nat /\ i <= c
      /\ Indexes(u) = Indexes(t)
  BY <1>2, Places DEF Indexes, Connected
<1>4. /\ u.sessions[c] = t.sessions[i] /\ ~ Connected(u, c)
      /\ i # c => u.sessions[i] = t.sessions[c] /\ Connected(u, i) /\ Connected(t, c)
      /\ \A j \in Indexes(t) : j # i /\ j # c =>
             u.sessions[j] = t.sessions[j] /\ (Connected(u, j) <=> Connected(t, j))
  <2>1. /\ Indexes(t) = 0..t.sessions_len - 1 /\ t.sessions_len \in Nat
        /\ t.sessions \in [Indexes(t) -> S] /\ t.sessions_connected \in Nat
    BY Places
  <2>2. /\ u.sessions[c] = t.sessions[i] /\ (i # c => u.sessions[i] = t.sessions[c])
        /\ \A j \in Indexes(t) : j # i /\ j # c => u.sessions[j] = t.sessions[j]
    BY <1>2, <1>3, <2>1
  <2>3. /\ \A j \in Indexes(t) : j \in Nat
        /\ \A j \in Indexes(t) : Connected(t, j) <=> j <= c
        /\ \A j \in Indexes(t) : Connected(u, j) <=> j < c
    BY <1>2, <1>3, <2>1 DEF Connected
  <2> HIDE DEF c
  <2>4. c \in Nat
    BY <1>3, <2>3
  <2> QED
    BY <1>3, <2>2, <2>3, <2>4
<1>5. \A j \in Indexes(t) : j # i =>
        \E k \in Indexes(u) : u.sessions[k] = t.sessions[j] /\ (Connected(u, k) <=> Connected(t, j))
  BY <1>3, <1>4
<1>6. Kept(t, u, LiveIds(t) \ {x})
  BY <1>5, Places DEF Kept
<1>7. \A j \in Indexes(u) : \E k \in Indexes(t) :
          u.sessions[j].session_id = t.sessions[k].session_id
  BY <1>3, <1>4
<1>8. x \in LiveIds(t) /\ Entry(t, x) = t.sessions[i] /\ t.sessions[i] \in S
  BY EntryFound
<1>9. u.sessions[c] = Settled(Entry(t, x))
  <2>1. ~ Opening(t, i)
    BY DEF Good, Partitioned
  <2> QED
    BY <1>4, <1>8, <2>1 DEF Opening, Entries
<1> DEFINE conn == ConnectedIds(t) \ {x}
<1>10. SettledAt(t, u, x, conn, c)
  BY <1>3, <1>4, <1>6, <1>7, <1>8, <1>9 DEF SettledAt
<1> HIDE DEF c, conn
<1>11. Settles(t, u, x, conn)
  BY <1>1, <1>10, SettlesView
<1> QED
  BY <1>11 DEF conn

\* Dropping a session in its opening handshake settles it where it is.
LEMMA DropOpeningView ==
  ASSUME NEW S, Entries(S), NEW t, Good(t, S), NEW i \in Indexes(t), Opening(t, i),
         NEW x, x = t.sessions[i].session_id, NEW u, u = DropOpening(t, i)
  PROVE  Settles(t, u, x, ConnectedIds(t) \ {x})
<1>1. Good(u, S)
  BY DropOpeningGood
<1>2. /\ u.sessions_len = t.sessions_len /\ u.sessions_connected = t.sessions_connected
      /\ u.sessions = [t.sessions EXCEPT ![i] = Settled(t.sessions[i])]
  BY DEF DropOpening, Good, Shape, Fields, Settled
<1>3. /\ Indexes(u) = Indexes(t) /\ u.sessions[i] = Settled(t.sessions[i])
      /\ \A j \in Indexes(t) : Connected(u, j) <=> Connected(t, j)
      /\ \A j \in Indexes(t) : j # i => u.sessions[j] = t.sessions[j]
  BY <1>2, Places DEF Indexes, Connected
<1>4. ~ Connected(u, i)
  BY <1>3 DEF Good, Partitioned
<1>5. Kept(t, u, LiveIds(t) \ {x})
  BY <1>3, Places DEF Kept
<1>6. Settled(t.sessions[i]).session_id = x
  <2>1. t.sessions[i] \in S
    BY EntryFound
  <2> QED
    BY <2>1 DEF Entries
<1>7. \A j \in Indexes(u) : \E k \in Indexes(t) :
          u.sessions[j].session_id = t.sessions[k].session_id
  BY <1>3, <1>6
<1>8. x \in LiveIds(t) /\ Entry(t, x) = t.sessions[i]
  BY EntryFound
<1> DEFINE conn == ConnectedIds(t) \ {x}
<1>9. SettledAt(t, u, x, conn, i)
  BY <1>3, <1>4, <1>5, <1>7, <1>8 DEF SettledAt
<1> HIDE DEF conn
<1>10. Settles(t, u, x, conn)
  BY <1>1, <1>9, SettlesView
<1> QED
  BY <1>10 DEF conn

\* The last session takes the place of one that is not connected.
Refilled(t, u, i) ==
    /\ u.sessions_len = t.sessions_len - 1 /\ u.sessions_connected = t.sessions_connected
    /\ u.sessions = [j \in 0..t.sessions_len - 2 |->
                        IF j = i THEN t.sessions[t.sessions_len - 1] ELSE t.sessions[j]]

\* So the session that was there is removed.
LEMMA RefilledView ==
  ASSUME NEW S, Entries(S), NEW t, Good(t, S), NEW i \in Indexes(t), ~ Connected(t, i),
         NEW x, x = t.sessions[i].session_id, NEW u, Good(u, S), Refilled(t, u, i)
  PROVE  Removed(t, u, x)
<1> DEFINE last == t.sessions_len - 1
<1>1. /\ last \in Indexes(t) /\ ~ Connected(t, last)
      /\ i # last => i \in Indexes(u) /\ u.sessions[i] = t.sessions[last] /\ ~ Connected(u, i)
      /\ \A j \in Indexes(t) : j # i /\ j # last =>
            /\ j \in Indexes(u) /\ u.sessions[j] = t.sessions[j]
            /\ Connected(u, j) <=> Connected(t, j)
      /\ \A j \in Indexes(u) : j \in Indexes(t) /\ j # last /\ (j # i => u.sessions[j] = t.sessions[j])
  <2>1. /\ Indexes(t) = 0..last /\ i \in 0..last /\ last \in Nat /\ t.sessions_len \in Nat
        /\ t.sessions_connected \in Nat /\ t.sessions_connected <= i
    BY Places DEF Indexes, Connected
  <2>2. /\ Indexes(u) = 0..last - 1 /\ u.sessions_connected = t.sessions_connected
        /\ \A j \in Indexes(u) :
              u.sessions[j] = IF j = i THEN t.sessions[last] ELSE t.sessions[j]
    BY <2>1 DEF Refilled, Indexes
  <2> HIDE DEF last
  <2>3. /\ \A j \in 0..last : j # last => j \in 0..last - 1
        /\ \A j \in 0..last - 1 : j \in 0..last /\ j # last
        /\ last \in 0..last /\ t.sessions_connected <= last
    BY <2>1
  <2>5. ~ Connected(t, last)
    BY <2>1, <2>3 DEF Connected
  <2>6. \A j : Connected(u, j) <=> Connected(t, j)
    BY <2>2 DEF Connected
  <2> QED
    BY <2>1, <2>2, <2>3, <2>5, <2>6
<1>2. \A j \in Indexes(t) : j # i =>
        \E k \in Indexes(u) : u.sessions[k] = t.sessions[j] /\ (Connected(u, k) <=> Connected(t, j))
  BY <1>1
<1>3. Kept(t, u, LiveIds(t) \ {x})
  BY <1>2, Places DEF Kept
<1>4. \A j \in Indexes(u) : \E k \in Indexes(t) :
         t.sessions[k].session_id # x /\ u.sessions[j].session_id = t.sessions[k].session_id
  <2>1. \A k \in Indexes(t) : k # i => t.sessions[k].session_id # x
    BY Places
  <2> QED
    BY <1>1, <2>1
<1> QED
  BY <1>3, <1>4, RemovedView

\* The end of a closing handshake removes the session.
LEMMA TerminateView ==
  ASSUME NEW S, Entries(S), NEW t, Good(t, S), NEW i \in Indexes(t),
         ~ Connected(t, i), ~ Opening(t, i),
         NEW x, x = t.sessions[i].session_id, NEW u, u = TerminateSession(t, i)
  PROVE  Removed(t, u, x)
<1>1. Good(u, S)
  BY TerminateGood
<1>2. Refilled(t, u, i)
  BY DEF TerminateSession, ReleaseSlot, Good, Shape, Fields, Refilled
<1> QED
  BY <1>1, <1>2, RefilledView

\* A session in a handshake that is closed by its client is removed.
LEMMA CloseUnconnectedView ==
  ASSUME NEW S, Entries(S), NEW t, Good(t, S), NEW i \in Indexes(t), ~ Connected(t, i),
         NEW x, x = t.sessions[i].session_id, NEW u, u = CloseUnconnected(t, i)
  PROVE  Removed(t, u, x)
<1>1. Good(u, S)
  BY CloseUnconnectedGood
<1>2. Refilled(t, u, i)
  BY DEF CloseUnconnected, TerminateSession, ReleaseSlot, Good, Shape, Fields, Refilled
<1> QED
  BY <1>1, <1>2, RefilledView

\* So is a connected session: two others move into its place and theirs.
LEMMA CloseConnectedView ==
  ASSUME NEW S, Entries(S), NEW t, Good(t, S), NEW i \in Indexes(t), Connected(t, i),
         NEW x, x = t.sessions[i].session_id, NEW u, u = CloseConnected(t, i)
  PROVE  Removed(t, u, x)
<1> DEFINE c == t.sessions_connected - 1
           v == IF i = c THEN t.sessions ELSE [t.sessions EXCEPT ![i] = t.sessions[c]]
           last == t.sessions_len - 1
<1>1. Good(u, S)
  BY CloseConnectedGood
<1>2. /\ u.sessions_len = last /\ u.sessions_connected = c
      /\ u.sessions = [j \in 0..last - 1 |-> IF j = c THEN v[last] ELSE v[j]]
  BY DEF CloseConnected, ReleaseSlot, Good, Shape, Fields
<1>3. /\ c \in Indexes(t) /\ i \in Nat /\ i <= c /\ last \in Indexes(t) /\ c <= last
      /\ \A j \in Indexes(t) : j # last => j \in Indexes(u)
      /\ \A j \in Indexes(u) : j \in Indexes(t) /\ j # last
      /\ \A j \in Indexes(t) : j \in Int
  BY <1>2, Places DEF Indexes, Connected
<1>4. \A j \in Indexes(t) : v[j] = IF j = i THEN t.sessions[c] ELSE t.sessions[j]
  BY <1>3, Places
<1>5. \A j \in Indexes(u) : u.sessions[j] = IF j = c THEN v[last] ELSE v[j]
  BY <1>2 DEF Indexes
<1>6. \A j \in Indexes(u) : /\ Connected(u, j) <=> j < c
  BY <1>2 DEF Connected
<1>7. \A j \in Indexes(t) : Connected(t, j) <=> j <= c
  BY <1>3, Places DEF Connected
<1> HIDE DEF c, v, last
<1>8. \A j \in Indexes(t) : j # i =>
        \E k \in Indexes(u) : u.sessions[k] = t.sessions[j] /\ (Connected(u, k) <=> Connected(t, j))
  <2> SUFFICES ASSUME NEW j \in Indexes(t), j # i
               PROVE  \E k \in Indexes(u) :
                         u.sessions[k] = t.sessions[j] /\ (Connected(u, k) <=> Connected(t, j))
    OBVIOUS
  <2>1. CASE j = c
    <3>1. i \in Indexes(u) /\ i # c /\ i < c
      BY <1>3, <2>1
    <3>2. u.sessions[i] = t.sessions[c]
      BY <1>4, <1>5, <3>1
    <3> QED
      BY <1>3, <1>6, <1>7, <2>1, <3>1, <3>2
  <2>2. CASE j # c /\ j = last
    <3>1. c \in Indexes(u) /\ last # i
      BY <1>3, <2>2
    <3>2. u.sessions[c] = t.sessions[last]
      BY <1>3, <1>4, <1>5, <3>1
    <3> QED
      BY <1>3, <1>6, <1>7, <2>2, <3>1, <3>2
  <2>3. CASE j # c /\ j # last
    <3>1. j \in Indexes(u) /\ u.sessions[j] = t.sessions[j]
      BY <1>3, <1>4, <1>5, <2>3
    <3> QED
      BY <1>3, <1>6, <1>7, <2>3, <3>1
  <2> QED
    BY <2>1, <2>2, <2>3
<1>9. Kept(t, u, LiveIds(t) \ {x})
  BY <1>8, Places DEF Kept
<1>10. \A j \in Indexes(u) : \E k \in Indexes(t) :
         t.sessions[k].session_id # x /\ u.sessions[j].session_id = t.sessions[k].session_id
  <2>1. \A k \in Indexes(t) : k # i => t.sessions[k].session_id # x
    BY Places
  <2>2. \A j \in Indexes(u) : \E k \in Indexes(t) : k # i /\ u.sessions[j] = t.sessions[k]
    BY <1>3, <1>4, <1>5
  <2> QED
    BY <2>1, <2>2
<1> QED
  BY <1>1, <1>9, <1>10, RemovedView

\* Evicting settles all sessions and leaves none connected.
LEMMA EvictView ==
  ASSUME NEW S, Entries(S), NEW t, Good(t, S), NEW u, u = EvictSessions(t)
  PROVE  /\ LiveIds(u) = LiveIds(t) /\ ConnectedIds(u) = {}
         /\ \A id \in LiveIds(t) : Entry(u, id) = Settled(Entry(t, id))
<1>1. Good(u, S)
  BY EvictGood
<1>2. /\ u.sessions_len = t.sessions_len /\ u.sessions_connected = 0
      /\ u.sessions = [i \in Indexes(t) |-> Settled(t.sessions[i])]
  BY DEF EvictSessions, Settled, Good, Shape, Fields
<1>3. Indexes(u) = Indexes(t) /\ \A i \in Indexes(u) : ~ Connected(u, i)
  BY <1>2, Places DEF Indexes, Connected
<1>4. \A i \in Indexes(t) : /\ u.sessions[i] = Settled(t.sessions[i])
                            /\ u.sessions[i].session_id = t.sessions[i].session_id
  <2>1. \A i \in Indexes(t) : t.sessions[i] \in S
    BY GoodFacts
  <2> QED
    BY <1>2, <2>1 DEF Entries
<1>5. \A id \in LiveIds(t) : /\ id \in LiveIds(u) /\ Entry(u, id) = Settled(Entry(t, id))
                             /\ id \notin ConnectedIds(u)
  <2> SUFFICES ASSUME NEW id \in LiveIds(t)
               PROVE  /\ id \in LiveIds(u) /\ Entry(u, id) = Settled(Entry(t, id))
                      /\ id \notin ConnectedIds(u)
    OBVIOUS
  <2>1. PICK i \in Indexes(t) : t.sessions[i].session_id = id /\ t.sessions[i] = Entry(t, id)
    BY Places
  <2>2. i \in Indexes(u) /\ u.sessions[i].session_id = id /\ ~ Connected(u, i)
    BY <1>3, <1>4, <2>1
  <2> QED
    BY <1>1, <1>4, <2>1, <2>2, EntryFound
<1>6. \A id \in LiveIds(u) : id \in LiveIds(t)
  <2> SUFFICES ASSUME NEW id \in LiveIds(u) PROVE id \in LiveIds(t)
    OBVIOUS
  <2>1. PICK j \in Indexes(u) : u.sessions[j].session_id = id
    BY <1>1, Places
  <2> QED
    BY <1>3, <1>4, <2>1, EntryFound
<1>7. ConnectedIds(u) \subseteq LiveIds(u)
  BY DEF ConnectedIds
<1> QED
  BY <1>5, <1>6, <1>7

\* The session that completed its handshake is the last of the connected ones.
LEMMA ConnectView ==
  ASSUME NEW S, Entries(S), NEW t, Good(t, S),
         NEW request \in RequestIds, t.lookup[request] # NoSession,
         NEW x, x = t.sessions[t.lookup[request]].session_id,
         NEW u, u = ConnectSession(t, request)
  PROVE  /\ x \in LiveIds(t) \ ConnectedIds(t)
         /\ Entry(t, x) = t.sessions[t.lookup[request]] /\ Entry(t, x).send_id = request
         /\ Settles(t, u, x, ConnectedIds(t) \cup {x})
         /\ u.lookup[x] = t.sessions_connected
<1> DEFINE i == t.lookup[request]
           c == t.sessions_connected
<1>1. Good(u, S)
  BY ConnectGood
<1>2. i \in Indexes(t) /\ ~ Connected(t, i) /\ t.sessions[i].send_id = request
  BY DEF Good, RequestIdsLead
<1>3. /\ u.sessions_len = t.sessions_len /\ u.sessions_connected = c + 1
      /\ i = c => u.sessions = [t.sessions EXCEPT ![c] = Settled(t.sessions[c])]
      /\ i # c => u.sessions = [[t.sessions EXCEPT ![i] = t.sessions[c], ![c] = t.sessions[i]]
                                   EXCEPT ![c] = Settled(t.sessions[i])]
  <2>1. c \in Indexes(t)
    BY <1>2, Places DEF Indexes, Connected
  <2>2. CASE i = c
    BY <2>2 DEF ConnectSession, PromoteSession, Good, Shape, Fields, Settled
  <2>3. CASE i # c
    <3> DEFINE f == [t.sessions EXCEPT ![i] = t.sessions[c], ![c] = t.sessions[i]]
    <3>1. /\ u.sessions_len = t.sessions_len /\ u.sessions_connected = c + 1
          /\ u.sessions = [f EXCEPT ![c].send_id = f[c].session_id]
      BY <2>3 DEF ConnectSession, PromoteSession, SwapSession, Good, Shape, Fields
    <3>2. c \in DOMAIN f /\ f[c] = t.sessions[i]
      BY <1>2, <2>1, Places
    <3> HIDE DEF f
    <3>3. [f EXCEPT ![c].send_id = f[c].session_id] = [f EXCEPT ![c] = Settled(f[c])]
      BY <3>2 DEF Settled
    <3> QED
      BY <2>3, <3>1, <3>2, <3>3 DEF f
  <2> QED
    BY <2>2, <2>3
<1>4. /\ c \in Indexes(t) /\ i \in Nat /\ c <= i /\ Indexes(u) = Indexes(t)
      /\ \A j \in Indexes(t) : j \in Int
      /\ \A j \in Indexes(t) : (Connected(u, j) <=> j <= c) /\ (Connected(t, j) <=> j < c)
  BY <1>2, <1>3, Places DEF Indexes, Connected
<1>5. /\ u.sessions[c] = Settled(t.sessions[i])
      /\ i # c => u.sessions[i] = t.sessions[c]
      /\ \A j \in Indexes(t) : j # i /\ j # c => u.sessions[j] = t.sessions[j]
  BY <1>2, <1>3, <1>4, Places
<1>6. \A j \in Indexes(t) : j # i =>
        \E k \in Indexes(u) : u.sessions[k] = t.sessions[j] /\ (Connected(u, k) <=> Connected(t, j))
  BY <1>2, <1>4, <1>5
<1>7. Kept(t, u, LiveIds(t) \ {x})
  BY <1>6, Places DEF Kept
<1>8. /\ x \in LiveIds(t) /\ Entry(t, x) = t.sessions[i] /\ t.sessions[i] \in S
      /\ x \notin ConnectedIds(t)
  BY <1>2, EntryFound
<1>9. Settled(t.sessions[i]).session_id = x
  BY <1>8 DEF Entries
<1>10. \A j \in Indexes(u) : \E k \in Indexes(t) :
          u.sessions[j].session_id = t.sessions[k].session_id
  BY <1>2, <1>4, <1>5, <1>9
<1> DEFINE conn == ConnectedIds(t) \cup {x}
<1>11. SettledAt(t, u, x, conn, c)
  BY <1>4, <1>5, <1>7, <1>8, <1>10 DEF SettledAt
<1> HIDE DEF conn
<1>12. Settles(t, u, x, conn) /\ u.lookup[x] = c
  BY <1>1, <1>11, SettlesView
<1> QED
  BY <1>2, <1>8, <1>12 DEF conn

===============================================================================
