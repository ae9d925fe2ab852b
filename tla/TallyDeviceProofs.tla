--------------------------- MODULE TallyDeviceProofs ---------------------------
(***************************************************************************)
(* What a tally device shows, for any number of sessions, ids, packets and *)
(* datagrams on their way.                                                 *)
(***************************************************************************)
EXTENDS TallyDevice, WellFoundedInduction, TLAPS, SequenceTheorems

-------------------------------------------------------------------------------
(***************************************************************************)
(* Induction over the natural numbers, and remainders.                     *)
(***************************************************************************)

\* A set of numbers that has zero, and with each number the next, has all of them:
\* otherwise there is a smallest number that it lacks.
LEMMA NatInductionSet ==
  ASSUME NEW S, 0 \in S, \A n \in Nat : n \in S => n + 1 \in S
  PROVE  Nat \subseteq S
<1> DEFINE T == Nat \ S
<1>1. SUFFICES ASSUME T # {} PROVE FALSE
  OBVIOUS
<1>2. T \subseteq Nat
  OBVIOUS
<1>3. PICK x \in T : \A y \in T : ~ (<<y, x>> \in OpToRel(<, Nat))
  <2> HIDE DEF T
  <2> QED
    BY <1>1, <1>2, NatLessThanWellFounded, WFMin
<1>4. x \in Nat /\ x \notin S
  OBVIOUS
<1>5. x - 1 \in Nat
  BY <1>4
<1>6. x - 1 \in S
  <2>1. <<x - 1, x>> \in OpToRel(<, Nat)
    BY <1>4, <1>5 DEF OpToRel
  <2> QED
    BY <1>3, <1>5, <2>1
<1>7. x - 1 + 1 = x
  BY <1>4
<1> QED
  BY <1>4, <1>5, <1>6, <1>7

\* A set of numbers from 1 to n has a greatest one.
LEMMA GreatestIn ==
    ASSUME NEW n \in Nat, NEW S \in SUBSET (1..n), S # {}
    PROVE  \E m \in S : \A j \in S : j <= m
<1> DEFINE T == {k \in Nat : \A R \in SUBSET (1..k) : R # {} => \E m \in R : \A j \in R : j <= m}
<1>1. 0 \in T
  <2>1. 1..0 = {}
    OBVIOUS
  <2> QED
    BY <2>1
<1>2. ASSUME NEW k \in Nat, k \in T PROVE k + 1 \in T
  <2> SUFFICES ASSUME NEW R \in SUBSET (1..k + 1), R # {}
               PROVE  \E m \in R : \A j \in R : j <= m
    OBVIOUS
  <2>1. CASE k + 1 \in R
    BY <2>1
  <2>2. CASE k + 1 \notin R
    <3>1. R \in SUBSET (1..k)
      BY <2>2
    <3> QED
      BY <1>2, <3>1
  <2> QED
    BY <2>1, <2>2
<1>3. Nat \subseteq T
  <2> HIDE DEF T
  <2> QED
    BY <1>1, <1>2, NatInductionSet
<1> QED
  BY <1>3

\* Quotient and remainder.
LEMMA DivModFacts ==
    ASSUME NEW n \in Int, NEW b \in Nat \ {0}
    PROVE  /\ n \div b \in Int /\ n % b \in Int
           /\ 0 <= n % b /\ n % b < b /\ n = b * (n \div b) + (n % b)
<1>1. n \div b \in Int
  OBVIOUS
<1>2. n % b \in Int
  OBVIOUS
<1>3. 0 <= n % b /\ n % b < b
  OBVIOUS
<1>4. n = b * (n \div b) + (n % b)
  OBVIOUS
<1> QED
  BY <1>1, <1>2, <1>3, <1>4

\* There is only one quotient.
LEMMA DivModUnique ==
    ASSUME NEW b \in Nat \ {0}, NEW q \in Int, NEW r \in Int, 0 <= r, r < b,
           NEW n \in Int, n = b * q + r
    PROVE  n \div b = q /\ n % b = r
<1> DEFINE d == n \div b
           m == n % b
<1>1. d \in Int /\ m \in Int /\ 0 <= m /\ m < b /\ n = b * d + m
  BY DivModFacts
<1> HIDE DEF d, m
<1>2. b * (d - q) = r - m
  BY <1>1
<1>3. d - q = 0
  <2>1. CASE d - q >= 1
    <3>1. b * (d - q) >= b
      BY <1>1, <2>1
    <3> QED
      BY <1>1, <1>2, <3>1
  <2>2. CASE d - q <= -1
    <3>1. b * (d - q) <= -b
      BY <1>1, <2>2
    <3> QED
      BY <1>1, <1>2, <3>1
  <2> QED
    BY <1>1, <2>1, <2>2
<1>4. d = q
  BY <1>1, <1>3
<1>5. m = r
  BY <1>1, <1>4
<1> QED
  BY <1>4, <1>5 DEF d, m

\* Numbers that are less than b apart have different remainders.
LEMMA ModEqual ==
    ASSUME NEW b \in Nat \ {0}, NEW m \in Int, NEW n \in Int,
           m % b = n % b, m - n < b, n - m < b
    PROVE  m = n
<1>1. m = b * (m \div b) + (m % b) /\ m \div b \in Int
  BY DivModFacts
<1>2. n = b * (n \div b) + (n % b) /\ n \div b \in Int /\ n % b \in Int
  BY DivModFacts
<1> DEFINE d == (m \div b) - (n \div b)
<1>3. d \in Int /\ m - n = b * d
  BY <1>1, <1>2
<1> HIDE DEF d
<1>4. d = 0
  <2>1. CASE d >= 1
    <3>1. b * d >= b
      BY <1>3, <2>1
    <3> QED
      BY <1>3, <3>1
  <2>2. CASE d <= -1
    <3>1. b * d <= -b
      BY <1>3, <2>2
    <3> QED
      BY <1>3, <3>1
  <2> QED
    BY <1>3, <2>1, <2>2
<1> QED
  BY <1>3, <1>4

\* Adding to a remainder.
LEMMA ModPlus ==
    ASSUME NEW b \in Nat \ {0}, NEW n \in Int, NEW k \in Int
    PROVE  ((n % b) + k) % b = (n + k) % b
<1> DEFINE q == n \div b
           r == n % b
           d == (r + k) \div b
           m == (r + k) % b
<1>1. q \in Int /\ r \in Int /\ n = b * q + r
  BY DivModFacts
<1> HIDE DEF q, r
<1>2. d \in Int /\ m \in Int /\ 0 <= m /\ m < b /\ r + k = b * d + m
  BY <1>1, DivModFacts
<1> HIDE DEF d, m
<1>3. n + k = b * (q + d) + m
  BY <1>1, <1>2
<1>4. n + k \in Int /\ q + d \in Int
  BY <1>1, <1>2
<1>5. (n + k) % b = m
  BY <1>2, <1>3, <1>4, DivModUnique
<1> QED
  BY <1>5 DEF m, r

\* A number that is its own remainder.
LEMMA ModSmall ==
    ASSUME NEW b \in Nat \ {0}, NEW n \in Nat, n < b
    PROVE  n % b = n
<1>1. n = b * 0 + n
  OBVIOUS
<1> QED
  BY <1>1, DivModUnique

-------------------------------------------------------------------------------
(***************************************************************************)
(* Channels.                                                               *)
(***************************************************************************)

\* Places in a channel, and in one that is a datagram shorter, or longer.
LEMMA PlacesUpTo ==
    ASSUME NEW len \in Nat, NEW j \in 1..len - 1
    PROVE  /\ j \in 1..len /\ j + 1 \in 1..len /\ j \in Nat
           /\ \A i \in 1..j : i \in 1..len - 1 /\ i \in Nat /\ i \in 1..j + 1 /\ i + 1 \in 1..j + 1
OBVIOUS

LEMMA PlacesOfLonger ==
    ASSUME NEW len \in Nat, NEW j \in 1..len + 1, j # len + 1
    PROVE  j \in 1..len
OBVIOUS

\* A channel that is one datagram shorter.
LEMMA Removed ==
    ASSUME NEW S, NEW channel \in Seq(S), NEW k \in DOMAIN channel
    PROVE  /\ RemoveAt(channel, k) \in Seq(S)
           /\ Len(RemoveAt(channel, k)) = Len(channel) - 1
           /\ \A j \in 1..Len(channel) - 1 :
                 RemoveAt(channel, k)[j] = IF j < k THEN channel[j] ELSE channel[j + 1]
<1> DEFINE a == SubSeq(channel, 1, k - 1)
           b == SubSeq(channel, k + 1, Len(channel))
<1>1. Len(channel) \in Nat /\ k \in 1..Len(channel)
  OBVIOUS
<1>2. a \in Seq(S) /\ Len(a) = k - 1 /\ \A j \in 1..k - 1 : a[j] = channel[j]
  BY <1>1
<1>3. /\ b \in Seq(S) /\ Len(b) = Len(channel) - k
      /\ \A j \in 1..Len(channel) - k : b[j] = channel[j + k]
  BY <1>1
<1>4. RemoveAt(channel, k) = a \o b
  BY DEF RemoveAt
<1> HIDE DEF a, b
<1>5. a \o b \in Seq(S) /\ Len(a \o b) = Len(channel) - 1
  BY <1>1, <1>2, <1>3
<1>6. ASSUME NEW j \in 1..Len(channel) - 1
      PROVE  (a \o b)[j] = IF j < k THEN channel[j] ELSE channel[j + 1]
  <2>1. CASE j < k
    BY <1>1, <1>2, <1>3, <2>1
  <2>2. CASE j >= k
    <3>1. (a \o b)[j] = b[j - (k - 1)]
      <4>1. Len(a) \in Nat /\ Len(b) \in Nat /\ j \in 1..Len(a) + Len(b) /\ j > Len(a)
        BY <1>1, <1>2, <1>3, <2>2
      <4>2. (a \o b)[j] = b[j - Len(a)]
        <5>1. \A i \in 1..Len(a) + Len(b) :
                 (a \o b)[i] = IF i <= Len(a) THEN a[i] ELSE b[i - Len(a)]
          BY <1>2, <1>3, ConcatProperties
        <5>2. ~ (j <= Len(a))
          BY <4>1
        <5> QED
          BY <4>1, <5>1, <5>2
      <4> QED
        BY <1>2, <4>2
    <3>2. j - (k - 1) \in 1..Len(channel) - k /\ (j - (k - 1)) + k = j + 1
      BY <1>1, <2>2
    <3> QED
      BY <1>3, <2>2, <3>1, <3>2
  <2>3. j < k \/ j >= k
    BY <1>1
  <2> HIDE DEF a, b
  <2> QED
    BY <2>1, <2>2, <2>3
<1> QED
  BY <1>4, <1>5, <1>6, Zenon

\* What is on its way after a datagram was taken, or sent.
LEMMA RangeRemoved ==
    ASSUME NEW S, NEW channel \in Seq(S), NEW k \in DOMAIN channel
    PROVE  /\ Range(RemoveAt(channel, k)) \subseteq Range(channel)
           /\ Len(channel) = 1 => RemoveAt(channel, k) = <<>>
<1> DEFINE r == RemoveAt(channel, k)
<1>1. /\ r \in Seq(S) /\ Len(r) = Len(channel) - 1
      /\ \A j \in 1..Len(channel) - 1 : r[j] = IF j < k THEN channel[j] ELSE channel[j + 1]
  BY Removed
<1> HIDE DEF r
<1>2. Range(r) \subseteq Range(channel)
  <2>1. Len(channel) \in Nat /\ DOMAIN channel = 1..Len(channel) /\ DOMAIN r = 1..Len(channel) - 1
    BY <1>1
  <2> SUFFICES ASSUME NEW j \in 1..Len(channel) - 1 PROVE r[j] \in Range(channel)
    BY <2>1 DEF Range
  <2>2. j \in DOMAIN channel /\ j + 1 \in DOMAIN channel
    BY <2>1, PlacesUpTo
  <2> QED
    BY <1>1, <2>2 DEF Range
<1>3. Len(channel) = 1 => r = <<>>
  BY <1>1
<1> QED
  BY <1>2, <1>3 DEF r

LEMMA RangeAppended ==
    ASSUME NEW S, NEW channel \in Seq(S), NEW m \in S
    PROVE  /\ Append(channel, m) \in Seq(S)
           /\ Range(Append(channel, m)) = Range(channel) \cup {m}
<1>1. /\ Append(channel, m) \in Seq(S) /\ Len(Append(channel, m)) = Len(channel) + 1
      /\ Append(channel, m)[Len(channel) + 1] = m
      /\ \A j \in 1..Len(channel) : Append(channel, m)[j] = channel[j]
  OBVIOUS
<1>2. DOMAIN Append(channel, m) = 1..Len(channel) + 1 /\ DOMAIN channel = 1..Len(channel)
  BY <1>1
<1>3. Len(channel) \in Nat
  OBVIOUS
<1>4. Range(Append(channel, m)) \subseteq Range(channel) \cup {m}
  BY <1>1, <1>2, <1>3 DEF Range
<1>5. ASSUME NEW j \in 1..Len(channel) PROVE channel[j] \in Range(Append(channel, m))
  <2>1. j \in 1..Len(channel) + 1
    BY <1>3
  <2> QED
    BY <1>1, <1>2, <2>1 DEF Range
<1>6. m \in Range(Append(channel, m))
  <2>1. Len(channel) + 1 \in 1..Len(channel) + 1
    BY <1>3
  <2> QED
    BY <1>1, <1>2, <2>1 DEF Range
<1> QED
  BY <1>1, <1>2, <1>4, <1>5, <1>6 DEF Range

LEMMA RangeFew ==
    /\ Range(<<>>) = {}
    /\ \A m : Range(<<m>>) = {m}
BY DEF Range

LEMMA InRange ==
    ASSUME NEW S, NEW channel \in Seq(S)
    PROVE  /\ Range(channel) \subseteq S
           /\ \A k \in DOMAIN channel : channel[k] \in Range(channel)
           /\ channel # <<>> <=> Range(channel) # {}
BY DEF Range

-------------------------------------------------------------------------------
(***************************************************************************)
(* Types.                                                                  *)
(***************************************************************************)

\* Ids are not beyond the number of ids.
LEMMA IdFacts ==
    /\ 0 \in RemoteIds /\ 1 \in RemoteIds
    /\ \A n \in Int : n % RemoteIdCount \in RemoteIds
<1>1. RemoteIdCount \in Nat \ {0} /\ RemoteIdCount > 1
  BY ClientAssumption, DeviceAssumption
<1>2. ASSUME NEW n \in Int PROVE n % RemoteIdCount \in RemoteIds
  BY <1>1, DivModFacts DEF RemoteIds
<1> QED
  BY <1>1, <1>2 DEF RemoteIds

Statuses == {"closed", "write", "write_only", "accepted", "closing", "rejected", "none", "error"}

\* What atem_parse() leaves of the client, and what it replies.
LEMMA ParseType ==
    ASSUME NEW c \in Clients, NEW m \in Datagrams
    PROVE  /\ Parse(c, m).client \in Clients
           /\ Parse(c, m).status \in Statuses
           /\ Parse(c, m).status \in Answered => Parse(c, m).reply \in Replies
<1>1. Expected(c) \in RemoteIds
  BY IdFacts DEF Expected, Clients, RemoteIds
<1>2. m.id \in RemoteIds /\ m.session \in SwitcherSessions \cup {ClientSession}
  BY DEF Datagrams
<1>3. CASE c.write_buf = "close"
  BY <1>2, <1>3, IdFacts DEF Parse, ParseClosing, Unanswered, Parsed, Reply, Replies, Answered, Statuses
<1>4. CASE c.write_buf # "close" /\ m.kind = "data"
  <2>1. Parse(c, m) = ParseData(c, m)
    BY <1>4 DEF Parse
  <2>2. /\ [c EXCEPT !.write_buf = "ack", !.remote_id_last = m.id] \in Clients
        /\ [c EXCEPT !.write_buf = "retxreq"] \in Clients
        /\ [c EXCEPT !.write_buf = "ack"] \in Clients
        /\ c.remote_id_last \in RemoteIds
    BY <1>2 DEF Clients
  <2> QED
    BY <1>1, <1>2, <2>1, <2>2 DEF ParseData, Parsed, Reply, Replies, Statuses
<1>5. CASE c.write_buf # "close" /\ m.kind = "accept"
  <2>1. [write_buf |-> "ack", write_len |-> LenHeader, remote_id_last |-> 0] \in Clients
    BY IdFacts DEF Clients
  <2> QED
    BY <1>2, <1>5, <2>1, IdFacts DEF Parse, ParseAccept, Parsed, Reply, Replies, Statuses
<1>6. CASE c.write_buf # "close" /\ m.kind \in {"closing", "reject", "ack"}
  <2>1. /\ [c EXCEPT !.write_buf = "close", !.write_len = LenSyn] \in Clients
        /\ [c EXCEPT !.write_buf = "none"] \in Clients
    BY DEF Clients
  <2> QED
    BY <1>2, <1>6, <2>1, IdFacts
       DEF Parse, Parsed, Unanswered, Reply, Replies, Statuses, Answered
<1>7. CASE c.write_buf # "close" /\ m.kind \notin {"data", "accept", "closing", "reject", "ack"}
  BY <1>7 DEF Parse, Parsed, Unanswered, Statuses, Answered
<1> QED
  BY <1>3, <1>4, <1>5, <1>6, <1>7

DeviceType ==
    [atem_state : {"unconnected", "connected", "dropped", "rejected", "disconnected"},
     conn : BOOLEAN, tally : Tallies, softap : BOOLEAN, polled : BOOLEAN]

SessionType ==
    [phase : {"none", "opening", "connected", "closing"}, base : RemoteIds,
     tally : Tallies, chain : Seq(Datagrams)]

\* What atem_process() leaves of the device.
LEMMA ProcessType ==
    ASSUME NEW d \in DeviceType, NEW m \in Datagrams, NEW status
    PROVE  /\ Process(d, status, m) \in DeviceType
           /\ ConnectionLost(d) \in DeviceType
           /\ Process(d, status, m).polled = d.polled
<1>1. m.version \in BOOLEAN /\ m.tally \in Tallies \cup {"none"}
  BY DEF Datagrams
<1>2. ProcessCommands(d, m) \in DeviceType /\ ProcessCommands(d, m).polled = d.polled
  BY <1>1 DEF ProcessCommands, DeviceType
<1>3. /\ [d EXCEPT !.atem_state = "rejected"] \in DeviceType
      /\ TallyReset([d EXCEPT !.atem_state = "disconnected"]) \in DeviceType
      /\ TallyReset([d EXCEPT !.atem_state = "dropped"]) \in DeviceType
      /\ [d EXCEPT !.atem_state = "rejected"].polled = d.polled
      /\ TallyReset([d EXCEPT !.atem_state = "disconnected"]).polled = d.polled
  BY DEF DeviceType, TallyReset, Tallies
<1> QED
  BY <1>2, <1>3 DEF Process, ConnectionLost

\* The datagrams of the switcher.
LEMMA DatagramType ==
    /\ \A kind \in {"accept", "reject", "closing", "closed"},
          s \in SwitcherSessions \cup {ClientSession} : Datagram(kind, s) \in Datagrams
    /\ \A s \in SwitcherSessions, id \in RemoteIds, version \in BOOLEAN,
          tally \in Tallies \cup {"none"} : Data(s, id, version, tally) \in Datagrams
    /\ Open \in Replies
BY IdFacts DEF Datagram, Data, Datagrams, Open, Replies

\* What the switcher waits for is what its chain is made of.
LEMMA SessionTypes ==
    ASSUME NEW session \in SessionType
    PROVE  /\ LatestId(session) \in RemoteIds
           /\ \A k \in DOMAIN session.chain : Acknowledged(session, k) \in SessionType
           /\ \A m \in Datagrams : [session EXCEPT !.chain = Append(@, m)] \in SessionType
<1>1. session.chain \in Seq(Datagrams) /\ session.base \in RemoteIds /\ session.tally \in Tallies
  BY DEF SessionType
<1>2. LatestId(session) \in RemoteIds
  <2>1. session.chain # <<>> => Last(session.chain) \in Datagrams
    BY <1>1 DEF Last
  <2> QED
    BY <1>1, <2>1 DEF LatestId, Datagrams
<1>3. ASSUME NEW k \in DOMAIN session.chain PROVE Acknowledged(session, k) \in SessionType
  <2>1. session.chain[k] \in Datagrams
    BY <1>1
  <2>4. session.chain[k].id \in RemoteIds
    BY <2>1 DEF Datagrams
  <2>2. TallyAfter(session, k) \in Tallies
    <3>1. k \in 1..Len(session.chain) /\ Len(session.chain) \in Nat
      BY <1>1
    <3> DEFINE reports == {j \in 1..k : session.chain[j].tally # "none"}
    <3>2. CASE reports = {}
      BY <1>1, <3>2 DEF TallyAfter
    <3>3. CASE reports # {}
      <4>1. \E m \in reports : \A j \in reports : j <= m
        <5>1. reports \in SUBSET (1..k) /\ k \in Nat
          BY <3>1
        <5> HIDE DEF reports
        <5> QED
          BY <3>3, <5>1, GreatestIn
      <4>2. Max(reports) \in reports
        BY <4>1, <3>1 DEF Max
      <4>3. session.chain[Max(reports)] \in Datagrams
        <5>1. Max(reports) \in 1..Len(session.chain)
          BY <3>1, <4>2
        <5> HIDE DEF reports
        <5> QED
          BY <1>1, <5>1
      <4>4. session.chain[Max(reports)].tally \in Tallies
        BY <4>2, <4>3 DEF Datagrams
      <4> QED
        BY <3>3, <4>4 DEF TallyAfter
    <3> QED
      BY <3>2, <3>3
  <2>3. SubSeq(session.chain, k + 1, Len(session.chain)) \in Seq(Datagrams)
    BY <1>1
  <2> QED
    BY <2>2, <2>3, <2>4 DEF Acknowledged, SessionType
<1>4. ASSUME NEW m \in Datagrams
      PROVE  [session EXCEPT !.chain = Append(@, m)] \in SessionType
  <2>1. Append(session.chain, m) \in Seq(Datagrams)
    BY <1>1
  <2> QED
    BY <2>1 DEF SessionType
<1> QED
  BY <1>2, <1>3, <1>4

LEMMA NewSessionTypes ==
    /\ NoSession \in SessionType
    /\ [NoSession EXCEPT !.phase = "closing"] \in SessionType
    /\ \A s \in SwitcherSessions, tally \in Tallies : Connected(s, tally) \in SessionType
<1>1. <<>> \in Seq(Datagrams)
  OBVIOUS
<1>2. NoSession \in SessionType
  BY <1>1, IdFacts DEF NoSession, SessionType, Tallies
<1>3. [NoSession EXCEPT !.phase = "closing"] \in SessionType
  BY <1>2 DEF SessionType
<1>4. ASSUME NEW s \in SwitcherSessions, NEW tally \in Tallies
      PROVE  Connected(s, tally) \in SessionType
  <2>1. Data(s, 1, TRUE, tally) \in Datagrams
    BY DatagramType, IdFacts
  <2>2. \A m \in Datagrams : <<m>> \in Seq(Datagrams)
    OBVIOUS
  <2> QED
    BY <2>1, <2>2, IdFacts DEF Connected, SessionType, Tallies
<1> QED
  BY <1>2, <1>3, <1>4

\* The type of everything, by its parts.
LEMMA Types ==
    TypeOK <=> /\ client \in Clients /\ device \in DeviceType
               /\ switcher \in [SwitcherSessions -> SessionType]
               /\ to_client \in Seq(Datagrams) /\ to_server \in Seq(Replies)
BY DEF TypeOK, DeviceType, SessionType

\* A datagram of the device is taken, sessions change, and datagrams are sent.
LEMMA AnswerType ==
    ASSUME TypeOK, NEW k \in DOMAIN to_server,
           NEW sessions \in [SwitcherSessions -> SessionType], NEW datagrams \in Seq(Datagrams),
           Answer(k, sessions, datagrams)
    PROVE  TypeOK'
<1>1. RemoveAt(to_server, k) \in Seq(Replies)
  BY Types, Removed
<1>2. to_client \o datagrams \in Seq(Datagrams)
  BY Types
<1> QED
  BY <1>1, <1>2, Types DEF Answer, TypeOK, SessionType

LEMMA InitType == Init => TypeOK
<1> SUFFICES ASSUME Init PROVE TypeOK
  OBVIOUS
<1>1. client \in Clients
  BY IdFacts DEF Init, NewClient, ConnectionOpen, Clients
<1>2. device \in DeviceType
  BY DEF Init, DeviceType, Tallies
<1>3. to_client \in Seq(Datagrams) /\ to_server \in Seq(Replies)
  BY DEF Init
<1>4. switcher \in [SwitcherSessions -> SessionType]
  BY NewSessionTypes DEF Init
<1> QED
  BY <1>1, <1>2, <1>3, <1>4, Types

LEMMA RecvType == ASSUME TypeOK, NEW k \in 1..InFlight, Recv(k) PROVE TypeOK'
<1> DEFINE m == to_client[k]
           parsed == Parse(client, m)
<1>1. k \in DOMAIN to_client
  BY DEF Recv, Arriving
<1>2. m \in Datagrams
  BY <1>1, Types
<1>3. client' \in Clients /\ (parsed.status \in Answered => parsed.reply \in Replies)
  BY <1>2, Types, ParseType DEF Recv
<1>4. device' \in DeviceType
  BY <1>2, Types, ProcessType DEF Recv
<1>5. to_client' \in Seq(Datagrams)
  BY <1>1, Types, Removed DEF Recv
<1>6. to_server' \in Seq(Replies)
  <2>1. /\ to_server \in Seq(Replies)
        /\ to_server' = IF parsed.status \in Answered THEN Append(to_server, parsed.reply)
                        ELSE to_server
    BY Types DEF Recv
  <2> HIDE DEF parsed
  <2> QED
    BY <1>3, <2>1
<1> QED
  BY <1>3, <1>4, <1>5, <1>6, Types DEF Recv, TypeOK, DeviceType

LEMMA DeviceTypes ==
    ASSUME TypeOK, NetifUp \/ Timeout
    PROVE  TypeOK'
<1>1. Open \in Replies /\ client \in Clients /\ device \in DeviceType
  BY DatagramType, Types
<1>2. \A m \in Replies : <<m>> \in Seq(Replies)
  OBVIOUS
<1>3. CASE NetifUp
  <2>1. device' \in DeviceType
    BY <1>1, <1>3 DEF NetifUp, DeviceType
  <2>2. to_server' \in Seq(Replies)
    BY <1>1, <1>3, Types DEF NetifUp
  <2> QED
    BY <1>3, <2>1, <2>2, Types DEF NetifUp, TypeOK, DeviceType
<1>4. CASE Timeout
  <2>1. client' \in Clients
    BY <1>1, <1>4 DEF Timeout, ConnectionOpen, Clients
  <2>2. device' \in DeviceType
    BY <1>1, <1>4, ProcessType, DatagramType DEF Timeout, ConnectionLost, DeviceType, TallyReset, Tallies
  <2>3. to_server' \in Seq(Replies)
    BY <1>1, <1>2, <1>4 DEF Timeout
  <2>4. switcher' \in [SwitcherSessions -> SessionType]
    BY <1>4, Types, NewSessionTypes DEF Timeout
  <2> QED
    BY <1>4, <2>1, <2>2, <2>3, <2>4, Types DEF Timeout, TypeOK, DeviceType, SessionType
<1> QED
  BY <1>3, <1>4

LEMMA SwitcherRecvType == ASSUME TypeOK, SwitcherRecv PROVE TypeOK'
<1>1. PICK k \in 1..InFlight : Accept(k) \/ Reject(k) \/ Acknowledge(k) \/ End(k) \/ Ignore(k)
  BY DEF SwitcherRecv
<1>2. k \in DOMAIN to_server
  BY <1>1 DEF Accept, Reject, Acknowledge, End, Ignore, Arriving
<1>3. switcher \in [SwitcherSessions -> SessionType]
  BY Types
<1>4. /\ <<>> \in Seq(Datagrams)
      /\ \A m \in Datagrams : <<m>> \in Seq(Datagrams)
  OBVIOUS
<1>5. ASSUME NEW s \in SwitcherSessions, NEW session \in SessionType
      PROVE  [switcher EXCEPT ![s] = session] \in [SwitcherSessions -> SessionType]
  BY <1>3
<1>6. CASE Accept(k)
  <2>1. PICK s \in SwitcherSessions :
           \/ Answer(k, switcher, <<Datagram("accept", s)>>)
           \/ Answer(k, [switcher EXCEPT ![s].phase = "opening"], <<Datagram("accept", s)>>)
    BY <1>6 DEF Accept
  <2>2. [switcher[s] EXCEPT !.phase = "opening"] \in SessionType
    BY <1>3 DEF SessionType
  <2>3. [switcher EXCEPT ![s].phase = "opening"] \in [SwitcherSessions -> SessionType]
    BY <1>5, <2>2
  <2>4. <<Datagram("accept", s)>> \in Seq(Datagrams)
    BY <1>4, DatagramType
  <2> QED
    BY <1>2, <1>3, <2>1, <2>3, <2>4, AnswerType
<1>7. CASE Reject(k)
  <2>1. <<Datagram("reject", ClientSession)>> \in Seq(Datagrams)
    BY <1>4, DatagramType
  <2> QED
    BY <1>2, <1>3, <1>7, <2>1, AnswerType DEF Reject
<1>8. CASE Acknowledge(k)
  <2> DEFINE s == to_server[k].session
  <2>1. s \in SwitcherSessions
    BY <1>8 DEF Acknowledge, Expects
  <2>2. CASE switcher[s].phase = "opening"
    <3>1. PICK tally \in Tallies :
             Answer(k, [switcher EXCEPT ![s] = Connected(s, tally)], Connected(s, tally).chain)
      BY <1>8, <2>2 DEF Acknowledge
    <3>2. Connected(s, tally) \in SessionType
      BY <2>1, NewSessionTypes
    <3>3. Connected(s, tally).chain \in Seq(Datagrams)
      BY <3>2 DEF SessionType
    <3> QED
      BY <1>2, <1>5, <2>1, <3>1, <3>2, <3>3, AnswerType
  <2>3. CASE switcher[s].phase # "opening"
    <3>1. PICK j \in DOMAIN switcher[s].chain :
             Answer(k, [switcher EXCEPT ![s] = Acknowledged(@, j)], <<>>)
      BY <1>8, <2>3 DEF Acknowledge
    <3>2. Acknowledged(switcher[s], j) \in SessionType
      BY <1>3, <2>1, SessionTypes
    <3> QED
      BY <1>2, <1>4, <1>5, <2>1, <3>1, <3>2, AnswerType
  <2> QED
    BY <2>2, <2>3
<1>9. CASE End(k)
  <2> DEFINE s == to_server[k].session
             datagrams == IF to_server[k].kind = "closing" THEN <<Datagram("closed", s)>> ELSE <<>>
  <2>1. s \in SwitcherSessions
    BY <1>9 DEF End, Expects
  <2>2. datagrams \in Seq(Datagrams)
    BY <1>4, <2>1, DatagramType
  <2>3. Answer(k, [switcher EXCEPT ![s] = NoSession], datagrams)
    BY <1>9 DEF End
  <2> QED
    BY <1>2, <1>5, <2>1, <2>2, <2>3, NewSessionTypes, AnswerType
<1>10. CASE Ignore(k)
  BY <1>2, <1>3, <1>4, <1>10, AnswerType DEF Ignore
<1> QED
  BY <1>1, <1>6, <1>7, <1>8, <1>9, <1>10

\* A datagram of the switcher is sent.
LEMMA SendsType ==
    ASSUME TypeOK, NEW m \in Datagrams, Sends(m), switcher' \in [SwitcherSessions -> SessionType]
    PROVE  TypeOK'
<1>1. Append(to_client, m) \in Seq(Datagrams)
  BY Types
<1> QED
  BY <1>1, Types DEF Sends, TypeOK, DeviceType, SessionType

\* What the switcher repeats.
LEMMA OutstandingType ==
    ASSUME TypeOK, NEW s \in SwitcherSessions, NEW k \in DOMAIN Outstanding(s)
    PROVE  /\ Outstanding(s)[k] \in Datagrams
           /\ \/ switcher[s].phase = "opening" /\ Outstanding(s)[k] = Datagram("accept", s)
              \/ switcher[s].phase = "closing" /\ Outstanding(s)[k] = Datagram("closing", s)
              \/ /\ switcher[s].phase = "connected" /\ k \in DOMAIN switcher[s].chain
                 /\ Outstanding(s)[k] = switcher[s].chain[k]
<1>1. switcher[s] \in SessionType
  BY Types
<1>2. /\ switcher[s].phase \in {"none", "opening", "connected", "closing"}
      /\ switcher[s].chain \in Seq(Datagrams)
  BY <1>1 DEF SessionType
<1>3. /\ \A m \in Datagrams : <<m>> \in Seq(Datagrams) /\ DOMAIN <<m>> = {1} /\ <<m>>[1] = m
      /\ DOMAIN <<>> = {}
  OBVIOUS
<1>4. Datagram("accept", s) \in Datagrams /\ Datagram("closing", s) \in Datagrams
  BY DatagramType
<1>5. CASE switcher[s].phase = "opening"
  BY <1>3, <1>4, <1>5 DEF Outstanding
<1>6. CASE switcher[s].phase = "closing"
  BY <1>3, <1>4, <1>6 DEF Outstanding
<1>7. CASE switcher[s].phase = "connected"
  <2>1. Outstanding(s) = switcher[s].chain
    BY <1>7 DEF Outstanding
  <2> QED
    BY <1>2, <1>7, <2>1
<1>8. CASE switcher[s].phase = "none"
  BY <1>3, <1>8 DEF Outstanding
<1> QED
  BY <1>2, <1>5, <1>6, <1>7, <1>8

\* What the switcher does on its own account.
SwitcherActs(s) ==
    \/ \E tally \in Tallies \cup {"none"} : Report(s, tally)
    \/ \E k \in 1..Unacknowledged : Repeat(s, k)
    \/ Drop(s)
    \/ Forget(s)

LEMMA SwitcherActsType ==
    ASSUME TypeOK, NEW s \in SwitcherSessions, SwitcherActs(s)
    PROVE  TypeOK'
<1>1. switcher \in [SwitcherSessions -> SessionType] /\ switcher[s] \in SessionType
  BY Types
<1>2. ASSUME NEW tally \in Tallies \cup {"none"}, Report(s, tally)
      PROVE  TypeOK'
  <2> DEFINE m == Data(s, (LatestId(switcher[s]) + 1) % RemoteIdCount, FALSE, tally)
  <2>1. m \in Datagrams
    <3>1. LatestId(switcher[s]) + 1 \in Int
      BY <1>1, SessionTypes DEF RemoteIds
    <3>2. (LatestId(switcher[s]) + 1) % RemoteIdCount \in RemoteIds
      BY <3>1, IdFacts
    <3> QED
      BY <3>2, DatagramType
  <2>2. switcher' = [switcher EXCEPT ![s].chain = Append(@, m)] /\ Sends(m)
    BY <1>2 DEF Report
  <2> HIDE DEF m
  <2>3. [switcher[s] EXCEPT !.chain = Append(@, m)] \in SessionType
    BY <1>1, <2>1, SessionTypes
  <2>4. switcher' = [switcher EXCEPT ![s] = [switcher[s] EXCEPT !.chain = Append(@, m)]]
    BY <2>2
  <2>5. switcher' \in [SwitcherSessions -> SessionType]
    BY <1>1, <2>3, <2>4
  <2> QED
    BY <2>1, <2>2, <2>5, SendsType
<1>3. ASSUME NEW k \in 1..Unacknowledged, Repeat(s, k)
      PROVE  TypeOK'
  <2>1. k \in DOMAIN Outstanding(s) /\ Sends(Outstanding(s)[k]) /\ switcher' = switcher
    BY <1>3 DEF Repeat
  <2> QED
    BY <1>1, <2>1, OutstandingType, SendsType
<1>4. CASE Drop(s)
  <2>1. switcher' \in [SwitcherSessions -> SessionType]
    BY <1>1, <1>4, NewSessionTypes DEF Drop
  <2> QED
    BY <1>4, <2>1, DatagramType, SendsType DEF Drop
<1>5. CASE Forget(s)
  <2>1. switcher' \in [SwitcherSessions -> SessionType]
    BY <1>1, <1>5, NewSessionTypes DEF Forget
  <2> QED
    BY <1>5, <2>1, Types DEF Forget, TypeOK, DeviceType, SessionType
<1> QED
  BY <1>2, <1>3, <1>4, <1>5 DEF SwitcherActs

LEMMA LoseType ==
    ASSUME TypeOK, NEW k \in 1..InFlight, LoseToClient(k) \/ LoseToServer(k)
    PROVE  TypeOK'
<1>1. CASE LoseToClient(k)
  <2>1. to_client' \in Seq(Datagrams)
    BY <1>1, Types, Removed DEF LoseToClient
  <2> QED
    BY <1>1, <2>1, Types DEF LoseToClient, TypeOK
<1>2. CASE LoseToServer(k)
  <2>1. to_server' \in Seq(Replies)
    BY <1>2, Types, Removed DEF LoseToServer
  <2> QED
    BY <1>2, <2>1, Types DEF LoseToServer, TypeOK
<1> QED
  BY <1>1, <1>2

LEMMA NextCases ==
    ASSUME Next
    PROVE  \/ NetifUp \/ Timeout
           \/ SwitcherRecv
           \/ \E k \in 1..InFlight : Recv(k) \/ LoseToClient(k) \/ LoseToServer(k)
           \/ \E s \in SwitcherSessions : SwitcherActs(s)
BY DEF Next, SwitcherActs

LEMMA NextType == TypeOK /\ [Next]_vars => TypeOK'
<1> SUFFICES ASSUME TypeOK, [Next]_vars PROVE TypeOK'
  OBVIOUS
<1>1. CASE UNCHANGED vars
  BY <1>1 DEF vars, TypeOK
<1>2. CASE Next
  BY <1>2, NextCases, RecvType, DeviceTypes, SwitcherRecvType, SwitcherActsType, LoseType
<1> QED
  BY <1>1, <1>2

\* The client, what the device shows, the sessions of the switcher and both channels have
\* their types (core/atem.c, firmware/atem_sock.c): what is replied and reported carries ids that exist.
THEOREM TypeOKThm == Spec => []TypeOK
<1>1. Init => TypeOK
  BY InitType
<1>2. TypeOK /\ [Next]_vars => TypeOK'
  BY NextType
<1> QED
  BY <1>1, <1>2, PTL DEF Spec
-------------------------------------------------------------------------------
(***************************************************************************)
(* When no session outlives the device's timeout.                          *)
(*                                                                         *)
(* Each request for a session then starts anew: nothing of a session       *)
(* before is on its way, and at most one session follows from it.  This    *)
(* holds whatever datagrams overtake each other.                           *)
(***************************************************************************)

Idle == \A s \in SwitcherSessions : ~ Alive(s)

Dark == device.tally = "off" /\ ~ device.conn /\ device.atem_state # "connected"

OneAlive == \A s, t \in SwitcherSessions : Alive(s) /\ Alive(t) => s = t

\* A request that did not arrive yet is all there is.
Requesting ==
    ~ device.polled \/ (\E m \in Range(to_server) : m.kind = "open") =>
        /\ Idle
        /\ Dark
        /\ to_client = <<>>
        /\ to_server = IF device.polled THEN <<Open>> ELSE <<>>
        /\ client.write_buf = "open"

\* And so is a request that was rejected.
Rejecting ==
    \A m \in Range(to_client) : m.kind = "reject" =>
        /\ Idle
        /\ Dark
        /\ to_client = <<m>>
        /\ to_server = <<>>

\* Until the device acknowledges that it was accepted there is nothing but that
\* on its way to it.
Opening ==
    \A s \in SwitcherSessions : switcher[s].phase = "opening" =>
        /\ Dark
        /\ \A m \in Range(to_client) : m.kind = "accept"
        /\ \A m \in Range(to_server) : m.kind = "ack" /\ m.id = 0
        /\ client.write_buf \in {"open", "ack"}
        /\ client.write_buf = "ack" => client.remote_id_last = 0
        /\ to_server # <<>> => client.write_buf = "ack"

Connecting ==
    \A s \in SwitcherSessions : switcher[s].phase = "connected" =>
        /\ client.write_buf \in {"ack", "retxreq"}
        /\ \A m \in Range(to_client) : m.kind \in {"accept", "data"}
        /\ \A m \in Range(to_server) : m.kind \in {"ack", "retxreq"}

\* Only a session that is connected has packets that were not acknowledged.
Chains ==
    \A s \in SwitcherSessions :
        /\ switcher[s].phase # "connected" => switcher[s].chain = <<>>
        /\ Len(switcher[s].chain) <= Unacknowledged
        /\ \A k \in DOMAIN switcher[s].chain : switcher[s].chain[k].kind = "data"

\* Data is for a client that was accepted.
Heard ==
    \A m \in Range(to_client) :
        m.kind = "data" => client.write_buf \in {"ack", "retxreq", "close"}

\* The chain of a session the device has not taken any data of.
Unmoved(session) ==
    /\ session.base = 0
    /\ session.chain # <<>>
    /\ session.chain[1].version
    /\ \A k \in DOMAIN session.chain : session.chain[k].id = k

\* A device that is not connected has taken no data, and acknowledged none; the first it
\* takes has the version of the protocol, which makes it connected.
Unheard ==
    device.atem_state # "connected" /\ client.write_buf # "close" =>
        /\ \A m \in Range(to_client) :
               m.kind = "data" => client.remote_id_last = 0 /\ (m.id = 1 => m.version)
        /\ \A s \in SwitcherSessions : switcher[s].phase = "connected" =>
               /\ client.remote_id_last = 0
               /\ Unmoved(switcher[s])
               /\ \A m \in Range(to_server) : m.kind = "ack" => m.id = 0

Inv ==
    /\ TypeOK
    /\ OneAlive
    /\ Requesting
    /\ Rejecting
    /\ Opening
    /\ Connecting
    /\ Chains
    /\ Heard
    /\ Unheard
    /\ LitOnlyConnected
    /\ SendsWholeBuffer

\* A request starts anew.
Starting ==
    /\ TypeOK
    /\ Idle
    /\ Dark
    /\ Chains
    /\ to_client = <<>>
    /\ to_server = IF device.polled THEN <<Open>> ELSE <<>>
    /\ client.write_buf = "open" /\ client.write_len = LenSyn

LEMMA Anew == Starting => Inv
<1> SUFFICES ASSUME Starting PROVE Inv
  OBVIOUS
<1> USE DEF Starting
<1>1. Range(to_client) = {}
  BY RangeFew
<1>2. \A s \in SwitcherSessions : switcher[s].phase = "none"
  BY DEF Idle, Alive
<1>3. OneAlive /\ Opening /\ Connecting
  BY <1>2 DEF OneAlive, Opening, Connecting, Alive
<1>4. Requesting /\ Rejecting /\ Heard
  BY <1>1 DEF Requesting, Rejecting, Heard
<1>5. Unheard
  BY <1>1, <1>2 DEF Unheard
<1>6. LitOnlyConnected /\ SendsWholeBuffer
  BY DEF LitOnlyConnected, SendsWholeBuffer, Dark, BufferLen
<1> QED
  BY <1>3, <1>4, <1>5, <1>6 DEF Inv

LEMMA AnewNext == Starting' => Inv'
BY Anew, PTL

\* As long as a session is alive, no request is on its way or was rejected.
LEMMA Live ==
    ASSUME Inv, NEW s \in SwitcherSessions, Alive(s)
    PROVE  /\ device.polled
           /\ \A m \in Range(to_server) : m.kind # "open"
           /\ \A m \in Range(to_client) : m.kind # "reject"
           /\ \A t \in SwitcherSessions \ {s} : switcher[t].phase = "none"
<1>1. device.polled /\ \A m \in Range(to_server) : m.kind # "open"
  BY DEF Inv, Requesting, Idle
<1>2. \A m \in Range(to_client) : m.kind # "reject"
  BY DEF Inv, Rejecting, Idle
<1>3. \A t \in SwitcherSessions \ {s} : switcher[t].phase = "none"
  BY DEF Inv, OneAlive, Alive
<1> QED
  BY <1>1, <1>2, <1>3

LEMMA InitInv == Init => Inv
<1> SUFFICES ASSUME Init PROVE Inv
  OBVIOUS
<1>1. Idle /\ Dark /\ Chains
  <2>1. \A s \in SwitcherSessions : switcher[s] = NoSession
    BY DEF Init
  <2>2. NoSession.chain = <<>> /\ Len(<<>>) = 0 /\ DOMAIN <<>> = {}
    BY DEF NoSession
  <2>3. 0 <= Unacknowledged
    BY DeviceAssumption
  <2>4. Chains
    BY <2>1, <2>2, <2>3 DEF Chains
  <2>5. Idle
    BY <2>1 DEF Idle, Alive, NoSession
  <2> QED
    BY <2>4, <2>5 DEF Dark, Init
<1>2. client.write_buf = "open" /\ client.write_len = LenSyn
  BY DEF Init, NewClient, ConnectionOpen
<1> QED
  BY <1>1, <1>2, InitType, Anew DEF Init, Starting
LEMMA DeviceInv ==
    ASSUME ~ Outlives, Inv, NetifUp \/ Timeout
    PROVE  Inv'
<1>1. TypeOK'
  BY DeviceTypes DEF Inv
<1>2. CASE NetifUp
  <2>1. ~ device.polled /\ device \in DeviceType
    BY <1>2, Types DEF NetifUp, Inv
  <2>2. /\ Idle /\ Dark /\ Chains /\ to_client = <<>> /\ to_server = <<>>
        /\ client.write_buf = "open" /\ client.write_len = LenSyn
    BY <2>1 DEF Inv, Requesting, SendsWholeBuffer, BufferLen
  <2>3. device' = [device EXCEPT !.polled = TRUE] /\ to_server' = <<Open>>
    BY <1>2, <2>2 DEF NetifUp
  <2>4. device'.polled /\ Dark'
    BY <2>1, <2>2, <2>3 DEF Dark, DeviceType
  <2>5. Idle' /\ Chains'
    BY <1>2, <2>2 DEF NetifUp, Idle, Alive, Chains
  <2> QED
    BY <1>1, <1>2, <2>2, <2>3, <2>4, <2>5, AnewNext DEF NetifUp, Starting
<1>3. CASE Timeout
  <2>1. \A s \in SwitcherSessions : switcher'[s] = NoSession
    BY <1>3 DEF Timeout
  <2>2. Idle' /\ Chains'
    <3>1. NoSession.chain = <<>> /\ Len(<<>>) = 0 /\ DOMAIN <<>> = {}
      BY DEF NoSession
    <3>2. 0 <= Unacknowledged
      BY DeviceAssumption
    <3> QED
      BY <2>1, <3>1, <3>2 DEF Idle, Alive, Chains, NoSession
  <2>3. device'.polled /\ Dark'
    <3>1. device \in DeviceType /\ device.polled /\ device' = ConnectionLost(device)
      BY <1>3, Types DEF Timeout, Inv
    <3>2. device.tally \in Tallies /\ device.conn \in BOOLEAN
      BY <3>1 DEF DeviceType
    <3>3. CASE device.atem_state = "connected"
      BY <3>1, <3>3 DEF ConnectionLost, TallyReset, Dark, DeviceType
    <3>4. CASE device.atem_state # "connected"
      BY <3>1, <3>2, <3>4 DEF ConnectionLost, Dark, Inv, LitOnlyConnected
    <3> QED
      BY <3>3, <3>4
  <2>4. client'.write_buf = "open" /\ client'.write_len = LenSyn
    BY <1>3, Types DEF Timeout, ConnectionOpen, Clients, Inv
  <2> QED
    BY <1>1, <1>3, <2>2, <2>3, <2>4, AnewNext DEF Timeout, Starting
<1> QED
  BY <1>2, <1>3

LEMMA RangesOK ==
    ASSUME TypeOK
    PROVE  /\ Range(to_client) \subseteq Datagrams
           /\ Range(to_server) \subseteq Replies
           /\ \A k \in DOMAIN to_client : to_client[k] \in Range(to_client)
           /\ \A k \in DOMAIN to_server : to_server[k] \in Range(to_server)
BY Types, InRange

\* Datagrams to the client are lost, or taken without effect.
LEMMA FewerToClient ==
    ASSUME Inv, NEW k \in DOMAIN to_client, to_client' = RemoveAt(to_client, k),
           UNCHANGED <<client, device, switcher, to_server>>, TypeOK'
    PROVE  Inv'
<1>1. to_client \in Seq(Datagrams) /\ to_client # <<>>
  BY Types DEF Inv
<1>2. Range(to_client') \subseteq Range(to_client)
  BY <1>1, RangeRemoved
<1>3. Len(to_client) = 1 => to_client' = <<>>
  BY <1>1, RangeRemoved
<1>4. OneAlive' /\ Opening' /\ Connecting' /\ Chains' /\ Heard' /\ LitOnlyConnected' /\ SendsWholeBuffer'
  <2>1. OneAlive' /\ Chains' /\ LitOnlyConnected' /\ SendsWholeBuffer'
    BY DEF Inv, OneAlive, Alive, Chains, LitOnlyConnected, SendsWholeBuffer
  <2>2. Opening'
    BY <1>2 DEF Inv, Opening, Dark
  <2>3. Connecting' /\ Heard'
    BY <1>2 DEF Inv, Connecting, Heard
  <2> QED
    BY <2>1, <2>2, <2>3
<1>5. Requesting'
  BY <1>1 DEF Inv, Requesting
<1>6. Rejecting'
  <2> SUFFICES ASSUME NEW m \in Range(to_client'), m.kind = "reject" PROVE FALSE
    BY DEF Rejecting
  <2>1. to_client = <<m>>
    BY <1>2 DEF Inv, Rejecting
  <2>2. to_client' = <<>>
    BY <1>3, <2>1
  <2> QED
    BY <2>2, RangeFew
<1>7. Unheard'
  BY <1>2 DEF Inv, Unheard, Unmoved
<1> QED
  BY <1>4, <1>5, <1>6, <1>7 DEF Inv

\* Datagrams to the switcher are lost, or ignored.
LEMMA FewerToServer ==
    ASSUME Inv, NEW k \in DOMAIN to_server, to_server' = RemoveAt(to_server, k),
           UNCHANGED <<client, device, switcher, to_client>>, TypeOK'
    PROVE  Inv'
<1>1. to_server \in Seq(Replies) /\ to_server # <<>>
  BY Types DEF Inv
<1>2. Range(to_server') \subseteq Range(to_server)
  BY <1>1, RangeRemoved
<1>3. Len(to_server) = 1 => to_server' = <<>>
  BY <1>1, RangeRemoved
<1>4. OneAlive' /\ Opening' /\ Connecting' /\ Chains' /\ Heard' /\ LitOnlyConnected' /\ SendsWholeBuffer'
  <2>1. OneAlive' /\ Chains' /\ LitOnlyConnected' /\ SendsWholeBuffer'
    BY DEF Inv, OneAlive, Alive, Chains, LitOnlyConnected, SendsWholeBuffer
  <2>2. Opening'
    BY <1>1, <1>2 DEF Inv, Opening, Dark
  <2>3. Connecting' /\ Heard'
    BY <1>2 DEF Inv, Connecting, Heard
  <2> QED
    BY <2>1, <2>2, <2>3
<1>5. Requesting'
  <2> SUFFICES ASSUME ~ device.polled \/ (\E m \in Range(to_server') : m.kind = "open") PROVE FALSE
    BY DEF Requesting
  <2>1. ~ device.polled \/ (\E m \in Range(to_server) : m.kind = "open")
    BY <1>2
  <2>2. to_server = IF device.polled THEN <<Open>> ELSE <<>>
    BY <2>1 DEF Inv, Requesting
  <2>3. device.polled /\ to_server = <<Open>>
    BY <1>1, <2>2
  <2>4. to_server' = <<>>
    BY <1>3, <2>3
  <2> QED
    BY <2>3, <2>4, RangeFew
<1>6. Rejecting'
  BY <1>1 DEF Inv, Rejecting
<1>7. Unheard'
  BY <1>2 DEF Inv, Unheard, Unmoved
<1> QED
  BY <1>4, <1>5, <1>6, <1>7 DEF Inv

LEMMA LoseInv ==
    ASSUME Inv, NEW k \in 1..InFlight, LoseToClient(k) \/ LoseToServer(k)
    PROVE  Inv'
<1>1. TypeOK'
  BY LoseType DEF Inv
<1>2. CASE LoseToClient(k)
  BY <1>1, <1>2, FewerToClient DEF LoseToClient
<1>3. CASE LoseToServer(k)
  BY <1>1, <1>3, FewerToServer DEF LoseToServer
<1> QED
  BY <1>2, <1>3

\* The switcher sends a datagram to a client of a session that is alive.
LEMMA SendsMore ==
    ASSUME Inv, NEW s \in SwitcherSessions, Alive(s), NEW m \in Datagrams, Sends(m)
    PROVE  /\ Range(to_client') = Range(to_client) \cup {m}
           /\ m.kind # "reject" => Rejecting'
           /\ Requesting'
           /\ LitOnlyConnected' /\ SendsWholeBuffer'
           /\ \A t \in SwitcherSessions \ {s} : switcher[t].phase = "none"
<1>1. Range(to_client') = Range(to_client) \cup {m}
  BY Types, RangeAppended DEF Sends, Inv
<1>2. Requesting'
  BY Live DEF Sends, Requesting
<1>3. m.kind # "reject" => Rejecting'
  BY <1>1, Live DEF Rejecting
<1>4. LitOnlyConnected' /\ SendsWholeBuffer'
  BY DEF Inv, Sends, LitOnlyConnected, SendsWholeBuffer
<1> QED
  BY <1>1, <1>2, <1>3, <1>4, Live
LEMMA RepeatInv ==
    ASSUME Inv, NEW s \in SwitcherSessions, NEW k \in 1..Unacknowledged, Repeat(s, k)
    PROVE  Inv'
<1> DEFINE m == Outstanding(s)[k]
<1>1. k \in DOMAIN Outstanding(s) /\ Sends(m) /\ switcher' = switcher
  BY DEF Repeat
<1>2. /\ m \in Datagrams
      /\ \/ switcher[s].phase = "opening" /\ m = Datagram("accept", s)
         \/ switcher[s].phase = "closing" /\ m = Datagram("closing", s)
         \/ /\ switcher[s].phase = "connected" /\ k \in DOMAIN switcher[s].chain
            /\ m = switcher[s].chain[k]
  BY <1>1, OutstandingType DEF Inv
<1> HIDE DEF m
<1>3. /\ switcher[s].phase = "opening" => m.kind = "accept"
      /\ switcher[s].phase = "closing" => m.kind = "closing"
      /\ switcher[s].phase = "connected" =>
            m.kind = "data" /\ k \in DOMAIN switcher[s].chain /\ m = switcher[s].chain[k]
  BY <1>2 DEF Datagram, Inv, Chains
<1>4. Alive(s) /\ m.kind # "reject"
  BY <1>2, <1>3 DEF Alive
<1>5. /\ Range(to_client') = Range(to_client) \cup {m}
      /\ Rejecting' /\ Requesting' /\ LitOnlyConnected' /\ SendsWholeBuffer'
      /\ \A t \in SwitcherSessions \ {s} : switcher[t].phase = "none"
  BY <1>1, <1>2, <1>4, SendsMore
<1>6. TypeOK'
  BY <1>1, <1>2, Types, SendsType DEF Inv
<1>7. UNCHANGED <<client, device, switcher, to_server>>
  BY <1>1 DEF Sends
<1>8. OneAlive' /\ Chains'
  BY <1>7 DEF Inv, OneAlive, Alive, Chains
<1>9. Opening' /\ Connecting'
  BY <1>3, <1>5, <1>7 DEF Inv, Opening, Connecting, Dark
<1>10. Heard'
  BY <1>2, <1>3, <1>5, <1>7 DEF Inv, Heard, Connecting
<1>11. Unheard'
  <2> SUFFICES ASSUME device.atem_state # "connected", client.write_buf # "close"
               PROVE  Unheard'
    BY <1>7 DEF Unheard
  <2>1. \A x \in SwitcherSessions : switcher[x].phase = "connected" =>
           /\ client.remote_id_last = 0
           /\ Unmoved(switcher[x])
           /\ \A n \in Range(to_server) : n.kind = "ack" => n.id = 0
    BY DEF Inv, Unheard
  <2>2. m.kind = "data" => client.remote_id_last = 0 /\ (m.id = 1 => m.version)
    <3> SUFFICES ASSUME m.kind = "data" PROVE client.remote_id_last = 0 /\ (m.id = 1 => m.version)
      OBVIOUS
    <3>1. switcher[s].phase = "connected" /\ k \in DOMAIN switcher[s].chain /\ m = switcher[s].chain[k]
      BY <1>2, <1>3
    <3>2. m.id = k /\ switcher[s].chain[1].version
      BY <2>1, <3>1 DEF Unmoved
    <3> QED
      BY <2>1, <3>1, <3>2
  <2>3. \A n \in Range(to_client) :
           n.kind = "data" => client.remote_id_last = 0 /\ (n.id = 1 => n.version)
    BY DEF Inv, Unheard
  <2> QED
    BY <1>5, <1>7, <2>1, <2>2, <2>3 DEF Unheard
<1> QED
  BY <1>5, <1>6, <1>8, <1>9, <1>10, <1>11 DEF Inv

LEMMA ReportInv ==
    ASSUME Inv, NEW s \in SwitcherSessions, NEW tally \in Tallies \cup {"none"}, Report(s, tally)
    PROVE  Inv'
<1> DEFINE id == (LatestId(switcher[s]) + 1) % RemoteIdCount
           m == Data(s, id, FALSE, tally)
           chain == switcher[s].chain
<1>1. /\ switcher[s].phase = "connected" /\ Len(chain) < Unacknowledged
      /\ switcher' = [switcher EXCEPT ![s].chain = Append(@, m)] /\ Sends(m)
  BY DEF Report
<1>2. TypeOK'
  BY SwitcherActsType DEF SwitcherActs, Inv
<1>3. switcher[s] \in SessionType /\ chain \in Seq(Datagrams) /\ switcher \in [SwitcherSessions -> SessionType]
  BY Types DEF Inv, SessionType
<1>4. id \in RemoteIds
  <2>1. LatestId(switcher[s]) + 1 \in Int
    BY <1>3, SessionTypes DEF RemoteIds
  <2> QED
    BY <2>1, IdFacts
<1> HIDE DEF id
<1>5. m \in Datagrams /\ m.kind = "data" /\ m.id = id
  BY <1>4, DatagramType DEF Data
<1> HIDE DEF m
<1>6. Alive(s)
  BY <1>1 DEF Alive
<1>7. /\ Range(to_client') = Range(to_client) \cup {m}
      /\ Rejecting' /\ Requesting' /\ LitOnlyConnected' /\ SendsWholeBuffer'
      /\ \A t \in SwitcherSessions \ {s} : switcher[t].phase = "none"
  BY <1>1, <1>5, <1>6, SendsMore
<1>8. /\ \A t \in SwitcherSessions : t # s => switcher'[t] = switcher[t]
      /\ \A t \in SwitcherSessions : switcher'[t].phase = switcher[t].phase
      /\ switcher'[s].chain = Append(chain, m)
      /\ switcher'[s].base = switcher[s].base
  BY <1>1, <1>3
<1>9. UNCHANGED <<client, device, to_server>>
  BY <1>1 DEF Sends
<1>10. /\ Len(Append(chain, m)) = Len(chain) + 1
       /\ \A k \in 1..Len(chain) : Append(chain, m)[k] = chain[k]
       /\ Append(chain, m)[Len(chain) + 1] = m
       /\ DOMAIN Append(chain, m) = 1..Len(chain) + 1 /\ DOMAIN chain = 1..Len(chain)
       /\ Len(chain) \in Nat
  BY <1>3, <1>5
<1>11. OneAlive' /\ Opening' /\ Connecting'
  BY <1>1, <1>5, <1>7, <1>8, <1>9 DEF Inv, OneAlive, Alive, Opening, Connecting
<1>12. Chains'
  <2>1. ASSUME NEW k \in DOMAIN Append(chain, m) PROVE Append(chain, m)[k].kind = "data"
    BY <1>5, <1>10 DEF Inv, Chains
  <2>2. Len(Append(chain, m)) <= Unacknowledged
    BY <1>1, <1>10, DeviceAssumption
  <2> QED
    BY <1>1, <1>8, <2>1, <2>2 DEF Inv, Chains
<1>13. Heard'
  BY <1>1, <1>5, <1>7, <1>9 DEF Inv, Heard, Connecting
<1>14. Unheard'
  <2> SUFFICES ASSUME device.atem_state # "connected", client.write_buf # "close"
               PROVE  Unheard'
    BY <1>9 DEF Unheard
  <2>1. /\ client.remote_id_last = 0
        /\ Unmoved(switcher[s])
        /\ \A n \in Range(to_server) : n.kind = "ack" => n.id = 0
    BY <1>1 DEF Inv, Unheard
  <2>2. id = Len(chain) + 1 /\ Len(chain) >= 1
    <3>1. Len(chain) >= 1
      BY <1>3, <2>1 DEF Unmoved
    <3>2. LatestId(switcher[s]) = Len(chain)
      BY <1>3, <1>10, <2>1, <3>1 DEF LatestId, Last, Unmoved
    <3>3. Len(chain) + 1 < RemoteIdCount
      BY <1>1, <1>10, DeviceAssumption, ClientAssumption
    <3>4. (Len(chain) + 1) % RemoteIdCount = Len(chain) + 1
      <4>1. Len(chain) + 1 \in Nat /\ RemoteIdCount \in Nat \ {0}
        BY <1>10, ClientAssumption
      <4> QED
        BY <3>3, <4>1, ModSmall
    <3> QED
      BY <3>1, <3>2, <3>4 DEF id
  <2>3. Unmoved(switcher'[s])
    <3>1. \A k \in DOMAIN Append(chain, m) : Append(chain, m)[k].id = k
      BY <1>5, <1>10, <2>1, <2>2 DEF Unmoved
    <3>2. Append(chain, m)[1].version
      BY <1>10, <2>1, <2>2 DEF Unmoved
    <3>3. Append(chain, m) # <<>>
      BY <1>10
    <3> QED
      BY <1>8, <2>1, <3>1, <3>2, <3>3 DEF Unmoved
  <2>4. m.id # 1
    BY <1>5, <1>10, <2>2
  <2> QED
    BY <1>1, <1>7, <1>8, <1>9, <2>1, <2>3, <2>4 DEF Inv, Unheard
<1> QED
  BY <1>2, <1>7, <1>11, <1>12, <1>13, <1>14 DEF Inv

LEMMA DropInv == ASSUME Inv, NEW s \in SwitcherSessions, Drop(s) PROVE Inv'
<1> DEFINE m == Datagram("closing", s)
<1>1. /\ switcher[s].phase \in {"opening", "connected"}
      /\ switcher' = [switcher EXCEPT ![s] = [NoSession EXCEPT !.phase = "closing"]]
      /\ Sends(m)
  BY DEF Drop
<1>2. TypeOK'
  BY SwitcherActsType DEF SwitcherActs, Inv
<1>3. m \in Datagrams /\ m.kind = "closing"
  BY DatagramType DEF Datagram
<1> HIDE DEF m
<1>4. /\ Range(to_client') = Range(to_client) \cup {m}
      /\ Rejecting' /\ Requesting' /\ LitOnlyConnected' /\ SendsWholeBuffer'
      /\ \A t \in SwitcherSessions \ {s} : switcher[t].phase = "none"
  BY <1>1, <1>3, SendsMore DEF Alive
<1>5. /\ \A t \in SwitcherSessions : t # s => switcher'[t] = switcher[t]
      /\ switcher'[s].phase = "closing" /\ switcher'[s].chain = <<>>
  BY <1>1, Types DEF NoSession, Inv
<1>6. UNCHANGED <<client, device, to_server>>
  BY <1>1 DEF Sends
<1>7. OneAlive' /\ Opening' /\ Connecting'
  BY <1>1, <1>4, <1>5 DEF Inv, OneAlive, Alive, Opening, Connecting
<1>8. Chains'
  <2>1. Len(<<>>) = 0 /\ DOMAIN <<>> = {} /\ 0 <= Unacknowledged
    BY DeviceAssumption
  <2> QED
    BY <1>5, <2>1 DEF Inv, Chains
<1>9. Heard'
  BY <1>3, <1>4, <1>6 DEF Inv, Heard
<1>10. Unheard'
  BY <1>3, <1>4, <1>5, <1>6 DEF Inv, Unheard
<1> QED
  BY <1>2, <1>4, <1>7, <1>8, <1>9, <1>10 DEF Inv

LEMMA ForgetInv == ASSUME Inv, NEW s \in SwitcherSessions, Forget(s) PROVE Inv'
<1>1. TypeOK'
  BY SwitcherActsType DEF SwitcherActs, Inv
<1>2. switcher[s].phase = "closing" /\ UNCHANGED <<client, device, to_client, to_server>>
  BY DEF Forget
<1>3. /\ \A t \in SwitcherSessions : t # s => switcher'[t] = switcher[t]
      /\ switcher'[s].phase = "none" /\ switcher'[s].chain = <<>>
  BY Types DEF NoSession, Inv, Forget
<1>4. OneAlive' /\ Requesting' /\ Rejecting'
  BY <1>2, <1>3 DEF Inv, OneAlive, Alive, Idle, Requesting, Rejecting, Dark
<1>5. Chains'
  <2>1. Len(<<>>) = 0 /\ DOMAIN <<>> = {} /\ 0 <= Unacknowledged
    BY DeviceAssumption
  <2> QED
    BY <1>3, <2>1 DEF Inv, Chains
<1>6. Opening' /\ Connecting' /\ Heard'
  BY <1>2, <1>3 DEF Inv, Opening, Connecting, Heard, Dark
<1>7. Unheard'
  BY <1>2, <1>3 DEF Inv, Unheard
<1>8. LitOnlyConnected' /\ SendsWholeBuffer'
  BY <1>2 DEF Inv, LitOnlyConnected, SendsWholeBuffer
<1> QED
  BY <1>1, <1>4, <1>5, <1>6, <1>7, <1>8 DEF Inv
LEMMA AcceptInv == ASSUME Inv, NEW k \in 1..InFlight, Accept(k) PROVE Inv'
<1>1. k \in DOMAIN to_server /\ to_server[k].kind = "open"
  BY DEF Accept, Arriving
<1>2. to_server[k] \in Range(to_server) /\ to_server \in Seq(Replies) /\ device \in DeviceType
  BY <1>1, Types, InRange DEF Inv
<1>3. /\ Idle /\ Dark /\ to_client = <<>> /\ device.polled /\ to_server = <<Open>>
      /\ client.write_buf = "open"
  BY <1>1, <1>2 DEF Inv, Requesting
<1>4. PICK s \in SwitcherSessions :
         /\ ~ Alive(s)
         /\ Answer(k, [switcher EXCEPT ![s].phase = "opening"], <<Datagram("accept", s)>>)
  BY <1>3 DEF Accept, Idle, Alive
<1>5. TypeOK'
  <2>1. SwitcherRecv
    BY DEF SwitcherRecv
  <2> QED
    BY <2>1, SwitcherRecvType DEF Inv
<1>6. to_server' = <<>>
  <2>1. to_server' = RemoveAt(to_server, k)
    BY <1>4 DEF Answer
  <2> QED
    BY <1>1, <1>2, <1>3, <2>1, RangeRemoved
<1>7. Range(to_client') = {Datagram("accept", s)}
  <2>1. to_client' = <<>> \o <<Datagram("accept", s)>>
    BY <1>3, <1>4 DEF Answer
  <2>2. to_client' = <<Datagram("accept", s)>>
    BY <2>1
  <2> QED
    BY <2>2, RangeFew
<1>8. Datagram("accept", s).kind = "accept"
  BY DEF Datagram
<1>9. UNCHANGED <<client, device>>
  BY <1>4 DEF Answer
<1>10. /\ \A t \in SwitcherSessions : t # s => switcher'[t] = switcher[t]
       /\ switcher'[s].phase = "opening" /\ switcher'[s].chain = <<>>
       /\ \A t \in SwitcherSessions : switcher[t].phase = "none"
  <2>1. switcher' = [switcher EXCEPT ![s].phase = "opening"]
    BY <1>4 DEF Answer
  <2>2. switcher[s].phase = "none" /\ switcher[s].chain = <<>>
    BY <1>4 DEF Alive, Inv, Chains
  <2>3. switcher[s] \in SessionType
    BY Types DEF Inv
  <2> QED
    BY <1>3, <2>1, <2>2, <2>3, Types DEF Inv, Idle, Alive, SessionType
<1>11. OneAlive' /\ Requesting' /\ Rejecting'
  BY <1>3, <1>6, <1>7, <1>8, <1>9, <1>10, RangeFew DEF OneAlive, Alive, Requesting, Rejecting
<1>12. Opening' /\ Connecting'
  BY <1>3, <1>6, <1>7, <1>8, <1>9, <1>10, RangeFew DEF Opening, Connecting, Dark
<1>13. Chains'
  <2>1. Len(<<>>) = 0 /\ DOMAIN <<>> = {} /\ 0 <= Unacknowledged
    BY DeviceAssumption
  <2> QED
    BY <1>10, <2>1 DEF Inv, Chains
<1>14. Heard' /\ Unheard'
  BY <1>7, <1>8, <1>10 DEF Heard, Unheard
<1>15. LitOnlyConnected' /\ SendsWholeBuffer'
  BY <1>9 DEF Inv, LitOnlyConnected, SendsWholeBuffer
<1> QED
  BY <1>5, <1>11, <1>12, <1>13, <1>14, <1>15 DEF Inv

LEMMA RejectInv == ASSUME Inv, NEW k \in 1..InFlight, Reject(k) PROVE Inv'
<1> DEFINE m == Datagram("reject", ClientSession)
<1>1. k \in DOMAIN to_server /\ to_server[k].kind = "open" /\ Answer(k, switcher, <<m>>)
  BY DEF Reject, Arriving
<1>2. to_server[k] \in Range(to_server) /\ to_server \in Seq(Replies)
  BY <1>1, Types, InRange DEF Inv
<1>3. Idle /\ Dark /\ to_client = <<>> /\ device.polled /\ to_server = <<Open>>
  BY <1>1, <1>2 DEF Inv, Requesting
<1>4. TypeOK'
  <2>1. SwitcherRecv
    BY DEF SwitcherRecv
  <2> QED
    BY <2>1, SwitcherRecvType DEF Inv
<1>5. to_server' = <<>>
  BY <1>1, <1>2, <1>3, RangeRemoved DEF Answer
<1>6. m.kind = "reject"
  BY DEF Datagram
<1> HIDE DEF m
<1>7. to_client' = <<m>> /\ Range(to_client') = {m}
  <2>1. to_client' = <<>> \o <<m>>
    BY <1>1, <1>3 DEF Answer
  <2>2. to_client' = <<m>>
    BY <2>1
  <2> QED
    BY <2>2, RangeFew
<1>8. UNCHANGED <<client, device, switcher>>
  BY <1>1 DEF Answer
<1>9. \A s \in SwitcherSessions : switcher'[s].phase = "none"
  BY <1>3, <1>8 DEF Idle, Alive
<1>10. OneAlive' /\ Opening' /\ Connecting'
  BY <1>9 DEF OneAlive, Alive, Opening, Connecting
<1>11. Requesting' /\ Rejecting'
  BY <1>3, <1>5, <1>7, <1>8, <1>9, RangeFew DEF Requesting, Rejecting, Dark, Idle, Alive
<1>12. Chains' /\ LitOnlyConnected' /\ SendsWholeBuffer'
  BY <1>8 DEF Inv, Chains, LitOnlyConnected, SendsWholeBuffer
<1>13. Heard' /\ Unheard'
  BY <1>6, <1>7, <1>9 DEF Heard, Unheard
<1> QED
  BY <1>4, <1>10, <1>11, <1>12, <1>13 DEF Inv

LEMMA AcknowledgeInv == ASSUME Inv, NEW k \in 1..InFlight, Acknowledge(k) PROVE Inv'
<1> DEFINE s == to_server[k].session
           chain == switcher[s].chain
<1>1. k \in DOMAIN to_server /\ to_server[k].kind = "ack" /\ s \in SwitcherSessions
  BY DEF Acknowledge, Arriving, Expects
<1>2. to_server[k] \in Range(to_server) /\ to_server \in Seq(Replies) /\ to_server # <<>>
  BY <1>1, Types, InRange DEF Inv
<1>3. TypeOK'
  <2>1. SwitcherRecv
    BY DEF SwitcherRecv
  <2> QED
    BY <2>1, SwitcherRecvType DEF Inv
<1>4. switcher \in [SwitcherSessions -> SessionType] /\ switcher[s] \in SessionType /\ chain \in Seq(Datagrams)
  BY <1>1, Types DEF Inv, SessionType
<1>5. CASE switcher[s].phase = "opening"
  <2>1. PICK tally \in Tallies :
           Answer(k, [switcher EXCEPT ![s] = Connected(s, tally)], Connected(s, tally).chain)
    BY <1>5 DEF Acknowledge
  <2> DEFINE m == Data(s, 1, TRUE, tally)
  <2>2. m \in Datagrams /\ m.kind = "data" /\ m.id = 1 /\ m.version
    BY <1>1, IdFacts, DatagramType DEF Data
  <2>3. /\ Connected(s, tally).chain = <<m>> /\ Connected(s, tally).phase = "connected"
        /\ Connected(s, tally).base = 0
    BY DEF Connected
  <2> HIDE DEF m
  <2>4. /\ \A t \in SwitcherSessions : t # s => switcher'[t] = switcher[t]
        /\ switcher'[s].phase = "connected" /\ switcher'[s].chain = <<m>> /\ switcher'[s].base = 0
    BY <1>1, <1>4, <2>1, <2>3 DEF Answer
  <2>5. UNCHANGED <<client, device>>
    BY <2>1 DEF Answer
  <2>6. Range(to_client') = Range(to_client) \cup {m}
    <3>1. to_client' = to_client \o <<m>>
      BY <2>1, <2>3 DEF Answer
    <3>2. to_client \in Seq(Datagrams)
      BY Types DEF Inv
    <3>3. to_client' = Append(to_client, m)
      BY <2>2, <3>1, <3>2
    <3> QED
      BY <2>2, <3>2, <3>3, RangeAppended
  <2>7. Range(to_server') \subseteq Range(to_server)
    BY <1>1, <1>2, <2>1, RangeRemoved DEF Answer
  <2>8. /\ Dark /\ (\A n \in Range(to_client) : n.kind = "accept")
        /\ \A n \in Range(to_server) : n.kind = "ack" /\ n.id = 0
        /\ client.write_buf = "ack" /\ client.remote_id_last = 0
    BY <1>1, <1>2, <1>5 DEF Inv, Opening
  <2>9. device.polled /\ \A t \in SwitcherSessions \ {s} : switcher[t].phase = "none"
    BY <1>1, <1>5, Live DEF Alive
  <2>10. OneAlive' /\ Opening' /\ Connecting'
    BY <2>2, <2>4, <2>5, <2>6, <2>7, <2>8, <2>9 DEF OneAlive, Alive, Opening, Connecting
  <2>11. Requesting' /\ Rejecting'
    BY <2>2, <2>5, <2>6, <2>7, <2>8, <2>9 DEF Requesting, Rejecting
  <2>12. /\ Len(<<m>>) = 1 /\ DOMAIN <<m>> = {1} /\ <<m>>[1] = m /\ <<m>> # <<>>
         /\ 1 <= Unacknowledged
    BY DeviceAssumption
  <2>13. Chains'
    <3> SUFFICES ASSUME NEW t \in SwitcherSessions
                 PROVE  /\ switcher'[t].phase # "connected" => switcher'[t].chain = <<>>
                        /\ Len(switcher'[t].chain) <= Unacknowledged
                        /\ \A j \in DOMAIN switcher'[t].chain : switcher'[t].chain[j].kind = "data"
      BY DEF Chains
    <3>1. CASE t = s
      BY <2>2, <2>4, <2>12, <3>1
    <3>2. CASE t # s
      BY <2>4, <3>2 DEF Inv, Chains
    <3> QED
      BY <3>1, <3>2
  <2>14. Heard' /\ LitOnlyConnected' /\ SendsWholeBuffer'
    BY <2>5, <2>8 DEF Heard, Inv, LitOnlyConnected, SendsWholeBuffer
  <2>15. Unheard'
    <3>1. Unmoved(switcher'[s])
      BY <2>2, <2>4, <2>12 DEF Unmoved
    <3> QED
      BY <2>2, <2>4, <2>5, <2>6, <2>7, <2>8, <2>9, <3>1 DEF Unheard
  <2> QED
    BY <1>3, <2>10, <2>11, <2>13, <2>14, <2>15 DEF Inv
<1>6. CASE switcher[s].phase # "opening"
  <2>1. PICK j \in DOMAIN chain :
           chain[j].id = to_server[k].id /\ Answer(k, [switcher EXCEPT ![s] = Acknowledged(@, j)], <<>>)
    BY <1>6 DEF Acknowledge
  <2>2. switcher[s].phase = "connected"
    BY <1>1, <1>4, <2>1 DEF Inv, Chains
  <2>3. client.write_buf \in {"ack", "retxreq"}
    BY <1>1, <2>2 DEF Inv, Connecting
  <2>4. device.atem_state = "connected"
    <3> SUFFICES ASSUME device.atem_state # "connected" PROVE FALSE
      OBVIOUS
    <3>1. to_server[k].id = 0 /\ chain[j].id = j
      BY <1>1, <1>2, <2>1, <2>2, <2>3 DEF Inv, Unheard, Unmoved
    <3> QED
      BY <1>4, <2>1, <3>1
  <2>5. /\ \A t \in SwitcherSessions : t # s => switcher'[t] = switcher[t]
        /\ switcher'[s].phase = "connected" /\ switcher'[s].chain = SubSeq(chain, j + 1, Len(chain))
    BY <1>1, <1>4, <2>1, <2>2 DEF Answer, Acknowledged, SessionType
  <2>6. UNCHANGED <<client, device>>
    BY <2>1 DEF Answer
  <2>7. to_client' = to_client
    BY <2>1, Types DEF Answer, Inv
  <2>8. Range(to_server') \subseteq Range(to_server)
    BY <1>1, <1>2, <2>1, RangeRemoved DEF Answer
  <2>9. /\ device.polled /\ (\A m \in Range(to_server) : m.kind # "open")
        /\ \A m \in Range(to_client) : m.kind # "reject"
    BY <1>1, <2>2, Live DEF Alive
  <2>10. OneAlive' /\ Opening' /\ Connecting'
    BY <1>1, <2>2, <2>5, <2>6, <2>7, <2>8 DEF Inv, OneAlive, Alive, Opening, Connecting
  <2>11. Requesting' /\ Rejecting'
    BY <2>6, <2>7, <2>8, <2>9 DEF Requesting, Rejecting
  <2>12. Chains'
    <3> DEFINE rest == SubSeq(chain, j + 1, Len(chain))
    <3>1. /\ Len(rest) = Len(chain) - j /\ DOMAIN rest = 1..Len(chain) - j
          /\ \A i \in 1..Len(chain) - j : rest[i] = chain[i + j]
          /\ Len(chain) \in Nat /\ j \in 1..Len(chain)
      <4>1. Len(chain) \in Nat /\ j \in 1..Len(chain)
        BY <1>4, <2>1
      <4> HIDE DEF chain
      <4> QED
        BY <1>4, <4>1
    <3>2. Len(rest) <= Unacknowledged
      <4>1. Len(chain) <= Unacknowledged /\ j \in Nat /\ Len(chain) \in Nat /\ Unacknowledged \in Nat
        BY <1>1, <3>1, DeviceAssumption DEF Inv, Chains
      <4>2. Len(chain) - j <= Unacknowledged
        BY <4>1
      <4> QED
        BY <3>1, <4>2
    <3>3. \A i \in DOMAIN rest : rest[i].kind = "data"
      <4> SUFFICES ASSUME NEW i \in 1..Len(chain) - j PROVE rest[i].kind = "data"
        BY <3>1
      <4>1. i + j \in 1..Len(chain)
        <5>1. Len(chain) \in Nat /\ j \in 1..Len(chain) /\ i \in 1..Len(chain) - j
          BY <3>1
        <5> HIDE DEF chain
        <5> QED
          BY <5>1
      <4>2. chain[i + j].kind = "data"
        BY <1>1, <1>4, <4>1 DEF Inv, Chains
      <4> QED
        BY <3>1, <4>2
    <3> HIDE DEF rest
    <3> SUFFICES ASSUME NEW t \in SwitcherSessions
                 PROVE  /\ switcher'[t].phase # "connected" => switcher'[t].chain = <<>>
                        /\ Len(switcher'[t].chain) <= Unacknowledged
                        /\ \A i \in DOMAIN switcher'[t].chain : switcher'[t].chain[i].kind = "data"
      BY DEF Chains
    <3>4. CASE t = s
      BY <2>5, <3>2, <3>3, <3>4 DEF rest
    <3>5. CASE t # s
      BY <2>5, <3>5 DEF Inv, Chains
    <3> QED
      BY <3>4, <3>5
  <2>13. Heard' /\ Unheard' /\ LitOnlyConnected' /\ SendsWholeBuffer'
    BY <2>4, <2>6, <2>7 DEF Inv, Heard, Unheard, LitOnlyConnected, SendsWholeBuffer
  <2> QED
    BY <1>3, <2>10, <2>11, <2>12, <2>13 DEF Inv
<1> QED
  BY <1>5, <1>6
LEMMA EndInv == ASSUME Inv, NEW k \in 1..InFlight, End(k) PROVE Inv'
<1> DEFINE s == to_server[k].session
           m == Datagram("closed", s)
<1>1. /\ k \in DOMAIN to_server /\ to_server[k].kind \in {"closed", "closing"}
      /\ s \in SwitcherSessions
  BY DEF End, Arriving, Expects
<1>2. to_server[k] \in Range(to_server) /\ to_server \in Seq(Replies) /\ to_client \in Seq(Datagrams)
  BY <1>1, Types, InRange DEF Inv
<1>3. TypeOK'
  <2>1. SwitcherRecv
    BY DEF SwitcherRecv
  <2> QED
    BY <2>1, SwitcherRecvType DEF Inv
<1>4. Answer(k, [switcher EXCEPT ![s] = NoSession],
             IF to_server[k].kind = "closing" THEN <<m>> ELSE <<>>)
  BY DEF End
<1>5. m \in Datagrams /\ m.kind = "closed"
  BY <1>1, DatagramType DEF Datagram
<1> HIDE DEF m
<1>6. to_client' = to_client \/ to_client' = Append(to_client, m)
  <2>1. to_client' = to_client \o <<m>> \/ to_client' = to_client \o <<>>
    <3>1. CASE to_server[k].kind = "closing"
      BY <1>4, <3>1 DEF Answer
    <3>2. CASE to_server[k].kind # "closing"
      BY <1>4, <3>2 DEF Answer
    <3> QED
      BY <3>1, <3>2
  <2>2. to_client \o <<m>> = Append(to_client, m) /\ to_client \o <<>> = to_client
    BY <1>2, <1>5
  <2> QED
    BY <2>1, <2>2
<1>7. /\ Range(to_client) \subseteq Range(to_client')
      /\ Range(to_client') \subseteq Range(to_client) \cup {m}
  <2>1. Range(Append(to_client, m)) = Range(to_client) \cup {m}
    BY <1>2, <1>5, RangeAppended
  <2> QED
    BY <1>6, <2>1
<1>8. Range(to_server') \subseteq Range(to_server)
  BY <1>1, <1>2, <1>4, RangeRemoved DEF Answer
<1>9. UNCHANGED <<client, device>>
  BY <1>4 DEF Answer
<1>10. \A t \in SwitcherSessions : switcher[t].phase \notin {"opening", "connected"}
  BY <1>1, <1>2 DEF Inv, Opening, Connecting
<1>11. device.polled /\ \A n \in Range(to_server) : n.kind # "open"
  <2> SUFFICES ASSUME ~ device.polled \/ \E n \in Range(to_server) : n.kind = "open" PROVE FALSE
    OBVIOUS
  <2>1. to_server = IF device.polled THEN <<Open>> ELSE <<>>
    BY DEF Inv, Requesting
  <2>2. Range(to_server) \subseteq {Open}
    BY <2>1, RangeFew
  <2> QED
    BY <1>1, <1>2, <2>2 DEF Open
<1>12. \A n \in Range(to_client) : n.kind # "reject"
  BY <1>2, RangeFew DEF Inv, Rejecting
<1>13. /\ \A t \in SwitcherSessions : t # s => switcher'[t] = switcher[t]
       /\ switcher'[s].phase = "none" /\ switcher'[s].chain = <<>>
  BY <1>1, <1>4, Types DEF Answer, NoSession, Inv
<1>14. OneAlive' /\ Opening' /\ Connecting'
  BY <1>10, <1>13 DEF Inv, OneAlive, Alive, Opening, Connecting
<1>15. Requesting' /\ Rejecting'
  BY <1>5, <1>7, <1>8, <1>9, <1>11, <1>12 DEF Requesting, Rejecting
<1>16. Chains'
  <2>1. Len(<<>>) = 0 /\ DOMAIN <<>> = {} /\ 0 <= Unacknowledged
    BY DeviceAssumption
  <2> QED
    BY <1>13, <2>1 DEF Inv, Chains
<1>17. Heard' /\ LitOnlyConnected' /\ SendsWholeBuffer'
  BY <1>5, <1>7, <1>9 DEF Inv, Heard, LitOnlyConnected, SendsWholeBuffer
<1>18. Unheard'
  BY <1>5, <1>7, <1>9, <1>10, <1>13 DEF Inv, Unheard
<1> QED
  BY <1>3, <1>14, <1>15, <1>16, <1>17, <1>18 DEF Inv

LEMMA SwitcherRecvInv == ASSUME Inv, SwitcherRecv PROVE Inv'
<1>1. PICK k \in 1..InFlight : Accept(k) \/ Reject(k) \/ Acknowledge(k) \/ End(k) \/ Ignore(k)
  BY DEF SwitcherRecv
<1>2. CASE Ignore(k)
  <2>1. TypeOK'
    BY SwitcherRecvType DEF Inv
  <2>2. k \in DOMAIN to_server /\ to_server' = RemoveAt(to_server, k)
    BY <1>2 DEF Ignore, Answer, Arriving
  <2>3. UNCHANGED <<client, device, switcher, to_client>>
    BY <1>2, Types DEF Ignore, Answer, Inv
  <2> QED
    BY <2>1, <2>2, <2>3, FewerToServer
<1> QED
  BY <1>1, <1>2, AcceptInv, RejectInv, AcknowledgeInv, EndInv

\* What is left of the channels when the device takes a datagram.
LEMMA Taken ==
    ASSUME Inv, NEW k \in 1..InFlight, Recv(k)
    PROVE  /\ k \in DOMAIN to_client /\ to_client[k] \in Range(to_client)
           /\ to_client[k] \in Datagrams
           /\ Range(to_client') \subseteq Range(to_client)
           /\ \A m \in Range(to_client') : m.kind # "reject"
           /\ device.polled /\ \A m \in Range(to_server) : m.kind # "open"
           /\ device \in DeviceType /\ client \in Clients
<1>1. k \in DOMAIN to_client /\ device.polled /\ to_client' = RemoveAt(to_client, k)
  BY DEF Recv, Arriving
<1>2. to_client \in Seq(Datagrams)
  BY Types DEF Inv
<1>3. to_client[k] \in Range(to_client) /\ to_client[k] \in Datagrams
  BY <1>1, <1>2, InRange
<1>4. Range(to_client') \subseteq Range(to_client)
  BY <1>1, <1>2, RangeRemoved
<1>5. \A m \in Range(to_client') : m.kind # "reject"
  <2> SUFFICES ASSUME NEW m \in Range(to_client'), m.kind = "reject" PROVE FALSE
    OBVIOUS
  <2>1. to_client = <<m>>
    BY <1>4 DEF Inv, Rejecting
  <2>2. Len(to_client) = 1
    BY <2>1
  <2>3. to_client' = <<>>
    BY <1>1, <1>2, <2>2, RangeRemoved
  <2> QED
    BY <2>3, RangeFew
<1>6. \A m \in Range(to_server) : m.kind # "open"
  BY <1>1, <1>2 DEF Inv, Requesting
<1> QED
  BY <1>1, <1>3, <1>4, <1>5, <1>6, Types DEF Inv

\* The device answers, or not.
LEMMA Answering ==
    ASSUME Inv, NEW k \in 1..InFlight, Recv(k)
    PROVE  LET parsed == Parse(client, to_client[k])
           IN  /\ parsed.status \notin Answered => to_server' = to_server
               /\ parsed.status \in Answered =>
                     Range(to_server') = Range(to_server) \cup {parsed.reply}
<1> DEFINE parsed == Parse(client, to_client[k])
<1>1. to_server' = IF parsed.status \in Answered THEN Append(to_server, parsed.reply) ELSE to_server
  BY DEF Recv
<1>2. parsed.status \in Answered => parsed.reply \in Replies
  BY Taken, ParseType
<1>3. to_server \in Seq(Replies)
  BY Types DEF Inv
<1> HIDE DEF parsed
<1> QED
  BY <1>1, <1>2, <1>3, RangeAppended DEF parsed
\* The device closes: it answers what it must, and takes nothing.
LEMMA RecvClosing ==
    ASSUME Inv, NEW k \in 1..InFlight, Recv(k), client.write_buf = "close"
    PROVE  Inv'
<1> DEFINE m == to_client[k]
           parsed == Parse(client, m)
<1>1. TypeOK'
  BY RecvType DEF Inv
<1>2. /\ parsed.client = client
      /\ parsed.status \in {"closed", "write_only"}
      /\ parsed.status = "write_only" => parsed.reply.kind \in {"closed", "closing"}
  BY DEF Parse, ParseClosing, Unanswered, Parsed, Reply
<1>3. client' = client /\ device' = device /\ switcher' = switcher
  BY <1>2 DEF Recv, Process
<1>4. /\ Range(to_client') \subseteq Range(to_client)
      /\ \A n \in Range(to_client') : n.kind # "reject"
      /\ device.polled /\ \A n \in Range(to_server) : n.kind # "open"
  BY Taken
<1>5. \A n \in Range(to_server') : n.kind # "open"
  BY <1>2, <1>4, Answering DEF Answered
<1>6. \A s \in SwitcherSessions : switcher[s].phase \notin {"opening", "connected"}
  BY DEF Inv, Opening, Connecting
<1>7. OneAlive' /\ Opening' /\ Connecting' /\ Chains'
  BY <1>3, <1>6 DEF Inv, OneAlive, Alive, Opening, Connecting, Chains
<1>8. Requesting' /\ Rejecting'
  BY <1>3, <1>4, <1>5 DEF Requesting, Rejecting
<1>9. Heard' /\ Unheard' /\ LitOnlyConnected' /\ SendsWholeBuffer'
  BY <1>3 DEF Inv, Heard, Unheard, LitOnlyConnected, SendsWholeBuffer
<1> QED
  BY <1>1, <1>7, <1>8, <1>9 DEF Inv

LEMMA RecvAccept ==
    ASSUME Inv, NEW k \in 1..InFlight, Recv(k), client.write_buf # "close",
           to_client[k].kind = "accept"
    PROVE  Inv'
<1> DEFINE m == to_client[k]
           parsed == Parse(client, m)
<1>1. TypeOK'
  BY RecvType DEF Inv
<1>2. parsed = ParseAccept(client, m)
  BY DEF Parse
<1>3. /\ parsed.status \in {"accepted", "write_only"}
      /\ parsed.reply.kind = "ack" /\ parsed.reply.id = 0
      /\ parsed.client = IF client.write_buf = "ack" THEN client
                         ELSE [write_buf |-> "ack", write_len |-> LenHeader, remote_id_last |-> 0]
  BY <1>2 DEF ParseAccept, Parsed, Reply
<1>4. client' = parsed.client /\ device' = device /\ switcher' = switcher
  BY <1>3 DEF Recv, Process
<1>5. /\ Range(to_client') \subseteq Range(to_client)
      /\ \A n \in Range(to_client') : n.kind # "reject"
      /\ device.polled /\ \A n \in Range(to_server) : n.kind # "open"
      /\ m \in Range(to_client)
  BY Taken
<1>6. Range(to_server') = Range(to_server) \cup {parsed.reply}
  BY <1>3, Answering DEF Answered
<1>7. client'.write_buf = "ack" /\ (client.write_buf = "ack" => client' = client)
  BY <1>3, <1>4
<1>8. client.write_buf # "ack" => client'.remote_id_last = 0 /\ client'.write_len = LenHeader
  BY <1>3, <1>4
<1> DEFINE reply == parsed.reply
<1>9. reply.kind = "ack" /\ reply.id = 0
  BY <1>3
<1> HIDE DEF parsed, reply
<1>10. OneAlive' /\ Chains' /\ LitOnlyConnected' /\ Heard'
  BY <1>4, <1>7 DEF Inv, OneAlive, Alive, Chains, LitOnlyConnected, Heard
<1>11. Opening'
  BY <1>4, <1>5, <1>6, <1>7, <1>8, <1>9 DEF Inv, Opening, Dark, reply
<1>12. Connecting'
  BY <1>4, <1>5, <1>6, <1>7, <1>9 DEF Inv, Connecting, reply
<1>13. Requesting' /\ Rejecting'
  BY <1>4, <1>5, <1>6, <1>9 DEF Requesting, Rejecting, reply
<1>14. Unheard'
  BY <1>4, <1>5, <1>6, <1>7, <1>8, <1>9 DEF Inv, Unheard, reply
<1>15. SendsWholeBuffer'
  BY <1>7, <1>8 DEF Inv, SendsWholeBuffer, BufferLen
<1> QED
  BY <1>1, <1>10, <1>11, <1>12, <1>13, <1>14, <1>15 DEF Inv

\* What the client makes of data.
LEMMA DataParsed ==
    ASSUME NEW c \in Clients, c.write_buf # "close", NEW m \in Datagrams, m.kind = "data"
    PROVE  LET parsed == Parse(c, m)
           IN  /\ parsed.client.write_len = c.write_len
               /\ parsed.client.write_buf \in {"ack", "retxreq"}
               /\ \/ /\ parsed.status = "write" /\ m.id = Expected(c)
                     /\ parsed.client.remote_id_last = m.id
                     /\ parsed.client.write_buf = "ack"
                     /\ parsed.reply.kind = "ack" /\ parsed.reply.id = m.id
                  \/ /\ parsed.status = "write_only" /\ m.id # Expected(c)
                     /\ parsed.client.remote_id_last = c.remote_id_last
                     /\ parsed.client.write_buf = "retxreq" /\ parsed.reply.kind = "retxreq"
                  \/ /\ parsed.status = "write_only" /\ m.id # Expected(c)
                     /\ parsed.client.remote_id_last = c.remote_id_last
                     /\ parsed.client.write_buf = "ack"
                     /\ parsed.reply.kind = "ack" /\ parsed.reply.id = c.remote_id_last
<1>1. Parse(c, m) = ParseData(c, m)
  BY DEF Parse
<1> DEFINE taken == [c EXCEPT !.write_buf = "ack", !.remote_id_last = m.id]
           requesting == [c EXCEPT !.write_buf = "retxreq"]
           acknowledging == [c EXCEPT !.write_buf = "ack"]
           request == Reply("retxreq", m, Expected(c))
<1>2. /\ taken.write_buf = "ack" /\ taken.write_len = c.write_len /\ taken.remote_id_last = m.id
      /\ requesting.write_buf = "retxreq" /\ requesting.write_len = c.write_len
      /\ requesting.remote_id_last = c.remote_id_last
      /\ acknowledging.write_buf = "ack" /\ acknowledging.write_len = c.write_len
      /\ acknowledging.remote_id_last = c.remote_id_last
  BY DEF Clients
<1>3. /\ \A id : Reply("ack", m, id).kind = "ack" /\ Reply("ack", m, id).id = id
      /\ request.kind = "retxreq"
  BY DEF Reply
<1>4. Parse(c, m) = IF m.id = Expected(c) THEN Parsed(taken, "write", Reply("ack", m, m.id))
                    ELSE IF IsAhead(c, m.id) THEN Parsed(requesting, "write_only", request)
                    ELSE Parsed(acknowledging, "write_only", Reply("ack", m, c.remote_id_last))
  BY <1>1 DEF ParseData, IsNext
<1>5. \A client_, status, reply :
         LET parsed == Parsed(client_, status, reply)
         IN  parsed.client = client_ /\ parsed.status = status /\ parsed.reply = reply
  BY DEF Parsed
<1> HIDE DEF taken, requesting, acknowledging, request
<1>6. CASE m.id = Expected(c)
  BY <1>2, <1>3, <1>4, <1>5, <1>6
<1>7. CASE m.id # Expected(c) /\ IsAhead(c, m.id)
  BY <1>2, <1>3, <1>4, <1>5, <1>7
<1>8. CASE m.id # Expected(c) /\ ~ IsAhead(c, m.id)
  BY <1>2, <1>3, <1>4, <1>5, <1>8
<1> QED
  BY <1>6, <1>7, <1>8

LEMMA RecvData ==
    ASSUME Inv, NEW k \in 1..InFlight, Recv(k), client.write_buf # "close",
           to_client[k].kind = "data"
    PROVE  Inv'
<1> DEFINE m == to_client[k]
           parsed == Parse(client, m)
           reply == parsed.reply
<1>1. TypeOK'
  BY RecvType DEF Inv
<1>2. /\ Range(to_client') \subseteq Range(to_client)
      /\ \A n \in Range(to_client') : n.kind # "reject"
      /\ device.polled /\ \A n \in Range(to_server) : n.kind # "open"
      /\ m \in Range(to_client) /\ m \in Datagrams
      /\ device \in DeviceType /\ client \in Clients
  BY Taken
<1>3. client' = parsed.client /\ device' = Process(device, parsed.status, m) /\ switcher' = switcher
  BY DEF Recv
<1>4. /\ client'.write_len = client.write_len
      /\ client'.write_buf \in {"ack", "retxreq"}
      /\ \/ parsed.status = "write" /\ m.id = Expected(client)
         \/ /\ parsed.status = "write_only"
            /\ client'.remote_id_last = client.remote_id_last
            /\ reply.kind = "ack" => reply.id = client.remote_id_last
      /\ reply.kind \in {"ack", "retxreq"}
  BY <1>2, <1>3, DataParsed
<1>5. Range(to_server') = Range(to_server) \cup {reply}
  BY <1>4, Answering DEF Answered
<1>6. client.write_buf \in {"ack", "retxreq"}
  BY <1>2 DEF Inv, Heard
<1>7. \A s \in SwitcherSessions : switcher[s].phase # "opening"
  BY <1>2 DEF Inv, Opening
<1>8. device'.polled = device.polled
  BY <1>2, <1>3, ProcessType
<1>9. /\ device'.atem_state # "connected" =>
            device.atem_state # "connected" /\ parsed.status = "write_only" /\ device' = device
      /\ device'.conn \/ device'.tally # "off" => device'.atem_state = "connected"
  <2>1. CASE parsed.status = "write_only"
    <3>1. device' = device
      BY <1>3, <2>1 DEF Process
    <3> QED
      BY <2>1, <3>1 DEF Inv, LitOnlyConnected
  <2>2. CASE parsed.status = "write"
    <3>1. m.version \/ device.atem_state = "connected"
      <4> SUFFICES ASSUME device.atem_state # "connected" PROVE m.version
        OBVIOUS
      <4>1. client.remote_id_last = 0 /\ (m.id = 1 => m.version)
        BY <1>2, <1>6 DEF Inv, Unheard
      <4>2. Expected(client) = 1
        <5>1. 1 < RemoteIdCount /\ RemoteIdCount \in Nat \ {0}
          BY ClientAssumption, DeviceAssumption
        <5>2. 1 % RemoteIdCount = 1
          BY <5>1, ModSmall
        <5> QED
          BY <4>1, <5>2 DEF Expected
      <4> QED
        BY <1>4, <2>2, <4>1, <4>2
    <3>2. device' = ProcessCommands(device, m)
      BY <1>3, <2>2 DEF Process
    <3> HIDE DEF m
    <3>3. device'.atem_state = "connected"
      BY <1>2, <3>1, <3>2 DEF ProcessCommands, DeviceType
    <3> QED
      BY <3>3
  <2> QED
    BY <1>4, <2>1, <2>2
<1> HIDE DEF m, parsed, reply
<1>10. OneAlive' /\ Chains' /\ LitOnlyConnected' /\ Opening'
  BY <1>3, <1>7, <1>9 DEF Inv, OneAlive, Alive, Chains, LitOnlyConnected, Opening
<1>11. Connecting' /\ Heard'
  BY <1>2, <1>3, <1>4, <1>5 DEF Inv, Connecting, Heard
<1>12. Requesting' /\ Rejecting'
  BY <1>2, <1>4, <1>5, <1>8 DEF Requesting, Rejecting
<1>13. Unheard'
  BY <1>2, <1>3, <1>4, <1>5, <1>6, <1>9 DEF Inv, Unheard
<1>14. SendsWholeBuffer'
  BY <1>4, <1>6 DEF Inv, SendsWholeBuffer, BufferLen
<1> QED
  BY <1>1, <1>10, <1>11, <1>12, <1>13, <1>14 DEF Inv
LEMMA RecvRejected ==
    ASSUME Inv, NEW k \in 1..InFlight, Recv(k), client.write_buf # "close",
           to_client[k].kind = "reject"
    PROVE  Inv'
<1> DEFINE m == to_client[k]
<1>1. TypeOK'
  BY RecvType DEF Inv
<1>2. /\ k \in DOMAIN to_client /\ m \in Range(to_client)
      /\ device.polled /\ device \in DeviceType /\ client \in Clients
  BY Taken
<1>3. Idle /\ Dark /\ to_client = <<m>> /\ to_server = <<>>
  BY <1>2 DEF Inv, Rejecting
<1>4. /\ client' = [client EXCEPT !.write_buf = "none"]
      /\ device' = [device EXCEPT !.atem_state = "rejected"]
      /\ to_server' = to_server /\ switcher' = switcher
  BY DEF Recv, Parse, Unanswered, Parsed, Process, Answered
<1>5. to_client' = <<>>
  <2>1. to_client \in Seq(Datagrams) /\ Len(to_client) = 1
    BY <1>3, Types DEF Inv
  <2> QED
    BY <1>2, <2>1, RangeRemoved DEF Recv
<1>6. client'.write_buf = "none"
  BY <1>2, <1>4 DEF Clients
<1>7. device'.polled /\ device'.tally = "off" /\ ~ device'.conn
  BY <1>2, <1>3, <1>4 DEF DeviceType, Dark
<1>8. OneAlive' /\ Chains' /\ Opening' /\ Connecting'
  BY <1>3, <1>4 DEF Inv, OneAlive, Alive, Chains, Opening, Connecting, Idle
<1>9. Requesting' /\ Rejecting' /\ Heard'
  BY <1>3, <1>4, <1>5, <1>7, RangeFew DEF Requesting, Rejecting, Heard
<1>10. Unheard'
  BY <1>3, <1>4, <1>5, RangeFew DEF Unheard, Idle, Alive
<1>11. LitOnlyConnected' /\ SendsWholeBuffer'
  BY <1>6, <1>7 DEF LitOnlyConnected, SendsWholeBuffer
<1> QED
  BY <1>1, <1>8, <1>9, <1>10, <1>11 DEF Inv

LEMMA RecvClosed ==
    ASSUME Inv, NEW k \in 1..InFlight, Recv(k), client.write_buf # "close",
           to_client[k].kind \in {"closing", "closed"}
    PROVE  Inv'
<1> DEFINE m == to_client[k]
           parsed == Parse(client, m)
<1>1. TypeOK'
  BY RecvType DEF Inv
<1>2. /\ Range(to_client') \subseteq Range(to_client)
      /\ \A n \in Range(to_client') : n.kind # "reject"
      /\ device.polled /\ \A n \in Range(to_server) : n.kind # "open"
      /\ k \in DOMAIN to_client /\ m \in Range(to_client)
      /\ device \in DeviceType /\ client \in Clients
  BY Taken
<1>3. CASE m.kind = "closing"
  <2>1. /\ parsed.status = "closing" /\ parsed.reply.kind = "closed"
        /\ client' = [client EXCEPT !.write_buf = "close", !.write_len = LenSyn]
        /\ device' = TallyReset([device EXCEPT !.atem_state = "disconnected"])
        /\ switcher' = switcher
    BY <1>3 DEF Recv, Parse, Parsed, Process, Reply
  <2>2. client'.write_buf = "close" /\ client'.write_len = LenSyn
    BY <1>2, <2>1 DEF Clients
  <2>3. device'.polled /\ device'.tally = "off" /\ ~ device'.conn
    BY <1>2, <2>1 DEF DeviceType, TallyReset
  <2>4. \A n \in Range(to_server') : n.kind # "open"
    BY <1>2, <2>1, Answering DEF Answered
  <2>5. \A s \in SwitcherSessions : switcher[s].phase \notin {"opening", "connected"}
    BY <1>2, <1>3 DEF Inv, Opening, Connecting
  <2>6. OneAlive' /\ Chains' /\ Opening' /\ Connecting'
    BY <2>1, <2>5 DEF Inv, OneAlive, Alive, Chains, Opening, Connecting
  <2>7. Requesting' /\ Rejecting'
    BY <1>2, <2>3, <2>4 DEF Requesting, Rejecting
  <2>8. Heard' /\ Unheard' /\ LitOnlyConnected' /\ SendsWholeBuffer'
    BY <2>2, <2>3 DEF Heard, Unheard, LitOnlyConnected, SendsWholeBuffer, BufferLen
  <2> QED
    BY <1>1, <2>6, <2>7, <2>8 DEF Inv
<1>4. CASE m.kind = "closed"
  <2>1. UNCHANGED <<client, device, switcher, to_server>>
    BY <1>4 DEF Recv, Parse, Unanswered, Parsed, Process, Answered
  <2> QED
    BY <1>1, <1>2, <2>1, FewerToClient DEF Recv
<1> QED
  BY <1>3, <1>4

LEMMA RecvInv == ASSUME Inv, NEW k \in 1..InFlight, Recv(k) PROVE Inv'
<1>1. to_client[k] \in Datagrams
  BY Taken
<1>2. to_client[k].kind \in {"accept", "reject", "data", "closing", "closed"}
  BY <1>1 DEF Datagrams
<1> QED
  BY <1>2, RecvClosing, RecvAccept, RecvData, RecvRejected, RecvClosed

LEMMA NextInv == ASSUME ~ Outlives PROVE Inv /\ [Next]_vars => Inv'
<1> SUFFICES ASSUME Inv, [Next]_vars PROVE Inv'
  OBVIOUS
<1>1. CASE UNCHANGED vars
  <2>1. TypeOK'
    BY <1>1 DEF vars, Inv, TypeOK
  <2>2. OneAlive' /\ Requesting' /\ Rejecting' /\ Opening'
    BY <1>1 DEF vars, Inv, OneAlive, Alive, Requesting, Rejecting, Opening, Idle, Dark
  <2>3. Connecting' /\ Chains' /\ Heard' /\ Unheard'
    BY <1>1 DEF vars, Inv, Connecting, Chains, Heard, Unheard
  <2>4. LitOnlyConnected' /\ SendsWholeBuffer'
    BY <1>1 DEF vars, Inv, LitOnlyConnected, SendsWholeBuffer
  <2> QED
    BY <2>1, <2>2, <2>3, <2>4 DEF Inv
<1>2. ASSUME NEW s \in SwitcherSessions, SwitcherActs(s) PROVE Inv'
  BY <1>2, ReportInv, RepeatInv, DropInv, ForgetInv DEF SwitcherActs
<1>3. CASE Next
  BY <1>2, <1>3, NextCases, DeviceInv, SwitcherRecvInv, RecvInv, LoseInv
<1> QED
  BY <1>1, <1>3

\* The inductive invariant of the device and its switcher, when no session outlives the
\* timeout (atem_timeout_callback()): a request starts anew, one session follows from it at most,
\* and a device that is not connected has taken no data.
THEOREM DeviceInvariant == ASSUME ~ Outlives PROVE Spec => []Inv
<1>1. Init => Inv
  BY InitInv
<1>2. Inv /\ [Next]_vars => Inv'
  BY NextInv
<1> QED
  BY <1>1, <1>2, PTL DEF Spec

\* Nothing is lit but while the device says that it is connected (atem_process(), atem_timeout_callback()), even
\* when datagrams overtake each other.
THEOREM LitOnlyConnectedThm == ASSUME ~ Outlives PROVE Spec => []LitOnlyConnected
<1>1. Inv => LitOnlyConnected
  BY DEF Inv
<1> QED
  BY <1>1, DeviceInvariant, PTL

\* The buffer that is sent is as long as what is sent from it, although atem_parse() does not set
\* the length when it replies to data, even when datagrams overtake each other.
THEOREM SendsWholeBufferThm == ASSUME ~ Outlives PROVE Spec => []SendsWholeBuffer
<1>1. Inv => SendsWholeBuffer
  BY DEF Inv
<1> QED
  BY <1>1, DeviceInvariant, PTL
-------------------------------------------------------------------------------
(***************************************************************************)
(* The tally a session has reported.                                       *)
(***************************************************************************)

LEMMA TallySame ==
    ASSUME NEW session, NEW other, NEW k \in Nat, session.tally = other.tally,
           \A j \in 1..k : session.chain[j] = other.chain[j]
    PROVE  TallyAfter(session, k) = TallyAfter(other, k)
<1> DEFINE reports(x) == {j \in 1..k : x.chain[j].tally # "none"}
<1>1. reports(session) = reports(other)
  OBVIOUS
<1>2. reports(session) # {} => Max(reports(session)) \in 1..k
  <2> SUFFICES ASSUME reports(session) # {} PROVE Max(reports(session)) \in 1..k
    OBVIOUS
  <2> DEFINE S == reports(session)
  <2>1. S \in SUBSET (1..k)
    OBVIOUS
  <2> HIDE DEF S
  <2>2. \E m \in S : \A j \in S : j <= m
    BY <2>1, GreatestIn DEF S
  <2>3. Max(S) \in S
    BY <2>1, <2>2 DEF Max
  <2> QED
    BY <2>1, <2>3 DEF S
<1>3. CASE reports(session) = {}
  BY <1>1, <1>3 DEF TallyAfter
<1>4. CASE reports(session) # {}
  <2>1. TallyAfter(session, k) = session.chain[Max(reports(session))].tally
    BY <1>4 DEF TallyAfter
  <2>2. TallyAfter(other, k) = other.chain[Max(reports(other))].tally
    BY <1>1, <1>4 DEF TallyAfter
  <2> QED
    BY <1>1, <1>2, <1>4, <2>1, <2>2
<1> QED
  BY <1>3, <1>4

LEMMA TallyNone ==
    ASSUME NEW session
    PROVE  TallyAfter(session, 0) = session.tally
<1>1. 1..0 = {}
  OBVIOUS
<1> QED
  BY <1>1 DEF TallyAfter

\* The packet that is next reports a tally, or leaves it.
LEMMA TallyNext ==
    ASSUME NEW session, NEW k \in Nat
    PROVE  TallyAfter(session, k + 1) =
             IF session.chain[k + 1].tally = "none" THEN TallyAfter(session, k)
             ELSE session.chain[k + 1].tally
<1> DEFINE before == {j \in 1..k : session.chain[j].tally # "none"}
           after == {j \in 1..k + 1 : session.chain[j].tally # "none"}
<1>1. 1..k + 1 = (1..k) \cup {k + 1} /\ k + 1 \in 1..k + 1
  OBVIOUS
<1>2. CASE session.chain[k + 1].tally = "none"
  <2>1. after = before
    BY <1>1, <1>2
  <2> QED
    BY <1>2, <2>1 DEF TallyAfter
<1>3. CASE session.chain[k + 1].tally # "none"
  <2>1. k + 1 \in after /\ after # {}
    BY <1>1, <1>3
  <2>2. \A j \in after : j \in Int /\ k + 1 >= j
    BY <1>1
  <2> HIDE DEF after
  <2>3. Max(after) \in after /\ Max(after) >= k + 1
    BY <2>1, <2>2 DEF Max
  <2>4. Max(after) = k + 1
    BY <2>2, <2>3
  <2>5. TallyAfter(session, k + 1) = session.chain[Max(after)].tally
    BY <2>1 DEF TallyAfter, after
  <2> QED
    BY <1>3, <2>4, <2>5
<1> QED
  BY <1>2, <1>3

\* What a session has reported up to a packet does not depend on what was acknowledged.
LEMMA TallyAcknowledged ==
    ASSUME NEW session \in SessionType, NEW j \in DOMAIN session.chain,
           NEW k \in j..Len(session.chain)
    PROVE  TallyAfter(Acknowledged(session, j), k - j) = TallyAfter(session, k)
<1> DEFINE chain == session.chain
           later == Acknowledged(session, j)
           T == {i \in Nat : i <= Len(chain) - j =>
                    TallyAfter(later, i) = TallyAfter(session, i + j)}
<1>1. chain \in Seq(Datagrams) /\ Len(chain) \in Nat /\ j \in 1..Len(chain)
  BY DEF SessionType
<1>2. /\ later.tally = TallyAfter(session, j)
      /\ later.chain = SubSeq(chain, j + 1, Len(chain))
  BY DEF Acknowledged, SessionType
<1> HIDE DEF later, chain
<1>3. \A i \in 1..Len(chain) - j : later.chain[i] = chain[i + j]
  BY <1>1, <1>2
<1>4. 0 \in T
  BY <1>1, <1>2, TallyNone
<1>5. ASSUME NEW i \in Nat, i \in T PROVE i + 1 \in T
  <2> SUFFICES ASSUME i + 1 <= Len(chain) - j
               PROVE  TallyAfter(later, i + 1) = TallyAfter(session, i + 1 + j)
    OBVIOUS
  <2>1. TallyAfter(later, i) = TallyAfter(session, i + j)
    BY <1>1, <1>5
  <2>2. i + 1 \in 1..Len(chain) - j /\ i + j \in Nat /\ (i + j) + 1 = i + 1 + j
    <3> DEFINE len == Len(chain)
    <3>1. len \in Nat /\ j \in Nat /\ i + 1 <= len - j
      BY <1>1
    <3> HIDE DEF len
    <3>2. i + 1 \in 1..len - j /\ i + j \in Nat /\ (i + j) + 1 = i + 1 + j
      BY <3>1, SMTT(20)
    <3> QED
      BY <3>2 DEF len
  <2>3. later.chain[i + 1] = session.chain[(i + j) + 1]
    BY <1>3, <2>2 DEF chain
  <2>4. TallyAfter(later, i + 1) =
          IF later.chain[i + 1].tally = "none" THEN TallyAfter(later, i)
          ELSE later.chain[i + 1].tally
    BY TallyNext
  <2>5. TallyAfter(session, (i + j) + 1) =
          IF session.chain[(i + j) + 1].tally = "none" THEN TallyAfter(session, i + j)
          ELSE session.chain[(i + j) + 1].tally
    BY <2>2, TallyNext
  <2> QED
    BY <2>1, <2>2, <2>3, <2>4, <2>5
<1>6. Nat \subseteq T
  <2> HIDE DEF T
  <2> QED
    BY <1>4, <1>5, NatInductionSet
<1>7. k - j \in Nat /\ k - j <= Len(chain) - j /\ (k - j) + j = k
  BY <1>1 DEF chain
<1> QED
  BY <1>6, <1>7 DEF later

-------------------------------------------------------------------------------
(***************************************************************************)
(* When datagrams do not overtake each other, either.                      *)
(*                                                                         *)
(* Ids wrap, so what is on its way is compared by the numbers ids would    *)
(* have if they did not: the session is acknowledged up to number b, its   *)
(* chain has the numbers after b, and the device took the first n of them. *)
(***************************************************************************)

Numbered(session, b, n) ==
    /\ n \in 0..Len(session.chain)
    /\ session.base = b % RemoteIdCount
    /\ \A k \in DOMAIN session.chain : session.chain[k].id = (b + k) % RemoteIdCount

\* The device accepts and takes in order.
Following(session, c, d, b, n) ==
    /\ c.remote_id_last = (b + n) % RemoteIdCount
    /\ d.tally = TallyAfter(session, n)

\* While it is still accepted, the device has taken nothing.
AcceptsIn(channel, c, n) ==
    \A j \in DOMAIN channel : channel[j].kind = "accept" =>
        /\ n = 0 /\ c.remote_id_last = 0 /\ c.write_buf = "ack"
        /\ \A i \in 1..j : channel[i].kind = "accept"

\* What is on its way has number data[j]: a packet of the chain, or one that was acknowledged,
\* but not so long ago that its id is taken for another's.
DataIn(channel, chain, b, n, data) ==
    \A j \in DOMAIN channel : channel[j].kind = "data" =>
        /\ channel[j].id = data[j] % RemoteIdCount
        /\ data[j] <= b + Len(chain)
        /\ b + n < data[j] + Unacknowledged
        /\ data[j] > b => channel[j] = chain[data[j] - b]
        /\ \A i \in 1..j : channel[i].kind = "data" => data[i] < data[j] + Unacknowledged

\* Acknowledgements come in order, and are of what the device took.
AcksIn(channel, b, n, acks) ==
    \A j \in DOMAIN channel : channel[j].kind = "ack" =>
        /\ channel[j].id = acks[j] % RemoteIdCount
        /\ b <= acks[j] /\ acks[j] <= b + n
        /\ \A i \in 1..j : channel[i].kind = "ack" => acks[i] <= acks[j]

InOrder(session, c, d, outward, inward) ==
    \E b \in Int, n \in Nat, data, acks \in [Nat -> Int] :
        /\ Numbered(session, b, n)
        /\ Following(session, c, d, b, n)
        /\ AcceptsIn(outward, c, n)
        /\ DataIn(outward, session.chain, b, n, data)
        /\ AcksIn(inward, b, n, acks)

AllInOrder ==
    \A s \in SwitcherSessions : switcher[s].phase = "connected" =>
        InOrder(switcher[s], client, device, to_client, to_server)

\* The numbers of a channel that is shorter, or longer.
Without(numbers, k) == [j \in Nat |-> IF j < k THEN numbers[j] ELSE numbers[j + 1]]

LEMMA Places ==
    ASSUME NEW S, NEW channel \in Seq(S), NEW k \in DOMAIN channel
    PROVE  /\ DOMAIN RemoveAt(channel, k) = 1..Len(channel) - 1
           /\ Len(channel) \in Nat /\ k \in 1..Len(channel) /\ DOMAIN channel = 1..Len(channel)
           /\ \A j \in 1..Len(channel) - 1 :
                 /\ j < k => RemoveAt(channel, k)[j] = channel[j]
                 /\ ~ (j < k) => RemoveAt(channel, k)[j] = channel[j + 1]
<1>1. /\ RemoveAt(channel, k) \in Seq(S) /\ Len(RemoveAt(channel, k)) = Len(channel) - 1
      /\ \A j \in 1..Len(channel) - 1 :
            RemoveAt(channel, k)[j] = IF j < k THEN channel[j] ELSE channel[j + 1]
  BY Removed
<1> QED
  BY <1>1

LEMMA WithoutFacts ==
    ASSUME NEW numbers \in [Nat -> Int], NEW k \in Nat
    PROVE  /\ Without(numbers, k) \in [Nat -> Int]
           /\ \A j \in Nat : /\ j < k => Without(numbers, k)[j] = numbers[j]
                            /\ ~ (j < k) => Without(numbers, k)[j] = numbers[j + 1]
BY DEF Without

LEMMA AcceptsRemoved ==
    ASSUME NEW S, NEW channel \in Seq(S), NEW k \in DOMAIN channel, NEW c, NEW n,
           AcceptsIn(channel, c, n)
    PROVE  AcceptsIn(RemoveAt(channel, k), c, n)
<1> DEFINE r == RemoveAt(channel, k)
<1>1. /\ DOMAIN r = 1..Len(channel) - 1
      /\ Len(channel) \in Nat /\ k \in 1..Len(channel) /\ DOMAIN channel = 1..Len(channel)
      /\ \A j \in 1..Len(channel) - 1 :
            (j < k => r[j] = channel[j]) /\ (~ (j < k) => r[j] = channel[j + 1])
  BY Places
<1> HIDE DEF r
<1> SUFFICES ASSUME NEW j \in DOMAIN r, r[j].kind = "accept"
             PROVE  /\ n = 0 /\ c.remote_id_last = 0 /\ c.write_buf = "ack"
                    /\ \A i \in 1..j : r[i].kind = "accept"
  BY DEF AcceptsIn, r
<1>2. PICK p \in 1..Len(channel) : r[j] = channel[p] /\ (p = j \/ p = j + 1) /\ (j < k => p = j)
                                 /\ (~ (j < k) => p = j + 1)
  <2>1. j \in 1..Len(channel) /\ j + 1 \in 1..Len(channel)
    BY <1>1
  <2> QED
    BY <1>1, <2>1
<1>3. /\ n = 0 /\ c.remote_id_last = 0 /\ c.write_buf = "ack"
      /\ \A i \in 1..p : channel[i].kind = "accept"
  BY <1>1, <1>2 DEF AcceptsIn
<1>4. ASSUME NEW i \in 1..j PROVE r[i].kind = "accept"
  <2>1. CASE i < k
    <3>1. i \in 1..p /\ i \in 1..Len(channel) - 1
      BY <1>1, <1>2
    <3> QED
      BY <1>1, <1>3, <2>1, <3>1
  <2>2. CASE ~ (i < k)
    <3>1. i + 1 \in 1..p /\ i \in 1..Len(channel) - 1
      BY <1>1, <1>2, <2>2
    <3> QED
      BY <1>1, <1>3, <2>2, <3>1
  <2> QED
    BY <2>1, <2>2
<1> QED
  BY <1>3, <1>4

LEMMA DataRemoved ==
    ASSUME NEW S, NEW channel \in Seq(S), NEW k \in DOMAIN channel, NEW chain,
           NEW b \in Int, NEW n \in Nat, NEW data \in [Nat -> Int],
           DataIn(channel, chain, b, n, data)
    PROVE  DataIn(RemoveAt(channel, k), chain, b, n, Without(data, k))
<1> DEFINE r == RemoveAt(channel, k)
           w == Without(data, k)
<1>1. /\ DOMAIN r = 1..Len(channel) - 1
      /\ Len(channel) \in Nat /\ k \in 1..Len(channel) /\ DOMAIN channel = 1..Len(channel)
      /\ \A j \in 1..Len(channel) - 1 :
            (j < k => r[j] = channel[j]) /\ (~ (j < k) => r[j] = channel[j + 1])
  BY Places
<1>2. \A j \in Nat : (j < k => w[j] = data[j]) /\ (~ (j < k) => w[j] = data[j + 1])
  <2>1. k \in Nat
    BY <1>1
  <2> QED
    BY <2>1 DEF Without
<1> HIDE DEF r, w
<1> SUFFICES ASSUME NEW j \in DOMAIN r, r[j].kind = "data"
             PROVE  /\ r[j].id = w[j] % RemoteIdCount
                    /\ w[j] <= b + Len(chain)
                    /\ b + n < w[j] + Unacknowledged
                    /\ w[j] > b => r[j] = chain[w[j] - b]
                    /\ \A i \in 1..j : r[i].kind = "data" => w[i] < w[j] + Unacknowledged
  BY DEF DataIn, r, w
<1>3. PICK p \in 1..Len(channel) : /\ r[j] = channel[p] /\ w[j] = data[p] /\ (p = j \/ p = j + 1)
                                 /\ (j < k => p = j) /\ (~ (j < k) => p = j + 1)
  <2>1. j \in 1..Len(channel) /\ j + 1 \in 1..Len(channel) /\ j \in Nat
    BY <1>1, PlacesUpTo
  <2> QED
    BY <1>1, <1>2, <2>1
<1>4. /\ channel[p].id = data[p] % RemoteIdCount
      /\ data[p] <= b + Len(chain)
      /\ b + n < data[p] + Unacknowledged
      /\ data[p] > b => channel[p] = chain[data[p] - b]
      /\ \A i \in 1..p : channel[i].kind = "data" => data[i] < data[p] + Unacknowledged
  BY <1>1, <1>3 DEF DataIn
<1>5. ASSUME NEW i \in 1..j, r[i].kind = "data" PROVE w[i] < w[j] + Unacknowledged
  <2>1. CASE i < k
    <3>1. i \in 1..p /\ i \in 1..Len(channel) - 1 /\ i \in Nat
      BY <1>1, <1>3, PlacesUpTo
    <3> QED
      BY <1>1, <1>2, <1>3, <1>4, <1>5, <2>1, <3>1
  <2>2. CASE ~ (i < k)
    <3>1. p = j + 1
      BY <1>1, <1>3, <2>2
    <3>2. i + 1 \in 1..p /\ i \in 1..Len(channel) - 1 /\ i \in Nat
      BY <1>1, <3>1, PlacesUpTo
    <3> QED
      BY <1>1, <1>2, <1>3, <1>4, <1>5, <2>2, <3>2
  <2> QED
    BY <2>1, <2>2
<1> QED
  BY <1>3, <1>4, <1>5

LEMMA AcksRemoved ==
    ASSUME NEW S, NEW channel \in Seq(S), NEW k \in DOMAIN channel,
           NEW b \in Int, NEW n \in Nat, NEW acks \in [Nat -> Int],
           AcksIn(channel, b, n, acks)
    PROVE  AcksIn(RemoveAt(channel, k), b, n, Without(acks, k))
<1> DEFINE r == RemoveAt(channel, k)
           w == Without(acks, k)
<1>1. /\ DOMAIN r = 1..Len(channel) - 1
      /\ Len(channel) \in Nat /\ k \in 1..Len(channel) /\ DOMAIN channel = 1..Len(channel)
      /\ \A j \in 1..Len(channel) - 1 :
            (j < k => r[j] = channel[j]) /\ (~ (j < k) => r[j] = channel[j + 1])
  BY Places
<1>2. \A j \in Nat : (j < k => w[j] = acks[j]) /\ (~ (j < k) => w[j] = acks[j + 1])
  <2>1. k \in Nat
    BY <1>1
  <2> QED
    BY <2>1 DEF Without
<1> HIDE DEF r, w
<1> SUFFICES ASSUME NEW j \in DOMAIN r, r[j].kind = "ack"
             PROVE  /\ r[j].id = w[j] % RemoteIdCount
                    /\ b <= w[j] /\ w[j] <= b + n
                    /\ \A i \in 1..j : r[i].kind = "ack" => w[i] <= w[j]
  BY DEF AcksIn, r, w
<1>3. PICK p \in 1..Len(channel) : /\ r[j] = channel[p] /\ w[j] = acks[p] /\ (p = j \/ p = j + 1)
                                 /\ (j < k => p = j) /\ (~ (j < k) => p = j + 1)
  <2>1. j \in 1..Len(channel) /\ j + 1 \in 1..Len(channel) /\ j \in Nat
    BY <1>1, PlacesUpTo
  <2> QED
    BY <1>1, <1>2, <2>1
<1>4. /\ channel[p].id = acks[p] % RemoteIdCount
      /\ b <= acks[p] /\ acks[p] <= b + n
      /\ \A i \in 1..p : channel[i].kind = "ack" => acks[i] <= acks[p]
  BY <1>1, <1>3 DEF AcksIn
<1>5. ASSUME NEW i \in 1..j, r[i].kind = "ack" PROVE w[i] <= w[j]
  <2>1. CASE i < k
    <3>1. i \in 1..p /\ i \in 1..Len(channel) - 1 /\ i \in Nat
      BY <1>1, <1>3, PlacesUpTo
    <3> QED
      BY <1>1, <1>2, <1>3, <1>4, <1>5, <2>1, <3>1
  <2>2. CASE ~ (i < k)
    <3>1. p = j + 1
      BY <1>1, <1>3, <2>2
    <3>2. i + 1 \in 1..p /\ i \in 1..Len(channel) - 1 /\ i \in Nat
      BY <1>1, <3>1, PlacesUpTo
    <3> QED
      BY <1>1, <1>2, <1>3, <1>4, <1>5, <2>2, <3>2
  <2> QED
    BY <2>1, <2>2
<1> QED
  BY <1>3, <1>4, <1>5
\* Numbers of a channel that is longer.
With(numbers, k, v) == [numbers EXCEPT ![k] = v]

LEMMA DataAppended ==
    ASSUME NEW S, NEW channel \in Seq(S), NEW m \in S, m.kind = "data", NEW chain, NEW v \in Int,
           NEW b \in Int, NEW n \in Nat, NEW data \in [Nat -> Int], Len(chain) \in Nat,
           DataIn(channel, chain, b, n, data),
           m.id = v % RemoteIdCount, v <= b + Len(chain), b + n < v + Unacknowledged,
           v > b => m = chain[v - b], b + Len(chain) < v + Unacknowledged
    PROVE  DataIn(Append(channel, m), chain, b, n, With(data, Len(channel) + 1, v))
<1> DEFINE l == Append(channel, m)
           w == With(data, Len(channel) + 1, v)
<1>1. /\ DOMAIN l = 1..Len(channel) + 1 /\ l[Len(channel) + 1] = m
      /\ Len(channel) \in Nat /\ DOMAIN channel = 1..Len(channel)
      /\ \A j \in 1..Len(channel) : l[j] = channel[j]
  OBVIOUS
<1>2. /\ w[Len(channel) + 1] = v
      /\ \A j \in 1..Len(channel) : w[j] = data[j] /\ data[j] \in Int
  BY <1>1 DEF With
<1> HIDE DEF l, w
<1> SUFFICES ASSUME NEW j \in 1..Len(channel) + 1, l[j].kind = "data"
             PROVE  /\ l[j].id = w[j] % RemoteIdCount
                    /\ w[j] <= b + Len(chain)
                    /\ b + n < w[j] + Unacknowledged
                    /\ w[j] > b => l[j] = chain[w[j] - b]
                    /\ \A i \in 1..j : l[i].kind = "data" => w[i] < w[j] + Unacknowledged
  BY <1>1 DEF DataIn, l, w
<1>3. CASE j = Len(channel) + 1
  <2>1. ASSUME NEW i \in 1..j, l[i].kind = "data" PROVE w[i] < w[j] + Unacknowledged
    <3>1. CASE i = Len(channel) + 1
      <4>1. v < v + Unacknowledged
        BY DeviceAssumption
      <4> QED
        BY <1>2, <1>3, <3>1, <4>1
    <3>2. CASE i # Len(channel) + 1
      <4>1. i \in 1..Len(channel)
        BY <1>1, <1>3, <3>2
      <4>2. data[i] <= b + Len(chain) /\ data[i] \in Int
        BY <1>1, <1>2, <2>1, <4>1 DEF DataIn
      <4>3. data[i] < v + Unacknowledged
        <5> DEFINE len == Len(chain)
                   d == data[i]
                   u == Unacknowledged
        <5>1. d <= b + len /\ d \in Int /\ len \in Nat /\ b + len < v + u /\ u \in Nat
          BY <4>2, DeviceAssumption
        <5> HIDE DEF len, d, u
        <5>2. d < v + u
          BY <5>1
        <5> QED
          BY <5>2 DEF d, u
      <4> QED
        BY <1>2, <1>3, <4>1, <4>3
    <3> QED
      BY <3>1, <3>2
  <2> QED
    BY <1>1, <1>2, <1>3, <2>1
<1>4. CASE j # Len(channel) + 1
  <2>1. j \in 1..Len(channel)
    BY <1>1, <1>4, PlacesOfLonger
  <2>2. \A i \in 1..j : i \in 1..Len(channel)
    BY <1>1, <2>1
  <2> QED
    BY <1>1, <1>2, <2>1, <2>2 DEF DataIn
<1> QED
  BY <1>3, <1>4

\* The device acknowledges what it took last, or answers something else.
LEMMA AcksAppended ==
    ASSUME NEW S, NEW channel \in Seq(S), NEW m \in S,
           NEW b \in Int, NEW n \in Nat, NEW acks \in [Nat -> Int], AcksIn(channel, b, n, acks),
           NEW t \in {n, n + 1}, m.kind = "ack" => m.id = (b + t) % RemoteIdCount
    PROVE  AcksIn(Append(channel, m), b, t, With(acks, Len(channel) + 1, b + t))
<1> DEFINE l == Append(channel, m)
           w == With(acks, Len(channel) + 1, b + t)
<1>1. /\ DOMAIN l = 1..Len(channel) + 1 /\ l[Len(channel) + 1] = m
      /\ Len(channel) \in Nat /\ DOMAIN channel = 1..Len(channel)
      /\ \A j \in 1..Len(channel) : l[j] = channel[j]
  OBVIOUS
<1>2. /\ w[Len(channel) + 1] = b + t /\ t \in Nat /\ n <= t
      /\ \A j \in 1..Len(channel) : w[j] = acks[j] /\ acks[j] \in Int
  BY <1>1 DEF With
<1> HIDE DEF l, w
<1> SUFFICES ASSUME NEW j \in 1..Len(channel) + 1, l[j].kind = "ack"
             PROVE  /\ l[j].id = w[j] % RemoteIdCount
                    /\ b <= w[j] /\ w[j] <= b + t
                    /\ \A i \in 1..j : l[i].kind = "ack" => w[i] <= w[j]
  BY <1>1 DEF AcksIn, l, w
<1>3. \A i \in 1..Len(channel) : l[i].kind = "ack" =>
         l[i].id = w[i] % RemoteIdCount /\ b <= w[i] /\ w[i] <= b + n /\ w[i] <= b + t
  BY <1>1, <1>2 DEF AcksIn
<1>4. CASE j = Len(channel) + 1
  <2>1. ASSUME NEW i \in 1..j, l[i].kind = "ack" PROVE w[i] <= w[j]
    <3>1. i = Len(channel) + 1 \/ i \in 1..Len(channel)
      BY <1>1, <1>4, PlacesOfLonger
    <3> QED
      BY <1>2, <1>3, <1>4, <2>1, <3>1, SMTT(20)
  <2> QED
    BY <1>1, <1>2, <1>4, <2>1
<1>5. CASE j # Len(channel) + 1
  <2>1. j \in 1..Len(channel)
    BY <1>1, <1>5, PlacesOfLonger
  <2>2. \A i \in 1..j : i \in 1..Len(channel)
    BY <1>1, <2>1
  <2>3. \A i \in 1..j : l[i].kind = "ack" => w[i] <= w[j]
    BY <1>1, <1>2, <2>1, <2>2 DEF AcksIn
  <2> QED
    BY <1>3, <2>1, <2>3
<1> QED
  BY <1>4, <1>5

\* The switcher sends something else than that it accepts.
LEMMA AcceptsAppended ==
    ASSUME NEW S, NEW channel \in Seq(S), NEW m \in S, m.kind # "accept", NEW c, NEW n,
           AcceptsIn(channel, c, n)
    PROVE  AcceptsIn(Append(channel, m), c, n)
<1> DEFINE l == Append(channel, m)
<1>1. /\ DOMAIN l = 1..Len(channel) + 1 /\ l[Len(channel) + 1] = m
      /\ Len(channel) \in Nat /\ DOMAIN channel = 1..Len(channel)
      /\ \A j \in 1..Len(channel) : l[j] = channel[j]
  OBVIOUS
<1> HIDE DEF l
<1> SUFFICES ASSUME NEW j \in DOMAIN l, l[j].kind = "accept"
             PROVE  /\ n = 0 /\ c.remote_id_last = 0 /\ c.write_buf = "ack"
                    /\ \A i \in 1..j : l[i].kind = "accept"
  BY DEF AcceptsIn, l
<1>2. j \in 1..Len(channel) /\ \A i \in 1..j : i \in 1..Len(channel)
  BY <1>1
<1> QED
  BY <1>1, <1>2 DEF AcceptsIn

-------------------------------------------------------------------------------
(***************************************************************************)
(* What happens to a session that is connected, and to its datagrams.      *)
(***************************************************************************)

\* A datagram is lost, or ignored.
LEMMA InOrderLost ==
    ASSUME NEW session, NEW c, NEW d, NEW S, NEW outward \in Seq(S), NEW T, NEW inward \in Seq(T),
           InOrder(session, c, d, outward, inward)
    PROVE  /\ \A k \in DOMAIN outward : InOrder(session, c, d, RemoveAt(outward, k), inward)
           /\ \A k \in DOMAIN inward : InOrder(session, c, d, outward, RemoveAt(inward, k))
<1>1. PICK b \in Int, n \in Nat, data \in [Nat -> Int], acks \in [Nat -> Int] :
         /\ Numbered(session, b, n)
         /\ Following(session, c, d, b, n)
         /\ AcceptsIn(outward, c, n)
         /\ DataIn(outward, session.chain, b, n, data)
         /\ AcksIn(inward, b, n, acks)
  BY DEF InOrder
<1>2. ASSUME NEW k \in DOMAIN outward PROVE InOrder(session, c, d, RemoveAt(outward, k), inward)
  <2>1. Without(data, k) \in [Nat -> Int]
    <3>1. k \in Nat
      OBVIOUS
    <3> QED
      BY <3>1, WithoutFacts
  <2>2. DataIn(RemoveAt(outward, k), session.chain, b, n, Without(data, k))
    BY <1>1, DataRemoved
  <2>3. AcceptsIn(RemoveAt(outward, k), c, n)
    BY <1>1, AcceptsRemoved
  <2> QED
    BY <1>1, <2>1, <2>2, <2>3 DEF InOrder
<1>3. ASSUME NEW k \in DOMAIN inward PROVE InOrder(session, c, d, outward, RemoveAt(inward, k))
  <2>1. Without(acks, k) \in [Nat -> Int]
    <3>1. k \in Nat
      OBVIOUS
    <3> QED
      BY <3>1, WithoutFacts
  <2>2. AcksIn(RemoveAt(inward, k), b, n, Without(acks, k))
    BY <1>1, AcksRemoved
  <2> QED
    BY <1>1, <2>1, <2>2 DEF InOrder
<1> QED
  BY <1>2, <1>3

LEMMA WithFacts ==
    ASSUME NEW numbers \in [Nat -> Int], NEW k \in Nat, NEW v \in Int
    PROVE  With(numbers, k, v) \in [Nat -> Int]
BY DEF With

\* A packet of the chain is sent once more.
LEMMA InOrderRepeated ==
    ASSUME NEW session \in SessionType, NEW c, NEW d, NEW outward \in Seq(Datagrams), NEW inward,
           InOrder(session, c, d, outward, inward), Len(session.chain) <= Unacknowledged,
           NEW k \in DOMAIN session.chain, session.chain[k].kind = "data"
    PROVE  InOrder(session, c, d, Append(outward, session.chain[k]), inward)
<1>1. PICK b \in Int, n \in Nat, data \in [Nat -> Int], acks \in [Nat -> Int] :
         /\ Numbered(session, b, n)
         /\ Following(session, c, d, b, n)
         /\ AcceptsIn(outward, c, n)
         /\ DataIn(outward, session.chain, b, n, data)
         /\ AcksIn(inward, b, n, acks)
  BY DEF InOrder
<1> DEFINE chain == session.chain
           len == Len(chain)
           m == chain[k]
           v == b + k
<1>2. chain \in Seq(Datagrams) /\ len \in Nat /\ k \in 1..len /\ m \in Datagrams
  BY DEF SessionType
<1>3. m.id = v % RemoteIdCount /\ n \in 0..len
  BY <1>1 DEF Numbered
<1>4. m.kind = "data" /\ len <= Unacknowledged /\ Unacknowledged \in Nat
  BY DeviceAssumption
<1>5. DataIn(outward, chain, b, n, data)
  BY <1>1
<1>6. v - b = k /\ m = chain[v - b]
  <2>1. k \in Int
    BY <1>2
  <2>2. v - b = k
    BY <2>1
  <2> QED
    BY <2>2
<1> HIDE DEF chain, len, m
<1>7. v \in Int /\ v <= b + len /\ b + n < v + Unacknowledged
      /\ b + len < v + Unacknowledged
  <2>1. k \in Int /\ 1 <= k /\ k <= len /\ len \in Int
    BY <1>2
  <2>2. n <= len
    BY <1>3, <2>1
  <2>3. b + n < b + k + Unacknowledged
    BY <1>4, <2>1, <2>2
  <2>4. b + len < b + k + Unacknowledged
    <3>1. len < k + Unacknowledged
      BY <1>4, <2>1
    <3> QED
      BY <1>4, <2>1, <3>1
  <2>5. b + k \in Int /\ b + k <= b + len
    BY <2>1, SMTT(20)
  <2> QED
    BY <2>3, <2>4, <2>5
<1> HIDE DEF v
<1>8. DataIn(Append(outward, m), chain, b, n, With(data, Len(outward) + 1, v))
  BY <1>2, <1>3, <1>4, <1>5, <1>6, <1>7, DataAppended DEF len
<1>9. AcceptsIn(Append(outward, m), c, n)
  BY <1>1, <1>2, <1>4, AcceptsAppended
<1>10. With(data, Len(outward) + 1, v) \in [Nat -> Int]
  <2>1. Len(outward) + 1 \in Nat
    OBVIOUS
  <2> QED
    BY <1>7, <2>1, WithFacts
<1> QED
  BY <1>1, <1>8, <1>9, <1>10 DEF InOrder, chain, m

\* A packet is added to the chain.
LEMMA InOrderReported ==
    ASSUME NEW session \in SessionType, NEW c, NEW d, NEW outward \in Seq(Datagrams), NEW inward,
           InOrder(session, c, d, outward, inward),
           NEW m \in Datagrams, m.kind = "data",
           m.id = (LatestId(session) + 1) % RemoteIdCount
    PROVE  InOrder([session EXCEPT !.chain = Append(@, m)], c, d, Append(outward, m), inward)
<1>1. PICK b \in Int, n \in Nat, data \in [Nat -> Int], acks \in [Nat -> Int] :
         /\ Numbered(session, b, n)
         /\ Following(session, c, d, b, n)
         /\ AcceptsIn(outward, c, n)
         /\ DataIn(outward, session.chain, b, n, data)
         /\ AcksIn(inward, b, n, acks)
  BY DEF InOrder
<1> DEFINE chain == session.chain
           len == Len(chain)
           longer == Append(chain, m)
           later == [session EXCEPT !.chain = Append(@, m)]
           v == b + len + 1
<1>2. chain \in Seq(Datagrams) /\ len \in Nat
  BY DEF SessionType
<1>3. later.chain = longer /\ later.base = session.base /\ later.tally = session.tally
  BY DEF SessionType
<1>4. n \in 0..len /\ session.base = b % RemoteIdCount
      /\ \A k \in 1..len : chain[k].id = (b + k) % RemoteIdCount
  <2>1. DOMAIN chain = 1..len
    BY <1>2
  <2> HIDE DEF len
  <2>2. n \in 0..len /\ session.base = b % RemoteIdCount
    BY <1>1 DEF Numbered, len
  <2>3. \A k \in DOMAIN chain : chain[k].id = (b + k) % RemoteIdCount
    BY <1>1 DEF Numbered
  <2> QED
    BY <2>1, <2>2, <2>3
<1>5. LatestId(session) = (b + len) % RemoteIdCount
  <2>1. CASE chain = <<>>
    BY <1>4, <2>1 DEF LatestId
  <2>2. CASE chain # <<>>
    <3>1. len \in 1..len
      <4> HIDE DEF chain
      <4> QED
        BY <1>2, <2>2
    <3> QED
      BY <1>4, <2>2, <3>1 DEF LatestId, Last
  <2> QED
    BY <2>1, <2>2
<1>6. /\ longer \in Seq(Datagrams) /\ Len(longer) = len + 1 /\ longer[len + 1] = m
      /\ \A k \in 1..len : longer[k] = chain[k]
      /\ DOMAIN longer = 1..len + 1
  <2> HIDE DEF chain
  <2> QED
    BY <1>2
<1> HIDE DEF chain, len, longer, later
<1>7. m.id = v % RemoteIdCount /\ v \in Int
  <2>1. RemoteIdCount \in Nat \ {0} /\ b + len \in Int
    BY <1>2, ClientAssumption
  <2> QED
    <3>1. (((b + len) % RemoteIdCount) + 1) % RemoteIdCount = ((b + len) + 1) % RemoteIdCount
      <4> DEFINE r == RemoteIdCount
                 p == b + len
      <4>1. r \in Nat \ {0} /\ p \in Int
        BY <2>1
      <4> HIDE DEF r, p
      <4>2. \A i \in Int : ((p % r) + i) % r = (p + i) % r
        BY <4>1, ModPlus
      <4>3. ((p % r) + 1) % r = (p + 1) % r
        BY <4>2
      <4> QED
        BY <4>3 DEF p, r
    <3>2. m.id = v % RemoteIdCount
      BY <1>5, <3>1
    <3>3. v \in Int
      BY <2>1
    <3> QED
      BY <3>2, <3>3
<1>8. Numbered(later, b, n)
  <2>1. ASSUME NEW k \in 1..len + 1 PROVE longer[k].id = (b + k) % RemoteIdCount
    <3>1. CASE k = len + 1
      BY <1>2, <1>6, <1>7, <3>1
    <3>2. CASE k # len + 1
      <4>1. k \in 1..len
        BY <1>2, <3>2
      <4> QED
        BY <1>4, <1>6, <4>1
    <3> QED
      BY <3>1, <3>2
  <2>2. n \in 0..Len(longer)
    BY <1>2, <1>4, <1>6
  <2> QED
    BY <1>3, <1>4, <1>6, <2>1, <2>2 DEF Numbered
<1>9. Following(later, c, d, b, n)
  <2>1. \A k \in 1..n : later.chain[k] = session.chain[k]
    BY <1>2, <1>3, <1>4, <1>6 DEF chain
  <2>2. TallyAfter(later, n) = TallyAfter(session, n)
    BY <1>3, <2>1, TallySame
  <2> QED
    BY <1>1, <2>2 DEF Following
<1>10. DataIn(outward, longer, b, n, data)
  <2> SUFFICES ASSUME NEW j \in DOMAIN outward, outward[j].kind = "data"
               PROVE  /\ outward[j].id = data[j] % RemoteIdCount
                      /\ data[j] <= b + Len(longer)
                      /\ b + n < data[j] + Unacknowledged
                      /\ data[j] > b => outward[j] = longer[data[j] - b]
                      /\ \A i \in 1..j : outward[i].kind = "data" => data[i] < data[j] + Unacknowledged
    BY DEF DataIn
  <2>1. /\ outward[j].id = data[j] % RemoteIdCount
        /\ data[j] <= b + len
        /\ b + n < data[j] + Unacknowledged
        /\ data[j] > b => outward[j] = chain[data[j] - b]
        /\ \A i \in 1..j : outward[i].kind = "data" => data[i] < data[j] + Unacknowledged
    BY <1>1 DEF DataIn, chain, len
  <2>2. data[j] \in Int
    <3>1. j \in Nat
      OBVIOUS
    <3> QED
      BY <3>1
  <2>3. data[j] > b => data[j] - b \in 1..len
    <3> DEFINE x == data[j]
    <3>1. x <= b + len /\ len \in Nat /\ x \in Int
      BY <1>2, <2>1, <2>2
    <3> HIDE DEF x
    <3>2. x > b => x - b \in 1..len
      BY <3>1
    <3> QED
      BY <3>2 DEF x
  <2>4. data[j] <= b + Len(longer)
    <3> DEFINE x == data[j]
    <3>1. x <= b + len /\ len \in Nat /\ x \in Int
      BY <1>2, <2>1, <2>2
    <3> HIDE DEF x
    <3>2. x <= b + (len + 1)
      BY <3>1
    <3> QED
      BY <1>6, <3>2 DEF x
  <2> QED
    BY <1>6, <2>1, <2>3, <2>4
<1>11. /\ v <= b + Len(longer) /\ b + n < v + Unacknowledged /\ Len(longer) \in Nat
       /\ b + Len(longer) < v + Unacknowledged /\ m = longer[v - b]
  <2>1. Unacknowledged \in Nat \ {0} /\ v - b = len + 1
    BY <1>2, DeviceAssumption
  <2> QED
    BY <1>2, <1>4, <1>6, <2>1
<1> HIDE DEF v
<1>12. DataIn(Append(outward, m), longer, b, n, With(data, Len(outward) + 1, v))
  BY <1>7, <1>10, <1>11, DataAppended
<1>13. AcceptsIn(Append(outward, m), c, n)
  BY <1>1, AcceptsAppended
<1>14. With(data, Len(outward) + 1, v) \in [Nat -> Int]
  <2>1. Len(outward) + 1 \in Nat
    OBVIOUS
  <2> QED
    BY <1>7, <2>1, WithFacts
<1>15. InOrder(later, c, d, Append(outward, m), inward)
  BY <1>1, <1>3, <1>8, <1>9, <1>12, <1>13, <1>14 DEF InOrder
<1> QED
  BY <1>15 DEF later

\* Places in a chain after the packet at j was acknowledged, and the numbers there.
LEMMA PlacesAfter ==
    ASSUME NEW len \in Nat, NEW j \in 1..len, NEW n \in 0..len, NEW b \in Int, b + j <= b + n
    PROVE  /\ b + j \in Int /\ n - j \in 0..len - j /\ n - j \in Nat /\ n \in Nat \ {0} /\ j <= n
           /\ (b + j) + (n - j) = b + n /\ (b + j) + (len - j) = b + len
           /\ \A k \in 1..len - j : k + j \in 1..len /\ k \in Int /\ b + (k + j) = (b + j) + k
           /\ \A v \in Int : v > b + j /\ v <= b + len =>
                 v > b /\ v - (b + j) \in 1..len - j /\ (v - (b + j)) + j = v - b
OBVIOUS

LEMMA PlacesLeft ==
    ASSUME NEW len \in Nat
    PROVE  \A i \in 1..len - 1 : i \in Nat /\ ~ (i < 1) /\ i + 1 \in 1..len
OBVIOUS

LEMMA Rest ==
    ASSUME NEW S, NEW chain \in Seq(S), NEW j \in 1..Len(chain)
    PROVE  /\ DOMAIN SubSeq(chain, j + 1, Len(chain)) = 1..Len(chain) - j
           /\ Len(SubSeq(chain, j + 1, Len(chain))) = Len(chain) - j
           /\ \A k \in 1..Len(chain) - j : SubSeq(chain, j + 1, Len(chain))[k] = chain[k + j]
OBVIOUS

\* The packet that is acknowledged next, and the chain after it.
LEMMA InOrderAcknowledged ==
    ASSUME NEW session \in SessionType, NEW c, NEW d,
           NEW outward \in Seq(Datagrams), NEW inward \in Seq(Replies),
           InOrder(session, c, d, outward, inward), Len(session.chain) <= Unacknowledged,
           1 \in DOMAIN inward, inward[1].kind = "ack",
           NEW j \in 1..Len(session.chain), session.chain[j].id = inward[1].id
    PROVE  InOrder(Acknowledged(session, j), c, d, outward, RemoveAt(inward, 1))
<1>1. PICK b \in Int, n \in Nat, data \in [Nat -> Int], acks \in [Nat -> Int] :
         /\ Numbered(session, b, n)
         /\ Following(session, c, d, b, n)
         /\ AcceptsIn(outward, c, n)
         /\ DataIn(outward, session.chain, b, n, data)
         /\ AcksIn(inward, b, n, acks)
  BY DEF InOrder
<1> DEFINE chain == session.chain
           len == Len(chain)
           rest == SubSeq(chain, j + 1, len)
           later == Acknowledged(session, j)
<1>2. chain \in Seq(Datagrams) /\ len \in Nat /\ j \in 1..len /\ DOMAIN chain = 1..len
  BY DEF SessionType
<1>3. later.chain = rest /\ later.base = chain[j].id
  BY DEF Acknowledged, SessionType
<1>4. len <= Unacknowledged /\ Unacknowledged < RemoteIdCount /\ RemoteIdCount \in Nat \ {0}
      /\ Unacknowledged \in Nat
  BY ClientAssumption, DeviceAssumption
<1>5. n \in 0..len
  BY <1>1 DEF Numbered
<1>6. \A k \in 1..len : chain[k].id = (b + k) % RemoteIdCount
  <2> HIDE DEF len
  <2>1. \A k \in DOMAIN chain : chain[k].id = (b + k) % RemoteIdCount
    BY <1>1 DEF Numbered
  <2> QED
    BY <1>2, <2>1
<1>7. /\ DOMAIN rest = 1..len - j /\ Len(rest) = len - j
      /\ \A k \in 1..len - j : rest[k] = chain[k + j]
  <2> HIDE DEF chain
  <2> QED
    BY <1>2, Rest
<1>8. TallyAfter(later, n - j) = TallyAfter(session, n) \/ ~ (j <= n)
  <2> SUFFICES ASSUME j <= n PROVE TallyAfter(later, n - j) = TallyAfter(session, n)
    OBVIOUS
  <2>1. n \in j..len
    <3> HIDE DEF len
    <3> QED
      BY <1>2, <1>5
  <2>2. j \in DOMAIN session.chain
    <3> HIDE DEF len
    <3> QED
      BY <1>2
  <2> QED
    BY <2>1, <2>2, TallyAcknowledged
<1>9. /\ inward[1].id = acks[1] % RemoteIdCount
      /\ b <= acks[1] /\ acks[1] <= b + n /\ acks[1] \in Int
      /\ \A k \in DOMAIN inward : inward[k].kind = "ack" => acks[1] <= acks[k]
  <2>1. \A k \in DOMAIN inward : 1 \in 1..k
    OBVIOUS
  <2> QED
    BY <1>1, <2>1 DEF AcksIn
<1> HIDE DEF chain, len, rest, later
<1>10. acks[1] = b + j
  <2>1. acks[1] % RemoteIdCount = (b + j) % RemoteIdCount
    BY <1>2, <1>6, <1>9 DEF chain
  <2>2. j \in Int /\ 1 <= j /\ j <= len
    BY <1>2
  <2>3. n <= len
    BY <1>2, <1>5
  <2>4. acks[1] - (b + j) < RemoteIdCount
    BY <1>2, <1>4, <1>9, <2>2, <2>3
  <2>5. (b + j) - acks[1] < RemoteIdCount
    BY <1>2, <1>4, <1>9, <2>2
  <2>6. b + j \in Int
    BY <2>2
  <2> QED
    BY <1>4, <1>9, <2>1, <2>4, <2>5, <2>6, ModEqual
<1> DEFINE bb == b + j
           nn == n - j
<1>11. /\ bb \in Int /\ nn \in 0..len - j /\ nn \in Nat /\ n \in Nat \ {0} /\ j <= n
       /\ bb + nn = b + n /\ bb + (len - j) = b + len
       /\ \A k \in 1..len - j : k + j \in 1..len /\ k \in Int /\ b + (k + j) = bb + k
       /\ \A v \in Int : v > bb /\ v <= b + len =>
             v > b /\ v - bb \in 1..len - j /\ (v - bb) + j = v - b
  <2>1. b + j <= b + n
    BY <1>9, <1>10
  <2>2. len \in Nat /\ j \in 1..len
    BY <1>2
  <2>3. /\ b + j \in Int /\ n - j \in 0..len - j /\ n - j \in Nat /\ n \in Nat \ {0} /\ j <= n
        /\ (b + j) + (n - j) = b + n /\ (b + j) + (len - j) = b + len
    BY <1>5, <2>1, <2>2, PlacesAfter
  <2>4. \A k \in 1..len - j : k + j \in 1..len /\ k \in Int /\ b + (k + j) = (b + j) + k
    BY <1>5, <2>1, <2>2, PlacesAfter
  <2>5. \A v \in Int : v > b + j /\ v <= b + len =>
           v > b /\ v - (b + j) \in 1..len - j /\ (v - (b + j)) + j = v - b
    BY <1>5, <2>1, <2>2, PlacesAfter
  <2> QED
    BY <2>3, <2>4, <2>5
<1>12. bb = acks[1] /\ nn = n - j
  BY <1>10
<1> HIDE DEF bb, nn
<1>13. Numbered(later, bb, nn)
  <2>1. ASSUME NEW k \in 1..len - j PROVE rest[k].id = (bb + k) % RemoteIdCount
    <3>1. k + j \in 1..len /\ k \in Int
      BY <1>11
    <3> QED
      BY <1>6, <1>7, <1>11, <3>1
  <2>2. later.base = bb % RemoteIdCount
    BY <1>2, <1>3, <1>6 DEF bb
  <2> QED
    BY <1>3, <1>7, <1>11, <2>1, <2>2 DEF Numbered
<1>14. Following(later, c, d, bb, nn)
  BY <1>1, <1>8, <1>11, <1>12 DEF Following
<1>15. AcceptsIn(outward, c, nn) /\ \A i \in DOMAIN outward : outward[i].kind # "accept"
  BY <1>1, <1>11 DEF AcceptsIn
<1>16. DataIn(outward, rest, bb, nn, data)
  <2> SUFFICES ASSUME NEW i \in DOMAIN outward, outward[i].kind = "data"
               PROVE  /\ outward[i].id = data[i] % RemoteIdCount
                      /\ data[i] <= bb + Len(rest)
                      /\ bb + nn < data[i] + Unacknowledged
                      /\ data[i] > bb => outward[i] = rest[data[i] - bb]
                      /\ \A k \in 1..i : outward[k].kind = "data" => data[k] < data[i] + Unacknowledged
    BY DEF DataIn
  <2>1. /\ outward[i].id = data[i] % RemoteIdCount
        /\ data[i] <= b + len
        /\ b + n < data[i] + Unacknowledged
        /\ data[i] > b => outward[i] = chain[data[i] - b]
        /\ \A k \in 1..i : outward[k].kind = "data" => data[k] < data[i] + Unacknowledged
    BY <1>1 DEF DataIn, chain, len
  <2>2. data[i] \in Int
    <3>1. i \in Nat
      BY SMTT(20)
    <3> QED
      BY <3>1
  <2>3. ASSUME data[i] > bb PROVE outward[i] = rest[data[i] - bb]
    <3>1. data[i] > b /\ data[i] - bb \in 1..len - j /\ (data[i] - bb) + j = data[i] - b
      BY <1>11, <2>1, <2>2, <2>3
    <3> QED
      BY <1>7, <2>1, <3>1
  <2> QED
    BY <1>7, <1>11, <2>1, <2>3
<1>17. AcksIn(RemoveAt(inward, 1), bb, nn, Without(acks, 1))
  <2> DEFINE r == RemoveAt(inward, 1)
             w == Without(acks, 1)
  <2>1. AcksIn(r, b, n, w)
    BY <1>1, AcksRemoved
  <2>2. /\ DOMAIN r = 1..Len(inward) - 1 /\ Len(inward) \in Nat /\ DOMAIN inward = 1..Len(inward)
        /\ \A i \in 1..Len(inward) - 1 : ~ (i < 1) => r[i] = inward[i + 1]
    BY Places
  <2>3. \A i \in Nat : ~ (i < 1) => w[i] = acks[i + 1]
    BY WithoutFacts
  <2> HIDE DEF r, w
  <2>4. ASSUME NEW i \in DOMAIN r, r[i].kind = "ack" PROVE bb <= w[i]
    <3>1. i \in 1..Len(inward) - 1 /\ i \in Nat /\ ~ (i < 1) /\ i + 1 \in DOMAIN inward
      BY <2>2, PlacesLeft
    <3>2. r[i] = inward[i + 1] /\ w[i] = acks[i + 1]
      BY <2>2, <2>3, <3>1
    <3> QED
      BY <1>9, <1>12, <2>4, <3>1, <3>2
  <2> QED
    BY <1>11, <2>1, <2>4 DEF AcksIn, r, w
<1>18. Without(acks, 1) \in [Nat -> Int]
  BY WithoutFacts
<1>19. InOrder(later, c, d, outward, RemoveAt(inward, 1))
  BY <1>3, <1>11, <1>13, <1>14, <1>15, <1>16, <1>17, <1>18 DEF InOrder
<1> QED
  BY <1>19 DEF later

\* A session that was just accepted reports the version and the tally.
LEMMA InOrderConnected ==
    ASSUME NEW s \in SwitcherSessions, NEW tally \in Tallies, NEW c, NEW d,
           NEW outward \in Seq(Datagrams), NEW inward \in Seq(Replies),
           \A j \in DOMAIN outward : outward[j].kind = "accept",
           \A j \in DOMAIN inward : inward[j].kind = "ack" => inward[j].id = 0,
           c.write_buf = "ack", c.remote_id_last = 0, d.tally = "off"
    PROVE  InOrder(Connected(s, tally), c, d, Append(outward, Data(s, 1, TRUE, tally)), inward)
<1> DEFINE m == Data(s, 1, TRUE, tally)
           session == Connected(s, tally)
           data == [j \in Nat |-> 1]
           acks == [j \in Nat |-> 0]
           longer == With(data, Len(outward) + 1, 1)
<1>1. m \in Datagrams /\ m.kind = "data" /\ m.id = 1
  BY IdFacts, DatagramType DEF Data
<1>2. session.chain = <<m>> /\ session.base = 0 /\ session.tally = "off"
  BY DEF Connected
<1>3. /\ Len(<<m>>) = 1 /\ DOMAIN <<m>> = {1} /\ <<m>>[1] = m
  OBVIOUS
<1>4. data \in [Nat -> Int] /\ acks \in [Nat -> Int] /\ \A j \in Nat : acks[j] = 0
  OBVIOUS
<1>5. RemoteIdCount \in Nat \ {0} /\ 1 < RemoteIdCount /\ Unacknowledged \in Nat \ {0}
  BY ClientAssumption, DeviceAssumption
<1>6. 0 % RemoteIdCount = 0 /\ 1 % RemoteIdCount = 1
  BY <1>5, ModSmall
<1> HIDE DEF m, session, data, acks
<1>7. Numbered(session, 0, 0)
  <2>1. 0 \in 0..Len(session.chain)
    BY <1>2, <1>3
  <2>2. \A k \in DOMAIN session.chain : session.chain[k].id = (0 + k) % RemoteIdCount
    <3>1. 0 + 1 = 1
      OBVIOUS
    <3> QED
      BY <1>1, <1>2, <1>3, <1>6, <3>1
  <2> QED
    BY <1>2, <1>6, <2>1, <2>2 DEF Numbered
<1>8. Following(session, c, d, 0, 0)
  <2>1. 0 + 0 = 0
    OBVIOUS
  <2>2. TallyAfter(session, 0) = "off"
    BY <1>2, TallyNone
  <2> QED
    BY <1>6, <2>1, <2>2 DEF Following
<1>9. AcceptsIn(Append(outward, m), c, 0)
  <2>1. AcceptsIn(outward, c, 0)
    <3> SUFFICES ASSUME NEW j \in DOMAIN outward
                 PROVE  \A i \in 1..j : outward[i].kind = "accept"
      BY DEF AcceptsIn
    <3>1. \A i \in 1..j : i \in DOMAIN outward
      OBVIOUS
    <3> QED
      BY <3>1
  <2> QED
    BY <1>1, <2>1, AcceptsAppended
<1>10. DataIn(Append(outward, m), session.chain, 0, 0, longer)
  <2>1. DataIn(outward, <<m>>, 0, 0, data)
    BY DEF DataIn
  <2>2. /\ m.id = 1 % RemoteIdCount /\ 1 <= 0 + Len(<<m>>) /\ 0 + 0 < 1 + Unacknowledged
        /\ m = <<m>>[1 - 0] /\ 0 + Len(<<m>>) < 1 + Unacknowledged
    BY <1>1, <1>3, <1>5, <1>6
  <2>3. Len(<<m>>) \in Nat
    BY <1>3
  <2> QED
    <3> SUFFICES ASSUME NEW v \in Int, v = 1, NEW b \in Int, b = 0, NEW n \in Nat, n = 0
                 PROVE  DataIn(Append(outward, m), <<m>>, b, n, With(data, Len(outward) + 1, v))
      BY <1>2
    <3>1. /\ m.id = v % RemoteIdCount /\ v <= b + Len(<<m>>) /\ b + n < v + Unacknowledged
          /\ m = <<m>>[v - b] /\ b + Len(<<m>>) < v + Unacknowledged
      BY <2>2
    <3>2. DataIn(outward, <<m>>, b, n, data)
      BY <2>1
    <3> QED
      BY <1>1, <1>4, <2>3, <3>1, <3>2, DataAppended
<1>11. AcksIn(inward, 0, 0, acks)
  <2> SUFFICES ASSUME NEW j \in DOMAIN inward, inward[j].kind = "ack"
               PROVE  /\ inward[j].id = acks[j] % RemoteIdCount
                      /\ 0 <= acks[j] /\ acks[j] <= 0 + 0
                      /\ \A i \in 1..j : inward[i].kind = "ack" => acks[i] <= acks[j]
    BY DEF AcksIn
  <2>1. j \in Nat /\ \A i \in 1..j : i \in Nat
    OBVIOUS
  <2> QED
    BY <1>4, <1>6, <2>1
<1>12. longer \in [Nat -> Int]
  <2>1. Len(outward) + 1 \in Nat
    OBVIOUS
  <2> QED
    BY <1>4, <2>1 DEF With
<1> HIDE DEF longer
<1>13. 0 \in Int /\ 0 \in Nat
  OBVIOUS
<1>14. InOrder(session, c, d, Append(outward, m), inward)
  BY <1>4, <1>7, <1>8, <1>9, <1>10, <1>11, <1>12, <1>13 DEF InOrder
<1> QED
  BY <1>14 DEF m, session

\* No accept follows data.
LEMMA NoAccepts ==
    ASSUME NEW outward \in Seq(Datagrams), 1 \in DOMAIN outward, outward[1].kind = "data",
           NEW c, NEW n, AcceptsIn(outward, c, n)
    PROVE  \A later, t : AcceptsIn(RemoveAt(outward, 1), later, t)
<1>1. \A j \in DOMAIN outward : outward[j].kind # "accept"
  <2> SUFFICES ASSUME NEW j \in DOMAIN outward, outward[j].kind = "accept" PROVE FALSE
    OBVIOUS
  <2>1. 1 \in 1..j
    OBVIOUS
  <2> QED
    BY <2>1 DEF AcceptsIn
<1>2. \A later, t : AcceptsIn(outward, later, t)
  BY <1>1 DEF AcceptsIn
<1> QED
  BY <1>2, AcceptsRemoved

\* The client takes something else than the packet that is next: that it is accepted once more,
\* or a packet it took, or one that is ahead.
LEMMA InOrderAnswered ==
    ASSUME NEW session \in SessionType, NEW c, NEW d, NEW later,
           NEW outward \in Seq(Datagrams), NEW inward \in Seq(Replies),
           InOrder(session, c, d, outward, inward), 1 \in DOMAIN outward,
           later.remote_id_last = c.remote_id_last,
           (outward[1].kind = "accept" /\ later.write_buf = "ack") \/ outward[1].kind = "data",
           NEW reply \in Replies,
           reply.kind = "ack" =>
              reply.id = IF outward[1].kind = "accept" THEN 0 ELSE c.remote_id_last
    PROVE  InOrder(session, later, d, RemoveAt(outward, 1), Append(inward, reply))
<1>1. PICK b \in Int, n \in Nat, data \in [Nat -> Int], acks \in [Nat -> Int] :
         /\ Numbered(session, b, n)
         /\ Following(session, c, d, b, n)
         /\ AcceptsIn(outward, c, n)
         /\ DataIn(outward, session.chain, b, n, data)
         /\ AcksIn(inward, b, n, acks)
  BY DEF InOrder
<1> DEFINE shorter == Without(data, 1)
           longer == With(acks, Len(inward) + 1, b + n)
<1>2. 1 \in Nat /\ Len(inward) + 1 \in Nat /\ b + n \in Int /\ n \in {n, n + 1}
  OBVIOUS
<1>3. shorter \in [Nat -> Int] /\ longer \in [Nat -> Int]
  BY <1>2, WithFacts, WithoutFacts
<1>4. Following(session, later, d, b, n)
  BY <1>1 DEF Following
<1>5. AcceptsIn(RemoveAt(outward, 1), later, n)
  <2>1. AcceptsIn(RemoveAt(outward, 1), c, n)
    BY <1>1, AcceptsRemoved
  <2>2. CASE outward[1].kind = "accept"
    BY <2>1, <2>2 DEF AcceptsIn
  <2>3. CASE outward[1].kind = "data"
    BY <1>1, <2>3, NoAccepts
  <2> QED
    BY <2>2, <2>3
<1>6. DataIn(RemoveAt(outward, 1), session.chain, b, n, shorter)
  BY <1>1, DataRemoved
<1>7. reply.kind = "ack" => reply.id = (b + n) % RemoteIdCount
  <2>1. c.remote_id_last = (b + n) % RemoteIdCount
    BY <1>1 DEF Following
  <2>2. outward[1].kind = "accept" => c.remote_id_last = 0
    BY <1>1 DEF AcceptsIn
  <2> QED
    BY <2>1, <2>2
<1>8. AcksIn(Append(inward, reply), b, n, longer)
  BY <1>1, <1>2, <1>7, AcksAppended
<1> HIDE DEF shorter, longer
<1> QED
  BY <1>1, <1>3, <1>4, <1>5, <1>6, <1>8 DEF InOrder

\* Data with the id the client expects is the packet of the chain that is next, although
\* ids wrap: nothing on its way is as old, or as far ahead, as there are ids.
LEMMA NextInChain ==
    ASSUME NEW r \in Nat \ {0}, NEW u \in Nat, u < r,
           NEW b \in Int, NEW n \in Nat, NEW len \in Nat, n <= len, len <= u,
           NEW v \in Int, v <= b + len, b + n < v + u,
           v % r = (((b + n) % r) + 1) % r
    PROVE  v = b + (n + 1) /\ n + 1 \in 1..len /\ v - b = n + 1 /\ v > b
<1> DEFINE p == b + n
<1>1. p \in Int
  OBVIOUS
<1> HIDE DEF p
<1>2. \A i \in Int : ((p % r) + i) % r = (p + i) % r
  BY <1>1, ModPlus
<1>3. ((p % r) + 1) % r = (p + 1) % r
  BY <1>2
<1>4. v % r = (p + 1) % r
  BY <1>3 DEF p
<1>5. v - (p + 1) < r /\ (p + 1) - v < r /\ p + 1 \in Int
  BY <1>1 DEF p
<1>6. v = p + 1
  BY <1>4, <1>5, ModEqual
<1> QED
  BY <1>6 DEF p

\* The client takes the packet that is next.
LEMMA InOrderTaken ==
    ASSUME NEW session \in SessionType, NEW c, NEW d \in DeviceType, NEW later,
           NEW outward \in Seq(Datagrams), NEW inward \in Seq(Replies),
           InOrder(session, c, d, outward, inward), Len(session.chain) <= Unacknowledged,
           1 \in DOMAIN outward, outward[1].kind = "data", outward[1].id = Expected(c),
           later.remote_id_last = outward[1].id,
           NEW reply \in Replies, reply.kind = "ack", reply.id = outward[1].id
    PROVE  InOrder(session, later, ProcessCommands(d, outward[1]), RemoveAt(outward, 1),
                   Append(inward, reply))
<1>1. PICK b \in Int, n \in Nat, data \in [Nat -> Int], acks \in [Nat -> Int] :
         /\ Numbered(session, b, n)
         /\ Following(session, c, d, b, n)
         /\ AcceptsIn(outward, c, n)
         /\ DataIn(outward, session.chain, b, n, data)
         /\ AcksIn(inward, b, n, acks)
  BY DEF InOrder
<1> DEFINE m == outward[1]
           chain == session.chain
           len == Len(chain)
           after == ProcessCommands(d, m)
           shorter == Without(data, 1)
           longer == With(acks, Len(inward) + 1, b + (n + 1))
<1>2. /\ m.id = data[1] % RemoteIdCount /\ data[1] \in Int
      /\ data[1] <= b + len /\ b + n < data[1] + Unacknowledged
      /\ data[1] > b => m = chain[data[1] - b]
      /\ \A j \in DOMAIN outward : outward[j].kind = "data" => data[1] < data[j] + Unacknowledged
  <2>1. \A j \in DOMAIN outward : 1 \in 1..j
    OBVIOUS
  <2> QED
    BY <1>1, <2>1 DEF DataIn
<1>3. /\ RemoteIdCount \in Nat \ {0} /\ Unacknowledged \in Nat /\ Unacknowledged < RemoteIdCount
      /\ len \in Nat /\ len <= Unacknowledged /\ n <= len
  <2>1. len \in Nat
    BY DEF SessionType
  <2>2. n \in 0..len
    BY <1>1 DEF Numbered
  <2> HIDE DEF len
  <2>3. n <= len
    BY <2>1, <2>2
  <2> QED
    BY <2>1, <2>3, ClientAssumption, DeviceAssumption DEF len
<1>4. data[1] % RemoteIdCount = (((b + n) % RemoteIdCount) + 1) % RemoteIdCount
  <2>1. c.remote_id_last = (b + n) % RemoteIdCount
    BY <1>1 DEF Following
  <2>2. m.id = (c.remote_id_last + 1) % RemoteIdCount
    BY DEF Expected
  <2> QED
    BY <1>2, <2>1, <2>2
<1> HIDE DEF m, chain, len, after, shorter, longer
<1>5. /\ data[1] = b + (n + 1) /\ n + 1 \in 1..len
      /\ data[1] - b = n + 1 /\ data[1] > b
  <2> DEFINE v == data[1]
             r == RemoteIdCount
  <2>1. /\ v \in Int /\ v <= b + len /\ b + n < v + Unacknowledged
        /\ v % r = (((b + n) % r) + 1) % r
        /\ r \in Nat \ {0} /\ Unacknowledged < r
    BY <1>2, <1>3, <1>4
  <2> HIDE DEF v, r
  <2>2. v = b + (n + 1) /\ n + 1 \in 1..len /\ v - b = n + 1 /\ v > b
    BY <1>3, <2>1, NextInChain
  <2> QED
    BY <2>2 DEF v
<1>6. m = chain[n + 1]
  BY <1>2, <1>5
<1>7. Numbered(session, b, n + 1)
  <2>1. n + 1 \in 0..len
    BY <1>3, <1>5
  <2> QED
    BY <1>1, <2>1 DEF Numbered, len, chain
<1>8. Following(session, later, after, b, n + 1)
  <2>1. later.remote_id_last = (b + (n + 1)) % RemoteIdCount
    BY <1>2, <1>5 DEF m
  <2>2. after.tally = IF m.tally = "none" THEN d.tally ELSE m.tally
    BY DEF after, ProcessCommands, DeviceType
  <2>3. d.tally = TallyAfter(session, n)
    BY <1>1 DEF Following
  <2>4. TallyAfter(session, n + 1) =
          IF m.tally = "none" THEN TallyAfter(session, n) ELSE m.tally
    BY <1>6, TallyNext DEF chain
  <2> QED
    BY <2>1, <2>2, <2>3, <2>4 DEF Following
<1>9. AcceptsIn(RemoveAt(outward, 1), later, n + 1)
  BY <1>1, NoAccepts
<1>10. DataIn(RemoveAt(outward, 1), chain, b, n + 1, shorter)
  <2> DEFINE r == RemoveAt(outward, 1)
  <2>1. DataIn(r, chain, b, n, shorter)
    BY <1>1, DataRemoved DEF chain, shorter
  <2>2. /\ DOMAIN r = 1..Len(outward) - 1 /\ Len(outward) \in Nat /\ DOMAIN outward = 1..Len(outward)
        /\ \A i \in 1..Len(outward) - 1 : ~ (i < 1) => r[i] = outward[i + 1]
    BY Places
  <2>3. \A i \in Nat : ~ (i < 1) => shorter[i] = data[i + 1]
    <3>1. 1 \in Nat
      OBVIOUS
    <3> QED
      BY <3>1, WithoutFacts DEF shorter
  <2> HIDE DEF r
  <2>4. ASSUME NEW i \in DOMAIN r, r[i].kind = "data"
        PROVE  b + (n + 1) < shorter[i] + Unacknowledged
    <3>1. i \in 1..Len(outward) - 1 /\ i \in Nat /\ ~ (i < 1) /\ i + 1 \in DOMAIN outward
      BY <2>2, PlacesLeft
    <3>2. r[i] = outward[i + 1] /\ shorter[i] = data[i + 1]
      BY <2>2, <2>3, <3>1
    <3>3. data[1] < data[i + 1] + Unacknowledged
      BY <1>2, <2>4, <3>1, <3>2
    <3> QED
      BY <1>5, <3>2, <3>3
  <2> QED
    BY <2>1, <2>4 DEF DataIn, r
<1>11. AcksIn(Append(inward, reply), b, n + 1, longer)
  <2>1. reply.id = (b + (n + 1)) % RemoteIdCount
    BY <1>2, <1>5 DEF m
  <2>2. n + 1 \in {n, n + 1}
    OBVIOUS
  <2> QED
    BY <1>1, <2>1, <2>2, AcksAppended DEF longer
<1>12. shorter \in [Nat -> Int] /\ longer \in [Nat -> Int] /\ n + 1 \in Nat
  <2>1. 1 \in Nat /\ Len(inward) + 1 \in Nat /\ b + (n + 1) \in Int /\ n + 1 \in Nat
    OBVIOUS
  <2> QED
    BY <2>1, WithFacts, WithoutFacts DEF shorter, longer
<1>13. InOrder(session, later, after, RemoveAt(outward, 1), Append(inward, reply))
  BY <1>1, <1>7, <1>8, <1>9, <1>10, <1>11, <1>12 DEF InOrder, chain
<1> QED
  BY <1>13 DEF after, m

-------------------------------------------------------------------------------
(***************************************************************************)
(* Each step keeps the order.                                              *)
(***************************************************************************)

\* While one session is connected there is no other.
LEMMA Only ==
    ASSUME Inv, NEW s \in SwitcherSessions, Alive(s), NEW t \in SwitcherSessions, t # s
    PROVE  switcher[t].phase # "connected"
BY Live

LEMMA Chained ==
    ASSUME Inv, NEW s \in SwitcherSessions
    PROVE  /\ switcher[s] \in SessionType
           /\ Len(switcher[s].chain) <= Unacknowledged
           /\ \A k \in DOMAIN switcher[s].chain : switcher[s].chain[k].kind = "data"
           /\ DOMAIN switcher[s].chain = 1..Len(switcher[s].chain)
           /\ (LatestId(switcher[s]) + 1) % RemoteIdCount \in RemoteIds
           /\ to_client \in Seq(Datagrams) /\ to_server \in Seq(Replies)
<1>1. switcher[s] \in SessionType
  BY Types DEF Inv
<1>2. LatestId(switcher[s]) + 1 \in Int
  BY <1>1, SessionTypes DEF RemoteIds
<1>3. DOMAIN switcher[s].chain = 1..Len(switcher[s].chain)
  BY <1>1 DEF SessionType
<1>4. to_client \in Seq(Datagrams) /\ to_server \in Seq(Replies)
  BY Types DEF Inv
<1> QED
  BY <1>1, <1>2, <1>3, <1>4, IdFacts DEF Inv, Chains

LEMMA DeviceOrder ==
    ASSUME ~ Outlives, Inv, NetifUp \/ Timeout
    PROVE  AllInOrder'
<1>1. \A s \in SwitcherSessions : switcher'[s].phase # "connected"
  <2>1. CASE NetifUp
    BY <2>1 DEF NetifUp, Inv, Requesting, Idle, Alive
  <2>2. CASE Timeout
    BY <2>2 DEF Timeout, NoSession
  <2> QED
    BY <2>1, <2>2
<1> QED
  BY <1>1 DEF AllInOrder

LEMMA LoseOrder ==
    ASSUME Inv, AllInOrder, NEW k \in 1..InFlight, LoseToClient(k) \/ LoseToServer(k) \/ Ignore(k)
    PROVE  AllInOrder'
<1>1. to_client \in Seq(Datagrams) /\ to_server \in Seq(Replies)
  BY Types DEF Inv
<1>2. CASE LoseToClient(k)
  <2>1. k \in DOMAIN to_client /\ to_client' = RemoveAt(to_client, k)
        /\ UNCHANGED <<client, device, switcher, to_server>>
    BY <1>2 DEF LoseToClient
  <2> QED
    BY <1>1, <2>1, InOrderLost DEF AllInOrder
<1>3. CASE LoseToServer(k) \/ Ignore(k)
  <2>1. k \in DOMAIN to_server /\ to_server' = RemoveAt(to_server, k)
        /\ UNCHANGED <<client, device, switcher, to_client>>
    <3>1. CASE LoseToServer(k)
      BY <3>1 DEF LoseToServer
    <3>2. CASE Ignore(k)
      <4>1. to_client \o <<>> = to_client
        BY <1>1
      <4> QED
        BY <3>2, <4>1 DEF Ignore, Answer, Arriving
    <3> QED
      BY <1>3, <3>1, <3>2
  <2> QED
    BY <1>1, <2>1, InOrderLost DEF AllInOrder
<1> QED
  BY <1>2, <1>3

LEMMA SwitcherActsOrder ==
    ASSUME Inv, AllInOrder, NEW s \in SwitcherSessions, SwitcherActs(s)
    PROVE  AllInOrder'
<1> DEFINE chain == switcher[s].chain
<1>1. /\ switcher[s] \in SessionType
      /\ Len(chain) <= Unacknowledged
      /\ \A k \in DOMAIN chain : chain[k].kind = "data"
      /\ (LatestId(switcher[s]) + 1) % RemoteIdCount \in RemoteIds
      /\ to_client \in Seq(Datagrams)
      /\ switcher \in [SwitcherSessions -> SessionType]
  BY Chained, Types DEF Inv
<1>2. ASSUME NEW tally \in Tallies \cup {"none"}, Report(s, tally) PROVE AllInOrder'
  <2> DEFINE m == Data(s, (LatestId(switcher[s]) + 1) % RemoteIdCount, FALSE, tally)
             later == [switcher[s] EXCEPT !.chain = Append(@, m)]
  <2>1. switcher[s].phase = "connected" /\ switcher' = [switcher EXCEPT ![s].chain = Append(@, m)]
        /\ Sends(m)
    BY <1>2 DEF Report
  <2>2. m \in Datagrams /\ m.kind = "data"
        /\ m.id = (LatestId(switcher[s]) + 1) % RemoteIdCount
    BY <1>1, DatagramType DEF Data
  <2> HIDE DEF m
  <2>3. switcher'[s] = later /\ \A t \in SwitcherSessions : t # s => switcher'[t] = switcher[t]
    BY <1>1, <2>1
  <2>4. to_client' = Append(to_client, m) /\ UNCHANGED <<client, device, to_server>>
    BY <2>1 DEF Sends
  <2>5. InOrder(switcher[s], client, device, to_client, to_server)
    BY <2>1 DEF AllInOrder
  <2>6. InOrder(later, client, device, Append(to_client, m), to_server)
    BY <1>1, <2>2, <2>5, InOrderReported
  <2>7. \A t \in SwitcherSessions : t # s => switcher[t].phase # "connected"
    BY <2>1, Only DEF Alive
  <2> HIDE DEF later
  <2> SUFFICES ASSUME NEW t \in SwitcherSessions, switcher'[t].phase = "connected"
               PROVE  InOrder(switcher'[t], client', device', to_client', to_server')
    BY DEF AllInOrder
  <2>8. t = s
    BY <2>3, <2>7
  <2> QED
    BY <2>3, <2>4, <2>6, <2>8
<1>3. ASSUME NEW k \in 1..Unacknowledged, Repeat(s, k) PROVE AllInOrder'
  <2> DEFINE m == Outstanding(s)[k]
  <2>1. k \in DOMAIN Outstanding(s) /\ Sends(m) /\ switcher' = switcher
    BY <1>3 DEF Repeat
  <2>2. Alive(s) /\ (switcher[s].phase = "connected" => k \in DOMAIN chain /\ m = chain[k])
    BY <2>1, OutstandingType DEF Inv, Alive
  <2> HIDE DEF m
  <2>3. to_client' = Append(to_client, m) /\ UNCHANGED <<client, device, switcher, to_server>>
    BY <2>1 DEF Sends
  <2> SUFFICES ASSUME NEW t \in SwitcherSessions, switcher[t].phase = "connected"
               PROVE  InOrder(switcher[t], client, device, Append(to_client, m), to_server)
    BY <2>3 DEF AllInOrder
  <2>4. t = s
    BY <2>2, Only
  <2>5. InOrder(switcher[s], client, device, to_client, to_server)
    BY <2>4 DEF AllInOrder
  <2>6. k \in DOMAIN switcher[s].chain /\ switcher[s].chain[k].kind = "data" /\ m = switcher[s].chain[k]
    BY <1>1, <2>2, <2>4
  <2> QED
    BY <1>1, <2>4, <2>5, <2>6, InOrderRepeated
<1>4. CASE Drop(s) \/ Forget(s)
  <2>1. Alive(s)
    BY <1>4 DEF Drop, Forget, Alive
  <2>2. /\ \A t \in SwitcherSessions : t # s => switcher'[t] = switcher[t]
        /\ switcher'[s].phase # "connected"
    BY <1>1, <1>4 DEF Drop, Forget, NoSession
  <2>3. \A t \in SwitcherSessions : switcher'[t].phase # "connected"
    BY <2>1, <2>2, Only
  <2> QED
    BY <2>3 DEF AllInOrder
<1> QED
  BY <1>2, <1>3, <1>4 DEF SwitcherActs

\* No session is connected while one is asked for, or ended.
LEMMA NoneOrder ==
    ASSUME Inv, NEW k \in 1..InFlight, Accept(k) \/ Reject(k) \/ End(k)
    PROVE  AllInOrder'
<1>1. k \in DOMAIN to_server /\ to_server[k].kind \in {"open", "closed", "closing"}
  BY DEF Accept, Reject, End, Arriving
<1>2. to_server[k] \in Range(to_server)
  BY <1>1, RangesOK DEF Inv
<1>3. \A s \in SwitcherSessions : switcher[s].phase # "connected"
  BY <1>1, <1>2 DEF Inv, Connecting
<1>4. switcher \in [SwitcherSessions -> SessionType]
  BY Types DEF Inv
<1>5. \A s \in SwitcherSessions : switcher'[s].phase # "connected"
  <2>1. CASE Accept(k)
    <3>1. PICK s \in SwitcherSessions :
             switcher' = switcher \/ switcher' = [switcher EXCEPT ![s].phase = "opening"]
      BY <2>1 DEF Accept, Answer
    <3>2. [switcher[s] EXCEPT !.phase = "opening"].phase = "opening"
      BY <1>4 DEF SessionType
    <3> QED
      BY <1>3, <1>4, <3>1, <3>2
  <2>2. CASE Reject(k)
    BY <1>3, <2>2 DEF Reject, Answer
  <2>3. CASE End(k)
    BY <1>3, <1>4, <2>3 DEF End, Answer, NoSession
  <2> QED
    BY <2>1, <2>2, <2>3
<1> QED
  BY <1>5 DEF AllInOrder

LEMMA AcknowledgeOrder ==
    ASSUME ~ Overtakes, Inv, AllInOrder, NEW k \in 1..InFlight, Acknowledge(k)
    PROVE  AllInOrder'
<1> DEFINE s == to_server[k].session
           chain == switcher[s].chain
           inward == RemoveAt(to_server, k)
<1>1. /\ k = 1 /\ k \in DOMAIN to_server /\ to_server[k].kind = "ack" /\ s \in SwitcherSessions
      /\ to_server[k] \in Range(to_server)
  BY RangesOK DEF Acknowledge, Arriving, Expects, Inv
<1>2. /\ switcher[s] \in SessionType
      /\ Len(chain) <= Unacknowledged
      /\ DOMAIN chain = 1..Len(chain)
      /\ to_client \in Seq(Datagrams) /\ to_server \in Seq(Replies)
      /\ switcher \in [SwitcherSessions -> SessionType]
  BY <1>1, Chained, Types DEF Inv
<1>3. CASE switcher[s].phase = "opening"
  <2>1. PICK tally \in Tallies :
           Answer(k, [switcher EXCEPT ![s] = Connected(s, tally)], Connected(s, tally).chain)
    BY <1>3 DEF Acknowledge
  <2> DEFINE m == Data(s, 1, TRUE, tally)
  <2>2. m \in Datagrams
    BY <1>1, IdFacts, DatagramType
  <2>3. /\ Dark /\ (\A n \in Range(to_client) : n.kind = "accept")
        /\ \A n \in Range(to_server) : n.kind = "ack" /\ n.id = 0
        /\ client.write_buf = "ack" /\ client.remote_id_last = 0
    BY <1>1, <1>2, <1>3 DEF Inv, Opening
  <2>4. to_client' = Append(to_client, m) /\ to_server' = inward /\ UNCHANGED <<client, device>>
    <3>1. Connected(s, tally).chain = <<m>>
      BY DEF Connected
    <3> HIDE DEF m
    <3>2. to_client \o <<m>> = Append(to_client, m)
      BY <1>2, <2>2
    <3> QED
      BY <2>1, <3>1, <3>2 DEF Answer
  <2>5. inward \in Seq(Replies) /\ Range(inward) \subseteq Range(to_server)
    BY <1>1, <1>2, Removed, RangeRemoved
  <2> HIDE DEF inward
  <2>6. /\ \A j \in DOMAIN to_client : to_client[j].kind = "accept"
        /\ \A j \in DOMAIN inward : inward[j].kind = "ack" => inward[j].id = 0
    BY <1>2, <2>3, <2>5, InRange
  <2>7. InOrder(Connected(s, tally), client, device, Append(to_client, m), inward)
    BY <1>1, <1>2, <2>3, <2>5, <2>6, InOrderConnected DEF Dark
  <2>8. /\ switcher'[s] = Connected(s, tally)
        /\ \A t \in SwitcherSessions : t # s => switcher'[t] = switcher[t]
    BY <1>1, <1>2, <2>1 DEF Answer
  <2>9. \A t \in SwitcherSessions : t # s => switcher[t].phase # "connected"
    BY <1>1, <1>3, Only DEF Alive
  <2> HIDE DEF m, s
  <2> QED
    BY <2>4, <2>7, <2>8, <2>9 DEF AllInOrder
<1>4. CASE switcher[s].phase # "opening"
  <2>1. PICK j \in DOMAIN chain :
           chain[j].id = to_server[k].id /\ Answer(k, [switcher EXCEPT ![s] = Acknowledged(@, j)], <<>>)
    BY <1>4 DEF Acknowledge
  <2>2. switcher[s].phase = "connected"
    BY <1>1, <1>2, <2>1 DEF Inv, Chains
  <2>3. InOrder(switcher[s], client, device, to_client, to_server)
    BY <1>1, <2>2 DEF AllInOrder
  <2>4. InOrder(Acknowledged(switcher[s], j), client, device, to_client, RemoveAt(to_server, 1))
    BY <1>1, <1>2, <2>1, <2>3, InOrderAcknowledged
  <2>5. to_client' = to_client /\ to_server' = RemoveAt(to_server, 1) /\ UNCHANGED <<client, device>>
    <3>1. to_client \o <<>> = to_client
      BY <1>2
    <3> QED
      BY <1>1, <2>1, <3>1 DEF Answer
  <2>6. /\ switcher'[s] = Acknowledged(switcher[s], j)
        /\ \A t \in SwitcherSessions : t # s => switcher'[t] = switcher[t]
    BY <1>1, <1>2, <2>1 DEF Answer
  <2>7. \A t \in SwitcherSessions : t # s => switcher[t].phase # "connected"
    BY <1>1, <2>2, Only DEF Alive
  <2> HIDE DEF s
  <2> QED
    BY <2>4, <2>5, <2>6, <2>7 DEF AllInOrder
<1> QED
  BY <1>3, <1>4

LEMMA RecvOrder ==
    ASSUME ~ Overtakes, Inv, AllInOrder, NEW k \in 1..InFlight, Recv(k)
    PROVE  AllInOrder'
<1> DEFINE m == to_client[1]
           parsed == Parse(client, m)
           reply == parsed.reply
<1>1. k = 1 /\ 1 \in DOMAIN to_client /\ to_client' = RemoveAt(to_client, 1)
  BY DEF Recv, Arriving
<1>2. m \in Datagrams /\ m \in Range(to_client) /\ client \in Clients /\ device \in DeviceType
  BY <1>1, Taken
<1>3. /\ client' = parsed.client /\ device' = Process(device, parsed.status, m) /\ switcher' = switcher
      /\ to_server' = IF parsed.status \in Answered THEN Append(to_server, reply) ELSE to_server
      /\ parsed.status \in Answered => reply \in Replies
  <2>1. parsed.status \in Answered => reply \in Replies
    BY <1>2, ParseType
  <2> QED
    BY <1>1, <2>1 DEF Recv
<1> SUFFICES ASSUME NEW s \in SwitcherSessions, switcher[s].phase = "connected"
             PROVE  InOrder(switcher[s], client', device', to_client', to_server')
  BY <1>3 DEF AllInOrder
<1>4. client.write_buf \in {"ack", "retxreq"} /\ m.kind \in {"accept", "data"}
  BY <1>2 DEF Inv, Connecting
<1>5. InOrder(switcher[s], client, device, to_client, to_server)
  BY DEF AllInOrder
<1>6. /\ switcher[s] \in SessionType /\ Len(switcher[s].chain) <= Unacknowledged
      /\ to_client \in Seq(Datagrams) /\ to_server \in Seq(Replies)
  BY Chained
<1>7. CASE m.kind = "accept"
  <2>1. client.write_buf = "ack"
    BY <1>1, <1>5, <1>7 DEF InOrder, AcceptsIn
  <2>2. parsed = Parsed(client, "write_only", Reply("ack", m, 0))
    BY <1>7, <2>1 DEF Parse, ParseAccept
  <2>3. /\ parsed.client = client /\ parsed.status = "write_only"
        /\ reply.kind = "ack" /\ reply.id = 0
    BY <2>2 DEF Parsed, Reply
  <2> HIDE DEF parsed, reply
  <2>4. client' = client /\ device' = device /\ to_server' = Append(to_server, reply) /\ reply \in Replies
    BY <1>3, <2>3 DEF Process, Answered
  <2> QED
    BY <1>1, <1>5, <1>6, <1>7, <2>1, <2>3, <2>4, InOrderAnswered
<1>8. CASE m.kind = "data"
  <2>1. \/ /\ parsed.status = "write" /\ m.id = Expected(client)
           /\ client'.remote_id_last = m.id
           /\ reply.kind = "ack" /\ reply.id = m.id
        \/ /\ parsed.status = "write_only"
           /\ client'.remote_id_last = client.remote_id_last
           /\ reply.kind = "ack" => reply.id = client.remote_id_last
    BY <1>2, <1>3, <1>4, <1>8, DataParsed
  <2> HIDE DEF parsed, reply
  <2>2. CASE parsed.status = "write"
    <3>1. /\ device' = ProcessCommands(device, m) /\ to_server' = Append(to_server, reply)
          /\ reply \in Replies
      BY <1>3, <2>2 DEF Process, Answered
    <3> QED
      BY <1>1, <1>2, <1>5, <1>6, <1>8, <2>1, <2>2, <3>1, InOrderTaken
  <2>3. CASE parsed.status = "write_only"
    <3>1. device' = device /\ to_server' = Append(to_server, reply) /\ reply \in Replies
      BY <1>3, <2>3 DEF Process, Answered
    <3> QED
      BY <1>1, <1>5, <1>6, <1>8, <2>1, <2>3, <3>1, InOrderAnswered
  <2> QED
    BY <2>1, <2>2, <2>3
<1> QED
  BY <1>4, <1>7, <1>8

LEMMA NextOrder ==
    ASSUME ~ Outlives, ~ Overtakes
    PROVE  Inv /\ AllInOrder /\ [Next]_vars => AllInOrder'
<1> SUFFICES ASSUME Inv, AllInOrder, [Next]_vars PROVE AllInOrder'
  OBVIOUS
<1>1. CASE UNCHANGED vars
  BY <1>1 DEF vars, AllInOrder
<1>2. CASE SwitcherRecv
  BY <1>2, NoneOrder, AcknowledgeOrder, LoseOrder DEF SwitcherRecv
<1>3. CASE Next
  BY <1>2, <1>3, NextCases, DeviceOrder, RecvOrder, LoseOrder, SwitcherActsOrder
<1> QED
  BY <1>1, <1>3

\* The numbers say which packet the device received last.
LEMMA OrderFollows == Inv /\ AllInOrder => TallyFollows
<1> SUFFICES ASSUME Inv, AllInOrder, NEW s \in SwitcherSessions, switcher[s].phase = "connected"
             PROVE  \/ /\ client.remote_id_last = switcher[s].base
                       /\ device.tally = switcher[s].tally
                    \/ \E k \in DOMAIN switcher[s].chain :
                          /\ client.remote_id_last = switcher[s].chain[k].id
                          /\ device.tally = TallyAfter(switcher[s], k)
  BY DEF TallyFollows
<1> DEFINE session == switcher[s]
<1>1. PICK b \in Int, n \in Nat : Numbered(session, b, n) /\ Following(session, client, device, b, n)
  BY DEF AllInOrder, InOrder
<1>2. DOMAIN session.chain = 1..Len(session.chain) /\ session \in SessionType
  BY Chained
<1>3. Len(session.chain) \in Nat
  BY <1>2 DEF SessionType
<1> HIDE DEF session
<1>4. CASE n = 0
  <2>1. b + n = b
    BY <1>4
  <2> QED
    BY <1>1, <1>4, <2>1, TallyNone DEF Numbered, Following, session
<1>5. CASE n # 0
  <2>1. n \in DOMAIN session.chain
    BY <1>1, <1>2, <1>3, <1>5 DEF Numbered
  <2> QED
    BY <1>1, <2>1 DEF Numbered, Following, session
<1> QED
  BY <1>4, <1>5

\* What the device shows is what its session has reported up to the packet it received last
\* (atem_parse(), tally_pin_set()): no packet is taken twice, left out or taken from a session
\* before, whatever is lost and repeated, and however often ids wrap.
THEOREM TallyFollowsThm ==
    ASSUME ~ Outlives, ~ Overtakes
    PROVE  Spec => []TallyFollows
<1>1. Init => Inv /\ AllInOrder
  <2>1. Init => AllInOrder
    BY DEF Init, AllInOrder, NoSession
  <2> QED
    BY <2>1, InitInv
<1>2. Inv /\ AllInOrder /\ [Next]_vars => Inv' /\ AllInOrder'
  BY NextInv, NextOrder
<1>3. Inv /\ AllInOrder => TallyFollows
  BY OrderFollows
<1> QED
  BY <1>1, <1>2, <1>3, PTL DEF Spec

===============================================================================
