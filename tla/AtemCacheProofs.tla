---------------------------- MODULE AtemCacheProofs ----------------------------
(***************************************************************************)
(* Whatever the network does, a connected client's view, with the packets  *)
(* it has yet to process, is the cache (InSync), for any number of clients,*)
(* any parameters, any way to cut a dump into packets, and any commands:   *)
(* nothing is said of what comes after one that Fails.                     *)
(*                                                                         *)
(* InSync is about the packets that a client has yet to process, which are *)
(* underway.  What makes it inductive is that they have consecutive ids    *)
(* and start where the client is.  The chain has no part in it: an         *)
(* acknowledgement takes packets out of the chain that are underway still, *)
(* and these may never arrive.                                             *)
(*                                                                         *)
(* With the same invariant, AtemCache implements SharedParameters          *)
(* (ImplementsSharedParametersThm, at the end).  Two facts carry it: bytes *)
(* of a sum make the sum of the numbers, modulo the numbers' width, if the *)
(* command's numbers are as wide as the parameter's, and some payload      *)
(* otherwise; and the packets underway change only at their ends: a        *)
(* broadcast appends one, and a client that processes one takes the first. *)
(***************************************************************************)
EXTENDS AtemCache, WellFoundedInduction, TLAPS, FiniteSetTheorems, SequenceTheorems

-------------------------------------------------------------------------------
(***************************************************************************)
(* Induction over the natural numbers, and remainders.                     *)
(***************************************************************************)

\* A set of numbers that has zero, and with each number the next, has all of them:
\* otherwise there is a smallest number that it lacks.
LEMMA NatInductionSet ==
  ASSUME NEW S, 0 \in S, \A n \in Nat : n \in S => n + 1 \in S
  PROVE  Nat \subseteq S
<1> DEFINE T == Nat \ S
<1>1. SUFFICES ASSUME T # {} PROVE FALSE
  OBVIOUS
<1>2. T \subseteq Nat
  OBVIOUS
<1>3. PICK x \in T : \A y \in T : ~ (<<y, x>> \in OpToRel(<, Nat))
  <2> HIDE DEF T
  <2> QED
    BY <1>1, <1>2, NatLessThanWellFounded, WFMin
<1>4. x \in Nat /\ x \notin S
  OBVIOUS
<1>5. x - 1 \in Nat
  BY <1>4
<1>6. x - 1 \in S
  <2>1. <<x - 1, x>> \in OpToRel(<, Nat)
    BY <1>4, <1>5 DEF OpToRel
  <2> QED
    BY <1>3, <1>5, <2>1
<1>7. x - 1 + 1 = x
  BY <1>4
<1> QED
  BY <1>4, <1>5, <1>6, <1>7

\* A set of numbers from 1 to n has a greatest one.
LEMMA GreatestIn ==
    ASSUME NEW n \in Nat, NEW S \in SUBSET (1..n), S # {}
    PROVE  \E m \in S : \A j \in S : j <= m
<1> DEFINE T == {k \in Nat : \A R \in SUBSET (1..k) : R # {} => \E m \in R : \A j \in R : j <= m}
<1>1. 0 \in T
  <2>1. 1..0 = {}
    OBVIOUS
  <2> QED
    BY <2>1
<1>2. ASSUME NEW k \in Nat, k \in T PROVE k + 1 \in T
  <2> SUFFICES ASSUME NEW R \in SUBSET (1..k + 1), R # {}
               PROVE  \E m \in R : \A j \in R : j <= m
    OBVIOUS
  <2>1. CASE k + 1 \in R
    BY <2>1
  <2>2. CASE k + 1 \notin R
    <3>1. R \in SUBSET (1..k)
      BY <2>2
    <3> QED
      BY <1>2, <3>1
  <2> QED
    BY <2>1, <2>2
<1>3. Nat \subseteq T
  <2> HIDE DEF T
  <2> QED
    BY <1>1, <1>2, NatInductionSet
<1> QED
  BY <1>3

\* Quotient and remainder.
LEMMA DivModFacts ==
    ASSUME NEW n \in Int, NEW b \in Nat \ {0}
    PROVE  /\ n \div b \in Int /\ n % b \in Int
           /\ 0 <= n % b /\ n % b < b /\ n = b * (n \div b) + (n % b)
<1>1. n \div b \in Int
  OBVIOUS
<1>2. n % b \in Int
  OBVIOUS
<1>3. 0 <= n % b /\ n % b < b
  OBVIOUS
<1>4. n = b * (n \div b) + (n % b)
  OBVIOUS
<1> QED
  BY <1>1, <1>2, <1>3, <1>4

\* There is only one quotient.
LEMMA DivModUnique ==
    ASSUME NEW b \in Nat \ {0}, NEW q \in Int, NEW r \in Int, 0 <= r, r < b,
           NEW n \in Int, n = b * q + r
    PROVE  n \div b = q /\ n % b = r
<1> DEFINE d == n \div b
           m == n % b
<1>1. d \in Int /\ m \in Int /\ 0 <= m /\ m < b /\ n = b * d + m
  BY DivModFacts
<1> HIDE DEF d, m
<1>2. b * (d - q) = r - m
  BY <1>1
<1>3. d - q = 0
  <2>1. CASE d - q >= 1
    <3>1. b * (d - q) >= b
      BY <1>1, <2>1
    <3> QED
      BY <1>1, <1>2, <3>1
  <2>2. CASE d - q <= -1
    <3>1. b * (d - q) <= -b
      BY <1>1, <2>2
    <3> QED
      BY <1>1, <1>2, <3>1
  <2> QED
    BY <1>1, <2>1, <2>2
<1>4. d = q
  BY <1>1, <1>3
<1>5. m = r
  BY <1>1, <1>4
<1> QED
  BY <1>4, <1>5 DEF d, m

-------------------------------------------------------------------------------

PacketType == [remote_id : Nat, values : Views]
SessionType == [connected : BOOLEAN, remote_id : Nat, remote_id_last : Nat,
                chain : Seq(PacketType), underway : Seq(PacketType)]
ClientType == [received : Nat, view : Views, sent : Seq(Datagrams)]
ServerType == [cache : [Params -> Payloads], sessions : [Clients -> SessionType]]

\* The packets underway are the last ones that were sent; those in the chain were sent.
Numbered(session) ==
    /\ Len(session.underway) <= session.remote_id
    /\ \A k \in 1..Len(session.underway) :
          session.underway[k].remote_id = session.remote_id - Len(session.underway) + k
    /\ \A k \in 1..Len(session.chain) : session.chain[k].remote_id \in 1..session.remote_id

\* The client has processed all packets but those underway.
Reached(session, client) == client.received = session.remote_id - Len(session.underway)

\* The k-th packet underway holds p.
Holds(session, p, k) ==
    k \in 1..Len(session.underway) /\ p \in DOMAIN session.underway[k].values

\* The k-th packet underway is the last one that tells the client of p.
LastOf(session, p, k) ==
    /\ Holds(session, p, k)
    /\ \A j \in 1..Len(session.underway) : Holds(session, p, j) => j <= k

\* The client is told the value of p, or was told before.
Knows(session, client, p, value) ==
    \/ \E k \in 1..Len(session.underway) :
          LastOf(session, p, k) /\ session.underway[k].values[p] = value
    \/ /\ \A k \in 1..Len(session.underway) : ~ Holds(session, p, k)
       /\ p \in DOMAIN client.view /\ client.view[p] = value

\* A client that is connected, with the parameters of the cache.
Follows(session, client, values) ==
    /\ Numbered(session) /\ Reached(session, client)
    /\ \A p \in Params : Knows(session, client, p, values[p])

Synced(s, c, client) ==
    IF s.sessions[c].connected THEN Follows(s.sessions[c], client, s.cache)
    ELSE s.sessions[c] = NoSession /\ client = NewClient

Bounded(session) ==
    session.remote_id <= RemoteIdsMax /\ session.remote_id_last <= DatagramsMax

Inv ==
    /\ failed \in BOOLEAN
    /\ Server \in ServerType
    /\ clients \in [Clients -> ClientType]
    /\ \A c \in Clients : Bounded(sessions[c]) /\ Synced(Server, c, clients[c])

-------------------------------------------------------------------------------
(***************************************************************************)
(* Sessions and clients.                                                   *)
(***************************************************************************)

\* What a session's type says of its fields.
LEMMA SessionFacts ==
    ASSUME NEW session \in SessionType
    PROVE  /\ DOMAIN session = {"connected", "remote_id", "remote_id_last", "chain", "underway"}
           /\ session.connected \in BOOLEAN
           /\ session.remote_id \in Nat /\ session.remote_id_last \in Nat
           /\ session.chain \in Seq(PacketType) /\ Len(session.chain) \in Nat
           /\ session.underway \in Seq(PacketType) /\ Len(session.underway) \in Nat
           /\ \A k \in 1..Len(session.chain) :
                 /\ session.chain[k] \in PacketType
                 /\ session.chain[k].remote_id \in Nat /\ session.chain[k].values \in Views
           /\ \A k \in 1..Len(session.underway) :
                 /\ session.underway[k] \in PacketType
                 /\ session.underway[k].remote_id \in Nat
                 /\ session.underway[k].values \in Views
<1>1. session.chain \in Seq(PacketType) /\ Len(session.chain) \in Nat
  BY DEF SessionType
<1>2. ASSUME NEW k \in 1..Len(session.chain) PROVE session.chain[k] \in PacketType
  BY <1>1, ElementOfSeq
<1>3. session.underway \in Seq(PacketType) /\ Len(session.underway) \in Nat
  BY DEF SessionType
<1>4. ASSUME NEW k \in 1..Len(session.underway) PROVE session.underway[k] \in PacketType
  BY <1>3, ElementOfSeq
<1> QED
  BY <1>1, <1>2, <1>3, <1>4 DEF SessionType, PacketType

\* A packet that is sent is underway: the client is told its values, and what it was
\* told of other parameters.
LEMMA PushedFollows ==
    ASSUME NEW session \in SessionType, session.connected, NEW client \in ClientType,
           Numbered(session), Reached(session, client), NEW values \in Views,
           NEW after, after = Pushed(session, values)
    PROVE  /\ after \in SessionType /\ after.connected
           /\ Numbered(after) /\ Reached(after, client)
           /\ \A p \in DOMAIN values : Knows(after, client, p, values[p])
           /\ \A p, value : Knows(session, client, p, value) /\ p \notin DOMAIN values
                 => Knows(after, client, p, value)
<1> DEFINE underway == session.underway
           longer == after.underway
           n == Len(underway)
           packet == Packet(session.remote_id + 1, values)
<1>1. /\ session.remote_id \in Nat /\ n \in Nat /\ underway \in Seq(PacketType)
      /\ client.received \in Nat
  BY SessionFacts DEF ClientType
<1>2. packet \in PacketType
  BY <1>1 DEF Packet, PacketType
<1>3. /\ packet.remote_id = session.remote_id + 1 /\ packet.values = values
      /\ longer = Append(underway, packet) /\ after.remote_id = session.remote_id + 1
      /\ after.chain = Append(session.chain, packet) /\ after.connected
      /\ after.remote_id_last = session.remote_id_last
  BY SessionFacts DEF Pushed, Packet
<1>4. DOMAIN after = {"connected", "remote_id", "remote_id_last", "chain", "underway"}
      /\ after = [connected |-> TRUE, remote_id |-> session.remote_id + 1,
                  remote_id_last |-> session.remote_id_last, chain |-> after.chain,
                  underway |-> longer]
  BY SessionFacts DEF Pushed, Packet, SessionType
<1> HIDE DEF packet
<1>5. /\ longer \in Seq(PacketType) /\ Len(longer) = n + 1
      /\ \A k \in 1..n : longer[k] = underway[k]
      /\ longer[n + 1] = packet
  BY <1>1, <1>2, <1>3
<1>6. /\ after.chain \in Seq(PacketType) /\ Len(after.chain) = Len(session.chain) + 1
      /\ \A k \in 1..Len(session.chain) : after.chain[k] = session.chain[k]
      /\ after.chain[Len(session.chain) + 1] = packet
  BY <1>2, <1>3, SessionFacts
<1>7. after \in SessionType
  <2> DEFINE chain == after.chain
  <2>1. /\ chain \in Seq(PacketType) /\ longer \in Seq(PacketType)
        /\ session.remote_id + 1 \in Nat /\ session.remote_id_last \in Nat
    BY <1>1, <1>5, <1>6, SessionFacts
  <2>2. after = [connected |-> TRUE, remote_id |-> session.remote_id + 1,
                 remote_id_last |-> session.remote_id_last, chain |-> chain, underway |-> longer]
    BY <1>4
  <2> HIDE DEF longer, chain
  <2> QED
    BY <2>1, <2>2 DEF SessionType
<1>8. Numbered(after)
  <2>1. \A k \in 1..Len(after.chain) : after.chain[k].remote_id \in 1..after.remote_id
    <3>1. \A k \in 1..Len(session.chain) : session.chain[k].remote_id \in 1..session.remote_id
      BY DEF Numbered
    <3>2. \A k \in 1..Len(session.chain) + 1 :
            k \in 1..Len(session.chain) \/ k = Len(session.chain) + 1
      BY SessionFacts
    <3> QED
      BY <1>1, <1>3, <1>6, <3>1, <3>2
  <2>2. ASSUME NEW k \in 1..n + 1
        PROVE  longer[k].remote_id = (session.remote_id + 1) - (n + 1) + k
    <3>1. CASE k = n + 1
      BY <1>1, <1>3, <1>5, <3>1
    <3>2. CASE k # n + 1
      <4>1. k \in 1..n
        BY <1>1, <3>2
      <4>2. longer[k].remote_id = session.remote_id - n + k
        BY <1>5, <4>1 DEF Numbered
      <4> QED
        BY <1>1, <4>1, <4>2
    <3> QED
      BY <3>1, <3>2
  <2>3. n + 1 <= session.remote_id + 1
    BY <1>1 DEF Numbered
  <2> HIDE DEF n
  <2> QED
    BY <1>3, <1>5, <2>1, <2>2, <2>3 DEF Numbered
<1>9. Reached(after, client)
  BY <1>1, <1>3, <1>5 DEF Reached
<1>10. \A k \in 1..n + 1 : k \in 1..n \/ k = n + 1
  BY <1>1
<1>11. \A p, k : k \in 1..n => (Holds(after, p, k) <=> Holds(session, p, k))
  BY <1>1, <1>5 DEF Holds
<1>12. \A p : Holds(after, p, n + 1) <=> p \in DOMAIN values
  BY <1>1, <1>3, <1>5 DEF Holds
<1>13. ASSUME NEW p \in DOMAIN values PROVE Knows(after, client, p, values[p])
  <2>1. LastOf(after, p, n + 1)
    BY <1>1, <1>5, <1>12 DEF LastOf
  <2> QED
    BY <1>1, <1>3, <1>5, <2>1 DEF Knows
<1>14. ASSUME NEW p, NEW value, Knows(session, client, p, value), p \notin DOMAIN values
       PROVE  Knows(after, client, p, value)
  <2>1. ~ Holds(after, p, n + 1)
    BY <1>12, <1>14
  <2>2. ASSUME NEW k \in 1..n, LastOf(session, p, k), underway[k].values[p] = value
        PROVE  Knows(after, client, p, value)
    <3>1. LastOf(after, p, k)
      BY <1>1, <1>5, <1>10, <1>11, <2>1, <2>2 DEF LastOf
    <3> QED
      BY <1>1, <1>5, <2>2, <3>1 DEF Knows
  <2>3. ASSUME \A k \in 1..n : ~ Holds(session, p, k)
        PROVE  \A k \in 1..Len(longer) : ~ Holds(after, p, k)
    BY <1>1, <1>5, <1>10, <1>11, <2>1, <2>3
  <2> QED
    BY <1>14, <2>2, <2>3 DEF Knows
<1> QED
  BY <1>3, <1>7, <1>8, <1>9, <1>13, <1>14

\* The values of some parameters.
LEMMA ViewFacts ==
    ASSUME NEW view \in Views
    PROVE  DOMAIN view \in SUBSET Params /\ view \in [DOMAIN view -> Payloads]
<1>1. PICK S \in SUBSET Params : view \in [S -> Payloads]
  BY DEF Views
<1> QED
  BY <1>1

\* What a client knows after a packet are again the values of some parameters.
LEMMA ProcessedView ==
    ASSUME NEW view \in Views, NEW values \in Views
    PROVE  Processed(view, values) \in Views
<1> DEFINE S == DOMAIN view \cup DOMAIN values
<1>1. S \in SUBSET Params
  BY ViewFacts
<1>2. view \in [DOMAIN view -> Payloads] /\ values \in [DOMAIN values -> Payloads]
  BY ViewFacts
<1>3. Processed(view, values) \in [S -> Payloads]
  BY <1>2 DEF Processed
<1> HIDE DEF S
<1> QED
  BY <1>1, <1>3 DEF Views

\* What the first packet underway makes of a session and of a client.
Shortened(session)        == [session EXCEPT !.underway = Tail(@)]
Informed(client, packet) ==
    [client EXCEPT !.received = packet.remote_id, !.view = Processed(@, packet.values)]

\* A client processes the first packet underway: it has been told as much.
LEMMA ReceivedFollows ==
    ASSUME NEW session \in SessionType, NEW client \in ClientType, NEW values,
           Follows(session, client, values), session.underway # <<>>,
           NEW packet, packet = Head(session.underway),
           NEW later, later = Shortened(session), NEW after, after = Informed(client, packet)
    PROVE  /\ later \in SessionType /\ after \in ClientType /\ Follows(later, after, values)
           /\ later.connected = session.connected /\ later.remote_id = session.remote_id
           /\ later.remote_id_last = session.remote_id_last
<1> DEFINE underway == session.underway
           rest == later.underway
           n == Len(underway)
           view == Processed(client.view, packet.values)
<1>1. Numbered(session) /\ Reached(session, client)
  BY DEF Follows
<1>2. /\ underway \in Seq(PacketType) /\ underway # <<>> /\ n \in Nat
      /\ \A k \in 1..n : underway[k] \in PacketType
      /\ session.remote_id \in Nat /\ client.received \in Nat
      /\ client.view \in Views /\ client.sent \in Seq(Datagrams)
  BY SessionFacts DEF ClientType
<1>3. /\ rest = Tail(underway) /\ later.remote_id = session.remote_id
      /\ later.chain = session.chain /\ later.connected = session.connected
      /\ later.remote_id_last = session.remote_id_last
      /\ later = [connected |-> session.connected, remote_id |-> session.remote_id,
                  remote_id_last |-> session.remote_id_last, chain |-> session.chain,
                  underway |-> rest]
  BY SessionFacts DEF SessionType, Shortened
<1> HIDE DEF underway, rest
<1>4. /\ rest \in Seq(PacketType) /\ Len(rest) = n - 1 /\ n >= 1 /\ packet = underway[1]
      /\ \A k \in 1..Len(rest) : rest[k] = underway[k + 1]
  <2>1. packet = underway[1]
    BY DEF underway
  <2> QED
    BY <1>2, <1>3, <2>1, HeadTailProperties
<1>5. packet.remote_id \in Nat /\ packet.values \in Views
  <2>1. 1 \in 1..n
    BY <1>2, <1>4
  <2>2. packet \in PacketType
    BY <1>2, <1>4, <2>1
  <2> QED
    BY <2>2 DEF PacketType
<1>6. view \in Views
  BY <1>2, <1>5, ProcessedView
<1>7. after = [received |-> packet.remote_id, view |-> view, sent |-> client.sent]
      /\ after.received = packet.remote_id /\ after.view = view
  BY DEF ClientType, Informed
<1>8. /\ DOMAIN view = DOMAIN client.view \cup DOMAIN packet.values
      /\ \A p \in DOMAIN packet.values : view[p] = packet.values[p]
      /\ \A p \in DOMAIN client.view \ DOMAIN packet.values : view[p] = client.view[p]
  BY DEF Processed
<1> HIDE DEF view
<1>9. after \in ClientType
  BY <1>2, <1>5, <1>6, <1>7 DEF ClientType
<1>10. later \in SessionType
  BY <1>3, <1>4, SessionFacts DEF SessionType
<1>11. /\ \A k \in 1..n : underway[k].remote_id = session.remote_id - n + k
       /\ n <= session.remote_id
  BY <1>1 DEF Numbered, underway
<1> HIDE DEF n
<1>12. Numbered(later)
  <2>1. ASSUME NEW k \in 1..Len(rest)
        PROVE  rest[k].remote_id = session.remote_id - Len(rest) + k
    <3>1. k + 1 \in 1..n /\ rest[k] = underway[k + 1]
      BY <1>2, <1>4
    <3>2. rest[k].remote_id = session.remote_id - n + (k + 1)
      BY <1>11, <3>1
    <3>3. Len(rest) = n - 1
      BY <1>4
    <3> QED
      BY <1>2, <3>2, <3>3
  <2>2. Len(rest) <= session.remote_id
    BY <1>2, <1>4, <1>11
  <2> QED
    BY <1>1, <1>3, <2>1, <2>2 DEF Numbered, rest
<1>13. Reached(later, after)
  <2>1. 1 \in 1..n
    BY <1>2, <1>4
  <2>2. packet.remote_id = session.remote_id - n + 1
    BY <1>4, <1>11, <2>1
  <2> QED
    BY <1>2, <1>3, <1>4, <1>7, <2>2 DEF Reached, rest
<1>14. ASSUME NEW p, NEW k \in 1..Len(rest)
       PROVE  k + 1 \in 1..n /\ (Holds(later, p, k) <=> Holds(session, p, k + 1))
  <2>1. k + 1 \in 1..n /\ rest[k] = underway[k + 1]
    BY <1>2, <1>4
  <2> QED
    BY <2>1 DEF Holds, rest, underway, n
<1>15. \A p : Holds(session, p, 1) <=> p \in DOMAIN packet.values
  BY <1>2, <1>4 DEF Holds, underway, n
<1>16. ASSUME NEW p \in Params PROVE Knows(later, after, p, values[p])
  <2>1. Knows(session, client, p, values[p])
    BY DEF Follows
  <2>2. ASSUME NEW k \in 1..n, LastOf(session, p, k), underway[k].values[p] = values[p]
        PROVE  Knows(later, after, p, values[p])
    <3>1. CASE k = 1
      <4>1. p \in DOMAIN packet.values /\ view[p] = values[p]
        BY <1>4, <1>8, <1>15, <2>2, <3>1 DEF LastOf
      <4>2. ASSUME NEW j \in 1..Len(rest), Holds(later, p, j) PROVE FALSE
        <5>1. j + 1 \in 1..n /\ Holds(session, p, j + 1)
          BY <1>14, <4>2
        <5>2. j + 1 <= 1
          BY <2>2, <3>1, <5>1 DEF LastOf, underway, n
        <5> QED
          BY <4>2, <5>2
      <4> QED
        BY <1>7, <1>8, <4>1, <4>2 DEF Knows, rest
    <3>2. CASE k # 1
      <4>1. k - 1 \in 1..Len(rest) /\ (k - 1) + 1 = k
        BY <1>2, <1>4, <3>2
      <4>2. Holds(later, p, k - 1)
        <5>1. Holds(session, p, k)
          BY <2>2 DEF LastOf
        <5> QED
          BY <1>14, <4>1, <5>1
      <4>3. ASSUME NEW j \in 1..Len(rest), Holds(later, p, j) PROVE j <= k - 1
        <5>1. j + 1 \in 1..n /\ Holds(session, p, j + 1)
          BY <1>14, <4>3
        <5>2. j + 1 <= k
          BY <2>2, <5>1 DEF LastOf, underway, n
        <5> QED
          BY <1>2, <5>2
      <4>4. LastOf(later, p, k - 1)
        BY <4>2, <4>3 DEF LastOf, rest
      <4>5. rest[k - 1].values[p] = values[p]
        <5>1. rest[k - 1] = underway[(k - 1) + 1]
          BY <1>4, <4>1
        <5> QED
          BY <2>2, <4>1, <5>1
      <4> QED
        BY <4>1, <4>4, <4>5 DEF Knows, rest
    <3> QED
      BY <3>1, <3>2
  <2>3. ASSUME \A k \in 1..n : ~ Holds(session, p, k),
               p \in DOMAIN client.view, client.view[p] = values[p]
        PROVE  Knows(later, after, p, values[p])
    <3>1. p \notin DOMAIN packet.values
      BY <1>2, <1>4, <1>15, <2>3
    <3>2. p \in DOMAIN view /\ view[p] = values[p]
      BY <1>8, <2>3, <3>1
    <3>3. \A k \in 1..Len(rest) : ~ Holds(later, p, k)
      BY <1>14, <2>3
    <3> QED
      BY <1>7, <3>2, <3>3 DEF Knows, rest
  <2> QED
    BY <2>1, <2>2, <2>3 DEF Knows, underway, n
<1> QED
  BY <1>3, <1>9, <1>10, <1>12, <1>13, <1>16 DEF Follows

-------------------------------------------------------------------------------
(***************************************************************************)
(* Payloads.                                                               *)
(***************************************************************************)

\* There are values of any number of bytes.
LEMMA ValuesNat ==
    /\ \A n \in 0..4 : Values[n] \in Nat \ {0}
    /\ Values[0] = 1 /\ \A k \in 1..4 : Values[k] = Base * Values[k - 1]
<1> DEFINE Step(f, m) == [k \in 0..m |-> IF k = 0 THEN 1 ELSE Base * f[k - 1]]
           after == CHOOSE f : f = Step(f, 4)
           n == 4
<1>1. \E f : f = Step(f, n)
  <2> DEFINE S == {m \in Nat : \E f : f = Step(f, m)}
  <2>1. 0 \in S
    <3>1. [k \in 0..0 |-> 1] = Step([k \in 0..0 |-> 1], 0)
      OBVIOUS
    <3> QED
      BY <3>1
  <2>2. ASSUME NEW m \in Nat, m \in S PROVE m + 1 \in S
    <3>1. PICK f : f = Step(f, m)
      BY <2>2
    <3> DEFINE g == [k \in 0..m + 1 |-> IF k = 0 THEN 1 ELSE Base * f[k - 1]]
    <3>2. \A k \in 0..m : f[k] = g[k]
      BY <3>1
    <3>3. \A k \in 0..m + 1 : g[k] = Step(g, m + 1)[k]
      <4> TAKE k \in 0..m + 1
      <4>1. CASE k = 0
        BY <4>1
      <4>2. CASE k # 0
        <5>1. k - 1 \in 0..m
          BY <4>2
        <5> QED
          BY <3>2, <4>2, <5>1
      <4> QED
        BY <4>1, <4>2
    <3>4. g = Step(g, m + 1)
      BY <3>3
    <3> HIDE DEF g, Step
    <3> QED
      BY <3>4
  <2>3. Nat \subseteq S
    <3> HIDE DEF S
    <3> QED
      BY <2>1, <2>2, NatInductionSet
  <2> QED
    BY <2>3
<1>2. after = Step(after, n)
  <2> HIDE DEF Step
  <2> QED
    BY <1>1
<1>3. Values = after
  BY DEF Values
<1> HIDE DEF after
<1>4. Base \in Nat \ {0}
  BY CameraControlAssumption
<1>5. Values = Step(Values, 4)
  BY <1>2, <1>3
<1>6. Values[0] = 1 /\ \A k \in 1..4 : Values[k] = Base * Values[k - 1]
  BY <1>5
<1>7. Values[1] \in Nat \ {0}
  BY <1>4, <1>6
<1>8. Values[2] \in Nat \ {0}
  BY <1>4, <1>6, <1>7
<1>9. Values[3] \in Nat \ {0}
  BY <1>4, <1>6, <1>8
<1>10. Values[4] \in Nat \ {0}
  BY <1>4, <1>6, <1>9
<1> QED
  BY <1>6, <1>7, <1>8, <1>9, <1>10

\* Byte after byte.
LEMMA NumberSteps ==
    ASSUME NEW bytes, Len(bytes) \in Nat
    PROVE  \E f : /\ f[0] = 0 /\ f[Len(bytes)] = Number(bytes)
                 /\ \A k \in 1..Len(bytes) : f[k] = f[k - 1] * Base + bytes[k]
<1> DEFINE n == Len(bytes)
           u == Number(bytes)
           Step(f, m) == [k \in 0..m |-> IF k = 0 THEN 0 ELSE f[k - 1] * Base + bytes[k]]
           after == CHOOSE f : f = Step(f, n)
<1>1. \E f : f = Step(f, n)
  <2> DEFINE S == {m \in Nat : \E f : f = Step(f, m)}
  <2>1. 0 \in S
    <3>1. [k \in 0..0 |-> 0] = Step([k \in 0..0 |-> 0], 0)
      OBVIOUS
    <3> QED
      BY <3>1
  <2>2. ASSUME NEW m \in Nat, m \in S PROVE m + 1 \in S
    <3>1. PICK f : f = Step(f, m)
      BY <2>2
    <3> DEFINE g == [k \in 0..m + 1 |-> IF k = 0 THEN 0 ELSE f[k - 1] * Base + bytes[k]]
    <3>2. \A k \in 0..m : f[k] = g[k]
      BY <3>1
    <3>3. \A k \in 0..m + 1 : g[k] = Step(g, m + 1)[k]
      <4> TAKE k \in 0..m + 1
      <4>1. CASE k = 0
        BY <4>1
      <4>2. CASE k # 0
        <5>1. k - 1 \in 0..m
          BY <4>2
        <5> QED
          BY <3>2, <4>2, <5>1
      <4> QED
        BY <4>1, <4>2
    <3>4. g = Step(g, m + 1)
      BY <3>3
    <3> HIDE DEF g, Step
    <3> QED
      BY <3>4
  <2>3. Nat \subseteq S
    <3> HIDE DEF S
    <3> QED
      BY <2>1, <2>2, NatInductionSet
  <2> QED
    BY <2>3
<1>2. after = Step(after, n)
  <2> HIDE DEF Step
  <2> QED
    BY <1>1
<1>3. u = after[n]
  BY DEF Number
<1> HIDE DEF after
<1>4. after[0] = 0 /\ \A k \in 1..n : after[k] = after[k - 1] * Base + bytes[k]
  <2>1. n \in Nat
    OBVIOUS
  <2> HIDE DEF n
  <2>2. ASSUME NEW k \in 0..n
        PROVE  after[k] = IF k = 0 THEN 0 ELSE after[k - 1] * Base + bytes[k]
    BY <1>2, Zenon
  <2>3. after[0] = 0
    BY <2>1, <2>2
  <2>4. ASSUME NEW k \in 1..n PROVE after[k] = after[k - 1] * Base + bytes[k]
    <3>1. k \in 0..n /\ k # 0
      BY <2>1
    <3> QED
      BY <2>2, <3>1, Zenon
  <2> QED
    BY <2>3, <2>4
<1> QED
  BY <1>3, <1>4

\* Bytes make a number.
LEMMA NumberInt ==
    ASSUME NEW bytes \in Seq(Int)
    PROVE  Number(bytes) \in Int
<1> DEFINE n == Len(bytes)
<1>1. n \in Nat /\ Base \in Int /\ \A k \in 1..n : bytes[k] \in Int
  BY CameraControlAssumption, ElementOfSeq
<1>2. PICK f : /\ f[0] = 0 /\ f[n] = Number(bytes)
               /\ \A k \in 1..n : f[k] = f[k - 1] * Base + bytes[k]
  BY <1>1, NumberSteps
<1> HIDE DEF n
<1> DEFINE S == {m \in Nat : m <= n => f[m] \in Int}
<1>3. 0 \in S
  BY <1>2
<1>4. ASSUME NEW m \in Nat, m \in S PROVE m + 1 \in S
  <2> SUFFICES ASSUME m + 1 <= n PROVE f[m + 1] \in Int
    OBVIOUS
  <2>1. m + 1 \in 1..n /\ (m + 1) - 1 = m /\ m <= n
    BY <1>1
  <2>2. f[m] \in Int /\ bytes[m + 1] \in Int
    BY <1>1, <1>4, <2>1
  <2>3. f[m + 1] = f[m] * Base + bytes[m + 1]
    BY <1>2, <2>1
  <2> QED
    BY <1>1, <2>2, <2>3
<1>5. Nat \subseteq S
  <2> HIDE DEF S
  <2> QED
    BY <1>3, <1>4, NatInductionSet
<1> QED
  BY <1>1, <1>2, <1>5

\* A number in a payload.
LEMMA ElementInt ==
    ASSUME NEW p \in Payloads, NEW size \in Nat, NEW i \in Nat, (i + 1) * size <= PayloadLen
    PROVE  Number(Element(p, size, i)) \in Int
<1> DEFINE first == i * size + 1
           last  == (i + 1) * size
<1>1. first \in Int /\ last \in Int /\ first >= 1 /\ last <= PayloadLen
  <2>1. i * size \in Nat /\ (i + 1) * size \in Nat
    OBVIOUS
  <2>2. (i + 1) * size <= PayloadLen
    OBVIOUS
  <2> QED
    BY <2>1, <2>2, Z3
<1>2. \A k \in first..last : p[k] \in Int
  <2> HIDE DEF first, last
  <2>1. \A k \in first..last : k \in 1..PayloadLen
    BY <1>1, CameraControlAssumption
  <2> QED
    BY <2>1, CameraControlAssumption DEF Payloads
<1>3. SubSeq(p, first, last) \in Seq(Int)
  <2> HIDE DEF first, last
  <2> QED
    BY <1>1, <1>2, SubSeqProperties
<1>4. Element(p, size, i) \in Seq(Int)
  BY <1>3 DEF Element
<1> QED
  BY <1>4, NumberInt

\* A command leads to a payload.
LEMMA UpdatedPayload ==
    ASSUME NEW cached \in Payloads, NEW cc \in Commands,
           cc.relative => cc.type \in DOMAIN Types /\ cc.count * Types[cc.type] <= PayloadLen
    PROVE  Updated(cached, cc) \in Payloads
<1>1. cc.payload \in Payloads /\ cc.count \in Nat
  BY DEF Commands
<1>2. CASE ~ cc.relative
  BY <1>1, <1>2 DEF Updated
<1>3. CASE cc.relative
  <2> DEFINE size == Types[cc.type]
             count == cc.count
             received == cc.payload
             sum(i) == Number(Element(cached, size, i)) + Number(Element(received, size, i))
             added == Added(cached, received, size, count)
  <2>1. size \in {1, 2, 4} /\ count \in Nat /\ count * size <= PayloadLen
    BY <1>1, <1>3 DEF Types
  <2>2. Base \in Nat /\ Base > 0 /\ PayloadLen \in Nat
    BY CameraControlAssumption
  <2> HIDE DEF size, count, received
  <2>3. \A k \in 1..PayloadLen : cached[k] \in 0..Base - 1
    BY DEF Payloads
  <2>4. ASSUME NEW k \in 1..PayloadLen, k <= count * size
        PROVE  Bytes(sum((k - 1) \div size), size)[((k - 1) % size) + 1] \in 0..Base - 1
    <3> DEFINE i == (k - 1) \div size
               j == ((k - 1) % size) + 1
    <3>1. i \in Nat /\ (i + 1) * size <= PayloadLen
      <4>1. CASE size = 1
        BY <2>1, <2>2, <2>4, <4>1
      <4>2. CASE size = 2
        BY <2>1, <2>2, <2>4, <4>2
      <4>3. CASE size = 4
        BY <2>1, <2>2, <2>4, <4>3
      <4> QED
        BY <2>1, <4>1, <4>2, <4>3
    <3>2. j \in 1..size /\ size - j \in 0..4
      <4>1. CASE size = 1
        BY <2>2, <4>1
      <4>2. CASE size = 2
        BY <2>2, <4>2
      <4>3. CASE size = 4
        BY <2>2, <4>3
      <4> QED
        BY <2>1, <4>1, <4>2, <4>3
    <3> HIDE DEF i, j
    <3>3. size \in Nat /\ received \in Payloads
      BY <1>1, <2>1 DEF received
    <3>4. Number(Element(cached, size, i)) \in Int
      BY <3>1, <3>3, ElementInt
    <3>5. Number(Element(received, size, i)) \in Int
      BY <3>1, <3>3, ElementInt
    <3>6. sum(i) \in Int
      BY <3>4, <3>5
    <3> HIDE DEF sum
    <3>7. Bytes(sum(i), size)[j] = (sum(i) \div Values[size - j]) % Base
      BY <3>2 DEF Bytes
    <3>8. Values[size - j] \in Nat \ {0}
      BY <3>2, ValuesNat
    <3>9. (sum(i) \div Values[size - j]) % Base \in 0..Base - 1
      <4>1. sum(i) \div Values[size - j] \in Int
        BY <3>6, <3>8
      <4> QED
        BY <2>2, <4>1
    <3> QED
      BY <3>7, <3>9 DEF i, j
  <2>5. added = [k \in 1..PayloadLen |-> IF k > count * size THEN cached[k]
                 ELSE Bytes(sum((k - 1) \div size), size)[((k - 1) % size) + 1]]
    BY DEF Added
  <2>6. \A k \in 1..PayloadLen : added[k] \in 0..Base - 1
    <3>1. ASSUME NEW k \in 1..PayloadLen PROVE added[k] \in 0..Base - 1
      <4>1. count * size \in Nat
        BY <2>1
      <4>2. k > count * size \/ k <= count * size
        BY <4>1
      <4>3. CASE k > count * size
        <5> HIDE DEF sum, added
        <5> QED
          BY <2>3, <2>5, <4>3
      <4>4. CASE ~ (k > count * size)
        <5>1. Bytes(sum((k - 1) \div size), size)[((k - 1) % size) + 1] \in 0..Base - 1
          BY <2>4, <4>2, <4>4
        <5> HIDE DEF sum, added
        <5> QED
          BY <2>5, <4>4, <5>1
      <4> QED
        BY <4>3, <4>4
    <3> QED
      BY <3>1
  <2> HIDE DEF sum
  <2>7. added \in [1..PayloadLen -> 0..Base - 1]
    <3> HIDE DEF added
    <3> QED
      BY <2>5, <2>6
  <2> QED
    BY <1>3, <2>7 DEF Updated, Payloads, size, count, received
<1> QED
  BY <1>2, <1>3

-------------------------------------------------------------------------------
(***************************************************************************)
(* What the server does to all sessions.                                   *)
(***************************************************************************)

\* The server and its clients, as they are to each other in every state.
Good(s, cl) == s \in ServerType /\ \A c \in Clients : Synced(s, c, cl[c])

\* What an update changes are packets, and their ids: sessions are the same.
SameSessions(s, u) ==
    \A c \in Clients : /\ u.sessions[c].connected = s.sessions[c].connected
                        /\ u.sessions[c].remote_id_last = s.sessions[c].remote_id_last

\* The server's state has its fields.
LEMMA ServerFacts ==
    ASSUME NEW s \in ServerType
    PROVE  /\ DOMAIN s = {"cache", "sessions"} /\ s.cache \in [Params -> Payloads]
           /\ s.sessions \in [Clients -> SessionType]
  BY DEF ServerType

\* A command that the server can carry out.
Legal(cc) == cc \in Commands /\ ~ Fails(cc)

\* What it adds is in the payload.
LEMMA LegalRelative ==
    ASSUME NEW cc, Legal(cc), Effective(cc)
    PROVE  cc.relative => cc.type \in DOMAIN Types /\ cc.count * Types[cc.type] <= PayloadLen
<1> DEFINE sum == cc.count * Types[cc.type]
<1>1. cc.relative => cc.type \in DOMAIN Types
  BY DEF Effective
<1>2. cc.relative => ~ (sum > PayloadLen)
  BY DEF Legal, Fails
<1>3. cc.relative => sum \in Nat /\ PayloadLen \in Nat
  BY <1>1, CameraControlAssumption DEF Legal, Commands, Types
<1> HIDE DEF sum
<1>4. cc.relative => sum <= PayloadLen
  BY <1>2, <1>3
<1> QED
  BY <1>1, <1>4 DEF sum

\* An update: the cache has the new value, and all clients are told.
LEMMA BroadcastGood ==
    ASSUME NEW cl \in [Clients -> ClientType], NEW s, Good(s, cl),
           NEW q \in Params, NEW value \in Payloads, NEW u,
           u = Broadcast([s EXCEPT !.cache[q] = value], Only(q, value))
    PROVE  Good(u, cl) /\ SameSessions(s, u)
<1> DEFINE values == Only(q, value)
<1>1. s \in ServerType /\ \A c \in Clients : Synced(s, c, cl[c])
  BY DEF Good
<1>2. DOMAIN values = {q} /\ values[q] = value
  BY DEF Only
<1>3. values \in Views
  <2>1. {q} \in SUBSET Params /\ values \in [{q} -> Payloads]
    BY DEF Only
  <2> HIDE DEF values
  <2> QED
    BY <2>1 DEF Views
<1>4. /\ DOMAIN u = {"cache", "sessions"}
      /\ u.cache = [s.cache EXCEPT ![q] = value]
      /\ u.sessions = [c \in Clients |-> IF s.sessions[c].connected
                                         THEN Pushed(s.sessions[c], values) ELSE s.sessions[c]]
      /\ u = [cache |-> u.cache, sessions |-> u.sessions]
  BY <1>1 DEF Broadcast, ServerType
<1> HIDE DEF values
<1>5. u.cache \in [Params -> Payloads] /\ s.cache \in [Params -> Payloads]
  BY <1>1, <1>4, ServerFacts
<1>6. ASSUME NEW c \in Clients
      PROVE  /\ u.sessions[c] \in SessionType /\ Synced(u, c, cl[c])
             /\ u.sessions[c].connected = s.sessions[c].connected
             /\ u.sessions[c].remote_id_last = s.sessions[c].remote_id_last
  <2> DEFINE session == s.sessions[c]
             after == u.sessions[c]
             client == cl[c]
  <2>1. session \in SessionType /\ client \in ClientType /\ Synced(s, c, client)
    BY <1>1, ServerFacts
  <2>2. CASE ~ session.connected
    BY <1>4, <2>1, <2>2 DEF Synced
  <2>3. CASE session.connected
    <3>1. after = Pushed(session, values)
      BY <1>4, <2>3
    <3>2. Follows(session, client, s.cache)
      BY <2>1, <2>3 DEF Synced
    <3>3. after.remote_id_last = session.remote_id_last
      BY <2>1, <3>1, SessionFacts DEF Pushed
    <3> HIDE DEF session, after, client
    <3>4. /\ after \in SessionType /\ after.connected
          /\ Numbered(after) /\ Reached(after, client)
          /\ \A p \in DOMAIN values : Knows(after, client, p, values[p])
          /\ \A p, v : Knows(session, client, p, v) /\ p \notin DOMAIN values
                => Knows(after, client, p, v)
      <4>1. Numbered(session) /\ Reached(session, client)
        BY <3>2 DEF Follows
      <4> QED
        BY <1>3, <2>1, <2>3, <3>1, <4>1, PushedFollows
    <3>5. ASSUME NEW p \in Params PROVE Knows(after, client, p, u.cache[p])
      <4>1. CASE p = q
        BY <1>2, <1>4, <1>5, <3>4, <4>1
      <4>2. CASE p # q
        <5>1. u.cache[p] = s.cache[p] /\ p \notin DOMAIN values
          BY <1>2, <1>4, <1>5, <4>2
        <5>2. Knows(session, client, p, s.cache[p])
          BY <3>2 DEF Follows
        <5> QED
          BY <3>4, <5>1, <5>2
      <4> QED
        BY <4>1, <4>2
    <3>6. Follows(after, client, u.cache)
      BY <3>4, <3>5 DEF Follows
    <3> QED
      BY <2>3, <3>3, <3>4, <3>6 DEF Synced, session, after, client
  <2> QED
    BY <2>2, <2>3
<1>7. u.sessions \in [Clients -> SessionType]
  BY <1>4, <1>6
<1>8. u \in ServerType
  BY <1>4, <1>5, <1>7 DEF ServerType
<1> QED
  BY <1>6, <1>8 DEF Good, SameSessions

\* One command.
LEMMA UpdateCCGood ==
    ASSUME NEW cl \in [Clients -> ClientType], NEW s, Good(s, cl), NEW cc, Legal(cc),
           NEW u, u = UpdateCC(s, cc)
    PROVE  Good(u, cl) /\ SameSessions(s, u)
<1>1. CASE ~ Effective(cc)
  BY <1>1 DEF UpdateCC, SameSessions
<1>2. CASE Effective(cc)
  <2> DEFINE q == cc.parameter
             value == Updated(s.cache[q], cc)
  <2>1. q \in Params
    BY <1>2 DEF Effective, Found
  <2>2. value \in Payloads
    <3>1. s.cache[q] \in Payloads
      BY <2>1, ServerFacts DEF Good
    <3>2. cc \in Commands
      BY DEF Legal
    <3>3. cc.relative => cc.type \in DOMAIN Types /\ cc.count * Types[cc.type] <= PayloadLen
      BY <1>2, LegalRelative
    <3> QED
      BY <3>1, <3>2, <3>3, UpdatedPayload
  <2>3. u = Broadcast([s EXCEPT !.cache[q] = value], Only(q, value))
    BY <1>2 DEF UpdateCC
  <2> HIDE DEF q, value
  <2> QED
    BY <2>1, <2>2, <2>3, BroadcastGood
<1> QED
  BY <1>1, <1>2

\* Command after command.
LEMMA UpdateSteps ==
    ASSUME NEW s, NEW datagram, Len(datagram) \in Nat, NEW u, u = Update(s, datagram)
    PROVE  \E f : /\ f[0] = s /\ f[Len(datagram)] = u
                 /\ \A k \in 1..Len(datagram) : f[k] = UpdateCC(f[k - 1], datagram[k])
<1> DEFINE n == Len(datagram)
           Step(f, m) == [k \in 0..m |-> IF k = 0 THEN s ELSE UpdateCC(f[k - 1], datagram[k])]
           after == CHOOSE f : f = Step(f, n)
<1>1. \E f : f = Step(f, n)
  <2> DEFINE S == {m \in Nat : \E f : f = Step(f, m)}
  <2>1. 0 \in S
    <3>1. [k \in 0..0 |-> s] = Step([k \in 0..0 |-> s], 0)
      OBVIOUS
    <3> QED
      BY <3>1
  <2>2. ASSUME NEW m \in Nat, m \in S PROVE m + 1 \in S
    <3>1. PICK f : f = Step(f, m)
      BY <2>2
    <3> DEFINE g == [k \in 0..m + 1 |-> IF k = 0 THEN s ELSE UpdateCC(f[k - 1], datagram[k])]
    <3>2. \A k \in 0..m : f[k] = g[k]
      BY <3>1
    <3>3. \A k \in 0..m + 1 : g[k] = Step(g, m + 1)[k]
      <4> TAKE k \in 0..m + 1
      <4>1. CASE k = 0
        BY <4>1
      <4>2. CASE k # 0
        <5>1. k - 1 \in 0..m
          BY <4>2
        <5> QED
          BY <3>2, <4>2, <5>1
      <4> QED
        BY <4>1, <4>2
    <3>4. g = Step(g, m + 1)
      BY <3>3
    <3> HIDE DEF g, Step
    <3> QED
      BY <3>4
  <2>3. Nat \subseteq S
    <3> HIDE DEF S
    <3> QED
      BY <2>1, <2>2, NatInductionSet
  <2> QED
    BY <2>3
<1>2. after = Step(after, n)
  <2> HIDE DEF Step
  <2> QED
    BY <1>1
<1>3. u = after[n]
  BY DEF Update
<1> HIDE DEF after
<1>4. n \in Nat
  OBVIOUS
<1> HIDE DEF n
<1>5. after[0] = s /\ \A k \in 1..n : after[k] = UpdateCC(after[k - 1], datagram[k])
  <2>1. ASSUME NEW k \in 0..n
        PROVE  after[k] = IF k = 0 THEN s ELSE UpdateCC(after[k - 1], datagram[k])
    BY <1>2, Zenon
  <2>2. after[0] = s
    BY <1>4, <2>1
  <2>3. ASSUME NEW k \in 1..n PROVE after[k] = UpdateCC(after[k - 1], datagram[k])
    <3>1. k \in 0..n /\ k # 0
      BY <1>4
    <3> QED
      BY <2>1, <3>1, Zenon
  <2> QED
    BY <2>2, <2>3
<1> QED
  BY <1>3, <1>5 DEF n

\* The commands of a datagram.
LEMMA UpdateGood ==
    ASSUME NEW cl \in [Clients -> ClientType], NEW s, Good(s, cl),
           NEW datagram \in Seq(Commands),
           \A k \in 1..Len(datagram) : Legal(datagram[k]),
           NEW u, u = Update(s, datagram)
    PROVE  Good(u, cl) /\ SameSessions(s, u)
<1> DEFINE n == Len(datagram)
<1>1. n \in Nat
  OBVIOUS
<1>2. PICK f : /\ f[0] = s /\ f[n] = u
               /\ \A k \in 1..n : f[k] = UpdateCC(f[k - 1], datagram[k])
  BY <1>1, UpdateSteps
<1> HIDE DEF n
<1> DEFINE Done(v) == Good(v, cl) /\ SameSessions(s, v)
           S == {m \in Nat : m <= n => Done(f[m])}
<1>3. 0 \in S
  BY <1>2 DEF SameSessions
<1>4. ASSUME NEW m \in Nat, m \in S PROVE m + 1 \in S
  <2> SUFFICES ASSUME m + 1 <= n PROVE Done(f[m + 1])
    OBVIOUS
  <2>1. m + 1 \in 1..n /\ (m + 1) - 1 = m /\ m <= n
    BY <1>1
  <2> DEFINE v == f[m]
             w == f[m + 1]
             cc == datagram[m + 1]
  <2>2. Done(v) /\ w = UpdateCC(v, cc)
    BY <1>2, <1>4, <2>1
  <2>3. Legal(cc)
    BY <2>1 DEF n
  <2>4. Good(v, cl) /\ SameSessions(s, v)
    BY <2>2
  <2> HIDE DEF v, w, cc
  <2>5. Good(w, cl) /\ SameSessions(v, w)
    BY <2>2, <2>3, <2>4, UpdateCCGood
  <2> QED
    BY <2>4, <2>5 DEF SameSessions, w
<1>5. Nat \subseteq S
  <2> HIDE DEF S
  <2> QED
    BY <1>3, <1>4, NatInductionSet
<1> QED
  BY <1>1, <1>2, <1>5

\* A client that was sent the whole cache is told all of it, and is behind by the
\* whole dump.
LEMMA DumpedFollows ==
    ASSUME NEW s \in ServerType, NEW session, session = Dumped(s)
    PROVE  /\ session \in SessionType /\ session.connected
           /\ session.remote_id <= RemoteIdsMax /\ session.remote_id_last = 0
           /\ NewClient \in ClientType /\ Follows(session, NewClient, s.cache)
<1> DEFINE chain == [k \in DOMAIN Chunks |-> Packet(k, Restrict(s.cache, Chunks[k]))]
           n == Len(Chunks)
<1>1. /\ n \in Nat /\ DOMAIN Chunks = 1..n /\ n <= RemoteIdsMax
      /\ \A k \in 1..n : Chunks[k] \in SUBSET Params
      /\ \A p \in Params : \E k \in 1..n : p \in Chunks[k]
  <2>1. Chunks \in Seq(SUBSET Params) /\ UNION Range(Chunks) = Params /\ n <= RemoteIdsMax
    BY AtemCacheAssumption
  <2>2. n \in Nat /\ DOMAIN Chunks = 1..n /\ \A k \in 1..n : Chunks[k] \in SUBSET Params
    BY <2>1, ElementOfSeq, LenProperties
  <2>3. ASSUME NEW p \in Params PROVE \E k \in 1..n : p \in Chunks[k]
    BY <2>1, <2>2 DEF Range
  <2> QED
    BY <2>1, <2>2, <2>3
<1>2. session = [connected |-> TRUE, remote_id |-> n, remote_id_last |-> 0,
                 chain |-> chain, underway |-> chain]
  BY DEF Dumped, NoSession
<1>3. s.cache \in [Params -> Payloads]
  BY ServerFacts
<1> HIDE DEF n
<1>4. ASSUME NEW k \in 1..n
      PROVE  /\ chain[k] \in PacketType /\ chain[k].remote_id = k
             /\ DOMAIN chain[k].values = Chunks[k]
             /\ \A p \in Chunks[k] : chain[k].values[p] = s.cache[p]
  <2> DEFINE values == Restrict(s.cache, Chunks[k])
  <2>1. values = [p \in Chunks[k] |-> s.cache[p]]
    BY DEF Restrict
  <2>2. values \in [Chunks[k] -> Payloads]
    BY <1>1, <1>3, <2>1
  <2>3. values \in Views
    <3> HIDE DEF values
    <3> QED
      BY <1>1, <2>2 DEF Views
  <2>4. chain[k] = [remote_id |-> k, values |-> values]
    BY <1>1 DEF Packet
  <2> HIDE DEF values, chain
  <2>5. k \in Nat
    BY <1>1
  <2> QED
    BY <2>1, <2>3, <2>4, <2>5 DEF PacketType
<1>5. DOMAIN chain = 1..n
  BY <1>1
<1>6. chain \in [1..n -> PacketType]
  BY <1>1, <1>4
<1> HIDE DEF chain
<1>7. chain \in Seq(PacketType) /\ Len(chain) = n
  BY <1>1, <1>5, <1>6
<1>8. /\ session \in SessionType /\ session.connected /\ session.remote_id = n
      /\ session.remote_id_last = 0 /\ session.chain = chain /\ session.underway = chain
  BY <1>1, <1>2, <1>7 DEF SessionType
<1>9. Numbered(session)
  BY <1>1, <1>4, <1>7, <1>8 DEF Numbered
<1>10. NewClient \in ClientType /\ NewClient.received = 0
  <2>1. NewClient.view \in Views
    <3>1. {} \in SUBSET Params /\ NewClient.view \in [{} -> Payloads]
      BY DEF NewClient
    <3> HIDE DEF NewClient
    <3> QED
      BY <3>1 DEF Views
  <2> QED
    BY <2>1 DEF NewClient, ClientType
<1>11. Reached(session, NewClient)
  BY <1>1, <1>7, <1>8, <1>10 DEF Reached
<1>12. ASSUME NEW p \in Params PROVE Knows(session, NewClient, p, s.cache[p])
  <2> DEFINE T == {k \in 1..n : p \in Chunks[k]}
  <2>1. \A k \in 1..n : Holds(session, p, k) <=> k \in T
    BY <1>1, <1>4, <1>7, <1>8, <1>10 DEF Holds
  <2>2. T \in SUBSET (1..n) /\ T # {}
    BY <1>1
  <2>3. PICK m \in T : \A j \in T : j <= m
    <3> HIDE DEF T
    <3> QED
      BY <1>1, <2>2, GreatestIn
  <2>4. m \in 1..n /\ chain[m].values[p] = s.cache[p]
    BY <1>4, <2>3
  <2>5. LastOf(session, p, m)
    BY <1>7, <1>8, <2>1, <2>3, <2>4 DEF LastOf
  <2> QED
    BY <1>7, <1>8, <2>4, <2>5 DEF Knows
<1> QED
  BY <1>1, <1>8, <1>9, <1>10, <1>11, <1>12 DEF Follows

-------------------------------------------------------------------------------
(***************************************************************************)
(* The invariant.                                                          *)
(***************************************************************************)

\* What the client is told is in the packets underway and the ids of the session.
LEMMA SameFollows ==
    ASSUME NEW session, NEW client, NEW values, Follows(session, client, values),
           NEW after, after.chain = session.chain, after.underway = session.underway,
           after.remote_id = session.remote_id
    PROVE  Follows(after, client, values)
  BY DEF Follows, Numbered, Reached, Knows, LastOf, Holds

\* Nobody is connected, and nothing was sent.
LEMMA InitInv == Init => Inv
<1> SUFFICES ASSUME Init PROVE Inv
  OBVIOUS
<1>1. NoSession \in SessionType /\ NoSession.connected = FALSE /\ Bounded(NoSession)
  BY AtemCacheAssumption DEF NoSession, SessionType, Bounded
<1>2. NewClient \in ClientType
  <2>1. [p \in {} |-> <<>>] \in [{} -> Payloads] /\ {} \in SUBSET Params
    OBVIOUS
  <2> DEFINE view == [p \in {} |-> <<>>]
  <2>2. view \in Views
    <3>1. view \in [{} -> Payloads]
      OBVIOUS
    <3> HIDE DEF view
    <3> QED
      BY <2>1, <3>1 DEF Views
  <2> QED
    BY <2>2 DEF NewClient, ClientType
<1>3. Server \in ServerType
  BY <1>1, AtemCacheAssumption DEF Init, Server, ServerType
<1>4. clients \in [Clients -> ClientType]
  BY <1>2 DEF Init
<1>5. \A c \in Clients : Bounded(sessions[c]) /\ Synced(Server, c, clients[c])
  BY <1>1 DEF Init, Server, Synced
<1>6. failed \in BOOLEAN
  BY DEF Init
<1> QED
  BY <1>3, <1>4, <1>5, <1>6 DEF Inv

\* The invariant in the words of the lemmas.
LEMMA InvGood ==
    ASSUME Inv
    PROVE  /\ Good(Server, clients) /\ clients \in [Clients -> ClientType]
           /\ Server \in ServerType /\ Server.cache = cache /\ Server.sessions = sessions
           /\ sessions \in [Clients -> SessionType] /\ cache \in [Params -> Payloads]
  BY DEF Inv, Good, Server, ServerType

\* One session, or one client, changes.
LEMMA InvOne ==
    ASSUME Inv, NEW c \in Clients, cache' = cache, failed' = failed,
           NEW session \in SessionType, NEW client \in ClientType,
           sessions' = [sessions EXCEPT ![c] = session], clients' = [clients EXCEPT ![c] = client],
           Bounded(session),
           IF session.connected THEN Follows(session, client, cache)
           ELSE session = NoSession /\ client = NewClient
    PROVE  Inv'
<1>1. sessions' \in [Clients -> SessionType] /\ clients' \in [Clients -> ClientType]
  BY InvGood
<1>2. Server' \in ServerType /\ Server'.sessions = sessions' /\ Server'.cache = cache
  BY <1>1, InvGood DEF Server, ServerType
<1>3. ASSUME NEW d \in Clients PROVE Bounded(sessions'[d]) /\ Synced(Server', d, clients'[d])
  <2>1. CASE d = c
    BY <1>2, <2>1, InvGood DEF Synced
  <2>2. CASE d # c
    <3>1. sessions'[d] = sessions[d] /\ clients'[d] = clients[d]
      BY <2>2, InvGood
    <3>2. Bounded(sessions[d]) /\ Synced(Server, d, clients[d])
      BY DEF Inv
    <3> QED
      BY <1>2, <3>1, <3>2, InvGood DEF Synced
  <2> QED
    BY <2>1, <2>2
<1> QED
  BY <1>1, <1>2, <1>3 DEF Inv

LEMMA ConnectInv == ASSUME Inv, NEW c \in Clients, Connect(c) PROVE Inv'
<1> DEFINE session == Dumped(Server)
<1>1. /\ session \in SessionType /\ session.connected /\ session.remote_id <= RemoteIdsMax
      /\ session.remote_id_last = 0 /\ NewClient \in ClientType
      /\ Follows(session, NewClient, cache)
  BY InvGood, DumpedFollows
<1>2. /\ cache' = cache /\ sessions' = [sessions EXCEPT ![c] = session]
      /\ clients' = clients /\ failed' = failed
  BY DEF Connect
<1> HIDE DEF session
<1>3. clients[c] = NewClient
  BY InvGood DEF Inv, Synced, Connect, Connected
<1>4. clients' = [clients EXCEPT ![c] = NewClient]
  BY <1>2, <1>3, InvGood
<1>5. Bounded(session)
  BY <1>1, AtemCacheAssumption DEF Bounded
<1> QED
  BY <1>1, <1>2, <1>4, <1>5, InvOne

LEMMA ClosedInv == ASSUME Inv, NEW c \in Clients, Closed(c) PROVE Inv'
<1>1. NoSession \in SessionType /\ NoSession.connected = FALSE /\ Bounded(NoSession)
  BY AtemCacheAssumption DEF NoSession, SessionType, Bounded
<1>2. NewClient \in ClientType
  <2>1. Server \in ServerType
    BY InvGood
  <2> QED
    BY <2>1, DumpedFollows
<1> QED
  BY <1>1, <1>2, InvOne DEF Closed

\* A datagram that is received can be carried out.
LEMMA ReceivedLegal ==
    ASSUME Inv, NEW c \in Clients, NEW id, RecvData(c, id), NEW datagram,
           datagram = clients[c].sent[id]
    PROVE  /\ datagram \in Datagrams /\ datagram \in Seq(Commands)
           /\ \A k \in 1..Len(datagram) : Legal(datagram[k])
<1>1. datagram \in Datagrams
  <2>1. clients[c].sent \in Seq(Datagrams) /\ id \in DOMAIN clients[c].sent
    BY InvGood DEF ClientType, RecvData
  <2> QED
    BY <2>1, ElementOfSeq, LenProperties
<1>2. \A cc \in Range(datagram) : ~ Fails(cc)
  BY DEF RecvData
<1>3. datagram \in Seq(Commands)
  BY <1>1, AtemCacheAssumption
<1>4. ASSUME NEW k \in 1..Len(datagram) PROVE Legal(datagram[k])
  <2>1. datagram[k] \in Commands /\ datagram[k] \in Range(datagram)
    BY <1>3, ElementOfSeq, LenProperties DEF Range
  <2> QED
    BY <1>2, <2>1 DEF Legal
<1> QED
  BY <1>1, <1>3, <1>4

\* A datagram is applied and broadcast; its session counts it.
LEMMA RecvDataInv ==
    ASSUME Inv, NEW c \in Clients, NEW id \in 1..DatagramsMax, RecvData(c, id) PROVE Inv'
<1> DEFINE datagram == clients[c].sent[id]
           s == Update(Server, datagram)
<1>2. /\ clients' = clients /\ failed' = failed /\ cache' = s.cache
      /\ sessions' = [s.sessions EXCEPT ![c].remote_id_last = id]
      /\ \A d \in Clients : s.sessions[d].remote_id <= RemoteIdsMax
  BY DEF RecvData
<1>3. datagram \in Seq(Commands) /\ \A k \in 1..Len(datagram) : Legal(datagram[k])
  BY ReceivedLegal
<1> HIDE DEF datagram
<1>4. Good(s, clients) /\ SameSessions(Server, s)
  <2>1. s = Update(Server, datagram)
    OBVIOUS
  <2> HIDE DEF s
  <2> QED
    BY <1>3, <2>1, InvGood, UpdateGood
<1> HIDE DEF s
<1>5. s \in ServerType /\ s.cache \in [Params -> Payloads] /\ s.sessions \in [Clients -> SessionType]
  BY <1>4, ServerFacts DEF Good
<1>6. id \in Nat /\ id <= DatagramsMax
  BY AtemCacheAssumption
<1>7. ASSUME NEW d \in Clients
      PROVE  /\ sessions'[d] \in SessionType /\ Bounded(sessions'[d])
             /\ sessions'[d].connected = s.sessions[d].connected
             /\ sessions'[d].chain = s.sessions[d].chain
             /\ sessions'[d].underway = s.sessions[d].underway
             /\ sessions'[d].remote_id = s.sessions[d].remote_id
             /\ d # c => sessions'[d] = s.sessions[d]
  <2> DEFINE session == s.sessions[d]
  <2>1. session \in SessionType /\ session.remote_id <= RemoteIdsMax
    BY <1>2, <1>5
  <2>2. session.remote_id_last <= DatagramsMax
    BY <1>4, InvGood DEF Inv, Bounded, SameSessions
  <2>3. CASE d = c
    <3>1. sessions'[d] = [session EXCEPT !.remote_id_last = id]
      BY <1>2, <1>5, <2>3
    <3> HIDE DEF session
    <3>2. sessions'[d] \in SessionType
      BY <1>6, <2>1, <3>1 DEF SessionType
    <3>3. /\ sessions'[d].connected = session.connected /\ sessions'[d].chain = session.chain
          /\ sessions'[d].underway = session.underway
          /\ sessions'[d].remote_id = session.remote_id /\ sessions'[d].remote_id_last = id
      BY <2>1, <3>1, SessionFacts
    <3> QED
      BY <1>6, <2>1, <2>3, <3>2, <3>3 DEF Bounded, session
  <2>4. CASE d # c
    <3>1. sessions'[d] = session
      BY <1>2, <1>5, <2>4
    <3> QED
      BY <2>1, <2>2, <3>1 DEF Bounded
  <2> QED
    BY <2>3, <2>4
<1>8. sessions' \in [Clients -> SessionType]
  BY <1>2, <1>5, <1>7
<1>9. Server' \in ServerType /\ Server'.sessions = sessions' /\ Server'.cache = s.cache
  BY <1>2, <1>5, <1>8 DEF Server, ServerType
<1>10. s.sessions[c].connected
  BY <1>4, InvGood DEF SameSessions, RecvData, Connected
<1>11. ASSUME NEW d \in Clients PROVE Synced(Server', d, clients[d])
  <2>1. Synced(s, d, clients[d])
    BY <1>4 DEF Good
  <2>2. CASE s.sessions[d].connected
    <3>1. Follows(s.sessions[d], clients[d], s.cache)
      BY <2>1, <2>2 DEF Synced
    <3>2. Follows(sessions'[d], clients[d], s.cache)
      BY <1>7, <3>1, SameFollows
    <3> QED
      BY <1>7, <1>9, <2>2, <3>2 DEF Synced
  <2>3. CASE ~ s.sessions[d].connected
    BY <1>7, <1>9, <1>10, <2>1, <2>3 DEF Synced
  <2> QED
    BY <2>2, <2>3
<1> QED
  BY <1>2, <1>7, <1>9, <1>11, InvGood DEF Inv

\* An acknowledgement leaves a chain as it is, or empties it.
LEMMA RecvAckInv ==
    ASSUME Inv, NEW c \in Clients, NEW ack_id \in RemoteIds, RecvAck(c, ack_id) PROVE Inv'
<1> DEFINE session == sessions[c]
           rest == Unacknowledged(session.chain, ack_id)
           after == [session EXCEPT !.chain = rest]
<1>1. session \in SessionType /\ clients[c] \in ClientType /\ session.connected
  BY InvGood DEF RecvAck, Connected
<1>2. Follows(session, clients[c], cache) /\ Bounded(session)
  BY <1>1, InvGood DEF Inv, Synced
<1>3. /\ cache' = cache /\ clients' = clients /\ failed' = failed
      /\ sessions' = [sessions EXCEPT ![c] = after]
  BY InvGood DEF RecvAck
<1>4. clients' = [clients EXCEPT ![c] = clients[c]]
  BY <1>3, InvGood
<1>5. rest = session.chain \/ rest = <<>>
  BY DEF Unacknowledged
<1> HIDE DEF session, rest
<1>6. /\ after.connected /\ after.remote_id = session.remote_id /\ after.chain = rest
      /\ after.remote_id_last = session.remote_id_last /\ after.underway = session.underway
  BY <1>1, SessionFacts
<1>7. rest \in Seq(PacketType) /\ Len(rest) \in Nat
  <2>1. CASE rest = session.chain
    BY <1>1, <2>1, SessionFacts
  <2>2. CASE rest = <<>>
    BY <2>2
  <2> QED
    BY <1>5, <2>1, <2>2
<1>8. after \in SessionType
  BY <1>1, <1>7, SessionFacts DEF SessionType
<1>9. Follows(after, clients[c], cache)
  <2>1. CASE rest = session.chain
    BY <1>2, <1>6, <2>1, SameFollows
  <2>2. CASE rest = <<>>
    <3>1. \A k \in 1..Len(rest) : FALSE
      BY <2>2
    <3>2. Numbered(after)
      BY <1>2, <1>6, <3>1 DEF Follows, Numbered
    <3> QED
      BY <1>2, <1>6, <3>2 DEF Follows, Reached, Knows, LastOf, Holds
  <2> QED
    BY <1>5, <2>1, <2>2
<1>10. Bounded(after)
  BY <1>2, <1>6 DEF Bounded
<1> HIDE DEF after
<1> QED
  BY <1>1, <1>3, <1>4, <1>6, <1>8, <1>9, <1>10, InvOne DEF session

LEMMA SendInv ==
    ASSUME Inv, NEW c \in Clients, NEW datagram \in Datagrams, Send(c, datagram) PROVE Inv'
<1> DEFINE client == clients[c]
           after == [client EXCEPT !.sent = Append(@, datagram)]
<1>1. client \in ClientType /\ sessions[c] \in SessionType /\ sessions[c].connected
  BY InvGood DEF Send, Connected
<1>2. Follows(sessions[c], client, cache) /\ Bounded(sessions[c])
  BY <1>1, InvGood DEF Inv, Synced
<1>3. /\ cache' = cache /\ sessions' = sessions /\ failed' = failed
      /\ clients' = [clients EXCEPT ![c] = after]
  BY InvGood DEF Send
<1>4. sessions' = [sessions EXCEPT ![c] = sessions[c]]
  BY <1>3, InvGood
<1>5. after \in ClientType
  <2> HIDE DEF client
  <2>1. client.sent \in Seq(Datagrams)
    BY <1>1 DEF ClientType
  <2>2. Append(client.sent, datagram) \in Seq(Datagrams)
    BY <2>1
  <2> QED
    BY <1>1, <2>2 DEF ClientType
<1>6. after.received = client.received /\ after.view = client.view
  BY <1>1 DEF ClientType
<1> HIDE DEF after, client
<1>7. Follows(sessions[c], after, cache)
  BY <1>2, <1>6 DEF Follows, Reached, Knows, LastOf, Holds
<1> QED
  BY <1>1, <1>2, <1>3, <1>4, <1>5, <1>7, InvOne

LEMMA RecvPacketInv ==
    ASSUME Inv, NEW c \in Clients, RecvPacket(c)
    PROVE  Inv'
<1> DEFINE client == clients[c]
           session == sessions[c]
           packet == Head(session.underway)
           later == Shortened(session)
           after == Informed(client, packet)
<1>1. client \in ClientType /\ session \in SessionType
  BY InvGood
<1>2. session.underway # <<>>
  BY DEF RecvPacket
<1>3. session.connected
  <2>1. session # NoSession
    <3>1. NoSession.underway = <<>>
      BY DEF NoSession
    <3> HIDE DEF session
    <3> QED
      BY <1>2, <3>1
  <2> QED
    BY <2>1, InvGood DEF Inv, Synced
<1>4. Follows(session, client, cache) /\ Bounded(session)
  BY <1>3, InvGood DEF Inv, Synced
<1>5. /\ cache' = cache /\ failed' = failed /\ clients' = [clients EXCEPT ![c] = after]
      /\ sessions' = [sessions EXCEPT ![c] = later]
  BY InvGood DEF RecvPacket, Shortened, Informed
<1> HIDE DEF client, session
<1>6. /\ later \in SessionType /\ after \in ClientType /\ Follows(later, after, cache)
      /\ later.connected = session.connected /\ later.remote_id = session.remote_id
      /\ later.remote_id_last = session.remote_id_last
  <2> PICK q : q = packet
    OBVIOUS
  <2> PICK v : v = cache
    OBVIOUS
  <2> PICK l : l = later
    OBVIOUS
  <2> PICK a : a = after
    OBVIOUS
  <2>1. /\ q = Head(session.underway) /\ l = Shortened(session) /\ a = Informed(client, q)
        /\ Follows(session, client, v)
    BY <1>4
  <2> HIDE DEF packet, later, after
  <2>2. l \in SessionType /\ a \in ClientType /\ Follows(l, a, v)
        /\ l.connected = session.connected /\ l.remote_id = session.remote_id
        /\ l.remote_id_last = session.remote_id_last
    BY ONLY <1>1, <1>2, <2>1, ReceivedFollows
  <2> QED
    BY <2>2
<1>7. Bounded(later)
  <2> HIDE DEF later
  <2> QED
    BY <1>4, <1>6 DEF Bounded
<1> HIDE DEF after, later
<1> QED
  BY <1>3, <1>5, <1>6, <1>7, InvOne

LEMMA FailInv ==
    ASSUME Inv, NEW c \in Clients, NEW id \in 1..DatagramsMax, Fail(c, id) PROVE Inv'
  BY DEF Fail, Inv, Server, Bounded, Synced

\* No step of a client, of the server or of the network breaks the invariant.
LEMMA NextInv == Inv /\ [Next]_vars => Inv'
<1> SUFFICES ASSUME Inv, [Next]_vars PROVE Inv'
  OBVIOUS
<1>1. CASE UNCHANGED vars
  BY <1>1 DEF vars, Inv, Server, Bounded, Synced
<1>2. CASE Next
  <2>1. PICK c \in Clients :
          \/ Connect(c)
          \/ Closed(c)
          \/ \E id \in 1..DatagramsMax : RecvData(c, id) \/ Fail(c, id)
          \/ \E id \in RemoteIds : RecvAck(c, id)
          \/ \E datagram \in Datagrams : Send(c, datagram)
          \/ RecvPacket(c)
    BY <1>2 DEF Next
  <2> QED
    BY <2>1, ConnectInv, ClosedInv, RecvDataInv, FailInv, RecvAckInv, SendInv, RecvPacketInv
<1> QED
  BY <1>1, <1>2

\* Until a command fails, the packets underway of each session have consecutive ids and
\* start with the one its client waits for, and with what the client knows they make the
\* cache: a session is sent the dump before any broadcast, a broadcast reaches every
\* session with the cache's new value, and a client takes no packet out of turn.  The chain
\* is only said to hold packets that were sent: atem_session_acknowledge() may empty it.
THEOREM CacheInvariant == Spec => []Inv
  BY InitInv, NextInv, PTL DEF Spec

\* Whatever is set, or added to it in numbers of whichever width, a payload stays a row of
\* bytes: bytes of a sum wrap (atem_cache_update_cc()).  For every command that does not
\* fail; what one that does writes, behind the payload, is not modelled.  Packets and views
\* hold payloads of parameters, and ids stay in the bounds.
THEOREM TypeOKThm == Spec => []TypeOK
<1>1. Inv => TypeOK
  <2> SUFFICES ASSUME Inv PROVE TypeOK
    OBVIOUS
  <2>1. ASSUME NEW c \in Clients
        PROVE  /\ sessions[c].connected \in BOOLEAN
               /\ sessions[c].remote_id \in 0..RemoteIdsMax
               /\ sessions[c].remote_id_last \in 0..DatagramsMax
               /\ \A packet \in ToSet(sessions[c].chain) \cup ToSet(sessions[c].underway) :
                     packet.remote_id \in RemoteIds /\ packet.values \in Views
               /\ clients[c].received \in 0..RemoteIdsMax
               /\ clients[c].view \in Views
               /\ clients[c].sent \in Seq(Datagrams)
    <3> DEFINE session == sessions[c]
               client == clients[c]
    <3>1. session \in SessionType /\ client \in ClientType
      BY InvGood
    <3>2. Bounded(session) /\ Synced(Server, c, client)
      BY DEF Inv
    <3>3. /\ session.connected \in BOOLEAN
          /\ session.remote_id \in Nat /\ session.remote_id_last \in Nat
          /\ session.chain \in Seq(PacketType) /\ Len(session.chain) \in Nat
          /\ \A k \in 1..Len(session.chain) :
                session.chain[k].remote_id \in Nat /\ session.chain[k].values \in Views
          /\ session.underway \in Seq(PacketType) /\ Len(session.underway) \in Nat
          /\ \A k \in 1..Len(session.underway) :
                session.underway[k].remote_id \in Nat /\ session.underway[k].values \in Views
          /\ client.received \in Nat /\ client.view \in Views /\ client.sent \in Seq(Datagrams)
      BY <3>1, SessionFacts DEF ClientType
    <3>4. RemoteIdsMax \in Nat /\ DatagramsMax \in Nat
      BY AtemCacheAssumption
    <3>5. session.remote_id <= RemoteIdsMax /\ session.remote_id_last <= DatagramsMax
      BY <3>2 DEF Bounded
    <3>6. session.connected => Follows(session, client, cache)
      BY <3>2, InvGood DEF Synced
    <3>7. ~ session.connected => session = NoSession /\ client = NewClient
      BY <3>2, InvGood DEF Synced
    <3>8. client.received <= session.remote_id
      <4>1. CASE session.connected
        <5>1. /\ client.received = session.remote_id - Len(session.underway)
              /\ Len(session.underway) <= session.remote_id
          BY <3>6, <4>1 DEF Follows, Reached, Numbered
        <5> QED
          BY <3>3, <5>1
      <4>2. CASE ~ session.connected
        <5>1. NoSession.remote_id = 0 /\ NewClient.received = 0
          BY DEF NoSession, NewClient
        <5> HIDE DEF session, client
        <5> QED
          BY <3>7, <4>2, <5>1
      <4> QED
        BY <4>1, <4>2
    <3>9. Numbered(session)
      <4>1. CASE session.connected
        BY <3>6, <4>1 DEF Follows
      <4>2. CASE ~ session.connected
        <5>1. NoSession.remote_id = 0 /\ Len(NoSession.chain) = 0 /\ Len(NoSession.underway) = 0
          BY DEF NoSession
        <5> HIDE DEF session
        <5> QED
          BY <3>7, <4>2, <5>1 DEF Numbered
      <4> QED
        BY <4>1, <4>2
    <3> HIDE DEF session, client
    <3>10. ASSUME NEW packet \in ToSet(session.chain) \cup ToSet(session.underway)
           PROVE  packet.remote_id \in RemoteIds /\ packet.values \in Views
      <4>1. CASE packet \in ToSet(session.chain)
        <5>1. PICK k \in 1..Len(session.chain) : packet = session.chain[k]
          BY <3>3, <4>1, LenProperties DEF ToSet
        <5>2. packet.remote_id \in 1..session.remote_id
          BY <3>9, <5>1 DEF Numbered
        <5> QED
          BY <3>3, <3>4, <3>5, <5>1, <5>2 DEF RemoteIds
      <4>2. CASE packet \in ToSet(session.underway)
        <5>1. PICK k \in 1..Len(session.underway) : packet = session.underway[k]
          BY <3>3, <4>2, LenProperties DEF ToSet
        <5>2. /\ packet.remote_id = session.remote_id - Len(session.underway) + k
              /\ Len(session.underway) <= session.remote_id
          BY <3>9, <5>1 DEF Numbered
        <5> QED
          BY <3>3, <3>4, <3>5, <5>1, <5>2 DEF RemoteIds
      <4> QED
        BY <4>1, <4>2
    <3>11. /\ session.remote_id \in 0..RemoteIdsMax /\ session.remote_id_last \in 0..DatagramsMax
           /\ client.received \in 0..RemoteIdsMax
      BY <3>3, <3>4, <3>5, <3>8
    <3> QED
      BY <3>3, <3>10, <3>11 DEF session, client
  <2>2. failed \in BOOLEAN
    BY DEF Inv
  <2> QED
    BY <2>1, <2>2, InvGood DEF TypeOK
<1> QED
  BY <1>1, CacheInvariant, PTL

\* Whether packets are lost, repeated or late: what a connected client knows, with the
\* packets that it was sent and did not process, is the cache (atem_cache_dump() sends
\* all of it, and atem_cache_update_cc() tells all clients what it stores).  That those
\* packets arrive, it does not say: an acknowledgement may end their retransmission.
THEOREM InSyncThm == Spec => []InSync
<1>1. Inv => InSync
  <2> SUFFICES ASSUME Inv, NEW c \in Clients, Connected(c), NEW p \in Params
               PROVE  LET underway == sessions[c].underway
                          holding == {k \in DOMAIN underway : p \in DOMAIN underway[k].values}
                      IN  IF holding # {} THEN underway[Max(holding)].values[p] = cache[p]
                          ELSE p \in DOMAIN clients[c].view /\ clients[c].view[p] = cache[p]
    BY DEF InSync
  <2> DEFINE session == sessions[c]
             client == clients[c]
             underway == session.underway
             holding == {k \in DOMAIN underway : p \in DOMAIN underway[k].values}
  <2>1. session \in SessionType /\ client \in ClientType
    BY InvGood
  <2>2. Follows(session, client, cache)
    BY InvGood DEF Inv, Synced, Connected
  <2>3. Knows(session, client, p, cache[p])
    BY <2>2 DEF Follows
  <2> HIDE DEF session, client
  <2>4. DOMAIN underway = 1..Len(underway) /\ Len(underway) \in Nat
    BY <2>1, SessionFacts, LenProperties
  <2>5. \A k : k \in holding <=> Holds(session, p, k)
    BY <2>4 DEF Holds
  <2>6. \A k \in holding : k \in Int
    BY <2>4
  <2> HIDE DEF holding
  <2>7. ASSUME NEW k \in 1..Len(underway), LastOf(session, p, k), underway[k].values[p] = cache[p]
        PROVE  holding # {} /\ underway[Max(holding)].values[p] = cache[p]
    <3>1. k \in holding /\ \A j \in holding : j <= k
      BY <2>5, <2>7 DEF LastOf, Holds
    <3>2. Max(holding) \in holding /\ \A j \in holding : Max(holding) >= j
      <4>1. \E m \in holding : \A j \in holding : m >= j
        BY <2>6, <3>1
      <4> QED
        BY <4>1 DEF Max
    <3>3. Max(holding) = k
      <4> DEFINE m == Max(holding)
      <4>1. m \in Int /\ m >= k /\ m <= k
        BY <2>6, <3>1, <3>2
      <4> HIDE DEF m
      <4>2. m = k
        BY <4>1
      <4> QED
        BY <4>2 DEF m
    <3> QED
      BY <2>7, <3>1, <3>3
  <2>8. ASSUME \A k \in 1..Len(underway) : ~ Holds(session, p, k) PROVE holding = {}
    BY <2>5, <2>8 DEF Holds
  <2> QED
    BY <2>3, <2>7, <2>8 DEF Knows, holding, session, client
<1> QED
  BY <1>1, CacheInvariant, PTL

-------------------------------------------------------------------------------
(***************************************************************************)
(* Numbers and their bytes.                                                *)
(***************************************************************************)

\* A remainder, by its last byte and the others; and a quotient in two steps.
LEMMA DivModProduct ==
    ASSUME NEW n \in Int, NEW b \in Nat \ {0}, NEW v \in Nat \ {0}
    PROVE  /\ n % (b * v) = ((n \div b) % v) * b + (n % b)
           /\ n \div (b * v) = (n \div b) \div v
<1> DEFINE d == n \div b
           m == n % b
           e == d \div v
           w == d % v
<1>1. d \in Int /\ m \in Int /\ 0 <= m /\ m < b /\ n = b * d + m
  BY DivModFacts
<1> HIDE DEF d, m
<1>2. e \in Int /\ w \in Int /\ 0 <= w /\ w < v /\ d = v * e + w
  BY <1>1, DivModFacts
<1> HIDE DEF e, w
<1> DEFINE c == b * v
           r == w * b + m
<1>3. c \in Nat \ {0}
  <2>1. b * v >= b
    OBVIOUS
  <2> QED
    BY <2>1
<1>4. r \in Int /\ 0 <= r
  <2>1. w * b >= 0 /\ w * b \in Int
    BY <1>2
  <2> QED
    BY <1>1, <2>1
<1>5. r < c
  <2>1. (w + 1) * b <= v * b
    BY <1>2
  <2>2. (w + 1) * b = w * b + b /\ w * b \in Int
    BY <1>2
  <2> QED
    BY <1>1, <2>1, <2>2
<1>6. n = c * e + r
  <2>1. b * (v * e + w) = b * (v * e) + b * w
    BY <1>2
  <2>2. b * (v * e) = (b * v) * e /\ b * w = w * b
    BY <1>2
  <2> QED
    BY <1>1, <1>2, <2>1, <2>2
<1> HIDE DEF c, r
<1>7. n \div c = e /\ n % c = r
  BY <1>2, <1>3, <1>4, <1>5, <1>6, DivModUnique
<1> QED
  BY <1>7 DEF c, r, d, m, e, w

\* The bytes of a number make the number again, but for what does not fit in them.
LEMMA NumberOfBytes ==
    ASSUME NEW n \in Int, NEW size \in {1, 2, 4}
    PROVE  Number(Bytes(n, size)) = n % Values[size]
<1> DEFINE bytes == Bytes(n, size)
           digit(k) == (n \div Values[size - k]) % Base
<1>1. bytes = [k \in 1..size |-> digit(k)] /\ size \in Nat
  BY DEF Bytes
<1>2. Len(bytes) = size /\ \A k \in 1..size : bytes[k] = digit(k)
  <2> HIDE DEF digit, bytes
  <2> QED
    BY <1>1
<1>3. PICK f : /\ f[0] = 0 /\ f[size] = Number(bytes)
               /\ \A k \in 1..size : f[k] = f[k - 1] * Base + digit(k)
  <2>1. \E f : /\ f[0] = 0 /\ f[Len(bytes)] = Number(bytes)
               /\ \A k \in 1..Len(bytes) : f[k] = f[k - 1] * Base + bytes[k]
    <3>1. Len(bytes) \in Nat
      BY <1>1, <1>2
    <3> HIDE DEF bytes
    <3> QED
      BY <3>1, NumberSteps
  <2> HIDE DEF digit, bytes
  <2> QED
    BY <1>1, <1>2, <2>1
<1> DEFINE v(k) == Values[k]
<1>4. /\ v(0) = 1 /\ v(1) = Base * v(0) /\ v(2) = Base * v(1)
      /\ v(3) = Base * v(2) /\ v(4) = Base * v(3)
      /\ v(1) \in Nat \ {0} /\ v(2) \in Nat \ {0} /\ v(3) \in Nat \ {0}
  BY ValuesNat
<1>5. Base \in Nat \ {0}
  BY CameraControlAssumption
<1>6. ASSUME NEW m \in Int, NEW k \in 1..3
      PROVE  /\ m % v(k + 1) = ((m \div Base) % v(k)) * Base + (m % Base)
             /\ m \div v(k + 1) = (m \div Base) \div v(k)
  <2>1. v(k + 1) = Base * v(k) /\ v(k) \in Nat \ {0}
    <3>1. k = 1 \/ k = 2 \/ k = 3
      OBVIOUS
    <3> HIDE DEF v
    <3> QED
      BY <1>4, <3>1
  <2> DEFINE a == v(k)
             b == v(k + 1)
  <2>2. b = Base * a /\ a \in Nat \ {0}
    BY <2>1
  <2> HIDE DEF a, b
  <2>3. m % b = ((m \div Base) % a) * Base + (m % Base) /\ m \div b = (m \div Base) \div a
    <3>1. /\ m % (Base * a) = ((m \div Base) % a) * Base + (m % Base)
          /\ m \div (Base * a) = (m \div Base) \div a
      BY <1>5, <2>2, DivModProduct
    <3> QED
      BY <2>2, <3>1
  <2> QED
    BY <2>3 DEF a, b
<1>7. v(1) = Base /\ \A m \in Int : m \div v(0) = m /\ m \div Base \in Int
  <2>1. v(1) = Base
    <3> HIDE DEF v
    <3> QED
      BY <1>4, <1>5
  <2>2. ASSUME NEW m \in Int PROVE m \div 1 = m
    OBVIOUS
  <2>3. ASSUME NEW m \in Int PROVE m \div Base \in Int
    BY <1>5, DivModFacts
  <2> QED
    BY <1>4, <2>1, <2>2, <2>3
<1>8. CASE size = 1
  <2>1. f[1] = digit(1) /\ digit(1) = n % Base
    <3>1. f[1] = f[0] * Base + digit(1) /\ digit(1) = n % Base
      BY <1>3, <1>7, <1>8
    <3>2. n % Base \in Int
      BY <1>5, DivModFacts
    <3> QED
      BY <1>3, <1>5, <3>1, <3>2
  <2> QED
    BY <1>3, <1>7, <1>8, <2>1
<1> DEFINE n1 == n \div Base
           n2 == n1 \div Base
           n3 == n2 \div Base
<1>9. /\ n1 \in Int /\ n2 \in Int /\ n3 \in Int
      /\ n % Base \in Int /\ n1 % Base \in Int /\ n2 % Base \in Int /\ n3 % Base \in Int
  BY <1>5, DivModFacts
<1>10. n \div v(1) = n1 /\ n \div v(2) = n2 /\ n \div v(3) = n3
  <2>1. n1 \div v(1) = n2 /\ n2 \div v(1) = n3
    BY <1>7
  <2>2. n \div v(2) = n1 \div v(1)
    BY <1>6
  <2>3. n1 \div v(2) = n2 \div v(1)
    BY <1>6, <1>9
  <2>4. n \div v(3) = n1 \div v(2)
    BY <1>6
  <2> QED
    BY <1>7, <2>1, <2>2, <2>3, <2>4
<1>11. CASE size = 2
  <2>1. digit(1) = n1 % Base /\ digit(2) = n % Base
    BY <1>7, <1>10, <1>11
  <2>2. f[1] = n1 % Base /\ f[2] = f[1] * Base + (n % Base)
    <3>1. f[1] = f[0] * Base + digit(1) /\ f[2] = f[1] * Base + digit(2)
      BY <1>3, <1>11
    <3> HIDE DEF digit, n1
    <3> QED
      BY <1>3, <1>5, <1>9, <2>1, <3>1
  <2>3. n % v(2) = (n1 % Base) * Base + (n % Base)
    BY <1>6, <1>7
  <2> QED
    BY <1>3, <1>11, <2>2, <2>3
<1>12. CASE size = 4
  <2>1. digit(1) = n3 % Base /\ digit(2) = n2 % Base /\ digit(3) = n1 % Base /\ digit(4) = n % Base
    BY <1>7, <1>10, <1>12
  <2>2. /\ f[1] = n3 % Base /\ f[2] = f[1] * Base + (n2 % Base)
        /\ f[3] = f[2] * Base + (n1 % Base) /\ f[4] = f[3] * Base + (n % Base)
    <3>1. /\ f[1] = f[0] * Base + digit(1) /\ f[2] = f[1] * Base + digit(2)
          /\ f[3] = f[2] * Base + digit(3) /\ f[4] = f[3] * Base + digit(4)
      BY <1>3, <1>12
    <3> HIDE DEF digit, n1, n2, n3
    <3> QED
      BY <1>3, <1>5, <1>9, <2>1, <3>1
  <2>3. n2 % v(2) = (n3 % Base) * Base + (n2 % Base)
    BY <1>6, <1>7, <1>9
  <2>4. n1 % v(3) = (n2 % v(2)) * Base + (n1 % Base)
    BY <1>6, <1>9
  <2>5. n % v(4) = (n1 % v(3)) * Base + (n % Base)
    BY <1>6
  <2> QED
    BY <1>3, <1>12, <2>2, <2>3, <2>4, <2>5
<1> QED
  BY <1>8, <1>11, <1>12

\* The bytes of a number in a payload.
LEMMA ElementBytes ==
    ASSUME NEW p \in Payloads, NEW size \in {1, 2, 4}, NEW i \in Nat, (i + 1) * size <= PayloadLen
    PROVE  /\ Element(p, size, i) \in Seq(0..Base - 1) /\ Len(Element(p, size, i)) = size
           /\ \A k \in 1..size : Element(p, size, i)[k] = p[i * size + k]
<1> DEFINE first == i * size + 1
           last  == (i + 1) * size
           bytes == Element(p, size, i)
<1>1. first \in Nat /\ last \in Nat /\ first >= 1 /\ last <= PayloadLen /\ last = first + size - 1
  <2>1. CASE size = 1
    BY <2>1
  <2>2. CASE size = 2
    BY <2>2
  <2>3. CASE size = 4
    BY <2>3
  <2> QED
    BY <2>1, <2>2, <2>3
<1>2. bytes = SubSeq(p, first, last)
  BY DEF Element
<1>3. PayloadLen \in Nat
  BY CameraControlAssumption
<1>4. ASSUME NEW k \in 1..size PROVE first + k - 1 = i * size + k
  <2>1. i * size \in Nat
    OBVIOUS
  <2> QED
    BY <2>1
<1>5. size \in Nat /\ size >= 1
  OBVIOUS
<1> HIDE DEF first, last, bytes
<1>6. \A k \in first..last : p[k] \in 0..Base - 1
  BY <1>1, <1>3 DEF Payloads
<1>7. /\ SubSeq(p, first, last) \in Seq(0..Base - 1)
      /\ Len(SubSeq(p, first, last)) = IF first <= last THEN last - first + 1 ELSE 0
      /\ \A k \in 1..last - first + 1 : SubSeq(p, first, last)[k] = p[first + k - 1]
  BY <1>1, <1>6, SubSeqProperties
<1>8. last - first + 1 = size /\ first <= last
  BY <1>1, <1>5
<1>9. \A k \in 1..size : bytes[k] = p[i * size + k]
  BY <1>2, <1>4, <1>7, <1>8
<1> QED
  BY <1>2, <1>7, <1>8, <1>9 DEF bytes

\* The i-th number of a payload after numbers were added to its first ones.
NumberAfter(cached, received, size, count, i) ==
    IF i < count
    THEN (Number(Element(cached, size, i)) + Number(Element(received, size, i))) % Values[size]
    ELSE Number(Element(cached, size, i))

\* A command that adds: its numbers are added to the first ones of the payload, the
\* others stay.
LEMMA AddedNumber ==
    ASSUME NEW cached \in Payloads, NEW received \in Payloads, NEW size \in {1, 2, 4},
           NEW count \in Nat, count * size <= PayloadLen,
           NEW added \in Payloads, added = Added(cached, received, size, count),
           NEW i \in Nat, (i + 1) * size <= PayloadLen
    PROVE  Number(Element(added, size, i)) = NumberAfter(cached, received, size, count, i)
<1> DEFINE sum(j) == Number(Element(cached, size, j)) + Number(Element(received, size, j))
           bytes == Element(added, size, i)
           old   == Element(cached, size, i)
<1>1. /\ bytes \in Seq(0..Base - 1) /\ Len(bytes) = size
      /\ \A k \in 1..size : bytes[k] = added[i * size + k]
  BY ElementBytes
<1>2. /\ old \in Seq(0..Base - 1) /\ Len(old) = size
      /\ \A k \in 1..size : old[k] = cached[i * size + k]
  BY ElementBytes
<1>3. PayloadLen \in Nat
  BY CameraControlAssumption
<1>4. ASSUME NEW k \in 1..size
      PROVE  /\ i * size + k \in 1..PayloadLen
             /\ (i * size + k - 1) \div size = i /\ ((i * size + k - 1) % size) + 1 = k
             /\ i * size + k > count * size <=> ~ (i < count)
  <2>1. CASE size = 1
    BY <1>3, <2>1
  <2>2. CASE size = 2
    BY <1>3, <2>2
  <2>3. CASE size = 4
    BY <1>3, <2>3
  <2> QED
    BY <2>1, <2>2, <2>3
<1>5. \A m \in 1..PayloadLen :
        added[m] = IF m > count * size THEN cached[m]
                   ELSE Bytes(sum((m - 1) \div size), size)[((m - 1) % size) + 1]
  BY DEF Added
<1> HIDE DEF bytes, old, sum
<1>6. CASE ~ (i < count)
  <2>1. \A k \in 1..size : bytes[k] = old[k]
    BY <1>1, <1>2, <1>4, <1>5, <1>6
  <2>2. bytes = old
    BY <1>1, <1>2, <2>1, SeqEqual
  <2> QED
    BY <1>6, <2>2 DEF bytes, old, NumberAfter
<1>7. CASE i < count
  <2> DEFINE wrapped == Bytes(sum(i), size)
  <2>1. ASSUME NEW k \in 1..size PROVE bytes[k] = wrapped[k]
    <3> DEFINE m == i * size + k
    <3>1. /\ m \in 1..PayloadLen /\ (m - 1) \div size = i /\ ((m - 1) % size) + 1 = k
          /\ ~ (m > count * size)
      BY <1>4, <1>7
    <3>2. bytes[k] = added[m]
      BY <1>1
    <3> HIDE DEF m
    <3> QED
      BY <1>5, <3>1, <3>2
  <2>2. wrapped = [k \in 1..size |-> wrapped[k]] /\ size \in Nat
    BY DEF Bytes
  <2>3. bytes = wrapped
    <3>1. DOMAIN bytes = 1..size /\ bytes = [k \in DOMAIN bytes |-> bytes[k]]
      BY <1>1
    <3> HIDE DEF wrapped
    <3> QED
      BY <2>1, <2>2, <3>1
  <2>4. sum(i) \in Int
    <3>1. size \in Nat
      OBVIOUS
    <3>2. Number(Element(cached, size, i)) \in Int /\ Number(Element(received, size, i)) \in Int
      BY <3>1, ElementInt
    <3> QED
      BY <3>2 DEF sum
  <2>5. Number(bytes) = sum(i) % Values[size]
    <3> DEFINE n == sum(i)
    <3>1. n \in Int /\ bytes = Bytes(n, size)
      BY <2>3, <2>4
    <3> HIDE DEF n
    <3>2. Number(bytes) = n % Values[size]
      BY <3>1, NumberOfBytes
    <3> QED
      BY <3>2 DEF n
  <2> QED
    BY <1>7, <2>5 DEF bytes, sum, NumberAfter
<1> QED
  BY <1>6, <1>7

\* What a command that can be carried out means.
LEMMA MeaningFacts ==
    ASSUME NEW cc, Legal(cc), NEW change, change = Meaning(cc), NEW p, p = cc.parameter
    PROVE  /\ change.parameter = p
           /\ ~ Effective(cc) => change.how = "none"
           /\ Effective(cc) /\ ~ cc.relative
                 => change.how = "set" /\ change.values = Numbers(p, cc.payload)
           /\ Effective(cc) /\ cc.relative /\ Types[cc.type] = Width(p)
                 => /\ change.how = "add"
                    /\ change.values = SubSeq(Numbers(p, cc.payload), 1, cc.count)
           /\ Effective(cc) /\ cc.relative /\ Types[cc.type] # Width(p)
                 => change.how = "some"
<1>1. ~ Fails(cc)
  BY DEF Legal
<1>2. CASE ~ Effective(cc)
  BY <1>2 DEF Meaning
<1>3. CASE Effective(cc) /\ ~ cc.relative
  BY <1>1, <1>3 DEF Meaning
<1>4. CASE Effective(cc) /\ cc.relative /\ Types[cc.type] = Width(p)
  BY <1>1, <1>4 DEF Meaning
<1>5. CASE Effective(cc) /\ cc.relative /\ Types[cc.type] # Width(p)
  BY <1>1, <1>5 DEF Meaning
<1> QED
  BY <1>2, <1>3, <1>4, <1>5

\* A command does to the numbers what it means.
LEMMA NumbersUpdated ==
    ASSUME NEW cached \in Payloads, NEW cc, Legal(cc), Effective(cc),
           NEW value \in Payloads, value = Updated(cached, cc), NEW p, p = cc.parameter
    PROVE  Numbers(p, value) \in Shared!NewValues(Numbers(p, cached), Meaning(cc))
<1>1. p \in Params /\ cc.payload \in Payloads /\ cc.count \in Nat /\ cc.relative \in BOOLEAN
  BY DEF Effective, Found, Legal, Commands
<1>2. CASE ~ cc.relative
  <2> DEFINE change == Meaning(cc)
             old == Numbers(p, cached)
  <2>1. change.how = "set" /\ change.values = Numbers(p, cc.payload)
    BY <1>2, MeaningFacts
  <2> HIDE DEF change, old
  <2>2. Shared!NewValues(old, change) = {Numbers(p, cc.payload)}
    BY <2>1 DEF Shared!NewValues
  <2>3. value = cc.payload
    BY <1>2 DEF Updated
  <2> QED
    BY <2>2, <2>3 DEF change, old
<1>3. CASE cc.relative /\ Types[cc.type] # Width(p)
  <2> DEFINE change == Meaning(cc)
             old == Numbers(p, cached)
             all(q) == {Numbers(q, payload) : payload \in Payloads}
  <2>1. change.how = "some" /\ change.parameter = p
    BY <1>3, MeaningFacts
  <2> HIDE DEF change, old
  <2>2. Shared!NewValues(old, change) = [q \in Params |-> all(q)][p]
    BY <2>1 DEF Shared!NewValues
  <2>3. [q \in Params |-> all(q)][p] = all(p)
    <3> HIDE DEF all
    <3> QED
      BY <1>1
  <2> QED
    BY <2>2, <2>3 DEF change, old
<1>4. CASE cc.relative /\ Types[cc.type] = Width(p)
  <2> DEFINE size == Types[cc.type]
             count == cc.count
             received == cc.payload
             n == PayloadLen \div size
  <2>1. /\ size \in {1, 2, 4} /\ size = Width(p) /\ count * size <= PayloadLen
        /\ value = Added(cached, received, size, count)
    <3>1. cc.type \in DOMAIN Types /\ cc.count * Types[cc.type] <= PayloadLen
      BY <1>4, LegalRelative
    <3>2. Types[cc.type] \in {1, 2, 4}
      BY <3>1 DEF Types
    <3> QED
      BY <1>4, <3>1, <3>2 DEF Updated
  <2>2. PayloadLen \in Nat
    BY CameraControlAssumption
  <2> HIDE DEF size, count, received
  <2> DEFINE number(payload, k) == Number(Element(payload, size, k - 1))
             change == Meaning(cc)
             old == Numbers(p, cached)
             wrapped == [k \in DOMAIN old |-> IF k \in DOMAIN change.values
                                              THEN (old[k] + change.values[k]) % Values[size]
                                              ELSE old[k]]
  <2>3. ASSUME NEW payload PROVE Numbers(p, payload) = [k \in 1..n |-> number(payload, k)]
    BY <2>1 DEF Numbers
  <2>4. n \in Nat /\ count \in Nat /\ count <= n
    <3>1. count \in Nat
      BY <1>1 DEF count
    <3>2. CASE size = 1
      BY <2>1, <2>2, <3>1, <3>2
    <3>3. CASE size = 2
      BY <2>1, <2>2, <3>1, <3>3
    <3>4. CASE size = 4
      BY <2>1, <2>2, <3>1, <3>4
    <3> QED
      BY <2>1, <3>1, <3>2, <3>3, <3>4
  <2>5. ASSUME NEW k \in 1..n PROVE k - 1 \in Nat /\ ((k - 1) + 1) * size <= PayloadLen
    <3>1. CASE size = 1
      BY <2>2, <2>5, <3>1
    <3>2. CASE size = 2
      BY <2>2, <2>5, <3>2
    <3>3. CASE size = 4
      BY <2>2, <2>5, <3>3
    <3> QED
      BY <2>1, <3>1, <3>2, <3>3
  <2>6. change.how = "add" /\ change.parameter = p
        /\ change.values = SubSeq(Numbers(p, received), 1, count)
    BY <1>4, MeaningFacts DEF count, received
  <2>7. DOMAIN change.values = 1..count /\ \A k \in 1..count : change.values[k] = number(received, k)
    <3> DEFINE all == Numbers(p, received)
               added == SubSeq(all, 1, count)
               S == {all[k] : k \in 1..count}
    <3>1. \A k \in 1..count : all[k] = number(received, k)
      <4>1. all = [k \in 1..n |-> number(received, k)]
        BY <2>3
      <4>2. \A k \in 1..count : k \in 1..n
        <5> HIDE DEF n
        <5> QED
          BY <2>4
      <4> HIDE DEF all, n, number
      <4> QED
        BY <4>1, <4>2
    <3>2. \A k \in 1..count : all[k] \in S
      OBVIOUS
    <3> HIDE DEF all, S, number
    <3>3. /\ added \in Seq(S) /\ Len(added) = IF 1 <= count THEN count - 1 + 1 ELSE 0
          /\ \A k \in 1..count - 1 + 1 : added[k] = all[1 + k - 1]
      BY <2>4, <3>2, SubSeqProperties
    <3> HIDE DEF added
    <3>4. Len(added) = count /\ DOMAIN added = 1..count
      BY <2>4, <3>3
    <3>5. \A k \in 1..count : added[k] = all[k]
      BY <2>4, <3>3
    <3> QED
      BY <2>6, <3>1, <3>4, <3>5 DEF added, all
  <2>8. wrapped = [k \in 1..n |-> IF k \in 1..count
                                  THEN (number(cached, k) + number(received, k)) % Values[size]
                                  ELSE number(cached, k)]
    <3>1. DOMAIN old = 1..n /\ \A k \in 1..n : old[k] = number(cached, k)
      BY <2>3
    <3> HIDE DEF old, change, number
    <3> QED
      BY <2>7, <3>1
  <2>9. ASSUME NEW k \in 1..n
        PROVE  number(value, k) = IF k \in 1..count
                                  THEN (number(cached, k) + number(received, k)) % Values[size]
                                  ELSE number(cached, k)
    <3> DEFINE i == k - 1
    <3>1. i \in Nat /\ (i + 1) * size <= PayloadLen
      BY <2>5
    <3>2. i < count <=> k \in 1..count
      BY <2>4
    <3>3. received \in Payloads
      BY <1>1 DEF received
    <3>4. value \in Payloads /\ value = Added(cached, received, size, count)
      BY <2>1
    <3>5. size \in {1, 2, 4} /\ count \in Nat /\ count * size <= PayloadLen
      BY <2>1, <2>4
    <3> HIDE DEF i
    <3>6. Number(Element(value, size, i)) = NumberAfter(cached, received, size, count, i)
      BY <3>1, <3>3, <3>4, <3>5, AddedNumber
    <3> QED
      BY <3>2, <3>6 DEF i, NumberAfter
  <2>10. Numbers(p, value) = wrapped
    <3>1. Numbers(p, value) = [k \in 1..n |-> number(value, k)]
      BY <2>3
    <3> HIDE DEF number, wrapped
    <3> QED
      BY <2>8, <2>9, <3>1
  <2>11. Shared!NewValues(old, change) = {wrapped}
    <3>1. Width(p) = size /\ p \in Params
      BY <1>1, <2>1
    <3> HIDE DEF old, change
    <3> QED
      BY <2>6, <3>1 DEF Shared!NewValues
  <2> QED
    BY <2>10, <2>11
<1> QED
  BY <1>1, <1>2, <1>3, <1>4

-------------------------------------------------------------------------------
(***************************************************************************)
(* The packets that a client has not processed are its news.               *)
(***************************************************************************)
Stores == {AsNumbers(values) : values \in Views}

News(session) ==
    [k \in DOMAIN session.underway |-> AsNumbers(session.underway[k].values)]

\* News are what packets tell.
LEMMA NewsFacts ==
    ASSUME NEW session \in SessionType, NEW news, news = News(session)
    PROVE  /\ news \in Seq(Stores) /\ Len(news) = Len(session.underway)
           /\ \A k \in 1..Len(news) : news[k] = AsNumbers(session.underway[k].values)
<1> DEFINE n == Len(session.underway)
           told(k) == AsNumbers(session.underway[k].values)
<1>1. n \in Nat /\ DOMAIN session.underway = 1..n
  BY SessionFacts, LenProperties
<1>2. news = [k \in 1..n |-> told(k)]
  BY <1>1 DEF News
<1>3. \A k \in 1..n : told(k) \in Stores
  BY SessionFacts DEF Stores
<1> HIDE DEF n, told
<1>4. news \in [1..n -> Stores]
  BY <1>2, <1>3
<1>5. news \in Seq(Stores) /\ Len(news) = n
  BY <1>1, <1>2, <1>4
<1> QED
  BY <1>2, <1>5 DEF n, told

\* A packet that is sent is the last news.
LEMMA NewsPushed ==
    ASSUME NEW session \in SessionType, NEW values \in Views,
           NEW after \in SessionType, after = Pushed(session, values)
    PROVE  News(after) = Append(News(session), AsNumbers(values))
<1> DEFINE news == News(session)
           longer == News(after)
           underway == session.underway
           n == Len(underway)
           packet == Packet(session.remote_id + 1, values)
           value == AsNumbers(values)
           other == Append(news, value)
<1>1. after.underway = Append(underway, packet) /\ packet.values = values
  BY SessionFacts DEF Pushed, Packet
<1>2. underway \in Seq(PacketType) /\ n \in Nat /\ packet \in PacketType
  <2>1. session.remote_id + 1 \in Nat
    BY SessionFacts
  <2>2. packet \in PacketType
    BY <2>1 DEF Packet, PacketType
  <2> QED
    BY <2>2, SessionFacts
<1> HIDE DEF packet
<1>3. /\ Len(after.underway) = n + 1 /\ after.underway[n + 1] = packet
      /\ \A k \in 1..n : after.underway[k] = underway[k]
  BY <1>1, <1>2
<1> HIDE DEF news, longer, value, other
<1>4. /\ news \in Seq(Stores) /\ Len(news) = n
      /\ \A k \in 1..n : news[k] = AsNumbers(underway[k].values)
  BY NewsFacts DEF news
<1>5. /\ longer \in Seq(Stores) /\ Len(longer) = n + 1
      /\ \A k \in 1..n + 1 : longer[k] = AsNumbers(after.underway[k].values)
  BY <1>3, NewsFacts DEF longer
<1>6. value \in Stores
  BY DEF Stores, value
<1> HIDE DEF n
<1>7. /\ other \in Seq(Stores) /\ Len(other) = n + 1 /\ other[n + 1] = value
      /\ \A k \in 1..n : other[k] = news[k]
  BY <1>4, <1>6, AppendProperties DEF other
<1>8. ASSUME NEW k \in 1..n + 1 PROVE longer[k] = other[k]
  <2>1. CASE k = n + 1
    BY <1>1, <1>2, <1>3, <1>5, <1>7, <2>1 DEF value
  <2>2. CASE k # n + 1
    <3>1. k \in 1..n
      BY <1>2, <2>2
    <3> QED
      BY <1>3, <1>4, <1>5, <1>7, <3>1
  <2> QED
    BY <2>1, <2>2
<1>9. longer = other
  BY <1>5, <1>7, <1>8, SeqEqual
<1> QED
  BY <1>9 DEF news, longer, other, value

\* A client processes the first of its news.
LEMMA NewsReceived ==
    ASSUME NEW session \in SessionType, session.underway # <<>>,
           NEW packet, packet = Head(session.underway),
           NEW later \in SessionType, later = Shortened(session)
    PROVE  /\ News(session) # <<>> /\ Head(News(session)) = AsNumbers(packet.values)
           /\ News(later) = Tail(News(session))
<1> DEFINE news == News(session)
           less == News(later)
           tail == Tail(news)
           underway == session.underway
           rest == later.underway
           n == Len(underway)
<1>1. underway \in Seq(PacketType) /\ underway # <<>> /\ n \in Nat /\ rest = Tail(underway)
  BY SessionFacts DEF Shortened
<1>2. packet = underway[1]
  OBVIOUS
<1> HIDE DEF underway, rest, news, less, tail
<1>3. n >= 1 /\ Len(rest) = n - 1 /\ \A k \in 1..Len(rest) : rest[k] = underway[k + 1]
  BY <1>1, HeadTailProperties
<1>4. /\ news \in Seq(Stores) /\ Len(news) = n
      /\ \A k \in 1..n : news[k] = AsNumbers(underway[k].values)
  BY NewsFacts DEF news, underway
<1>5. /\ less \in Seq(Stores) /\ Len(less) = Len(rest)
      /\ \A k \in 1..Len(rest) : less[k] = AsNumbers(rest[k].values)
  <2>1. /\ less \in Seq(Stores) /\ Len(less) = Len(rest)
        /\ \A k \in 1..Len(less) : less[k] = AsNumbers(rest[k].values)
    <3> PICK x : x = later
      OBVIOUS
    <3>1. x \in SessionType /\ less = News(x) /\ rest = x.underway
      BY DEF less, rest
    <3>2. /\ less \in Seq(Stores) /\ Len(less) = Len(x.underway)
          /\ \A k \in 1..Len(less) : less[k] = AsNumbers(x.underway[k].values)
      BY ONLY <3>1, NewsFacts
    <3> QED
      BY <3>1, <3>2
  <2> QED
    BY <2>1
<1> HIDE DEF n
<1>6. news # <<>>
  BY <1>3, <1>4
<1>7. Head(news) = AsNumbers(packet.values)
  <2>1. Head(news) = news[1] /\ 1 \in 1..n
    BY <1>1, <1>3, <1>4, <1>6
  <2> QED
    BY <1>2, <1>4, <2>1
<1>8. /\ tail \in Seq(Stores) /\ Len(tail) = n - 1
      /\ \A k \in 1..Len(tail) : tail[k] = news[k + 1]
  BY <1>4, <1>6, HeadTailProperties DEF tail
<1>9. ASSUME NEW k \in 1..Len(tail) PROVE less[k] = tail[k]
  <2>1. k \in 1..Len(rest) /\ k + 1 \in 1..n
    BY <1>1, <1>3, <1>8
  <2> QED
    BY <1>3, <1>4, <1>5, <1>8, <2>1
<1>10. less = tail
  <2>1. Len(less) = Len(tail)
    BY <1>3, <1>5, <1>8
  <2> QED
    BY <1>5, <1>8, <1>9, <2>1, SeqEqual
<1> QED
  BY <1>6, <1>7, <1>10 DEF news, less, tail

\* A client that is not connected has no news.
LEMMA NewsNone == News(NoSession) = <<>>
  BY DEF News, NoSession

\* A client that was sent the whole cache has all of it as news, in parts.
LEMMA NewsDumped ==
    ASSUME NEW s \in ServerType, NEW session, session = Dumped(s)
    PROVE  News(session) = [k \in DOMAIN Chunks |-> Shared!Restrict(AsNumbers(s.cache), Chunks[k])]
<1> DEFINE part(k) == Shared!Restrict(AsNumbers(s.cache), Chunks[k])
           told(k) == AsNumbers(session.underway[k].values)
<1>1. \A k \in DOMAIN Chunks : Chunks[k] \in SUBSET Params
  <2>1. Chunks \in Seq(SUBSET Params)
    BY AtemCacheAssumption
  <2> QED
    BY <2>1, ElementOfSeq, LenProperties
<1>2. s.cache \in [Params -> Payloads]
  BY ServerFacts
<1>3. session.underway = [k \in DOMAIN Chunks |-> Packet(k, Restrict(s.cache, Chunks[k]))]
  BY DEF Dumped, NoSession
<1>4. ASSUME NEW k \in DOMAIN Chunks PROVE told(k) = part(k)
  <2> DEFINE values == session.underway[k].values
  <2>1. values = [p \in Chunks[k] |-> s.cache[p]]
    BY <1>3 DEF Packet, Restrict
  <2>2. AsNumbers(values) = [p \in Chunks[k] |-> Numbers(p, s.cache[p])]
    <3> HIDE DEF values
    <3> QED
      BY <2>1 DEF AsNumbers
  <2>3. part(k) = [p \in Chunks[k] |-> AsNumbers(s.cache)[p]]
    BY DEF Shared!Restrict
  <2>4. \A p \in Chunks[k] : AsNumbers(s.cache)[p] = Numbers(p, s.cache[p])
    BY <1>1, <1>2 DEF AsNumbers
  <2> HIDE DEF part, values
  <2>5. part(k) = [p \in Chunks[k] |-> Numbers(p, s.cache[p])]
    BY <2>3, <2>4
  <2> QED
    BY <2>2, <2>5 DEF values
<1>5. News(session) = [k \in DOMAIN Chunks |-> told(k)]
  BY <1>3 DEF News
<1> HIDE DEF told, part
<1>6. News(session) = [k \in DOMAIN Chunks |-> part(k)]
  BY <1>4, <1>5
<1> QED
  BY <1>6 DEF part

\* What a client knows after a packet is what it knows after it was told the news.
LEMMA ViewReceived ==
    ASSUME NEW view \in Views, NEW values \in Views
    PROVE  AsNumbers(Processed(view, values)) = Shared!After(AsNumbers(view), AsNumbers(values))
<1> DEFINE S == DOMAIN view \cup DOMAIN values
           after == Processed(view, values)
           told == Shared!After(AsNumbers(view), AsNumbers(values))
<1>1. /\ DOMAIN after = S
      /\ \A p \in S : after[p] = IF p \in DOMAIN values THEN values[p] ELSE view[p]
  BY DEF Processed
<1>2. told = [p \in S |-> IF p \in DOMAIN values THEN AsNumbers(values)[p] ELSE AsNumbers(view)[p]]
  BY DEF Shared!After, AsNumbers
<1> HIDE DEF after
<1>3. AsNumbers(after) = [p \in S |-> Numbers(p, after[p])]
  BY <1>1 DEF AsNumbers
<1>4. ASSUME NEW p \in S
      PROVE  Numbers(p, after[p]) = IF p \in DOMAIN values THEN AsNumbers(values)[p]
                                    ELSE AsNumbers(view)[p]
  BY <1>1 DEF AsNumbers
<1> HIDE DEF S, told
<1> QED
  BY <1>2, <1>3, <1>4 DEF told, after

-------------------------------------------------------------------------------
(***************************************************************************)
(* The datagrams that the server has not received are a client's requests. *)
(***************************************************************************)
Meanings(datagram) == [j \in DOMAIN datagram |-> Meaning(datagram[j])]
Changes == {Meanings(datagram) : datagram \in Datagrams}

Asked(sent, last) ==
    LET unprocessed == SubSeq(sent, last + 1, Len(sent))
    IN  [k \in DOMAIN unprocessed |->
            [j \in DOMAIN unprocessed[k] |-> Meaning(unprocessed[k][j])]]

IsAsked(sent, last, asked) ==
    /\ asked \in Seq(Changes) /\ Len(asked) = Len(sent) - last
    /\ \A k \in 1..Len(asked) : /\ k + last \in 1..Len(sent)
                                /\ asked[k] = Meanings(sent[k + last])

\* The requests are the datagrams behind the last one that was received.
LEMMA AskedFacts ==
    ASSUME NEW sent \in Seq(Datagrams), NEW last \in Nat, last <= Len(sent),
           NEW asked, asked = Asked(sent, last)
    PROVE  IsAsked(sent, last, asked)
<1> DEFINE l == Len(sent)
           m == last + 1
           rest == SubSeq(sent, m, l)
           meant(k) == Meanings(rest[k])
           n == l - last
<1>1. l \in Nat /\ \A k \in 1..l : sent[k] \in Datagrams
  BY ElementOfSeq
<1>2. asked = [k \in DOMAIN rest |-> meant(k)]
  BY DEF Asked, Meanings
<1>3. m \in Int /\ l \in Int /\ \A k \in m..l : sent[k] \in Datagrams
  BY <1>1
<1>4. /\ rest \in Seq(Datagrams) /\ Len(rest) = IF m <= l THEN l - m + 1 ELSE 0
      /\ \A k \in 1..l - m + 1 : rest[k] = sent[m + k - 1]
  <2> HIDE DEF m, l
  <2> QED
    BY <1>3, SubSeqProperties
<1> HIDE DEF rest
<1>5. n \in Nat /\ Len(rest) = n /\ DOMAIN rest = 1..n
  <2>1. n \in Nat /\ Len(rest) = n
    BY <1>1, <1>4
  <2> HIDE DEF n, l, m
  <2> QED
    BY <1>4, <2>1, LenProperties
<1>6. ASSUME NEW k \in 1..n
      PROVE  k + last \in 1..l /\ meant(k) = Meanings(sent[k + last]) /\ meant(k) \in Changes
  <2>1. k + last \in 1..l /\ m + k - 1 = k + last /\ k \in 1..l - m + 1
    BY <1>1
  <2>2. rest[k] = sent[k + last]
    BY <1>4, <2>1
  <2> QED
    BY <1>1, <2>1, <2>2 DEF Changes
<1> HIDE DEF meant, n, l, m
<1>7. asked = [k \in 1..n |-> meant(k)]
  BY <1>2, <1>5
<1>8. asked \in [1..n -> Changes]
  BY <1>6, <1>7
<1>9. asked \in Seq(Changes) /\ Len(asked) = n /\ \A k \in 1..n : asked[k] = meant(k)
  BY <1>5, <1>7, <1>8
<1> QED
  BY <1>6, <1>9 DEF IsAsked, n, l

\* A datagram that a client sends is one more request.
LEMMA AskedMore ==
    ASSUME NEW sent \in Seq(Datagrams), NEW last \in Nat, last <= Len(sent),
           NEW datagram \in Datagrams
    PROVE  Asked(Append(sent, datagram), last) = Append(Asked(sent, last), Meanings(datagram))
<1> DEFINE asked == Asked(sent, last)
           longer == Append(sent, datagram)
           more == Asked(longer, last)
           change == Meanings(datagram)
           other == Append(asked, change)
           l == Len(sent)
           n == Len(asked)
<1>1. l \in Nat /\ longer \in Seq(Datagrams) /\ Len(longer) = l + 1 /\ longer[l + 1] = datagram
      /\ \A k \in 1..l : longer[k] = sent[k]
  OBVIOUS
<1> HIDE DEF asked, longer, more
<1>2. IsAsked(sent, last, asked)
  BY AskedFacts DEF asked
<1>3. IsAsked(longer, last, more)
  <2>1. last <= Len(longer)
    BY <1>1
  <2> QED
    BY <1>1, <2>1, AskedFacts DEF more
<1>4. change \in Changes
  BY DEF Changes
<1>5. asked \in Seq(Changes) /\ n = l - last /\ n \in Nat
  BY <1>1, <1>2 DEF IsAsked
<1> HIDE DEF change
<1>6. /\ other \in Seq(Changes) /\ Len(other) = n + 1 /\ other[n + 1] = change
      /\ \A k \in 1..n : other[k] = asked[k]
  <2> HIDE DEF n
  <2> QED
    BY <1>4, <1>5, AppendProperties DEF n
<1>7. more \in Seq(Changes) /\ Len(more) = n + 1
  BY <1>1, <1>3, <1>5 DEF IsAsked
<1> HIDE DEF other, n, l
<1>8. ASSUME NEW k \in 1..n + 1 PROVE more[k] = other[k]
  <2>1. k \in 1..Len(more) /\ more[k] = Meanings(longer[k + last])
    BY <1>3, <1>7 DEF IsAsked
  <2>2. CASE k = n + 1
    <3>1. k + last = l + 1
      BY <1>1, <1>5, <2>2
    <3> QED
      BY <1>1, <1>6, <2>1, <2>2, <3>1 DEF change
  <2>3. CASE k # n + 1
    <3>1. k \in 1..n /\ k \in 1..Len(asked)
      BY <1>5, <2>3 DEF n
    <3>2. k + last \in 1..l /\ asked[k] = Meanings(sent[k + last])
      BY <1>2, <3>1 DEF IsAsked, l
    <3> QED
      BY <1>1, <1>6, <2>1, <3>1, <3>2
  <2> QED
    BY <2>2, <2>3
<1>9. more = other
  BY <1>5, <1>6, <1>7, <1>8, SeqEqual
<1> QED
  BY <1>9 DEF more, other, longer, asked, change

\* A datagram that the server receives was the first request.
LEMMA AskedLess ==
    ASSUME NEW sent \in Seq(Datagrams), NEW last \in Nat, last + 1 <= Len(sent)
    PROVE  /\ Asked(sent, last) # <<>>
           /\ Head(Asked(sent, last)) = Meanings(sent[last + 1])
           /\ Asked(sent, last + 1) = Tail(Asked(sent, last))
<1> DEFINE asked == Asked(sent, last)
           less == Asked(sent, last + 1)
           tail == Tail(asked)
           l == Len(sent)
<1>1. l \in Nat /\ last <= l /\ last + 1 \in Nat
  OBVIOUS
<1> HIDE DEF asked, less, tail
<1>2. IsAsked(sent, last, asked)
  BY <1>1, AskedFacts DEF asked
<1>3. IsAsked(sent, last + 1, less)
  BY <1>1, AskedFacts DEF less
<1>4. asked \in Seq(Changes) /\ Len(asked) = l - last /\ Len(asked) >= 1 /\ Len(asked) \in Nat
  BY <1>1, <1>2 DEF IsAsked
<1>5. less \in Seq(Changes) /\ Len(less) = Len(asked) - 1
  BY <1>1, <1>3, <1>4 DEF IsAsked
<1>6. asked # <<>>
  BY <1>4
<1>7. Head(asked) = Meanings(sent[last + 1])
  <2>1. 1 \in 1..Len(asked) /\ 1 + last = last + 1
    BY <1>4
  <2>2. Head(asked) = asked[1]
    BY <1>4, <1>6
  <2> QED
    BY <1>2, <2>1, <2>2 DEF IsAsked
<1>8. /\ tail \in Seq(Changes) /\ Len(tail) = Len(asked) - 1
      /\ \A k \in 1..Len(tail) : tail[k] = asked[k + 1]
  BY <1>4, <1>6, HeadTailProperties DEF tail
<1>9. ASSUME NEW k \in 1..Len(tail) PROVE less[k] = tail[k]
  <2>1. k \in 1..Len(less) /\ k + 1 \in 1..Len(asked) /\ (k + 1) + last = k + (last + 1)
    BY <1>4, <1>5, <1>8
  <2>2. less[k] = Meanings(sent[k + (last + 1)])
    BY <1>3, <2>1 DEF IsAsked
  <2>3. asked[k + 1] = Meanings(sent[(k + 1) + last])
    BY <1>2, <2>1 DEF IsAsked
  <2> QED
    BY <1>8, <2>1, <2>2, <2>3
<1>10. less = tail
  BY <1>4, <1>5, <1>8, <1>9, SeqEqual
<1> QED
  BY <1>6, <1>7, <1>10 DEF asked, less, tail

\* A client that sent nothing has no requests.
LEMMA AskedNone == Asked(<<>>, 0) = <<>>
<1> DEFINE sent == <<>>
           last == 0
           asked == Asked(sent, last)
<1>1. sent \in Seq(Datagrams) /\ Len(sent) = 0 /\ last \in Nat /\ last <= Len(sent) /\ last = 0
  OBVIOUS
<1> HIDE DEF asked, sent, last
<1>2. IsAsked(sent, last, asked)
  BY <1>1, AskedFacts DEF asked
<1>3. asked \in Seq(Changes) /\ Len(asked) = 0
  BY <1>1, <1>2 DEF IsAsked
<1>4. asked = <<>>
  BY <1>3, EmptySeq
<1> QED
  BY <1>4 DEF asked, sent, last

-------------------------------------------------------------------------------
(***************************************************************************)
(* The commands of a datagram change the store, and what clients are told. *)
(***************************************************************************)

\* What the commands so far did to the server s, that was at first, and what they
\* mean to the store, are the same.
Matches(first, s, e) ==
    /\ e.store = AsNumbers(s.cache) /\ e.told \in Seq(Stores)
    /\ \A d \in Clients :
          IF first.sessions[d].connected
          THEN News(s.sessions[d]) = News(first.sessions[d]) \o e.told
          ELSE s.sessions[d] = first.sessions[d]

\* One command.
LEMMA UpdateCCMatches ==
    ASSUME NEW cl \in [Clients -> ClientType], NEW first, NEW s, Good(first, cl), Good(s, cl),
           SameSessions(first, s), NEW cc, Legal(cc), NEW e, Matches(first, s, e),
           NEW u, u = UpdateCC(s, cc)
    PROVE  \E f \in Shared!Changed(e, Meaning(cc)) : Matches(first, u, f)
<1>1. CASE ~ Effective(cc)
  <2>1. u = s
    BY <1>1 DEF UpdateCC
  <2>2. Meaning(cc).how = "none"
    BY <1>1, MeaningFacts
  <2>3. e \in Shared!Changed(e, Meaning(cc))
    BY <2>2 DEF Shared!Changed
  <2> QED
    BY <2>1, <2>3
<1>2. CASE Effective(cc)
  <2> DEFINE q == cc.parameter
             value == Updated(s.cache[q], cc)
             values == Only(q, value)
             change == Meaning(cc)
             number == Numbers(q, value)
  <2>1. q \in Params
    BY <1>2 DEF Effective, Found
  <2>2. s.cache \in [Params -> Payloads] /\ s.sessions \in [Clients -> SessionType]
    BY ServerFacts DEF Good
  <2>3. value \in Payloads
    <3>1. s.cache[q] \in Payloads
      BY <2>1, <2>2
    <3>2. cc \in Commands
      BY DEF Legal
    <3>3. cc.relative => cc.type \in DOMAIN Types /\ cc.count * Types[cc.type] <= PayloadLen
      BY <1>2, LegalRelative
    <3> QED
      BY <3>1, <3>2, <3>3, UpdatedPayload
  <2>4. /\ u.cache = [s.cache EXCEPT ![q] = value]
        /\ u.sessions = [d \in Clients |-> IF s.sessions[d].connected
                                           THEN Pushed(s.sessions[d], values) ELSE s.sessions[d]]
    <3>1. s \in ServerType
      BY DEF Good
    <3>2. u = Broadcast([s EXCEPT !.cache[q] = value], values)
      BY <1>2 DEF UpdateCC
    <3> HIDE DEF q, value, values
    <3> QED
      BY <3>1, <3>2 DEF Broadcast, ServerType
  <2>5. number \in Shared!NewValues(Numbers(q, s.cache[q]), change)
    <3>1. s.cache[q] \in Payloads
      BY <2>1, <2>2
    <3> DEFINE cached == s.cache[q]
    <3>2. cached \in Payloads /\ value \in Payloads /\ value = Updated(cached, cc)
      BY <2>3, <3>1
    <3> HIDE DEF cached, value, q
    <3> QED
      BY <1>2, <3>2, NumbersUpdated DEF cached, q
  <2>6. change.parameter = q /\ change.how # "none"
    <3>1. q = cc.parameter
      OBVIOUS
    <3> HIDE DEF q, change
    <3>2. change.parameter = q
      BY <3>1, MeaningFacts DEF change
    <3>3. change.how \in {"set", "add", "some"}
      BY <1>2, <3>1, MeaningFacts DEF change
    <3> QED
      BY <3>2, <3>3
  <2>7. e.store = AsNumbers(s.cache) /\ e.told \in Seq(Stores)
    BY DEF Matches
  <2>8. e.store[q] = Numbers(q, s.cache[q])
    BY <2>1, <2>2, <2>7 DEF AsNumbers
  <2> DEFINE told == [p \in {q} |-> number]
             f == [store |-> [e.store EXCEPT ![q] = number], told |-> Append(e.told, told)]
  <2>9. f \in Shared!Changed(e, change)
    <3> HIDE DEF q, change, number
    <3> DEFINE outcome(v) == [store |-> [e.store EXCEPT ![q] = v],
                              told  |-> Append(e.told, [p \in {q} |-> v])]
    <3>1. number \in Shared!NewValues(e.store[q], change)
      BY <2>5, <2>8
    <3>2. Shared!Changed(e, change) = {outcome(v) : v \in Shared!NewValues(e.store[q], change)}
      BY <2>6 DEF Shared!Changed
    <3>3. f = outcome(number)
      OBVIOUS
    <3> HIDE DEF f, outcome
    <3> QED
      BY <3>1, <3>2, <3>3
  <2>10. values \in Views /\ AsNumbers(values) = told /\ told \in Stores
    <3>1. {q} \in SUBSET Params /\ values \in [{q} -> Payloads]
      BY <2>1, <2>3 DEF Only
    <3>2. DOMAIN values = {q} /\ values[q] = value
      BY DEF Only
    <3> HIDE DEF values, value
    <3>3. values \in Views
      BY <3>1 DEF Views
    <3>4. AsNumbers(values) = told
      BY <3>2 DEF AsNumbers
    <3> QED
      BY <3>3, <3>4 DEF Stores
  <2>11. AsNumbers(u.cache) = [e.store EXCEPT ![q] = number]
    <3>1. AsNumbers(u.cache) = [p \in Params |-> Numbers(p, u.cache[p])]
      BY <2>2, <2>4 DEF AsNumbers
    <3>2. e.store = [p \in Params |-> Numbers(p, s.cache[p])]
      BY <2>2, <2>7 DEF AsNumbers
    <3>3. \A p \in Params : u.cache[p] = IF p = q THEN value ELSE s.cache[p]
      BY <2>2, <2>4
    <3> HIDE DEF q, value
    <3> QED
      BY <3>1, <3>2, <3>3
  <2>11a. f.store = [e.store EXCEPT ![q] = number] /\ f.told = Append(e.told, told)
    OBVIOUS
  <2> HIDE DEF q, value, values, change, number, told, f
  <2>12. ASSUME NEW d \in Clients
         PROVE  IF first.sessions[d].connected
                THEN News(u.sessions[d]) = News(first.sessions[d]) \o f.told
                ELSE u.sessions[d] = first.sessions[d]
    <3> DEFINE session == s.sessions[d]
               after == u.sessions[d]
               before == first.sessions[d]
    <3>1. session \in SessionType
      BY <2>2
    <3>2. session.connected = before.connected
      BY DEF SameSessions
    <3>3. CASE before.connected
      <4>1. after = Pushed(session, values)
        BY <2>4, <3>2, <3>3
      <4>2. after \in SessionType
        <5>1. u \in ServerType
          BY UpdateCCGood DEF Good
        <5> QED
          BY <5>1, ServerFacts
      <4>3. News(session) = News(before) \o e.told
        BY <3>3 DEF Matches
      <4>4. News(before) \in Seq(Stores)
        <5>1. before \in SessionType
          BY ServerFacts DEF Good
        <5> HIDE DEF before
        <5> QED
          BY <5>1, NewsFacts
      <4> HIDE DEF session, after, before
      <4>5. News(after) = Append(News(session), told)
        <5>1. News(after) = Append(News(session), AsNumbers(values))
          BY <2>10, <3>1, <4>1, <4>2, NewsPushed
        <5> QED
          BY <2>10, <5>1
      <4>6. Append(News(before) \o e.told, told) = News(before) \o Append(e.told, told)
        <5> DEFINE a == News(before)
                   b == e.told
        <5>1. a \in Seq(Stores) /\ b \in Seq(Stores) /\ told \in Stores
          BY <2>7, <2>10, <4>4
        <5> HIDE DEF a, b
        <5>2. a \o b \in Seq(Stores) /\ <<told>> \in Seq(Stores)
          BY <5>1, ConcatProperties
        <5>3. Append(a \o b, told) = (a \o b) \o <<told>> /\ Append(b, told) = b \o <<told>>
          BY <5>1, <5>2, AppendIsConcat
        <5>4. (a \o b) \o <<told>> = a \o (b \o <<told>>)
          BY <5>1, <5>2, ConcatAssociative
        <5>5. Append(a \o b, told) = a \o Append(b, told)
          BY <5>3, <5>4
        <5> QED
          BY <5>5 DEF a, b
      <4>7. News(after) = News(before) \o f.told
        <5>1. f.told = Append(e.told, told)
          BY <2>11a
        <5> QED
          BY <4>3, <4>5, <4>6, <5>1, Zenon
      <4> QED
        BY <3>3, <4>7 DEF session, after, before
    <3>4. CASE ~ before.connected
      BY <2>4, <3>2, <3>4 DEF Matches
    <3> QED
      BY <3>3, <3>4
  <2>13. f.told \in Seq(Stores)
    BY <2>7, <2>10, <2>11a, AppendProperties
  <2>14. f.store = AsNumbers(u.cache)
    BY <2>11, <2>11a
  <2>15. Matches(first, u, f)
    BY <2>12, <2>13, <2>14 DEF Matches
  <2> QED
    BY <2>9, <2>15 DEF change
<1> QED
  BY <1>1, <1>2

\* What one more change may lead to.
AfterChange(effects, change) == UNION {Shared!Changed(s, change) : s \in effects}

\* Change after change.
LEMMA EffectSteps ==
    ASSUME NEW changes, Len(changes) \in Nat, NEW u, u = Shared!Effects(changes)
    PROVE  \E f : /\ f[0] = {[store |-> AsNumbers(cache), told |-> <<>>]}
                 /\ f[Len(changes)] = u
                 /\ \A k \in 1..Len(changes) : f[k] = AfterChange(f[k - 1], changes[k])
<1> DEFINE n == Len(changes)
           start == {[store |-> AsNumbers(cache), told |-> <<>>]}
           Step(f, m) == [k \in 0..m |-> IF k = 0 THEN start ELSE AfterChange(f[k - 1], changes[k])]
           after == CHOOSE f : f = Step(f, n)
<1>1. \E f : f = Step(f, n)
  <2> DEFINE S == {m \in Nat : \E f : f = Step(f, m)}
  <2>1. 0 \in S
    <3>1. [k \in 0..0 |-> start] = Step([k \in 0..0 |-> start], 0)
      OBVIOUS
    <3> QED
      BY <3>1
  <2>2. ASSUME NEW m \in Nat, m \in S PROVE m + 1 \in S
    <3>1. PICK f : f = Step(f, m)
      BY <2>2
    <3> DEFINE g == [k \in 0..m + 1 |-> IF k = 0 THEN start ELSE AfterChange(f[k - 1], changes[k])]
    <3>2. \A k \in 0..m : f[k] = g[k]
      <4> HIDE DEF start
      <4> QED
        BY <3>1
    <3>3. \A k \in 0..m + 1 : g[k] = Step(g, m + 1)[k]
      <4> TAKE k \in 0..m + 1
      <4>1. CASE k = 0
        BY <4>1
      <4>2. CASE k # 0
        <5>1. k - 1 \in 0..m
          BY <4>2
        <5> QED
          BY <3>2, <4>2, <5>1
      <4> QED
        BY <4>1, <4>2
    <3>4. g = Step(g, m + 1)
      BY <3>3
    <3> HIDE DEF g, Step
    <3> QED
      BY <3>4
  <2>3. Nat \subseteq S
    <3> HIDE DEF S
    <3> QED
      BY <2>1, <2>2, NatInductionSet
  <2> QED
    BY <2>3
<1>2. after = Step(after, n)
  <2> HIDE DEF Step
  <2> QED
    BY <1>1
<1>3. u = after[n]
  BY DEF Shared!Effects, AfterChange
<1> HIDE DEF after
<1>4. n \in Nat
  OBVIOUS
<1> HIDE DEF n, start
<1>5. after[0] = start /\ \A k \in 1..n : after[k] = AfterChange(after[k - 1], changes[k])
  <2>1. ASSUME NEW k \in 0..n
        PROVE  after[k] = IF k = 0 THEN start ELSE AfterChange(after[k - 1], changes[k])
    BY <1>2, Zenon
  <2>2. after[0] = start
    BY <1>4, <2>1
  <2>3. ASSUME NEW k \in 1..n PROVE after[k] = AfterChange(after[k - 1], changes[k])
    <3>1. k \in 0..n /\ k # 0
      BY <1>4
    <3> QED
      BY <2>1, <3>1, Zenon
  <2> QED
    BY <2>2, <2>3
<1> QED
  BY <1>3, <1>5 DEF n, start

\* A datagram.
LEMMA UpdateMatches ==
    ASSUME NEW cl \in [Clients -> ClientType], Good(Server, cl),
           NEW datagram \in Seq(Commands), \A k \in 1..Len(datagram) : Legal(datagram[k]),
           NEW u, u = Update(Server, datagram)
    PROVE  \E effect \in Shared!Effects(Meanings(datagram)) : Matches(Server, u, effect)
<1> DEFINE s == Server
           n == Len(datagram)
           changes == Meanings(datagram)
           effects == Shared!Effects(changes)
           start == [store |-> AsNumbers(cache), told |-> <<>>]
<1>1. n \in Nat /\ DOMAIN datagram = 1..n /\ \A k \in 1..n : Legal(datagram[k])
  BY LenProperties
<1>2. Len(changes) = n /\ \A k \in 1..n : changes[k] = Meaning(datagram[k])
  <2>1. changes = [k \in 1..n |-> Meaning(datagram[k])]
    BY <1>1 DEF Meanings
  <2> HIDE DEF changes, n
  <2> QED
    BY <1>1, <2>1
<1> HIDE DEF changes, s
<1>3. PICK f : /\ f[0] = s /\ f[n] = u
               /\ \A k \in 1..n : f[k] = UpdateCC(f[k - 1], datagram[k])
  BY <1>1, UpdateSteps DEF s
<1>4. PICK g : /\ g[0] = {start} /\ g[n] = effects
               /\ \A k \in 1..n : g[k] = AfterChange(g[k - 1], changes[k])
  <2>1. \E g : /\ g[0] = {start} /\ g[Len(changes)] = effects
               /\ \A k \in 1..Len(changes) : g[k] = AfterChange(g[k - 1], changes[k])
    <3>1. Len(changes) \in Nat
      BY <1>1, <1>2
    <3>2. effects = Shared!Effects(changes)
      OBVIOUS
    <3> HIDE DEF effects
    <3> QED
      BY <3>1, <3>2, EffectSteps
  <2> HIDE DEF n, start, effects
  <2> QED
    BY <1>2, <2>1
<1>5. Good(s, cl)
  BY DEF s
<1> DEFINE Done(v, E) == Good(v, cl) /\ SameSessions(s, v) /\ \E e \in E : Matches(s, v, e)
<1> HIDE DEF n, effects
<1>6. Done(s, {start})
  <2>1. SameSessions(s, s)
    BY DEF SameSessions
  <2>2. ASSUME NEW d \in Clients PROVE News(s.sessions[d]) = News(s.sessions[d]) \o <<>>
    <3> DEFINE session == s.sessions[d]
               news == News(session)
    <3>1. session \in SessionType
      BY <1>5, ServerFacts DEF Good
    <3> HIDE DEF session
    <3>2. news \in Seq(Stores)
      BY <3>1, NewsFacts
    <3> HIDE DEF news
    <3>3. news \o <<>> = news
      BY <3>2, ConcatEmptySeq
    <3> QED
      BY <3>3 DEF news, session
  <2>3. start.store = AsNumbers(s.cache) /\ start.told = <<>> /\ <<>> \in Seq(Stores)
    BY DEF s, Server
  <2>4. Matches(s, s, start)
    BY <2>2, <2>3 DEF Matches
  <2> QED
    BY <1>5, <2>1, <2>4
<1> HIDE DEF start
<1> DEFINE S == {m \in Nat : m <= n => Done(f[m], g[m])}
<1>7. 0 \in S
  BY <1>3, <1>4, <1>6
<1>8. ASSUME NEW m \in Nat, m \in S PROVE m + 1 \in S
  <2> SUFFICES ASSUME m + 1 <= n PROVE Done(f[m + 1], g[m + 1])
    OBVIOUS
  <2>1. m + 1 \in 1..n /\ (m + 1) - 1 = m /\ m <= n
    BY <1>1
  <2> DEFINE v == f[m]
             w == f[m + 1]
             cc == datagram[m + 1]
  <2>2. Done(v, g[m])
    BY <1>8, <2>1
  <2>3. PICK e \in g[m] : Matches(s, v, e)
    BY <2>2
  <2>4. w = UpdateCC(v, cc) /\ Legal(cc) /\ Good(v, cl) /\ SameSessions(s, v)
    BY <1>1, <1>3, <2>1, <2>2
  <2>5. Shared!Changed(e, Meaning(cc)) \subseteq g[m + 1]
    <3>1. g[m + 1] = UNION {Shared!Changed(i, changes[m + 1]) : i \in g[m]}
      BY <1>4, <2>1 DEF AfterChange
    <3>2. changes[m + 1] = Meaning(cc)
      BY <1>2, <2>1
    <3> QED
      BY <3>1, <3>2
  <2> HIDE DEF v, w, cc
  <2>6. Good(w, cl) /\ SameSessions(v, w)
    BY <2>4, UpdateCCGood
  <2>7. \E h \in Shared!Changed(e, Meaning(cc)) : Matches(s, w, h)
    BY <1>5, <2>3, <2>4, UpdateCCMatches
  <2>8. SameSessions(s, w)
    BY <2>4, <2>6 DEF SameSessions
  <2> QED
    BY <2>5, <2>6, <2>7, <2>8 DEF w
<1>9. Nat \subseteq S
  <2> HIDE DEF S
  <2> QED
    BY <1>7, <1>8, NatInductionSet
<1>10. Done(u, effects)
  BY <1>1, <1>3, <1>4, <1>9
<1> QED
  BY <1>10 DEF s, effects, changes

-------------------------------------------------------------------------------
(***************************************************************************)
(* The state that the refinement maps to.                                  *)
(***************************************************************************)
Joined      == {c \in Clients : sessions[c].connected}
AllNews     == [c \in Clients |-> News(sessions[c])]
AllRequests == [c \in Clients |-> Asked(clients[c].sent, sessions[c].remote_id_last)]
AllViews    == [c \in Clients |-> AsNumbers(clients[c].view)]

\* A server has received no datagram that a client did not send in the session.
Counted == \A c \in Clients : sessions[c].remote_id_last <= Len(clients[c].sent)

\* This is what AtemCache maps to.
LEMMA Mapped ==
    /\ Joined = {c \in Clients : Connected(c)}
    /\ AllNews = [c \in Clients |->
                    [k \in DOMAIN sessions[c].underway |->
                        AsNumbers(sessions[c].underway[k].values)]]
    /\ AllRequests = [c \in Clients |-> Requests(c)]
  BY DEF Joined, Connected, AllNews, News, AllRequests, Asked, Requests

\* And so it is in the next state.
LEMMA MappedNext ==
    /\ Joined' = {c \in Clients : Connected(c)'}
    /\ AllNews' = [c \in Clients |->
                    [k \in DOMAIN sessions'[c].underway |->
                        AsNumbers(sessions'[c].underway[k].values)]]
    /\ AllRequests' = [c \in Clients |-> Requests(c)']
  BY DEF Joined, Connected, AllNews, News, AllRequests, Asked, Requests

\* What a step maps to that leaves c with this session, and this state of the client.
MapsOne(c, session, client) ==
    /\ Joined' = IF session.connected THEN Joined \cup {c} ELSE Joined \ {c}
    /\ AllNews' = [AllNews EXCEPT ![c] = News(session)]
    /\ AllRequests' = [AllRequests EXCEPT ![c] = Asked(client.sent, session.remote_id_last)]
    /\ AllViews' = [AllViews EXCEPT ![c] = AsNumbers(client.view)]

\* One session, or one client, changes.
LEMMA OneMapped ==
    ASSUME Inv, NEW c \in Clients, NEW session \in SessionType, NEW client \in ClientType,
           sessions' = [sessions EXCEPT ![c] = session],
           clients' = [clients EXCEPT ![c] = client]
    PROVE  MapsOne(c, session, client)
<1>1. sessions \in [Clients -> SessionType] /\ clients \in [Clients -> ClientType]
  BY InvGood
<1>2. sessions'[c] = session /\ clients'[c] = client
  BY <1>1
<1>3. \A d \in Clients : d # c => sessions'[d] = sessions[d] /\ clients'[d] = clients[d]
  BY <1>1
<1>4. Joined' = IF session.connected THEN Joined \cup {c} ELSE Joined \ {c}
  BY <1>2, <1>3, SessionFacts DEF Joined
<1>5. AllNews' = [AllNews EXCEPT ![c] = News(session)]
  <2>1. AllNews' = [d \in Clients |-> News(sessions'[d])]
    BY DEF AllNews
  <2>2. AllNews = [d \in Clients |-> News(sessions[d])]
    BY DEF AllNews
  <2>3. ASSUME NEW d \in Clients PROVE News(sessions'[d]) = IF d = c THEN News(session) ELSE News(sessions[d])
    BY <1>2, <1>3
  <2> QED
    BY <2>1, <2>2, <2>3
<1>6. AllRequests' = [AllRequests EXCEPT ![c] = Asked(client.sent, session.remote_id_last)]
  <2>1. AllRequests' = [d \in Clients |-> Asked(clients'[d].sent, sessions'[d].remote_id_last)]
    BY DEF AllRequests
  <2>2. AllRequests = [d \in Clients |-> Asked(clients[d].sent, sessions[d].remote_id_last)]
    BY DEF AllRequests
  <2>3. ASSUME NEW d \in Clients PROVE Asked(clients'[d].sent, sessions'[d].remote_id_last) = IF d = c THEN Asked(client.sent, session.remote_id_last) ELSE Asked(clients[d].sent, sessions[d].remote_id_last)
    BY <1>2, <1>3
  <2> QED
    BY <2>1, <2>2, <2>3
<1>7. AllViews' = [AllViews EXCEPT ![c] = AsNumbers(client.view)]
  <2>1. AllViews' = [d \in Clients |-> AsNumbers(clients'[d].view)]
    BY DEF AllViews
  <2>2. AllViews = [d \in Clients |-> AsNumbers(clients[d].view)]
    BY DEF AllViews
  <2>3. ASSUME NEW d \in Clients PROVE AsNumbers(clients'[d].view) = IF d = c THEN AsNumbers(client.view) ELSE AsNumbers(clients[d].view)
    BY <1>2, <1>3
  <2> QED
    BY <2>1, <2>2, <2>3
<1> QED
  BY <1>4, <1>5, <1>6, <1>7 DEF MapsOne

\* What stays the same of one client, stays the same of all.
LEMMA SameMapped ==
    ASSUME NEW c \in Clients
    PROVE  /\ [AllNews EXCEPT ![c] = AllNews[c]] = AllNews
           /\ [AllRequests EXCEPT ![c] = AllRequests[c]] = AllRequests
           /\ [AllViews EXCEPT ![c] = AllViews[c]] = AllViews
           /\ AllNews[c] = News(sessions[c])
           /\ AllRequests[c] = Asked(clients[c].sent, sessions[c].remote_id_last)
           /\ AllViews[c] = AsNumbers(clients[c].view)
  BY DEF AllNews, AllRequests, AllViews

\* Nobody joined.
LEMMA InitShared == Init => Counted /\ Shared!Init
<1> SUFFICES ASSUME Init PROVE Counted /\ Shared!Init
  OBVIOUS
<1>1. Inv
  BY InitInv
<1>2. \A c \in Clients : sessions[c] = NoSession /\ clients[c] = NewClient
  BY DEF Init
<1>3. /\ NoSession.connected = FALSE /\ NoSession.remote_id_last = 0 /\ NewClient.sent = <<>>
      /\ NewClient.view = [p \in {} |-> <<>>]
  BY DEF NoSession, NewClient
<1>4. NoSession \in SessionType /\ NewClient \in ClientType
  <2>1. Server \in ServerType
    BY <1>1, InvGood
  <2>2. NewClient \in ClientType
    BY <2>1, DumpedFollows
  <2>3. NoSession \in SessionType
    BY DEF NoSession, SessionType
  <2> QED
    BY <2>2, <2>3
<1>5. Counted
  BY <1>2, <1>3 DEF Counted
<1>6. News(NoSession) = <<>>
  BY NewsNone
<1>7. Asked(<<>>, 0) = <<>>
  BY AskedNone
<1>8. AsNumbers(NewClient.view) = [p \in {} |-> <<>>]
  BY <1>3 DEF AsNumbers
<1>9. /\ Joined = {} /\ AllNews = [c \in Clients |-> <<>>] /\ AllRequests = [c \in Clients |-> <<>>]
      /\ AllViews = [c \in Clients |-> [p \in {} |-> <<>>]]
  <2>1. Joined = {}
    BY <1>2, <1>3 DEF Joined
  <2>2. AllNews = [c \in Clients |-> <<>>]
    BY <1>2, <1>6 DEF AllNews
  <2>3. AllRequests = [c \in Clients |-> <<>>]
    BY <1>2, <1>3, <1>7 DEF AllRequests
  <2>4. AllViews = [c \in Clients |-> [p \in {} |-> <<>>]]
    BY <1>2, <1>8 DEF AllViews
  <2> QED
    BY <2>1, <2>2, <2>3, <2>4
<1>10. cache = Defaults
  BY DEF Init
<1>11. Shared!Init
  BY <1>9, <1>10, Mapped DEF Shared!Init, AllViews
<1> QED
  BY <1>5, <1>11

-------------------------------------------------------------------------------
(***************************************************************************)
(* Steps map to steps.                                                     *)
(***************************************************************************)

\* A client that completes its opening handshake joins.
LEMMA ConnectJoins ==
    ASSUME Inv, Counted, NEW c \in Clients, Connect(c)
    PROVE  Counted' /\ Shared!Join(c)
<1> DEFINE session == Dumped(Server)
           client == clients[c]
           dump == [k \in DOMAIN Chunks |-> Shared!Restrict(AsNumbers(cache), Chunks[k])]
<1>1. Server \in ServerType /\ Server.cache = cache
  BY InvGood
<1>2. session.connected = TRUE /\ session.remote_id_last = 0
  BY <1>1, DumpedFollows
<1>3. ~ sessions[c].connected /\ sessions[c] = NoSession /\ client = NewClient
  BY InvGood DEF Connect, Connected, Inv, Synced
<1>4. cache' = cache /\ sessions' = [sessions EXCEPT ![c] = session] /\ clients' = clients
  BY DEF Connect
<1>5. clients' = [clients EXCEPT ![c] = client]
  BY <1>4, InvGood
<1>6. News(session) = dump
  BY <1>1, NewsDumped
<1>7. NoSession.remote_id_last = 0 /\ NewClient.sent = <<>>
  BY DEF NoSession, NewClient
<1> HIDE DEF session, client, dump
<1>8. Counted'
  <2>1. ASSUME NEW d \in Clients PROVE sessions'[d].remote_id_last <= Len(clients'[d].sent)
    <3>1. CASE d = c
      <4>1. sessions'[d] = session /\ clients'[d] = client
        BY <1>4, <1>5, <3>1, InvGood
      <4>2. Len(client.sent) = 0
        BY <1>3, <1>7
      <4> QED
        BY <1>2, <4>1, <4>2
    <3>2. CASE d # c
      BY <1>4, <3>2, InvGood DEF Counted
    <3> QED
      BY <3>1, <3>2
  <2> QED
    BY <2>1 DEF Counted
<1>9. /\ Joined' = IF session.connected THEN Joined \cup {c} ELSE Joined \ {c}
      /\ AllNews' = [AllNews EXCEPT ![c] = News(session)]
      /\ AllRequests' = [AllRequests EXCEPT ![c] = Asked(client.sent, session.remote_id_last)]
      /\ AllViews' = [AllViews EXCEPT ![c] = AsNumbers(client.view)]
  <2>1. session \in SessionType /\ client \in ClientType
    BY <1>1, DumpedFollows, InvGood DEF session, client
  <2>2. MapsOne(c, session, client)
    BY <1>4, <1>5, <2>1, OneMapped
  <2> QED
    BY <2>2 DEF MapsOne
<1>10. AllRequests' = AllRequests /\ AllViews' = AllViews
  <2>1. AllRequests[c] = Asked(client.sent, session.remote_id_last)
    BY <1>2, <1>3, <1>7, SameMapped DEF client
  <2>2. AllViews[c] = AsNumbers(client.view)
    BY SameMapped DEF client
  <2> QED
    BY <1>9, <2>1, <2>2, SameMapped
<1>11. c \notin Joined
  BY <1>3 DEF Joined
<1>12. Joined' = Joined \cup {c}
  BY <1>2, <1>9
<1>13. AllNews' = [AllNews EXCEPT ![c] = dump]
  BY <1>6, <1>9
<1>14. AsNumbers(cache') = AsNumbers(cache)
  BY <1>4
<1>15. Shared!Join(c)
  BY <1>10, <1>11, <1>12, <1>13, <1>14, Mapped, MappedNext DEF Shared!Join, AllViews, dump
<1> QED
  BY <1>8, <1>15

\* A client whose session ends leaves.
LEMMA ClosedLeaves ==
    ASSUME Inv, Counted, NEW c \in Clients, Closed(c)
    PROVE  Counted' /\ Shared!Leave(c)
<1>1. /\ NoSession.connected = FALSE /\ NoSession.remote_id_last = 0 /\ NewClient.sent = <<>>
      /\ NewClient.view = [p \in {} |-> <<>>]
  BY DEF NoSession, NewClient
<1>2. NoSession \in SessionType /\ NewClient \in ClientType
  <2>1. NewClient \in ClientType
    BY InvGood, DumpedFollows
  <2>2. NoSession \in SessionType
    BY DEF NoSession, SessionType
  <2> QED
    BY <2>1, <2>2
<1>3. /\ cache' = cache /\ sessions' = [sessions EXCEPT ![c] = NoSession]
      /\ clients' = [clients EXCEPT ![c] = NewClient]
  BY DEF Closed
<1>4. Counted'
  <2>1. ASSUME NEW d \in Clients PROVE sessions'[d].remote_id_last <= Len(clients'[d].sent)
    <3>1. CASE d = c
      <4>1. sessions'[d] = NoSession /\ clients'[d] = NewClient
        BY <1>3, <3>1, InvGood
      <4> QED
        BY <1>1, <4>1
    <3>2. CASE d # c
      BY <1>3, <3>2, InvGood DEF Counted
    <3> QED
      BY <3>1, <3>2
  <2> QED
    BY <2>1 DEF Counted
<1>5. /\ Joined' = IF NoSession.connected THEN Joined \cup {c} ELSE Joined \ {c}
      /\ AllNews' = [AllNews EXCEPT ![c] = News(NoSession)]
      /\ AllRequests' = [AllRequests EXCEPT ![c] = Asked(NewClient.sent, NoSession.remote_id_last)]
      /\ AllViews' = [AllViews EXCEPT ![c] = AsNumbers(NewClient.view)]
  <2>1. MapsOne(c, NoSession, NewClient)
    BY <1>2, <1>3, OneMapped
  <2> QED
    BY <2>1 DEF MapsOne
<1>6. News(NoSession) = <<>>
  BY NewsNone
<1>7. Asked(NewClient.sent, NoSession.remote_id_last) = <<>>
  BY <1>1, AskedNone
<1>8. AsNumbers(NewClient.view) = [p \in {} |-> <<>>]
  BY <1>1 DEF AsNumbers
<1>9. AsNumbers(cache') = AsNumbers(cache)
  BY <1>3
<1>10. Joined' = Joined \ {c}
  BY <1>1, <1>5
<1>11. Shared!Leave(c)
  BY <1>5, <1>6, <1>7, <1>8, <1>9, <1>10, Mapped, MappedNext DEF Shared!Leave, AllViews
<1> QED
  BY <1>4, <1>11

\* An acknowledgement changes nothing of what clients asked for, know or are told.
LEMMA RecvAckStutters ==
    ASSUME Inv, Counted, NEW c \in Clients, NEW ack_id \in RemoteIds, RecvAck(c, ack_id)
    PROVE  Counted' /\ UNCHANGED Shared!vars
<1> DEFINE session == sessions[c]
           client == clients[c]
           rest == Unacknowledged(session.chain, ack_id)
           after == [session EXCEPT !.chain = rest]
<1>1. session \in SessionType /\ client \in ClientType /\ session.connected
  BY InvGood DEF RecvAck, Connected
<1>2. rest \in Seq(PacketType)
  <2>1. rest = session.chain \/ rest = <<>>
    BY DEF Unacknowledged
  <2> HIDE DEF rest, session
  <2>2. CASE rest = session.chain
    BY <1>1, <2>2, SessionFacts
  <2>3. CASE rest = <<>>
    BY <2>3
  <2> QED
    BY <2>1, <2>2, <2>3
<1>3. cache' = cache /\ clients' = clients /\ sessions' = [sessions EXCEPT ![c] = after]
  BY InvGood DEF RecvAck
<1>4. clients' = [clients EXCEPT ![c] = client]
  BY <1>3, InvGood
<1>5. after.connected = session.connected /\ after.remote_id_last = session.remote_id_last
  BY <1>1, SessionFacts
<1>6. News(after) = News(session)
  BY <1>1, SessionFacts DEF News
<1> HIDE DEF after
<1>7. Counted'
  <2>1. ASSUME NEW d \in Clients PROVE sessions'[d].remote_id_last <= Len(clients'[d].sent)
    <3>1. CASE d = c
      <4>1. sessions'[d] = after /\ clients'[d] = client
        BY <1>3, <1>4, <3>1, InvGood
      <4> QED
        BY <1>5, <3>1, <4>1 DEF Counted
    <3>2. CASE d # c
      BY <1>3, <3>2, InvGood DEF Counted
    <3> QED
      BY <3>1, <3>2
  <2> QED
    BY <2>1 DEF Counted
<1>8. /\ Joined' = IF after.connected THEN Joined \cup {c} ELSE Joined \ {c}
      /\ AllNews' = [AllNews EXCEPT ![c] = News(after)]
      /\ AllRequests' = [AllRequests EXCEPT ![c] = Asked(client.sent, after.remote_id_last)]
      /\ AllViews' = [AllViews EXCEPT ![c] = AsNumbers(client.view)]
  <2>1. after \in SessionType
    <3> HIDE DEF session, rest
    <3> QED
      BY <1>1, <1>2, SessionFacts DEF SessionType, after
  <2> HIDE DEF client
  <2>2. MapsOne(c, after, client)
    BY <1>1, <1>3, <1>4, <2>1, OneMapped
  <2> QED
    BY <2>2 DEF MapsOne
<1>9. c \in Joined
  BY <1>1 DEF Joined
<1>10. Joined' = Joined
  BY <1>1, <1>5, <1>8, <1>9
<1>11. AllNews' = AllNews /\ AllRequests' = AllRequests /\ AllViews' = AllViews
  BY <1>5, <1>6, <1>8, SameMapped
<1>12. UNCHANGED Shared!vars
  BY <1>3, <1>10, <1>11, Mapped, MappedNext DEF Shared!vars, AllViews
<1> QED
  BY <1>7, <1>12

\* A client that sends a datagram makes a request.
LEMMA SendRequests ==
    ASSUME Inv, Counted, NEW c \in Clients, NEW datagram \in Datagrams, Send(c, datagram)
    PROVE  Counted' /\ Shared!Request(c)
<1> DEFINE session == sessions[c]
           client == clients[c]
           after == [client EXCEPT !.sent = Append(@, datagram)]
           last == session.remote_id_last
           asked == Asked(client.sent, last)
           change == Meanings(datagram)
<1>1. /\ session \in SessionType /\ client \in ClientType /\ last \in Nat
      /\ client.sent \in Seq(Datagrams) /\ last <= Len(client.sent)
  BY InvGood, SessionFacts DEF ClientType, Counted
<1>2. cache' = cache /\ sessions' = sessions /\ clients' = [clients EXCEPT ![c] = after]
  BY InvGood DEF Send
<1>3. sessions' = [sessions EXCEPT ![c] = session]
  BY <1>2, InvGood
<1>4. /\ after.received = client.received /\ after.view = client.view
      /\ after.sent = Append(client.sent, datagram)
  BY <1>1 DEF ClientType
<1> HIDE DEF after, client
<1>6. Len(after.sent) = Len(client.sent) + 1 /\ Len(client.sent) \in Nat
  BY <1>1, <1>4
<1>7. Counted'
  <2>1. ASSUME NEW d \in Clients PROVE sessions'[d].remote_id_last <= Len(clients'[d].sent)
    <3>1. CASE d = c
      <4>1. sessions'[d] = session /\ clients'[d] = after
        BY <1>2, <3>1, InvGood
      <4> QED
        BY <1>1, <1>6, <4>1
    <3>2. CASE d # c
      BY <1>2, <3>2, InvGood DEF Counted
    <3> QED
      BY <3>1, <3>2
  <2> QED
    BY <2>1 DEF Counted
<1>8. /\ Joined' = IF session.connected THEN Joined \cup {c} ELSE Joined \ {c}
      /\ AllNews' = [AllNews EXCEPT ![c] = News(session)]
      /\ AllRequests' = [AllRequests EXCEPT ![c] = Asked(after.sent, session.remote_id_last)]
      /\ AllViews' = [AllViews EXCEPT ![c] = AsNumbers(after.view)]
  <2>1. after \in ClientType
    <3>1. client \in ClientType /\ Append(client.sent, datagram) \in Seq(Datagrams)
      BY <1>1
    <3> QED
      BY <3>1 DEF ClientType, after
  <2> HIDE DEF session
  <2>2. MapsOne(c, session, after)
    BY <1>1, <1>2, <1>3, <2>1, OneMapped
  <2> QED
    BY <2>2 DEF MapsOne
<1>9. Joined' = Joined
  BY <1>2 DEF Joined
<1>10. AllNews' = AllNews /\ AllViews' = AllViews
  BY <1>4, <1>8, SameMapped DEF client
<1>11. AllRequests[c] = asked
  BY SameMapped DEF client
<1>12. Asked(after.sent, last) = Append(asked, change)
  <2> HIDE DEF last
  <2> QED
    BY <1>1, <1>4, AskedMore
<1>13. AllRequests' = [AllRequests EXCEPT ![c] = Append(asked, change)]
  BY <1>8, <1>12
<1>14. asked \in Seq(Changes) /\ change \in Changes
  <2>1. IsAsked(client.sent, last, asked)
    <3> HIDE DEF last
    <3> QED
      BY <1>1, AskedFacts
  <2> QED
    BY <2>1 DEF IsAsked, Changes
<1> HIDE DEF asked, change
<1>15. /\ Append(asked, change) # <<>>
       /\ Shared!Last(Append(asked, change)) = change
  BY <1>14, AppendProperties DEF Shared!Last
<1>16. AllRequests'[c] = Append(asked, change)
  BY <1>13 DEF AllRequests
<1>17. /\ AllRequests'[c] # <<>>
       /\ AllRequests' = [AllRequests EXCEPT ![c] = Append(@, Shared!Last(AllRequests'[c]))]
  BY <1>11, <1>13, <1>15, <1>16
<1>18. AsNumbers(cache') = AsNumbers(cache)
  BY <1>2
<1>19. Shared!Request(c)
  BY <1>9, <1>10, <1>17, <1>18, Mapped, MappedNext DEF Shared!Request, AllViews
<1> QED
  BY <1>7, <1>19

\* A client that processes a packet is told of it.
LEMMA RecvPacketTells ==
    ASSUME Inv, Counted, NEW c \in Clients, RecvPacket(c)
    PROVE  Counted' /\ Shared!Tell(c)
<1> DEFINE client == clients[c]
           session == sessions[c]
           packet == Head(session.underway)
           later == Shortened(session)
           after == Informed(client, packet)
           news == News(session)
<1>1. client \in ClientType /\ session \in SessionType
  BY InvGood
<1>2. session.underway # <<>>
  BY DEF RecvPacket
<1>3. /\ cache' = cache /\ clients' = [clients EXCEPT ![c] = after]
      /\ sessions' = [sessions EXCEPT ![c] = later]
  BY InvGood DEF RecvPacket, Shortened, Informed
<1>4. after.sent = client.sent /\ after.view = Processed(client.view, packet.values)
  BY <1>1 DEF ClientType, Informed
<1> HIDE DEF client, session
<1>5. packet.remote_id \in Nat /\ packet.values \in Views /\ client.view \in Views
  <2>1. session.underway \in Seq(PacketType)
    BY <1>1, SessionFacts
  <2>2. packet \in PacketType
    BY <1>2, <2>1
  <2> HIDE DEF packet
  <2> QED
    BY <1>1, <2>2 DEF PacketType, ClientType
<1> HIDE DEF packet
<1>6. later.connected = session.connected /\ later.remote_id_last = session.remote_id_last
  BY <1>1, SessionFacts DEF Shortened
<1>7. later \in SessionType /\ after \in ClientType
  <2>1. Tail(session.underway) \in Seq(PacketType)
    BY <1>1, <1>2, SessionFacts, HeadTailProperties
  <2>2. later \in SessionType
    BY <1>1, <2>1, SessionFacts DEF SessionType, Shortened
  <2>3. Processed(client.view, packet.values) \in Views
    BY <1>5, ProcessedView
  <2>4. after \in ClientType
    BY <1>1, <1>5, <2>3 DEF ClientType, Informed
  <2> QED
    BY <2>2, <2>4
<1>8. news # <<>> /\ Head(news) = AsNumbers(packet.values) /\ News(later) = Tail(news)
  <2>1. packet = Head(session.underway) /\ later = Shortened(session)
    BY DEF packet
  <2> HIDE DEF later
  <2> QED
    BY <1>1, <1>2, <1>7, <2>1, NewsReceived
<1> HIDE DEF after, later, news
<1>9. AsNumbers(after.view) = Shared!After(AsNumbers(client.view), Head(news))
  BY <1>4, <1>5, <1>8, ViewReceived
<1>10. Counted'
  <2>1. ASSUME NEW d \in Clients PROVE sessions'[d].remote_id_last <= Len(clients'[d].sent)
    <3>1. CASE d = c
      <4>1. sessions'[d] = later /\ clients'[d] = after
        BY <1>3, <3>1, InvGood
      <4>2. session.remote_id_last <= Len(client.sent)
        BY DEF Counted, session, client
      <4> QED
        BY <1>4, <1>6, <4>1, <4>2
    <3>2. CASE d # c
      BY <1>3, <3>2, InvGood DEF Counted
    <3> QED
      BY <3>1, <3>2
  <2> QED
    BY <2>1 DEF Counted
<1>11. /\ Joined' = IF later.connected THEN Joined \cup {c} ELSE Joined \ {c}
       /\ AllNews' = [AllNews EXCEPT ![c] = News(later)]
       /\ AllRequests' = [AllRequests EXCEPT ![c] = Asked(after.sent, later.remote_id_last)]
       /\ AllViews' = [AllViews EXCEPT ![c] = AsNumbers(after.view)]
  <2>1. MapsOne(c, later, after)
    BY <1>3, <1>7, OneMapped
  <2> QED
    BY <2>1 DEF MapsOne
<1>12. Joined' = Joined
  <2>1. c \in Joined <=> session.connected
    BY DEF Joined, session
  <2> QED
    BY <1>6, <1>11, <2>1
<1>13. /\ AllNews[c] = news /\ AllViews[c] = AsNumbers(client.view)
       /\ AllRequests[c] = Asked(client.sent, session.remote_id_last)
  BY SameMapped DEF news, session, client
<1>14. AllRequests' = AllRequests
  BY <1>4, <1>6, <1>11, <1>13, SameMapped
<1>15. /\ AllNews[c] # <<>> /\ AllNews' = [AllNews EXCEPT ![c] = Tail(@)]
       /\ AllViews' = [AllViews EXCEPT ![c] = Shared!After(@, Head(AllNews[c]))]
  BY <1>8, <1>9, <1>11, <1>13
<1>16. AsNumbers(cache') = AsNumbers(cache)
  BY <1>3
<1>17. Shared!Tell(c)
  BY <1>12, <1>14, <1>15, <1>16, Mapped, MappedNext DEF Shared!Tell, AllViews
<1> QED
  BY <1>10, <1>17

\* The datagram that the server receives is the first request of its client, and takes
\* effect as a whole.
LEMMA RecvDataTakesEffect ==
    ASSUME Inv, Counted, NEW c \in Clients, NEW id \in 1..DatagramsMax, RecvData(c, id)
    PROVE  Counted' /\ Shared!TakeEffect(c)
<1> DEFINE sent == clients[c].sent
           last == sessions[c].remote_id_last
           datagram == sent[id]
           s == Update(Server, datagram)
<1>1. sent \in Seq(Datagrams) /\ last \in Nat /\ id = last + 1 /\ id \in 1..Len(sent)
  <2>1. sent \in Seq(Datagrams) /\ last \in Nat
    BY InvGood, SessionFacts DEF ClientType
  <2>2. id = last + 1 /\ id \in DOMAIN sent
    BY DEF RecvData
  <2> QED
    BY <2>1, <2>2, LenProperties
<1>2. /\ clients' = clients /\ cache' = s.cache
      /\ sessions' = [s.sessions EXCEPT ![c].remote_id_last = id]
  BY DEF RecvData
<1>3. /\ datagram \in Datagrams /\ datagram \in Seq(Commands)
      /\ \A k \in 1..Len(datagram) : Legal(datagram[k])
  BY ReceivedLegal
<1> HIDE DEF sent, datagram
<1>4. Good(s, clients) /\ SameSessions(Server, s)
  <2>1. s = Update(Server, datagram)
    OBVIOUS
  <2> HIDE DEF s
  <2> QED
    BY <1>3, <2>1, InvGood, UpdateGood
<1>5. PICK effect \in Shared!Effects(Meanings(datagram)) : Matches(Server, s, effect)
  <2>1. s = Update(Server, datagram)
    OBVIOUS
  <2> HIDE DEF s
  <2> QED
    BY <1>3, <2>1, InvGood, UpdateMatches
<1> HIDE DEF s
<1>6. s.sessions \in [Clients -> SessionType] /\ Server.sessions = sessions
  BY <1>4, ServerFacts, InvGood DEF Good
<1>7. ASSUME NEW d \in Clients
      PROVE  /\ sessions'[d].connected = sessions[d].connected
             /\ sessions'[d].underway = s.sessions[d].underway
             /\ sessions'[d].remote_id_last = IF d = c THEN last + 1
                                              ELSE sessions[d].remote_id_last
  <2> DEFINE session == s.sessions[d]
  <2>1. /\ session \in SessionType /\ session.connected = sessions[d].connected
        /\ session.remote_id_last = sessions[d].remote_id_last
    BY <1>4, <1>6 DEF SameSessions
  <2>2. CASE d = c
    <3>1. sessions'[d] = [session EXCEPT !.remote_id_last = id]
      BY <1>2, <1>6, <2>2
    <3> HIDE DEF session
    <3>2. /\ sessions'[d].connected = session.connected
          /\ sessions'[d].underway = session.underway
          /\ sessions'[d].remote_id_last = id
      BY <2>1, <3>1, SessionFacts
    <3> QED
      BY <1>1, <2>1, <2>2, <3>2 DEF session
  <2>3. CASE d # c
    <3>1. sessions'[d] = session
      BY <1>2, <1>6, <2>3
    <3> QED
      BY <2>1, <2>3, <3>1
  <2> QED
    BY <2>2, <2>3
<1>8. Counted'
  <2>1. ASSUME NEW d \in Clients PROVE sessions'[d].remote_id_last <= Len(clients'[d].sent)
    <3>1. CASE d = c
      BY <1>1, <1>2, <1>7, <3>1 DEF sent
    <3>2. CASE d # c
      BY <1>2, <1>7, <3>2 DEF Counted
    <3> QED
      BY <3>1, <3>2
  <2> QED
    BY <2>1 DEF Counted
<1>9. Joined' = Joined
  BY <1>7 DEF Joined
<1>10. AllViews' = AllViews
  BY <1>2 DEF AllViews
<1>11. AsNumbers(cache') = effect.store
  BY <1>2, <1>5 DEF Matches
<1>12. AllNews' = [d \in Clients |-> IF d \in Joined THEN AllNews[d] \o effect.told ELSE AllNews[d]]
  <2>1. AllNews' = [d \in Clients |-> News(sessions'[d])]
    BY DEF AllNews
  <2>2. ASSUME NEW d \in Clients
        PROVE  News(sessions'[d])
                   = IF d \in Joined THEN AllNews[d] \o effect.told ELSE AllNews[d]
    <3> DEFINE session == s.sessions[d]
               before == sessions[d]
    <3>1. News(sessions'[d]) = News(session)
      BY <1>2, <1>7 DEF News
    <3>2. AllNews[d] = News(before) /\ (d \in Joined <=> before.connected)
      BY SameMapped DEF Joined
    <3>3. CASE before.connected
      <4>1. News(session) = News(before) \o effect.told
        BY <1>5, <1>6, <3>3 DEF Matches
      <4> HIDE DEF session, before
      <4> QED
        BY <3>1, <3>2, <3>3, <4>1
    <3>4. CASE ~ before.connected
      <4>1. session = before
        BY <1>5, <1>6, <3>4 DEF Matches
      <4> HIDE DEF session, before
      <4> QED
        BY <3>1, <3>2, <3>4, <4>1
    <3> QED
      BY <3>3, <3>4
  <2> QED
    BY <2>1, <2>2
<1>13. /\ AllRequests[c] # <<>> /\ Head(AllRequests[c]) = Meanings(datagram)
       /\ Asked(sent, last + 1) = Tail(AllRequests[c])
  <2>1. AllRequests[c] = Asked(sent, last)
    BY SameMapped DEF sent
  <2>2. last + 1 <= Len(sent)
    BY <1>1
  <2> HIDE DEF last
  <2>3. /\ Asked(sent, last) # <<>> /\ Head(Asked(sent, last)) = Meanings(sent[last + 1])
        /\ Asked(sent, last + 1) = Tail(Asked(sent, last))
    BY <1>1, <2>2, AskedLess
  <2> QED
    BY <1>1, <2>1, <2>3 DEF datagram
<1>14. AllRequests' = [AllRequests EXCEPT ![c] = Tail(@)]
  <2>1. AllRequests' = [d \in Clients |-> Asked(clients'[d].sent, sessions'[d].remote_id_last)]
    BY DEF AllRequests
  <2>2. AllRequests = [d \in Clients |-> AllRequests[d]]
    BY DEF AllRequests
  <2>3. ASSUME NEW d \in Clients
        PROVE  Asked(clients'[d].sent, sessions'[d].remote_id_last)
                   = IF d = c THEN Tail(AllRequests[c]) ELSE AllRequests[d]
    <3>1. CASE d = c
      BY <1>2, <1>7, <1>13, <3>1 DEF sent
    <3>2. CASE d # c
      BY <1>2, <1>7, <3>2, SameMapped
    <3> QED
      BY <3>1, <3>2
  <2> HIDE DEF AllRequests
  <2> QED
    BY <2>1, <2>2, <2>3
<1>15. effect \in Shared!Effects(Head(AllRequests[c]))
  BY <1>5, <1>13
<1>16. Shared!TakeEffect(c)
  <2>1. Shared!Apply(effect)
    BY <1>11, <1>12, Mapped, MappedNext DEF Shared!Apply
  <2> QED
    BY <1>9, <1>10, <1>13, <1>14, <1>15, <2>1, Mapped, MappedNext
    DEF Shared!TakeEffect, AllViews
<1> QED
  BY <1>8, <1>16

\* Every step maps to a step, or to none.
LEMMA NextShared == Inv /\ Counted /\ [Next]_vars => Counted' /\ [Shared!Next]_(Shared!vars)
<1> SUFFICES ASSUME Inv, Counted, [Next]_vars PROVE Counted' /\ [Shared!Next]_(Shared!vars)
  OBVIOUS
<1>1. ASSUME UNCHANGED <<cache, sessions, clients>>
      PROVE  Counted' /\ [Shared!Next]_(Shared!vars)
  <2>1. cache' = cache /\ sessions' = sessions /\ clients' = clients
    BY <1>1
  <2>2. Counted'
    BY <2>1 DEF Counted
  <2>3. Joined' = Joined /\ AllNews' = AllNews /\ AllRequests' = AllRequests /\ AllViews' = AllViews
    BY <2>1 DEF Joined, AllNews, AllRequests, AllViews
  <2>4. UNCHANGED Shared!vars
    BY <2>1, <2>3, Mapped, MappedNext DEF Shared!vars, AllViews
  <2> QED
    BY <2>2, <2>4
<1>2. CASE Next
  <2>1. PICK c \in Clients :
          \/ Connect(c)
          \/ Closed(c)
          \/ \E id \in 1..DatagramsMax : RecvData(c, id) \/ Fail(c, id)
          \/ \E id \in RemoteIds : RecvAck(c, id)
          \/ \E datagram \in Datagrams : Send(c, datagram)
          \/ RecvPacket(c)
    BY <1>2 DEF Next
  <2>2. CASE Connect(c)
    <3>1. Counted' /\ Shared!Join(c)
      BY <2>2, ConnectJoins
    <3> QED
      BY <3>1 DEF Shared!Next
  <2>3. CASE Closed(c)
    <3>1. Counted' /\ Shared!Leave(c)
      BY <2>3, ClosedLeaves
    <3> QED
      BY <3>1 DEF Shared!Next
  <2>4. CASE \E id \in 1..DatagramsMax : RecvData(c, id)
    <3>1. Counted' /\ Shared!TakeEffect(c)
      BY <2>4, RecvDataTakesEffect
    <3> QED
      BY <3>1 DEF Shared!Next
  <2>5. CASE \E id \in RemoteIds : RecvAck(c, id)
    BY <2>5, RecvAckStutters
  <2>6. CASE \E datagram \in Datagrams : Send(c, datagram)
    <3>1. Counted' /\ Shared!Request(c)
      BY <2>6, SendRequests
    <3> QED
      BY <3>1 DEF Shared!Next
  <2>7. CASE RecvPacket(c)
    <3>1. Counted' /\ Shared!Tell(c)
      BY <2>7, RecvPacketTells
    <3> QED
      BY <3>1 DEF Shared!Next
  <2>8. CASE \E id \in 1..DatagramsMax : Fail(c, id)
    <3>1. UNCHANGED <<cache, sessions, clients>>
      BY <2>8 DEF Fail
    <3> QED
      BY <1>1, <3>1
  <2> QED
    BY <2>1, <2>2, <2>3, <2>4, <2>5, <2>6, <2>7, <2>8
<1>3. CASE UNCHANGED vars
  <2>1. UNCHANGED <<cache, sessions, clients>>
    BY <1>3 DEF vars
  <2> QED
    BY <1>1, <2>1
<1> QED
  BY <1>2, <1>3

\* Packets, ids, acknowledgements and the bytes of numbers implement one store of
\* shared parameters: each datagram takes effect at most once, in order and as a whole
\* (atem_session_recv(), atem_cache_update()), and clients are told every change in
\* the same order (atem_server_broadcast()).  For any datagrams: a command for no parameter
\* has no effect, numbers of another width than the parameter's lead to some payload of
\* it, and a command that fails is the last thing the server does.
THEOREM ImplementsSharedParametersThm == Spec => ImplementsSharedParameters
<1>1. Init => Inv /\ Counted /\ Shared!Init
  BY InitInv, InitShared
<1>2. Inv /\ Counted /\ [Next]_vars => Inv' /\ Counted' /\ [Shared!Next]_(Shared!vars)
  BY NextInv, NextShared
<1> QED
  BY <1>1, <1>2, PTL DEF Spec, ImplementsSharedParameters, Shared!Spec

===============================================================================
