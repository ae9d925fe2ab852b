---------------------------- MODULE AtemServerProofs ----------------------------
(***************************************************************************)
(* The invariant of the proxy server: its sessions, their chains, the      *)
(* packets and the retransmit queue belong together whatever arrives and   *)
(* whenever a packet expires.                                              *)
(*                                                                         *)
(* The first part is about proxy/atem_packet.c: what its operations do to  *)
(* the packets in memory, the retransmit queue and the sessions that       *)
(* packets wait for.  The second is about proxy/atem_server.c: chains, and *)
(* the actions.                                                            *)
(***************************************************************************)
EXTENDS AtemServer, SessionTableProofs, WellFoundedInduction, TLAPS, FiniteSetTheorems, SequenceTheorems, FunctionTheorems

-------------------------------------------------------------------------------
(***************************************************************************)
(* Induction over the natural numbers, for what loops and lists compute.   *)
(***************************************************************************)

\* A set of numbers that has zero, and with each number the next, has all of them:
\* otherwise there is a smallest number that it lacks.
LEMMA NatInductionSet ==
  ASSUME NEW S, 0 \in S, \A n \in Nat : n \in S => n + 1 \in S
  PROVE  Nat \subseteq S
<1> DEFINE T == Nat \ S
<1>1. SUFFICES ASSUME T # {} PROVE FALSE
  OBVIOUS
<1>2. T \subseteq Nat
  OBVIOUS
<1>3. PICK x \in T : \A y \in T : ~ (<<y, x>> \in OpToRel(<, Nat))
  <2> HIDE DEF T
  <2> QED
    BY <1>1, <1>2, NatLessThanWellFounded, WFMin
<1>4. x \in Nat /\ x \notin S
  OBVIOUS
<1>5. x - 1 \in Nat
  BY <1>4
<1>6. x - 1 \in S
  <2>1. <<x - 1, x>> \in OpToRel(<, Nat)
    BY <1>4, <1>5 DEF OpToRel
  <2> QED
    BY <1>3, <1>5, <2>1
<1>7. x - 1 + 1 = x
  BY <1>4
<1> QED
  BY <1>4, <1>5, <1>6, <1>7

-------------------------------------------------------------------------------

ServerFields == {"sessions", "sessions_len", "sessions_connected", "lookup", "session_id_last",
                 "packets", "queue", "queue_tail", "closing"}

-------------------------------------------------------------------------------
(***************************************************************************)
(* A packet.                                                               *)
(***************************************************************************)

\* A packet of n slots.
PacketType(n) ==
    [flags                : {"none", "closing"},
     resends              : Nat,
     slots                : [0..n - 1 -> SlotType],
     sessions_remaining   : 1..n,
     packet_session_index : [0..n - 1 -> 0..n - 1]]

\* The positions within the bounds and the slots they name point to each other.
Indirect(packet) ==
    \A i \in 0..packet.sessions_remaining - 1 :
        LET slot == packet.packet_session_index[i]
        IN  /\ packet.packet_session_index[slot] = i
            /\ slot = i \/ slot >= packet.sessions_remaining

\* Every slot is of a session of its own.
Distinct(slots) ==
    \A a, b \in DOMAIN slots : slots[a].session_id = slots[b].session_id => a = b

PacketGood(packet) ==
    /\ Distinct(packet.slots)
    /\ \E n \in 1..SessionsLimit : packet \in PacketType(n)
    /\ Indirect(packet)
    /\ packet.resends <= Resends + ResendsClosing
    /\ packet.flags = "none" => packet.resends <= Resends

\* A new packet waits for all its slots.
LEMMA PacketNew ==
    ASSUME NEW n \in 1..SessionsLimit, NEW slots \in [0..n - 1 -> SlotType], Distinct(slots),
           NEW flags \in {"none", "closing"}
    PROVE  /\ PacketGood(Packet(slots, flags))
           /\ RetransmitSlots(Packet(slots, flags)) = 0..n - 1
           /\ Packet(slots, flags).slots = slots
           /\ Packet(slots, flags).flags = flags
           /\ Packet(slots, flags).resends = Resends
           /\ Packet(slots, flags).sessions_remaining = n
<1>1. n \in Nat /\ n >= 1 /\ Resends \in Nat /\ ResendsClosing \in Nat
  BY IdsAssumption, ServerAssumption
<1>2. Cardinality(DOMAIN slots) = n
  <2>1. 0 \in Int /\ n - 1 \in Int /\ DOMAIN slots = 0..n - 1
    BY <1>1
  <2>2. Cardinality(0..n - 1) = IF 0 > n - 1 THEN 0 ELSE (n - 1) - 0 + 1
    BY <2>1, FS_Interval
  <2> QED
    BY <1>1, <2>1, <2>2
<1> DEFINE packet == Packet(slots, flags)
<1>3. packet = [flags |-> flags, resends |-> Resends, slots |-> slots, sessions_remaining |-> n,
                packet_session_index |-> [slot \in 0..n - 1 |-> slot]]
  BY <1>2 DEF Packet, SelfIndexed
<1> HIDE DEF packet
<1>4. packet \in PacketType(n)
  BY <1>1, <1>3 DEF PacketType
<1>5. Indirect(packet)
  BY <1>1, <1>3 DEF Indirect
<1>6. RetransmitSlots(packet) = 0..n - 1
  BY <1>1, <1>3 DEF RetransmitSlots
<1>7. packet.resends <= Resends + ResendsClosing /\ packet.resends <= Resends
  BY <1>1, <1>3
<1>8. PacketGood(packet)
  <2>1. Distinct(packet.slots)
    BY <1>3
  <2> QED
    BY <1>4, <1>5, <1>7, <2>1 DEF PacketGood
<1> QED
  BY <1>3, <1>6, <1>8 DEF packet

\* What is known of a packet, without the number of its slots.
LEMMA PacketFacts ==
    ASSUME NEW packet, PacketGood(packet)
    PROVE  /\ DOMAIN packet = {"flags", "resends", "slots", "sessions_remaining",
                               "packet_session_index"}
           /\ packet.flags \in {"none", "closing"} /\ packet.resends \in Nat
           /\ packet.sessions_remaining \in Nat /\ packet.sessions_remaining >= 1
           /\ \A i \in 0..packet.sessions_remaining - 1 :
                 packet.packet_session_index[i] \in RetransmitSlots(packet)
           /\ \A slot \in RetransmitSlots(packet) :
                 /\ slot \in DOMAIN packet.slots /\ slot \in 0..SessionsLimit - 1
                 /\ packet.slots[slot] \in SlotType
           /\ \A slot \in DOMAIN packet.slots : packet.slots[slot] \in SlotType
<1>1. PICK n \in 1..SessionsLimit : packet \in PacketType(n)
  BY DEF PacketGood
<1>2. n \in Nat /\ n <= SessionsLimit /\ SessionsLimit \in Nat
  BY <1>1, IdsAssumption
<1>3. /\ packet.slots \in [0..n - 1 -> SlotType]
      /\ packet.sessions_remaining \in 1..n
      /\ packet.packet_session_index \in [0..n - 1 -> 0..n - 1]
      /\ packet.flags \in {"none", "closing"} /\ packet.resends \in Nat
  BY <1>1 DEF PacketType
<1>6. DOMAIN packet = {"flags", "resends", "slots", "sessions_remaining", "packet_session_index"}
  BY <1>1 DEF PacketType
<1>7. packet.sessions_remaining \in Nat /\ packet.sessions_remaining >= 1
      /\ packet.sessions_remaining <= n
  BY <1>2, <1>3
<1>4. ASSUME NEW slot \in RetransmitSlots(packet)
      PROVE  slot \in DOMAIN packet.slots /\ slot \in 0..SessionsLimit - 1
  <2>1. PICK i \in 0..packet.sessions_remaining - 1 : slot = packet.packet_session_index[i]
    BY DEF RetransmitSlots
  <2>2. i \in 0..n - 1
    BY <1>2, <1>7
  <2>3. slot \in 0..n - 1
    BY <1>3, <2>1, <2>2
  <2>4. slot \in 0..SessionsLimit - 1
    BY <1>2, <2>3
  <2> QED
    BY <1>3, <2>3, <2>4
<1>5. \A i \in 0..packet.sessions_remaining - 1 :
         packet.packet_session_index[i] \in RetransmitSlots(packet)
  BY DEF RetransmitSlots
<1> QED
  BY <1>3, <1>4, <1>5, <1>6, <1>7

\* The retransmission visits each slot once.
LEMMA VisitsOnce ==
    ASSUME NEW packet, PacketGood(packet),
           NEW i \in 0..packet.sessions_remaining - 1, NEW j \in 0..packet.sessions_remaining - 1,
           packet.packet_session_index[i] = packet.packet_session_index[j]
    PROVE  i = j
  BY DEF PacketGood, Indirect

\* Taking a session out of a packet takes its slot out of the retransmission, and
\* no other.
LEMMA PacketDisassociated ==
    ASSUME NEW packet, PacketGood(packet), NEW slot \in RetransmitSlots(packet),
           packet.sessions_remaining > 1,
           NEW less, less = Disassociated(packet, slot)
    PROVE  /\ PacketGood(less)
           /\ RetransmitSlots(less) = RetransmitSlots(packet) \ {slot}
           /\ less.flags = packet.flags /\ less.resends = packet.resends
           /\ less.slots = packet.slots
           /\ less.sessions_remaining = packet.sessions_remaining - 1
<1> DEFINE R     == packet.sessions_remaining
           r     == R - 1
           index == packet.packet_session_index
           last  == index[r]
           home  == index[slot]
<1>1. PICK n \in 1..SessionsLimit : packet \in PacketType(n)
  BY DEF PacketGood
<1>2. /\ n \in Nat /\ R \in Nat /\ R >= 2 /\ R <= n /\ r \in Nat /\ R = r + 1
      /\ r \in 0..n - 1 /\ r \in 0..R - 1 /\ r \in 1..n
      /\ index \in [0..n - 1 -> 0..n - 1]
  <2>1. R \in 1..n /\ index \in [0..n - 1 -> 0..n - 1]
    BY <1>1 DEF PacketType
  <2>2. n \in Nat
    BY IdsAssumption
  <2>3. R > 1
    OBVIOUS
  <2> HIDE DEF R, index
  <2> QED
    BY <2>1, <2>2, <2>3
<1>3. PICK at \in 0..R - 1 : index[at] = slot
  BY DEF RetransmitSlots
<1>4. \A i \in 0..R - 1 : i \in 0..n - 1 /\ index[i] \in 0..n - 1 /\ index[index[i]] = i
                        /\ (index[i] = i \/ index[i] >= R)
  <2>1. \A i \in 0..R - 1 : index[index[i]] = i /\ (index[i] = i \/ index[i] >= R)
    BY DEF PacketGood, Indirect
  <2>2. \A i \in 0..R - 1 : i \in 0..n - 1
    BY <1>2
  <2> HIDE DEF R, index
  <2> QED
    BY <1>2, <2>1, <2>2
<1>5. home = at /\ slot \in 0..n - 1 /\ (slot = at \/ slot >= R)
  BY <1>3, <1>4
<1>6. r \in 0..R - 1 /\ last \in 0..n - 1 /\ index[last] = r /\ (last = r \/ last >= R)
  BY <1>2, <1>4
<1>7. less = [packet EXCEPT !.sessions_remaining = r,
                            !.packet_session_index = [index EXCEPT ![last] = home, ![home] = last]]
  BY DEF Disassociated
<1>8. /\ less.sessions_remaining = r
      /\ less.packet_session_index = [index EXCEPT ![last] = home, ![home] = last]
      /\ less.flags = packet.flags /\ less.resends = packet.resends /\ less.slots = packet.slots
  BY <1>1, <1>7 DEF PacketType
<1>9. less \in PacketType(n)
  <2>1. [index EXCEPT ![last] = home, ![home] = last] \in [0..n - 1 -> 0..n - 1]
    BY <1>2, <1>4, <1>5, <1>6
  <2> HIDE DEF index, last, home, r
  <2> QED
    BY <1>1, <1>2, <1>7, <2>1 DEF PacketType
<1> DEFINE new == less.packet_session_index
<1>10. \A i \in 0..n - 1 : new[i] = IF i = home THEN last ELSE IF i = last THEN home ELSE index[i]
  BY <1>2, <1>4, <1>5, <1>6, <1>8
<1>11. ASSUME NEW i \in 0..r - 1
       PROVE  /\ new[i] = IF i = home THEN last ELSE index[i]
              /\ new[new[i]] = i /\ (new[i] = i \/ new[i] >= r)
              /\ new[i] # slot
  <2>1. /\ i \in 0..R - 1 /\ i # r /\ i # last /\ i \in 0..n - 1
        /\ i \in Nat /\ R \in Nat /\ last \in Nat /\ i < r
    <3>1. i \in Nat /\ i < r
      BY <1>2
    <3>2. last \in Nat /\ (last = r \/ last >= R)
      BY <1>2, <1>6
    <3> HIDE DEF R, index, last, r
    <3> QED
      BY <1>2, <3>1, <3>2
  <2>2. new[i] = IF i = home THEN last ELSE index[i]
    BY <1>10, <2>1
  <2>3. CASE i = home
    <3>1. new[i] = last /\ at = i
      BY <1>5, <2>2, <2>3
    <3>2. new[last] = home
      BY <1>6, <1>10, <2>1, <2>3
    <3>3. last >= r
      <4> HIDE DEF R, index, last, r
      <4> QED
        BY <1>2, <1>6, <2>1
    <3>4. last # slot
      BY <1>3, <1>4, <1>5, <1>6, <2>1, <3>1
    <3> QED
      BY <2>2, <2>3, <3>1, <3>2, <3>3, <3>4
  <2>4. CASE i # home
    <3>1. new[i] = index[i] /\ index[index[i]] = i /\ (index[i] = i \/ index[i] >= R) /\ index[i] \in 0..n - 1
      BY <1>4, <2>1, <2>2, <2>4
    <3>2. index[i] # slot
      BY <1>3, <1>5, <2>4, <3>1
    <3>3. index[i] # last
      BY <1>6, <2>1, <3>1
    <3>4. index[i] # home
      <4>1. index[i] >= R => index[i] # at
        <5> HIDE DEF R, index
        <5> QED
          BY <1>2, <1>3
      <4> QED
        BY <1>5, <2>4, <3>1, <4>1
    <3>5. new[index[i]] = i
      BY <1>10, <3>1, <3>3, <3>4
    <3>6. index[i] >= R => index[i] >= r
      <4> HIDE DEF R, index, r
      <4> QED
        BY <1>2, <3>1
    <3> QED
      BY <2>2, <3>1, <3>2, <3>5, <3>6
  <2> QED
    BY <2>3, <2>4
<1>12. Indirect(less)
  BY <1>8, <1>11 DEF Indirect
<1>13. RetransmitSlots(less) = RetransmitSlots(packet) \ {slot}
  <2>1. ASSUME NEW y \in RetransmitSlots(less) PROVE y \in RetransmitSlots(packet) \ {slot}
    <3>1. PICK i \in 0..r - 1 : y = new[i]
      BY <1>8 DEF RetransmitSlots
    <3>2. i \in 0..R - 1 /\ r \in 0..R - 1
      <4>1. r \in Nat /\ R = r + 1
        BY <1>2
      <4> HIDE DEF R, r, index, last, home
      <4> QED
        BY <3>1, <4>1
    <3>3. y # slot /\ (y = last \/ y = index[i])
      BY <1>11, <3>1
    <3> QED
      BY <3>2, <3>3 DEF RetransmitSlots
  <2>2. ASSUME NEW y \in RetransmitSlots(packet), y # slot PROVE y \in RetransmitSlots(less)
    <3>1. PICK i \in 0..R - 1 : y = index[i]
      BY DEF RetransmitSlots
    <3>2. i # home
      BY <1>3, <1>5, <2>2, <3>1
    <3>3. CASE i = r
      <4>1. home # r /\ home \in 0..r - 1
        BY <1>2, <1>3, <1>5, <3>2, <3>3
      <4>2. new[home] = last
        BY <1>11, <4>1
      <4> QED
        BY <1>8, <3>1, <3>3, <4>1, <4>2 DEF RetransmitSlots
    <3>4. CASE i # r
      <4>1. i \in 0..r - 1
        <5>1. r \in Nat /\ R = r + 1
          BY <1>2
        <5> HIDE DEF R, r, index, last, home
        <5> QED
          BY <3>4, <5>1
      <4>2. new[i] = index[i]
        BY <1>11, <3>2, <4>1
      <4> QED
        BY <1>8, <3>1, <4>1, <4>2 DEF RetransmitSlots
    <3> QED
      BY <3>3, <3>4
  <2> QED
    BY <2>1, <2>2
<1>14. PacketGood(less)
  <2>1. Distinct(less.slots)
    BY <1>8 DEF PacketGood
  <2> QED
    BY <1>8, <1>9, <1>12, <2>1 DEF PacketGood
<1> QED
  BY <1>8, <1>13, <1>14

-------------------------------------------------------------------------------
(***************************************************************************)
(* The retransmit queue.                                                   *)
(***************************************************************************)

\* The queue holds every packet of P once.
Listing(queue, P) ==
    /\ queue \in Seq(Packets)
    /\ \A a, b \in 1..Len(queue) : queue[a] = queue[b] => a = b
    /\ \A p : p \in P <=> \E a \in 1..Len(queue) : queue[a] = p

\* Packet q is ahead of p in the queue.
Precedes(queue, q, p) ==
    \E a, b \in 1..Len(queue) : a < b /\ queue[a] = q /\ queue[b] = p

\* The packets of P are in the same order in two queues.
SameOrder(q, r, P) == \A x, y \in P : Precedes(q, x, y) => Precedes(r, x, y)

\* A packet joins the queue behind all others.
LEMMA QueueAppended ==
    ASSUME NEW q, NEW P, Listing(q, P), NEW p \in Packets, p \notin P, NEW r, r = Append(q, p)
    PROVE  /\ Listing(r, P \cup {p})
           /\ SameOrder(q, r, P)
           /\ \A x \in P : Precedes(r, x, p)
           /\ Len(r) # 0 /\ r[Len(r)] = p
<1>1. q \in Seq(Packets) /\ Len(q) \in Nat
  BY DEF Listing
<1>2. /\ r \in Seq(Packets) /\ Len(r) = Len(q) + 1 /\ r[Len(q) + 1] = p
      /\ \A a \in 1..Len(q) : r[a] = q[a]
  BY <1>1
<1>3. /\ \A a \in 1..Len(q) : a \in 1..Len(r) /\ a < Len(r) /\ q[a] \in P
      /\ \A a \in 1..Len(r) : a \in 1..Len(q) \/ a = Len(r)
      /\ Len(r) \in 1..Len(r)
  BY <1>1, <1>2 DEF Listing
<1>4. \A a, b \in 1..Len(r) : r[a] = r[b] => a = b
  BY <1>2, <1>3 DEF Listing
<1>5. \A x : x \in P \cup {p} <=> \E a \in 1..Len(r) : r[a] = x
  BY <1>2, <1>3 DEF Listing
<1>6. SameOrder(q, r, P)
  BY <1>2, <1>3 DEF SameOrder, Precedes
<1>7. \A x \in P : Precedes(r, x, p)
  BY <1>2, <1>3 DEF Precedes, Listing
<1> QED
  BY <1>1, <1>2, <1>4, <1>5, <1>6, <1>7 DEF Listing

\* What is left of a sequence without its k-th element.
LEMMA RemovedAt ==
    ASSUME NEW S, NEW q \in Seq(S), NEW k \in 1..Len(q)
    PROVE  /\ RemoveAt(q, k) \in Seq(S) /\ Len(RemoveAt(q, k)) = Len(q) - 1
           /\ \A a \in 1..Len(q) - 1 : RemoveAt(q, k)[a] = IF a < k THEN q[a] ELSE q[a + 1]
<1> DEFINE r == RemoveAt(q, k)
<1>1. Len(q) \in Nat /\ k \in Nat /\ 1 <= k /\ k <= Len(q)
  OBVIOUS
<1> DEFINE u == SubSeq(q, 1, k - 1)
           v == SubSeq(q, k + 1, Len(q))
<1>2. u \in Seq(S) /\ Len(u) = k - 1 /\ \A a \in 1..k - 1 : u[a] = q[a]
  <2>1. /\ 1 \in 1..Len(q) + 1 /\ k - 1 \in 1 - 1..Len(q)
    BY <1>1
  <2>2. \A a \in 1..k - 1 : a \in 1..Len(q)
    BY <1>1
  <2>3. u = [a \in 1..k - 1 |-> q[a]]
    BY <1>1
  <2> QED
    BY <1>1, <2>1, <2>2, <2>3
<1>3. v \in Seq(S) /\ Len(v) = Len(q) - k /\ \A a \in 1..Len(q) - k : v[a] = q[a + k]
  BY <1>1
<1>4. r = u \o v
  BY DEF RemoveAt
<1> HIDE DEF u, v
<1>5. r \in Seq(S) /\ Len(r) = Len(q) - 1
  <2>1. u \o v \in Seq(S) /\ Len(u \o v) = Len(u) + Len(v)
    BY <1>2, <1>3, ConcatProperties
  <2>2. Len(u) = k - 1 /\ Len(v) = Len(q) - k
    BY <1>2, <1>3
  <2> QED
    BY <1>1, <1>4, <2>1, <2>2
<1>6. ASSUME NEW a \in 1..Len(r) PROVE r[a] = IF a < k THEN q[a] ELSE q[a + 1]
  <2>1. a \in Nat /\ 1 <= a /\ a <= Len(u) + Len(v)
    BY <1>1, <1>2, <1>3, <1>5
  <2>2. r[a] = IF a <= Len(u) THEN u[a] ELSE v[a - Len(u)]
    BY <1>2, <1>3, <1>4, <2>1
  <2>3. CASE a < k
    BY <1>1, <1>2, <2>1, <2>2, <2>3
  <2>4. CASE ~ (a < k)
    <3>1. a - Len(u) \in 1..Len(q) - k /\ a - Len(u) + k = a + 1 /\ ~ (a <= Len(u))
      BY <1>1, <1>2, <1>3, <2>1, <2>4
    <3> QED
      BY <1>3, <2>2, <2>4, <3>1
  <2> QED
    BY <2>3, <2>4
<1> QED
  BY <1>5, <1>6

\* The numbers from 1 to n without k, numbered again.
Skipping(k, a) == IF a < k THEN a ELSE a + 1

\* Every number but k has one new number, in the same order.
LEMMA SkippingFacts ==
    ASSUME NEW n \in Nat, NEW k \in 1..n, NEW m \in Nat, m = n - 1
    PROVE  /\ \A a \in 1..m : Skipping(k, a) \in 1..n /\ Skipping(k, a) # k
           /\ \A a, b \in 1..m : Skipping(k, a) = Skipping(k, b) => a = b
           /\ \A a, b \in 1..m : a < b <=> Skipping(k, a) < Skipping(k, b)
           /\ \A b \in 1..n : b # k => \E a \in 1..m : Skipping(k, a) = b
           /\ k # n => m # 0 /\ m \in 1..m /\ Skipping(k, m) = n
<1>1. \A b \in 1..n : b # k => \E a \in 1..m : Skipping(k, a) = b
  <2> TAKE b \in 1..n
  <2>1. CASE b < k
    BY <2>1 DEF Skipping
  <2>2. CASE b > k
    <3>1. b - 1 \in 1..m /\ Skipping(k, b - 1) = b
      BY <2>2 DEF Skipping
    <3> QED
      BY <3>1
  <2> QED
    BY <2>1, <2>2
<1> QED
  BY <1>1 DEF Skipping

\* A packet leaves the queue, the others keep their order.
LEMMA QueueRemoved ==
    ASSUME NEW q, NEW P, Listing(q, P), NEW p \in P,
           NEW r, r = RemoveAt(q, Position(q, p))
    PROVE  /\ Listing(r, P \ {p})
           /\ SameOrder(q, r, P \ {p})
           /\ q[Len(q)] # p => Len(r) # 0 /\ r[Len(r)] = q[Len(q)]
<1>1. q \in Seq(Packets) /\ Len(q) \in Nat /\ DOMAIN q = 1..Len(q)
  BY DEF Listing
<1>2. PICK at \in 1..Len(q) : q[at] = p /\ r = RemoveAt(q, at)
  <2>1. \E k \in DOMAIN q : q[k] = p
    BY <1>1 DEF Listing
  <2> QED
    BY <1>1, <2>1 DEF Position
<1>3. PICK n \in Nat : n = Len(q)
  BY <1>1
<1>4. PICK m \in Nat : /\ m = n - 1 /\ m = Len(r)
                     /\ r \in Seq(Packets)
                     /\ \A a \in 1..m : r[a] = IF a < at THEN q[a] ELSE q[a + 1]
  <2>1. /\ r \in Seq(Packets) /\ Len(r) = Len(q) - 1
        /\ \A a \in 1..Len(q) - 1 : r[a] = IF a < at THEN q[a] ELSE q[a + 1]
    BY <1>1, <1>2, RemovedAt
  <2>2. Len(q) - 1 \in Nat
    BY <1>1, <1>2
  <2> QED
    BY <1>3, <2>1, <2>2
<1>5. /\ r \in Seq(Packets)
      /\ \A a \in 1..m : r[a] = q[Skipping(at, a)]
  BY <1>4 DEF Skipping
<1>6. at \in 1..n
  BY <1>2, <1>3
<1>7. /\ \A a \in 1..m : Skipping(at, a) \in 1..n /\ Skipping(at, a) # at
      /\ \A a, b \in 1..m : Skipping(at, a) = Skipping(at, b) => a = b
      /\ \A a, b \in 1..m : a < b <=> Skipping(at, a) < Skipping(at, b)
      /\ \A b \in 1..n : b # at => \E a \in 1..m : Skipping(at, a) = b
      /\ at # n => m # 0 /\ m \in 1..m /\ Skipping(at, m) = n
  BY <1>4, <1>6, SkippingFacts
<1>8. /\ \A a, b \in 1..n : q[a] = q[b] => a = b
      /\ \A x : x \in P <=> \E a \in 1..n : q[a] = x
      /\ \A a \in 1..n : q[a] = p <=> a = at
  BY <1>2, <1>3 DEF Listing
<1>9. \A a, b \in 1..m : r[a] = r[b] => a = b
  <2> SUFFICES ASSUME NEW a \in 1..m, NEW b \in 1..m, r[a] = r[b] PROVE a = b
    OBVIOUS
  <2>1. /\ r[a] = q[Skipping(at, a)] /\ Skipping(at, a) \in 1..n
        /\ r[b] = q[Skipping(at, b)] /\ Skipping(at, b) \in 1..n
    BY <1>5, <1>7
  <2>2. Skipping(at, a) = Skipping(at, b)
    BY <1>8, <2>1
  <2> QED
    BY <1>7, <2>2
<1>10. ASSUME NEW x PROVE x \in P \ {p} <=> \E a \in 1..m : r[a] = x
  <2>1. ASSUME NEW a \in 1..m, r[a] = x PROVE x \in P \ {p}
    <3>1. r[a] = q[Skipping(at, a)] /\ Skipping(at, a) \in 1..n /\ Skipping(at, a) # at
      BY <1>5, <1>7
    <3> QED
      BY <1>8, <2>1, <3>1
  <2>2. ASSUME x \in P \ {p} PROVE \E a \in 1..m : r[a] = x
    <3>1. PICK b \in 1..n : q[b] = x /\ b # at
      BY <1>8, <2>2
    <3>2. PICK a \in 1..m : Skipping(at, a) = b
      BY <1>7, <3>1
    <3> QED
      BY <1>5, <3>1, <3>2
  <2> QED
    BY <2>1, <2>2
<1>11. SameOrder(q, r, P \ {p})
  <2> SUFFICES ASSUME NEW x \in P \ {p}, NEW y \in P \ {p}, Precedes(q, x, y)
               PROVE  Precedes(r, x, y)
    BY DEF SameOrder
  <2>1. PICK a \in 1..n, b \in 1..n : a < b /\ q[a] = x /\ q[b] = y
    BY <1>3 DEF Precedes
  <2>2. PICK c \in 1..m : Skipping(at, c) = a
    BY <1>7, <1>8, <2>1
  <2>3. PICK d \in 1..m : Skipping(at, d) = b
    BY <1>7, <1>8, <2>1
  <2>4. c < d /\ r[c] = x /\ r[d] = y
    BY <1>5, <1>7, <2>1, <2>2, <2>3
  <2> QED
    BY <1>4, <2>4 DEF Precedes
<1>12. ASSUME q[Len(q)] # p PROVE Len(r) # 0 /\ r[Len(r)] = q[Len(q)]
  <2>1. at # n
    BY <1>2, <1>3, <1>12
  <2> QED
    BY <1>3, <1>4, <1>5, <1>7, <2>1
<1>13. Listing(r, P \ {p})
  BY <1>4, <1>5, <1>9, <1>10 DEF Listing
<1> QED
  BY <1>11, <1>12, <1>13

\* The packet at the head of the queue leaves it.
LEMMA QueueTail ==
    ASSUME NEW q, NEW P, Listing(q, P), q # <<>>, NEW r, r = Tail(q)
    PROVE  /\ Listing(r, P \ {Head(q)}) /\ Head(q) \in P
           /\ SameOrder(q, r, P \ {Head(q)})
           /\ Len(r) # 0 => r[Len(r)] = q[Len(q)]
           /\ \A x : ~ Precedes(q, x, Head(q))
<1>1. q \in Seq(Packets) /\ Len(q) \in Nat /\ Len(q) # 0 /\ Head(q) = q[1] /\ 1 \in 1..Len(q)
  BY DEF Listing
<1>2. /\ r \in Seq(Packets) /\ Len(r) = Len(q) - 1
      /\ \A a \in 1..Len(r) : r[a] = q[a + 1] /\ a + 1 \in 1..Len(q) /\ a + 1 # 1
  BY <1>1
<1>3. \A b \in 1..Len(q) : b # 1 => b - 1 \in 1..Len(r) /\ r[b - 1] = q[b] /\ b \in Nat
  BY <1>1, <1>2
<1>4. \A a, b \in 1..Len(r) : r[a] = r[b] => a = b
  <2> TAKE a \in 1..Len(r), b \in 1..Len(r)
  <2>1. a \in Nat /\ b \in Nat /\ (a + 1 = b + 1 => a = b)
    BY <1>1, <1>2
  <2> QED
    BY <1>2, <2>1 DEF Listing
<1>5. ASSUME NEW x PROVE x \in P \ {Head(q)} <=> \E a \in 1..Len(r) : r[a] = x
  <2>1. /\ x \in P <=> \E b \in 1..Len(q) : q[b] = x
        /\ \A a, b \in 1..Len(q) : q[a] = q[b] => a = b
    BY DEF Listing
  <2>2. ASSUME x \in P \ {Head(q)} PROVE \E a \in 1..Len(r) : r[a] = x
    <3>1. PICK b \in 1..Len(q) : q[b] = x /\ b # 1
      BY <1>1, <2>1, <2>2
    <3> QED
      BY <1>3, <3>1
  <2>3. ASSUME NEW a \in 1..Len(r), r[a] = x PROVE x \in P \ {Head(q)}
    BY <1>1, <1>2, <2>1, <2>3
  <2> QED
    BY <2>2, <2>3
<1>6. SameOrder(q, r, P \ {Head(q)})
  <2> SUFFICES ASSUME NEW x \in P \ {Head(q)}, NEW y \in P \ {Head(q)}, Precedes(q, x, y)
               PROVE  Precedes(r, x, y)
    BY DEF SameOrder
  <2>1. PICK a \in 1..Len(q), b \in 1..Len(q) : a < b /\ q[a] = x /\ q[b] = y
    BY DEF Precedes
  <2>2. a # 1 /\ b # 1
    BY <1>1, <2>1
  <2>3. a - 1 < b - 1
    BY <1>3, <2>1, <2>2
  <2> QED
    BY <1>3, <2>1, <2>2, <2>3 DEF Precedes
<1>7. Len(r) # 0 => r[Len(r)] = q[Len(q)]
  <2> HAVE Len(r) # 0
  <2>1. Len(r) \in 1..Len(r) /\ Len(r) + 1 = Len(q)
    BY <1>1, <1>2
  <2> QED
    BY <1>2, <2>1
<1>8. ASSUME NEW x, Precedes(q, x, Head(q)) PROVE FALSE
  <2>1. PICK a \in 1..Len(q), b \in 1..Len(q) : a < b /\ q[b] = q[1]
    BY <1>1, <1>8 DEF Precedes
  <2>2. b = 1
    BY <1>1, <2>1 DEF Listing
  <2> QED
    BY <1>1, <2>1, <2>2
<1> QED
  BY <1>1, <1>2, <1>4, <1>5, <1>6, <1>7, <1>8 DEF Listing

-------------------------------------------------------------------------------
(***************************************************************************)
(* The packets in memory.                                                  *)
(***************************************************************************)

\* The queue holds the packets in memory, and queue_tail is its end, unless the
\* queue is empty.
Memory(s) ==
    /\ DOMAIN s = ServerFields
    /\ DOMAIN s.packets \subseteq Packets
    /\ \A p \in DOMAIN s.packets : PacketGood(s.packets[p])
    /\ Listing(s.queue, DOMAIN s.packets)
    /\ s.queue_tail \in Packets \cup {NoPacket}
    /\ Len(s.queue) # 0 => s.queue_tail = s.queue[Len(s.queue)]

\* Packet p waits for session x, which has the slot y.
Waits(s, x, p, y) ==
    /\ p \in DOMAIN s.packets
    /\ y \in RetransmitSlots(s.packets[p])
    /\ s.packets[p].slots[y].session_id = x

\* Nothing but packets and their queue changes.
SameTable(s, u) ==
    /\ DOMAIN u = DOMAIN s
    /\ u.sessions = s.sessions /\ u.sessions_len = s.sessions_len
    /\ u.sessions_connected = s.sessions_connected /\ u.lookup = s.lookup
    /\ u.session_id_last = s.session_id_last /\ u.closing = s.closing

\* A packet that may have lost sessions, but is the same otherwise.
SameContent(packet, less) ==
    /\ less.flags = packet.flags /\ less.resends = packet.resends
    /\ less.slots = packet.slots
    /\ less.sessions_remaining <= packet.sessions_remaining

\* The packets of P keep their contents and their order.
Preserved(s, u, P) ==
    /\ P \subseteq DOMAIN s.packets /\ P \subseteq DOMAIN u.packets
    /\ \A p \in P : SameContent(s.packets[p], u.packets[p])
    /\ SameOrder(s.queue, u.queue, P)

\* The links of L are all that is taken out of packets; the others keep their order.
Less(s, u, L) ==
    /\ Memory(s) /\ Memory(u)
    /\ SameTable(s, u)
    /\ Preserved(s, u, DOMAIN u.packets)
    /\ \A p \in DOMAIN s.packets :
          (\A y : Link(p, y) \notin L) => p \in DOMAIN u.packets /\ u.packets[p] = s.packets[p]
    /\ \A x, p, y : Waits(u, x, p, y) <=> Waits(s, x, p, y) /\ Link(p, y) \notin L

\* A packet and a slot make one link.
LEMMA LinkParts ==
    ASSUME NEW p, NEW y
    PROVE  /\ Link(p, y).packet = p /\ Link(p, y).slot = y
           /\ \A q, z : Link(p, y) = Link(q, z) => p = q /\ y = z
  BY DEF Link

\* What is known of the queue and the packets in memory.
LEMMA MemoryFacts ==
    ASSUME NEW s, Memory(s)
    PROVE  /\ DOMAIN s = ServerFields /\ DOMAIN s.packets \subseteq Packets
           /\ s.queue \in Seq(Packets) /\ Len(s.queue) \in Nat
           /\ DOMAIN s.queue = 1..Len(s.queue)
           /\ s.queue = <<>> <=> DOMAIN s.packets = {}
           /\ s.queue = <<>> <=> Len(s.queue) = 0
           /\ NoPacket \notin Packets
<1>1. /\ DOMAIN s = ServerFields /\ DOMAIN s.packets \subseteq Packets
      /\ s.queue \in Seq(Packets)
      /\ \A p : p \in DOMAIN s.packets <=> \E a \in 1..Len(s.queue) : s.queue[a] = p
  BY DEF Memory, Listing
<1>2. /\ Len(s.queue) \in Nat /\ DOMAIN s.queue = 1..Len(s.queue)
      /\ s.queue = <<>> <=> Len(s.queue) = 0
  BY <1>1
<1>3. Len(s.queue) # 0 <=> \E a \in 1..Len(s.queue) : TRUE
  BY <1>2
<1>4. Len(s.queue) = 0 <=> DOMAIN s.packets = {}
  BY <1>1, <1>3
<1> QED
  BY <1>1, <1>2, <1>4, ServerAssumption

\* Packets are what they are where nothing else changes.
LEMMA MemoryKept ==
    ASSUME NEW s, Memory(s), NEW u, DOMAIN u = DOMAIN s, u.packets = s.packets,
           u.queue = s.queue, u.queue_tail = s.queue_tail
    PROVE  /\ Memory(u)
           /\ \A x, p, y : Waits(u, x, p, y) <=> Waits(s, x, p, y)
  BY DEF Memory, Waits

\* Where nothing is taken out, nothing changes.
LEMMA LessNothing ==
    ASSUME NEW s, Memory(s), NEW L, L = {}
    PROVE  Less(s, s, L)
<1>1. \A p \in DOMAIN s.packets : SameContent(s.packets[p], s.packets[p])
  BY PacketFacts DEF Memory, SameContent
<1> QED
  BY <1>1 DEF Less, SameTable, Preserved, SameOrder

\* What is preserved in two steps is preserved.
LEMMA PreservedTwice ==
    ASSUME NEW s, NEW u, NEW v, Memory(s), Memory(u), Memory(v), NEW P, NEW Q,
           Preserved(s, u, P), Preserved(u, v, Q), Q \subseteq P
    PROVE  Preserved(s, v, Q)
<1>1. \A p \in Q : SameContent(s.packets[p], v.packets[p])
  <2> TAKE p \in Q
  <2>1. /\ p \in DOMAIN s.packets /\ p \in DOMAIN u.packets /\ p \in DOMAIN v.packets
        /\ SameContent(s.packets[p], u.packets[p]) /\ SameContent(u.packets[p], v.packets[p])
    BY DEF Preserved
  <2>2. /\ s.packets[p].sessions_remaining \in Nat /\ u.packets[p].sessions_remaining \in Nat
        /\ v.packets[p].sessions_remaining \in Nat
    BY <2>1, PacketFacts DEF Memory
  <2> QED
    BY <2>1, <2>2 DEF SameContent
<1> QED
  BY <1>1 DEF Preserved, SameOrder

\* Links that are taken out in two steps are taken out.
LEMMA LessTwice ==
    ASSUME NEW s, NEW u, NEW v, NEW L, NEW M, Less(s, u, L), Less(u, v, M),
           NEW N, N = L \cup M
    PROVE  Less(s, v, N)
<1>1. Memory(s) /\ Memory(u) /\ Memory(v)
  BY DEF Less
<1>2. DOMAIN v.packets \subseteq DOMAIN u.packets
  BY DEF Less, Preserved
<1>3. Preserved(s, v, DOMAIN v.packets)
  BY <1>1, <1>2, PreservedTwice DEF Less
<1>4. SameTable(s, v)
  BY DEF Less, SameTable
<1>5. \A p \in DOMAIN s.packets :
         (\A y : Link(p, y) \notin N) => p \in DOMAIN v.packets /\ v.packets[p] = s.packets[p]
  BY DEF Less
<1>6. \A x, p, y : Waits(v, x, p, y) <=> Waits(s, x, p, y) /\ Link(p, y) \notin N
  BY DEF Less
<1> QED
  BY <1>1, <1>3, <1>4, <1>5, <1>6 DEF Less

\* A new packet is behind all others.
LEMMA EnqueueMemory ==
    ASSUME NEW s, Memory(s), NEW p \in FreePackets(s), NEW packet, PacketGood(packet),
           NEW u, u = Enqueue(s, p, packet)
    PROVE  /\ Memory(u) /\ SameTable(s, u)
           /\ DOMAIN u.packets = DOMAIN s.packets \cup {p} /\ u.packets[p] = packet
           /\ \A q \in DOMAIN s.packets : u.packets[q] = s.packets[q]
           /\ Preserved(s, u, DOMAIN s.packets)
           /\ \A q \in DOMAIN s.packets : Precedes(u.queue, q, p)
           /\ \A x, q, y : Waits(u, x, q, y) <=>
                 \/ Waits(s, x, q, y)
                 \/ q = p /\ y \in RetransmitSlots(packet) /\ packet.slots[y].session_id = x
<1>1. p \in Packets /\ p \notin DOMAIN s.packets /\ DOMAIN s = ServerFields
  BY DEF FreePackets, Memory
<1>2. /\ DOMAIN u = ServerFields /\ SameTable(s, u)
      /\ u.packets = [q \in DOMAIN s.packets \cup {p} |->
                         IF q = p THEN packet ELSE s.packets[q]]
      /\ u.queue = Append(s.queue, p) /\ u.queue_tail = p
  BY <1>1 DEF Enqueue, SameTable, ServerFields
<1>3. /\ DOMAIN u.packets = DOMAIN s.packets \cup {p} /\ u.packets[p] = packet
      /\ \A q \in DOMAIN s.packets : u.packets[q] = s.packets[q]
  BY <1>1, <1>2
<1>4. /\ Listing(u.queue, DOMAIN s.packets \cup {p})
      /\ SameOrder(s.queue, u.queue, DOMAIN s.packets)
      /\ \A q \in DOMAIN s.packets : Precedes(u.queue, q, p)
      /\ Len(u.queue) # 0 /\ u.queue[Len(u.queue)] = p
  <2> DEFINE q == s.queue
             P == DOMAIN s.packets
             r == u.queue
  <2>1. Listing(q, P) /\ p \in Packets /\ p \notin P /\ r = Append(q, p)
    BY <1>1, <1>2 DEF Memory
  <2> HIDE DEF q, P, r
  <2>2. /\ Listing(r, P \cup {p}) /\ SameOrder(q, r, P)
        /\ \A x \in P : Precedes(r, x, p)
        /\ Len(r) # 0 /\ r[Len(r)] = p
    BY <2>1, QueueAppended
  <2> QED
    BY <2>2 DEF q, P, r
<1>5. Memory(u)
  BY <1>1, <1>2, <1>3, <1>4 DEF Memory
<1>6. Preserved(s, u, DOMAIN s.packets)
  <2>1. \A q \in DOMAIN s.packets : SameContent(s.packets[q], u.packets[q])
    BY <1>3, PacketFacts DEF Memory, SameContent
  <2> QED
    BY <1>3, <1>4, <2>1 DEF Preserved
<1>7. \A x, q, y : Waits(u, x, q, y) <=>
         \/ Waits(s, x, q, y)
         \/ q = p /\ y \in RetransmitSlots(packet) /\ packet.slots[y].session_id = x
  BY <1>1, <1>3 DEF Waits
<1> QED
  BY <1>2, <1>3, <1>4, <1>5, <1>6, <1>7

\* A packet that waits for one session is freed without it.
LEMMA ReleaseMemory ==
    ASSUME NEW s, Memory(s), NEW p \in DOMAIN s.packets,
           NEW y \in RetransmitSlots(s.packets[p]), ~ (s.packets[p].sessions_remaining > 1),
           NEW u, u = Release(s, p)
    PROVE  /\ Less(s, u, {Link(p, y)})
           /\ DOMAIN u.packets = DOMAIN s.packets \ {p}
<1> DEFINE P == DOMAIN s.packets
           q == s.queue
<1>1. /\ DOMAIN s = ServerFields /\ p \in Packets /\ PacketGood(s.packets[p])
      /\ Listing(q, P) /\ q \in Seq(Packets) /\ Len(q) \in Nat /\ DOMAIN q = 1..Len(q)
  BY MemoryFacts DEF Memory
<1>2. /\ DOMAIN u = ServerFields /\ SameTable(s, u)
      /\ u.packets = Restrict(s.packets, P \ {p})
      /\ u.queue = RemoveAt(q, Position(q, p))
      /\ u.queue_tail = IF Last(q) # p THEN s.queue_tail
                        ELSE IF u.queue = <<>> THEN NoPacket ELSE Last(u.queue)
  BY <1>1 DEF Release, SameTable, ServerFields
<1>3. DOMAIN u.packets = P \ {p} /\ \A x \in P \ {p} : u.packets[x] = s.packets[x]
  BY <1>2 DEF Restrict
<1>4. /\ Listing(u.queue, P \ {p})
      /\ SameOrder(q, u.queue, P \ {p})
      /\ q[Len(q)] # p => Len(u.queue) # 0 /\ u.queue[Len(u.queue)] = q[Len(q)]
  <2> DEFINE r == u.queue
  <2>1. r = RemoveAt(q, Position(q, p)) /\ p \in P /\ Listing(q, P)
    BY <1>1, <1>2
  <2> HIDE DEF q, r, P
  <2>2. /\ Listing(r, P \ {p}) /\ SameOrder(q, r, P \ {p})
        /\ q[Len(q)] # p => Len(r) # 0 /\ r[Len(r)] = q[Len(q)]
    BY <2>1, QueueRemoved
  <2> QED
    BY <2>2 DEF q, P, r
<1>5. /\ u.queue_tail \in Packets \cup {NoPacket}
      /\ Len(u.queue) # 0 => u.queue_tail = u.queue[Len(u.queue)]
  <2>1. u.queue \in Seq(Packets) /\ Len(u.queue) \in Nat /\ (u.queue = <<>> <=> Len(u.queue) = 0)
    BY <1>4 DEF Listing
  <2>2. Last(q) = q[Len(q)] /\ Last(u.queue) = u.queue[Len(u.queue)] /\ Len(q) # 0
    BY <1>1 DEF Last, Listing
  <2>3. s.queue_tail = q[Len(q)] /\ s.queue_tail \in Packets \cup {NoPacket}
    BY <2>2 DEF Memory
  <2>4. Len(u.queue) # 0 => u.queue[Len(u.queue)] \in Packets
    BY <2>1
  <2> QED
    BY <1>2, <1>4, <2>1, <2>2, <2>3, <2>4
<1>6. Memory(u)
  BY <1>1, <1>2, <1>3, <1>4, <1>5 DEF Memory
<1>7. Preserved(s, u, P \ {p})
  <2>1. \A x \in P \ {p} : SameContent(s.packets[x], u.packets[x])
    BY <1>3, PacketFacts DEF Memory, SameContent
  <2> QED
    BY <1>3, <1>4, <2>1 DEF Preserved
<1>8. \A z : z \in RetransmitSlots(s.packets[p]) => z = y
  <2>1. s.packets[p].sessions_remaining \in Nat /\ s.packets[p].sessions_remaining >= 1
    BY <1>1, PacketFacts
  <2>2. s.packets[p].sessions_remaining = 1
    BY <2>1
  <2> QED
    BY <2>2 DEF RetransmitSlots
<1>9. \A x, r, z : Waits(u, x, r, z) <=> Waits(s, x, r, z) /\ Link(r, z) \notin {Link(p, y)}
  BY <1>3, <1>8, LinkParts DEF Waits
<1>10. \A r \in P : (\A z : Link(r, z) \notin {Link(p, y)}) =>
                        r \in DOMAIN u.packets /\ u.packets[r] = s.packets[r]
  BY <1>3
<1> QED
  BY <1>2, <1>3, <1>6, <1>7, <1>9, <1>10 DEF Less

\* A session is taken out of a packet.
LEMMA DisassociateMemory ==
    ASSUME NEW s, Memory(s), NEW p \in DOMAIN s.packets,
           NEW y \in RetransmitSlots(s.packets[p]), NEW u, u = Disassociate(s, Link(p, y))
    PROVE  Less(s, u, {Link(p, y)})
<1>1. CASE ~ (s.packets[p].sessions_remaining > 1)
  <2>1. u = Release(s, p)
    BY <1>1, LinkParts DEF Disassociate
  <2> QED
    BY <1>1, <2>1, ReleaseMemory
<1>2. CASE s.packets[p].sessions_remaining > 1
  <2> DEFINE less == Disassociated(s.packets[p], y)
  <2>1. u = [s EXCEPT !.packets[p] = less]
    BY <1>2, LinkParts DEF Disassociate
  <2>2. DOMAIN s = ServerFields /\ PacketGood(s.packets[p])
    BY DEF Memory
  <2>3. /\ PacketGood(less)
        /\ RetransmitSlots(less) = RetransmitSlots(s.packets[p]) \ {y}
        /\ less.flags = s.packets[p].flags /\ less.resends = s.packets[p].resends
        /\ less.slots = s.packets[p].slots
        /\ less.sessions_remaining = s.packets[p].sessions_remaining - 1
    <3> HIDE DEF less
    <3> QED
      BY <1>2, <2>2, PacketDisassociated DEF less
  <2> HIDE DEF less
  <2>4. /\ DOMAIN u = ServerFields /\ SameTable(s, u)
        /\ u.queue = s.queue /\ u.queue_tail = s.queue_tail
        /\ DOMAIN u.packets = DOMAIN s.packets /\ u.packets[p] = less
        /\ \A q \in DOMAIN s.packets : q # p => u.packets[q] = s.packets[q]
    BY <2>1, <2>2 DEF SameTable, ServerFields
  <2>5. Memory(u)
    BY <2>3, <2>4 DEF Memory
  <2>6. \A q \in DOMAIN s.packets : SameContent(s.packets[q], u.packets[q])
    <3> TAKE q \in DOMAIN s.packets
    <3>1. s.packets[q].sessions_remaining \in Nat
      BY PacketFacts DEF Memory
    <3>2. CASE q = p
      BY <2>3, <2>4, <3>1, <3>2 DEF SameContent
    <3>3. CASE q # p
      BY <2>4, <3>1, <3>3 DEF SameContent
    <3> QED
      BY <3>2, <3>3
  <2>7. Preserved(s, u, DOMAIN u.packets)
    BY <2>4, <2>6 DEF Preserved, SameOrder
  <2>8. \A x, q, z : Waits(u, x, q, z) <=> Waits(s, x, q, z) /\ Link(q, z) \notin {Link(p, y)}
    BY <2>3, <2>4, LinkParts DEF Waits
  <2>9. \A q \in DOMAIN s.packets : (\A z : Link(q, z) \notin {Link(p, y)}) =>
            q \in DOMAIN u.packets /\ u.packets[q] = s.packets[q]
    BY <2>4
  <2> QED
    BY <2>4, <2>5, <2>7, <2>8, <2>9 DEF Less
<1> QED
  BY <1>1, <1>2

\* A link to a packet that waits for the slot.
Attached(s, link) ==
    /\ link = Link(link.packet, link.slot)
    /\ link.packet \in DOMAIN s.packets
    /\ link.slot \in RetransmitSlots(s.packets[link.packet])

\* A link is attached where a packet waits for some session at its slot.
LEMMA AttachedFacts ==
    ASSUME NEW s, NEW link
    PROVE  /\ \A x, p, y : Waits(s, x, p, y) /\ link = Link(p, y) => Attached(s, link)
           /\ Attached(s, link) => \E x : Waits(s, x, link.packet, link.slot)
  BY LinkParts DEF Attached, Waits

\* What is taken out is no longer attached, everything else is.
LEMMA AttachedLess ==
    ASSUME NEW s, NEW u, NEW L, Less(s, u, L), NEW link, Attached(s, link), link \notin L
    PROVE  Attached(u, link)
<1>1. PICK x : Waits(s, x, link.packet, link.slot)
  BY AttachedFacts
<1>2. Waits(u, x, link.packet, link.slot)
  BY <1>1 DEF Less, Attached
<1> QED
  BY <1>2, AttachedFacts DEF Attached

\* The first n links of a chain.
LinksUpTo(chain, n) == {chain[k] : k \in 1..n}

\* A session is taken out of the packets of (a part of) its chain.
LEMMA FlushMemory ==
    ASSUME NEW s, Memory(s), NEW chain, Len(chain) \in Nat,
           \A k \in 1..Len(chain) : Attached(s, chain[k]),
           \A j, k \in 1..Len(chain) : chain[j] = chain[k] => j = k,
           NEW u, u = FlushChain(s, chain)
    PROVE  Less(s, u, LinksUpTo(chain, Len(chain)))
<1> DEFINE n == Len(chain)
           Step(f, m) == [k \in 0..m |-> IF k = 0 THEN s ELSE Disassociate(f[k - 1], chain[k])]
           after == CHOOSE f : f = Step(f, n)
<1>1. \E f : f = Step(f, n)
  <2> DEFINE S == {m \in Nat : \E f : f = Step(f, m)}
  <2>1. 0 \in S
    <3>1. [k \in 0..0 |-> s] = Step([k \in 0..0 |-> s], 0)
      OBVIOUS
    <3> QED
      BY <3>1
  <2>2. ASSUME NEW m \in Nat, m \in S PROVE m + 1 \in S
    <3>1. PICK f : f = Step(f, m)
      BY <2>2
    <3> DEFINE g == [k \in 0..m + 1 |-> IF k = 0 THEN s ELSE Disassociate(f[k - 1], chain[k])]
    <3>2. \A k \in 0..m : f[k] = g[k]
      BY <3>1
    <3>3. \A k \in 0..m + 1 : g[k] = Step(g, m + 1)[k]
      <4> TAKE k \in 0..m + 1
      <4>1. CASE k = 0
        BY <4>1
      <4>2. CASE k # 0
        <5>1. k - 1 \in 0..m
          BY <4>2
        <5> QED
          BY <3>2, <4>2, <5>1
      <4> QED
        BY <4>1, <4>2
    <3>4. g = Step(g, m + 1)
      BY <3>3
    <3> HIDE DEF g, Step
    <3> QED
      BY <3>4
  <2>3. Nat \subseteq S
    <3> HIDE DEF S
    <3> QED
      BY <2>1, <2>2, NatInductionSet
  <2> QED
    BY <2>3
<1>2. after = Step(after, n)
  <2> HIDE DEF Step
  <2> QED
    BY <1>1
<1>3. u = after[n]
  BY DEF FlushChain
<1> HIDE DEF after
<1>4. after[0] = s /\ \A k \in 1..n : after[k] = Disassociate(after[k - 1], chain[k])
  <2>1. n \in Nat
    OBVIOUS
  <2> HIDE DEF n
  <2> QED
    BY <1>2, <2>1
<1> DEFINE S == {m \in Nat : m <= n => Less(s, after[m], LinksUpTo(chain, m))}
<1>5. 0 \in S
  <2>1. LinksUpTo(chain, 0) = {}
    BY DEF LinksUpTo
  <2> QED
    BY <1>4, <2>1, LessNothing
<1>6. ASSUME NEW m \in Nat, m \in S PROVE m + 1 \in S
  <2> SUFFICES ASSUME m + 1 <= n PROVE Less(s, after[m + 1], LinksUpTo(chain, m + 1))
    OBVIOUS
  <2>1. /\ n \in Nat /\ m + 1 \in 1..n /\ (m + 1) - 1 = m /\ \A k \in 1..m : k \in 1..n /\ k # m + 1
        /\ m <= n
    OBVIOUS
  <2> DEFINE link == chain[m + 1]
             v    == after[m]
             w    == after[m + 1]
             L    == LinksUpTo(chain, m)
  <2>2. Less(s, v, L) /\ Attached(s, link) /\ w = Disassociate(v, link)
    BY <1>4, <1>6, <2>1
  <2>3. link \notin L
    BY <2>1 DEF LinksUpTo
  <2>4. LinksUpTo(chain, m + 1) = L \cup {link}
    <3>1. \A k : k \in 1..m + 1 <=> k \in 1..m \/ k = m + 1
      BY <2>1
    <3> QED
      BY <3>1 DEF LinksUpTo
  <2> HIDE DEF link, v, w, L
  <2>5. Attached(v, link) /\ Memory(v)
    BY <2>2, <2>3, AttachedLess DEF Less
  <2> DEFINE p == link.packet
             y == link.slot
  <2>6. p \in DOMAIN v.packets /\ y \in RetransmitSlots(v.packets[p]) /\ w = Disassociate(v, Link(p, y))
        /\ link = Link(p, y)
    BY <2>2, <2>5 DEF Attached
  <2>7. Less(v, w, {link})
    <3> HIDE DEF p, y
    <3> QED
      BY <2>5, <2>6, DisassociateMemory
  <2>8. Less(s, w, L \cup {link})
    BY <2>2, <2>7, LessTwice
  <2> QED
    BY <2>4, <2>8 DEF w
<1>7. Nat \subseteq S
  <2> HIDE DEF S
  <2> QED
    BY <1>5, <1>6, NatInductionSet
<1>8. Less(s, after[n], LinksUpTo(chain, n))
  BY <1>7
<1> QED
  BY <1>3, <1>8

-------------------------------------------------------------------------------
(***************************************************************************)
(* The packet at the head of the queue.                                    *)
(***************************************************************************)

\* Packet p is ahead of all others.
Leads(queue, P, p) == p \in P /\ \A q \in P : q # p => Precedes(queue, p, q)

\* The packet at the head of the queue is the one that is ahead of all others.
LEMMA HeadLeads ==
    ASSUME NEW q, NEW P, Listing(q, P)
    PROVE  /\ q # <<>> => Leads(q, P, Head(q))
           /\ \A p : Leads(q, P, p) => q # <<>> /\ Head(q) = p
<1>1. q \in Seq(Packets) /\ Len(q) \in Nat
  BY DEF Listing
<1>2. ASSUME q # <<>> PROVE Leads(q, P, Head(q)) /\ Head(q) = q[1]
  <2>1. Head(q) = q[1] /\ 1 \in 1..Len(q)
    BY <1>1, <1>2
  <2>2. \A a \in 1..Len(q) : a # 1 => 1 < a
    BY <1>1
  <2>3. q[1] \in P /\ \A x \in P : \E a \in 1..Len(q) : q[a] = x
    BY <2>1 DEF Listing
  <2>4. \A x \in P : x # q[1] => Precedes(q, q[1], x)
    BY <2>1, <2>2, <2>3 DEF Precedes
  <2> QED
    BY <2>1, <2>3, <2>4 DEF Leads
<1>3. ASSUME NEW p, Leads(q, P, p) PROVE q # <<>> /\ Head(q) = p
  <2>1. p \in P
    BY <1>3 DEF Leads
  <2>2. q # <<>>
    BY <1>1, <2>1 DEF Listing
  <2>3. Head(q) \in P /\ ~ Precedes(q, p, Head(q))
    BY <2>2, QueueTail
  <2> QED
    BY <1>3, <2>2, <2>3 DEF Leads
<1> QED
  BY <1>2, <1>3

\* It stays there while it waits for anyone.
LEMMA LeadsKept ==
    ASSUME NEW s, NEW u, NEW L, Less(s, u, L), NEW p, p \in DOMAIN u.packets,
           Leads(s.queue, DOMAIN s.packets, p)
    PROVE  Leads(u.queue, DOMAIN u.packets, p)
  BY DEF Less, Preserved, SameOrder, Leads

\* Nothing but one packet changes.
LEMMA PacketReplaced ==
    ASSUME NEW s, Memory(s), NEW p \in DOMAIN s.packets, NEW packet, PacketGood(packet),
           NEW u, u = [s EXCEPT !.packets = [@ EXCEPT ![p] = packet]]
    PROVE  /\ Memory(u) /\ SameTable(s, u) /\ u.queue = s.queue /\ u.queue_tail = s.queue_tail
           /\ DOMAIN u.packets = DOMAIN s.packets /\ u.packets[p] = packet
           /\ \A q \in DOMAIN s.packets : q # p => u.packets[q] = s.packets[q]
<1>1. DOMAIN s = ServerFields
  BY DEF Memory
<1>2. /\ DOMAIN u = ServerFields /\ SameTable(s, u)
      /\ u.queue = s.queue /\ u.queue_tail = s.queue_tail
      /\ DOMAIN u.packets = DOMAIN s.packets /\ u.packets[p] = packet
      /\ \A q \in DOMAIN s.packets : q # p => u.packets[q] = s.packets[q]
  BY <1>1 DEF SameTable, ServerFields
<1> QED
  BY <1>1, <1>2 DEF Memory

\* The packet at the head goes to the end of the queue.
LEMMA RequeueMemory ==
    ASSUME NEW s, Memory(s), s.queue # <<>>, NEW p, p = Head(s.queue),
           NEW u, u = Requeue(s, p)
    PROVE  /\ Memory(u) /\ SameTable(s, u) /\ u.packets = s.packets
           /\ p \in DOMAIN s.packets
           /\ SameOrder(s.queue, u.queue, DOMAIN s.packets \ {p})
           /\ \A q \in DOMAIN s.packets : q # p => Precedes(u.queue, q, p)
           /\ \A q : ~ Precedes(s.queue, q, p)
<1>1. DOMAIN s = ServerFields
  BY DEF Memory
<1>2. /\ DOMAIN u = ServerFields /\ SameTable(s, u) /\ u.packets = s.packets
      /\ u.queue = Append(Tail(s.queue), p) /\ u.queue_tail = p
  BY <1>1 DEF Requeue, SameTable, ServerFields
<1> DEFINE q == s.queue
           P == DOMAIN s.packets
           t == Tail(q)
           r == u.queue
<1>3. Listing(q, P) /\ q # <<>> /\ t = Tail(q) /\ p = Head(q) /\ r = Append(t, p)
      /\ P \subseteq Packets
  BY <1>2 DEF Memory
<1> HIDE DEF q, P, t, r
<1>4. /\ Listing(t, P \ {p}) /\ p \in P /\ SameOrder(q, t, P \ {p})
      /\ \A x : ~ Precedes(q, x, p)
  BY <1>3, QueueTail
<1>5. p \in Packets /\ p \notin P \ {p} /\ (P \ {p}) \cup {p} = P
  BY <1>3, <1>4
<1>6. /\ Listing(r, (P \ {p}) \cup {p}) /\ SameOrder(t, r, P \ {p})
      /\ \A x \in P \ {p} : Precedes(r, x, p)
      /\ Len(r) # 0 /\ r[Len(r)] = p
  BY <1>3, <1>4, <1>5, QueueAppended
<1>7. SameOrder(q, r, P \ {p})
  BY <1>4, <1>6 DEF SameOrder
<1>8. Memory(u)
  BY <1>1, <1>2, <1>5, <1>6 DEF Memory, r, P
<1> QED
  BY <1>2, <1>4, <1>6, <1>7, <1>8 DEF q, r, P

\* The packet at the head is freed; queue_tail stays.
LEMMA PopMemory ==
    ASSUME NEW s, Memory(s), s.queue # <<>>, NEW p, p = Head(s.queue),
           NEW u, DOMAIN u = DOMAIN s, SameTable(s, u),
           u.packets = Restrict(s.packets, DOMAIN s.packets \ {p}),
           u.queue = Tail(s.queue), u.queue_tail = s.queue_tail
    PROVE  /\ Memory(u)
           /\ DOMAIN u.packets = DOMAIN s.packets \ {p} /\ Preserved(s, u, DOMAIN u.packets)
           /\ \A x, q, y : Waits(u, x, q, y) <=> Waits(s, x, q, y) /\ q # p
<1> DEFINE q == s.queue
           P == DOMAIN s.packets
           r == u.queue
<1>1. Listing(q, P) /\ q # <<>> /\ r = Tail(q) /\ p = Head(q) /\ P \subseteq Packets
  BY DEF Memory
<1>2. DOMAIN u.packets = P \ {p} /\ \A x \in P \ {p} : u.packets[x] = s.packets[x]
  BY DEF Restrict
<1>3. Len(q) \in Nat /\ (q = <<>> <=> Len(q) = 0)
  BY MemoryFacts
<1> HIDE DEF q, P, r
<1>4. /\ Listing(r, P \ {p}) /\ p \in P /\ SameOrder(q, r, P \ {p})
      /\ Len(r) # 0 => r[Len(r)] = q[Len(q)]
  BY <1>1, QueueTail
<1>5. Memory(u)
  BY <1>1, <1>2, <1>3, <1>4 DEF Memory, q, r, P
<1>6. \A x \in P \ {p} : SameContent(s.packets[x], u.packets[x])
  <2> TAKE x \in P \ {p}
  <2>1. u.packets[x] = s.packets[x] /\ s.packets[x].sessions_remaining \in Nat
    BY <1>2, PacketFacts DEF Memory, P
  <2> QED
    BY <2>1 DEF SameContent
<1>7. Preserved(s, u, DOMAIN u.packets)
  BY <1>2, <1>4, <1>6 DEF Preserved, q, r, P
<1>8. \A x, a, y : Waits(u, x, a, y) <=> Waits(s, x, a, y) /\ a # p
  BY <1>2 DEF Waits, P
<1> QED
  BY <1>2, <1>5, <1>7, <1>8 DEF P

\* All packets are freed.
LEMMA ReleaseQueueMemory ==
    ASSUME NEW s, Memory(s), NEW u, u = ReleaseQueue(s)
    PROVE  /\ Memory(u) /\ SameTable(s, u) /\ DOMAIN u.packets = {}
           /\ s.queue # <<>> => u.queue_tail = NoPacket
           /\ \A x, q, y : ~ Waits(u, x, q, y)
<1>1. DOMAIN s = ServerFields /\ s.queue_tail \in Packets \cup {NoPacket}
  BY DEF Memory
<1>2. /\ DOMAIN u = ServerFields /\ SameTable(s, u)
      /\ u.packets = [p \in {} |-> p] /\ u.queue = <<>>
      /\ u.queue_tail = IF s.queue = <<>> THEN s.queue_tail ELSE NoPacket
  BY <1>1 DEF ReleaseQueue, SameTable, ServerFields
<1>3. DOMAIN u.packets = {}
  BY <1>2
<1>4. Listing(u.queue, {})
  BY <1>2 DEF Listing
<1>5. Memory(u)
  BY <1>1, <1>2, <1>3, <1>4 DEF Memory
<1> QED
  BY <1>2, <1>3, <1>5 DEF Waits

-------------------------------------------------------------------------------
(***************************************************************************)
(* A chain.                                                                *)
(***************************************************************************)

\* Packet q was sent before p: it is ahead in the queue, unless it was sent again
\* more often.
Before(s, q, p) ==
    \/ s.packets[q].resends < s.packets[p].resends
    \/ s.packets[q].resends = s.packets[p].resends /\ Precedes(s.queue, q, p)

\* A chain has each packet once, oldest first.
Ordered(s, chain) ==
    /\ \A j, k \in 1..Len(chain) : chain[j].packet = chain[k].packet => j = k
    /\ \A j, k \in 1..Len(chain) : j < k => Before(s, chain[j].packet, chain[k].packet)

\* The chain of a connected session: its latest packets, numbered one by one.
Numbered(s, chain, remote_id) ==
    \A k \in 1..Len(chain) :
        /\ s.packets[chain[k].packet].flags = "none"
        /\ k = Len(chain) => LinkSlot(s, chain[k]).remote_id = remote_id
        /\ k # Len(chain) => LinkSlot(s, chain[k + 1]).remote_id
                                = NextRemoteId(LinkSlot(s, chain[k]).remote_id)

IsOpening(e) == e.send_id # e.session_id

\* The chain of a session in a handshake: one packet, which the session does not
\* share while its handshake opens.
Alone(s, e) ==
    /\ Len(e.chain) = 1
    /\ LinkSlot(s, e.chain[1]).remote_id = 0
    /\ IsOpening(e) => /\ s.packets[e.chain[1].packet].flags = "none"
                       /\ s.packets[e.chain[1].packet].sessions_remaining = 1
    /\ ~ IsOpening(e) => s.packets[e.chain[1].packet].flags = "closing"

Chained(s, x) ==
    LET e == Entry(s, x)
    IN  /\ Ordered(s, e.chain)
        /\ x \in ConnectedIds(s) => Numbered(s, e.chain, e.remote_id)
        /\ x \notin ConnectedIds(s) => Alone(s, e)

-------------------------------------------------------------------------------
(***************************************************************************)
(* The invariant.                                                          *)
(***************************************************************************)

InChain(chain, link) == \E k \in 1..Len(chain) : chain[k] = link

\* Session x has packet p in its chain, and the slot y in it.
Holds(s, x, p, y) == x \in LiveIds(s) /\ InChain(Entry(s, x).chain, Link(p, y))

\* The sessions other than those of X wait for the packets of their chains, in order.
Proper(s, X) ==
    /\ Good(s, Sessions)
    /\ Memory(s)
    /\ \A x \in LiveIds(s) \ X : Chained(s, x)
    /\ \A x, p, y : x \notin X => (Waits(s, x, p, y) <=> Holds(s, x, p, y))

\* A server that closes has only sessions in their closing handshakes.
OnlyClosing(s) ==
    \A x \in LiveIds(s) : x \notin ConnectedIds(s) /\ ~ IsOpening(Entry(s, x))

Flags(s) ==
    /\ s.session_id_last \in SessionIds
    /\ s.closing \in BOOLEAN
    /\ s.closing => OnlyClosing(s)
    /\ LiveIds(s) # {} => Packets # {}

Consistent(s) == Proper(s, {}) /\ Flags(s)

Failures == {"none", "atem_session_create", "atem_cache_update", "atem_server_flush",
             "atem_packet_broadcast_close"}

Inv == Consistent(server) /\ failed \in Failures

-------------------------------------------------------------------------------
(***************************************************************************)
(* Sessions and their chains.                                              *)
(***************************************************************************)

\* The sessions of the server are session records.
LEMMA SessionsEntries == Entries(Sessions)
  BY IdsFacts DEF Entries, Sessions, Settled

\* What is known of a session and its chain.
LEMMA EntryOf ==
    ASSUME NEW s, Good(s, Sessions), NEW x \in LiveIds(s),
           NEW e, e = Entry(s, x), NEW chain, chain = Entry(s, x).chain
    PROVE  /\ e \in Sessions /\ e.session_id = x /\ x \in SessionIds
           /\ s.lookup[x] \in Indexes(s) /\ s.sessions[s.lookup[x]] = e
           /\ chain \in Seq(Links) /\ Len(chain) \in Nat
           /\ \A k \in 1..Len(chain) :
                 /\ chain[k] \in Links
                 /\ chain[k] = Link(chain[k].packet, chain[k].slot)
<1>1. e \in Sessions /\ e.session_id = x /\ s.lookup[x] \in Indexes(s)
  BY SessionsEntries, EntryFound
<1>2. chain \in Seq(Links) /\ x \in SessionIds
  BY <1>1 DEF Sessions
<1>3. Len(chain) \in Nat /\ \A k \in 1..Len(chain) : chain[k] \in Links
  BY <1>2
<1>4. \A l \in Links : l = Link(l.packet, l.slot)
  BY DEF Links, Link
<1> QED
  BY <1>1, <1>2, <1>3, <1>4 DEF Entry

\* The session at an index.
LEMMA AtIndex ==
    ASSUME NEW s, Good(s, Sessions), NEW i \in Indexes(s), NEW x, x = s.sessions[i].session_id
    PROVE  /\ x \in LiveIds(s) /\ s.lookup[x] = i /\ Entry(s, x) = s.sessions[i]
           /\ x \in ConnectedIds(s) <=> Connected(s, i)
           /\ IsOpening(Entry(s, x)) <=> Opening(s, i)
<1>1. /\ x \in LiveIds(s) /\ s.lookup[x] = i /\ Entry(s, x) = s.sessions[i]
      /\ x \in ConnectedIds(s) <=> Connected(s, i)
  BY SessionsEntries, EntryFound
<1> QED
  BY <1>1 DEF IsOpening, Opening

\* A packet waits for the session at every link of its chain.
LEMMA ChainWaits ==
    ASSUME NEW s, NEW X, Proper(s, X), NEW x \in LiveIds(s) \ X,
           NEW chain, chain = Entry(s, x).chain
    PROVE  /\ chain \in Seq(Links) /\ Len(chain) \in Nat
           /\ \A k \in 1..Len(chain) :
                 /\ chain[k] = Link(chain[k].packet, chain[k].slot)
                 /\ Waits(s, x, chain[k].packet, chain[k].slot)
                 /\ Attached(s, chain[k])
                 /\ chain[k].packet \in DOMAIN s.packets
           /\ \A j, k \in 1..Len(chain) : chain[j].packet = chain[k].packet => j = k
<1>1. Good(s, Sessions)
  BY DEF Proper
<1>2. /\ chain \in Seq(Links) /\ Len(chain) \in Nat
      /\ \A k \in 1..Len(chain) : chain[k] = Link(chain[k].packet, chain[k].slot)
  BY <1>1, EntryOf
<1>3. \A k \in 1..Len(chain) : Holds(s, x, chain[k].packet, chain[k].slot)
  BY <1>2 DEF Holds, InChain
<1>4. \A k \in 1..Len(chain) : Waits(s, x, chain[k].packet, chain[k].slot)
  BY <1>3 DEF Proper
<1>5. \A k \in 1..Len(chain) : Attached(s, chain[k]) /\ chain[k].packet \in DOMAIN s.packets
  BY <1>2, <1>4 DEF Attached, Waits
<1>6. \A j, k \in 1..Len(chain) : chain[j].packet = chain[k].packet => j = k
  BY DEF Proper, Chained, Ordered
<1> QED
  BY <1>2, <1>4, <1>5, <1>6

\* The packets of P are what their sessions take them for, in the same order.
Carries(s, u, P) ==
    /\ \A p \in P : /\ u.packets[p].flags = s.packets[p].flags
                    /\ u.packets[p].slots = s.packets[p].slots
                    /\ s.packets[p].sessions_remaining = 1 => u.packets[p].sessions_remaining = 1
    /\ \A p, q \in P : Before(s, q, p) => Before(u, q, p)

\* As are packets that are preserved.
LEMMA PreservedCarries ==
    ASSUME NEW s, NEW u, Memory(s), Memory(u), NEW P, Preserved(s, u, P)
    PROVE  Carries(s, u, P)
<1>1. \A p \in P : /\ u.packets[p].flags = s.packets[p].flags
                   /\ u.packets[p].resends = s.packets[p].resends
                   /\ u.packets[p].slots = s.packets[p].slots
                   /\ u.packets[p].sessions_remaining <= s.packets[p].sessions_remaining
                   /\ u.packets[p].sessions_remaining \in Nat
                   /\ u.packets[p].sessions_remaining >= 1
  BY PacketFacts DEF Preserved, SameContent, Memory
<1>2. \A p, q \in P : Before(s, q, p) => Before(u, q, p)
  BY <1>1 DEF Before, Preserved, SameOrder
<1>3. \A p \in P : s.packets[p].sessions_remaining = 1 => u.packets[p].sessions_remaining = 1
  BY <1>1
<1> QED
  BY <1>1, <1>2, <1>3 DEF Carries

\* A chain is what it was where its packets are carried.
LEMMA ChainCarried ==
    ASSUME NEW s, NEW u, NEW P, Carries(s, u, P),
           NEW chain, chain \in Seq(Links), \A k \in 1..Len(chain) : chain[k].packet \in P
    PROVE  /\ Ordered(s, chain) => Ordered(u, chain)
           /\ \A remote_id : Numbered(s, chain, remote_id) => Numbered(u, chain, remote_id)
           /\ \A e : e.chain = chain /\ Alone(s, e) => Alone(u, e)
<1>1. \A p \in P : /\ u.packets[p].flags = s.packets[p].flags
                   /\ u.packets[p].slots = s.packets[p].slots
                   /\ s.packets[p].sessions_remaining = 1 => u.packets[p].sessions_remaining = 1
  BY DEF Carries
<1>2. \A k \in 1..Len(chain) : LinkSlot(u, chain[k]) = LinkSlot(s, chain[k])
  BY <1>1 DEF LinkSlot
<1>3. ASSUME Ordered(s, chain) PROVE Ordered(u, chain)
  <2>1. \A p, q \in P : Before(s, q, p) => Before(u, q, p)
    BY DEF Carries
  <2> QED
    BY <1>3, <2>1 DEF Ordered
<1>4. ASSUME NEW remote_id, Numbered(s, chain, remote_id) PROVE Numbered(u, chain, remote_id)
  <2>1. Len(chain) \in Nat /\ \A k \in 1..Len(chain) : k # Len(chain) => k + 1 \in 1..Len(chain)
    OBVIOUS
  <2> QED
    BY <1>1, <1>2, <1>4, <2>1 DEF Numbered
<1>5. ASSUME NEW e, e.chain = chain, Alone(s, e) PROVE Alone(u, e)
  <2>1. Len(chain) = 1 /\ 1 \in 1..Len(chain)
    BY <1>5 DEF Alone
  <2> DEFINE p == chain[1].packet
  <2>2. p \in P
    BY <2>1
  <2>3. s.packets[p].sessions_remaining = 1 => u.packets[p].sessions_remaining = 1
    BY <1>1, <2>2
  <2>4. LinkSlot(u, chain[1]) = LinkSlot(s, chain[1])
    BY <1>2, <2>1
  <2>5. u.packets[p].flags = s.packets[p].flags
    BY <1>1, <2>2
  <2> QED
    BY <1>5, <2>1, <2>3, <2>4, <2>5 DEF Alone
<1> QED
  BY <1>3, <1>4, <1>5

\* A chain is what it was where its packets are what they were.
LEMMA ChainKept ==
    ASSUME NEW s, NEW u, Memory(s), Memory(u), NEW P, Preserved(s, u, P),
           NEW chain, chain \in Seq(Links), \A k \in 1..Len(chain) : chain[k].packet \in P
    PROVE  /\ Ordered(s, chain) => Ordered(u, chain)
           /\ \A remote_id : Numbered(s, chain, remote_id) => Numbered(u, chain, remote_id)
           /\ \A e : e.chain = chain /\ Alone(s, e) => Alone(u, e)
<1>1. Carries(s, u, P)
  BY PreservedCarries
<1> QED
  BY <1>1, ChainCarried

\* The sessions other than those of X are the same, with the same chains.
Others(s, u, X) ==
    /\ LiveIds(u) \ X = LiveIds(s) \ X
    /\ \A x \in LiveIds(s) \ X : /\ Entry(u, x) = Entry(s, x)
                                 /\ x \in ConnectedIds(u) <=> x \in ConnectedIds(s)

\* They are proper as long as the packets that wait for them are carried.
LEMMA ProperCarried ==
    ASSUME NEW s, NEW u, NEW X, Proper(s, X), Good(u, Sessions), Memory(u), Others(s, u, X),
           NEW P, Carries(s, u, P),
           \A x, p, y : x \notin X => (Waits(u, x, p, y) <=> Waits(s, x, p, y)),
           \A x, p, y : x \notin X /\ Waits(s, x, p, y) => p \in P
    PROVE  Proper(u, X)
<1>1. \A x, p, y : x \notin X => (Holds(u, x, p, y) <=> Holds(s, x, p, y))
  BY DEF Holds, Others
<1>2. ASSUME NEW x \in LiveIds(u) \ X PROVE Chained(u, x)
  <2>1. x \in LiveIds(s) \ X /\ Chained(s, x) /\ Memory(s)
    BY <1>2 DEF Others, Proper
  <2> DEFINE e == Entry(s, x)
             chain == Entry(s, x).chain
  <2>2. /\ chain \in Seq(Links)
        /\ \A k \in 1..Len(chain) : Waits(s, x, chain[k].packet, chain[k].slot)
    <3> HIDE DEF chain
    <3> QED
      BY <2>1, ChainWaits DEF chain
  <2>3. \A k \in 1..Len(chain) : chain[k].packet \in P
    BY <2>1, <2>2
  <2>4. /\ Ordered(s, chain) => Ordered(u, chain)
        /\ \A remote_id : Numbered(s, chain, remote_id) => Numbered(u, chain, remote_id)
        /\ Alone(s, e) => Alone(u, e)
    <3>1. e.chain = chain
      OBVIOUS
    <3> HIDE DEF e, chain
    <3> QED
      BY <2>1, <2>2, <2>3, <3>1, ChainCarried
  <2>5. Entry(u, x) = e /\ (x \in ConnectedIds(u) <=> x \in ConnectedIds(s))
    BY <2>1 DEF Others
  <2> QED
    BY <2>1, <2>4, <2>5 DEF Chained
<1> QED
  BY <1>1, <1>2 DEF Proper

\* They are proper as long as the packets that wait for them are preserved.
LEMMA ProperKept ==
    ASSUME NEW s, NEW u, NEW X, Proper(s, X), Good(u, Sessions), Memory(u), Others(s, u, X),
           NEW P, Preserved(s, u, P),
           \A x, p, y : x \notin X => (Waits(u, x, p, y) <=> Waits(s, x, p, y)),
           \A x, p, y : x \notin X /\ Waits(s, x, p, y) => p \in P
    PROVE  Proper(u, X)
<1>1. Carries(s, u, P)
  BY PreservedCarries DEF Proper
<1> QED
  BY <1>1, ProperCarried

\* What is proper without some sessions is proper without more.
LEMMA ProperLoosened ==
    ASSUME NEW s, NEW X, NEW Y, Proper(s, X), X \subseteq Y
    PROVE  Proper(s, Y)
  BY DEF Proper

\* A session that fits is proper with the others.
LEMMA ProperWith ==
    ASSUME NEW s, NEW X, NEW Y, NEW x, Proper(s, Y), Y \subseteq X \cup {x},
           x \in LiveIds(s) => Chained(s, x),
           \A p, y : Waits(s, x, p, y) <=> Holds(s, x, p, y)
    PROVE  Proper(s, X)
<1>1. \A z : z \notin X => z = x \/ z \notin Y
  OBVIOUS
<1> QED
  BY <1>1 DEF Proper

-------------------------------------------------------------------------------
(***************************************************************************)
(* Steps that leave the sessions in their places.                          *)
(***************************************************************************)

\* The table has the same sessions under the same ids in the same places.
SamePlaces(s, u) ==
    /\ DOMAIN u = DOMAIN s
    /\ u.sessions_len = s.sessions_len /\ u.sessions_connected = s.sessions_connected
    /\ u.lookup = s.lookup
    /\ u.sessions \in [Indexes(s) -> Sessions]
    /\ \A i \in Indexes(s) : /\ u.sessions[i].session_id = s.sessions[i].session_id
                             /\ u.sessions[i].send_id = s.sessions[i].send_id

\* Then the ids, and which of them are connected, are the same.
LEMMA SamePlacesView ==
    ASSUME NEW s, Good(s, Sessions), NEW u, SamePlaces(s, u)
    PROVE  /\ Good(u, Sessions)
           /\ LiveIds(u) = LiveIds(s) /\ ConnectedIds(u) = ConnectedIds(s)
           /\ Indexes(u) = Indexes(s)
<1>1. Indexes(u) = Indexes(s) /\ u.lookup = s.lookup
      /\ \A i : Connected(u, i) <=> Connected(s, i)
  BY DEF Indexes, Connected, SamePlaces
<1>2. \A i \in Indexes(s) : /\ u.sessions[i].session_id = s.sessions[i].session_id
                            /\ u.sessions[i].send_id = s.sessions[i].send_id
                            /\ Opening(u, i) <=> Opening(s, i)
  BY DEF SamePlaces, Opening
<1>3. Shape(u, Sessions)
  BY <1>1 DEF Good, Shape, SamePlaces
<1>4. Registered(u)
  BY <1>1, <1>2 DEF Good, Registered
<1>5. SessionIdsLead(u)
  BY <1>1, <1>2 DEF Good, SessionIdsLead
<1>6. RequestIdsLead(u)
  BY <1>1, <1>2 DEF Good, RequestIdsLead
<1>7. Partitioned(u)
  BY <1>1, <1>2 DEF Good, Partitioned, SamePlaces
<1>8. LiveIds(u) = LiveIds(s) /\ ConnectedIds(u) = ConnectedIds(s)
  BY <1>1 DEF LiveIds, ConnectedIds
<1> QED
  BY <1>1, <1>3, <1>4, <1>5, <1>6, <1>7, <1>8 DEF Good

\* The table is the same altogether.
SameSessions(s, u) ==
    /\ DOMAIN u = DOMAIN s
    /\ u.sessions = s.sessions /\ u.sessions_len = s.sessions_len
    /\ u.sessions_connected = s.sessions_connected /\ u.lookup = s.lookup

\* Then all that is known of the sessions is the same.
LEMMA SameSessionsView ==
    ASSUME NEW s, Good(s, Sessions), NEW u, SameSessions(s, u)
    PROVE  /\ Good(u, Sessions)
           /\ LiveIds(u) = LiveIds(s) /\ ConnectedIds(u) = ConnectedIds(s)
           /\ Indexes(u) = Indexes(s)
           /\ \A x : Entry(u, x) = Entry(s, x)
           /\ \A i : /\ Connected(u, i) <=> Connected(s, i)
                     /\ Opening(u, i) <=> Opening(s, i)
           /\ \A X : Others(s, u, X)
<1>1. SamePlaces(s, u)
  BY DEF SameSessions, SamePlaces, Good, Shape
<1>2. /\ Good(u, Sessions)
      /\ LiveIds(u) = LiveIds(s) /\ ConnectedIds(u) = ConnectedIds(s)
      /\ Indexes(u) = Indexes(s)
  BY <1>1, SamePlacesView
<1>3. \A x : Entry(u, x) = Entry(s, x)
  BY DEF Entry, SameSessions
<1>4. \A i : (Connected(u, i) <=> Connected(s, i)) /\ (Opening(u, i) <=> Opening(s, i))
  BY DEF Connected, Opening, SameSessions
<1>5. \A X : Others(s, u, X)
  BY <1>2, <1>3 DEF Others
<1> QED
  BY <1>2, <1>3, <1>4, <1>5

\* Where only packets and their queue change, the table is the same.
LEMMA SameTableSessions ==
    ASSUME NEW s, NEW u, SameTable(s, u)
    PROVE  SameSessions(s, u) /\ u.session_id_last = s.session_id_last /\ u.closing = s.closing
  BY DEF SameTable, SameSessions

\* Session x at index i is written, under the ids it has.
Written(s, u, i, x, e) ==
    /\ i \in Indexes(s) /\ x = s.sessions[i].session_id
    /\ e \in Sessions /\ e.session_id = x /\ e.send_id = s.sessions[i].send_id
    /\ u = [s EXCEPT !.sessions = [@ EXCEPT ![i] = e]]

\* Nothing but that session changes.
LEMMA WrittenView ==
    ASSUME NEW s, Good(s, Sessions), NEW i, NEW x, NEW e, NEW u, Written(s, u, i, x, e)
    PROVE  /\ Good(u, Sessions) /\ DOMAIN u = DOMAIN s
           /\ LiveIds(u) = LiveIds(s) /\ ConnectedIds(u) = ConnectedIds(s)
           /\ x \in LiveIds(s) /\ Entry(u, x) = e
           /\ \A z \in LiveIds(s) : z # x => Entry(u, z) = Entry(s, z)
           /\ u.lookup = s.lookup /\ u.sessions_connected = s.sessions_connected
           /\ u.sessions_len = s.sessions_len /\ u.sessions[i] = e
           /\ u.packets = s.packets /\ u.queue = s.queue /\ u.queue_tail = s.queue_tail
           /\ u.session_id_last = s.session_id_last /\ u.closing = s.closing
<1>0. /\ i \in Indexes(s) /\ x = s.sessions[i].session_id
      /\ e \in Sessions /\ e.session_id = x /\ e.send_id = s.sessions[i].send_id
  BY DEF Written
<1>1. Fields \subseteq DOMAIN s /\ s.sessions \in [Indexes(s) -> Sessions]
  BY DEF Good, Shape
<1>2. /\ DOMAIN u = DOMAIN s
      /\ u.sessions_len = s.sessions_len /\ u.sessions_connected = s.sessions_connected
      /\ u.lookup = s.lookup
      /\ u.packets = s.packets /\ u.queue = s.queue /\ u.queue_tail = s.queue_tail
      /\ u.session_id_last = s.session_id_last /\ u.closing = s.closing
      /\ u.sessions = [s.sessions EXCEPT ![i] = e]
  BY <1>1 DEF Fields, Written
<1>3. /\ u.sessions \in [Indexes(s) -> Sessions] /\ u.sessions[i] = e
      /\ \A j \in Indexes(s) : j # i => u.sessions[j] = s.sessions[j]
  BY <1>0, <1>1, <1>2
<1>4. SamePlaces(s, u)
  BY <1>0, <1>2, <1>3 DEF SamePlaces
<1>5. Good(u, Sessions) /\ LiveIds(u) = LiveIds(s) /\ ConnectedIds(u) = ConnectedIds(s)
  BY <1>4, SamePlacesView
<1>6. x \in LiveIds(s) /\ s.lookup[x] = i
  BY <1>0, AtIndex
<1>7. Entry(u, x) = e
  BY <1>2, <1>3, <1>6 DEF Entry
<1>8. ASSUME NEW z \in LiveIds(s), z # x PROVE Entry(u, z) = Entry(s, z)
  <2>1. s.lookup[z] \in Indexes(s) /\ Entry(s, z).session_id = z
    BY <1>8, EntryOf
  <2>2. s.lookup[z] # i
    BY <1>0, <1>8, <2>1 DEF Entry
  <2> QED
    BY <1>2, <1>3, <2>1, <2>2 DEF Entry
<1> QED
  BY <1>2, <1>3, <1>5, <1>6, <1>7, <1>8

SetChain(s, i, chain) == [s EXCEPT !.sessions[i].chain = chain]

\* Only the chain of a session is written.
LEMMA ChainWritten ==
    ASSUME NEW s, Good(s, Sessions), NEW i \in Indexes(s), NEW x, x = s.sessions[i].session_id,
           NEW chain \in Seq(Links),
           NEW u, u = SetChain(s, i, chain)
    PROVE  /\ Good(u, Sessions) /\ DOMAIN u = DOMAIN s
           /\ LiveIds(u) = LiveIds(s) /\ ConnectedIds(u) = ConnectedIds(s)
           /\ x \in LiveIds(s) /\ Entry(u, x) = [Entry(s, x) EXCEPT !.chain = chain]
           /\ Entry(u, x).chain = chain /\ Entry(u, x).remote_id = Entry(s, x).remote_id
           /\ Entry(u, x).session_id = x
           /\ IsOpening(Entry(u, x)) <=> IsOpening(Entry(s, x))
           /\ \A z \in LiveIds(s) : z # x => Entry(u, z) = Entry(s, z)
           /\ u.lookup = s.lookup /\ u.sessions_connected = s.sessions_connected
           /\ u.sessions_len = s.sessions_len
           /\ u.packets = s.packets /\ u.queue = s.queue /\ u.queue_tail = s.queue_tail
           /\ u.session_id_last = s.session_id_last /\ u.closing = s.closing
<1>1. x \in LiveIds(s) /\ Entry(s, x) = s.sessions[i] /\ s.sessions[i] \in Sessions
  BY AtIndex DEF Good, Shape
<1>2. PICK e \in Sessions :
           /\ e = [Entry(s, x) EXCEPT !.chain = chain]
           /\ e.session_id = x /\ e.send_id = s.sessions[i].send_id
           /\ e.chain = chain /\ e.remote_id = s.sessions[i].remote_id
           /\ Written(s, u, i, x, e)
  <2> DEFINE e == [s.sessions[i] EXCEPT !.chain = chain]
  <2>1. /\ e \in Sessions /\ e.session_id = x /\ e.send_id = s.sessions[i].send_id
        /\ e.chain = chain /\ e.remote_id = s.sessions[i].remote_id
    BY <1>1 DEF Sessions
  <2>2. Written(s, u, i, x, e)
    BY <2>1 DEF Written, SetChain
  <2>3. e = [Entry(s, x) EXCEPT !.chain = chain]
    BY <1>1
  <2> QED
    BY <2>1, <2>2, <2>3
<1>3. Written(s, u, i, x, e)
  BY <1>2
<1>4. IsOpening(e) <=> IsOpening(s.sessions[i])
  BY <1>2 DEF IsOpening
<1>6. /\ Good(u, Sessions) /\ DOMAIN u = DOMAIN s
      /\ LiveIds(u) = LiveIds(s) /\ ConnectedIds(u) = ConnectedIds(s)
      /\ Entry(u, x) = e
      /\ \A z \in LiveIds(s) : z # x => Entry(u, z) = Entry(s, z)
      /\ u.lookup = s.lookup /\ u.sessions_connected = s.sessions_connected
      /\ u.sessions_len = s.sessions_len
      /\ u.packets = s.packets /\ u.queue = s.queue /\ u.queue_tail = s.queue_tail
      /\ u.session_id_last = s.session_id_last /\ u.closing = s.closing
  BY <1>3, WrittenView
<1>7. /\ Entry(u, x).chain = chain /\ Entry(u, x).remote_id = Entry(s, x).remote_id
      /\ Entry(u, x).session_id = x
      /\ IsOpening(Entry(u, x)) <=> IsOpening(Entry(s, x))
  BY <1>1, <1>2, <1>4, <1>6
<1> QED
  BY <1>1, <1>2, <1>6, <1>7

-------------------------------------------------------------------------------
(***************************************************************************)
(* Steps that take sessions out of packets.                                *)
(***************************************************************************)

SamePackets(s, u) ==
    /\ DOMAIN u = DOMAIN s
    /\ u.packets = s.packets /\ u.queue = s.queue /\ u.queue_tail = s.queue_tail

\* The links of L are of sessions of X.
OnlyOf(s, L, X) == \A p, y : Link(p, y) \in L => \E x \in X : Waits(s, x, p, y)

\* Taking sessions of X out of packets leaves the others as they are.
LEMMA ProperLess ==
    ASSUME NEW s, NEW X, Proper(s, X), NEW L, NEW f, Less(s, f, L),
           OnlyOf(s, L, X),
           NEW u, SamePackets(f, u), Good(u, Sessions), Others(s, u, X)
    PROVE  /\ Proper(u, X)
           /\ Preserved(s, u, DOMAIN u.packets)
           /\ \A x, p, y : Waits(u, x, p, y) <=> Waits(s, x, p, y) /\ Link(p, y) \notin L
<1>1. Memory(f) /\ Memory(u) /\ \A x, p, y : Waits(u, x, p, y) <=> Waits(f, x, p, y)
  BY MemoryKept DEF Less, SamePackets
<1>2. \A x, p, y : Waits(u, x, p, y) <=> Waits(s, x, p, y) /\ Link(p, y) \notin L
  BY <1>1 DEF Less
<1>3. \A x, p, y : x \notin X /\ Waits(s, x, p, y) => Link(p, y) \notin L
  BY DEF Waits, OnlyOf
<1>4. \A x, p, y : x \notin X => (Waits(u, x, p, y) <=> Waits(s, x, p, y))
  BY <1>2, <1>3
<1>5. Preserved(s, u, DOMAIN u.packets)
  BY DEF Less, Preserved, SamePackets
<1>6. \A x, p, y : x \notin X /\ Waits(s, x, p, y) => p \in DOMAIN u.packets
  BY <1>4 DEF Waits
<1>7. Proper(u, X)
  BY <1>1, <1>4, <1>5, <1>6, ProperKept
<1> QED
  BY <1>2, <1>5, <1>7

Taken(chain, n)     == SubSeq(chain, 1, n)
Remaining(chain, n) == SubSeq(chain, n + 1, Len(chain))

\* A chain that has no packet twice, and the number of its first links.
Divided(chain, n) ==
    /\ chain \in Seq(Links) /\ n \in 0..Len(chain)
    /\ \A j, k \in 1..Len(chain) : chain[j].packet = chain[k].packet => j = k

\* The two parts of a chain: its links, their order and their numbers.
Parts(chain, n, taken, rest) ==
    /\ taken \in Seq(Links) /\ Len(taken) = n
    /\ \A k \in 1..n : k \in 1..Len(chain) /\ taken[k] = chain[k]
    /\ rest \in Seq(Links) /\ Len(rest) = Len(chain) - n /\ Len(rest) \in Nat
    /\ \A k \in 1..Len(rest) : k + n \in 1..Len(chain) /\ rest[k] = chain[k + n]
    /\ \A link : InChain(rest, link) <=>
          InChain(chain, link) /\ link \notin LinksUpTo(taken, Len(taken))
    /\ \A s : Ordered(s, chain) => Ordered(s, rest)
    /\ \A s, id : Numbered(s, chain, id) => Numbered(s, rest, id)

\* What is left of a chain without its first n links.
LEMMA ChainRest ==
    ASSUME NEW chain, NEW n, Divided(chain, n),
           NEW taken, taken = Taken(chain, n), NEW rest, rest = Remaining(chain, n)
    PROVE  Parts(chain, n, taken, rest)
<1>1. /\ chain \in Seq(Links) /\ Len(chain) \in Nat /\ n \in Nat /\ n <= Len(chain)
      /\ \A j, k \in 1..Len(chain) : chain[j].packet = chain[k].packet => j = k
  BY DEF Divided
<1>2. taken \in Seq(Links) /\ Len(taken) = n /\ \A k \in 1..n : taken[k] = chain[k]
  <2>1. \A k \in 1..n : k \in 1..Len(chain)
    BY <1>1
  <2>2. taken = [k \in 1..n |-> chain[k]]
    BY <1>1 DEF Taken
  <2> QED
    BY <1>1, <2>1, <2>2
<1>3. /\ rest \in Seq(Links) /\ Len(rest) = Len(chain) - n
      /\ \A k \in 1..Len(chain) - n : rest[k] = chain[k + n]
  BY <1>1 DEF Remaining
<1>4. /\ \A k \in 1..n : k \in 1..Len(chain)
      /\ \A k \in 1..Len(rest) : k + n \in 1..Len(chain) /\ k \in Nat
      /\ \A k \in 1..Len(chain) : k \in 1..n \/ (k - n \in 1..Len(rest) /\ (k - n) + n = k)
      /\ \A k \in 1..Len(rest), j \in 1..n : k + n # j
      /\ \A j, k \in 1..Len(rest) : (j + n = k + n => j = k) /\ (j < k => j + n < k + n)
      /\ \A k \in 1..Len(rest) : k = Len(rest) <=> k + n = Len(chain)
      /\ \A k \in 1..Len(rest) : k # Len(rest) => k + 1 \in 1..Len(rest) /\ (k + 1) + n = (k + n) + 1
  <2>1. PICK a \in Nat : a = Len(chain)
    BY <1>1
  <2>2. PICK b \in Nat : b = Len(rest) /\ b = a - n
    <3>1. a - n \in Nat
      BY <1>1, <2>1
    <3> QED
      BY <1>3, <2>1, <3>1
  <2>3. /\ \A k \in 1..n : k \in 1..a
        /\ \A k \in 1..b : k + n \in 1..a /\ k \in Nat
        /\ \A k \in 1..a : k \in 1..n \/ (k - n \in 1..b /\ (k - n) + n = k)
        /\ \A k \in 1..b, j \in 1..n : k + n # j
        /\ \A j, k \in 1..b : (j + n = k + n => j = k) /\ (j < k => j + n < k + n)
        /\ \A k \in 1..b : k = b <=> k + n = a
        /\ \A k \in 1..b : k # b => k + 1 \in 1..b /\ (k + 1) + n = (k + n) + 1
    BY <1>1, <2>1, <2>2
  <2> QED
    BY <2>1, <2>2, <2>3
<1>5. \A k \in 1..Len(rest) : rest[k] = chain[k + n]
  BY <1>3, <1>4
<1>6. ASSUME NEW link
      PROVE  InChain(rest, link) <=> InChain(chain, link) /\ link \notin LinksUpTo(taken, n)
  <2>1. ASSUME InChain(rest, link)
        PROVE  InChain(chain, link) /\ link \notin LinksUpTo(taken, n)
    <3>1. PICK k \in 1..Len(rest) : rest[k] = link
      BY <2>1 DEF InChain
    <3>2. k + n \in 1..Len(chain) /\ chain[k + n] = link
      BY <1>4, <1>5, <3>1
    <3>3. \A j \in 1..n : j \in 1..Len(chain) /\ chain[j] = taken[j] /\ j # k + n
      BY <1>2, <1>4
    <3>4. \A j \in 1..n : taken[j] # link
      BY <1>1, <3>2, <3>3
    <3> QED
      BY <3>2, <3>4 DEF InChain, LinksUpTo
  <2>2. ASSUME InChain(chain, link), link \notin LinksUpTo(taken, n)
        PROVE  InChain(rest, link)
    <3>1. PICK k \in 1..Len(chain) : chain[k] = link
      BY <2>2 DEF InChain
    <3>2. k \notin 1..n
      BY <1>2, <2>2, <3>1 DEF LinksUpTo
    <3>3. k - n \in 1..Len(rest) /\ (k - n) + n = k
      BY <1>4, <3>2
    <3>4. rest[k - n] = link
      BY <1>5, <3>1, <3>3
    <3> QED
      BY <3>3, <3>4 DEF InChain
  <2> QED
    BY <2>1, <2>2
<1>7. ASSUME NEW s, Ordered(s, chain) PROVE Ordered(s, rest)
  <2>1. ASSUME NEW j \in 1..Len(rest), NEW k \in 1..Len(rest), rest[j].packet = rest[k].packet
        PROVE  j = k
    <3>1. PICK a \in 1..Len(chain) : a = j + n /\ rest[j] = chain[a]
      BY <1>4, <1>5
    <3>2. PICK b \in 1..Len(chain) : b = k + n /\ rest[k] = chain[b]
      BY <1>4, <1>5
    <3>3. a = b
      BY <1>1, <2>1, <3>1, <3>2
    <3> QED
      BY <1>4, <3>1, <3>2, <3>3
  <2>2. ASSUME NEW j \in 1..Len(rest), NEW k \in 1..Len(rest), j < k
        PROVE  Before(s, rest[j].packet, rest[k].packet)
    <3>1. PICK a \in 1..Len(chain) : a = j + n /\ rest[j] = chain[a]
      BY <1>4, <1>5
    <3>2. PICK b \in 1..Len(chain) : b = k + n /\ rest[k] = chain[b]
      BY <1>4, <1>5
    <3>3. a < b
      BY <1>4, <2>2, <3>1, <3>2
    <3> QED
      BY <1>7, <3>1, <3>2, <3>3 DEF Ordered
  <2> QED
    BY <2>1, <2>2 DEF Ordered
<1>8. ASSUME NEW s, NEW id, Numbered(s, chain, id) PROVE Numbered(s, rest, id)
  <2> SUFFICES ASSUME NEW k \in 1..Len(rest)
               PROVE  /\ s.packets[rest[k].packet].flags = "none"
                      /\ k = Len(rest) => LinkSlot(s, rest[k]).remote_id = id
                      /\ k # Len(rest) => LinkSlot(s, rest[k + 1]).remote_id
                                             = NextRemoteId(LinkSlot(s, rest[k]).remote_id)
    BY DEF Numbered
  <2>1. k + n \in 1..Len(chain) /\ rest[k] = chain[k + n] /\ (k = Len(rest) <=> k + n = Len(chain))
    BY <1>4, <1>5
  <2>2. k # Len(rest) => rest[k + 1] = chain[(k + n) + 1]
    BY <1>4, <1>5
  <2> QED
    BY <1>8, <2>1, <2>2 DEF Numbered
<1> QED
  BY <1>2, <1>3, <1>4, <1>5, <1>6, <1>7, <1>8 DEF Parts

\* A chain is split into the links that are taken out of it and the rest.
Splits(chain, taken, rest) ==
    /\ taken \in Seq(Links) /\ rest \in Seq(Links)
    /\ \A k \in 1..Len(taken) : InChain(chain, taken[k])
    /\ \A j, k \in 1..Len(taken) : taken[j] = taken[k] => j = k
    /\ \A link : InChain(rest, link) <=>
          InChain(chain, link) /\ link \notin LinksUpTo(taken, Len(taken))

\* A session is taken out of packets of its chain.
LEMMA Flushed ==
    ASSUME NEW s, NEW X, Proper(s, X), NEW x \in LiveIds(s) \ X,
           NEW chain, chain = Entry(s, x).chain,
           NEW taken, NEW rest, Splits(chain, taken, rest),
           NEW L, L = LinksUpTo(taken, Len(taken)),
           NEW f, f = FlushChain(s, taken)
    PROVE  /\ Less(s, f, L)
           /\ \A p, y : Link(p, y) \in L => Waits(s, x, p, y)
           /\ \A p, y : Waits(f, x, p, y) <=> InChain(rest, Link(p, y))
<1>1. /\ chain \in Seq(Links)
      /\ \A k \in 1..Len(chain) : /\ Waits(s, x, chain[k].packet, chain[k].slot)
                                  /\ Attached(s, chain[k])
  BY ChainWaits
<1>2. \A k \in 1..Len(taken) : Attached(s, taken[k])
                            /\ Waits(s, x, taken[k].packet, taken[k].slot)
  BY <1>1 DEF Splits, InChain
<1>3. Len(taken) \in Nat /\ Memory(s)
  BY DEF Splits, Proper
<1>4. Less(s, f, L)
  BY <1>2, <1>3, FlushMemory DEF Splits
<1>5. ASSUME NEW p, NEW y, Link(p, y) \in L PROVE Waits(s, x, p, y)
  <2>1. PICK k \in 1..Len(taken) : taken[k] = Link(p, y)
    BY <1>5 DEF LinksUpTo
  <2> QED
    BY <1>2, <2>1, LinkParts
<1>6. \A p, y : Waits(s, x, p, y) <=> InChain(chain, Link(p, y))
  BY DEF Proper, Holds
<1>7. \A p, y : Waits(f, x, p, y) <=> Waits(s, x, p, y) /\ Link(p, y) \notin L
  BY <1>4 DEF Less
<1>8. \A p, y : Waits(f, x, p, y) <=> InChain(rest, Link(p, y))
  BY <1>6, <1>7 DEF Splits
<1> QED
  BY <1>4, <1>5, <1>8

\* The chain of session x at index i is left with the rest.
Rechain(s, u, i, x, taken, rest) ==
    /\ i \in Indexes(s) /\ x = s.sessions[i].session_id
    /\ Splits(Entry(s, x).chain, taken, rest)
    /\ u = SetChain(FlushChain(s, taken), i, rest)

\* Then packets wait for the session at the links of the rest, and for the others as
\* before.
LEMMA Rechained ==
    ASSUME NEW s, NEW X, Proper(s, X), NEW u, NEW i, NEW x, NEW taken, NEW rest,
           Rechain(s, u, i, x, taken, rest), x \notin X, NEW Y, X \subseteq Y, x \in Y
    PROVE  /\ Proper(u, Y) /\ Preserved(s, u, DOMAIN u.packets)
           /\ \A p \in DOMAIN s.packets : (\A k \in 1..Len(taken) : taken[k].packet # p) =>
                 p \in DOMAIN u.packets /\ u.packets[p] = s.packets[p]
           /\ DOMAIN u = DOMAIN s
           /\ LiveIds(u) = LiveIds(s) /\ ConnectedIds(u) = ConnectedIds(s)
           /\ Entry(u, x).chain = rest /\ Entry(u, x).remote_id = Entry(s, x).remote_id
           /\ Entry(u, x).session_id = x
           /\ IsOpening(Entry(u, x)) <=> IsOpening(Entry(s, x))
           /\ \A z \in LiveIds(s) : z # x => Entry(u, z) = Entry(s, z)
           /\ \A p, y : Waits(u, x, p, y) <=> Holds(u, x, p, y)
           /\ \A z, p, y : z # x => (Waits(u, z, p, y) <=> Waits(s, z, p, y))
           /\ u.lookup = s.lookup /\ u.sessions_connected = s.sessions_connected
           /\ u.sessions_len = s.sessions_len
           /\ u.session_id_last = s.session_id_last /\ u.closing = s.closing
<1> DEFINE f == FlushChain(s, taken)
           chain == Entry(s, x).chain
<1>00. /\ i \in Indexes(s) /\ x = s.sessions[i].session_id
       /\ Splits(chain, taken, rest) /\ u = SetChain(f, i, rest)
       /\ chain = Entry(s, x).chain /\ f = FlushChain(s, taken)
  BY DEF Rechain
<1> HIDE DEF f, chain
<1>0. Good(s, Sessions) /\ rest \in Seq(Links)
  BY <1>00 DEF Proper, Splits
<1>1. x \in LiveIds(s) \ X /\ Entry(s, x) = s.sessions[i]
  BY <1>0, <1>00, AtIndex
<1> DEFINE L == LinksUpTo(taken, Len(taken))
<1>2. /\ Less(s, f, L)
      /\ \A p, y : Link(p, y) \in L => Waits(s, x, p, y)
      /\ \A p, y : Waits(f, x, p, y) <=> InChain(rest, Link(p, y))
  <2> HIDE DEF L
  <2> QED
    BY <1>00, <1>1, Flushed DEF L
<1> HIDE DEF L
<1>3. SameSessions(s, f) /\ f.session_id_last = s.session_id_last /\ f.closing = s.closing
  BY <1>2, SameTableSessions DEF Less
<1>4. /\ Good(f, Sessions) /\ LiveIds(f) = LiveIds(s) /\ ConnectedIds(f) = ConnectedIds(s)
      /\ Indexes(f) = Indexes(s) /\ \A z : Entry(f, z) = Entry(s, z)
  BY <1>0, <1>3, SameSessionsView
<1>5. i \in Indexes(f) /\ x = f.sessions[i].session_id
  BY <1>00, <1>3, <1>4 DEF SameSessions
<1>6. /\ Good(u, Sessions) /\ DOMAIN u = DOMAIN f
      /\ LiveIds(u) = LiveIds(f) /\ ConnectedIds(u) = ConnectedIds(f)
      /\ Entry(u, x).chain = rest /\ Entry(u, x).remote_id = Entry(f, x).remote_id
      /\ Entry(u, x).session_id = x
      /\ IsOpening(Entry(u, x)) <=> IsOpening(Entry(f, x))
      /\ \A z \in LiveIds(f) : z # x => Entry(u, z) = Entry(f, z)
      /\ u.lookup = f.lookup /\ u.sessions_connected = f.sessions_connected
      /\ u.sessions_len = f.sessions_len
      /\ u.packets = f.packets /\ u.queue = f.queue /\ u.queue_tail = f.queue_tail
      /\ u.session_id_last = f.session_id_last /\ u.closing = f.closing
  BY <1>0, <1>00, <1>4, <1>5, ChainWritten
<1>7. /\ DOMAIN u = DOMAIN s
      /\ LiveIds(u) = LiveIds(s) /\ ConnectedIds(u) = ConnectedIds(s)
      /\ Entry(u, x).remote_id = Entry(s, x).remote_id
      /\ IsOpening(Entry(u, x)) <=> IsOpening(Entry(s, x))
      /\ \A z \in LiveIds(s) : z # x => Entry(u, z) = Entry(s, z)
      /\ u.lookup = s.lookup /\ u.sessions_connected = s.sessions_connected
      /\ u.sessions_len = s.sessions_len
      /\ u.session_id_last = s.session_id_last /\ u.closing = s.closing
  BY <1>3, <1>4, <1>6 DEF SameSessions
<1>8. SamePackets(f, u) /\ Others(s, u, Y)
  BY <1>6, <1>7 DEF SamePackets, Others
<1>9. Proper(s, Y) /\ x \in Y
  BY ProperLoosened
<1>10. OnlyOf(s, L, Y)
  BY <1>2, <1>9 DEF OnlyOf
<1>11. /\ Proper(u, Y) /\ Preserved(s, u, DOMAIN u.packets)
       /\ \A z, p, y : Waits(u, z, p, y) <=> Waits(s, z, p, y) /\ Link(p, y) \notin L
  <2>1. Less(s, f, L) /\ Good(u, Sessions) /\ SamePackets(f, u)
    BY <1>2, <1>6, <1>8
  <2>2. Proper(s, Y) /\ Others(s, u, Y)
    BY <1>8, <1>9
  <2> QED
    BY <1>10, <2>1, <2>2, ProperLess
<1>12. \A p, y : Waits(u, x, p, y) <=> Waits(f, x, p, y)
  BY <1>8 DEF SamePackets, Waits
<1>13. \A p, y : Waits(u, x, p, y) <=> Holds(u, x, p, y)
  BY <1>1, <1>2, <1>6, <1>7, <1>12 DEF Holds
<1>14. \A z, p, y : z # x => (Waits(u, z, p, y) <=> Waits(s, z, p, y))
  <2>1. \A z, p, y : Waits(s, z, p, y) /\ Waits(s, x, p, y) => z = x
    BY DEF Waits
  <2> QED
    BY <1>2, <1>11, <2>1
<1>15. ASSUME NEW p \in DOMAIN s.packets, \A k \in 1..Len(taken) : taken[k].packet # p
       PROVE  p \in DOMAIN u.packets /\ u.packets[p] = s.packets[p]
  <2>1. \A y : Link(p, y) \notin L
    BY <1>15, LinkParts DEF L, LinksUpTo
  <2> QED
    BY <1>2, <1>8, <2>1 DEF Less, SamePackets
<1> QED
  BY <1>6, <1>7, <1>11, <1>13, <1>14, <1>15

\* Without its first links, a chain is split.
LEMMA RestSplits ==
    ASSUME NEW s, NEW X, Proper(s, X), NEW x \in LiveIds(s) \ X,
           NEW chain, chain = Entry(s, x).chain, NEW n \in 0..Len(chain),
           NEW taken, taken = Taken(chain, n), NEW rest, rest = Remaining(chain, n)
    PROVE  Splits(chain, taken, rest)
<1>1. /\ chain \in Seq(Links) /\ Len(chain) \in Nat
      /\ \A j, k \in 1..Len(chain) : chain[j].packet = chain[k].packet => j = k
  BY ChainWaits
<1>2. Parts(chain, n, taken, rest)
  BY <1>1, ChainRest DEF Divided
<1>3. taken \in Seq(Links) /\ Len(taken) = n
  BY <1>2 DEF Parts
<1>4. \A k \in 1..n : k \in 1..Len(chain) /\ taken[k] = chain[k]
  BY <1>2 DEF Parts
<1>5. rest \in Seq(Links)
  BY <1>2 DEF Parts
<1>6. \A link : InChain(rest, link) <=>
         InChain(chain, link) /\ link \notin LinksUpTo(taken, Len(taken))
  BY <1>2 DEF Parts
<1>7. \A k \in 1..Len(taken) : InChain(chain, taken[k])
  BY <1>3, <1>4 DEF InChain
<1>8. \A j, k \in 1..Len(taken) : taken[j] = taken[k] => j = k
  BY <1>1, <1>3, <1>4
<1> QED
  BY <1>3, <1>5, <1>6, <1>7, <1>8 DEF Splits

\* An acknowledgement takes the session out of the packets that it is not behind.
LEMMA Acknowledged ==
    ASSUME NEW s, NEW i, NEW ack_id, NEW chain, chain = s.sessions[i].chain, Len(chain) \in Nat,
           NEW u, u = Acknowledge(s, i, ack_id)
    PROVE  \E n \in 0..Len(chain) :
              /\ u = SetChain(FlushChain(s, Taken(chain, n)), i, Remaining(chain, n))
              /\ \A k \in 1..n : ~ Behind(ack_id, LinkSlot(s, chain[k]).remote_id)
              /\ n < Len(chain) => Behind(ack_id, LinkSlot(s, chain[n + 1]).remote_id)
<1> DEFINE m == Len(chain)
           Left(k) == Behind(ack_id, LinkSlot(s, chain[k]).remote_id)
           S == {j \in Nat : j <= m =>
                    \E n \in 0..j : (\A k \in 1..n : ~ Left(k)) /\ (n < j => Left(n + 1))}
<1>1. 0 \in S
  OBVIOUS
<1>2. ASSUME NEW j \in Nat, j \in S PROVE j + 1 \in S
  <2> SUFFICES ASSUME j + 1 <= m
               PROVE  \E n \in 0..j + 1 : /\ \A k \in 1..n : ~ Left(k)
                                          /\ n < j + 1 => Left(n + 1)
    OBVIOUS
  <2>1. PICK n \in 0..j : (\A k \in 1..n : ~ Left(k)) /\ (n < j => Left(n + 1))
    <3>1. j <= m
      OBVIOUS
    <3> HIDE DEF Left
    <3> QED
      BY <1>2, <3>1
  <2> HIDE DEF Left, m, S
  <2>2. CASE Left(n + 1)
    <3>1. n \in 0..j + 1
      OBVIOUS
    <3> QED
      BY <2>1, <2>2, <3>1
  <2>3. CASE ~ Left(n + 1)
    <3>1. n = j
      BY <2>1, <2>3
    <3>2. \A k \in 1..j + 1 : k \in 1..j \/ k = j + 1
      OBVIOUS
    <3>3. j + 1 \in 0..j + 1 /\ ~ (j + 1 < j + 1)
      OBVIOUS
    <3> QED
      BY <2>1, <2>3, <3>1, <3>2, <3>3
  <2> QED
    BY <2>2, <2>3
<1>3. Nat \subseteq S
  <2> HIDE DEF S
  <2> QED
    BY <1>1, <1>2, NatInductionSet
<1>4. \E n \in 0..m : (\A k \in 1..n : ~ Left(k)) /\ (n < m => Left(n + 1))
  <2>1. m \in Nat /\ m \in S
    BY <1>3
  <2> HIDE DEF Left, m
  <2> QED
    BY <2>1
<1> DEFINE acked == CHOOSE n \in 0..m : (\A k \in 1..n : ~ Left(k)) /\ (n < m => Left(n + 1))
<1>5. acked \in 0..m /\ (\A k \in 1..acked : ~ Left(k)) /\ (acked < m => Left(acked + 1))
  <2> HIDE DEF Left
  <2> QED
    BY <1>4
<1>6. u = SetChain(FlushChain(s, Taken(chain, acked)), i, Remaining(chain, acked))
  BY DEF Acknowledge, SetChain, Taken, Remaining
<1> HIDE DEF acked
<1> QED
  BY <1>5, <1>6

\* What a step must leave alone for the rest of the invariant.
LEMMA FlagsKept ==
    ASSUME NEW s, NEW u, Flags(s), u.session_id_last = s.session_id_last,
           u.closing = s.closing, LiveIds(u) \subseteq LiveIds(s),
           s.closing => OnlyClosing(u)
    PROVE  Flags(u)
  BY DEF Flags

\* An acknowledgement keeps the server consistent.
LEMMA AcknowledgeConsistent ==
    ASSUME NEW s, Consistent(s), NEW i \in Indexes(s), Connected(s, i), NEW ack_id,
           NEW u, u = Acknowledge(s, i, ack_id)
    PROVE  Consistent(u) /\ LiveIds(u) = LiveIds(s)
<1> DEFINE x == s.sessions[i].session_id
           chain == Entry(s, x).chain
           X == {}
           Y == {x}
<1>1. Proper(s, X) /\ Good(s, Sessions) /\ Flags(s)
  BY DEF Consistent, Proper
<1>2. /\ x \in LiveIds(s) /\ x \in ConnectedIds(s) /\ chain = s.sessions[i].chain
      /\ x \notin X /\ x \in LiveIds(s) \ X
  BY <1>1, AtIndex
<1>0. X \subseteq Y /\ x \in Y /\ Y \subseteq X \cup {x}
  OBVIOUS
<1> HIDE DEF chain, X, Y
<1>3. /\ chain \in Seq(Links) /\ Len(chain) \in Nat
      /\ \A j, k \in 1..Len(chain) : chain[j].packet = chain[k].packet => j = k
      /\ \A k \in 1..Len(chain) : Waits(s, x, chain[k].packet, chain[k].slot)
  <2> HIDE DEF x
  <2> QED
    BY <1>1, <1>2, ChainWaits DEF chain
<1>4. PICK n \in 0..Len(chain) :
         u = SetChain(FlushChain(s, Taken(chain, n)), i, Remaining(chain, n))
  <2> HIDE DEF x
  <2> QED
    BY <1>2, <1>3, Acknowledged
<1> DEFINE taken == Taken(chain, n)
           rest == Remaining(chain, n)
<1>5. Splits(chain, taken, rest)
  <2> HIDE DEF x
  <2> QED
    BY <1>1, <1>2, RestSplits DEF chain
<1>6. /\ rest \in Seq(Links)
      /\ Len(rest) \in Nat /\ \A k \in 1..Len(rest) : k + n \in 1..Len(chain) /\ rest[k] = chain[k + n]
      /\ Ordered(s, chain) => Ordered(s, rest)
      /\ \A id : Numbered(s, chain, id) => Numbered(s, rest, id)
  <2>1. taken = Taken(chain, n) /\ rest = Remaining(chain, n)
    OBVIOUS
  <2>2. Divided(chain, n)
    BY <1>3 DEF Divided
  <2> HIDE DEF taken, rest, x
  <2>3. Parts(chain, n, taken, rest)
    BY <2>1, <2>2, ChainRest
  <2> QED
    BY <2>3 DEF Parts
<1>7. Rechain(s, u, i, x, taken, rest)
  BY <1>4, <1>5 DEF Rechain, chain
<1>8. x = s.sessions[i].session_id /\ chain = Entry(s, x).chain
  BY DEF chain
<1> HIDE DEF x, taken, rest
<1>9. /\ Proper(u, Y) /\ Preserved(s, u, DOMAIN u.packets)
      /\ DOMAIN u = DOMAIN s
      /\ LiveIds(u) = LiveIds(s) /\ ConnectedIds(u) = ConnectedIds(s)
      /\ Entry(u, x).chain = rest /\ Entry(u, x).remote_id = Entry(s, x).remote_id
      /\ \A p, y : Waits(u, x, p, y) <=> Holds(u, x, p, y)
      /\ u.session_id_last = s.session_id_last /\ u.closing = s.closing
  BY <1>0, <1>1, <1>2, <1>7, Rechained
<1>10. Chained(u, x)
  <2>1. Ordered(s, chain) /\ Numbered(s, chain, Entry(s, x).remote_id)
    BY <1>1, <1>2, <1>8 DEF Proper, Chained
  <2>2. \A k \in 1..Len(rest) : rest[k].packet \in DOMAIN u.packets
    <3> TAKE k \in 1..Len(rest)
    <3>0. rest[k] \in Links
      BY <1>6
    <3>1. rest[k] = Link(rest[k].packet, rest[k].slot)
      BY <3>0 DEF Links, Link
    <3>2. Holds(u, x, rest[k].packet, rest[k].slot)
      BY <1>2, <1>9, <3>1 DEF Holds, InChain
    <3> QED
      BY <1>9, <3>2 DEF Waits
  <2>3. Memory(s) /\ Memory(u)
    BY <1>1, <1>9 DEF Proper
  <2>4. /\ Ordered(s, rest) => Ordered(u, rest)
        /\ \A remote_id : Numbered(s, rest, remote_id) => Numbered(u, rest, remote_id)
    BY <1>6, <1>9, <2>2, <2>3, ChainKept
  <2> QED
    BY <1>2, <1>6, <1>9, <2>1, <2>4 DEF Chained
<1>11. Proper(u, X)
  BY <1>0, <1>9, <1>10, ProperWith
<1>12. Flags(u)
  <2>1. ~ s.closing
    BY <1>1, <1>2 DEF Flags, OnlyClosing
  <2> QED
    BY <1>1, <1>9, <2>1, FlagsKept
<1> QED
  BY <1>9, <1>11, <1>12 DEF Consistent, X

-------------------------------------------------------------------------------
(***************************************************************************)
(* Sessions that are removed.                                              *)
(***************************************************************************)

\* Only the table of sessions changes.
TableOnly(s, u) ==
    /\ SamePackets(s, u)
    /\ u.session_id_last = s.session_id_last /\ u.closing = s.closing

\* Removing a session leaves packets alone.
LEMMA RemovalsTableOnly ==
    ASSUME NEW s, DOMAIN s = ServerFields, NEW i
    PROVE  /\ TableOnly(s, TerminateSession(s, i))
           /\ TableOnly(s, CloseUnconnected(s, i))
           /\ TableOnly(s, CloseConnected(s, i))
<1>1. ASSUME NEW t, DOMAIN t = ServerFields, NEW j PROVE TableOnly(t, ReleaseSlot(t, j))
  BY <1>1 DEF ReleaseSlot, TableOnly, SamePackets, ServerFields
<1>2. \A t, j : DOMAIN t = ServerFields => TableOnly(t, ReleaseSlot(t, j))
  BY <1>1
<1>3. TableOnly(s, TerminateSession(s, i))
  <2> DEFINE u == [s EXCEPT !.lookup = [@ EXCEPT ![s.sessions[i].session_id] = NoSession]]
  <2>1. TableOnly(s, u) /\ DOMAIN u = ServerFields
    BY DEF TableOnly, SamePackets, ServerFields
  <2>2. TerminateSession(s, i) = ReleaseSlot(u, i)
    BY DEF TerminateSession
  <2> HIDE DEF u
  <2> QED
    BY <1>2, <2>1, <2>2 DEF TableOnly, SamePackets
<1>4. TableOnly(s, CloseUnconnected(s, i))
  <2> DEFINE v == TerminateSession(s, i)
             u == [v EXCEPT !.lookup = [@ EXCEPT ![s.sessions[i].send_id] = NoSession]]
  <2>1. TableOnly(s, v)
    BY <1>3
  <2>2. CloseUnconnected(s, i) = u
    BY DEF CloseUnconnected
  <2> HIDE DEF v
  <2>3. TableOnly(v, u)
    BY <2>1 DEF TableOnly, SamePackets, ServerFields
  <2> HIDE DEF u
  <2> QED
    BY <2>1, <2>2, <2>3 DEF TableOnly, SamePackets
<1>5. TableOnly(s, CloseConnected(s, i))
  <2> DEFINE c == s.sessions_connected - 1
             cleared == [s.lookup EXCEPT ![s.sessions[i].session_id] = NoSession]
             u == [s EXCEPT !.sessions_connected = c, !.lookup = cleared]
             v == [u EXCEPT !.sessions = [@ EXCEPT ![i] = s.sessions[c]],
                            !.lookup = [@ EXCEPT ![s.sessions[c].session_id] = i]]
             w == IF i = c THEN u ELSE v
  <2>1. TableOnly(s, u) /\ DOMAIN u = ServerFields
    BY DEF TableOnly, SamePackets, ServerFields
  <2>2. TableOnly(u, v) /\ DOMAIN v = ServerFields
    <3> HIDE DEF u
    <3> QED
      BY <2>1 DEF TableOnly, SamePackets, ServerFields
  <2>3. CloseConnected(s, i) = ReleaseSlot(w, c)
    BY DEF CloseConnected
  <2> HIDE DEF u, v
  <2>4. TableOnly(s, w) /\ DOMAIN w = ServerFields
    BY <2>1, <2>2 DEF TableOnly, SamePackets
  <2> HIDE DEF w, c
  <2>5. TableOnly(w, ReleaseSlot(w, c))
    BY <1>2, <2>4
  <2> QED
    BY <2>3, <2>4, <2>5 DEF TableOnly, SamePackets
<1> QED
  BY <1>3, <1>4, <1>5

\* No packet waits for the session.
Forgotten(s, x) == \A p, y : ~ Waits(s, x, p, y)

\* The session is taken out of the packets that wait for it.
Detached(s, f, x) ==
    /\ \E L : Less(s, f, L) /\ \A p, y : Link(p, y) \in L => Waits(s, x, p, y)
    /\ Forgotten(f, x)

\* A session that no packet waits for is removed.
LEMMA RemovedConsistent ==
    ASSUME NEW s, Consistent(s), NEW x, NEW f, Detached(s, f, x),
           NEW u, Removed(f, u, x), Good(u, Sessions), TableOnly(f, u)
    PROVE  Consistent(u) /\ LiveIds(u) = LiveIds(s) \ {x}
<1> DEFINE X == {}
           Y == {x}
<1>0. X \subseteq Y /\ x \in Y /\ Y \subseteq X \cup {x} /\ (\A z \in Y : z = x)
  OBVIOUS
<1>1. Proper(s, X) /\ Flags(s) /\ Good(s, Sessions)
  BY DEF Consistent, Proper
<1>2. Consistent(u) <=> Proper(u, X) /\ Flags(u)
  BY DEF Consistent
<1>3. LiveIds(u) = LiveIds(f) \ {x} /\ LiveIds(f) \ {x} = LiveIds(f) \ Y
      /\ LiveIds(s) \ {x} = LiveIds(s) \ Y
  BY DEF Removed
<1>31. \A z \in LiveIds(f) : z # x =>
          Entry(u, z) = Entry(f, z) /\ (z \in ConnectedIds(u) <=> z \in ConnectedIds(f))
  BY DEF Removed
<1> HIDE DEF X, Y
<1>4. PICK L : Less(s, f, L) /\ \A p, y : Link(p, y) \in L => Waits(s, x, p, y)
  BY DEF Detached
<1>5. SameSessions(s, f) /\ f.session_id_last = s.session_id_last /\ f.closing = s.closing
  BY <1>4, SameTableSessions DEF Less
<1>6. LiveIds(f) = LiveIds(s) /\ ConnectedIds(f) = ConnectedIds(s)
      /\ \A z : Entry(f, z) = Entry(s, z)
  BY <1>1, <1>5, SameSessionsView
<1>7. OnlyOf(s, L, Y)
  BY <1>0, <1>4 DEF OnlyOf
<1>8. Others(s, u, Y)
  BY <1>0, <1>3, <1>31, <1>6 DEF Others
<1>9. Proper(s, Y)
  BY <1>0, <1>1, ProperLoosened
<1>10. SamePackets(f, u)
  BY DEF TableOnly
<1>11. Proper(u, Y)
  BY <1>4, <1>7, <1>8, <1>9, <1>10, ProperLess
<1>12. \A p, y : ~ Waits(u, x, p, y)
  BY <1>10 DEF SamePackets, Detached, Forgotten, Waits
<1>13. x \notin LiveIds(u)
  BY <1>3
<1>14. Proper(u, X)
  BY <1>0, <1>11, <1>12, <1>13, ProperWith DEF Holds
<1>15. Flags(u)
  <2>1. LiveIds(u) \subseteq LiveIds(s)
    BY <1>3, <1>6
  <2>2. s.closing => OnlyClosing(u)
    BY <1>1, <1>31, <1>6, <1>13, <2>1 DEF Flags, OnlyClosing
  <2> QED
    BY <1>1, <1>5, <2>1, <2>2, FlagsKept DEF TableOnly
<1> QED
  BY <1>2, <1>3, <1>6, <1>14, <1>15

\* A session is taken out of all packets of its chain.
LEMMA ChainFlushed ==
    ASSUME NEW s, Consistent(s), NEW i \in Indexes(s), NEW x, x = s.sessions[i].session_id,
           NEW f, f = FlushChain(s, s.sessions[i].chain)
    PROVE  Detached(s, f, x)
<1> DEFINE X == {}
           chain == s.sessions[i].chain
           rest == <<>>
           L == LinksUpTo(chain, Len(chain))
<1>1. Proper(s, X) /\ Good(s, Sessions) /\ x \notin X
  BY DEF Consistent, Proper
<1> HIDE DEF X
<1>2. x \in LiveIds(s) \ X /\ chain = Entry(s, x).chain
  BY <1>1, AtIndex
<1>3. rest \in Seq(Links) /\ \A link : ~ InChain(rest, link)
  BY DEF InChain
<1> HIDE DEF chain, rest
<1>4. /\ chain \in Seq(Links)
      /\ \A j, k \in 1..Len(chain) : chain[j].packet = chain[k].packet => j = k
  BY <1>1, <1>2, ChainWaits
<1>5. \A link : InChain(chain, link) => link \in L
  BY DEF InChain, LinksUpTo
<1>6. Splits(chain, chain, rest)
  BY <1>3, <1>4, <1>5 DEF Splits, InChain
<1>7. f = FlushChain(s, chain) /\ L = LinksUpTo(chain, Len(chain))
  BY DEF chain
<1> HIDE DEF L
<1>8. Less(s, f, L) /\ \A p, y : Link(p, y) \in L => Waits(s, x, p, y)
  BY <1>1, <1>2, <1>6, <1>7, Flushed
<1>9. \A p, y : Waits(f, x, p, y) <=> InChain(rest, Link(p, y))
  <2>1. Proper(s, X) /\ x \in LiveIds(s) \ X
    BY <1>1, <1>2
  <2> QED
    BY <1>2, <1>6, <1>7, <2>1, Flushed, SMTT(30)
<1> QED
  BY <1>3, <1>8, <1>9 DEF Detached, Forgotten

\* What a detached session leaves: the table as it was.
LEMMA DetachedTable ==
    ASSUME NEW s, Consistent(s), NEW x, NEW f, Detached(s, f, x)
    PROVE  /\ DOMAIN f = ServerFields /\ Good(f, Sessions)
           /\ Indexes(f) = Indexes(s) /\ f.sessions = s.sessions
           /\ \A i : /\ Connected(f, i) <=> Connected(s, i)
                     /\ Opening(f, i) <=> Opening(s, i)
<1>1. Good(s, Sessions)
  BY DEF Consistent, Proper
<1>2. PICK L : Less(s, f, L)
  BY DEF Detached
<1>3. SameSessions(s, f) /\ Memory(f)
  BY <1>2, SameTableSessions DEF Less
<1> QED
  BY <1>1, <1>3, SameSessionsView DEF Memory, SameSessions

\* Closing a session on its client's request keeps the server consistent.
LEMMA CloseConsistent ==
    ASSUME NEW s, Consistent(s), NEW i \in Indexes(s), NEW x, x = s.sessions[i].session_id,
           NEW u, u = CloseSession(s, i)
    PROVE  Consistent(u) /\ LiveIds(u) = LiveIds(s) \ {x}
<1> DEFINE f == FlushChain(s, s.sessions[i].chain)
<1>1. Detached(s, f, x)
  BY ChainFlushed
<1>2. u = IF Connected(s, i) THEN CloseConnected(f, i) ELSE CloseUnconnected(f, i)
  BY DEF CloseSession
<1> HIDE DEF f
<1>3. /\ DOMAIN f = ServerFields /\ Good(f, Sessions)
      /\ Indexes(f) = Indexes(s) /\ f.sessions = s.sessions
      /\ Connected(f, i) <=> Connected(s, i)
  BY <1>1, DetachedTable
<1>4. i \in Indexes(f) /\ x = f.sessions[i].session_id
  BY <1>3
<1>5. Removed(f, u, x) /\ Good(u, Sessions)
  <2>1. CASE Connected(f, i)
    <3>1. u = CloseConnected(f, i)
      BY <1>2, <1>3, <2>1
    <3> QED
      BY <1>3, <1>4, <2>1, <3>1, SessionsEntries, CloseConnectedView, CloseConnectedGood
  <2>2. CASE ~ Connected(f, i)
    <3>1. u = CloseUnconnected(f, i)
      BY <1>2, <1>3, <2>2
    <3> QED
      BY <1>3, <1>4, <2>2, <3>1, SessionsEntries, CloseUnconnectedView, CloseUnconnectedGood
  <2> QED
    BY <2>1, <2>2
<1>6. TableOnly(f, u)
  BY <1>2, <1>3, RemovalsTableOnly
<1> QED
  BY <1>1, <1>5, <1>6, RemovedConsistent

\* A session that has a closing request has nothing else.
LEMMA ClosingAlone ==
    ASSUME NEW s, Consistent(s), NEW x \in LiveIds(s), NEW chain, chain = Entry(s, x).chain,
           NEW k \in 1..Len(chain), s.packets[chain[k].packet].flags = "closing"
    PROVE  x \notin ConnectedIds(s) /\ ~ IsOpening(Entry(s, x)) /\ Len(chain) = 1 /\ k = 1
<1>1. Chained(s, x)
  BY DEF Consistent, Proper
<1>2. x \notin ConnectedIds(s)
  BY <1>1 DEF Chained, Numbered
<1>3. Alone(s, Entry(s, x))
  BY <1>1, <1>2 DEF Chained
<1>4. Len(chain) = 1
  BY <1>3 DEF Alone
<1>5. k = 1
  BY <1>4
<1> QED
  BY <1>2, <1>3, <1>4, <1>5 DEF Alone

\* A session whose client answers the closing request is removed.
LEMMA ClosedConsistent ==
    ASSUME NEW s, Consistent(s), NEW i \in Indexes(s), NEW x, x = s.sessions[i].session_id,
           NEW chain, chain = s.sessions[i].chain, chain # <<>>,
           s.packets[Head(chain).packet].flags = "closing",
           NEW u, u = TerminateSession(Disassociate(s, Head(chain)), i)
    PROVE  /\ Consistent(u) /\ LiveIds(u) = LiveIds(s) \ {x}
           /\ ~ Connected(s, i) /\ ~ Opening(s, i)
<1> DEFINE X == {}
           f == Disassociate(s, Head(chain))
<1>1. Proper(s, X) /\ Good(s, Sessions) /\ x \notin X
  BY DEF Consistent, Proper
<1> HIDE DEF X, f
<1>2. /\ x \in LiveIds(s) \ X /\ x \in LiveIds(s) /\ chain = Entry(s, x).chain
      /\ x \in ConnectedIds(s) <=> Connected(s, i)
      /\ IsOpening(Entry(s, x)) <=> Opening(s, i)
  BY <1>1, AtIndex
<1>3. /\ chain \in Seq(Links)
      /\ \A k \in 1..Len(chain) : Waits(s, x, chain[k].packet, chain[k].slot)
      /\ \A k \in 1..Len(chain) : chain[k] = Link(chain[k].packet, chain[k].slot)
  <2>1. chain \in Seq(Links)
    BY <1>1, <1>2, ChainWaits
  <2>2. ASSUME NEW k \in 1..Len(chain)
        PROVE  /\ Waits(s, x, chain[k].packet, chain[k].slot)
               /\ chain[k] = Link(chain[k].packet, chain[k].slot)
    BY <1>1, <1>2, ChainWaits
  <2> QED
    BY <2>1, <2>2
<1>4. 1 \in 1..Len(chain) /\ Head(chain) = chain[1]
  BY <1>3
<1>5. x \notin ConnectedIds(s) /\ ~ IsOpening(Entry(s, x)) /\ Len(chain) = 1
  BY <1>2, <1>4, ClosingAlone
<1>6. PICK p, y : chain[1] = Link(p, y) /\ Waits(s, x, p, y)
  BY <1>3, <1>4
<1>7. f = Disassociate(s, Link(p, y)) /\ u = TerminateSession(f, i)
  BY <1>4, <1>6 DEF f
<1> DEFINE L == {Link(p, y)}
<1>8. Less(s, f, L)
  <2>1. p \in DOMAIN s.packets /\ y \in RetransmitSlots(s.packets[p]) /\ Memory(s)
    BY <1>1, <1>6 DEF Waits, Proper
  <2> QED
    BY <1>7, <2>1, DisassociateMemory
<1>9. \A q, z : Link(q, z) \in L <=> q = p /\ z = y
  BY LinkParts
<1> HIDE DEF L
<1>10. \A q, z : Waits(s, x, q, z) => q = p /\ z = y
  <2>1. \A q, z : Waits(s, x, q, z) => InChain(chain, Link(q, z))
    BY <1>1, <1>2 DEF Proper, Holds
  <2>2. \A q, z : InChain(chain, Link(q, z)) => Link(q, z) = Link(p, y)
    BY <1>5, <1>6 DEF InChain
  <2> QED
    BY <2>1, <2>2, LinkParts
<1>11. Detached(s, f, x)
  <2>1. \A q, z : Link(q, z) \in L => Waits(s, x, q, z)
    BY <1>6, <1>9
  <2>2. \A q, z : Waits(f, x, q, z) <=> Waits(s, x, q, z) /\ Link(q, z) \notin L
    BY <1>8 DEF Less
  <2>3. Forgotten(f, x)
    BY <1>9, <1>10, <2>2 DEF Forgotten
  <2> QED
    BY <1>8, <2>1, <2>3 DEF Detached
<1>12. /\ DOMAIN f = ServerFields /\ Good(f, Sessions)
       /\ Indexes(f) = Indexes(s) /\ f.sessions = s.sessions
       /\ Connected(f, i) <=> Connected(s, i)
       /\ Opening(f, i) <=> Opening(s, i)
  BY <1>11, DetachedTable
<1>13. i \in Indexes(f) /\ x = f.sessions[i].session_id /\ ~ Connected(f, i) /\ ~ Opening(f, i)
  BY <1>2, <1>5, <1>12
<1>14. Removed(f, u, x) /\ Good(u, Sessions)
  <2>1. u = TerminateSession(f, i) /\ Good(f, Sessions)
    BY <1>7, <1>12
  <2>2. Removed(f, u, x)
    BY <1>13, <2>1, SessionsEntries, TerminateView
  <2>3. Good(u, Sessions)
    BY <1>13, <2>1, SessionsEntries, TerminateGood
  <2> QED
    BY <2>2, <2>3
<1>15. TableOnly(f, u)
  BY <1>7, <1>12, RemovalsTableOnly
<1> QED
  BY <1>2, <1>5, <1>11, <1>14, <1>15, RemovedConsistent

-------------------------------------------------------------------------------
(***************************************************************************)
(* Packets that are sent.                                                  *)
(***************************************************************************)

\* Packet p is new, behind all others.
Newest(s, u, p) ==
    /\ p \notin DOMAIN s.packets /\ p \in DOMAIN u.packets
    /\ Preserved(s, u, DOMAIN s.packets)
    /\ \A q \in DOMAIN s.packets : Precedes(u.queue, q, p)
    /\ u.packets[p].resends = Resends /\ u.packets[p].flags = "none"

\* A chain of packets of s that is numbered up to id.
ChainUpTo(s, chain, id) ==
    /\ chain \in Seq(Links)
    /\ \A k \in 1..Len(chain) : chain[k].packet \in DOMAIN s.packets
    /\ Ordered(s, chain) /\ Numbered(s, chain, id)

\* What is in a chain that one link more was appended to.
LEMMA InLonger ==
    ASSUME NEW chain \in Seq(Links), NEW l, NEW longer, longer = Append(chain, l), NEW link
    PROVE  InChain(longer, link) <=> InChain(chain, link) \/ link = l
<1> DEFINE n == Len(chain)
<1>1. /\ n \in Nat /\ Len(longer) = n + 1
      /\ \A k \in 1..n : longer[k] = chain[k]
      /\ longer[n + 1] = l
  OBVIOUS
<1>2. /\ \A k \in 1..n + 1 : k \in 1..n \/ k = n + 1
      /\ \A k \in 1..n : k \in 1..n + 1
      /\ n + 1 \in 1..n + 1
  BY <1>1
<1> QED
  BY <1>1, <1>2 DEF InChain

\* The next packet goes to the end of the chain.
LEMMA ChainAppended ==
    ASSUME NEW s, NEW u, Memory(s), Memory(u), NEW p, Newest(s, u, p),
           NEW chain, NEW id, ChainUpTo(s, chain, id),
           NEW y, Link(p, y) \in Links, u.packets[p].slots[y].remote_id = NextRemoteId(id),
           NEW longer, longer = Append(chain, Link(p, y))
    PROVE  /\ longer \in Seq(Links)
           /\ Ordered(u, longer) /\ Numbered(u, longer, NextRemoteId(id))
<1> DEFINE n == Len(chain)
<1>1. /\ chain \in Seq(Links) /\ n \in Nat
      /\ \A k \in 1..n : chain[k].packet \in DOMAIN s.packets /\ chain[k].packet # p
  BY DEF ChainUpTo, Newest
<1>2. /\ longer \in Seq(Links) /\ Len(longer) = n + 1
      /\ \A k \in 1..n : longer[k] = chain[k]
      /\ longer[n + 1] = Link(p, y)
  BY <1>1
<1>3. Ordered(s, chain) /\ Numbered(s, chain, id)
  BY DEF ChainUpTo
<1>4. Ordered(u, chain) /\ Numbered(u, chain, id)
  <2>1. Preserved(s, u, DOMAIN s.packets)
    BY DEF Newest
  <2>2. \A k \in 1..Len(chain) : chain[k].packet \in DOMAIN s.packets
    BY <1>1
  <2> QED
    BY <1>1, <1>3, <2>1, <2>2, ChainKept
<1>5. \A k \in 1..n : Before(u, chain[k].packet, p)
  <2> SUFFICES ASSUME NEW k \in 1..n PROVE Before(u, chain[k].packet, p)
    OBVIOUS
  <2> DEFINE q == chain[k].packet
  <2>1. q \in DOMAIN s.packets /\ q \in DOMAIN u.packets /\ u.packets[q].flags = "none"
    BY <1>1, <1>4 DEF Numbered, Newest, Preserved
  <2>2. u.packets[q].resends \in Nat /\ u.packets[q].resends <= Resends
    BY <2>1, PacketFacts DEF Memory, PacketGood
  <2>3. u.packets[p].resends = Resends /\ Precedes(u.queue, q, p)
    BY <2>1 DEF Newest
  <2>4. Resends \in Nat
    BY ServerAssumption
  <2> HIDE DEF q
  <2>5. u.packets[q].resends < u.packets[p].resends \/ u.packets[q].resends = u.packets[p].resends
    BY <2>2, <2>3, <2>4
  <2> QED
    BY <2>3, <2>5 DEF Before, q
<1>6. \A k \in 1..n + 1 : k \in 1..n \/ k = n + 1
  BY <1>1
<1>7. longer[n + 1].packet = p
  BY <1>2, LinkParts
<1>8. Ordered(u, longer)
  <2>1. ASSUME NEW j \in 1..n + 1, NEW k \in 1..n + 1, longer[j].packet = longer[k].packet
        PROVE  j = k
    BY <1>1, <1>2, <1>4, <1>6, <1>7, <2>1 DEF Ordered
  <2>2. ASSUME NEW j \in 1..n + 1, NEW k \in 1..n + 1, j < k
        PROVE  Before(u, longer[j].packet, longer[k].packet)
    <3>1. j \in 1..n
      BY <1>1, <2>2
    <3>2. CASE k \in 1..n
      BY <1>2, <1>4, <2>2, <3>1, <3>2 DEF Ordered
    <3>3. CASE k = n + 1
      BY <1>2, <1>5, <1>7, <3>1, <3>3
    <3> QED
      BY <1>6, <3>2, <3>3
  <2> QED
    BY <1>2, <2>1, <2>2 DEF Ordered
<1>9. Numbered(u, longer, NextRemoteId(id))
  <2>1. LinkSlot(u, longer[n + 1]).remote_id = NextRemoteId(id)
    BY <1>2, LinkParts DEF LinkSlot
  <2>2. u.packets[longer[n + 1].packet].flags = "none"
    BY <1>7 DEF Newest
  <2> SUFFICES ASSUME NEW k \in 1..n + 1
               PROVE  /\ u.packets[longer[k].packet].flags = "none"
                      /\ k = n + 1 => LinkSlot(u, longer[k]).remote_id = NextRemoteId(id)
                      /\ k # n + 1 => LinkSlot(u, longer[k + 1]).remote_id
                                         = NextRemoteId(LinkSlot(u, longer[k]).remote_id)
    BY <1>2 DEF Numbered
  <2>3. CASE k = n + 1
    BY <2>1, <2>2, <2>3
  <2>4. CASE k # n + 1
    <3>1. k \in 1..n /\ (k # n => k + 1 \in 1..n) /\ (k = n => k + 1 = n + 1)
      BY <1>1, <2>4
    <3>2. longer[k] = chain[k] /\ (k # n => longer[k + 1] = chain[k + 1])
      BY <1>2, <3>1
    <3> HIDE DEF n
    <3>3. CASE k = n
      <4>1. LinkSlot(u, chain[k]).remote_id = id /\ u.packets[chain[k].packet].flags = "none"
        BY <1>4, <3>1, <3>3 DEF Numbered, n
      <4> QED
        BY <2>1, <2>4, <3>1, <3>2, <3>3, <4>1
    <3>4. CASE k # n
      <4>1. /\ LinkSlot(u, chain[k + 1]).remote_id = NextRemoteId(LinkSlot(u, chain[k]).remote_id)
            /\ u.packets[chain[k].packet].flags = "none"
        BY <1>4, <3>1, <3>4 DEF Numbered, n
      <4> QED
        BY <2>4, <3>2, <3>4, <4>1
    <3> QED
      BY <3>3, <3>4
  <2> QED
    BY <2>3, <2>4
<1> QED
  BY <1>2, <1>8, <1>9

\* One packet less is free.
Uses(s, u) == \E p \in FreePackets(s) : FreePackets(u) = FreePackets(s) \ {p}

\* The packets that are free can be counted, and allocated unless there are none.
LEMMA FreeFacts ==
    ASSUME NEW s
    PROVE  /\ Cardinality(FreePackets(s)) \in Nat
           /\ FreePackets(s) # {} <=> Cardinality(FreePackets(s)) > 0
           /\ FreePackets(s) # {} => NewPacket(s) \in FreePackets(s)
<1>1. IsFiniteSet(FreePackets(s))
  BY ServerAssumption, FS_Subset DEF FreePackets
<1>2. Cardinality(FreePackets(s)) \in Nat /\ (Cardinality(FreePackets(s)) = 0 <=> FreePackets(s) = {})
  BY <1>1, FS_CardinalityType, FS_EmptySet
<1> QED
  BY <1>2 DEF NewPacket

\* There is one less to count.
LEMMA FreeUsed ==
    ASSUME NEW s, NEW u, Uses(s, u)
    PROVE  Cardinality(FreePackets(u)) = Cardinality(FreePackets(s)) - 1
<1>1. IsFiniteSet(FreePackets(s))
  BY ServerAssumption, FS_Subset DEF FreePackets
<1>2. PICK p \in FreePackets(s) : FreePackets(u) = FreePackets(s) \ {p}
  BY DEF Uses
<1> QED
  BY <1>1, <1>2, FS_RemoveElement

\* Sessions fit in, one by one.
LEMMA ProperAll ==
    ASSUME NEW s, NEW Y, Proper(s, Y), \A x \in Y : x \in LiveIds(s) => Chained(s, x),
           \A x \in Y : \A p, y : Waits(s, x, p, y) <=> Holds(s, x, p, y),
           NEW X
    PROVE  Proper(s, X)
<1>1. \A x \in LiveIds(s) \ X : Chained(s, x)
  BY DEF Proper
<1>2. \A x, p, y : Waits(s, x, p, y) <=> Holds(s, x, p, y)
  BY DEF Proper
<1> QED
  BY <1>1, <1>2 DEF Proper

\* What a broadcast leaves in the sessions before the packet is queued.
Pushed(s, p) ==
    [s EXCEPT !.sessions = [i \in Indexes(s) |->
         IF Connected(s, i)
         THEN [s.sessions[i] EXCEPT !.remote_id = NextRemoteId(@), !.chain = Append(@, Link(p, i))]
         ELSE s.sessions[i]]]

\* A connected session has the packet in its chain and the next remote id.
PushedOnto(e, next, p, i) ==
    /\ next.session_id = e.session_id /\ next.send_id = e.send_id
    /\ next.chain = Append(e.chain, Link(p, i))
    /\ next.remote_id = NextRemoteId(e.remote_id)

\* The next remote id is a remote id.
LEMMA RemoteIdFacts == \A id \in RemoteIds : NextRemoteId(id) \in RemoteIds
  BY ServerAssumption DEF RemoteIds, NextRemoteId

\* The other sessions, and all that is not a chain or a remote id, stay.
LEMMA PushedView ==
    ASSUME NEW s, Good(s, Sessions), DOMAIN s = ServerFields, NEW p \in Packets,
           NEW u, u = Pushed(s, p)
    PROVE  /\ SamePlaces(s, u) /\ TableOnly(s, u)
           /\ \A i \in Indexes(s) : Connected(s, i) => PushedOnto(s.sessions[i], u.sessions[i], p, i)
           /\ \A i \in Indexes(s) : ~ Connected(s, i) => u.sessions[i] = s.sessions[i]
<1>1. s.sessions \in [Indexes(s) -> Sessions] /\ \A i \in Indexes(s) : i \in 0..SessionsLimit - 1
  BY SessionsEntries, GoodFacts DEF Indexes
<1>2. /\ DOMAIN u = DOMAIN s
      /\ u.sessions_len = s.sessions_len /\ u.sessions_connected = s.sessions_connected
      /\ u.lookup = s.lookup /\ u.packets = s.packets /\ u.queue = s.queue
      /\ u.queue_tail = s.queue_tail /\ u.session_id_last = s.session_id_last
      /\ u.closing = s.closing
      /\ u.sessions = [i \in Indexes(s) |->
           IF Connected(s, i)
           THEN [s.sessions[i] EXCEPT !.remote_id = NextRemoteId(@), !.chain = Append(@, Link(p, i))]
           ELSE s.sessions[i]]
  BY DEF Pushed, ServerFields
<1>3. ASSUME NEW i \in Indexes(s), Connected(s, i)
      PROVE  PushedOnto(s.sessions[i], u.sessions[i], p, i) /\ u.sessions[i] \in Sessions
  <2> DEFINE e == s.sessions[i]
  <2>1. u.sessions[i] = [e EXCEPT !.remote_id = NextRemoteId(@), !.chain = Append(@, Link(p, i))]
    BY <1>2, <1>3
  <2>2. e \in Sessions /\ Link(p, i) \in Links
    BY <1>1 DEF Link, Links
  <2> HIDE DEF e
  <2>3. Append(e.chain, Link(p, i)) \in Seq(Links) /\ NextRemoteId(e.remote_id) \in RemoteIds
    BY <2>2, RemoteIdFacts DEF Sessions
  <2>4. PushedOnto(e, u.sessions[i], p, i) /\ u.sessions[i] \in Sessions
    BY <2>1, <2>2, <2>3 DEF Sessions, PushedOnto
  <2> QED
    BY <2>4 DEF e
<1>4. \A i \in Indexes(s) : ~ Connected(s, i) => u.sessions[i] = s.sessions[i]
  BY <1>2
<1>5. u.sessions \in [Indexes(s) -> Sessions]
  <2>1. \A i \in Indexes(s) : u.sessions[i] \in Sessions
    BY <1>1, <1>3, <1>4
  <2>2. u.sessions = [i \in Indexes(s) |-> u.sessions[i]]
    BY <1>2
  <2> QED
    BY <2>1, <2>2
<1>6. SamePlaces(s, u)
  BY <1>2, <1>3, <1>4, <1>5 DEF SamePlaces, PushedOnto
<1>7. TableOnly(s, u)
  BY <1>2 DEF TableOnly, SamePackets
<1> QED
  BY <1>3, <1>4, <1>6, <1>7

\* The packet that is broadcast: a slot for every connected session, at its index.
LEMMA BroadcastPacket ==
    ASSUME NEW s, Good(s, Sessions), NEW u, SamePlaces(s, u), s.sessions_connected > 0,
           NEW packet,
           packet = Packet([i \in 0..s.sessions_connected - 1 |->
                               Slot(u.sessions[i].session_id, u.sessions[i].remote_id)], "none")
    PROVE  /\ PacketGood(packet)
           /\ packet.flags = "none" /\ packet.resends = Resends
           /\ \A y : y \in RetransmitSlots(packet) <=> y \in Indexes(s) /\ Connected(s, y)
           /\ \A y \in Indexes(s) : Connected(s, y) =>
                 /\ packet.slots[y].session_id = s.sessions[y].session_id
                 /\ packet.slots[y].remote_id = u.sessions[y].remote_id
<1> DEFINE n == s.sessions_connected
           slots == [i \in 0..n - 1 |-> Slot(u.sessions[i].session_id, u.sessions[i].remote_id)]
<1>1. n \in 1..SessionsLimit /\ s.sessions_len \in Nat /\ n <= s.sessions_len
  <2>1. s.sessions_len \in Nat /\ n \in 0..s.sessions_len /\ s.sessions_len <= SessionsLimit
    BY SessionsEntries, GoodFacts
  <2> QED
    BY <2>1, IdsFacts
<1>2. \A y : y \in 0..n - 1 <=> y \in Indexes(s) /\ Connected(s, y)
  BY <1>1 DEF Indexes, Connected
<1>3. \A i \in Indexes(s) : /\ u.sessions[i] \in Sessions
                            /\ u.sessions[i].session_id = s.sessions[i].session_id
  BY DEF SamePlaces
<1>4. slots \in [0..n - 1 -> SlotType]
  BY <1>2, <1>3 DEF Slot, SlotType, Sessions
<1>5. \A y \in 0..n - 1 : /\ slots[y].session_id = s.sessions[y].session_id
                          /\ slots[y].remote_id = u.sessions[y].remote_id
  BY <1>2, <1>3 DEF Slot
<1>6. packet = Packet(slots, "none")
  OBVIOUS
<1>8. Distinct(slots)
  <2>1. \A y, z \in 0..n - 1 : s.sessions[y].session_id = s.sessions[z].session_id => y = z
    BY <1>2, SessionsEntries, Places
  <2>2. DOMAIN slots = 0..n - 1
    OBVIOUS
  <2> HIDE DEF slots, n
  <2> QED
    BY <1>5, <2>1, <2>2 DEF Distinct
<1> HIDE DEF slots, n
<1>7. /\ PacketGood(packet) /\ RetransmitSlots(packet) = 0..n - 1
      /\ packet.slots = slots /\ packet.flags = "none" /\ packet.resends = Resends
  BY <1>1, <1>4, <1>6, <1>8, PacketNew
<1> QED
  BY <1>2, <1>5, <1>7

\* A broadcast puts a new packet into the chains of all connected sessions.
Broadcasts(s, u) ==
    /\ Consistent(u) /\ LiveIds(u) = LiveIds(s)
    /\ u.sessions_connected = s.sessions_connected
    /\ Uses(s, u)

\* A broadcast keeps the server consistent.
LEMMA BroadcastConsistent ==
    ASSUME NEW s, Consistent(s), s.sessions_connected > 0, FreePackets(s) # {},
           NEW u, u = Broadcast(s)
    PROVE  Broadcasts(s, u)
<1> DEFINE p == NewPacket(s)
           v == Pushed(s, p)
           packet == Packet([i \in 0..s.sessions_connected - 1 |->
                               Slot(v.sessions[i].session_id, v.sessions[i].remote_id)], "none")
           X == {}
           Y == ConnectedIds(s)
<1>1. Proper(s, X) /\ Flags(s) /\ Good(s, Sessions) /\ Memory(s) /\ DOMAIN s = ServerFields
  BY DEF Consistent, Proper, Memory
<1>2. p \in FreePackets(s) /\ p \in Packets /\ p \notin DOMAIN s.packets
  <2>1. p \in FreePackets(s)
    BY FreeFacts
  <2> QED
    BY <2>1 DEF FreePackets
<1>3. u = Enqueue(v, p, packet)
  BY DEF Broadcast, Pushed
<1>4. X \subseteq Y /\ \A z \in LiveIds(s) \ Y : z \in LiveIds(s) \ X
  OBVIOUS
<1>41. v = Pushed(s, p)
  OBVIOUS
<1> HIDE DEF p, v, X
<1>5. /\ SamePlaces(s, v) /\ TableOnly(s, v)
      /\ \A i \in Indexes(s) : Connected(s, i) => PushedOnto(s.sessions[i], v.sessions[i], p, i)
      /\ \A i \in Indexes(s) : ~ Connected(s, i) => v.sessions[i] = s.sessions[i]
  BY <1>1, <1>2, <1>41, PushedView
<1>6. /\ PacketGood(packet)
      /\ packet.flags = "none" /\ packet.resends = Resends
      /\ \A y : y \in RetransmitSlots(packet) <=> y \in Indexes(s) /\ Connected(s, y)
      /\ \A y \in Indexes(s) : Connected(s, y) =>
            /\ packet.slots[y].session_id = s.sessions[y].session_id
            /\ packet.slots[y].remote_id = v.sessions[y].remote_id
  <2>1. packet = Packet([i \in 0..s.sessions_connected - 1 |->
                            Slot(v.sessions[i].session_id, v.sessions[i].remote_id)], "none")
    OBVIOUS
  <2> HIDE DEF packet
  <2> QED
    BY <1>1, <1>5, <2>1, BroadcastPacket
<1> HIDE DEF packet
<1>7. /\ Memory(v) /\ v.packets = s.packets /\ v.queue = s.queue
      /\ p \in FreePackets(v)
      /\ \A x, q, y : Waits(v, x, q, y) <=> Waits(s, x, q, y)
  <2>1. DOMAIN v = DOMAIN s /\ v.packets = s.packets /\ v.queue = s.queue
        /\ v.queue_tail = s.queue_tail
    BY <1>5 DEF TableOnly, SamePackets
  <2>2. Memory(v) /\ \A x, q, y : Waits(v, x, q, y) <=> Waits(s, x, q, y)
    BY <1>1, <2>1, MemoryKept
  <2> QED
    BY <1>2, <2>1, <2>2 DEF FreePackets
<1>8. /\ Memory(u) /\ SameTable(v, u)
      /\ DOMAIN u.packets = DOMAIN v.packets \cup {p} /\ u.packets[p] = packet
      /\ Preserved(v, u, DOMAIN v.packets)
      /\ \A q \in DOMAIN v.packets : Precedes(u.queue, q, p)
      /\ \A x, q, y : Waits(u, x, q, y) <=>
            \/ Waits(v, x, q, y)
            \/ q = p /\ y \in RetransmitSlots(packet) /\ packet.slots[y].session_id = x
  BY <1>3, <1>6, <1>7, EnqueueMemory
<1>9. Newest(s, u, p)
  BY <1>2, <1>6, <1>7, <1>8 DEF Newest, Preserved
<1>10. /\ Good(v, Sessions) /\ LiveIds(v) = LiveIds(s) /\ ConnectedIds(v) = ConnectedIds(s)
       /\ Indexes(v) = Indexes(s)
  BY <1>1, <1>5, SamePlacesView
<1>11. SameSessions(v, u) /\ u.session_id_last = v.session_id_last /\ u.closing = v.closing
  BY <1>8, SameTableSessions
<1>12. /\ Good(u, Sessions) /\ LiveIds(u) = LiveIds(s) /\ ConnectedIds(u) = ConnectedIds(s)
       /\ \A z : Entry(u, z) = Entry(v, z)
  BY <1>10, <1>11, SameSessionsView
<1>13. \A x \in LiveIds(s) : \E i \in Indexes(s) :
          /\ s.lookup[x] = i /\ s.sessions[i].session_id = x
          /\ Entry(s, x) = s.sessions[i] /\ Entry(u, x) = v.sessions[i]
          /\ x \in Y <=> Connected(s, i)
  <2> SUFFICES ASSUME NEW x \in LiveIds(s)
               PROVE  \E i \in Indexes(s) :
                          /\ s.lookup[x] = i /\ s.sessions[i].session_id = x
                          /\ Entry(s, x) = s.sessions[i] /\ Entry(u, x) = v.sessions[i]
                          /\ x \in Y <=> Connected(s, i)
    OBVIOUS
  <2>1. s.lookup[x] \in Indexes(s) /\ Entry(s, x).session_id = x
    BY <1>1, EntryOf
  <2>2. v.lookup = s.lookup
    BY <1>5 DEF SamePlaces
  <2> QED
    BY <1>12, <2>1, <2>2 DEF Entry, ConnectedIds
<1>14. ASSUME NEW x \in LiveIds(s) \ Y
       PROVE  Entry(u, x) = Entry(s, x)
  BY <1>5, <1>13, <1>14
<1>15. \A x, q, y : x \notin Y => (Waits(u, x, q, y) <=> Waits(s, x, q, y))
  <2>1. \A y \in Indexes(s) : Connected(s, y) => s.sessions[y].session_id \in Y
    BY <1>1, AtIndex
  <2> QED
    BY <1>6, <1>7, <1>8, <2>1
<1>16. Proper(s, Y) /\ Others(s, u, Y)
  BY <1>1, <1>4, <1>12, <1>14, ProperLoosened DEF Others
<1>17. Proper(u, Y)
  <2>1. \A x, q, y : x \notin Y /\ Waits(s, x, q, y) => q \in DOMAIN s.packets
    BY DEF Waits
  <2>2. Preserved(s, u, DOMAIN s.packets)
    BY <1>9 DEF Newest
  <2> HIDE DEF Y
  <2> QED
    BY <1>8, <1>12, <1>15, <1>16, <2>1, <2>2, ProperKept
<1>18. ASSUME NEW x \in Y
       PROVE  Chained(u, x) /\ \A q, y : Waits(u, x, q, y) <=> Holds(u, x, q, y)
  <2>1. x \in LiveIds(s) /\ x \in LiveIds(s) \ X
    BY DEF ConnectedIds, X
  <2>2. PICK i \in Indexes(s) :
          /\ s.sessions[i].session_id = x
          /\ Entry(s, x) = s.sessions[i] /\ Entry(u, x) = v.sessions[i]
          /\ Connected(s, i)
    BY <1>13, <1>18, <2>1
  <2> DEFINE chain == Entry(s, x).chain
             id == Entry(s, x).remote_id
             longer == Entry(u, x).chain
  <2>3. longer = Append(chain, Link(p, i)) /\ Entry(u, x).remote_id = NextRemoteId(id)
    BY <1>5, <2>2 DEF PushedOnto
  <2>4. Chained(s, x)
    BY <1>1, <2>1 DEF Proper
  <2>5. Ordered(s, chain) /\ Numbered(s, chain, id)
    BY <1>18, <2>4 DEF Chained
  <2>61. chain = Entry(s, x).chain
    OBVIOUS
  <2> HIDE DEF chain
  <2>6. chain \in Seq(Links) /\ \A k \in 1..Len(chain) : chain[k].packet \in DOMAIN s.packets
    BY <1>1, <2>1, <2>61, ChainWaits
  <2> HIDE DEF id, longer
  <2>7. ChainUpTo(s, chain, id)
    BY <2>5, <2>6 DEF ChainUpTo
  <2>8. Link(p, i) \in Links
    <3>1. i \in 0..SessionsLimit - 1
      BY <1>1, SessionsEntries, GoodFacts DEF Indexes
    <3> QED
      BY <1>2, <3>1 DEF Link, Links
  <2>9. u.packets[p].slots[i].remote_id = NextRemoteId(id)
    BY <1>6, <1>8, <2>2, <2>3
  <2>10. /\ Ordered(u, longer) /\ Numbered(u, longer, NextRemoteId(id))
         /\ \A link : InChain(longer, link) <=> InChain(chain, link) \/ link = Link(p, i)
    <3>1. Memory(s) /\ Memory(u) /\ Newest(s, u, p)
      BY <1>1, <1>8, <1>9
    <3>2. Ordered(u, longer)
      BY <2>3, <2>7, <2>8, <2>9, <3>1, ChainAppended
    <3>3. Numbered(u, longer, NextRemoteId(id))
      BY <2>3, <2>7, <2>8, <2>9, <3>1, ChainAppended
    <3>4. \A link : InChain(longer, link) <=> InChain(chain, link) \/ link = Link(p, i)
      BY <2>3, <2>6, InLonger
    <3> QED
      BY <3>2, <3>3, <3>4
  <2>11. Chained(u, x)
    BY <1>12, <1>18, <2>3, <2>10 DEF Chained, longer
  <2>12. \A q, y : Waits(s, x, q, y) <=> InChain(chain, Link(q, y))
    BY <1>1, <2>1, <2>61 DEF Proper, Holds
  <2>13. \A y \in Indexes(s) : s.sessions[y].session_id = x <=> y = i
    BY <1>1, <2>2, SessionsEntries, Places
  <2>14. \A q, y : Waits(u, x, q, y) <=> Waits(s, x, q, y) \/ (q = p /\ y = i)
    BY <1>6, <1>7, <1>8, <2>2, <2>13
  <2>15. \A q, y : q = p /\ y = i <=> Link(q, y) = Link(p, i)
    BY LinkParts
  <2>16. \A q, y : Holds(u, x, q, y) <=> InChain(longer, Link(q, y))
    BY <1>12, <2>1 DEF Holds, longer
  <2> QED
    BY <2>10, <2>11, <2>12, <2>14, <2>15, <2>16
<1>19. Proper(u, X)
  BY <1>17, <1>18, ProperAll
<1>20. Flags(u)
  <2>1. u.session_id_last = s.session_id_last /\ u.closing = s.closing
    BY <1>5, <1>11 DEF TableOnly
  <2>2. ~ s.closing
    <3>1. 0 \in Indexes(s) /\ Connected(s, 0)
      <4>1. s.sessions_len \in Nat /\ s.sessions_connected \in 0..s.sessions_len
        BY <1>1, SessionsEntries, GoodFacts
      <4> QED
        BY <4>1 DEF Indexes, Connected
    <3>2. s.sessions[0].session_id \in ConnectedIds(s) /\ s.sessions[0].session_id \in LiveIds(s)
      BY <1>1, <3>1, AtIndex
    <3> QED
      BY <1>1, <3>2 DEF Flags, OnlyClosing
  <2> QED
    BY <1>1, <1>12, <2>1, <2>2, FlagsKept
<1>21. Uses(s, u)
  BY <1>2, <1>7, <1>8 DEF Uses, FreePackets
<1>22. u.sessions_connected = s.sessions_connected
  BY <1>5, <1>11 DEF SamePlaces, SameSessions
<1> QED
  BY <1>12, <1>19, <1>20, <1>21, <1>22 DEF Broadcasts, Consistent, X

\* Broadcasting an update for each of a number of free packets.
LEMMA UpdatesConsistent ==
    ASSUME NEW s, Consistent(s), s.sessions_connected > 0,
           NEW updates \in Nat, updates <= Cardinality(FreePackets(s)),
           NEW u, u = BroadcastUpdates(s, updates)
    PROVE  Consistent(u) /\ LiveIds(u) = LiveIds(s)
<1> DEFINE n == updates
           Step(f, m) == [k \in 0..m |-> IF k = 0 THEN s ELSE Broadcast(f[k - 1])]
           after == CHOOSE f : f = Step(f, n)
<1>1. \E f : f = Step(f, n)
  <2> DEFINE S == {m \in Nat : \E f : f = Step(f, m)}
  <2>1. 0 \in S
    <3>1. [k \in 0..0 |-> s] = Step([k \in 0..0 |-> s], 0)
      OBVIOUS
    <3> QED
      BY <3>1
  <2>2. ASSUME NEW m \in Nat, m \in S PROVE m + 1 \in S
    <3>1. PICK f : f = Step(f, m)
      BY <2>2
    <3> DEFINE g == [k \in 0..m + 1 |-> IF k = 0 THEN s ELSE Broadcast(f[k - 1])]
    <3>2. \A k \in 0..m : f[k] = g[k]
      BY <3>1
    <3>3. \A k \in 0..m + 1 : g[k] = Step(g, m + 1)[k]
      <4> TAKE k \in 0..m + 1
      <4>1. CASE k = 0
        BY <4>1
      <4>2. CASE k # 0
        <5>1. k - 1 \in 0..m
          BY <4>2
        <5> QED
          BY <3>2, <4>2, <5>1
      <4> QED
        BY <4>1, <4>2
    <3>4. g = Step(g, m + 1)
      BY <3>3
    <3> HIDE DEF g, Step
    <3> QED
      BY <3>4
  <2>3. Nat \subseteq S
    <3> HIDE DEF S
    <3> QED
      BY <2>1, <2>2, NatInductionSet
  <2> QED
    BY <2>3
<1>2. after = Step(after, n)
  <2> HIDE DEF Step
  <2> QED
    BY <1>1
<1>3. u = after[n]
  BY DEF BroadcastUpdates
<1> HIDE DEF after
<1>4. after[0] = s /\ \A k \in 1..n : after[k] = Broadcast(after[k - 1])
  BY <1>2
<1> HIDE DEF n
<1> DEFINE Done(m) == /\ Consistent(after[m]) /\ LiveIds(after[m]) = LiveIds(s)
                      /\ after[m].sessions_connected = s.sessions_connected
                      /\ Cardinality(FreePackets(after[m])) = Cardinality(FreePackets(s)) - m
           S == {m \in Nat : m <= n => Done(m)}
<1>5. n \in Nat /\ n <= Cardinality(FreePackets(s)) /\ Cardinality(FreePackets(s)) \in Nat
  BY FreeFacts DEF n
<1>6. 0 \in S
  BY <1>4, <1>5
<1>7. ASSUME NEW m \in Nat, m \in S PROVE m + 1 \in S
  <2> SUFFICES ASSUME m + 1 <= n PROVE Done(m + 1)
    OBVIOUS
  <2>1. m + 1 \in 1..n /\ (m + 1) - 1 = m /\ m <= n
    BY <1>5
  <2> DEFINE v == after[m]
             w == after[m + 1]
  <2>2. Done(m) /\ w = Broadcast(v)
    BY <1>4, <1>7, <2>1
  <2>3. /\ Consistent(v) /\ LiveIds(v) = LiveIds(s)
        /\ v.sessions_connected = s.sessions_connected
        /\ Cardinality(FreePackets(v)) = Cardinality(FreePackets(s)) - m
    BY <2>2
  <2> HIDE DEF v, w, Done
  <2>4. Cardinality(FreePackets(v)) > 0
    BY <1>5, <2>1, <2>3
  <2>5. FreePackets(v) # {} /\ v.sessions_connected > 0
    BY <2>3, <2>4, FreeFacts
  <2>6. Broadcasts(v, w)
    BY <2>2, <2>3, <2>5, BroadcastConsistent
  <2>7. Cardinality(FreePackets(w)) = Cardinality(FreePackets(v)) - 1
    BY <2>6, FreeUsed DEF Broadcasts
  <2>8. Cardinality(FreePackets(w)) = Cardinality(FreePackets(s)) - (m + 1)
    BY <1>5, <2>3, <2>7
  <2> QED
    BY <2>3, <2>6, <2>8 DEF Broadcasts, Done, w
<1>8. Nat \subseteq S
  <2> HIDE DEF S
  <2> QED
    BY <1>6, <1>7, NatInductionSet
<1> QED
  BY <1>3, <1>5, <1>8

\* What a session received last is written down.
Received(s, i) == [s EXCEPT !.sessions[i].remote_id_last = NextRemoteId(@)]

\* That keeps the server consistent.
LEMMA ReceivedConsistent ==
    ASSUME NEW s, Consistent(s), NEW i \in Indexes(s),
           NEW u, u = Received(s, i)
    PROVE  /\ Consistent(u) /\ LiveIds(u) = LiveIds(s)
           /\ u.sessions_connected = s.sessions_connected /\ FreePackets(u) = FreePackets(s)
<1> DEFINE X == {}
           o == s.sessions[i]
           x == o.session_id
           e == [o EXCEPT !.remote_id_last = NextRemoteId(@)]
           Y == {x}
<1>1. Proper(s, X) /\ Flags(s) /\ Good(s, Sessions) /\ Memory(s) /\ DOMAIN s = ServerFields
  BY DEF Consistent, Proper, Memory
<1>2. o \in Sessions /\ x \in LiveIds(s) /\ Entry(s, x) = o
  BY <1>1, AtIndex DEF Good, Shape
<1>3. /\ e \in Sessions /\ e.session_id = x /\ e.send_id = o.send_id
      /\ e.chain = o.chain /\ e.remote_id = o.remote_id
  <2> HIDE DEF o
  <2>1. NextRemoteId(o.remote_id_last) \in RemoteIds
    BY <1>2, RemoteIdFacts DEF Sessions
  <2> QED
    BY <1>2, <2>1 DEF Sessions
<1>4. Written(s, u, i, x, e)
  BY <1>3 DEF Written, Received
<1> HIDE DEF e
<1>5. /\ Good(u, Sessions) /\ DOMAIN u = DOMAIN s
      /\ LiveIds(u) = LiveIds(s) /\ ConnectedIds(u) = ConnectedIds(s)
      /\ Entry(u, x) = e
      /\ \A z \in LiveIds(s) : z # x => Entry(u, z) = Entry(s, z)
      /\ u.sessions_connected = s.sessions_connected
      /\ u.packets = s.packets /\ u.queue = s.queue /\ u.queue_tail = s.queue_tail
      /\ u.session_id_last = s.session_id_last /\ u.closing = s.closing
  BY <1>1, <1>4, WrittenView
<1>6. Memory(u) /\ \A z, p, y : Waits(u, z, p, y) <=> Waits(s, z, p, y)
  BY <1>1, <1>5, MemoryKept
<1>7. \A z \in LiveIds(s) : /\ Entry(u, z).chain = Entry(s, z).chain
                             /\ Entry(u, z).remote_id = Entry(s, z).remote_id
                             /\ Entry(u, z).session_id = Entry(s, z).session_id
                             /\ Entry(u, z).send_id = Entry(s, z).send_id
  BY <1>2, <1>3, <1>5
<1> HIDE DEF o, x
<1>71. \A z \in LiveIds(s) : Entry(u, z).chain = Entry(s, z).chain
  BY <1>7
<1>8. \A z, p, y : Holds(u, z, p, y) <=> Holds(s, z, p, y)
  BY <1>5, <1>71 DEF Holds
<1>81. \A link : LinkSlot(u, link) = LinkSlot(s, link)
  BY <1>5 DEF LinkSlot
<1>9. ASSUME NEW z \in LiveIds(s), Chained(s, z) PROVE Chained(u, z)
  <2> DEFINE d == Entry(s, z)
             c == d.chain
  <2>1. Ordered(s, c) => Ordered(u, c)
    <3>1. \A p, q : Before(s, p, q) <=> Before(u, p, q)
      BY <1>5 DEF Before
    <3> HIDE DEF d, c
    <3> QED
      BY <3>1 DEF Ordered
  <2>2. Numbered(s, c, d.remote_id) => Numbered(u, c, d.remote_id)
    <3> HIDE DEF d, c
    <3> QED
      BY <1>5, <1>81 DEF Numbered
  <2>3. Entry(u, z).chain = c /\ Entry(u, z).remote_id = d.remote_id
        /\ (IsOpening(Entry(u, z)) <=> IsOpening(d))
    BY <1>7 DEF IsOpening
  <2>4. Alone(s, d) => Alone(u, Entry(u, z))
    <3>1. c = d.chain
      OBVIOUS
    <3> HIDE DEF d, c
    <3> QED
      BY <1>5, <1>81, <2>3, <3>1 DEF Alone
  <2> QED
    BY <1>5, <1>9, <2>1, <2>2, <2>3, <2>4 DEF Chained
<1>10. Proper(u, X)
  BY <1>1, <1>5, <1>6, <1>8, <1>9 DEF Proper
<1>11. Flags(u)
  <2>0. \A z \in LiveIds(s) : IsOpening(Entry(u, z)) <=> IsOpening(Entry(s, z))
    BY <1>7 DEF IsOpening
  <2>1. s.closing => OnlyClosing(u)
    <3>1. s.closing => OnlyClosing(s)
      BY <1>1 DEF Flags
    <3> QED
      BY <1>5, <2>0, <3>1 DEF OnlyClosing
  <2> QED
    BY <1>1, <1>5, <2>1, FlagsKept
<1> QED
  BY <1>5, <1>10, <1>11 DEF Consistent, FreePackets

-------------------------------------------------------------------------------
(***************************************************************************)
(* The packet at the head of the queue expires.                            *)
(***************************************************************************)

\* Where nothing but packets and their queue changes, the flags stay.
LEMMA FlagsSame ==
    ASSUME NEW s, NEW u, Good(s, Sessions), Flags(s), SameTable(s, u)
    PROVE  Flags(u) /\ LiveIds(u) = LiveIds(s) /\ ConnectedIds(u) = ConnectedIds(s)
<1>1. SameSessions(s, u) /\ u.session_id_last = s.session_id_last /\ u.closing = s.closing
  BY SameTableSessions
<1>2. /\ LiveIds(u) = LiveIds(s) /\ ConnectedIds(u) = ConnectedIds(s)
      /\ \A z : Entry(u, z) = Entry(s, z)
  BY <1>1, SameSessionsView
<1>3. s.closing => OnlyClosing(u)
  BY <1>2 DEF Flags, OnlyClosing
<1> QED
  BY <1>1, <1>2, <1>3, FlagsKept

\* A packet with one retransmission less.
Resent(packet) == [packet EXCEPT !.resends = @ - 1]

\* Nothing else of the packet changes.
LEMMA ResentFacts ==
    ASSUME NEW packet, PacketGood(packet), packet.resends > 0, NEW less, less = Resent(packet)
    PROVE  /\ PacketGood(less)
           /\ less.resends = packet.resends - 1
           /\ less.flags = packet.flags /\ less.slots = packet.slots
           /\ less.sessions_remaining = packet.sessions_remaining
           /\ RetransmitSlots(less) = RetransmitSlots(packet)
<1>1. PICK n \in 1..SessionsLimit : packet \in PacketType(n)
  BY DEF PacketGood
<1>2. /\ less.resends = packet.resends - 1
      /\ less.flags = packet.flags /\ less.slots = packet.slots
      /\ less.sessions_remaining = packet.sessions_remaining
      /\ less.packet_session_index = packet.packet_session_index
  BY <1>1 DEF PacketType, Resent
<1>3. packet.resends \in Nat /\ packet.resends - 1 \in Nat /\ Resends \in Nat /\ ResendsClosing \in Nat
  <2>1. packet.resends \in Nat
    BY PacketFacts
  <2> QED
    BY <2>1, ServerAssumption
<1>4. less \in PacketType(n)
  BY <1>1, <1>3 DEF PacketType, Resent
<1>5. Indirect(less)
  BY <1>2 DEF PacketGood, Indirect
<1>6. /\ less.resends <= Resends + ResendsClosing
      /\ less.flags = "none" => less.resends <= Resends
  BY <1>2, <1>3 DEF PacketGood
<1>7. PacketGood(less)
  <2>1. Distinct(less.slots)
    BY <1>2 DEF PacketGood
  <2> QED
    BY <1>4, <1>5, <1>6, <2>1 DEF PacketGood
<1>8. RetransmitSlots(less) = RetransmitSlots(packet)
  BY <1>2 DEF RetransmitSlots
<1> QED
  BY <1>2, <1>7, <1>8

\* A packet is sent again.
LEMMA ResendConsistent ==
    ASSUME NEW s, Consistent(s), s.queue # <<>>, NEW p, p = Head(s.queue),
           s.packets[p].resends > 0, NEW u, u = Resend(s, p)
    PROVE  Consistent(u) /\ LiveIds(u) = LiveIds(s)
<1> DEFINE X == {}
           P == DOMAIN s.packets
           packet == Resent(s.packets[p])
           v == [s EXCEPT !.packets = [@ EXCEPT ![p] = packet]]
<1>1. Proper(s, X) /\ Flags(s) /\ Good(s, Sessions) /\ Memory(s)
  BY DEF Consistent, Proper
<1>2. p \in P /\ Leads(s.queue, P, p)
  <2>1. Leads(s.queue, P, p)
    BY <1>1, HeadLeads DEF Memory
  <2> QED
    BY <2>1 DEF Leads
<1>3. PacketGood(s.packets[p])
  BY <1>1, <1>2 DEF Memory
<1>4. /\ PacketGood(packet)
      /\ packet.resends = s.packets[p].resends - 1
      /\ packet.flags = s.packets[p].flags /\ packet.slots = s.packets[p].slots
      /\ packet.sessions_remaining = s.packets[p].sessions_remaining
      /\ RetransmitSlots(packet) = RetransmitSlots(s.packets[p])
  BY <1>3, ResentFacts
<1>5. u = Requeue(v, p)
  BY DEF Resend, Resent
<1> HIDE DEF packet
<1>6. /\ Memory(v) /\ SameTable(s, v) /\ v.queue = s.queue
      /\ DOMAIN v.packets = P /\ v.packets[p] = packet
      /\ \A q \in P : q # p => v.packets[q] = s.packets[q]
  BY <1>1, <1>2, <1>4, PacketReplaced
<1> HIDE DEF v, X
<1>7. /\ Memory(u) /\ SameTable(v, u) /\ u.packets = v.packets
      /\ SameOrder(v.queue, u.queue, DOMAIN v.packets \ {p})
      /\ \A q \in DOMAIN v.packets : q # p => Precedes(u.queue, q, p)
      /\ \A q : ~ Precedes(v.queue, q, p)
  <2>1. v.queue # <<>> /\ p = Head(v.queue)
    BY <1>6
  <2> HIDE DEF P
  <2> QED
    BY <1>5, <1>6, <2>1, RequeueMemory
<1>8. SameTable(s, u)
  BY <1>6, <1>7 DEF SameTable
<1>9. \A q \in P : /\ u.packets[q].flags = s.packets[q].flags
                   /\ u.packets[q].slots = s.packets[q].slots
                   /\ u.packets[q].sessions_remaining = s.packets[q].sessions_remaining
                   /\ RetransmitSlots(u.packets[q]) = RetransmitSlots(s.packets[q])
                   /\ q # p => u.packets[q].resends = s.packets[q].resends
                   /\ s.packets[q].resends \in Nat
  <2>1. \A q \in P : s.packets[q].resends \in Nat
    BY <1>1, PacketFacts DEF Memory
  <2> QED
    BY <1>4, <1>6, <1>7, <2>1
<1>10. u.packets[p].resends = s.packets[p].resends - 1
  BY <1>4, <1>6, <1>7
<1>11. ASSUME NEW a \in P, NEW b \in P, Before(s, b, a) PROVE Before(u, b, a)
  <2>1. CASE a = p
    <3>1. s.packets[b].resends < s.packets[p].resends /\ b # p
      BY <1>6, <1>7, <1>9, <1>11, <2>1 DEF Before
    <3>2. u.packets[b].resends <= u.packets[p].resends
      BY <1>2, <1>9, <1>10, <3>1
    <3>3. Precedes(u.queue, b, p)
      <4>1. b \in DOMAIN v.packets
        BY <1>6
      <4> QED
        BY <1>7, <3>1, <4>1
    <3>4. u.packets[b].resends \in Nat /\ u.packets[p].resends \in Int
      BY <1>2, <1>9, <1>10, <3>1
    <3>5. u.packets[b].resends < u.packets[p].resends
          \/ u.packets[b].resends = u.packets[p].resends
      BY <3>2, <3>4
    <3> QED
      BY <2>1, <3>3, <3>5 DEF Before
  <2>2. CASE a # p /\ b = p
    <3>1. s.packets[p].resends <= s.packets[a].resends
      BY <1>2, <1>9, <1>11, <2>2 DEF Before
    <3>2. u.packets[p].resends < u.packets[a].resends
      <4>1. u.packets[a].resends = s.packets[a].resends /\ s.packets[a].resends \in Nat
        BY <1>9, <2>2
      <4>2. s.packets[p].resends \in Nat
        BY <1>2, <1>9
      <4> QED
        BY <1>10, <3>1, <4>1, <4>2
    <3> QED
      BY <2>2, <3>2 DEF Before
  <2>3. CASE a # p /\ b # p
    <3>1. Precedes(s.queue, b, a) => Precedes(u.queue, b, a)
      BY <1>6, <1>7, <2>3 DEF SameOrder
    <3> QED
      BY <1>9, <1>11, <2>3, <3>1 DEF Before
  <2> QED
    BY <2>1, <2>2, <2>3
<1>12. Carries(s, u, P)
  BY <1>9, <1>11 DEF Carries
<1>13. \A x, q, y : Waits(u, x, q, y) <=> Waits(s, x, q, y)
  <2>1. DOMAIN u.packets = P
    BY <1>6, <1>7
  <2> QED
    BY <1>9, <2>1 DEF Waits
<1>14. /\ Good(u, Sessions) /\ Others(s, u, X)
  <2>1. SameSessions(s, u)
    BY <1>8, SameTableSessions
  <2> QED
    BY <1>1, <2>1, SameSessionsView
<1>15. Proper(u, X)
  <2>1. \A x, q, y : x \notin X /\ Waits(s, x, q, y) => q \in P
    BY DEF Waits
  <2>2. \A x, q, y : x \notin X => (Waits(u, x, q, y) <=> Waits(s, x, q, y))
    BY <1>13
  <2> HIDE DEF P
  <2> QED
    BY <1>1, <1>7, <1>12, <1>14, <2>1, <2>2, ProperCarried
<1>16. Flags(u) /\ LiveIds(u) = LiveIds(s)
  BY <1>1, <1>8, FlagsSame
<1> QED
  BY <1>15, <1>16 DEF Consistent, X

-------------------------------------------------------------------------------
(***************************************************************************)
(* Sessions that are opened.                                               *)
(***************************************************************************)

\* A packet for one session.
Single(id, remote_id) == Packet([slot \in 0..0 |-> Slot(id, remote_id)], "none")

\* It waits for that session.
LEMMA SinglePacket ==
    ASSUME NEW id \in SessionIds, NEW remote_id \in RemoteIds,
           NEW packet, packet = Single(id, remote_id)
    PROVE  /\ PacketGood(packet)
           /\ packet.flags = "none" /\ packet.resends = Resends
           /\ packet.sessions_remaining = 1
           /\ packet.slots[0] = Slot(id, remote_id)
           /\ packet.slots[0].session_id = id /\ packet.slots[0].remote_id = remote_id
           /\ \A y : y \in RetransmitSlots(packet) <=> y = 0
<1> DEFINE n == 1
           slots == [slot \in 0..0 |-> Slot(id, remote_id)]
<1>1. n \in 1..SessionsLimit /\ 0..n - 1 = 0..0 /\ \A y : y \in 0..0 <=> y = 0
  BY IdsAssumption
<1>2. slots \in [0..n - 1 -> SlotType] /\ slots[0] = Slot(id, remote_id)
  BY <1>1 DEF Slot, SlotType
<1>3. packet = Packet(slots, "none")
  BY DEF Single
<1>5. Distinct(slots)
  BY <1>1 DEF Distinct
<1> HIDE DEF n, slots
<1>4. /\ PacketGood(packet) /\ RetransmitSlots(packet) = 0..n - 1
      /\ packet.slots = slots /\ packet.flags = "none" /\ packet.resends = Resends
      /\ packet.sessions_remaining = n
  BY <1>1, <1>2, <1>3, <1>5, PacketNew
<1> QED
  BY <1>1, <1>2, <1>4 DEF Slot, n

\* A packet is free, and there is an address for a link to it.
LEMMA FreePacket ==
    ASSUME NEW s, FreePackets(s) # {}, NEW p, p = NewPacket(s)
    PROVE  /\ p \in FreePackets(s) /\ p \in Packets /\ p \notin DOMAIN s.packets
           /\ Link(p, 0) \in Links
<1>1. p \in FreePackets(s)
  BY FreeFacts
<1>2. 0 \in 0..SessionsLimit - 1
  BY IdsAssumption
<1> QED
  BY <1>1, <1>2 DEF FreePackets, Link, Links

\* The session that is created.
Created(id, request, peer, p) ==
    [session_id     |-> id,
     send_id        |-> request,
     peer           |-> peer,
     chain          |-> <<Link(p, 0)>>,
     remote_id      |-> 0,
     remote_id_last |-> 0]

Opened(s, session) == [AddSession(s, session) EXCEPT !.session_id_last = session.session_id]

\* The session joins the others under its session id.
LEMMA OpenedView ==
    ASSUME NEW s, Consistent(s), NEW e \in Sessions, e.send_id \in RequestIds,
           s.lookup[e.send_id] = NoSession, s.lookup[e.session_id] = NoSession,
           s.sessions_len # SessionsLimit, NEW v, v = Opened(s, e)
    PROVE  /\ Good(v, Sessions) /\ SamePackets(s, v)
           /\ LiveIds(v) = LiveIds(s) \cup {e.session_id}
           /\ Entry(v, e.session_id) = e
           /\ \A z \in LiveIds(s) : Entry(v, z) = Entry(s, z)
           /\ ConnectedIds(v) = ConnectedIds(s)
           /\ v.session_id_last = e.session_id /\ v.closing = s.closing
<1> DEFINE a == AddSession(s, e)
<1>1. Good(s, Sessions) /\ DOMAIN s = ServerFields
  BY DEF Consistent, Proper, Memory
<1>2. /\ LiveIds(a) = LiveIds(s) \cup {e.session_id}
      /\ Entry(a, e.session_id) = e
      /\ \A z \in LiveIds(s) : Entry(a, z) = Entry(s, z)
      /\ ConnectedIds(a) = ConnectedIds(s)
  BY <1>1, SessionsEntries, AddSessionView
<1>3. Good(a, Sessions)
  BY <1>1, SessionsEntries, AddSessionGood
<1>4. SamePackets(s, a) /\ a.closing = s.closing /\ DOMAIN a = ServerFields
  BY <1>1 DEF AddSession, ServerFields, SamePackets
<1>5. v = [a EXCEPT !.session_id_last = e.session_id]
  BY DEF Opened
<1> HIDE DEF a
<1>6. SameSessions(a, v) /\ SamePackets(a, v) /\ v.closing = a.closing
      /\ v.session_id_last = e.session_id
  BY <1>4, <1>5 DEF SameSessions, SamePackets, ServerFields
<1>7. /\ Good(v, Sessions)
      /\ LiveIds(v) = LiveIds(a) /\ ConnectedIds(v) = ConnectedIds(a)
      /\ \A z : Entry(v, z) = Entry(a, z)
  BY <1>3, <1>6, SameSessionsView
<1> QED
  BY <1>2, <1>4, <1>6, <1>7 DEF SamePackets

\* Opening a session keeps the server consistent.
LEMMA CreateConsistent ==
    ASSUME NEW s, Consistent(s), NEW peer \in Peers, NEW request \in RequestIds,
           s.lookup[request] = NoSession, s.lookup[NextSessionId(s)] = NoSession,
           s.sessions_len # SessionsLimit, ~ s.closing, FreePackets(s) # {},
           NEW u, u = CreateSession(s, request, peer)
    PROVE  Consistent(u) /\ LiveIds(s) \subseteq LiveIds(u)
<1> DEFINE p == NewPacket(s)
           x == NextSessionId(s)
           e == Created(x, request, peer, p)
           v == Opened(s, e)
           packet == Single(x, 0)
           X == {}
           Y == {x}
<1>1. Proper(s, X) /\ Flags(s) /\ Good(s, Sessions) /\ Memory(s)
  BY DEF Consistent, Proper
<1>2. x \in SessionIds /\ x \notin LiveIds(s)
  <2>1. s.session_id_last \in Nat /\ SessionIdCount \in Nat \ {0}
    BY <1>1, IdsAssumption DEF Flags, SessionIds
  <2>2. x \in SessionIds
    BY <2>1 DEF NextSessionId, SessionIds
  <2> QED
    BY <2>2 DEF LiveIds
<1>3. 0 \in RemoteIds
  BY ServerAssumption DEF RemoteIds
<1>4. p \in FreePackets(s) /\ p \in Packets /\ p \notin DOMAIN s.packets /\ Link(p, 0) \in Links
  BY FreePacket
<1>5. u = Enqueue(v, p, packet)
  BY DEF CreateSession, Opened, Created, Single
<1>6. /\ PacketGood(packet)
      /\ packet.flags = "none" /\ packet.sessions_remaining = 1
      /\ packet.slots[0].session_id = x /\ packet.slots[0].remote_id = 0
      /\ \A y : y \in RetransmitSlots(packet) <=> y = 0
  BY <1>2, <1>3, SinglePacket
<1>7. /\ e \in Sessions /\ e.session_id = x /\ e.send_id = request
      /\ e.chain = <<Link(p, 0)>>
  <2> HIDE DEF p, x
  <2>1. <<Link(p, 0)>> \in Seq(Links)
    BY <1>4
  <2> QED
    BY <1>2, <1>3, <2>1 DEF Created, Sessions, Ids
<1>71. s.lookup[e.send_id] = NoSession /\ s.lookup[e.session_id] = NoSession /\ v = Opened(s, e)
       /\ e.send_id \in RequestIds
  BY <1>7
<1>8. X \subseteq Y /\ (\A z : z \in Y <=> z = x) /\ Y \subseteq X \cup {x}
  OBVIOUS
<1> HIDE DEF p, x, e, v, packet, X, Y
<1>9. /\ Good(v, Sessions) /\ SamePackets(s, v)
      /\ LiveIds(v) = LiveIds(s) \cup {e.session_id}
      /\ Entry(v, e.session_id) = e
      /\ \A z \in LiveIds(s) : Entry(v, z) = Entry(s, z)
      /\ ConnectedIds(v) = ConnectedIds(s)
      /\ v.session_id_last = e.session_id /\ v.closing = s.closing
  BY <1>7, <1>71, OpenedView
<1>10. /\ Memory(v) /\ p \in FreePackets(v)
       /\ \A z, q, y : Waits(v, z, q, y) <=> Waits(s, z, q, y)
  <2>1. Memory(v) /\ \A z, q, y : Waits(v, z, q, y) <=> Waits(s, z, q, y)
    BY <1>1, <1>9, MemoryKept DEF SamePackets
  <2> QED
    BY <1>4, <1>9, <2>1 DEF FreePackets, SamePackets
<1>11. /\ Memory(u) /\ SameTable(v, u)
       /\ DOMAIN u.packets = DOMAIN v.packets \cup {p} /\ u.packets[p] = packet
       /\ Preserved(v, u, DOMAIN v.packets)
       /\ \A z, q, y : Waits(u, z, q, y) <=>
             \/ Waits(v, z, q, y)
             \/ q = p /\ y \in RetransmitSlots(packet) /\ packet.slots[y].session_id = z
  BY <1>5, <1>6, <1>10, EnqueueMemory
<1>12. SameSessions(v, u) /\ u.session_id_last = v.session_id_last /\ u.closing = v.closing
  BY <1>11, SameTableSessions
<1>13. /\ Good(u, Sessions) /\ LiveIds(u) = LiveIds(v) /\ ConnectedIds(u) = ConnectedIds(v)
       /\ \A z : Entry(u, z) = Entry(v, z)
  BY <1>9, <1>12, SameSessionsView
<1>14. Others(s, u, Y)
  BY <1>7, <1>8, <1>9, <1>13 DEF Others
<1>15. \A z, q, y : Waits(u, z, q, y) <=> Waits(s, z, q, y) \/ (q = p /\ y = 0 /\ z = x)
  BY <1>6, <1>10, <1>11
<1>16. Proper(u, Y)
  <2>1. Proper(s, Y)
    BY <1>1, <1>8, ProperLoosened
  <2>2. Preserved(s, u, DOMAIN s.packets)
    BY <1>9, <1>11 DEF Preserved, SamePackets
  <2>3. \A z, q, y : z \notin Y => (Waits(u, z, q, y) <=> Waits(s, z, q, y))
    BY <1>8, <1>15
  <2>4. \A z, q, y : z \notin Y /\ Waits(s, z, q, y) => q \in DOMAIN s.packets
    BY DEF Waits
  <2> QED
    BY <1>11, <1>13, <1>14, <2>1, <2>2, <2>3, <2>4, ProperKept
<1>17. Entry(u, x) = e /\ x \in LiveIds(u) /\ x \notin ConnectedIds(u)
  BY <1>2, <1>7, <1>9, <1>13 DEF ConnectedIds
<1>18. Chained(u, x)
  <2>1. Len(e.chain) = 1 /\ e.chain[1] = Link(p, 0) /\ \A k : k \in 1..1 => k = 1
    BY <1>7
  <2>2. Ordered(u, e.chain)
    BY <2>1 DEF Ordered
  <2>3. LinkSlot(u, e.chain[1]).remote_id = 0 /\ u.packets[e.chain[1].packet] = packet
    BY <1>6, <1>11, <2>1, LinkParts DEF LinkSlot
  <2>4. IsOpening(e)
    BY <1>2, <1>7, IdsAssumption DEF IsOpening
  <2>5. Alone(u, e)
    BY <1>6, <2>1, <2>3, <2>4 DEF Alone
  <2> QED
    BY <1>17, <2>2, <2>5 DEF Chained
<1>19. \A q, y : Waits(u, x, q, y) <=> Holds(u, x, q, y)
  <2>1. \A q, y : ~ Waits(s, x, q, y)
    BY <1>1, <1>2 DEF Proper, Holds, X
  <2>2. \A link : InChain(e.chain, link) <=> link = Link(p, 0)
    BY <1>7 DEF InChain
  <2>3. \A q, y : q = p /\ y = 0 <=> Link(q, y) = Link(p, 0)
    BY LinkParts
  <2> QED
    BY <1>15, <1>17, <2>1, <2>2, <2>3 DEF Holds
<1>20. Proper(u, X)
  BY <1>8, <1>16, <1>18, <1>19, ProperWith
<1>21. Flags(u)
  <2>1. u.session_id_last \in SessionIds
    BY <1>2, <1>7, <1>9, <1>12
  <2>2. u.closing = s.closing /\ s.closing \in BOOLEAN
    BY <1>1, <1>9, <1>12 DEF Flags
  <2>3. ~ u.closing /\ u.closing \in BOOLEAN
    BY <2>2
  <2>4. Packets # {}
    BY <1>4
  <2> QED
    BY <2>1, <2>3, <2>4 DEF Flags
<1> QED
  BY <1>9, <1>13, <1>20, <1>21 DEF Consistent, X

\* The cache is dumped to session x at index i, in packets of which m were sent.
Dumping(w, t, Y, x, i, m) ==
    /\ Proper(t, Y)
    /\ i \in Indexes(t) /\ x = t.sessions[i].session_id
    /\ ChainUpTo(t, Entry(t, x).chain, m)
    /\ Entry(t, x).remote_id = CacheChunks
    /\ \A q, y : Waits(t, x, q, y) <=> Holds(t, x, q, y)
    /\ LiveIds(t) = LiveIds(w) /\ ConnectedIds(t) = ConnectedIds(w)
    /\ t.session_id_last = w.session_id_last /\ t.closing = w.closing

\* One chunk more is sent.
LEMMA ChunkSent ==
    ASSUME NEW w, NEW s, NEW Y, NEW x \in Y, NEW i, NEW m, Dumping(w, s, Y, x, i, m),
           NEW chunk \in 1..CacheChunks, m = chunk - 1, FreePackets(s) # {},
           NEW u, u = SendChunk(s, i, chunk)
    PROVE  Dumping(w, u, Y, x, i, chunk) /\ Uses(s, u)
<1> DEFINE p == NewPacket(s)
           chain == s.sessions[i].chain
           longer == Append(chain, Link(p, 0))
           v == SetChain(s, i, longer)
           packet == Single(x, chunk)
<1>1. /\ Proper(s, Y) /\ Good(s, Sessions) /\ Memory(s)
      /\ i \in Indexes(s) /\ x = s.sessions[i].session_id
      /\ ChainUpTo(s, Entry(s, x).chain, m)
      /\ Entry(s, x).remote_id = CacheChunks
      /\ LiveIds(s) = LiveIds(w) /\ ConnectedIds(s) = ConnectedIds(w)
      /\ s.session_id_last = w.session_id_last /\ s.closing = w.closing
  BY DEF Dumping, Proper
<1>2. \A q, y : Waits(s, x, q, y) <=> Holds(s, x, q, y)
  BY DEF Dumping
<1>3. x \in LiveIds(s) /\ Entry(s, x) = s.sessions[i] /\ s.sessions[i] \in Sessions
  BY <1>1, AtIndex DEF Good, Shape
<1>4. p \in FreePackets(s) /\ p \in Packets /\ p \notin DOMAIN s.packets /\ Link(p, 0) \in Links
  BY FreePacket
<1>5. x \in SessionIds /\ chunk \in RemoteIds /\ NextRemoteId(m) = chunk
  <2>1. x \in SessionIds
    BY <1>1, <1>3 DEF Sessions
  <2>2. PICK r \in Nat : r = RemoteIdCount /\ CacheChunks \in 1..r - 1
    BY ServerAssumption
  <2>3. chunk \in 0..r - 1 /\ (m + 1) % r = chunk
    <3>1. chunk \in Nat /\ chunk < r /\ m + 1 = chunk
      BY <2>2
    <3>2. chunk % r = chunk
      BY <3>1
    <3> QED
      BY <3>1, <3>2
  <2> QED
    BY <2>1, <2>2, <2>3 DEF RemoteIds, NextRemoteId
<1>6. /\ PacketGood(packet)
      /\ packet.flags = "none" /\ packet.resends = Resends
      /\ packet.slots[0].session_id = x /\ packet.slots[0].remote_id = chunk
      /\ \A y : y \in RetransmitSlots(packet) <=> y = 0
  <2>1. packet = Single(x, chunk)
    OBVIOUS
  <2> HIDE DEF packet
  <2> QED
    BY <1>5, <2>1, SinglePacket
<1>7. u = Enqueue(v, p, packet)
  BY <1>1 DEF SendChunk, SetChain, Single
<1>8. chain = Entry(s, x).chain /\ longer = Append(chain, Link(p, 0)) /\ longer \in Seq(Links)
      /\ v = SetChain(s, i, longer) /\ chain \in Seq(Links)
  <2>1. chain \in Seq(Links)
    BY <1>3 DEF Sessions
  <2> QED
    BY <1>3, <1>4, <2>1
<1> HIDE DEF p, chain, longer, v, packet
<1>9. /\ Good(v, Sessions) /\ DOMAIN v = DOMAIN s
      /\ LiveIds(v) = LiveIds(s) /\ ConnectedIds(v) = ConnectedIds(s)
      /\ Entry(v, x).chain = longer /\ Entry(v, x).remote_id = Entry(s, x).remote_id
      /\ Entry(v, x).session_id = x
      /\ \A z \in LiveIds(s) : z # x => Entry(v, z) = Entry(s, z)
      /\ v.lookup = s.lookup /\ v.sessions_len = s.sessions_len
      /\ v.packets = s.packets /\ v.queue = s.queue /\ v.queue_tail = s.queue_tail
      /\ v.session_id_last = s.session_id_last /\ v.closing = s.closing
  <2>1. Good(s, Sessions) /\ i \in Indexes(s) /\ x = s.sessions[i].session_id
    BY <1>1
  <2>2. longer \in Seq(Links) /\ v = SetChain(s, i, longer)
    BY <1>8
  <2> QED
    BY <2>1, <2>2, ChainWritten
<1>10. /\ Memory(v) /\ p \in FreePackets(v)
       /\ \A z, q, y : Waits(v, z, q, y) <=> Waits(s, z, q, y)
  <2>1. Memory(v) /\ \A z, q, y : Waits(v, z, q, y) <=> Waits(s, z, q, y)
    BY <1>1, <1>9, MemoryKept
  <2> QED
    BY <1>4, <1>9, <2>1 DEF FreePackets
<1>11. /\ Memory(u) /\ SameTable(v, u)
       /\ DOMAIN u.packets = DOMAIN v.packets \cup {p} /\ u.packets[p] = packet
       /\ Preserved(v, u, DOMAIN v.packets)
       /\ \A q \in DOMAIN v.packets : Precedes(u.queue, q, p)
       /\ \A z, q, y : Waits(u, z, q, y) <=>
             \/ Waits(v, z, q, y)
             \/ q = p /\ y \in RetransmitSlots(packet) /\ packet.slots[y].session_id = z
  BY <1>6, <1>7, <1>10, EnqueueMemory
<1>12. Newest(s, u, p)
  BY <1>4, <1>6, <1>9, <1>11 DEF Newest, Preserved
<1>13. SameSessions(v, u) /\ u.session_id_last = v.session_id_last /\ u.closing = v.closing
  BY <1>11, SameTableSessions
<1>14. /\ Good(u, Sessions) /\ LiveIds(u) = LiveIds(v) /\ ConnectedIds(u) = ConnectedIds(v)
       /\ Indexes(u) = Indexes(v) /\ \A z : Entry(u, z) = Entry(v, z)
  BY <1>9, <1>13, SameSessionsView
<1>15. \A z, q, y : Waits(u, z, q, y) <=> Waits(s, z, q, y) \/ (q = p /\ y = 0 /\ z = x)
  BY <1>6, <1>10, <1>11
<1>16. Proper(u, Y)
  <2>1. Others(s, u, Y)
    BY <1>9, <1>14 DEF Others
  <2>2. Preserved(s, u, DOMAIN s.packets)
    BY <1>12 DEF Newest
  <2>3. \A z, q, y : z \notin Y => (Waits(u, z, q, y) <=> Waits(s, z, q, y))
    BY <1>15
  <2>4. \A z, q, y : z \notin Y /\ Waits(s, z, q, y) => q \in DOMAIN s.packets
    BY DEF Waits
  <2> QED
    BY <1>1, <1>11, <1>14, <2>1, <2>2, <2>3, <2>4, ProperKept
<1>17. i \in Indexes(u) /\ x = u.sessions[i].session_id
  <2>1. i \in Indexes(v) /\ v.sessions[i] = Entry(v, x)
    <3>1. s.lookup[x] = i
      BY <1>1, AtIndex
    <3> QED
      BY <1>1, <1>9, <3>1 DEF Entry, Indexes
  <2> QED
    BY <1>9, <1>13, <1>14, <2>1 DEF SameSessions
<1>18. Entry(u, x).chain = longer /\ Entry(u, x).remote_id = CacheChunks
  BY <1>1, <1>9, <1>14
<1>19. ChainUpTo(u, longer, chunk)
  <2>1. ChainUpTo(s, chain, m)
    BY <1>1, <1>8
  <2>2. u.packets[p].slots[0].remote_id = NextRemoteId(m)
    BY <1>5, <1>6, <1>11
  <2>31. Memory(s) /\ Memory(u) /\ Link(p, 0) \in Links /\ longer = Append(chain, Link(p, 0))
    BY <1>1, <1>4, <1>8, <1>11
  <2>3. Ordered(u, longer) /\ Numbered(u, longer, NextRemoteId(m))
    BY <1>12, <2>1, <2>2, <2>31, ChainAppended
  <2>4. \A k \in 1..Len(longer) : longer[k].packet \in DOMAIN u.packets
    <3>1. \A k \in 1..Len(chain) : chain[k].packet \in DOMAIN s.packets
      BY <2>1 DEF ChainUpTo
    <3>2. \A k \in 1..Len(longer) : \/ longer[k] = Link(p, 0)
                                    \/ k \in 1..Len(chain) /\ longer[k] = chain[k]
      BY <1>8
    <3> QED
      BY <1>9, <1>11, <3>1, <3>2, LinkParts
  <2> QED
    BY <1>5, <1>8, <2>3, <2>4 DEF ChainUpTo
<1>20. \A q, y : Waits(u, x, q, y) <=> Holds(u, x, q, y)
  <2>1. \A q, y : Waits(s, x, q, y) <=> InChain(chain, Link(q, y))
    BY <1>2, <1>3, <1>8 DEF Holds
  <2>2. \A link : InChain(longer, link) <=> InChain(chain, link) \/ link = Link(p, 0)
    BY <1>8, InLonger
  <2>3. \A q, y : q = p /\ y = 0 <=> Link(q, y) = Link(p, 0)
    BY LinkParts
  <2>4. \A q, y : Holds(u, x, q, y) <=> InChain(longer, Link(q, y))
    BY <1>3, <1>9, <1>14, <1>18 DEF Holds
  <2> QED
    BY <1>15, <2>1, <2>2, <2>3, <2>4
<1>21. Dumping(w, u, Y, x, i, chunk)
  BY <1>1, <1>9, <1>13, <1>14, <1>16, <1>17, <1>18, <1>19, <1>20 DEF Dumping
<1>22. Uses(s, u)
  BY <1>4, <1>9, <1>11 DEF Uses, FreePackets
<1> QED
  BY <1>21, <1>22

\* Packets that are the same are preserved.
LEMMA PreservedSame ==
    ASSUME NEW s, NEW u, Memory(s), SamePackets(s, u)
    PROVE  Preserved(s, u, DOMAIN s.packets) /\ Memory(u)
           /\ \A x, p, y : Waits(u, x, p, y) <=> Waits(s, x, p, y)
<1>1. Memory(u) /\ \A x, p, y : Waits(u, x, p, y) <=> Waits(s, x, p, y)
  BY MemoryKept DEF SamePackets
<1>2. SameOrder(s.queue, u.queue, DOMAIN s.packets)
  BY DEF SamePackets, SameOrder
<1>3. \A p \in DOMAIN s.packets : SameContent(s.packets[p], u.packets[p])
  <2>1. \A p \in DOMAIN s.packets : s.packets[p].sessions_remaining \in Nat
    BY PacketFacts DEF Memory
  <2> QED
    BY <2>1 DEF SamePackets, SameContent
<1> QED
  BY <1>1, <1>2, <1>3 DEF Preserved, SamePackets

\* Before the dump the session has nothing to wait for.
Emptied(s, i) == [s EXCEPT !.sessions[i].chain = <<>>, !.sessions[i].remote_id = CacheChunks]

\* The dump starts with a chain that is empty.
LEMMA EmptiedDumping ==
    ASSUME NEW w, NEW Y, NEW x \in Y, Proper(w, Y), NEW i \in Indexes(w),
           x = w.sessions[i].session_id, Forgotten(w, x), NEW u, u = Emptied(w, i)
    PROVE  Dumping(w, u, Y, x, i, 0) /\ FreePackets(u) = FreePackets(w)
<1> DEFINE o == w.sessions[i]
           e == [o EXCEPT !.chain = <<>>, !.remote_id = CacheChunks]
<1>1. Good(w, Sessions) /\ Memory(w)
  BY DEF Proper
<1>2. x \in LiveIds(w) /\ o \in Sessions /\ w.lookup[x] = i
  BY <1>1, AtIndex DEF Good, Shape
<1>3. /\ e \in Sessions /\ e.session_id = x /\ e.send_id = w.sessions[i].send_id
      /\ e.chain = <<>> /\ e.remote_id = CacheChunks
  <2>1. x = o.session_id /\ o.send_id = w.sessions[i].send_id /\ CacheChunks \in RemoteIds
        /\ <<>> \in Seq(Links)
    BY ServerAssumption DEF RemoteIds
  <2> HIDE DEF o
  <2> QED
    BY <1>2, <2>1 DEF Sessions
<1>4. Written(w, u, i, x, e)
  BY <1>3 DEF Written, Emptied
<1> HIDE DEF e, o
<1>5. /\ Good(u, Sessions) /\ DOMAIN u = DOMAIN w
      /\ LiveIds(u) = LiveIds(w) /\ ConnectedIds(u) = ConnectedIds(w)
      /\ x \in LiveIds(w) /\ Entry(u, x) = e
      /\ \A z \in LiveIds(w) : z # x => Entry(u, z) = Entry(w, z)
      /\ u.sessions_len = w.sessions_len /\ u.sessions[i] = e
      /\ u.packets = w.packets /\ u.queue = w.queue /\ u.queue_tail = w.queue_tail
      /\ u.session_id_last = w.session_id_last /\ u.closing = w.closing
  BY <1>1, <1>4, WrittenView
<1>6. SamePackets(w, u)
  BY <1>5 DEF SamePackets
<1>7. /\ Preserved(w, u, DOMAIN w.packets) /\ Memory(u)
      /\ \A z, p, y : Waits(u, z, p, y) <=> Waits(w, z, p, y)
  BY <1>1, <1>6, PreservedSame
<1>8. Proper(u, Y)
  <2>1. Others(w, u, Y)
    BY <1>5 DEF Others
  <2>2. \A z, q, y : z \notin Y /\ Waits(w, z, q, y) => q \in DOMAIN w.packets
    BY DEF Waits
  <2> QED
    BY <1>5, <1>7, <2>1, <2>2, ProperKept
<1>9. Entry(u, x).chain = <<>> /\ Entry(u, x).remote_id = CacheChunks
  BY <1>3, <1>5
<1>10. ChainUpTo(u, Entry(u, x).chain, 0)
  BY <1>9 DEF ChainUpTo, Ordered, Numbered
<1>11. \A q, y : Waits(u, x, q, y) <=> Holds(u, x, q, y)
  <2>1. \A q, y : ~ Holds(u, x, q, y)
    BY <1>9 DEF Holds, InChain
  <2> QED
    BY <1>7, <2>1 DEF Forgotten
<1>12. i \in Indexes(u) /\ x = u.sessions[i].session_id
  BY <1>3, <1>5 DEF Indexes
<1> QED
  BY <1>5, <1>8, <1>9, <1>10, <1>11, <1>12 DEF Dumping, FreePackets

\* The whole cache is dumped.
LEMMA CacheDumped ==
    ASSUME NEW s, NEW Y, NEW x \in Y, Proper(s, Y), NEW i \in Indexes(s),
           x = s.sessions[i].session_id, Forgotten(s, x),
           CacheChunks <= Cardinality(FreePackets(s)), NEW u, u = DumpCache(s, i)
    PROVE  Dumping(s, u, Y, x, i, CacheChunks)
<1> DEFINE n == CacheChunks
           first == Emptied(s, i)
           Step(f, m) == [k \in 0..m |-> IF k = 0 THEN first ELSE SendChunk(f[k - 1], i, k)]
           after == CHOOSE f : f = Step(f, n)
<1>0. n \in Nat
  BY ServerAssumption
<1>1. \E f : f = Step(f, n)
  <2> DEFINE S == {m \in Nat : \E f : f = Step(f, m)}
  <2>1. 0 \in S
    <3>1. [k \in 0..0 |-> first] = Step([k \in 0..0 |-> first], 0)
      OBVIOUS
    <3> QED
      BY <3>1
  <2>2. ASSUME NEW m \in Nat, m \in S PROVE m + 1 \in S
    <3>1. PICK f : f = Step(f, m)
      BY <2>2
    <3> DEFINE g == [k \in 0..m + 1 |-> IF k = 0 THEN first ELSE SendChunk(f[k - 1], i, k)]
    <3>2. \A k \in 0..m : f[k] = g[k]
      BY <3>1
    <3>3. \A k \in 0..m + 1 : g[k] = Step(g, m + 1)[k]
      <4> TAKE k \in 0..m + 1
      <4>1. CASE k = 0
        BY <4>1
      <4>2. CASE k # 0
        <5>1. k - 1 \in 0..m
          BY <4>2
        <5> QED
          BY <3>2, <4>2, <5>1
      <4> QED
        BY <4>1, <4>2
    <3>4. g = Step(g, m + 1)
      BY <3>3
    <3> HIDE DEF g, Step
    <3> QED
      BY <3>4
  <2>3. Nat \subseteq S
    <3> HIDE DEF S
    <3> QED
      BY <2>1, <2>2, NatInductionSet
  <2> QED
    BY <1>0, <2>3
<1>2. after = Step(after, n)
  <2> HIDE DEF Step
  <2> QED
    BY <1>1
<1>3. u = after[n]
  BY DEF DumpCache, Emptied
<1> HIDE DEF after
<1>4. after[0] = first /\ \A k \in 1..n : after[k] = SendChunk(after[k - 1], i, k)
  <2> HIDE DEF n, first
  <2> QED
    BY <1>0, <1>2
<1> HIDE DEF n
<1> DEFINE Done(m) == /\ Dumping(s, after[m], Y, x, i, m)
                      /\ Cardinality(FreePackets(after[m])) = Cardinality(FreePackets(s)) - m
           S == {m \in Nat : m <= n => Done(m)}
<1>5. n <= Cardinality(FreePackets(s)) /\ Cardinality(FreePackets(s)) \in Nat
  BY FreeFacts DEF n
<1>6. 0 \in S
  <2>1. first = Emptied(s, i)
    OBVIOUS
  <2> HIDE DEF first
  <2>2. Dumping(s, first, Y, x, i, 0) /\ FreePackets(first) = FreePackets(s)
    BY <2>1, EmptiedDumping
  <2> QED
    BY <1>4, <1>5, <2>2
<1>7. ASSUME NEW m \in Nat, m \in S PROVE m + 1 \in S
  <2> SUFFICES ASSUME m + 1 <= n PROVE Done(m + 1)
    OBVIOUS
  <2>1. m + 1 \in 1..n /\ (m + 1) - 1 = m /\ m <= n
    BY <1>0
  <2> DEFINE v == after[m]
             w == after[m + 1]
  <2>2. Done(m) /\ w = SendChunk(v, i, m + 1)
    BY <1>4, <1>7, <2>1
  <2>3. /\ Dumping(s, v, Y, x, i, m)
        /\ Cardinality(FreePackets(v)) = Cardinality(FreePackets(s)) - m
    BY <2>2
  <2> HIDE DEF v, w, Done
  <2>4. Cardinality(FreePackets(v)) > 0
    BY <1>0, <1>5, <2>1, <2>3
  <2>5. FreePackets(v) # {} /\ m + 1 \in 1..CacheChunks /\ m = (m + 1) - 1
    BY <2>1, <2>4, FreeFacts DEF n
  <2>6. Dumping(s, w, Y, x, i, m + 1) /\ Uses(v, w)
    BY <2>2, <2>3, <2>5, ChunkSent
  <2>7. Cardinality(FreePackets(w)) = Cardinality(FreePackets(v)) - 1
    BY <2>6, FreeUsed
  <2>8. Cardinality(FreePackets(w)) = Cardinality(FreePackets(s)) - (m + 1)
    BY <1>5, <2>3, <2>7
  <2> QED
    BY <2>6, <2>8 DEF Done, w
<1>8. Nat \subseteq S
  <2> HIDE DEF S
  <2> QED
    BY <1>6, <1>7, NatInductionSet
<1> QED
  BY <1>0, <1>3, <1>8 DEF n

\* Connecting a session leaves packets alone.
LEMMA ConnectTableOnly ==
    ASSUME NEW s, DOMAIN s = ServerFields, NEW request
    PROVE  TableOnly(s, ConnectSession(s, request))
<1> DEFINE i == s.lookup[request]
           c == s.sessions_connected
           swapped == SwapSession(s, i)
           moved == [swapped EXCEPT !.lookup = [@ EXCEPT ![swapped.sessions[i].send_id] = i]]
           v == IF i = c THEN s ELSE moved
<1>1. TableOnly(s, swapped) /\ DOMAIN swapped = ServerFields
  BY DEF SwapSession, TableOnly, SamePackets, ServerFields
<1>2. ConnectSession(s, request) = PromoteSession(v, c, request)
  BY DEF ConnectSession
<1> HIDE DEF swapped
<1>3. TableOnly(swapped, moved) /\ DOMAIN moved = ServerFields
  BY <1>1 DEF TableOnly, SamePackets, ServerFields
<1> HIDE DEF moved
<1>4. TableOnly(s, v) /\ DOMAIN v = ServerFields
  BY <1>1, <1>3 DEF TableOnly, SamePackets
<1> HIDE DEF v, c
<1>5. TableOnly(v, PromoteSession(v, c, request))
  BY <1>4 DEF PromoteSession, TableOnly, SamePackets, ServerFields
<1> QED
  BY <1>2, <1>4, <1>5 DEF TableOnly, SamePackets

\* Completing an opening handshake keeps the server consistent.
LEMMA CompleteConsistent ==
    ASSUME NEW s, Consistent(s), NEW request \in RequestIds, s.lookup[request] # NoSession,
           CacheChunks <= Cardinality(FreePackets(s)), NEW u, u = CompleteSession(s, request)
    PROVE  Consistent(u) /\ LiveIds(u) = LiveIds(s)
<1> DEFINE i == s.lookup[request]
           c == s.sessions_connected
           x == s.sessions[i].session_id
           chain == s.sessions[i].chain
           v == ConnectSession(s, request)
           X == {}
           Y == {x}
<1>1. Proper(s, X) /\ Flags(s) /\ Good(s, Sessions) /\ Memory(s) /\ DOMAIN s = ServerFields
  BY DEF Consistent, Proper, Memory
<1>2. X \subseteq Y /\ (\A z : z \in Y <=> z = x) /\ Y \subseteq X \cup {x}
  OBVIOUS
<1>21. v = ConnectSession(s, request) /\ x = s.sessions[s.lookup[request]].session_id
  OBVIOUS
<1>22. u = DumpCache(Release(v, Head(chain).packet), c)
  BY DEF CompleteSession
<1> HIDE DEF v, X, Y, x
<1>3. /\ x \in LiveIds(s) \ ConnectedIds(s) /\ x \in LiveIds(s) \ X
      /\ Entry(s, x) = s.sessions[i] /\ Entry(s, x).send_id = request
      /\ Settles(s, v, x, ConnectedIds(s) \cup {x})
      /\ v.lookup[x] = c
  BY <1>1, <1>21, SessionsEntries, ConnectView DEF X
<1>4. Good(v, Sessions)
  BY <1>1, <1>21, SessionsEntries, ConnectGood
<1>5. TableOnly(s, v) /\ DOMAIN v = ServerFields
  BY <1>1, <1>21, ConnectTableOnly DEF TableOnly, SamePackets
<1>6. chain = Entry(s, x).chain
  BY <1>3
<1>7. /\ chain \in Seq(Links)
      /\ \A k \in 1..Len(chain) : /\ Waits(s, x, chain[k].packet, chain[k].slot)
                                  /\ chain[k] = Link(chain[k].packet, chain[k].slot)
  <2> HIDE DEF chain
  <2> QED
    BY <1>1, <1>3, <1>6, ChainWaits
<1>8. x \in SessionIds /\ IsOpening(Entry(s, x))
  <2>1. Entry(s, x).session_id = x /\ x \in SessionIds
    BY <1>1, <1>3, EntryOf
  <2> QED
    BY <1>3, <2>1, IdsAssumption DEF IsOpening
<1>9. Len(chain) = 1 /\ s.packets[chain[1].packet].sessions_remaining = 1
  <2>1. Alone(s, Entry(s, x))
    BY <1>1, <1>3 DEF Proper, Chained
  <2> QED
    BY <1>6, <1>8, <2>1 DEF Alone
<1>10. PICK p, y : chain[1] = Link(p, y) /\ Waits(s, x, p, y)
  <2>1. 1 \in 1..Len(chain)
    <3> HIDE DEF chain
    <3> QED
      BY <1>9
  <2> QED
    BY <1>7, <2>1
<1>11. Head(chain).packet = p
  <2>1. Head(chain) = chain[1]
    <3>1. chain \in Seq(Links) /\ Len(chain) = 1
      BY <1>7, <1>9
    <3> HIDE DEF chain
    <3> QED
      BY <3>1
  <2> HIDE DEF chain
  <2> QED
    BY <1>10, <2>1, LinkParts
<1>12. \A q, z : Waits(s, x, q, z) => q = p /\ z = y
  <2>1. \A q, z : Waits(s, x, q, z) => InChain(chain, Link(q, z))
    BY <1>1, <1>3, <1>6 DEF Proper, Holds
  <2>2. \A q, z : InChain(chain, Link(q, z)) => Link(q, z) = Link(p, y)
    BY <1>9, <1>10 DEF InChain
  <2> QED
    BY <2>1, <2>2, LinkParts
<1> HIDE DEF chain
\* The table.
<1>13. /\ LiveIds(v) = LiveIds(s)
       /\ \A z \in LiveIds(s) : z # x => Entry(v, z) = Entry(s, z)
       /\ x \in ConnectedIds(v) /\ \A z : z # x => (z \in ConnectedIds(v) <=> z \in ConnectedIds(s))
  BY <1>3 DEF Settles
<1>14. Proper(v, Y)
  <2>1. Proper(s, Y)
    BY <1>1, <1>2, ProperLoosened
  <2>2. Others(s, v, Y)
    BY <1>2, <1>13 DEF Others
  <2>3. SamePackets(s, v)
    BY <1>5 DEF TableOnly
  <2>4. /\ Preserved(s, v, DOMAIN s.packets) /\ Memory(v)
        /\ \A z, q, k : Waits(v, z, q, k) <=> Waits(s, z, q, k)
    BY <1>1, <2>3, PreservedSame
  <2>5. \A z, q, k : z \notin Y /\ Waits(s, z, q, k) => q \in DOMAIN s.packets
    BY DEF Waits
  <2> QED
    BY <1>4, <2>1, <2>2, <2>4, <2>5, ProperKept
\* The packet of the opening handshake.
<1> DEFINE w == Release(v, p)
           L == {Link(p, y)}
<1>15. v.packets = s.packets /\ v.queue = s.queue
  BY <1>5 DEF TableOnly, SamePackets
<1>16. Less(v, w, L)
  <2>1. p \in DOMAIN v.packets /\ y \in RetransmitSlots(v.packets[p]) /\ Memory(v)
    BY <1>10, <1>14, <1>15 DEF Waits, Proper
  <2>2. ~ (v.packets[p].sessions_remaining > 1)
    BY <1>9, <1>10, <1>15, LinkParts
  <2> QED
    BY <2>1, <2>2, ReleaseMemory
<1>17. \A q, z : Link(q, z) \in L <=> q = p /\ z = y
  BY LinkParts
<1> HIDE DEF L, w
<1>18. \A z, q, k : Waits(v, z, q, k) <=> Waits(s, z, q, k)
  BY <1>15 DEF Waits
<1>19. SameSessions(v, w) /\ w.session_id_last = v.session_id_last /\ w.closing = v.closing
  BY <1>16, SameTableSessions DEF Less
<1>20. /\ Good(w, Sessions) /\ LiveIds(w) = LiveIds(v) /\ ConnectedIds(w) = ConnectedIds(v)
       /\ Indexes(w) = Indexes(v) /\ Others(v, w, Y)
  BY <1>4, <1>19, SameSessionsView
<1>23. Proper(w, Y)
  <2>1. OnlyOf(v, L, Y)
    BY <1>2, <1>10, <1>17, <1>18 DEF OnlyOf
  <2>2. SamePackets(w, w)
    BY DEF SamePackets
  <2> QED
    BY <1>14, <1>16, <1>20, <2>1, <2>2, ProperLess
<1>24. Forgotten(w, x)
  BY <1>12, <1>16, <1>17, <1>18 DEF Less, Forgotten
<1>25. CacheChunks <= Cardinality(FreePackets(w))
  <2>1. FreePackets(s) \subseteq FreePackets(w)
    BY <1>15, <1>16 DEF Less, Preserved, FreePackets
  <2>2. IsFiniteSet(FreePackets(w))
    BY ServerAssumption, FS_Subset DEF FreePackets
  <2>3. Cardinality(FreePackets(s)) <= Cardinality(FreePackets(w))
    BY <2>1, <2>2, FS_Subset
  <2>4. Cardinality(FreePackets(s)) \in Nat /\ Cardinality(FreePackets(w)) \in Nat /\ CacheChunks \in Nat
    BY FreeFacts, ServerAssumption
  <2> QED
    BY <2>3, <2>4
<1>26. c \in Indexes(w) /\ x = w.sessions[c].session_id
  <2>1. x \in LiveIds(v)
    BY <1>3, <1>13
  <2>2. v.lookup[x] \in Indexes(v) /\ Entry(v, x).session_id = x
    BY <1>4, <2>1, EntryOf
  <2> QED
    BY <1>3, <1>19, <1>20, <2>2 DEF Entry, SameSessions
\* The cache.
<1>27. u = DumpCache(w, c) /\ x \in Y
  BY <1>2, <1>11, <1>22 DEF w
<1> HIDE DEF c
<1>28. Dumping(w, u, Y, x, c, CacheChunks)
  BY <1>23, <1>24, <1>25, <1>26, <1>27, CacheDumped
<1>29. /\ Proper(u, Y) /\ ChainUpTo(u, Entry(u, x).chain, CacheChunks)
       /\ Entry(u, x).remote_id = CacheChunks
       /\ LiveIds(u) = LiveIds(w) /\ ConnectedIds(u) = ConnectedIds(w)
       /\ u.session_id_last = w.session_id_last /\ u.closing = w.closing
  BY <1>28 DEF Dumping
<1>30. \A q, k : Waits(u, x, q, k) <=> Holds(u, x, q, k)
  BY <1>28 DEF Dumping
<1>31. Chained(u, x)
  BY <1>13, <1>20, <1>29 DEF ChainUpTo, Chained
<1>32. Proper(u, X)
  BY <1>2, <1>29, <1>30, <1>31, ProperWith
<1>33. LiveIds(u) = LiveIds(s)
  BY <1>13, <1>20, <1>29
<1>34. Flags(u)
  <2>1. ~ s.closing
    BY <1>1, <1>3, <1>8 DEF Flags, OnlyClosing
  <2>2. u.session_id_last = s.session_id_last /\ u.closing = s.closing
    BY <1>5, <1>19, <1>29 DEF TableOnly
  <2> QED
    BY <1>1, <1>33, <2>1, <2>2, FlagsKept
<1> QED
  BY <1>32, <1>33, <1>34 DEF Consistent, X

-------------------------------------------------------------------------------
(***************************************************************************)
(* Sessions that do not answer the closing request.                        *)
(***************************************************************************)

\* A packet waits for a session at most once.
LEMMA WaitsOnce ==
    ASSUME NEW s, Consistent(s), NEW x, NEW p, NEW y, NEW z, Waits(s, x, p, y), Waits(s, x, p, z)
    PROVE  y = z
<1> DEFINE chain == Entry(s, x).chain
           X == {}
<1>1. Proper(s, X)
  BY DEF Consistent
<1>2. x \in LiveIds(s) \ X /\ chain = Entry(s, x).chain
      /\ InChain(chain, Link(p, y)) /\ InChain(chain, Link(p, z))
  BY <1>1 DEF Proper, Holds
<1> HIDE DEF chain, X
<1>3. \A j, k \in 1..Len(chain) : chain[j].packet = chain[k].packet => j = k
  BY <1>1, <1>2, ChainWaits
<1>4. PICK j \in 1..Len(chain) : chain[j] = Link(p, y)
  BY <1>2 DEF InChain
<1>5. PICK k \in 1..Len(chain) : chain[k] = Link(p, z)
  BY <1>2 DEF InChain
<1>6. Link(p, y) = Link(p, z)
  BY <1>3, <1>4, <1>5, LinkParts
<1> QED
  BY <1>6, LinkParts

\* The session of the slot that is visited as the k-th.
VisitedId(packet, k) == packet.slots[Visited(packet, k)].session_id

VisitedIds(packet, n) == {VisitedId(packet, k) : k \in 1..n}

\* Every session that waits for a packet is visited, and each only once.
LEMMA VisitsAll ==
    ASSUME NEW s, Consistent(s), NEW p \in DOMAIN s.packets,
           NEW packet, packet = s.packets[p], NEW n, n = packet.sessions_remaining
    PROVE  /\ n \in Nat
           /\ \A k \in 1..n : Waits(s, VisitedId(packet, k), p, Visited(packet, k))
           /\ \A x, y : Waits(s, x, p, y) => \E k \in 1..n : x = VisitedId(packet, k)
           /\ \A j, k \in 1..n : VisitedId(packet, j) = VisitedId(packet, k) => j = k
<1>1. PacketGood(packet)
  BY DEF Consistent, Proper, Memory
<1>2. n \in Nat /\ \A i \in 0..n - 1 : packet.packet_session_index[i] \in RetransmitSlots(packet)
  BY <1>1, PacketFacts
<1>3. \A k \in 1..n : k - 1 \in 0..n - 1 /\ (k - 1) + 1 = k
  BY <1>2
<1>4. \A i \in 0..n - 1 : i + 1 \in 1..n /\ (i + 1) - 1 = i
  BY <1>2
<1>5. \A k \in 1..n : Waits(s, VisitedId(packet, k), p, Visited(packet, k))
  BY <1>2, <1>3 DEF Waits, VisitedId, Visited
<1>6. ASSUME NEW x, NEW y, Waits(s, x, p, y) PROVE \E k \in 1..n : x = VisitedId(packet, k)
  <2>1. PICK i \in 0..n - 1 : y = packet.packet_session_index[i]
    BY <1>6 DEF Waits, RetransmitSlots
  <2>2. i + 1 \in 1..n /\ y = Visited(packet, i + 1)
    BY <1>4, <2>1 DEF Visited
  <2>3. x = VisitedId(packet, i + 1)
    BY <1>6, <2>2 DEF Waits, VisitedId
  <2> QED
    BY <2>2, <2>3
<1>7. ASSUME NEW j \in 1..n, NEW k \in 1..n, VisitedId(packet, j) = VisitedId(packet, k)
      PROVE  j = k
  <2>1. Visited(packet, j) = Visited(packet, k)
    BY <1>5, <1>7, WaitsOnce
  <2>2. j - 1 \in 0..packet.sessions_remaining - 1 /\ k - 1 \in 0..packet.sessions_remaining - 1
    BY <1>3
  <2>3. j - 1 = k - 1
    BY <1>1, <2>1, <2>2, VisitsOnce DEF Visited
  <2> QED
    BY <1>2, <2>3
<1> QED
  BY <1>2, <1>5, <1>6, <1>7

\* The sessions of V are gone from the table.
Without(s, t, V) ==
    /\ Good(t, Sessions) /\ TableOnly(s, t)
    /\ \A z : z \in LiveIds(t) <=> z \in LiveIds(s) /\ z \notin V
    /\ \A z \in LiveIds(t) : /\ Entry(t, z) = Entry(s, z)
                             /\ z \in ConnectedIds(t) <=> z \in ConnectedIds(s)

\* One session more is gone.
LEMMA OneTerminated ==
    ASSUME NEW s, DOMAIN s = ServerFields, NEW t, NEW V, Without(s, t, V),
           NEW x, x \in LiveIds(s), x \notin V,
           x \notin ConnectedIds(s), ~ IsOpening(Entry(s, x)),
           NEW i, i = t.lookup[x], NEW u, u = TerminateSession(t, i),
           NEW W, \A z : z \in W <=> z \in V \/ z = x
    PROVE  Without(s, u, W)
<1>1. /\ Good(t, Sessions) /\ TableOnly(s, t) /\ DOMAIN t = ServerFields
      /\ x \in LiveIds(t) /\ x \notin ConnectedIds(t) /\ ~ IsOpening(Entry(t, x))
  BY DEF Without, TableOnly, SamePackets
<1>2. i \in Indexes(t) /\ t.sessions[i].session_id = x
  BY <1>1, EntryOf DEF Entry
<1>3. ~ Connected(t, i) /\ ~ Opening(t, i)
  BY <1>1, <1>2, AtIndex
<1>4. Removed(t, u, x)
  BY <1>1, <1>2, <1>3, SessionsEntries, TerminateView
<1>5. Good(u, Sessions)
  BY <1>1, <1>2, <1>3, SessionsEntries, TerminateGood
<1>6. TableOnly(t, u)
  BY <1>1, RemovalsTableOnly
<1>7. TableOnly(s, u)
  BY <1>1, <1>6 DEF TableOnly, SamePackets
<1>8. \A z : z \in LiveIds(u) <=> z \in LiveIds(s) /\ z \notin W
  BY <1>4 DEF Removed, Without
<1>9. \A z \in LiveIds(u) : /\ Entry(u, z) = Entry(s, z)
                            /\ z \in ConnectedIds(u) <=> z \in ConnectedIds(s)
  BY <1>4 DEF Removed, Without
<1> QED
  BY <1>5, <1>7, <1>8, <1>9 DEF Without

\* The table once the sessions that a packet waits for are terminated.
AllTerminated(s, p, n) ==
    LET after[k \in 0..n] ==
            IF k = 0 THEN s
            ELSE TerminateSession(after[k - 1], Receiver(after[k - 1], p, Visited(s.packets[p], k)))
    IN  after[n]

\* All sessions that the packet waits for are gone.
LEMMA ReceiversTerminated ==
    ASSUME NEW s, Consistent(s), NEW p \in DOMAIN s.packets,
           \A x, y : Waits(s, x, p, y) => x \in LiveIds(s) /\ x \notin ConnectedIds(s)
                                          /\ ~ IsOpening(Entry(s, x)),
           NEW n, n = s.packets[p].sessions_remaining, NEW u, u = AllTerminated(s, p, n)
    PROVE  Without(s, u, VisitedIds(s.packets[p], n))
<1> DEFINE packet == s.packets[p]
           Step(f, m) == [k \in 0..m |-> IF k = 0 THEN s ELSE TerminateSession(f[k - 1], Receiver(f[k - 1], p, Visited(packet, k)))]
           after == CHOOSE f : f = Step(f, n)
<1>0. /\ n \in Nat
      /\ \A k \in 1..n : Waits(s, VisitedId(packet, k), p, Visited(packet, k))
      /\ \A j, k \in 1..n : VisitedId(packet, j) = VisitedId(packet, k) => j = k
  <2>1. packet = s.packets[p]
    OBVIOUS
  <2> HIDE DEF packet
  <2> QED
    BY <2>1, VisitsAll
<1>1. \E f : f = Step(f, n)
  <2> DEFINE S == {m \in Nat : \E f : f = Step(f, m)}
  <2>1. 0 \in S
    <3>1. [k \in 0..0 |-> s] = Step([k \in 0..0 |-> s], 0)
      OBVIOUS
    <3> QED
      BY <3>1
  <2>2. ASSUME NEW m \in Nat, m \in S PROVE m + 1 \in S
    <3>1. PICK f : f = Step(f, m)
      BY <2>2
    <3> DEFINE g == [k \in 0..m + 1 |-> IF k = 0 THEN s ELSE TerminateSession(f[k - 1], Receiver(f[k - 1], p, Visited(packet, k)))]
    <3>2. \A k \in 0..m : f[k] = g[k]
      BY <3>1
    <3>3. \A k \in 0..m + 1 : g[k] = Step(g, m + 1)[k]
      <4> TAKE k \in 0..m + 1
      <4>1. CASE k = 0
        BY <4>1
      <4>2. CASE k # 0
        <5>1. k - 1 \in 0..m
          BY <4>2
        <5> QED
          BY <3>2, <4>2, <5>1
      <4> QED
        BY <4>1, <4>2
    <3>4. g = Step(g, m + 1)
      BY <3>3
    <3> HIDE DEF g, Step
    <3> QED
      BY <3>4
  <2>3. Nat \subseteq S
    <3> HIDE DEF S
    <3> QED
      BY <2>1, <2>2, NatInductionSet
  <2> QED
    BY <1>0, <2>3
<1>2. after = Step(after, n)
  <2> HIDE DEF Step
  <2> QED
    BY <1>1
<1>3. u = after[n]
  BY DEF AllTerminated
<1> HIDE DEF after
<1>4. /\ after[0] = s
      /\ \A k \in 1..n : after[k] = TerminateSession(after[k - 1],
                                      Receiver(after[k - 1], p, Visited(packet, k)))
  <2> HIDE DEF packet
  <2> QED
    BY <1>0, <1>2
<1> DEFINE S == {m \in Nat : m <= n => Without(s, after[m], VisitedIds(packet, m))}
<1>5. Good(s, Sessions) /\ DOMAIN s = ServerFields
  BY DEF Consistent, Proper, Memory
<1>6. 0 \in S
  <2>1. VisitedIds(packet, 0) = {}
    BY DEF VisitedIds
  <2>2. TableOnly(s, s)
    BY DEF TableOnly, SamePackets
  <2> QED
    BY <1>4, <1>5, <2>1, <2>2 DEF Without
<1>7. ASSUME NEW m \in Nat, m \in S PROVE m + 1 \in S
  <2> SUFFICES ASSUME m + 1 <= n PROVE Without(s, after[m + 1], VisitedIds(packet, m + 1))
    OBVIOUS
  <2>1. /\ m + 1 \in 1..n /\ (m + 1) - 1 = m /\ m <= n
        /\ \A k \in 1..m : k \in 1..n /\ k # m + 1
        /\ \A k : k \in 1..m + 1 <=> k \in 1..m \/ k = m + 1
    BY <1>0
  <2> DEFINE t == after[m]
             w == after[m + 1]
             V == VisitedIds(packet, m)
             W == VisitedIds(packet, m + 1)
             x == VisitedId(packet, m + 1)
             y == Visited(packet, m + 1)
  <2>2. Without(s, t, V) /\ w = TerminateSession(t, Receiver(t, p, y)) /\ Waits(s, x, p, y)
    BY <1>0, <1>4, <1>7, <2>1
  <2>3. x \notin V
    BY <1>0, <2>1 DEF VisitedIds
  <2>4. \A z : z \in W <=> z \in V \/ z = x
    BY <2>1 DEF VisitedIds
  <2>5. Receiver(t, p, y) = t.lookup[x]
    BY <2>2 DEF Receiver, Without, TableOnly, SamePackets, VisitedId
  <2>6. w = after[m + 1] /\ W = VisitedIds(packet, m + 1)
    OBVIOUS
  <2> HIDE DEF packet, t, w, V, W, x, y, after
  <2>7. x \in LiveIds(s) /\ x \notin ConnectedIds(s) /\ ~ IsOpening(Entry(s, x))
    BY <2>2
  <2>8. Without(s, w, W)
    BY <1>5, <2>2, <2>3, <2>4, <2>5, <2>7, OneTerminated
  <2> QED
    BY <2>6, <2>8
<1>8. Nat \subseteq S
  <2> HIDE DEF S
  <2> QED
    BY <1>6, <1>7, NatInductionSet
<1> QED
  BY <1>0, <1>3, <1>8

\* A session that has a closing request waits for nothing else.
LEMMA ClosingReceivers ==
    ASSUME NEW s, Consistent(s), NEW p, s.packets[p].flags = "closing",
           NEW x, NEW y, Waits(s, x, p, y)
    PROVE  /\ x \in LiveIds(s) /\ x \notin ConnectedIds(s) /\ ~ IsOpening(Entry(s, x))
           /\ \A q, z : Waits(s, x, q, z) => q = p
<1> DEFINE X == {}
           chain == Entry(s, x).chain
<1>1. Proper(s, X) /\ x \notin X
  BY DEF Consistent
<1> HIDE DEF X
<1>2. /\ x \in LiveIds(s) /\ InChain(chain, Link(p, y))
      /\ \A q, z : Waits(s, x, q, z) => InChain(chain, Link(q, z))
  BY <1>1 DEF Proper, Holds
<1>3. chain = Entry(s, x).chain
  OBVIOUS
<1> HIDE DEF chain
<1>4. PICK k \in 1..Len(chain) : chain[k] = Link(p, y)
  BY <1>2 DEF InChain
<1>5. x \notin ConnectedIds(s) /\ ~ IsOpening(Entry(s, x)) /\ Len(chain) = 1 /\ k = 1
  <2>1. chain[k].packet = p
    BY <1>4, LinkParts
  <2> QED
    BY <1>2, <1>3, <2>1, ClosingAlone
<1>6. ASSUME NEW q, NEW z, Waits(s, x, q, z) PROVE q = p
  <2>1. PICK j \in 1..Len(chain) : chain[j] = Link(q, z)
    BY <1>2, <1>6 DEF InChain
  <2>2. j = 1
    BY <1>5, <2>1
  <2> QED
    BY <1>4, <1>5, <2>1, <2>2, LinkParts
<1> QED
  BY <1>2, <1>5, <1>6

\* Whoever a step forgets had been sent a closing request.
ForgetsClosing(s, u) ==
    \A x \in LiveIds(s) :
        x \in LiveIds(u) \/ (x \notin ConnectedIds(s) /\ ~ IsOpening(Entry(s, x)))

Popped(t, p) == [t EXCEPT !.packets = Restrict(@, DOMAIN @ \ {p}), !.queue = Tail(@)]

\* The packet at the head is freed; it waits for sessions of V at most, and these are
\* gone from the table and wait for nothing else.
LEMMA PoppedConsistent ==
    ASSUME NEW s, Consistent(s), s.queue # <<>>, NEW p, p = Head(s.queue),
           NEW V, NEW t, Without(s, t, V),
           \A x, y : Waits(s, x, p, y) => x \in V,
           \A x, q, y : x \in V /\ Waits(s, x, q, y) => q = p,
           NEW u, u = Popped(t, p)
    PROVE  Consistent(u) /\ \A z : z \in LiveIds(u) <=> z \in LiveIds(s) /\ z \notin V
<1> DEFINE X == {}
           P == DOMAIN u.packets
<1>1. Proper(s, X) /\ Flags(s) /\ Memory(s) /\ DOMAIN s = ServerFields /\ X \subseteq V
  BY DEF Consistent, Proper, Memory
<1> HIDE DEF X
<1>2. Good(t, Sessions) /\ TableOnly(s, t) /\ SamePackets(s, t)
  BY DEF Without, TableOnly
<1>3. /\ Memory(t) /\ DOMAIN t = ServerFields /\ Preserved(s, t, DOMAIN s.packets)
      /\ \A x, q, y : Waits(t, x, q, y) <=> Waits(s, x, q, y)
  BY <1>1, <1>2, PreservedSame DEF SamePackets
<1>4. /\ DOMAIN u = DOMAIN t /\ SameTable(t, u)
      /\ u.packets = Restrict(t.packets, DOMAIN t.packets \ {p})
      /\ u.queue = Tail(t.queue) /\ u.queue_tail = t.queue_tail
  BY <1>3 DEF Popped, SameTable, ServerFields
<1>5. t.queue # <<>> /\ p = Head(t.queue) /\ t.packets = s.packets
  BY <1>2 DEF SamePackets
<1>6. /\ Memory(u) /\ P = DOMAIN t.packets \ {p} /\ Preserved(t, u, P)
      /\ \A x, q, y : Waits(u, x, q, y) <=> Waits(t, x, q, y) /\ q # p
  <2>1. Memory(t)
    BY <1>3
  <2>2. P = DOMAIN u.packets
    OBVIOUS
  <2> HIDE DEF P
  <2>3. /\ Memory(u) /\ DOMAIN u.packets = DOMAIN t.packets \ {p}
        /\ Preserved(t, u, DOMAIN u.packets)
    BY ZenonT(30), <1>4, <1>5, <2>1, PopMemory
  <2>4. \A x, q, y : Waits(u, x, q, y) <=> Waits(t, x, q, y) /\ q # p
    <3>1. \A q \in DOMAIN u.packets : u.packets[q] = t.packets[q]
      BY <1>4, <2>3 DEF Restrict
    <3> QED
      BY <2>3, <3>1 DEF Waits
  <2> QED
    BY <2>2, <2>3, <2>4
<1>7. P \subseteq DOMAIN s.packets
  BY <1>5, <1>6
<1> HIDE DEF P
<1>8. Preserved(s, u, P)
  BY <1>1, <1>3, <1>6, <1>7, PreservedTwice
<1>9. \A x, q, y : Waits(u, x, q, y) <=> Waits(s, x, q, y) /\ q # p
  BY <1>3, <1>6
<1>10. SameSessions(t, u) /\ u.session_id_last = t.session_id_last /\ u.closing = t.closing
  BY <1>4, SameTableSessions
<1>11. /\ Good(u, Sessions)
       /\ LiveIds(u) = LiveIds(t) /\ ConnectedIds(u) = ConnectedIds(t)
       /\ \A x : Entry(u, x) = Entry(t, x)
  BY <1>2, <1>10, SameSessionsView
<1>12. /\ \A z : z \in LiveIds(u) <=> z \in LiveIds(s) /\ z \notin V
       /\ \A z \in LiveIds(u) : /\ Entry(u, z) = Entry(s, z)
                                /\ z \in ConnectedIds(u) <=> z \in ConnectedIds(s)
  BY <1>11 DEF Without
<1>13. Others(s, u, V)
  BY <1>12 DEF Others
<1>14. Proper(u, V)
  <2>1. Proper(s, V)
    BY <1>1, ProperLoosened
  <2>2. \A x, q, y : x \notin V => (Waits(u, x, q, y) <=> Waits(s, x, q, y))
    BY <1>9
  <2>3. \A x, q, y : x \notin V /\ Waits(s, x, q, y) => q \in P
    BY <1>5, <1>6 DEF Waits
  <2> QED
    BY <1>6, <1>8, <1>11, <1>13, <2>1, <2>2, <2>3, ProperKept
<1>15. Proper(u, X)
  <2>1. \A x \in V : x \in LiveIds(u) => Chained(u, x)
    BY <1>12
  <2>2. \A x \in V : \A q, y : Waits(u, x, q, y) <=> Holds(u, x, q, y)
    BY <1>9, <1>12 DEF Holds
  <2> QED
    BY <1>14, <2>1, <2>2, ProperAll
<1>16. Flags(u)
  <2>1. u.session_id_last = s.session_id_last /\ u.closing = s.closing
    BY <1>2, <1>10 DEF TableOnly
  <2>2. LiveIds(u) \subseteq LiveIds(s)
    BY <1>12
  <2>3. s.closing => OnlyClosing(u)
    BY <1>1, <1>12 DEF Flags, OnlyClosing
  <2> QED
    BY <1>1, <2>1, <2>2, <2>3, FlagsKept
<1> QED
  BY <1>12, <1>15, <1>16 DEF Consistent, X

\* Giving up the sessions that do not answer the closing request keeps the server
\* consistent.
LEMMA TerminateConsistent ==
    ASSUME NEW s, Consistent(s), s.queue # <<>>, NEW p, p = Head(s.queue),
           s.packets[p].flags = "closing", NEW u, u = TerminateReceivers(s, p)
    PROVE  Consistent(u) /\ ForgetsClosing(s, u)
<1> DEFINE packet == s.packets[p]
           n == packet.sessions_remaining
           t == AllTerminated(s, p, n)
           V == VisitedIds(packet, n)
<1>1. u = Popped(t, p)
  BY DEF TerminateReceivers, AllTerminated, Popped
<1>2. Memory(s)
  BY DEF Consistent, Proper
<1>3. p \in DOMAIN s.packets
  BY <1>2, RequeueMemory
<1>4. \A x, y : Waits(s, x, p, y) =>
         /\ x \in LiveIds(s) /\ x \notin ConnectedIds(s) /\ ~ IsOpening(Entry(s, x))
         /\ \A q, z : Waits(s, x, q, z) => q = p
  BY ClosingReceivers
<1>5. Without(s, t, V)
  BY <1>3, <1>4, ReceiversTerminated
<1>6. packet = s.packets[p] /\ n = packet.sessions_remaining
  OBVIOUS
<1> HIDE DEF packet, n, t
<1>7. \A k \in 1..n : Waits(s, VisitedId(packet, k), p, Visited(packet, k))
  BY <1>3, <1>6, VisitsAll
<1>8. \A x, y : Waits(s, x, p, y) => \E k \in 1..n : x = VisitedId(packet, k)
  BY <1>3, <1>6, VisitsAll
<1>9. \A x : x \in V <=> \E y : Waits(s, x, p, y)
  BY <1>7, <1>8 DEF VisitedIds
<1> HIDE DEF V
<1>10. Consistent(u) /\ \A z : z \in LiveIds(u) <=> z \in LiveIds(s) /\ z \notin V
  <2>1. \A x, y : Waits(s, x, p, y) => x \in V
    BY <1>9
  <2>2. \A x, q, y : x \in V /\ Waits(s, x, q, y) => q = p
    BY <1>4, <1>9
  <2> QED
    BY <1>1, <1>5, <2>1, <2>2, PoppedConsistent
<1> QED
  BY <1>4, <1>9, <1>10 DEF ForgetsClosing

-------------------------------------------------------------------------------
(***************************************************************************)
(* Sessions that did not acknowledge a packet.                             *)
(***************************************************************************)

\* Dropping a session leaves packets alone.
LEMMA DropTableOnly ==
    ASSUME NEW s, DOMAIN s = ServerFields, NEW i
    PROVE  TableOnly(s, DropSession(s, i))
<1> DEFINE v == [s EXCEPT !.sessions_connected = @ - 1]
<1>1. TableOnly(s, v) /\ DOMAIN v = ServerFields
  BY DEF TableOnly, SamePackets, ServerFields
<1>2. DropConnected(s, i) = IF i = v.sessions_connected THEN v ELSE SwapSession(v, i)
  BY DEF DropConnected
<1> HIDE DEF v
<1>3. TableOnly(v, SwapSession(v, i))
  BY <1>1 DEF SwapSession, TableOnly, SamePackets, ServerFields
<1>4. TableOnly(s, DropConnected(s, i))
  BY <1>1, <1>2, <1>3 DEF TableOnly, SamePackets
<1>5. TableOnly(s, DropOpening(s, i))
  BY DEF DropOpening, TableOnly, SamePackets, ServerFields
<1> QED
  BY <1>4, <1>5 DEF DropSession

\* A session that is dropped is found in its closing handshake.
LEMMA DropView ==
    ASSUME NEW t, Good(t, Sessions), NEW i \in Indexes(t), Connected(t, i) \/ Opening(t, i),
           NEW x, x = t.sessions[i].session_id, NEW u, u = DropSession(t, i)
    PROVE  /\ Good(u, Sessions) /\ LiveIds(u) = LiveIds(t)
           /\ Entry(u, x).chain = Entry(t, x).chain /\ ~ IsOpening(Entry(u, x))
           /\ \A z \in LiveIds(t) : z # x => Entry(u, z) = Entry(t, z)
           /\ \A z : z \in ConnectedIds(u) <=> z \in ConnectedIds(t) /\ z # x
<1>1. Good(u, Sessions) /\ Settles(t, u, x, ConnectedIds(t) \ {x})
  <2>1. CASE Connected(t, i)
    <3>1. u = DropConnected(t, i)
      BY <2>1 DEF DropSession
    <3>2. Good(u, Sessions)
      BY <2>1, <3>1, SessionsEntries, DropConnectedGood
    <3>3. Settles(t, u, x, ConnectedIds(t) \ {x})
      BY <2>1, <3>1, SessionsEntries, DropConnectedView
    <3> QED
      BY <3>2, <3>3
  <2>2. CASE ~ Connected(t, i)
    <3>1. u = DropOpening(t, i) /\ Opening(t, i)
      BY <2>2 DEF DropSession
    <3>2. Good(u, Sessions)
      BY <3>1, SessionsEntries, DropOpeningGood
    <3>3. Settles(t, u, x, ConnectedIds(t) \ {x})
      BY <3>1, SessionsEntries, DropOpeningView
    <3> QED
      BY <3>2, <3>3
  <2> QED
    BY <2>1, <2>2
<1>2. x \in LiveIds(t) /\ Entry(t, x) \in Sessions
  <2>1. x \in LiveIds(t)
    BY AtIndex
  <2> QED
    BY <2>1, EntryOf
<1>3. /\ Settled(Entry(t, x)).chain = Entry(t, x).chain
      /\ Settled(Entry(t, x)).send_id = Settled(Entry(t, x)).session_id
  BY <1>2 DEF Settled, Sessions
<1> QED
  BY <1>1, <1>3 DEF Settles, IsOpening

\* The links of a chain lead to the same slots of packets that differ in nothing else.
SameLinks(s, u, chain) ==
    /\ u.queue = s.queue
    /\ \A k \in 1..Len(chain) :
          LET p == chain[k].packet
          IN  /\ u.packets[p].flags = s.packets[p].flags
              /\ u.packets[p].resends = s.packets[p].resends
              /\ u.packets[p].sessions_remaining = s.packets[p].sessions_remaining
              /\ LinkSlot(u, chain[k]) = LinkSlot(s, chain[k])

\* Such a chain is what it was.
LEMMA ChainSame ==
    ASSUME NEW s, NEW u, NEW chain \in Seq(Links), SameLinks(s, u, chain)
    PROVE  /\ Ordered(s, chain) => Ordered(u, chain)
           /\ \A remote_id : Numbered(s, chain, remote_id) => Numbered(u, chain, remote_id)
           /\ \A e : e.chain = chain /\ Alone(s, e) => Alone(u, e)
<1>1. ASSUME Ordered(s, chain) PROVE Ordered(u, chain)
  BY <1>1 DEF SameLinks, Ordered, Before
<1>2. ASSUME NEW remote_id, Numbered(s, chain, remote_id) PROVE Numbered(u, chain, remote_id)
  <2>1. Len(chain) \in Nat /\ \A k \in 1..Len(chain) : k # Len(chain) => k + 1 \in 1..Len(chain)
    OBVIOUS
  <2> QED
    BY <1>2, <2>1 DEF Numbered, SameLinks
<1>3. ASSUME NEW e, e.chain = chain, Alone(s, e) PROVE Alone(u, e)
  <2>1. Len(chain) = 1 /\ 1 \in 1..Len(chain)
    BY <1>3 DEF Alone
  <2> QED
    BY <1>3, <2>1 DEF Alone, SameLinks
<1> QED
  BY <1>1, <1>2, <1>3

\* A session that did not acknowledge a packet has no number in it any more.
Zeroed(packet, y)   == [packet EXCEPT !.slots[y].remote_id = 0]
ZeroSlot(s, p, y)   == [s EXCEPT !.packets[p].slots[y].remote_id = 0]

\* Nothing else of the packet changes.
LEMMA ZeroedFacts ==
    ASSUME NEW packet, PacketGood(packet), NEW y \in RetransmitSlots(packet),
           NEW zeroed, zeroed = Zeroed(packet, y)
    PROVE  /\ PacketGood(zeroed)
           /\ zeroed.flags = packet.flags /\ zeroed.resends = packet.resends
           /\ zeroed.sessions_remaining = packet.sessions_remaining
           /\ RetransmitSlots(zeroed) = RetransmitSlots(packet)
           /\ \A j \in RetransmitSlots(packet) :
                 /\ zeroed.slots[j].session_id = packet.slots[j].session_id
                 /\ j # y => zeroed.slots[j] = packet.slots[j]
           /\ zeroed.slots[y].remote_id = 0
<1>1. PICK n \in 1..SessionsLimit : packet \in PacketType(n)
  BY DEF PacketGood
<1>2. /\ zeroed.resends = packet.resends /\ zeroed.flags = packet.flags
      /\ zeroed.sessions_remaining = packet.sessions_remaining
      /\ zeroed.packet_session_index = packet.packet_session_index
      /\ zeroed.slots = [packet.slots EXCEPT ![y] = [@ EXCEPT !.remote_id = 0]]
  BY <1>1 DEF PacketType, Zeroed
<1>3. \A j \in RetransmitSlots(packet) : j \in 0..n - 1 /\ packet.slots[j] \in SlotType
  <2>1. \A j \in RetransmitSlots(packet) : j \in DOMAIN packet.slots /\ packet.slots[j] \in SlotType
    BY PacketFacts
  <2> QED
    BY <1>1, <2>1 DEF PacketType
<1>4. 0 \in RemoteIds
  BY ServerAssumption DEF RemoteIds
<1>5. [packet.slots[y] EXCEPT !.remote_id = 0] \in SlotType
      /\ [packet.slots[y] EXCEPT !.remote_id = 0].remote_id = 0
      /\ [packet.slots[y] EXCEPT !.remote_id = 0].session_id = packet.slots[y].session_id
  BY <1>3, <1>4 DEF SlotType
<1>6. packet.slots \in [0..n - 1 -> SlotType]
  BY <1>1 DEF PacketType
<1>7. zeroed.slots \in [0..n - 1 -> SlotType]
  BY <1>2, <1>5, <1>6
<1>8. \A j \in 0..n - 1 : zeroed.slots[j] = IF j = y THEN [packet.slots[y] EXCEPT !.remote_id = 0]
                                            ELSE packet.slots[j]
  BY <1>2, <1>6
<1>9. zeroed \in PacketType(n)
  <2>1. zeroed = [packet EXCEPT !.slots = zeroed.slots]
    BY <1>1, <1>2 DEF PacketType, Zeroed
  <2> QED
    BY <1>1, <1>7, <2>1 DEF PacketType
<1>10. PacketGood(zeroed)
  <2>1. \A j \in 0..n - 1 : zeroed.slots[j].session_id = packet.slots[j].session_id
    BY <1>5, <1>8
  <2>2. DOMAIN zeroed.slots = 0..n - 1 /\ DOMAIN packet.slots = 0..n - 1
    BY <1>6, <1>7
  <2>3. Distinct(zeroed.slots)
    BY <2>1, <2>2 DEF PacketGood, Distinct
  <2> QED
    BY <1>2, <1>9, <2>3 DEF PacketGood, Indirect
<1>11. RetransmitSlots(zeroed) = RetransmitSlots(packet)
  BY <1>2 DEF RetransmitSlots
<1> QED
  BY <1>2, <1>3, <1>5, <1>8, <1>10, <1>11

\* What a session that is not one of Y finds in its packets stays.
LEMMA SlotZeroed ==
    ASSUME NEW w, NEW Y, Proper(w, Y), NEW p \in DOMAIN w.packets,
           NEW y \in RetransmitSlots(w.packets[p]), w.packets[p].slots[y].session_id \in Y,
           NEW u, u = ZeroSlot(w, p, y)
    PROVE  /\ Proper(u, Y)
           /\ SameTable(w, u) /\ u.queue = w.queue /\ DOMAIN u.packets = DOMAIN w.packets
           /\ \A x, q, z : Waits(u, x, q, z) <=> Waits(w, x, q, z)
           /\ u.packets[p].flags = w.packets[p].flags
           /\ u.packets[p].resends = w.packets[p].resends
           /\ u.packets[p].slots[y].remote_id = 0
           /\ \A z \in RetransmitSlots(w.packets[p]) :
                 z # y => u.packets[p].slots[z] = w.packets[p].slots[z]
<1> DEFINE packet == w.packets[p]
           zeroed == Zeroed(packet, y)
<1>1. Good(w, Sessions) /\ Memory(w) /\ PacketGood(packet)
  BY DEF Proper, Memory
<1>2. /\ PacketGood(zeroed)
      /\ zeroed.flags = packet.flags /\ zeroed.resends = packet.resends
      /\ zeroed.sessions_remaining = packet.sessions_remaining
      /\ RetransmitSlots(zeroed) = RetransmitSlots(packet)
      /\ \A j \in RetransmitSlots(packet) :
            /\ zeroed.slots[j].session_id = packet.slots[j].session_id
            /\ j # y => zeroed.slots[j] = packet.slots[j]
      /\ zeroed.slots[y].remote_id = 0
  BY <1>1, ZeroedFacts
<1>3. u = [w EXCEPT !.packets = [@ EXCEPT ![p] = zeroed]]
  BY DEF ZeroSlot, Zeroed
<1> HIDE DEF zeroed
<1>4. /\ Memory(u) /\ SameTable(w, u) /\ u.queue = w.queue
      /\ DOMAIN u.packets = DOMAIN w.packets /\ u.packets[p] = zeroed
      /\ \A q \in DOMAIN w.packets : q # p => u.packets[q] = w.packets[q]
  BY <1>1, <1>2, <1>3, PacketReplaced
<1>5. \A x, q, z : Waits(u, x, q, z) <=> Waits(w, x, q, z)
  BY <1>2, <1>4 DEF Waits
<1>6. Good(u, Sessions) /\ Others(w, u, Y)
  <2>1. SameSessions(w, u)
    BY <1>4, SameTableSessions
  <2> QED
    BY <1>1, <2>1, SameSessionsView
<1>7. \A x, q, z : x \notin Y => (Holds(u, x, q, z) <=> Holds(w, x, q, z))
  BY <1>6 DEF Holds, Others
<1>8. ASSUME NEW x \in LiveIds(u) \ Y PROVE Chained(u, x)
  <2> DEFINE e == Entry(w, x)
             chain == Entry(w, x).chain
  <2>1. x \in LiveIds(w) \ Y /\ Chained(w, x)
    BY <1>6, <1>8 DEF Others, Proper
  <2>2. Entry(u, x) = e /\ (x \in ConnectedIds(u) <=> x \in ConnectedIds(w))
    BY <1>6, <2>1 DEF Others
  <2>3. chain = Entry(w, x).chain /\ e.chain = chain
    OBVIOUS
  <2> HIDE DEF chain
  <2>4. /\ chain \in Seq(Links)
        /\ \A k \in 1..Len(chain) : Waits(w, x, chain[k].packet, chain[k].slot)
    BY <2>1, <2>3, ChainWaits
  <2>5. ASSUME NEW k \in 1..Len(chain)
        PROVE  /\ u.packets[chain[k].packet].flags = w.packets[chain[k].packet].flags
               /\ u.packets[chain[k].packet].resends = w.packets[chain[k].packet].resends
               /\ u.packets[chain[k].packet].sessions_remaining
                     = w.packets[chain[k].packet].sessions_remaining
               /\ LinkSlot(u, chain[k]) = LinkSlot(w, chain[k])
    <3>1. Waits(w, x, chain[k].packet, chain[k].slot)
      BY <2>4
    <3>2. CASE chain[k].packet = p
      <4>1. chain[k].slot # y /\ chain[k].slot \in RetransmitSlots(packet)
        BY <2>1, <3>1, <3>2 DEF Waits
      <4> QED
        BY <1>2, <1>4, <3>2, <4>1 DEF LinkSlot
    <3>3. CASE chain[k].packet # p
      BY <1>4, <3>1, <3>3 DEF Waits, LinkSlot
    <3> QED
      BY <3>2, <3>3
  <2>6. SameLinks(w, u, chain)
    BY <1>4, <2>5 DEF SameLinks
  <2>7. /\ Ordered(w, chain) => Ordered(u, chain)
        /\ \A remote_id : Numbered(w, chain, remote_id) => Numbered(u, chain, remote_id)
        /\ Alone(w, e) => Alone(u, e)
    BY <2>3, <2>4, <2>6, ChainSame
  <2> QED
    BY <2>1, <2>2, <2>3, <2>7 DEF Chained
<1>9. Proper(u, Y)
  BY <1>4, <1>5, <1>6, <1>7, <1>8 DEF Proper
<1> QED
  BY <1>2, <1>4, <1>5, <1>9

\* All but the first link of a chain are taken out.
LEMMA HeadSplits ==
    ASSUME NEW chain \in Seq(Links), Len(chain) # 0,
           \A j, k \in 1..Len(chain) : chain[j].packet = chain[k].packet => j = k,
           NEW taken, taken = Tail(chain), NEW rest, rest = <<Head(chain)>>
    PROVE  /\ Splits(chain, taken, rest)
           /\ \A k \in 1..Len(taken) : taken[k].packet # chain[1].packet
           /\ Len(rest) = 1 /\ rest[1] = chain[1]
<1>1. /\ Len(chain) \in Nat /\ chain # <<>>
      /\ taken \in Seq(Links) /\ Len(taken) = Len(chain) - 1
      /\ \A k \in 1..Len(taken) : taken[k] = chain[k + 1]
  BY HeadTailProperties
<1>2. 1 \in 1..Len(chain) /\ chain[1] \in Links /\ Head(chain) = chain[1]
  BY <1>1
<1>3. rest \in Seq(Links) /\ Len(rest) = 1 /\ rest[1] = chain[1]
  BY <1>2
<1>4. \A k \in 1..Len(taken) : k + 1 \in 1..Len(chain) /\ k + 1 # 1
  BY <1>1
<1>5. \A k \in 1..Len(taken) : InChain(chain, taken[k])
  BY <1>1, <1>4 DEF InChain
<1>6. \A j, k \in 1..Len(taken) : taken[j] = taken[k] => j = k
  <2> TAKE j, k \in 1..Len(taken)
  <2>1. taken[j] = chain[j + 1] /\ taken[k] = chain[k + 1]
    BY <1>1
  <2>2. taken[j] = taken[k] => j + 1 = k + 1
    BY <1>4, <2>1
  <2> QED
    BY <1>1, <2>2
<1>7. \A k \in 1..Len(taken) : taken[k].packet # chain[1].packet
  BY <1>1, <1>2, <1>4
<1>8. ASSUME NEW link PROVE InChain(rest, link) <=>
                             InChain(chain, link) /\ link \notin LinksUpTo(taken, Len(taken))
  <2>1. InChain(rest, link) <=> link = chain[1]
    BY <1>3 DEF InChain
  <2>2. link \in LinksUpTo(taken, Len(taken)) <=> \E k \in 1..Len(taken) : taken[k] = link
    BY DEF LinksUpTo
  <2>3. \A k \in 1..Len(chain) : k # 1 => k - 1 \in 1..Len(taken) /\ taken[k - 1] = chain[k]
    <3> TAKE k \in 1..Len(chain)
    <3>1. k # 1 => k - 1 \in 1..Len(taken) /\ (k - 1) + 1 = k
      BY <1>1
    <3> QED
      BY <1>1, <3>1
  <2>4. link = chain[1] => InChain(chain, link) /\ \A k \in 1..Len(taken) : taken[k] # link
    BY <1>2, <1>7 DEF InChain
  <2>5. InChain(chain, link) /\ link # chain[1] => \E k \in 1..Len(taken) : taken[k] = link
    BY ZenonT(30), <2>3 DEF InChain
  <2> QED
    BY <2>1, <2>2, <2>4, <2>5
<1> QED
  BY <1>1, <1>3, <1>5, <1>6, <1>7, <1>8 DEF Splits

\* Session z is left with packet p alone, and has no number in it.
LeftWith(t, z, p) ==
    /\ z \in LiveIds(t) /\ ~ IsOpening(Entry(t, z))
    /\ Len(Entry(t, z).chain) = 1
    /\ Entry(t, z).chain[1].packet = p
    /\ LinkSlot(t, Entry(t, z).chain[1]).remote_id = 0
    /\ \A q, y : Waits(t, z, q, y) <=> Holds(t, z, q, y)

\* Of the sessions that did not acknowledge packet p, those of D are left with it.
Dropping(s, t, p, D) ==
    /\ Proper(t, D)
    /\ LiveIds(t) = LiveIds(s)
    /\ \A z : z \in ConnectedIds(t) <=> z \in ConnectedIds(s) /\ z \notin D
    /\ \A z \in LiveIds(s) : z \notin D => Entry(t, z) = Entry(s, z)
    /\ p \in DOMAIN t.packets /\ Leads(t.queue, DOMAIN t.packets, p)
    /\ t.packets[p].flags = "none" /\ t.packets[p].resends = 0
    /\ \A x, y : Waits(t, x, p, y) <=> Waits(s, x, p, y)
    /\ \A z \in D : LeftWith(t, z, p)
    /\ t.session_id_last = s.session_id_last /\ t.closing = s.closing

\* The packet that runs out of retransmits at the head of the queue is the oldest one
\* of every session that waits for it.
LEMMA LeaderFirst ==
    ASSUME NEW t, NEW D, Proper(t, D), NEW x \in LiveIds(t) \ D,
           NEW p, p \in DOMAIN t.packets, Leads(t.queue, DOMAIN t.packets, p),
           t.packets[p].resends = 0,
           NEW chain, chain = Entry(t, x).chain, NEW j \in 1..Len(chain), chain[j].packet = p
    PROVE  j = 1
<1>1. Memory(t) /\ Ordered(t, chain)
  BY DEF Proper, Chained
<1>2. /\ Len(chain) \in Nat
      /\ \A k \in 1..Len(chain) : chain[k].packet \in DOMAIN t.packets
  BY ZenonT(30), ChainWaits
<1> SUFFICES ASSUME j # 1 PROVE FALSE
  OBVIOUS
<1>3. 1 \in 1..Len(chain) /\ 1 < j
  BY <1>2
<1>4. Before(t, chain[1].packet, p)
  BY <1>1, <1>3 DEF Ordered
<1>5. t.packets[chain[1].packet].resends \in Nat
  BY <1>1, <1>2, <1>3, PacketFacts DEF Memory
<1>6. Precedes(t.queue, chain[1].packet, p)
  BY <1>4, <1>5 DEF Before
<1>7. t.queue # <<>> /\ Head(t.queue) = p
  BY <1>1, HeadLeads DEF Memory
<1>8. \A q : ~ Precedes(t.queue, q, p)
  BY <1>1, <1>7, QueueTail DEF Memory
<1> QED
  BY <1>6, <1>8

\* One more session that did not acknowledge the packet is dropped.
LEMMA ReceiverDropped ==
    ASSUME NEW s, NEW p, NEW t, NEW D, Dropping(s, t, p, D),
           NEW x, x \notin D, NEW y, Waits(s, x, p, y),
           NEW u, u = DropReceiver(t, p, y),
           NEW W, \A z : z \in W <=> z \in D \/ z = x
    PROVE  Dropping(s, u, p, W)
<1> DEFINE i == t.lookup[x]
           chain == Entry(t, x).chain
           taken == Tail(chain)
           rest == <<Head(chain)>>
           v == SetChain(FlushChain(t, taken), i, rest)
           w == DropSession(v, i)
<1>1. /\ Proper(t, D) /\ Good(t, Sessions) /\ Memory(t) /\ DOMAIN t = ServerFields
      /\ p \in DOMAIN t.packets /\ Leads(t.queue, DOMAIN t.packets, p)
      /\ t.packets[p].flags = "none" /\ t.packets[p].resends = 0
  BY DEF Dropping, Proper, Memory
<1>2. Waits(t, x, p, y)
  BY DEF Dropping
<1>3. x \in LiveIds(t) \ D /\ x \in LiveIds(t) /\ InChain(chain, Link(p, y))
  BY <1>1, <1>2 DEF Proper, Holds
<1>4. i \in Indexes(t) /\ t.sessions[i] = Entry(t, x) /\ x = t.sessions[i].session_id
  BY <1>1, <1>3, EntryOf
<1>5. u = ZeroSlot(w, p, y)
  <2>1. Receiver(t, p, y) = i
    BY <1>2 DEF Receiver, Waits
  <2> QED
    BY <1>4, <2>1 DEF DropReceiver, SetChain, ZeroSlot
<1> HIDE DEF w
<1>6. w = DropSession(v, i) /\ chain = Entry(t, x).chain /\ i = t.lookup[x]
  BY DEF w
<1>7. v = SetChain(FlushChain(t, taken), i, rest) /\ taken = Tail(chain) /\ rest = <<Head(chain)>>
  OBVIOUS
<1> HIDE DEF v, taken, rest, chain, i
\* The chain is left with its first packet.
<1>8. /\ chain \in Seq(Links) /\ Len(chain) \in Nat
      /\ \A j, k \in 1..Len(chain) : chain[j].packet = chain[k].packet => j = k
  BY <1>1, <1>3, <1>6, ChainWaits
<1>9. PICK j \in 1..Len(chain) : chain[j] = Link(p, y)
  BY <1>3 DEF InChain
<1>10. chain[1] = Link(p, y) /\ Len(chain) # 0
  <2>1. chain[j].packet = p
    BY <1>9, LinkParts
  <2>2. j = 1
    BY <1>1, <1>3, <1>6, <2>1, LeaderFirst
  <2> QED
    BY <1>8, <1>9, <2>2
<1>11. /\ Splits(chain, taken, rest)
       /\ \A k \in 1..Len(taken) : taken[k].packet # p
       /\ Len(rest) = 1 /\ rest[1] = Link(p, y)
  <2>1. chain[1].packet = p
    BY <1>10, LinkParts
  <2>2. Splits(chain, taken, rest)
    BY <1>7, <1>8, <1>10, HeadSplits
  <2>3. \A k \in 1..Len(taken) : taken[k].packet # chain[1].packet
    BY <1>7, <1>8, <1>10, HeadSplits
  <2>4. Len(rest) = 1 /\ rest[1] = chain[1]
    BY <1>7, <1>8, <1>10, HeadSplits
  <2> QED
    BY <1>10, <2>1, <2>2, <2>3, <2>4
<1>12. Rechain(t, v, i, x, taken, rest)
  BY <1>4, <1>6, <1>7, <1>11 DEF Rechain
<1>13. D \subseteq W /\ x \in W
  OBVIOUS
<1>14. /\ Proper(v, W) /\ Preserved(t, v, DOMAIN v.packets)
       /\ DOMAIN v = DOMAIN t
       /\ LiveIds(v) = LiveIds(t) /\ ConnectedIds(v) = ConnectedIds(t)
  BY <1>1, <1>3, <1>12, <1>13, Rechained
<1>15. p \in DOMAIN v.packets /\ v.packets[p] = t.packets[p]
  BY <1>1, <1>3, <1>11, <1>12, <1>13, Rechained
<1>16. /\ Entry(v, x).chain = rest /\ Entry(v, x).session_id = x
       /\ IsOpening(Entry(v, x)) <=> IsOpening(Entry(t, x))
       /\ \A z \in LiveIds(t) : z # x => Entry(v, z) = Entry(t, z)
       /\ v.lookup = t.lookup
       /\ v.session_id_last = t.session_id_last /\ v.closing = t.closing
  BY <1>1, <1>3, <1>12, <1>13, Rechained
<1>17. \A q, k : Waits(v, x, q, k) <=> Holds(v, x, q, k)
  BY <1>1, <1>3, <1>12, <1>13, Rechained
<1>18. \A z, q, k : z # x => (Waits(v, z, q, k) <=> Waits(t, z, q, k))
  BY <1>1, <1>3, <1>12, <1>13, Rechained
<1>19. Leads(v.queue, DOMAIN v.packets, p)
  BY <1>1, <1>14, <1>15 DEF Preserved, SameOrder, Leads
\* The session is dropped.
<1>20. Good(v, Sessions) /\ Memory(v) /\ DOMAIN v = ServerFields
  BY <1>1, <1>14 DEF Proper
<1>21. i \in Indexes(v) /\ x = v.sessions[i].session_id
  <2>1. x \in LiveIds(v)
    BY <1>3, <1>14
  <2>2. v.lookup[x] \in Indexes(v) /\ v.sessions[v.lookup[x]].session_id = x
    BY <1>20, <2>1, EntryOf
  <2> QED
    BY <1>6, <1>16, <2>2
<1>22. Connected(v, i) \/ Opening(v, i)
  <2>1. x \in ConnectedIds(t) \/ IsOpening(Entry(t, x))
    <3> SUFFICES ASSUME x \notin ConnectedIds(t), ~ IsOpening(Entry(t, x)) PROVE FALSE
      OBVIOUS
    <3>1. Alone(t, Entry(t, x))
      BY <1>1, <1>3 DEF Proper, Chained
    <3>2. t.packets[chain[1].packet].flags = "closing"
      BY <1>6, <3>1 DEF Alone
    <3> QED
      BY <1>1, <1>10, <3>2, LinkParts
  <2>2. x \in ConnectedIds(v) \/ IsOpening(Entry(v, x))
    BY <1>14, <1>16, <2>1
  <2> QED
    BY <1>20, <1>21, <2>2, AtIndex
<1>23. /\ Good(w, Sessions) /\ LiveIds(w) = LiveIds(v)
       /\ Entry(w, x).chain = Entry(v, x).chain /\ ~ IsOpening(Entry(w, x))
       /\ \A z \in LiveIds(v) : z # x => Entry(w, z) = Entry(v, z)
       /\ \A z : z \in ConnectedIds(w) <=> z \in ConnectedIds(v) /\ z # x
  <2>1. Good(v, Sessions) /\ w = DropSession(v, i)
    BY <1>6, <1>20
  <2>2. Good(w, Sessions) /\ LiveIds(w) = LiveIds(v)
    BY <1>21, <1>22, <2>1, DropView
  <2>3. Entry(w, x).chain = Entry(v, x).chain /\ ~ IsOpening(Entry(w, x))
    BY <1>21, <1>22, <2>1, DropView
  <2>4. \A z \in LiveIds(v) : z # x => Entry(w, z) = Entry(v, z)
    BY <1>21, <1>22, <2>1, DropView
  <2>5. \A z : z \in ConnectedIds(w) <=> z \in ConnectedIds(v) /\ z # x
    BY <1>21, <1>22, <2>1, DropView
  <2> QED
    BY <2>2, <2>3, <2>4, <2>5
<1>24. TableOnly(v, w) /\ SamePackets(v, w)
  BY <1>6, <1>20, DropTableOnly DEF TableOnly
<1>25. /\ Preserved(v, w, DOMAIN v.packets) /\ Memory(w)
       /\ \A z, q, k : Waits(w, z, q, k) <=> Waits(v, z, q, k)
  BY <1>20, <1>24, PreservedSame
<1>26. Proper(w, W)
  <2>1. Others(v, w, W)
    BY <1>23 DEF Others
  <2>2. \A z, q, k : z \notin W /\ Waits(v, z, q, k) => q \in DOMAIN v.packets
    BY DEF Waits
  <2>3. \A z, q, k : z \notin W => (Waits(w, z, q, k) <=> Waits(v, z, q, k))
    BY <1>25
  <2> QED
    BY <1>14, <1>23, <1>25, <2>1, <2>2, <2>3, ProperKept
\* Its number in the packet is cleared.
<1>27. w.packets = v.packets /\ w.queue = v.queue
  BY <1>24 DEF SamePackets
<1>28. /\ p \in DOMAIN w.packets /\ y \in RetransmitSlots(w.packets[p])
       /\ w.packets[p].slots[y].session_id = x
       /\ w.packets[p] = t.packets[p]
  BY <1>2, <1>15, <1>27 DEF Waits
<1>29. /\ Proper(u, W)
       /\ SameTable(w, u) /\ u.queue = w.queue /\ DOMAIN u.packets = DOMAIN w.packets
       /\ u.packets[p].flags = w.packets[p].flags
       /\ u.packets[p].resends = w.packets[p].resends
       /\ u.packets[p].slots[y].remote_id = 0
       /\ \A k \in RetransmitSlots(w.packets[p]) :
             k # y => u.packets[p].slots[k] = w.packets[p].slots[k]
  BY <1>5, <1>13, <1>26, <1>28, SlotZeroed
<1>30. \A z, q, k : Waits(u, z, q, k) <=> Waits(w, z, q, k)
  BY <1>5, <1>13, <1>26, <1>28, SlotZeroed
<1>31. SameSessions(w, u) /\ u.session_id_last = w.session_id_last /\ u.closing = w.closing
  BY <1>29, SameTableSessions
<1>32. /\ LiveIds(u) = LiveIds(w) /\ ConnectedIds(u) = ConnectedIds(w)
       /\ \A z : Entry(u, z) = Entry(w, z)
  BY <1>23, <1>31, SameSessionsView
\* Together.
<1>33. LiveIds(u) = LiveIds(s)
  BY <1>14, <1>23, <1>32 DEF Dropping
<1>34. \A z : z \in ConnectedIds(u) <=> z \in ConnectedIds(s) /\ z \notin W
  <2>1. \A z : z \in ConnectedIds(t) <=> z \in ConnectedIds(s) /\ z \notin D
    BY DEF Dropping
  <2> QED
    BY <1>14, <1>23, <1>32, <2>1
<1>35. \A z \in LiveIds(t) : z # x => Entry(u, z) = Entry(t, z)
  BY <1>14, <1>16, <1>23, <1>32
<1>36. \A z \in LiveIds(s) : z \notin W => Entry(u, z) = Entry(s, z)
  BY <1>35 DEF Dropping
<1>37. p \in DOMAIN u.packets /\ Leads(u.queue, DOMAIN u.packets, p)
  BY <1>15, <1>19, <1>27, <1>29
<1>38. u.packets[p].flags = "none" /\ u.packets[p].resends = 0
  BY <1>1, <1>28, <1>29
<1>39. \A z, q, k : z # x => (Waits(u, z, q, k) <=> Waits(t, z, q, k))
  BY <1>18, <1>25, <1>30
<1>40. \A z, k : Waits(u, z, p, k) <=> Waits(s, z, p, k)
  <2>1. \A z, k : Waits(u, z, p, k) <=> Waits(v, z, p, k)
    BY <1>25, <1>30
  <2>2. \A z, k : Waits(v, z, p, k) <=> Waits(t, z, p, k)
    BY <1>1, <1>15 DEF Waits
  <2> QED
    BY <2>1, <2>2 DEF Dropping
<1>41. LeftWith(u, x, p)
  <2>1. x \in LiveIds(u) /\ ~ IsOpening(Entry(u, x)) /\ Entry(u, x).chain = rest
    BY <1>3, <1>14, <1>16, <1>23, <1>32
  <2>2. LinkSlot(u, rest[1]).remote_id = 0 /\ rest[1].packet = p
    BY <1>11, <1>29, LinkParts DEF LinkSlot
  <2>3. \A q, k : Waits(u, x, q, k) <=> Holds(u, x, q, k)
    <3>1. \A q, k : Waits(u, x, q, k) <=> Holds(v, x, q, k)
      BY <1>17, <1>25, <1>30
    <3>2. x \in LiveIds(v) /\ Entry(v, x).chain = rest
      BY <1>3, <1>14, <1>16
    <3>3. \A q, k : Holds(v, x, q, k) <=> Holds(u, x, q, k)
      BY <2>1, <3>2 DEF Holds
    <3> QED
      BY <3>1, <3>3
  <2> QED
    BY <1>11, <2>1, <2>2, <2>3 DEF LeftWith
<1>42. ASSUME NEW z \in D PROVE LeftWith(u, z, p)
  <2>1. z # x /\ LeftWith(t, z, p)
    BY DEF Dropping
  <2> DEFINE c == Entry(t, z).chain
  <2>2. z \in LiveIds(t) /\ Entry(u, z) = Entry(t, z) /\ z \in LiveIds(u)
    BY <1>14, <1>23, <1>32, <1>35, <2>1 DEF LeftWith
  <2>3. c \in Seq(Links) /\ Len(c) = 1 /\ c[1] = Link(c[1].packet, c[1].slot) /\ c[1].packet = p
    <3>1. c = Entry(t, z).chain
      OBVIOUS
    <3> HIDE DEF c
    <3>2. Len(c) = 1 /\ c[1].packet = p
      BY <2>1, <3>1 DEF LeftWith
    <3>3. c \in Seq(Links) /\ \A k \in 1..Len(c) : c[k] = Link(c[k].packet, c[k].slot)
      BY <1>1, <2>2, <3>1, EntryOf
    <3> QED
      BY <3>2, <3>3
  <2>4. c = Entry(t, z).chain
    OBVIOUS
  <2> HIDE DEF c
  <2>5. Waits(t, z, p, c[1].slot)
    <3>1. InChain(c, Link(p, c[1].slot))
      BY <2>3 DEF InChain
    <3> QED
      BY <2>1, <2>2, <2>4, <3>1 DEF LeftWith, Holds
  <2>6. LinkSlot(u, c[1]) = LinkSlot(t, c[1])
    <3>1. c[1].slot # y /\ c[1].slot \in RetransmitSlots(t.packets[p])
      BY <1>2, <2>1, <2>5 DEF Waits
    <3> QED
      BY <1>28, <1>29, <2>3, <3>1 DEF LinkSlot
  <2>7. \A q, k : Waits(u, z, q, k) <=> Holds(u, z, q, k)
    BY <1>39, <2>1, <2>2 DEF LeftWith, Holds
  <2> QED
    BY <2>1, <2>2, <2>4, <2>6, <2>7 DEF LeftWith
<1>43. u.session_id_last = s.session_id_last /\ u.closing = s.closing
  BY <1>16, <1>24, <1>31 DEF Dropping, TableOnly
<1> QED
  BY <1>29, <1>33, <1>34, <1>36, <1>37, <1>38, <1>40, <1>41, <1>42, <1>43 DEF Dropping

\* The server once the sessions that a packet waits for are dropped.
AllDropped(s, p, n) ==
    LET after[k \in 0..n] ==
            IF k = 0 THEN s ELSE DropReceiver(after[k - 1], p, Visited(s.packets[p], k))
    IN  after[n]

\* All sessions that the packet waits for are left with it.
LEMMA ReceiversDropped ==
    ASSUME NEW s, Consistent(s), NEW p \in DOMAIN s.packets,
           Leads(s.queue, DOMAIN s.packets, p),
           s.packets[p].flags = "none", s.packets[p].resends = 0,
           NEW n, n = s.packets[p].sessions_remaining, NEW u, u = AllDropped(s, p, n)
    PROVE  Dropping(s, u, p, VisitedIds(s.packets[p], n))
<1> DEFINE packet == s.packets[p]
           Step(f, m) == [k \in 0..m |-> IF k = 0 THEN s ELSE DropReceiver(f[k - 1], p, Visited(packet, k))]
           after == CHOOSE f : f = Step(f, n)
<1>0. /\ n \in Nat
      /\ \A k \in 1..n : Waits(s, VisitedId(packet, k), p, Visited(packet, k))
      /\ \A j, k \in 1..n : VisitedId(packet, j) = VisitedId(packet, k) => j = k
  <2>1. packet = s.packets[p]
    OBVIOUS
  <2> HIDE DEF packet
  <2> QED
    BY <2>1, VisitsAll
<1>1. \E f : f = Step(f, n)
  <2> DEFINE S == {m \in Nat : \E f : f = Step(f, m)}
  <2>1. 0 \in S
    <3>1. [k \in 0..0 |-> s] = Step([k \in 0..0 |-> s], 0)
      OBVIOUS
    <3> QED
      BY <3>1
  <2>2. ASSUME NEW m \in Nat, m \in S PROVE m + 1 \in S
    <3>1. PICK f : f = Step(f, m)
      BY <2>2
    <3> DEFINE g == [k \in 0..m + 1 |-> IF k = 0 THEN s ELSE DropReceiver(f[k - 1], p, Visited(packet, k))]
    <3>2. \A k \in 0..m : f[k] = g[k]
      BY <3>1
    <3>3. \A k \in 0..m + 1 :
             g[k] = IF k = 0 THEN s ELSE DropReceiver(g[k - 1], p, Visited(packet, k))
      <4> TAKE k \in 0..m + 1
      <4>1. CASE k = 0
        BY <4>1
      <4>2. CASE k # 0
        <5>1. k - 1 \in 0..m
          BY <4>2
        <5> QED
          BY <3>2, <4>2, <5>1
      <4> QED
        BY <4>1, <4>2
    <3>4. g = Step(g, m + 1)
      <4>1. g = [k \in 0..m + 1 |-> g[k]]
        OBVIOUS
      <4> HIDE DEF g, packet
      <4> QED
        BY <3>3, <4>1
    <3> HIDE DEF g, Step
    <3> QED
      BY <3>4
  <2>3. Nat \subseteq S
    <3> HIDE DEF S
    <3> QED
      BY <2>1, <2>2, NatInductionSet
  <2> QED
    BY <1>0, <2>3
<1>2. after = Step(after, n)
  <2> HIDE DEF Step
  <2> QED
    BY <1>1
<1>3. u = after[n]
  BY DEF AllDropped
<1> HIDE DEF after
<1>4. /\ after[0] = s
      /\ \A k \in 1..n : after[k] = DropReceiver(after[k - 1], p, Visited(packet, k))
  <2> HIDE DEF packet
  <2> QED
    BY <1>0, <1>2
<1> DEFINE S == {m \in Nat : m <= n => Dropping(s, after[m], p, VisitedIds(packet, m))}
<1>5. 0 \in S
  <2>1. VisitedIds(packet, 0) = {}
    BY DEF VisitedIds
  <2>2. Proper(s, {})
    BY DEF Consistent
  <2>3. \A z \in {} : LeftWith(s, z, p)
    OBVIOUS
  <2>4. Dropping(s, s, p, {})
    BY <2>2, <2>3 DEF Dropping
  <2> QED
    BY <1>4, <2>1, <2>4
<1>6. ASSUME NEW m \in Nat, m \in S PROVE m + 1 \in S
  <2> SUFFICES ASSUME m + 1 <= n PROVE Dropping(s, after[m + 1], p, VisitedIds(packet, m + 1))
    OBVIOUS
  <2>1. /\ m + 1 \in 1..n /\ (m + 1) - 1 = m /\ m <= n
        /\ \A k \in 1..m : k \in 1..n /\ k # m + 1
        /\ \A k : k \in 1..m + 1 <=> k \in 1..m \/ k = m + 1
    BY <1>0
  <2> DEFINE t == after[m]
             w == after[m + 1]
             V == VisitedIds(packet, m)
             W == VisitedIds(packet, m + 1)
             x == VisitedId(packet, m + 1)
             y == Visited(packet, m + 1)
  <2>2. Dropping(s, t, p, V) /\ w = DropReceiver(t, p, y) /\ Waits(s, x, p, y)
    BY <1>0, <1>4, <1>6, <2>1
  <2>3. x \notin V
    BY <1>0, <2>1 DEF VisitedIds
  <2>4. \A z : z \in W <=> z \in V \/ z = x
    BY <2>1 DEF VisitedIds
  <2>5. w = after[m + 1] /\ W = VisitedIds(packet, m + 1)
    OBVIOUS
  <2> HIDE DEF packet, t, w, V, W, x, y, after
  <2>6. Dropping(s, w, p, W)
    BY <2>2, <2>3, <2>4, ReceiverDropped
  <2> QED
    BY <2>5, <2>6
<1>7. Nat \subseteq S
  <2> HIDE DEF S
  <2> QED
    BY <1>5, <1>6, NatInductionSet
<1> QED
  BY <1>0, <1>3, <1>7

\* The packet that becomes the closing request of its sessions.
ClosingRequest(packet) == [packet EXCEPT !.resends = ResendsClosing, !.flags = "closing"]

\* It waits for the same sessions.
LEMMA ClosingRequestFacts ==
    ASSUME NEW packet, PacketGood(packet), NEW closing, closing = ClosingRequest(packet)
    PROVE  /\ PacketGood(closing)
           /\ closing.flags = "closing" /\ closing.slots = packet.slots
           /\ RetransmitSlots(closing) = RetransmitSlots(packet)
<1>1. PICK n \in 1..SessionsLimit : packet \in PacketType(n)
  BY DEF PacketGood
<1>2. /\ closing.resends = ResendsClosing /\ closing.flags = "closing"
      /\ closing.slots = packet.slots
      /\ closing.sessions_remaining = packet.sessions_remaining
      /\ closing.packet_session_index = packet.packet_session_index
  BY <1>1 DEF PacketType, ClosingRequest
<1>3. Resends \in Nat /\ ResendsClosing \in Nat
  BY ServerAssumption
<1>4. closing \in PacketType(n)
  BY <1>1, <1>3 DEF PacketType, ClosingRequest
<1>5. PacketGood(closing)
  <2>1. Distinct(closing.slots)
    BY <1>2 DEF PacketGood
  <2> QED
    BY <1>2, <1>3, <1>4, <2>1 DEF PacketGood, Indirect
<1>6. RetransmitSlots(closing) = RetransmitSlots(packet)
  BY <1>2 DEF RetransmitSlots
<1> QED
  BY <1>2, <1>5, <1>6

\* Turning a packet into the closing request of the sessions that did not acknowledge
\* it keeps the server consistent.
LEMMA DropConsistent ==
    ASSUME NEW s, Consistent(s), s.queue # <<>>, NEW p, p = Head(s.queue),
           ~ (s.packets[p].resends > 0), s.packets[p].flags # "closing",
           NEW u, u = DropReceivers(s, p)
    PROVE  Consistent(u) /\ LiveIds(u) = LiveIds(s)
<1> DEFINE packet == s.packets[p]
           n == packet.sessions_remaining
           t == AllDropped(s, p, n)
           D == VisitedIds(packet, n)
           X == {}
           a == [t EXCEPT !.packets[p].resends = ResendsClosing]
           closing == ClosingRequest(t.packets[p])
           v == [t EXCEPT !.packets = [@ EXCEPT ![p] = closing]]
           P == DOMAIN t.packets \ {p}
<1>1. u = Requeue([t EXCEPT !.packets[p].resends = ResendsClosing,
                            !.packets[p].flags = "closing"], p)
  BY DEF DropReceivers, AllDropped
<1>2. Memory(s) /\ Flags(s)
  BY DEF Consistent, Proper
<1>3. Leads(s.queue, DOMAIN s.packets, p) /\ p \in DOMAIN s.packets
  BY <1>2, HeadLeads DEF Memory, Leads
<1>4. packet.flags = "none" /\ packet.resends = 0
  <2>1. PacketGood(packet)
    BY <1>2, <1>3 DEF Memory
  <2>2. packet.flags \in {"none", "closing"} /\ packet.resends \in Nat
    BY <2>1, PacketFacts
  <2> QED
    BY <2>2
<1>5. Dropping(s, t, p, D)
  BY <1>3, <1>4, ReceiversDropped
<1>6. packet = s.packets[p] /\ n = packet.sessions_remaining
  OBVIOUS
<1> HIDE DEF packet, n, t
<1>7. \A x, y : Waits(s, x, p, y) => x \in D
  <2>1. \A x, y : Waits(s, x, p, y) => \E k \in 1..n : x = VisitedId(packet, k)
    BY <1>3, <1>6, VisitsAll
  <2> QED
    BY <2>1 DEF VisitedIds
<1> HIDE DEF D, X
<1>8. /\ Proper(t, D) /\ Good(t, Sessions) /\ Memory(t) /\ DOMAIN t = ServerFields
      /\ p \in DOMAIN t.packets /\ Leads(t.queue, DOMAIN t.packets, p)
  BY <1>5 DEF Dropping, Proper, Memory
<1>9. PacketGood(t.packets[p])
  BY <1>8 DEF Memory
<1>10. [t EXCEPT !.packets[p].resends = ResendsClosing, !.packets[p].flags = "closing"] = v
  <2>1. v = [t EXCEPT !.packets = [@ EXCEPT ![p] = [t.packets[p] EXCEPT !.resends = ResendsClosing,
                                                                      !.flags = "closing"]]]
    BY DEF ClosingRequest
  <2>2. "packets" \in DOMAIN t
    BY <1>8 DEF ServerFields
  <2> QED
    BY ZenonT(30), <1>8, <2>1, <2>2
<1>11. /\ PacketGood(closing)
       /\ closing.flags = "closing" /\ closing.slots = t.packets[p].slots
       /\ RetransmitSlots(closing) = RetransmitSlots(t.packets[p])
  BY <1>9, ClosingRequestFacts
<1>12. u = Requeue(v, p)
  BY <1>1, <1>10
<1> HIDE DEF closing
<1>13. /\ Memory(v) /\ SameTable(t, v) /\ v.queue = t.queue
       /\ DOMAIN v.packets = DOMAIN t.packets /\ v.packets[p] = closing
       /\ \A q \in DOMAIN t.packets : q # p => v.packets[q] = t.packets[q]
  BY <1>8, <1>11, PacketReplaced
<1> HIDE DEF v
<1>14. /\ Memory(u) /\ SameTable(v, u) /\ u.packets = v.packets
       /\ SameOrder(v.queue, u.queue, DOMAIN v.packets \ {p})
  <2>1. v.queue # <<>> /\ p = Head(v.queue)
    BY <1>8, <1>13, HeadLeads DEF Memory
  <2> QED
    BY ZenonT(30), <1>12, <1>13, <2>1, RequeueMemory
<1>15. SameTable(t, u)
  BY <1>13, <1>14 DEF SameTable
<1>16. SameSessions(t, u) /\ u.session_id_last = t.session_id_last /\ u.closing = t.closing
  BY <1>15, SameTableSessions
<1>17. /\ Good(u, Sessions)
       /\ LiveIds(u) = LiveIds(t) /\ ConnectedIds(u) = ConnectedIds(t)
       /\ \A x : Entry(u, x) = Entry(t, x)
       /\ Others(t, u, D)
  BY <1>8, <1>16, SameSessionsView
<1>18. \A q \in P : u.packets[q] = t.packets[q]
  BY <1>13, <1>14
<1>19. Preserved(t, u, P)
  <2>1. \A q \in P : u.packets[q].sessions_remaining \in Nat
    <3>1. \A q \in P : PacketGood(t.packets[q])
      BY <1>8 DEF Memory
    <3> QED
      BY <1>18, <3>1, PacketFacts
  <2>2. \A q \in P : SameContent(t.packets[q], u.packets[q])
    BY <1>18, <2>1 DEF SameContent
  <2> QED
    BY <1>13, <1>14, <2>2 DEF Preserved
<1>20. \A x, q, y : Waits(u, x, q, y) <=> Waits(t, x, q, y)
  BY <1>11, <1>13, <1>14 DEF Waits
<1>21. \A x, y : Waits(t, x, p, y) => x \in D
  BY <1>5, <1>7 DEF Dropping
<1>22. Proper(u, D)
  <2>1. \A x, q, y : x \notin D /\ Waits(t, x, q, y) => q \in P
    BY <1>21 DEF Waits
  <2>2. \A x, q, y : x \notin D => (Waits(u, x, q, y) <=> Waits(t, x, q, y))
    BY <1>20
  <2> HIDE DEF P
  <2> QED
    BY <1>8, <1>14, <1>17, <1>19, <2>1, <2>2, ProperKept
<1>23. \A x \in D : \A q, y : Waits(u, x, q, y) <=> Holds(u, x, q, y)
  BY <1>5, <1>17, <1>20 DEF Dropping, LeftWith, Holds
<1>24. ASSUME NEW x \in D PROVE x \in LiveIds(u) => Chained(u, x)
  <2> DEFINE e == Entry(t, x)
             chain == e.chain
  <2>1. /\ Len(chain) = 1 /\ chain[1].packet = p /\ ~ IsOpening(e)
        /\ LinkSlot(t, chain[1]).remote_id = 0
    BY <1>5 DEF Dropping, LeftWith
  <2>2. Entry(u, x) = e /\ x \notin ConnectedIds(u)
    BY <1>5, <1>17 DEF Dropping
  <2>3. chain = e.chain
    OBVIOUS
  <2>4. Ordered(u, chain)
    <3> HIDE DEF chain
    <3>1. \A j, k \in 1..Len(chain) : j = k /\ ~ (j < k)
      BY <2>1
    <3> QED
      BY <3>1 DEF Ordered
  <2> HIDE DEF chain, e
  <2>5. LinkSlot(u, chain[1]).remote_id = 0
    BY <1>11, <1>13, <1>14, <2>1 DEF LinkSlot
  <2>6. u.packets[chain[1].packet].flags = "closing"
    BY <1>11, <1>13, <1>14, <2>1
  <2>7. Alone(u, e)
    BY <2>1, <2>3, <2>5, <2>6 DEF Alone
  <2> QED
    BY <2>2, <2>3, <2>4, <2>7 DEF Chained
<1>25. Proper(u, X)
  BY <1>22, <1>23, <1>24, ProperAll
<1>26. LiveIds(u) = LiveIds(s)
  BY <1>5, <1>17 DEF Dropping
<1>27. Flags(u)
  <2>1. u.session_id_last = s.session_id_last /\ u.closing = s.closing
    BY <1>5, <1>16 DEF Dropping
  <2>2. \A z \in LiveIds(s) : z \in ConnectedIds(u) => z \in ConnectedIds(s)
    BY <1>5, <1>17 DEF Dropping
  <2>3. \A z \in LiveIds(s) : ~ IsOpening(Entry(s, z)) => ~ IsOpening(Entry(u, z))
    <3> TAKE z \in LiveIds(s)
    <3>1. CASE z \in D
      BY <1>5, <1>17, <3>1 DEF Dropping, LeftWith
    <3>2. CASE z \notin D
      BY <1>5, <1>17, <3>2 DEF Dropping
    <3> QED
      BY <3>1, <3>2
  <2>4. s.closing => OnlyClosing(u)
    BY <1>2, <1>26, <2>2, <2>3 DEF Flags, OnlyClosing
  <2> QED
    BY <1>2, <1>26, <2>1, <2>4, FlagsKept
<1> QED
  BY <1>25, <1>26, <1>27 DEF Consistent, X

\* Whatever becomes of the packet at the head of the queue.
LEMMA RetransmitConsistent ==
    ASSUME NEW s, Consistent(s), s.queue # <<>>, NEW p, p = Head(s.queue),
           NEW u, u = IF s.packets[p].resends > 0 THEN Resend(s, p)
                      ELSE IF s.packets[p].flags = "closing" THEN TerminateReceivers(s, p)
                      ELSE DropReceivers(s, p)
    PROVE  Consistent(u) /\ ForgetsClosing(s, u)
<1>1. CASE s.packets[p].resends > 0
  <2>1. Consistent(u) /\ LiveIds(u) = LiveIds(s)
    BY <1>1, ResendConsistent
  <2> QED
    BY <2>1 DEF ForgetsClosing
<1>2. CASE ~ (s.packets[p].resends > 0) /\ s.packets[p].flags = "closing"
  BY <1>2, TerminateConsistent
<1>3. CASE ~ (s.packets[p].resends > 0) /\ s.packets[p].flags # "closing"
  <2>1. Consistent(u) /\ LiveIds(u) = LiveIds(s)
    BY <1>3, DropConsistent
  <2> QED
    BY <2>1 DEF ForgetsClosing
<1> QED
  BY <1>1, <1>2, <1>3

-------------------------------------------------------------------------------
(***************************************************************************)
(* The server closes.                                                      *)
(***************************************************************************)

\* Evicting sessions leaves packets alone.
LEMMA EvictTableOnly ==
    ASSUME NEW s, DOMAIN s = ServerFields
    PROVE  TableOnly(s, EvictSessions(s))
  BY DEF EvictSessions, TableOnly, SamePackets, ServerFields

\* Every session waits for the closing request that p is, and for nothing else.
Requested(s, p) ==
    [s EXCEPT !.sessions = [i \in Indexes(s) |->
                               [s.sessions[i] EXCEPT !.chain = <<Link(p, i)>>]]]

\* They keep their places.
LEMMA RequestedView ==
    ASSUME NEW s, Good(s, Sessions), DOMAIN s = ServerFields, NEW p \in Packets,
           NEW u, u = Requested(s, p)
    PROVE  /\ SamePlaces(s, u) /\ TableOnly(s, u)
           /\ \A i \in Indexes(s) : u.sessions[i].chain = <<Link(p, i)>>
<1>1. s.sessions \in [Indexes(s) -> Sessions] /\ \A i \in Indexes(s) : i \in 0..SessionsLimit - 1
  BY SessionsEntries, GoodFacts DEF Indexes
<1>2. /\ DOMAIN u = DOMAIN s
      /\ u.sessions_len = s.sessions_len /\ u.sessions_connected = s.sessions_connected
      /\ u.lookup = s.lookup /\ u.packets = s.packets /\ u.queue = s.queue
      /\ u.queue_tail = s.queue_tail /\ u.session_id_last = s.session_id_last
      /\ u.closing = s.closing
      /\ u.sessions = [i \in Indexes(s) |-> [s.sessions[i] EXCEPT !.chain = <<Link(p, i)>>]]
  BY DEF Requested, ServerFields
<1>3. ASSUME NEW i \in Indexes(s)
      PROVE  /\ u.sessions[i] \in Sessions
             /\ u.sessions[i].session_id = s.sessions[i].session_id
             /\ u.sessions[i].send_id = s.sessions[i].send_id
             /\ u.sessions[i].chain = <<Link(p, i)>>
  <2> DEFINE e == s.sessions[i]
             chain == <<Link(p, i)>>
  <2>1. u.sessions[i] = [e EXCEPT !.chain = chain]
    BY <1>2
  <2>2. e \in Sessions /\ Link(p, i) \in Links
    BY <1>1 DEF Link, Links
  <2>3. chain \in Seq(Links)
    BY <2>2
  <2> HIDE DEF e, chain
  <2>4. /\ u.sessions[i] \in Sessions
        /\ u.sessions[i].session_id = e.session_id
        /\ u.sessions[i].send_id = e.send_id
        /\ u.sessions[i].chain = chain
    BY <2>1, <2>2, <2>3 DEF Sessions
  <2> QED
    BY <2>4 DEF e, chain
<1>4. u.sessions \in [Indexes(s) -> Sessions]
  <2>1. u.sessions = [i \in Indexes(s) |-> u.sessions[i]]
    BY <1>2
  <2> QED
    BY <1>3, <2>1
<1>5. SamePlaces(s, u)
  BY <1>2, <1>3, <1>4 DEF SamePlaces
<1>6. TableOnly(s, u)
  BY <1>2 DEF TableOnly, SamePackets
<1> QED
  BY <1>3, <1>5, <1>6

\* The closing request that is broadcast: a slot for every session, at its index.
LEMMA RequestPacket ==
    ASSUME NEW s, Good(s, Sessions), s.sessions_len # 0, NEW packet,
           packet = Packet([i \in Indexes(s) |-> Slot(s.sessions[i].session_id, 0)], "closing")
    PROVE  /\ PacketGood(packet) /\ packet.flags = "closing"
           /\ \A y : y \in RetransmitSlots(packet) <=> y \in Indexes(s)
           /\ \A y \in Indexes(s) : /\ packet.slots[y].session_id = s.sessions[y].session_id
                                    /\ packet.slots[y].remote_id = 0
<1> DEFINE n == s.sessions_len
           slots == [i \in Indexes(s) |-> Slot(s.sessions[i].session_id, 0)]
<1>1. n \in 1..SessionsLimit /\ Indexes(s) = 0..n - 1
  <2>1. n \in Nat /\ n <= SessionsLimit
    BY SessionsEntries, GoodFacts
  <2> QED
    BY <2>1, IdsFacts DEF Indexes
<1>2. \A i \in Indexes(s) : s.sessions[i].session_id \in SessionIds
  BY SessionsEntries, GoodFacts
<1>3. 0 \in RemoteIds
  BY ServerAssumption DEF RemoteIds
<1>4. slots \in [0..n - 1 -> SlotType]
  BY <1>1, <1>2, <1>3 DEF Slot, SlotType
<1>5. \A y \in Indexes(s) : /\ slots[y].session_id = s.sessions[y].session_id
                            /\ slots[y].remote_id = 0
  BY DEF Slot
<1>6. packet = Packet(slots, "closing")
  OBVIOUS
<1>8. Distinct(slots)
  <2>1. \A y, z \in Indexes(s) : s.sessions[y].session_id = s.sessions[z].session_id => y = z
    BY SessionsEntries, Places
  <2>2. DOMAIN slots = Indexes(s)
    OBVIOUS
  <2> HIDE DEF slots, n
  <2> QED
    BY <1>5, <2>1, <2>2 DEF Distinct
<1> HIDE DEF slots, n
<1>7. /\ PacketGood(packet) /\ RetransmitSlots(packet) = 0..n - 1
      /\ packet.slots = slots /\ packet.flags = "closing"
  BY <1>1, <1>4, <1>6, <1>8, PacketNew
<1> QED
  BY <1>1, <1>5, <1>7

\* A table of sessions that are all settled.
AllSettled(s) ==
    /\ Good(s, Sessions) /\ ConnectedIds(s) = {}
    /\ \A x \in LiveIds(s) : ~ IsOpening(Entry(s, x))

\* Sending all sessions the closing request, once nobody waits for anything.
LEMMA RequestConsistent ==
    ASSUME NEW s, AllSettled(s), Memory(s), DOMAIN s.packets = {}, s.sessions_len # 0,
           s.session_id_last \in SessionIds, s.closing = TRUE, Packets # {},
           NEW u, u = BroadcastClose(s)
    PROVE  Consistent(u) /\ LiveIds(u) = LiveIds(s)
<1> DEFINE p == NewPacket(s)
           v == Requested(s, p)
           packet == Packet([i \in Indexes(s) |-> Slot(s.sessions[i].session_id, 0)], "closing")
           X == {}
<1>1. Good(s, Sessions) /\ DOMAIN s = ServerFields
  BY DEF AllSettled, Memory
<1>2. p \in FreePackets(s) /\ p \in Packets
  BY FreePacket DEF FreePackets
<1>3. u = Enqueue(v, p, packet)
  BY DEF BroadcastClose, Requested
<1>4. /\ PacketGood(packet) /\ packet.flags = "closing"
      /\ \A y : y \in RetransmitSlots(packet) <=> y \in Indexes(s)
      /\ \A y \in Indexes(s) : /\ packet.slots[y].session_id = s.sessions[y].session_id
                               /\ packet.slots[y].remote_id = 0
  BY <1>1, RequestPacket
<1>5. v = Requested(s, p)
  OBVIOUS
<1> HIDE DEF p, v, packet, X
<1>6. /\ SamePlaces(s, v) /\ TableOnly(s, v)
      /\ \A i \in Indexes(s) : v.sessions[i].chain = <<Link(p, i)>>
  BY <1>1, <1>2, <1>5, RequestedView
<1>7. /\ Good(v, Sessions)
      /\ LiveIds(v) = LiveIds(s) /\ ConnectedIds(v) = ConnectedIds(s)
      /\ Indexes(v) = Indexes(s)
  BY <1>1, <1>6, SamePlacesView
<1>8. Memory(v) /\ v.packets = s.packets /\ v.session_id_last = s.session_id_last
      /\ v.closing = s.closing
  <2>1. SamePackets(s, v)
    BY <1>6 DEF TableOnly
  <2>2. Memory(v)
    BY <2>1, PreservedSame
  <2> QED
    BY <1>6, <2>2 DEF TableOnly, SamePackets
<1>9. /\ Memory(u) /\ SameTable(v, u) /\ u.packets[p] = packet
      /\ \A x, q, y : Waits(u, x, q, y) <=>
            \/ Waits(v, x, q, y)
            \/ q = p /\ y \in RetransmitSlots(packet) /\ packet.slots[y].session_id = x
  <2>1. p \in FreePackets(v)
    BY <1>2, <1>8 DEF FreePackets
  <2> QED
    BY <1>3, <1>4, <1>8, <2>1, EnqueueMemory
<1>10. SameSessions(v, u) /\ u.session_id_last = v.session_id_last /\ u.closing = v.closing
  BY <1>9, SameTableSessions
<1>11. /\ Good(u, Sessions)
       /\ LiveIds(u) = LiveIds(s) /\ ConnectedIds(u) = {} /\ Indexes(u) = Indexes(s)
       /\ u.sessions = v.sessions
  <2>1. /\ Good(u, Sessions) /\ LiveIds(u) = LiveIds(v) /\ ConnectedIds(u) = ConnectedIds(v)
        /\ Indexes(u) = Indexes(v)
    BY <1>7, <1>10, SameSessionsView
  <2> QED
    BY <1>7, <1>10, <2>1 DEF SameSessions, AllSettled
\* What every session has.
<1>12. ASSUME NEW x \in LiveIds(u)
       PROVE  /\ u.lookup[x] \in Indexes(s)
              /\ Entry(u, x).chain = <<Link(p, u.lookup[x])>> /\ ~ IsOpening(Entry(u, x))
              /\ packet.slots[u.lookup[x]].remote_id = 0
              /\ packet.slots[u.lookup[x]].session_id = x
  <2> DEFINE i == u.lookup[x]
  <2>1. i \in Indexes(u) /\ u.sessions[i].session_id = x /\ Entry(u, x) = u.sessions[i]
    BY <1>11, EntryOf
  <2> HIDE DEF i
  <2>2. i \in Indexes(s) /\ s.sessions[i].session_id = x
        /\ u.sessions[i].send_id = s.sessions[i].send_id
        /\ u.sessions[i].session_id = s.sessions[i].session_id
    BY <1>6, <1>11, <2>1 DEF SamePlaces
  <2>3. x \in LiveIds(s) /\ Entry(s, x) = s.sessions[i]
    BY <1>1, <2>2, AtIndex
  <2>4. ~ IsOpening(s.sessions[i])
    BY <2>3 DEF AllSettled
  <2>5. ~ IsOpening(Entry(u, x))
    BY <2>1, <2>2, <2>4 DEF IsOpening
  <2>6. Entry(u, x).chain = <<Link(p, i)>>
    BY <1>6, <1>11, <2>1, <2>2
  <2> QED
    BY <1>4, <2>2, <2>5, <2>6 DEF i
<1>13. \A y \in Indexes(s) : s.sessions[y].session_id \in LiveIds(u)
                             /\ u.lookup[s.sessions[y].session_id] = y
  <2> TAKE y \in Indexes(s)
  <2>1. s.sessions[y].session_id = u.sessions[y].session_id /\ y \in Indexes(u)
    BY <1>6, <1>11 DEF SamePlaces
  <2> QED
    BY <1>11, <2>1, AtIndex
<1>14. ASSUME NEW x \in LiveIds(u) PROVE Chained(u, x)
  <2> DEFINE e == Entry(u, x)
             i == u.lookup[x]
             l == Link(p, i)
  <2>1. e.chain = <<l>> /\ ~ IsOpening(e) /\ packet.slots[i].remote_id = 0
    BY <1>12
  <2>2. l.packet = p /\ l.slot = i
    BY LinkParts
  <2>3. Len(e.chain) = 1 /\ e.chain[1] = l
    <3> HIDE DEF e, l
    <3> QED
      BY <2>1
  <2>4. Ordered(u, e.chain)
    <3> HIDE DEF e
    <3>1. \A j, k \in 1..Len(e.chain) : j = k /\ ~ (j < k)
      BY <2>3
    <3> QED
      BY <3>1 DEF Ordered
  <2> HIDE DEF e, i, l
  <2>5. Alone(u, e)
    BY <1>4, <1>9, <2>1, <2>2, <2>3 DEF Alone, LinkSlot
  <2>6. x \notin ConnectedIds(u)
    BY <1>11
  <2> QED
    BY <2>4, <2>5, <2>6 DEF Chained, e
<1>15. ASSUME NEW x, NEW q, NEW y PROVE Waits(u, x, q, y) <=> Holds(u, x, q, y)
  <2>1. ~ Waits(v, x, q, y)
    BY <1>8 DEF Waits
  <2>2. Waits(u, x, q, y) <=> q = p /\ y \in Indexes(s) /\ s.sessions[y].session_id = x
    BY <1>4, <1>9, <2>1
  <2>3. Holds(u, x, q, y) <=> x \in LiveIds(u) /\ Link(p, u.lookup[x]) = Link(q, y)
    <3>1. CASE x \in LiveIds(u)
      <4> DEFINE c == Entry(u, x).chain
                 l == Link(p, u.lookup[x])
      <4>1. c = <<l>>
        BY <1>12, <3>1
      <4>2. Holds(u, x, q, y) <=> InChain(c, Link(q, y))
        BY <3>1 DEF Holds
      <4> HIDE DEF c, l
      <4>3. InChain(c, Link(q, y)) <=> l = Link(q, y)
        BY <4>1 DEF InChain
      <4> QED
        BY <3>1, <4>2, <4>3 DEF l
    <3>2. CASE x \notin LiveIds(u)
      BY <3>2 DEF Holds
    <3> QED
      BY <3>1, <3>2
  <2>4. Link(p, u.lookup[x]) = Link(q, y) <=> q = p /\ y = u.lookup[x]
    BY LinkParts
  <2>5. x \in LiveIds(u) => u.lookup[x] \in Indexes(s) /\ s.sessions[u.lookup[x]].session_id = x
    BY <1>4, <1>12
  <2> QED
    BY <1>13, <2>2, <2>3, <2>4, <2>5
<1>16. Proper(u, X)
  BY <1>9, <1>11, <1>14, <1>15 DEF Proper, X
<1>17. Flags(u)
  <2>1. OnlyClosing(u)
    BY <1>11, <1>12 DEF OnlyClosing
  <2> QED
    BY <1>8, <1>10, <2>1 DEF Flags
<1> QED
  BY <1>11, <1>16, <1>17 DEF Consistent, X

\* Only the flag is written.
LEMMA ClosingWritten ==
    ASSUME NEW s, Good(s, Sessions), Memory(s), NEW closing,
           NEW u, u = [s EXCEPT !.closing = closing]
    PROVE  /\ Good(u, Sessions) /\ Memory(u) /\ SamePackets(s, u)
           /\ LiveIds(u) = LiveIds(s) /\ ConnectedIds(u) = ConnectedIds(s)
           /\ \A x : Entry(u, x) = Entry(s, x)
           /\ \A X : Others(s, u, X)
           /\ Indexes(u) = Indexes(s) /\ u.sessions_len = s.sessions_len
           /\ u.session_id_last = s.session_id_last /\ u.closing = closing
<1>1. DOMAIN s = ServerFields
  BY DEF Memory
<1>2. /\ SamePackets(s, u) /\ SameSessions(s, u)
      /\ u.session_id_last = s.session_id_last /\ u.closing = closing
  BY <1>1 DEF SamePackets, SameSessions, ServerFields
<1>3. Memory(u)
  BY <1>2, PreservedSame
<1>4. /\ Good(u, Sessions)
      /\ LiveIds(u) = LiveIds(s) /\ ConnectedIds(u) = ConnectedIds(s)
      /\ Indexes(u) = Indexes(s)
      /\ \A x : Entry(u, x) = Entry(s, x)
      /\ \A X : Others(s, u, X)
  BY <1>2, SameSessionsView
<1> QED
  BY <1>2, <1>3, <1>4 DEF SameSessions

\* An array without sessions has no ids that lead to any.
LEMMA NoneLive ==
    ASSUME NEW s, Good(s, Sessions)
    PROVE  s.sessions_len = 0 <=> LiveIds(s) = {}
<1>1. s.sessions_len \in Nat /\ Indexes(s) = 0..s.sessions_len - 1
  BY SessionsEntries, Places
<1>2. ASSUME s.sessions_len = 0, NEW x \in LiveIds(s) PROVE FALSE
  <2>1. s.lookup[x] \in Indexes(s)
    BY EntryOf
  <2> QED
    BY <1>1, <1>2, <2>1
<1>3. ASSUME s.sessions_len # 0 PROVE LiveIds(s) # {}
  <2>1. 0 \in Indexes(s)
    BY <1>1, <1>3
  <2>2. s.sessions[0].session_id \in LiveIds(s)
    BY <2>1, AtIndex
  <2> QED
    BY <2>2
<1> QED
  BY <1>2, <1>3

\* A server without sessions is consistent whether it is closing or not.
LEMMA ClosingConsistent ==
    ASSUME NEW s, Consistent(s), s.sessions_len = 0, NEW closing \in BOOLEAN,
           NEW u, u = [s EXCEPT !.closing = closing]
    PROVE  Consistent(u) /\ LiveIds(u) = LiveIds(s)
<1> DEFINE X == {}
<1>1. Proper(s, X) /\ Flags(s) /\ Good(s, Sessions) /\ Memory(s)
  BY DEF Consistent, Proper
<1>2. LiveIds(s) = {}
  BY <1>1, NoneLive
<1> HIDE DEF X
<1>3. /\ Good(u, Sessions) /\ Memory(u) /\ SamePackets(s, u)
      /\ LiveIds(u) = LiveIds(s) /\ ConnectedIds(u) = ConnectedIds(s)
      /\ Others(s, u, X)
      /\ u.session_id_last = s.session_id_last /\ u.closing = closing
  BY <1>1, ClosingWritten
<1>4. /\ Preserved(s, u, DOMAIN s.packets)
      /\ \A x, p, y : Waits(u, x, p, y) <=> Waits(s, x, p, y)
  BY <1>1, <1>3, PreservedSame
<1>5. Proper(u, X)
  <2>1. \A x, p, y : x \notin X /\ Waits(s, x, p, y) => p \in DOMAIN s.packets
    BY DEF Waits
  <2>2. \A x, p, y : x \notin X => (Waits(u, x, p, y) <=> Waits(s, x, p, y))
    BY <1>4
  <2> QED
    BY <1>1, <1>3, <1>4, <2>1, <2>2, ProperKept
<1>6. Flags(u)
  BY <1>1, <1>2, <1>3 DEF Flags, OnlyClosing
<1> QED
  BY <1>3, <1>5, <1>6 DEF Consistent, X

\* Closing a server that has sessions keeps it consistent.
LEMMA ServerClosed ==
    ASSUME NEW s, Consistent(s), s.sessions_len # 0,
           NEW closing, closing = [s EXCEPT !.closing = TRUE],
           NEW flushed, flushed = ReleaseQueue(EvictSessions(closing)),
           NEW u, u = BroadcastClose(flushed)
    PROVE  Consistent(u) /\ LiveIds(u) = LiveIds(s)
<1> DEFINE v == EvictSessions(closing)
<1>1. Flags(s) /\ Good(s, Sessions) /\ Memory(s)
  BY DEF Consistent, Proper
<1>2. /\ Good(closing, Sessions) /\ Memory(closing)
      /\ LiveIds(closing) = LiveIds(s) /\ closing.sessions_len = s.sessions_len
      /\ closing.session_id_last = s.session_id_last /\ closing.closing = TRUE
  BY <1>1, ClosingWritten
<1>3. flushed = ReleaseQueue(v) /\ v = EvictSessions(closing)
  OBVIOUS
<1> HIDE DEF v
<1>4. Good(v, Sessions)
  BY <1>2, <1>3, SessionsEntries, EvictGood
<1>5. /\ LiveIds(v) = LiveIds(s) /\ ConnectedIds(v) = {}
      /\ \A x \in LiveIds(s) : Entry(v, x) = Settled(Entry(closing, x))
  <2>1. /\ LiveIds(v) = LiveIds(closing) /\ ConnectedIds(v) = {}
        /\ \A x \in LiveIds(closing) : Entry(v, x) = Settled(Entry(closing, x))
    BY <1>2, <1>3, SessionsEntries, EvictView
  <2> QED
    BY <1>2, <2>1
<1>6. /\ TableOnly(closing, v) /\ v.sessions_len = closing.sessions_len
      /\ v.session_id_last = s.session_id_last /\ v.closing = TRUE
  <2>1. DOMAIN closing = ServerFields
    BY <1>2 DEF Memory
  <2>2. v.sessions_len = closing.sessions_len
    BY <1>3, <2>1 DEF EvictSessions, ServerFields
  <2>3. TableOnly(closing, v)
    BY <1>3, <2>1, EvictTableOnly
  <2> QED
    BY <1>2, <2>2, <2>3 DEF TableOnly
<1>7. Memory(v)
  BY <1>2, <1>6, PreservedSame DEF TableOnly
<1>8. AllSettled(v)
  <2>1. ASSUME NEW x \in LiveIds(v) PROVE ~ IsOpening(Entry(v, x))
    <3>1. x \in LiveIds(closing) /\ Entry(v, x) = Settled(Entry(closing, x))
      BY <1>2, <1>5
    <3>2. Entry(closing, x) \in Sessions
      BY <1>2, <3>1, EntryOf
    <3> QED
      BY <3>1, <3>2 DEF IsOpening, Settled, Sessions
  <2> QED
    BY <1>4, <1>5, <2>1 DEF AllSettled
<1>9. Memory(flushed) /\ SameTable(v, flushed) /\ DOMAIN flushed.packets = {}
  BY <1>3, <1>7, ReleaseQueueMemory
<1>10. /\ SameSessions(v, flushed) /\ flushed.session_id_last = v.session_id_last
       /\ flushed.closing = v.closing
  BY <1>9, SameTableSessions
<1>11. /\ Good(flushed, Sessions)
       /\ LiveIds(flushed) = LiveIds(v) /\ ConnectedIds(flushed) = ConnectedIds(v)
       /\ \A x : Entry(flushed, x) = Entry(v, x)
  BY <1>4, <1>10, SameSessionsView
<1>12. AllSettled(flushed) /\ LiveIds(flushed) = LiveIds(s)
  BY <1>5, <1>8, <1>11 DEF AllSettled
<1>13. Packets # {}
  BY <1>1, NoneLive DEF Flags
<1>14. /\ flushed.sessions_len # 0 /\ flushed.session_id_last \in SessionIds
       /\ flushed.closing = TRUE
  BY <1>1, <1>2, <1>6, <1>10 DEF SameSessions, Flags
<1> QED
  BY <1>9, <1>12, <1>13, <1>14, RequestConsistent

-------------------------------------------------------------------------------
(***************************************************************************)
(* Actions.                                                                *)
(***************************************************************************)

\* The server that starts is consistent.
LEMMA InitConsistent == Init => Consistent(server)
<1> SUFFICES ASSUME Init PROVE Consistent(server)
  OBVIOUS
<1>1. /\ DOMAIN server = ServerFields
      /\ server.sessions_len = 0 /\ server.sessions_connected = 0
      /\ server.sessions = [i \in {} |-> i] /\ server.lookup = [id \in Ids |-> NoSession]
      /\ server.session_id_last = 0 /\ server.packets = [p \in {} |-> p]
      /\ server.queue = <<>> /\ server.queue_tail = NoPacket /\ server.closing = FALSE
  BY DEF Init, NoSessions, ServerFields
<1>2. Indexes(server) = {} /\ SessionsLimit \in Nat
  BY <1>1, IdsFacts DEF Indexes
<1>3. Shape(server, Sessions)
  BY <1>1, <1>2, NoSessionRange DEF Shape, Fields, ServerFields
<1>4. SessionIds \subseteq Ids /\ RequestIds \subseteq Ids
  BY IdsFacts
<1>5. Good(server, Sessions)
  BY <1>1, <1>2, <1>3, <1>4 DEF Good, Registered, SessionIdsLead, RequestIdsLead, Partitioned
<1>6. LiveIds(server) = {}
  BY <1>1, <1>5, NoneLive
<1>7. Memory(server)
  BY <1>1 DEF Memory, Listing
<1>8. \A x, p, y : ~ Waits(server, x, p, y)
  BY <1>1 DEF Waits
<1>9. Proper(server, {})
  BY <1>5, <1>6, <1>7, <1>8 DEF Proper, Holds
<1>10. Flags(server)
  <2>1. server.session_id_last \in SessionIds
    BY <1>1, IdsAssumption DEF SessionIds
  <2> QED
    BY <1>1, <1>6, <2>1 DEF Flags
<1> QED
  BY <1>9, <1>10 DEF Consistent

\* A client's datagram finds the session it is from.
LEMMA FromSession ==
    ASSUME Consistent(server), NEW peer, NEW id \in Ids, From(peer, id)
    PROVE  /\ server.lookup[id] \in Indexes(server)
           /\ id \in SessionIds => server.sessions[server.lookup[id]].session_id = id
<1>1. Good(server, Sessions)
  BY DEF Consistent, Proper
<1>2. Exact(server)
  BY <1>1, SessionsEntries, GoodFacts
<1> QED
  BY <1>1, <1>2 DEF Exact, From, Good, SessionIdsLead

\* What an action makes of a consistent server: a consistent one, that has forgotten
\* only sessions that had been sent a closing request.
StepConsistent ==
    Consistent(server') /\ ForgetsClosing(server, server') /\ failed' \in Failures

\* Nothing was forgotten.
LEMMA ForgetsNone ==
    ASSUME NEW s, NEW u, LiveIds(s) \subseteq LiveIds(u)
    PROVE  ForgetsClosing(s, u)
  BY DEF ForgetsClosing

\* A failed assertion leaves the server as it was.
LEMMA FailsConsistent ==
    ASSUME Inv, NEW assertion \in Failures, Fails(assertion)
    PROVE  StepConsistent
<1>1. server' = server /\ failed' = assertion
  BY DEF Fails
<1>2. ForgetsClosing(server, server)
  BY ForgetsNone
<1> QED
  BY <1>1, <1>2 DEF StepConsistent, Inv

\* An operation that keeps the server consistent.
LEMMA BecomesConsistent ==
    ASSUME Inv, NEW u, Becomes(u), Consistent(u), ForgetsClosing(server, u)
    PROVE  StepConsistent
  BY DEF Becomes, StepConsistent, Inv

\* A session is created, or the assertion on its id fails.
LEMMA RecvOpenStep ==
    ASSUME Inv, NEW peer \in Peers, NEW request \in RequestIds, RecvOpen(peer, request)
    PROVE  StepConsistent
<1> DEFINE s == server
           u == CreateSession(s, request, peer)
<1>1. /\ s.lookup[request] = NoSession
      /\ s.sessions_len # SessionsLimit /\ ~ s.closing /\ FreePackets(s) # {}
      /\ Consistent(s)
  BY DEF RecvOpen, Inv
<1>2. CASE s.lookup[NextSessionId(s)] # NoSession
  <2>1. Fails("atem_session_create") /\ "atem_session_create" \in Failures
    BY <1>2 DEF RecvOpen, Failures
  <2> QED
    BY <2>1, FailsConsistent
<1>3. CASE s.lookup[NextSessionId(s)] = NoSession
  <2>1. Becomes(u)
    BY <1>3 DEF RecvOpen
  <2> HIDE DEF u
  <2>2. Consistent(u) /\ LiveIds(s) \subseteq LiveIds(u)
    BY <1>1, <1>3, CreateConsistent DEF u
  <2>3. ForgetsClosing(s, u)
    BY <2>2, ForgetsNone
  <2> QED
    BY <2>1, <2>2, <2>3, BecomesConsistent
<1> QED
  BY <1>2, <1>3

\* A session in its opening handshake is connected.
LEMMA RecvConnectStep ==
    ASSUME Inv, NEW peer \in Peers, NEW request \in RequestIds, RecvConnect(peer, request)
    PROVE  StepConsistent
<1> DEFINE s == server
           u == CompleteSession(s, request)
<1>1. /\ Consistent(s) /\ s.lookup[request] # NoSession
      /\ Cardinality(FreePackets(s)) >= CacheChunks /\ Becomes(u)
  BY DEF RecvConnect, From, Inv
<1>2. CacheChunks <= Cardinality(FreePackets(s))
  <2>1. Cardinality(FreePackets(s)) \in Nat /\ CacheChunks \in Nat
    BY FreeFacts, ServerAssumption
  <2> QED
    BY <1>1, <2>1
<1>3. u = CompleteSession(s, request)
  OBVIOUS
<1> HIDE DEF u
<1>4. Consistent(u) /\ LiveIds(u) = LiveIds(s)
  BY <1>1, <1>2, <1>3, CompleteConsistent
<1>5. ForgetsClosing(s, u)
  BY <1>4, ForgetsNone
<1> QED
  BY <1>1, <1>4, <1>5, BecomesConsistent

\* A session is taken out of the packets it acknowledges.
LEMMA RecvAckStep ==
    ASSUME Inv, NEW peer \in Peers, NEW id \in SessionIds, NEW ack_id \in RemoteIds,
           RecvAck(peer, id, ack_id)
    PROVE  StepConsistent
<1> DEFINE s == server
           i == s.lookup[id]
           u == Acknowledge(s, i, ack_id)
<1>1. Consistent(s) /\ From(peer, id) /\ Connected(s, i) /\ Becomes(u)
  BY DEF RecvAck, Inv
<1>2. id \in Ids
  BY IdsFacts
<1>3. i \in Indexes(s)
  BY <1>1, <1>2, FromSession
<1>4. u = Acknowledge(s, i, ack_id)
  OBVIOUS
<1> HIDE DEF u, i
<1>5. Consistent(u) /\ LiveIds(u) = LiveIds(s)
  BY <1>1, <1>3, <1>4, AcknowledgeConsistent
<1>6. ForgetsClosing(s, u)
  BY <1>5, ForgetsNone
<1> QED
  BY <1>1, <1>5, <1>6, BecomesConsistent

\* A client that closes its session is the only one that forgets a session that was
\* not sent a closing request.
LEMMA RecvClosingStep ==
    ASSUME Inv, NEW peer \in Peers, NEW id \in SessionIds, RecvClosing(peer, id)
    PROVE  /\ Consistent(server') /\ failed' \in Failures
           /\ LiveIds(server') = LiveIds(server) \ {id}
<1> DEFINE s == server
           i == s.lookup[id]
           u == CloseSession(s, i)
<1>1. Consistent(s) /\ From(peer, id) /\ server' = u /\ failed' \in Failures
  BY DEF RecvClosing, Becomes, Inv
<1>2. id \in Ids
  BY IdsFacts
<1>3. i \in Indexes(s) /\ id = s.sessions[i].session_id
  BY <1>1, <1>2, FromSession
<1>4. u = CloseSession(s, i)
  OBVIOUS
<1> HIDE DEF u, i
<1>5. Consistent(u) /\ LiveIds(u) = LiveIds(s) \ {id}
  BY <1>1, <1>3, <1>4, CloseConsistent
<1> QED
  BY <1>1, <1>5

\* A session that answers the closing request is forgotten.
LEMMA RecvClosedStep ==
    ASSUME Inv, NEW peer \in Peers, NEW id \in SessionIds, RecvClosed(peer, id)
    PROVE  StepConsistent
<1> DEFINE s == server
           i == s.lookup[id]
           chain == s.sessions[i].chain
           u == TerminateSession(Disassociate(s, Head(chain)), i)
<1>1. /\ Consistent(s) /\ From(peer, id) /\ Becomes(u) /\ chain # <<>>
      /\ s.packets[Head(chain).packet].flags = "closing"
  BY DEF RecvClosed, Inv
<1>2. id \in Ids
  BY IdsFacts
<1>3. i \in Indexes(s) /\ id = s.sessions[i].session_id
  BY <1>1, <1>2, FromSession
<1>4. u = TerminateSession(Disassociate(s, Head(chain)), i) /\ chain = s.sessions[i].chain
  OBVIOUS
<1> HIDE DEF u, i, chain
<1>5. Consistent(u) /\ LiveIds(u) = LiveIds(s) \ {id} /\ ~ Connected(s, i) /\ ~ Opening(s, i)
  BY <1>1, <1>3, <1>4, ClosedConsistent
<1>6. ForgetsClosing(s, u)
  <2>1. Good(s, Sessions)
    BY <1>1 DEF Consistent, Proper
  <2>2. id \notin ConnectedIds(s) /\ ~ IsOpening(Entry(s, id))
    BY <1>3, <1>5, <2>1, AtIndex
  <2> QED
    BY <1>5, <2>2 DEF ForgetsClosing
<1> QED
  BY <1>1, <1>5, <1>6, BecomesConsistent

\* Updates are broadcast, or the assertion that somebody is connected fails.
LEMMA RecvDataStep ==
    ASSUME Inv, NEW peer \in Peers, NEW id \in SessionIds, NEW updates \in Updates,
           RecvData(peer, id, updates)
    PROVE  StepConsistent
<1> DEFINE s == server
           i == s.lookup[id]
           received == Received(s, i)
           u == BroadcastUpdates(received, updates)
<1>1. /\ Consistent(s) /\ From(peer, id) /\ updates <= Cardinality(FreePackets(s))
      /\ IF s.sessions_connected = 0 THEN Fails("atem_cache_update") ELSE Becomes(u)
  BY DEF RecvData, Inv, Received
<1>2. id \in Ids /\ updates \in Nat
  BY IdsFacts, ServerAssumption
<1>3. i \in Indexes(s)
  BY <1>1, <1>2, FromSession
<1>4. received = Received(s, i) /\ u = BroadcastUpdates(received, updates)
  OBVIOUS
<1> HIDE DEF u, i, received
<1>5. CASE s.sessions_connected = 0
  <2>1. "atem_cache_update" \in Failures
    BY DEF Failures
  <2> QED
    BY <1>1, <1>5, <2>1, FailsConsistent
<1>6. CASE s.sessions_connected # 0
  <2>1. /\ Consistent(received) /\ LiveIds(received) = LiveIds(s)
        /\ received.sessions_connected = s.sessions_connected
        /\ FreePackets(received) = FreePackets(s)
    BY <1>1, <1>3, <1>4, ReceivedConsistent
  <2>2. received.sessions_connected > 0
    <3>1. Good(s, Sessions)
      BY <1>1 DEF Consistent, Proper
    <3>2. s.sessions_len \in Nat /\ s.sessions_connected \in 0..s.sessions_len
      BY <3>1, SessionsEntries, Places
    <3> QED
      BY <1>6, <2>1, <3>2
  <2>3. Consistent(u) /\ LiveIds(u) = LiveIds(received)
    BY <1>1, <1>2, <1>4, <2>1, <2>2, UpdatesConsistent
  <2>4. ForgetsClosing(s, u)
    BY <2>1, <2>3, ForgetsNone
  <2> QED
    BY <1>1, <1>6, <2>3, <2>4, BecomesConsistent
<1> QED
  BY <1>5, <1>6

\* A ping is broadcast.
LEMMA PingStep ==
    ASSUME Inv, Ping
    PROVE  StepConsistent
<1> DEFINE s == server
           u == Broadcast(s)
<1>1. Consistent(s) /\ s.sessions_connected > 0 /\ FreePackets(s) # {} /\ Becomes(u)
  BY DEF Ping, Inv
<1>2. u = Broadcast(s)
  OBVIOUS
<1> HIDE DEF u
<1>3. Broadcasts(s, u)
  BY <1>1, <1>2, BroadcastConsistent
<1>4. Consistent(u) /\ ForgetsClosing(s, u)
  BY <1>3, ForgetsNone DEF Broadcasts
<1> QED
  BY <1>1, <1>4, BecomesConsistent

\* The packet at the head of the queue is sent again, becomes a closing request, or is
\* given up.
LEMMA RetransmitStep ==
    ASSUME Inv, NEW p \in Packets, Retransmit(p)
    PROVE  StepConsistent
<1> DEFINE s == server
           u == IF s.packets[p].resends > 0 THEN Resend(s, p)
                ELSE IF s.packets[p].flags = "closing" THEN TerminateReceivers(s, p)
                ELSE DropReceivers(s, p)
<1>1. Consistent(s) /\ s.queue # <<>> /\ p = Head(s.queue) /\ Becomes(u)
  BY DEF Retransmit, Inv
<1>2. Consistent(u) /\ ForgetsClosing(s, u)
  BY <1>1, RetransmitConsistent
<1> HIDE DEF u
<1> QED
  BY <1>1, <1>2, BecomesConsistent

\* The server sends its sessions the closing request, or an assertion fails.
LEMMA CloseStep ==
    ASSUME Inv, Close
    PROVE  StepConsistent
<1> DEFINE s == server
           closing == [s EXCEPT !.closing = TRUE]
           flushed == ReleaseQueue(EvictSessions(closing))
           u == BroadcastClose(flushed)
<1>1. /\ Consistent(s)
      /\ IF s.sessions_len = 0 THEN Becomes(closing)
         ELSE IF ~ HandshakesAlone(s) THEN Fails("atem_server_flush")
         ELSE IF flushed.queue_tail # NoPacket THEN Fails("atem_packet_broadcast_close")
         ELSE Becomes(u)
  BY DEF Close, Inv
<1>2. closing = [s EXCEPT !.closing = TRUE] /\ flushed = ReleaseQueue(EvictSessions(closing))
      /\ u = BroadcastClose(flushed)
  OBVIOUS
<1>3. "atem_server_flush" \in Failures /\ "atem_packet_broadcast_close" \in Failures
  BY DEF Failures
<1> HIDE DEF closing, flushed, u
<1>4. CASE s.sessions_len = 0
  <2>1. Consistent(closing) /\ LiveIds(closing) = LiveIds(s)
    BY <1>1, <1>2, <1>4, ClosingConsistent
  <2>2. ForgetsClosing(s, closing)
    BY <2>1, ForgetsNone
  <2> QED
    BY <1>1, <1>4, <2>1, <2>2, BecomesConsistent
<1>5. CASE s.sessions_len # 0 /\ Becomes(u)
  <2>1. Consistent(u) /\ LiveIds(u) = LiveIds(s)
    BY <1>1, <1>2, <1>5, ServerClosed
  <2>2. ForgetsClosing(s, u)
    BY <2>1, ForgetsNone
  <2> QED
    BY <1>5, <2>1, <2>2, BecomesConsistent
<1>6. CASE Fails("atem_server_flush") \/ Fails("atem_packet_broadcast_close")
  BY <1>3, <1>6, FailsConsistent
<1> QED
  BY <1>1, <1>4, <1>5, <1>6

\* The server opens again.
LEMMA RestartStep ==
    ASSUME Inv, Restart
    PROVE  StepConsistent
<1> DEFINE s == server
           u == [s EXCEPT !.closing = FALSE]
<1>1. Consistent(s) /\ s.sessions_len = 0 /\ Becomes(u)
  BY DEF Restart, Inv
<1>2. u = [s EXCEPT !.closing = FALSE]
  OBVIOUS
<1> HIDE DEF u
<1>3. Consistent(u) /\ LiveIds(u) = LiveIds(s)
  BY <1>1, <1>2, ClosingConsistent
<1>4. ForgetsClosing(s, u)
  BY <1>3, ForgetsNone
<1> QED
  BY <1>1, <1>3, <1>4, BecomesConsistent

\* Every step but that of a client closing its session, or one that does not happen.
LEMMA NextStep ==
    ASSUME Inv, [Next]_vars
    PROVE  \/ StepConsistent
           \/ \E peer \in Peers, id \in SessionIds : RecvClosing(peer, id)
<1>1. CASE UNCHANGED vars
  <2>1. server' = server /\ failed' = failed
    BY <1>1 DEF vars
  <2>2. ForgetsClosing(server, server)
    BY ForgetsNone
  <2> QED
    BY <2>1, <2>2 DEF StepConsistent, Inv
<1>2. CASE \E peer \in Peers, request \in RequestIds :
              RecvOpen(peer, request) \/ RecvConnect(peer, request)
  BY <1>2, RecvOpenStep, RecvConnectStep
<1>3. CASE \E peer \in Peers, id \in SessionIds, ack_id \in RemoteIds : RecvAck(peer, id, ack_id)
  BY <1>3, RecvAckStep
<1>4. CASE \E peer \in Peers, id \in SessionIds : RecvClosed(peer, id)
  BY <1>4, RecvClosedStep
<1>5. CASE \E peer \in Peers, id \in SessionIds, updates \in Updates : RecvData(peer, id, updates)
  BY <1>5, RecvDataStep
<1>6. CASE \/ Ping \/ Close \/ Restart \/ \E p \in Packets : Retransmit(p)
  BY <1>6, PingStep, CloseStep, RestartStep, RetransmitStep
<1> QED
  BY <1>1, <1>2, <1>3, <1>4, <1>5, <1>6 DEF Next

\* The invariant is inductive.
LEMMA InvStep == Inv /\ [Next]_vars => Inv'
<1> SUFFICES ASSUME Inv, [Next]_vars PROVE Inv'
  OBVIOUS
<1>1. CASE StepConsistent
  BY <1>1 DEF StepConsistent, Inv
<1>2. CASE \E peer \in Peers, id \in SessionIds : RecvClosing(peer, id)
  BY <1>2, RecvClosingStep DEF Inv
<1> QED
  BY <1>1, <1>2, NextStep

\* Whatever clients send and whenever packets expire, the sessions of the server, their
\* chains, the packets and the retransmit queue belong together.
THEOREM ServerInvariant == Spec => []Inv
<1>1. Init => Inv
  BY InitConsistent DEF Init, Inv, Failures
<1>2. Inv /\ [Next]_vars => Inv'
  BY InvStep
<1> QED
  BY <1>1, <1>2, PTL DEF Spec

-------------------------------------------------------------------------------
(***************************************************************************)
(* What the invariant says of the properties that are model-checked.       *)
(***************************************************************************)

\* What the session at an index has in its chain.
LEMMA SessionChain ==
    ASSUME NEW s, Consistent(s), NEW i \in Indexes(s), NEW x, x = s.sessions[i].session_id,
           NEW chain, chain = s.sessions[i].chain
    PROVE  /\ x \in LiveIds(s) /\ s.lookup[x] = i /\ Entry(s, x) = s.sessions[i]
           /\ chain \in Seq(Links) /\ Len(chain) \in Nat /\ DOMAIN chain = 1..Len(chain)
           /\ \A k \in 1..Len(chain) : /\ Waits(s, x, chain[k].packet, chain[k].slot)
                                       /\ chain[k].packet \in DOMAIN s.packets
           /\ \A j, k \in 1..Len(chain) : chain[j].packet = chain[k].packet => j = k
           /\ Chained(s, x)
<1>1. Proper(s, {}) /\ Good(s, Sessions)
  BY DEF Consistent, Proper
<1>2. x \in LiveIds(s) /\ s.lookup[x] = i /\ Entry(s, x) = s.sessions[i]
  BY <1>1, AtIndex
<1>3. Chained(s, x)
  BY <1>1, <1>2 DEF Proper
<1>4. chain = Entry(s, x).chain /\ x \in LiveIds(s) \ {}
  BY <1>2
<1>5. chain \in Seq(Links) /\ Len(chain) \in Nat
  BY <1>1, <1>4, ChainWaits
<1>6. \A k \in 1..Len(chain) : /\ Waits(s, x, chain[k].packet, chain[k].slot)
                               /\ chain[k].packet \in DOMAIN s.packets
  BY <1>1, <1>4, ChainWaits
<1>7. \A j, k \in 1..Len(chain) : chain[j].packet = chain[k].packet => j = k
  BY <1>1, <1>4, ChainWaits
<1>8. DOMAIN chain = 1..Len(chain)
  BY <1>5
<1> QED
  BY <1>2, <1>3, <1>5, <1>6, <1>7, <1>8

\* Where a packet finds a session that it waits for.
LEMMA WaitingSession ==
    ASSUME NEW s, Consistent(s), NEW x, NEW p, NEW y, Waits(s, x, p, y)
    PROVE  /\ x \in LiveIds(s) /\ s.lookup[x] \in Indexes(s)
           /\ s.sessions[s.lookup[x]].session_id = x
           /\ \E k \in 1..Len(s.sessions[s.lookup[x]].chain) :
                 s.sessions[s.lookup[x]].chain[k] = Link(p, y)
<1>1. Proper(s, {}) /\ Good(s, Sessions)
  BY DEF Consistent, Proper
<1>2. Holds(s, x, p, y)
  BY <1>1 DEF Proper
<1>3. x \in LiveIds(s)
  BY <1>2 DEF Holds
<1>4. /\ Entry(s, x).session_id = x /\ s.lookup[x] \in Indexes(s)
      /\ s.sessions[s.lookup[x]] = Entry(s, x)
  BY <1>1, <1>3, EntryOf
<1> QED
  BY <1>2, <1>3, <1>4 DEF Holds, InChain

\* The records of sessions, packets and slots have the types of the program.
LEMMA InvTypeOK == Inv => TypeOK
<1> SUFFICES ASSUME Inv PROVE TypeOK
  OBVIOUS
<1>1. Good(server, Sessions) /\ Memory(server) /\ Flags(server) /\ failed \in Failures
  BY DEF Inv, Consistent, Proper
<1>2. /\ server.sessions_len \in 0..SessionsLimit
      /\ server.sessions_connected \in 0..SessionsLimit
      /\ server.sessions \in [Indexes(server) -> Sessions]
      /\ server.lookup \in [Ids -> -1..SessionsLimit - 1]
  BY <1>1 DEF Good, Shape
<1>3. server.session_id_last \in SessionIds /\ server.closing \in BOOLEAN
  BY <1>1 DEF Flags
<1>4. /\ DOMAIN server.packets \subseteq Packets
      /\ server.queue \in Seq(Packets) /\ server.queue_tail \in Packets \cup {NoPacket}
  BY <1>1 DEF Memory, Listing
<1>5. ASSUME NEW p \in DOMAIN server.packets
      PROVE  /\ server.packets[p].flags \in {"none", "closing"}
             /\ server.packets[p].resends \in 0..Resends + ResendsClosing
             /\ \A slot \in DOMAIN server.packets[p].slots :
                   server.packets[p].slots[slot] \in SlotType
  <2>1. PacketGood(server.packets[p])
    BY <1>1 DEF Memory
  <2>2. server.packets[p].flags \in {"none", "closing"} /\ server.packets[p].resends \in Nat
    BY <2>1, PacketFacts
  <2>3. \A slot \in DOMAIN server.packets[p].slots : server.packets[p].slots[slot] \in SlotType
    BY <2>1, PacketFacts
  <2>4. server.packets[p].resends <= Resends + ResendsClosing
    BY <2>1 DEF PacketGood
  <2>5. server.packets[p].resends \in 0..Resends + ResendsClosing
    BY <2>2, <2>4, ServerAssumption
  <2> QED
    BY <2>2, <2>3, <2>5
<1>6. failed \in {"none", "atem_session_create", "atem_cache_update",
                  "atem_server_flush", "atem_packet_broadcast_close"}
  BY <1>1 DEF Failures
<1> QED
  BY <1>2, <1>3, <1>4, <1>5, <1>6 DEF TypeOK

\* The data of the server are of the types the program declares (atem_server.h,
\* atem_session.h, atem_packet.h), with every id within the range it is masked to.
THEOREM TypeOKThm == Spec => []TypeOK
  BY ServerInvariant, InvTypeOK, PTL

\* While the server closes, it pings nobody, and every session it still has was sent
\* the closing request (atem_server_close()).
LEMMA InvClosingToAll == Inv => ClosingToAll
<1> SUFFICES ASSUME Inv, server.closing
             PROVE  /\ server.sessions_connected = 0
                    /\ \A i \in Indexes(server) : ~ Opening(server, i)
  BY DEF ClosingToAll
<1>1. Good(server, Sessions) /\ OnlyClosing(server)
  BY DEF Inv, Consistent, Proper, Flags
<1>2. ASSUME NEW i \in Indexes(server)
      PROVE  ~ Connected(server, i) /\ ~ Opening(server, i)
  <2> DEFINE x == server.sessions[i].session_id
  <2>1. /\ x \in LiveIds(server) /\ (x \in ConnectedIds(server) <=> Connected(server, i))
        /\ (IsOpening(Entry(server, x)) <=> Opening(server, i))
    BY <1>1, AtIndex
  <2> QED
    BY <1>1, <2>1 DEF OnlyClosing
<1>3. /\ server.sessions_len \in Nat /\ server.sessions_connected \in 0..server.sessions_len
      /\ Indexes(server) = 0..server.sessions_len - 1
  BY <1>1, SessionsEntries, Places
<1>4. server.sessions_connected = 0
  <2> SUFFICES ASSUME server.sessions_connected # 0 PROVE FALSE
    OBVIOUS
  <2>1. 0 \in Indexes(server) /\ Connected(server, 0)
    BY <1>3 DEF Connected
  <2> QED
    BY <1>2, <2>1
<1> QED
  BY <1>2, <1>4

\* While the server closes, every session it still has was sent the closing request,
\* and none is connected: nobody is pinged or sent the cache any more.
THEOREM ClosingToAllThm == Spec => []ClosingToAll
  BY ServerInvariant, InvClosingToAll, PTL

\* A session is forgotten only after it was sent a closing request, or when its own
\* client closes it (doc/atem_protocol.md, closing handshake).
THEOREM ClosedByHandshakeThm == Spec => ClosedByHandshake
<1> DEFINE Handshake == \A id \in SessionIds : Live(id) /\ ~ Live(id)' =>
              \/ LET i == server.lookup[id]
                 IN  ~ Connected(server, i) /\ ~ Opening(server, i)
              \/ \E peer \in Peers : RecvClosing(peer, id)
<1>1. Inv /\ [Next]_vars => Handshake
  <2> SUFFICES ASSUME Inv, [Next]_vars, NEW id \in SessionIds, Live(id), ~ Live(id)'
               PROVE  \/ ~ Connected(server, server.lookup[id]) /\ ~ Opening(server, server.lookup[id])
                      \/ \E peer \in Peers : RecvClosing(peer, id)
    OBVIOUS
  <2>1. id \in LiveIds(server) /\ id \notin LiveIds(server')
    BY DEF Live, LiveIds
  <2>2. CASE StepConsistent
    <3>1. id \notin ConnectedIds(server) /\ ~ IsOpening(Entry(server, id))
      BY <2>1, <2>2 DEF StepConsistent, ForgetsClosing
    <3>2. ~ Connected(server, server.lookup[id])
      BY <2>1, <3>1 DEF ConnectedIds
    <3>3. ~ Opening(server, server.lookup[id])
      BY <3>1 DEF IsOpening, Entry, Opening
    <3> QED
      BY <3>2, <3>3
  <2>3. CASE \E peer \in Peers, z \in SessionIds : RecvClosing(peer, z)
    <3>1. PICK peer \in Peers, z \in SessionIds : RecvClosing(peer, z)
      BY <2>3
    <3>2. LiveIds(server') = LiveIds(server) \ {z}
      BY <3>1, RecvClosingStep
    <3>3. id = z
      BY <2>1, <3>2
    <3> QED
      BY <3>1, <3>3
  <2> QED
    BY <2>2, <2>3, NextStep
<1> QED
  BY <1>1, ServerInvariant, PTL DEF Spec, ClosedByHandshake

-------------------------------------------------------------------------------
(***************************************************************************)
(* The links of the chains to the packets.                                 *)
(***************************************************************************)

\* A link of the session at index i: the k-th of its chain.
LEMMA LinksToFacts ==
    ASSUME Inv, NEW p, NEW l
    PROVE  l \in LinksTo(p) <=>
              \E i \in Indexes(server) : \E k \in 1..Len(server.sessions[i].chain) :
                  /\ l = <<i, k>>
                  /\ server.sessions[i].chain[k].packet = p
<1>1. \A i \in Indexes(server) : DOMAIN server.sessions[i].chain = 1..Len(server.sessions[i].chain)
  BY SessionChain DEF Inv
<1> QED
  BY <1>1 DEF LinksTo

\* What is at the end of a link.
LEMMA LinkEnd ==
    ASSUME Inv, NEW p, NEW l \in LinksTo(p),
           NEW y, y = server.sessions[l[1]].chain[l[2]].slot
    PROVE  /\ l[1] \in Indexes(server) /\ l[2] \in 1..Len(server.sessions[l[1]].chain)
           /\ l = <<l[1], l[2]>>
           /\ server.sessions[l[1]].chain[l[2]].packet = p
           /\ Waits(server, server.sessions[l[1]].session_id, p, y)
           /\ y \in RetransmitSlots(server.packets[p])
           /\ server.packets[p].slots[y].session_id = server.sessions[l[1]].session_id
<1>1. PICK i \in Indexes(server) : \E k \in 1..Len(server.sessions[i].chain) :
                  /\ l = <<i, k>>
                  /\ server.sessions[i].chain[k].packet = p
  BY LinksToFacts
<1>2. PICK k \in 1..Len(server.sessions[i].chain) :
                  /\ l = <<i, k>>
                  /\ server.sessions[i].chain[k].packet = p
  BY <1>1
<1>3. l[1] = i /\ l[2] = k
  BY <1>2
<1>4. Waits(server, server.sessions[i].session_id, p, y)
  BY <1>2, <1>3, SessionChain DEF Inv
<1> QED
  BY <1>2, <1>3, <1>4 DEF Waits

\* Every slot that a packet waits for has a link.
LEMMA SlotLinked ==
    ASSUME Inv, NEW p \in DOMAIN server.packets, NEW y \in RetransmitSlots(server.packets[p])
    PROVE  \E l \in LinksTo(p) : server.sessions[l[1]].chain[l[2]].slot = y
<1> DEFINE x == server.packets[p].slots[y].session_id
           i == server.lookup[x]
<1>1. Waits(server, x, p, y) /\ Consistent(server)
  BY DEF Waits, Inv
<1> HIDE DEF x
<1>2. i \in Indexes(server)
  BY <1>1, WaitingSession
<1>3. \E k \in 1..Len(server.sessions[i].chain) : server.sessions[i].chain[k] = Link(p, y)
  BY <1>1, WaitingSession
<1> HIDE DEF i
<1>4. PICK k \in 1..Len(server.sessions[i].chain) : server.sessions[i].chain[k] = Link(p, y)
  BY <1>3
<1>5. server.sessions[i].chain[k].packet = p /\ server.sessions[i].chain[k].slot = y
  BY <1>4, LinkParts
<1>6. <<i, k>> \in LinksTo(p)
  BY <1>2, <1>4, <1>5, LinksToFacts
<1>7. <<i, k>>[1] = i /\ <<i, k>>[2] = k
  OBVIOUS
<1> QED
  BY <1>5, <1>6, <1>7

\* No two links lead to the same slot of a packet.
LEMMA LinksApart ==
    ASSUME Inv, NEW p, NEW l \in LinksTo(p), NEW m \in LinksTo(p),
           server.sessions[l[1]].chain[l[2]].slot = server.sessions[m[1]].chain[m[2]].slot
    PROVE  l = m
<1>1. /\ l[1] \in Indexes(server) /\ l[2] \in 1..Len(server.sessions[l[1]].chain)
      /\ l = <<l[1], l[2]>> /\ server.sessions[l[1]].chain[l[2]].packet = p
  BY LinkEnd
<1>2. /\ m[1] \in Indexes(server) /\ m[2] \in 1..Len(server.sessions[m[1]].chain)
      /\ m = <<m[1], m[2]>> /\ server.sessions[m[1]].chain[m[2]].packet = p
  BY LinkEnd
<1>3. server.sessions[l[1]].session_id = server.sessions[m[1]].session_id
  <2>1. Waits(server, server.sessions[l[1]].session_id, p, server.sessions[l[1]].chain[l[2]].slot)
    BY LinkEnd
  <2>2. Waits(server, server.sessions[m[1]].session_id, p, server.sessions[m[1]].chain[m[2]].slot)
    BY LinkEnd
  <2> QED
    BY <2>1, <2>2 DEF Waits
<1>4. l[1] = m[1]
  <2>1. server.lookup[server.sessions[l[1]].session_id] = l[1]
    BY <1>1, SessionChain DEF Inv
  <2>2. server.lookup[server.sessions[m[1]].session_id] = m[1]
    BY <1>2, SessionChain DEF Inv
  <2> QED
    BY <1>3, <2>1, <2>2
<1>5. \A j, k \in 1..Len(server.sessions[l[1]].chain) :
         server.sessions[l[1]].chain[j].packet = server.sessions[l[1]].chain[k].packet => j = k
  BY <1>1, SessionChain DEF Inv
<1>6. l[2] = m[2]
  BY <1>1, <1>2, <1>4, <1>5
<1> QED
  BY <1>1, <1>2, <1>4, <1>6

\* A packet waits for as many sessions as it counts.
LEMMA SlotsCounted ==
    ASSUME NEW packet, PacketGood(packet)
    PROVE  /\ IsFiniteSet(RetransmitSlots(packet))
           /\ Cardinality(RetransmitSlots(packet)) = packet.sessions_remaining
           /\ RetransmitSlots(packet) # {}
<1> DEFINE n == packet.sessions_remaining
           S == 0..n - 1
           f == [i \in S |-> packet.packet_session_index[i]]
<1>1. n \in Nat /\ n >= 1
  BY PacketFacts
<1>2. \A i \in S : f[i] = packet.packet_session_index[i]
  OBVIOUS
<1>3. f \in [S -> RetransmitSlots(packet)]
  BY <1>2 DEF RetransmitSlots
<1>4. \A i, j \in S : f[i] = f[j] => i = j
  BY <1>2, VisitsOnce
<1>5. \A y \in RetransmitSlots(packet) : \E i \in S : f[i] = y
  BY <1>2 DEF RetransmitSlots
<1> HIDE DEF f
<1>6. f \in Bijection(S, RetransmitSlots(packet))
  BY <1>3, <1>4, <1>5 DEF Bijection, Injection, Surjection, IsInjective
<1>7. IsFiniteSet(S) /\ Cardinality(S) = n
  <2> HIDE DEF n
  <2> QED
    BY <1>1, FS_Interval
<1>8. ExistsBijection(S, RetransmitSlots(packet))
  BY <1>6 DEF ExistsBijection
<1>9. 0 \in S
  BY <1>1
<1> HIDE DEF S
<1>10. RetransmitSlots(packet) # {}
  BY <1>3, <1>9
<1> QED
  BY <1>7, <1>8, <1>10, FS_Bijection

\* The packets in memory are those of the queue, and wait for exactly the sessions
\* whose chain holds them.
LEMMA InvPacketsLinked == Inv => PacketsLinked
<1> SUFFICES ASSUME Inv PROVE PacketsLinked
  OBVIOUS
<1>1. Listing(server.queue, DOMAIN server.packets) /\ Memory(server)
  BY DEF Inv, Consistent, Proper, Memory
<1>2. DOMAIN server.queue = 1..Len(server.queue)
  BY <1>1, MemoryFacts
<1>3. ToSet(server.queue) = DOMAIN server.packets
  BY <1>1, <1>2 DEF Listing, ToSet
<1>4. IsInjective(server.queue)
  BY <1>1, <1>2 DEF Listing, IsInjective
<1>5. \A i \in Indexes(server) : \A k \in DOMAIN server.sessions[i].chain :
         server.sessions[i].chain[k].packet \in DOMAIN server.packets
  BY SessionChain DEF Inv
<1>6. ASSUME NEW p \in DOMAIN server.packets
      PROVE  LET slot(l) == server.sessions[l[1]].chain[l[2]].slot
             IN  /\ LinksTo(p) # {}
                 /\ {slot(l) : l \in LinksTo(p)} = RetransmitSlots(server.packets[p])
                 /\ Cardinality(LinksTo(p)) = server.packets[p].sessions_remaining
                 /\ \A l \in LinksTo(p) : server.packets[p].slots[slot(l)].session_id =
                                           server.sessions[l[1]].session_id
  <2> DEFINE slot(l) == server.sessions[l[1]].chain[l[2]].slot
             S == RetransmitSlots(server.packets[p])
             T == LinksTo(p)
             f == [l \in T |-> slot(l)]
  <2>1. PacketGood(server.packets[p])
    BY <1>1 DEF Memory
  <2>2. \A l \in T : slot(l) \in S
    BY LinkEnd
  <2>3. \A l \in T : server.packets[p].slots[slot(l)].session_id = server.sessions[l[1]].session_id
    <3>1. \A l \in T : Waits(server, server.sessions[l[1]].session_id, p, slot(l))
      BY LinkEnd
    <3> QED
      BY <3>1 DEF Waits
  <2>4. \A y \in S : \E l \in T : slot(l) = y
    BY SlotLinked
  <2>5. \A l, m \in T : slot(l) = slot(m) => l = m
    BY LinksApart
  <2>6. IsFiniteSet(S) /\ Cardinality(S) = server.packets[p].sessions_remaining /\ S # {}
    BY <2>1, SlotsCounted
  <2> HIDE DEF slot, S, T
  <2>7. f \in Bijection(T, S)
    BY <2>2, <2>4, <2>5 DEF Bijection, Injection, Surjection, IsInjective
  <2>8. ExistsBijection(S, T)
    <3>1. ExistsBijection(T, S)
      BY <2>7 DEF ExistsBijection
    <3> QED
      BY <3>1, Fun_ExistsBijSymmetric
  <2>9. Cardinality(T) = server.packets[p].sessions_remaining
    BY <2>6, <2>8, FS_Bijection
  <2>10. {slot(l) : l \in T} = S
    BY <2>2, <2>4
  <2>11. T # {}
    BY <2>4, <2>6
  <2> QED
    BY <2>3, <2>9, <2>10, <2>11 DEF slot, S, T
<1> QED
  BY <1>3, <1>4, <1>5, <1>6 DEF PacketsLinked

\* The packets in memory are those of the queue, each of them once, and a packet is
\* retransmitted to exactly the sessions whose chain holds it: none is kept without a
\* session waiting for it, no chain leads to a packet that was freed, and no slot to
\* another session (atem_packet.c).
THEOREM PacketsLinkedThm == Spec => []PacketsLinked
  BY ServerInvariant, InvPacketsLinked, PTL

-------------------------------------------------------------------------------
(***************************************************************************)
(* Acknowledgements.                                                       *)
(***************************************************************************)

\* An id that is reached is not behind: the two differ only where the ids wrapped.
LEMMA ReachedNotBehind ==
    ASSUME NEW ack_id \in RemoteIds, NEW remote_id \in RemoteIds, Reached(ack_id, remote_id)
    PROVE  ~ Behind(ack_id, remote_id)
<1> DEFINE N == RemoteIdCount
           d == ack_id - remote_id
<1>1. N \in Nat /\ N >= 1 /\ ack_id \in 0..N - 1 /\ remote_id \in 0..N - 1
  BY ServerAssumption DEF RemoteIds
<1>2. d \in Int /\ d < N
  BY <1>1
<1>3. (N - 1) \div 2 \in Nat
  BY <1>1
<1>4. ASSUME d > (N - 1) \div 2 PROVE FALSE
  <2>1. d \in Nat
    BY <1>2, <1>3, <1>4
  <2>2. d % N = d
    BY <1>1, <1>2, <2>1
  <2>3. d % N <= (N - 1) \div 2
    BY DEF Reached
  <2> QED
    BY <1>2, <1>3, <1>4, <2>2, <2>3
<1> QED
  BY <1>4 DEF Behind

\* The remote id of a link is one that is assigned.
LEMMA LinkRemoteId ==
    ASSUME NEW s, Consistent(s), NEW i \in Indexes(s), NEW chain, chain = s.sessions[i].chain,
           NEW k \in 1..Len(chain)
    PROVE  /\ LinkSlot(s, chain[k]) \in SlotType
           /\ LinkSlot(s, chain[k]).remote_id \in RemoteIds
           /\ LinkSlot(s, chain[k]).session_id = s.sessions[i].session_id
<1> DEFINE x == s.sessions[i].session_id
<1>1. Waits(s, x, chain[k].packet, chain[k].slot)
  BY SessionChain
<1>2. PacketGood(s.packets[chain[k].packet])
  BY <1>1 DEF Consistent, Proper, Memory, Waits
<1>3. LinkSlot(s, chain[k]) \in SlotType
  BY <1>1, <1>2, PacketFacts DEF Waits, LinkSlot
<1> QED
  BY <1>1, <1>3 DEF Waits, LinkSlot, SlotType

\* What an acknowledgement leaves in the chain of the session.
LEMMA AcknowledgedChain ==
    ASSUME NEW s, Consistent(s), NEW i \in Indexes(s), NEW ack_id,
           NEW chain, chain = s.sessions[i].chain, NEW n \in 0..Len(chain),
           NEW u, u = SetChain(FlushChain(s, Taken(chain, n)), i, Remaining(chain, n))
    PROVE  u.sessions[i].chain = Remaining(chain, n)
<1> DEFINE x == s.sessions[i].session_id
           X == {}
<1>1. /\ x \in LiveIds(s) /\ s.lookup[x] = i /\ Entry(s, x) = s.sessions[i]
  BY SessionChain
<1>2. Proper(s, X) /\ x \in LiveIds(s) \ X /\ chain = Entry(s, x).chain
  BY <1>1 DEF Consistent
<1>3. Splits(chain, Taken(chain, n), Remaining(chain, n))
  <2> HIDE DEF x, X
  <2> QED
    BY <1>2, RestSplits
<1>4. Rechain(s, u, i, x, Taken(chain, n), Remaining(chain, n))
  BY <1>2, <1>3 DEF Rechain
<1> HIDE DEF x
<1>5. Entry(u, x).chain = Remaining(chain, n) /\ u.lookup = s.lookup
  <2> DEFINE Y == {x}
  <2>1. x \notin X /\ X \subseteq Y /\ x \in Y
    OBVIOUS
  <2> HIDE DEF X, Y
  <2>2. Entry(u, x).chain = Remaining(chain, n)
    BY <1>2, <1>4, <2>1, Rechained
  <2>3. u.lookup = s.lookup
    BY <1>2, <1>4, <2>1, Rechained
  <2> QED
    BY <2>2, <2>3
<1> QED
  BY <1>1, <1>5 DEF Entry

\* An acknowledgement takes the session out of every packet that it reaches.
LEMMA InvAcknowledgesOlder == Inv => AcknowledgesOlder
<1> SUFFICES ASSUME Inv, NEW i \in Indexes(server), NEW ack_id \in RemoteIds,
                    NEW chain, chain = server.sessions[i].chain,
                    NEW k \in DOMAIN chain,
                    \A j \in 1..k : Reached(ack_id, LinkSlot(server, chain[j]).remote_id)
             PROVE  chain[k] \notin ToSet(Acknowledge(server, i, ack_id).sessions[i].chain)
  BY DEF AcknowledgesOlder
<1>1. Consistent(server)
  BY DEF Inv
<1>2. /\ chain \in Seq(Links) /\ Len(chain) \in Nat /\ DOMAIN chain = 1..Len(chain)
  BY <1>1, SessionChain
<1>3. \A a, b \in 1..Len(chain) : chain[a].packet = chain[b].packet => a = b
  BY <1>1, SessionChain
<1> DEFINE u == Acknowledge(server, i, ack_id)
<1>4. PICK n \in 0..Len(chain) :
         /\ u = SetChain(FlushChain(server, Taken(chain, n)), i, Remaining(chain, n))
         /\ \A j \in 1..n : ~ Behind(ack_id, LinkSlot(server, chain[j]).remote_id)
         /\ n < Len(chain) => Behind(ack_id, LinkSlot(server, chain[n + 1]).remote_id)
  BY <1>2, Acknowledged
<1> HIDE DEF u
<1>5. u.sessions[i].chain = Remaining(chain, n)
  BY <1>1, <1>4, AcknowledgedChain
<1>6. k \in 1..Len(chain) /\ k \in Nat /\ n \in Nat
  BY <1>2
<1>7. k <= n
  <2> SUFFICES ASSUME n + 1 <= k PROVE FALSE
    BY <1>6
  <2>1. n + 1 \in 1..k /\ n + 1 \in 1..Len(chain) /\ n < Len(chain)
    BY <1>2, <1>6
  <2>2. Behind(ack_id, LinkSlot(server, chain[n + 1]).remote_id)
    BY <1>4, <2>1
  <2>3. LinkSlot(server, chain[n + 1]).remote_id \in RemoteIds
    BY <1>1, <2>1, LinkRemoteId
  <2>4. Reached(ack_id, LinkSlot(server, chain[n + 1]).remote_id)
    BY <2>1
  <2> QED
    BY <2>2, <2>3, <2>4, ReachedNotBehind
<1>8. Divided(chain, n)
  BY <1>2, <1>3 DEF Divided
<1> DEFINE rest == Remaining(chain, n)
<1>9. /\ Len(rest) \in Nat /\ rest \in Seq(Links)
      /\ \A m \in 1..Len(rest) : m + n \in 1..Len(chain) /\ rest[m] = chain[m + n]
  <2>1. Parts(chain, n, Taken(chain, n), rest)
    BY <1>8, ChainRest
  <2> HIDE DEF rest
  <2> QED
    BY <2>1 DEF Parts
<1> HIDE DEF rest
<1>10. ASSUME NEW m \in 1..Len(rest), rest[m] = chain[k] PROVE FALSE
  <2>1. m + n \in 1..Len(chain) /\ chain[m + n] = chain[k]
    BY <1>9, <1>10
  <2>2. m + n = k
    BY <1>3, <1>6, <2>1
  <2> QED
    BY <1>6, <1>7, <1>9, <2>2
<1>11. chain[k] \notin ToSet(rest)
  <2>1. DOMAIN rest = 1..Len(rest)
    BY <1>9
  <2>2. \A m \in DOMAIN rest : rest[m] # chain[k]
    BY <1>10, <2>1
  <2> QED
    BY <2>2 DEF ToSet
<1> QED
  BY <1>5, <1>11 DEF rest, u

\* An acknowledgement reaches every packet that is not considered behind it, to the half
\* of the id space, and takes the session out of it (atem_session_acknowledge()): also
\* out of those numbered before the ids wrapped.
THEOREM AcknowledgesOlderThm == Spec => []AcknowledgesOlder
  BY ServerInvariant, InvAcknowledgesOlder, PTL

-------------------------------------------------------------------------------
(***************************************************************************)
(* The server's own checks.                                                *)
(***************************************************************************)

\* The id before the next one is the id itself.
LEMMA PreviousId ==
    ASSUME NEW id \in RemoteIds
    PROVE  (NextRemoteId(id) - 1) % RemoteIdCount = id
<1> DEFINE N == RemoteIdCount
<1>1. N \in Nat /\ N >= 1 /\ id \in 0..N - 1
  BY ServerAssumption DEF RemoteIds
<1>2. CASE id + 1 < N
  <2>1. (id + 1) % N = id + 1
    BY <1>1, <1>2
  <2>2. id % N = id
    BY <1>1
  <2> QED
    BY <1>1, <2>1, <2>2 DEF NextRemoteId
<1>3. CASE id + 1 = N
  <2>1. N % N = 0
    BY <1>1
  <2>2. (0 - 1) % N = N - 1
    BY <1>1
  <2> QED
    BY <1>1, <1>3, <2>1, <2>2 DEF NextRemoteId
<1> QED
  BY <1>1, <1>2, <1>3

\* A connected session (atem_assert_session_connected()).
LEMMA InvSessionConnected ==
    ASSUME Inv, NEW i \in Indexes(server), Connected(server, i)
    PROVE  AssertSessionConnected(i)
<1> DEFINE x == server.sessions[i].session_id
           chain == server.sessions[i].chain
<1>1. Consistent(server) /\ Good(server, Sessions) /\ Memory(server)
  BY DEF Inv, Consistent, Proper
<1>2. /\ x \in LiveIds(server) /\ server.lookup[x] = i /\ Entry(server, x) = server.sessions[i]
      /\ x \in ConnectedIds(server)
  BY <1>1, AtIndex
<1>3. ~ Opening(server, i)
  BY <1>1, SessionsEntries, GoodFacts DEF Partitioned
<1>4. Numbered(server, chain, server.sessions[i].remote_id)
  <2>1. Chained(server, x)
    BY <1>1, SessionChain
  <2> QED
    BY <1>2, <2>1 DEF Chained
<1>5. DOMAIN chain = 1..Len(chain) /\ Len(chain) \in Nat
  BY <1>1, SessionChain
<1>6. ASSUME NEW k \in DOMAIN chain
      PROVE  /\ chain[k].packet \in ToSet(server.queue)
             /\ server.packets[chain[k].packet].flags = "none"
             /\ LinkSlot(server, chain[k]).session_id = x
             /\ LinkSlot(server, chain[k]).remote_id =
                   IF k = Len(chain) THEN server.sessions[i].remote_id
                   ELSE (LinkSlot(server, chain[k + 1]).remote_id - 1) % RemoteIdCount
  <2>1. k \in 1..Len(chain)
    BY <1>5
  <2>2. chain[k].packet \in DOMAIN server.packets
    BY <1>1, <2>1, SessionChain
  <2>3. chain[k].packet \in ToSet(server.queue)
    <3>1. DOMAIN server.queue = 1..Len(server.queue)
      BY <1>1, MemoryFacts
    <3> QED
      BY <1>1, <2>2, <3>1 DEF Memory, Listing, ToSet
  <2>4. server.packets[chain[k].packet].flags = "none"
    BY <1>4, <2>1 DEF Numbered
  <2>5. /\ LinkSlot(server, chain[k]).session_id = x
        /\ LinkSlot(server, chain[k]).remote_id \in RemoteIds
    BY <1>1, <2>1, LinkRemoteId
  <2>6. k = Len(chain) => LinkSlot(server, chain[k]).remote_id = server.sessions[i].remote_id
    BY <1>4, <2>1 DEF Numbered
  <2>7. k # Len(chain) => LinkSlot(server, chain[k]).remote_id =
                             (LinkSlot(server, chain[k + 1]).remote_id - 1) % RemoteIdCount
    <3>1. k # Len(chain) => LinkSlot(server, chain[k + 1]).remote_id
                                = NextRemoteId(LinkSlot(server, chain[k]).remote_id)
      BY <1>4, <2>1 DEF Numbered
    <3> QED
      BY <2>5, <3>1, PreviousId
  <2> QED
    BY <2>3, <2>4, <2>5, <2>6, <2>7
<1> QED
  BY <1>2, <1>3, <1>6 DEF AssertSessionConnected

\* A session in a handshake (atem_assert_session_unconnected()).
LEMMA InvSessionUnconnected ==
    ASSUME Inv, NEW i \in Indexes(server), ~ Connected(server, i)
    PROVE  AssertSessionUnconnected(i)
<1> DEFINE x == server.sessions[i].session_id
           chain == server.sessions[i].chain
           packet == server.packets[chain[1].packet]
<1>1. Consistent(server) /\ Good(server, Sessions) /\ Memory(server)
  BY DEF Inv, Consistent, Proper
<1>2. /\ x \in LiveIds(server) /\ server.lookup[x] = i /\ Entry(server, x) = server.sessions[i]
      /\ x \notin ConnectedIds(server)
      /\ (IsOpening(Entry(server, x)) <=> Opening(server, i))
  BY <1>1, AtIndex
<1>3. server.lookup[server.sessions[i].send_id] = i
  BY <1>1, SessionsEntries, GoodFacts
<1>4. Alone(server, server.sessions[i])
  <2>1. Chained(server, x)
    BY <1>1, SessionChain
  <2> QED
    BY <1>2, <2>1 DEF Chained
<1>5. Len(chain) = 1 /\ 1 \in 1..Len(chain)
  <2>1. Len(chain) = 1
    BY <1>4 DEF Alone
  <2> HIDE DEF chain
  <2> QED
    BY <2>1
<1>6. packet.sessions_remaining > 0
  <2>1. chain[1].packet \in DOMAIN server.packets
    BY <1>1, <1>5, SessionChain
  <2>2. PacketGood(packet)
    BY <1>1, <2>1 DEF Memory
  <2> HIDE DEF packet
  <2> QED
    BY <2>2, PacketFacts
<1>7. LinkSlot(server, chain[1]) = Slot(x, 0)
  <2>1. LinkSlot(server, chain[1]) \in SlotType /\ LinkSlot(server, chain[1]).session_id = x
    BY <1>1, <1>5, LinkRemoteId
  <2>2. LinkSlot(server, chain[1]).remote_id = 0
    BY <1>4 DEF Alone
  <2> QED
    BY <2>1, <2>2 DEF SlotType, Slot
<1>8. (packet.flags = "closing") <=> ~ Opening(server, i)
  BY <1>2, <1>4 DEF Alone
<1> QED
  BY <1>2, <1>3, <1>5, <1>6, <1>7, <1>8 DEF AssertSessionUnconnected

\* A packet (atem_assert_packet()).
LEMMA InvPacket ==
    ASSUME Inv, NEW p \in DOMAIN server.packets
    PROVE  AssertPacket(p)
<1> DEFINE packet == server.packets[p]
           id(slot) == packet.slots[slot].session_id
<1>1. Consistent(server) /\ PacketGood(packet)
  BY DEF Inv, Consistent, Proper, Memory
<1>2. packet.sessions_remaining > 0 /\ packet.sessions_remaining \in Nat
  BY <1>1, PacketFacts
<1>3. ASSUME NEW slot \in RetransmitSlots(packet)
      PROVE  /\ server.lookup[id(slot)] \in Indexes(server)
             /\ p \in ChainPackets(server.lookup[id(slot)])
  <2> DEFINE x == id(slot)
             i == server.lookup[x]
  <2>1. Waits(server, x, p, slot)
    BY <1>3 DEF Waits
  <2> HIDE DEF x
  <2>2. i \in Indexes(server)
    BY <1>1, <2>1, WaitingSession
  <2>3. \E k \in 1..Len(server.sessions[i].chain) : server.sessions[i].chain[k] = Link(p, slot)
    BY <1>1, <2>1, WaitingSession
  <2> HIDE DEF i
  <2>4. DOMAIN server.sessions[i].chain = 1..Len(server.sessions[i].chain)
    BY <1>1, <2>2, SessionChain
  <2>5. p \in ChainPackets(i)
    <3>1. Link(p, slot) \in ToSet(server.sessions[i].chain)
      BY <2>3, <2>4 DEF ToSet
    <3> QED
      BY <3>1, LinkParts DEF ChainPackets
  <2> QED
    BY <2>2, <2>5 DEF i, x
<1>4. IsInjective([slot \in 0..packet.sessions_remaining - 1 |-> id(slot)])
  <2>1. PICK n \in 1..SessionsLimit : packet \in PacketType(n)
    BY <1>1 DEF PacketGood
  <2>2. DOMAIN packet.slots = 0..n - 1 /\ packet.sessions_remaining \in 1..n
    BY <2>1 DEF PacketType
  <2>3. \A slot \in 0..packet.sessions_remaining - 1 : slot \in DOMAIN packet.slots
    BY <2>2, IdsFacts
  <2>4. Distinct(packet.slots)
    BY <1>1 DEF PacketGood
  <2> QED
    BY <2>3, <2>4 DEF Distinct, IsInjective
<1> QED
  BY <1>2, <1>3, <1>4 DEF AssertPacket

\* A packet that ran out of retransmits at the head of the queue is the first of every
\* chain that it is in (atem_packet_retransmit()).
LEMMA InvExhausted == Inv => AssertExhausted
<1> SUFFICES ASSUME Inv, NEW p \in ToSet(server.queue), p = Head(server.queue),
                    server.packets[p].resends = 0, NEW l \in LinksTo(p)
             PROVE  l[2] = 1
  BY DEF AssertExhausted
<1> DEFINE D == {}
           i == l[1]
           x == server.sessions[i].session_id
<1>1. Proper(server, D) /\ Consistent(server)
  BY DEF Inv, Consistent
<1>2. Memory(server) /\ Listing(server.queue, DOMAIN server.packets)
  BY <1>1 DEF Proper, Memory
<1>3. DOMAIN server.queue = 1..Len(server.queue) /\ server.queue # <<>>
  <2>1. DOMAIN server.queue = 1..Len(server.queue) /\ server.queue \in Seq(Packets)
    BY <1>2, MemoryFacts
  <2> QED
    BY <2>1 DEF ToSet
<1>4. p \in DOMAIN server.packets
  BY <1>2, <1>3 DEF Listing, ToSet
<1>5. Leads(server.queue, DOMAIN server.packets, p)
  BY <1>2, <1>3, HeadLeads
<1>6. /\ i \in Indexes(server) /\ l[2] \in 1..Len(server.sessions[i].chain)
      /\ server.sessions[i].chain[l[2]].packet = p
  BY LinkEnd
<1> HIDE DEF D, i
<1>7. x \in LiveIds(server) /\ Entry(server, x) = server.sessions[i]
  BY <1>1, <1>6, SessionChain
<1>8. x \in LiveIds(server) \ D
  BY <1>7 DEF D
<1> HIDE DEF x
<1> QED
  BY <1>1, <1>4, <1>5, <1>6, <1>7, <1>8, LeaderFirst

\* The checks of the server succeed.
LEMMA InvDebugAsserts == Inv => DebugAsserts
<1> SUFFICES ASSUME Inv PROVE DebugAsserts
  OBVIOUS
<1>1. Good(server, Sessions) /\ Memory(server)
  BY DEF Inv, Consistent, Proper
<1>2. AssertSessions
  <2>1. /\ server.sessions_connected <= server.sessions_len
        /\ server.sessions_len <= SessionsLimit
    BY <1>1, SessionsEntries, GoodFacts
  <2>2. SessionIdsLead(server) /\ RequestIdsLead(server)
    BY <1>1 DEF Good
  <2> QED
    BY <2>1, <2>2, InvSessionConnected, InvSessionUnconnected DEF AssertSessions
<1>3. AssertPackets
  <2> SUFFICES ASSUME server.queue # <<>>
               PROVE  /\ \A p \in ToSet(server.queue) : AssertPacket(p)
                      /\ IsInjective(server.queue)
                      /\ server.queue_tail = Last(server.queue)
    BY DEF AssertPackets
  <2>1. DOMAIN server.queue = 1..Len(server.queue) /\ Len(server.queue) # 0
    BY <1>1, MemoryFacts
  <2>2. \A p \in ToSet(server.queue) : p \in DOMAIN server.packets
    BY <1>1, <2>1 DEF Memory, Listing, ToSet
  <2>3. IsInjective(server.queue)
    BY <1>1, <2>1 DEF Memory, Listing, IsInjective
  <2>4. server.queue_tail = Last(server.queue)
    BY <1>1, <2>1 DEF Memory, Last
  <2> QED
    BY <2>2, <2>3, <2>4, InvPacket
<1> QED
  BY <1>2, <1>3, InvExhausted DEF DebugAsserts

\* Sessions, ids, packets and the retransmit queue belong together however packets,
\* timers and handshakes interleave, as the server's own checks have it
\* (proxy/atem_assert.c, atem_packet_retransmit()).
THEOREM DebugAssertsThm == Spec => []DebugAsserts
  BY ServerInvariant, InvDebugAsserts, PTL

===============================================================================
