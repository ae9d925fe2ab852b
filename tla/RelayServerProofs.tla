--------------------------- MODULE RelayServerProofs ---------------------------
(***************************************************************************)
(* The table of sessions, the queues of packets and the timers of the      *)
(* legacy proxy stay consistent with each other (Consistent), for any      *)
(* number and size of chunks, any number of ids and retransmissions, and   *)
(* any intervals.                                                          *)
(*                                                                         *)
(* The invariant (Inv) is built in the order the code is: the resend queue *)
(* and the timers of a server that runs (Running); the packets in it, each *)
(* in the local queue of its session (Owned); the table (TableInv); the    *)
(* broadcast list and what a session waits for (ListInv).  The operators   *)
(* of the model take and return the state of the server, so each has a     *)
(* lemma about any state s and the state t it makes of that, and an event  *)
(* follows from the lemmas of the operators it calls.                      *)
(*                                                                         *)
(* What makes the invariant inductive: the resend queue is in the order in *)
(* which packets expire, a packet that is sent again goes to its end with  *)
(* the longest time there is, and nextResendTimer is the first of it; and  *)
(* a session that is not connected has the one packet of its handshake, so *)
(* that its head is always there.                                          *)
(***************************************************************************)
EXTENDS RelayServer, FiniteSetTheorems, SequenceTheorems, WellFoundedInduction, TLAPS

-------------------------------------------------------------------------------
(***************************************************************************)
(* Induction over the natural numbers, and remainders.                     *)
(***************************************************************************)

\* A set of numbers that has zero, and with each number the next, has all of them:
\* otherwise there is a smallest number that it lacks.
LEMMA NatInductionSet ==
  ASSUME NEW S, 0 \in S, \A n \in Nat : n \in S => n + 1 \in S
  PROVE  Nat \subseteq S
<1> DEFINE T == Nat \ S
<1>1. SUFFICES ASSUME T # {} PROVE FALSE
  OBVIOUS
<1>2. T \subseteq Nat
  OBVIOUS
<1>3. PICK x \in T : \A y \in T : ~ (<<y, x>> \in OpToRel(<, Nat))
  <2> HIDE DEF T
  <2> QED
    BY <1>1, <1>2, NatLessThanWellFounded, WFMin
<1>4. x \in Nat /\ x \notin S
  OBVIOUS
<1>5. x - 1 \in Nat
  BY <1>4
<1>6. x - 1 \in S
  <2>1. <<x - 1, x>> \in OpToRel(<, Nat)
    BY <1>4, <1>5 DEF OpToRel
  <2> QED
    BY <1>3, <1>5, <2>1
<1>7. x - 1 + 1 = x
  BY <1>4
<1> QED
  BY <1>4, <1>5, <1>6, <1>7

\* Quotient and remainder.
LEMMA DivModFacts ==
    ASSUME NEW n \in Int, NEW b \in Nat \ {0}
    PROVE  /\ n \div b \in Int /\ n % b \in Int
           /\ 0 <= n % b /\ n % b < b /\ n = b * (n \div b) + (n % b)
<1>1. n \div b \in Int
  OBVIOUS
<1>2. n % b \in Int
  OBVIOUS
<1>3. 0 <= n % b /\ n % b < b
  OBVIOUS
<1>4. n = b * (n \div b) + (n % b)
  OBVIOUS
<1> QED
  BY <1>1, <1>2, <1>3, <1>4

\* There is only one quotient.
LEMMA DivModUnique ==
    ASSUME NEW b \in Nat \ {0}, NEW q \in Int, NEW r \in Int, 0 <= r, r < b,
           NEW n \in Int, n = b * q + r
    PROVE  n \div b = q /\ n % b = r
<1> DEFINE d == n \div b
           m == n % b
<1>1. d \in Int /\ m \in Int /\ 0 <= m /\ m < b /\ n = b * d + m
  BY DivModFacts
<1> HIDE DEF d, m
<1>2. b * (d - q) = r - m
  BY <1>1
<1>3. d - q = 0
  <2>1. CASE d - q >= 1
    <3>1. b * (d - q) >= b
      BY <1>1, <2>1
    <3> QED
      BY <1>1, <1>2, <3>1
  <2>2. CASE d - q <= -1
    <3>1. b * (d - q) <= -b
      BY <1>1, <2>2
    <3> QED
      BY <1>1, <1>2, <3>1
  <2> QED
    BY <1>1, <2>1, <2>2
<1>4. d = q
  BY <1>1, <1>3
<1>5. m = r
  BY <1>1, <1>4
<1> QED
  BY <1>4, <1>5 DEF d, m

\* Adding to a remainder.
LEMMA ModPlus ==
    ASSUME NEW b \in Nat \ {0}, NEW n \in Int, NEW k \in Int
    PROVE  ((n % b) + k) % b = (n + k) % b
<1> DEFINE q == n \div b
           r == n % b
           d == (r + k) \div b
           m == (r + k) % b
<1>1. q \in Int /\ r \in Int /\ n = b * q + r
  BY DivModFacts
<1> HIDE DEF q, r
<1>2. d \in Int /\ m \in Int /\ 0 <= m /\ m < b /\ r + k = b * d + m
  BY <1>1, DivModFacts
<1> HIDE DEF d, m
<1>3. n + k = b * (q + d) + m
  BY <1>1, <1>2
<1>4. n + k \in Int /\ q + d \in Int
  BY <1>1, <1>2
<1>5. (n + k) % b = m
  BY <1>2, <1>3, <1>4, DivModUnique
<1> QED
  BY <1>5 DEF m, r

\* A number that is its own remainder.
LEMMA ModSmall ==
    ASSUME NEW b \in Nat \ {0}, NEW n \in Nat, n < b
    PROVE  n % b = n
<1>1. n = b * 0 + n
  OBVIOUS
<1> QED
  BY <1>1, DivModUnique

-------------------------------------------------------------------------------

Fields ==
    {"sessionTable", "sessionReuseChunk", "lastSessionId", "connectedSessions", "sessions",
     "broadcast", "packets", "queue", "pingTimer", "dropTimer", "nextPingTimer",
     "nextResendTimer", "nextTimer"}

PacketType ==
    [remainingResends : 0..Resends + ResendsClosing, lastInChunk : BOOLEAN,
     resendTimer : -PastMax..ResendTime]

\* The resend queue holds packets that are in memory, each once, those that expire first
\* in front; their timer is that of the first one.
Queued(s) ==
    /\ DOMAIN s.packets \subseteq Packets
    /\ s.packets \in [DOMAIN s.packets -> PacketType]
    /\ s.queue \in Seq(Packets)
    /\ \A k \in 1..Len(s.queue) : s.queue[k] \in DOMAIN s.packets
    /\ \A j, k \in 1..Len(s.queue) : s.queue[j] = s.queue[k] => j = k
    /\ \A j, k \in 1..Len(s.queue) :
          j <= k => s.packets[s.queue[j]].resendTimer <= s.packets[s.queue[k]].resendTimer
    /\ s.nextResendTimer = IF s.queue = <<>> THEN NoTimer ELSE s.queue[1]

TimersOf(s) == {DropTimer, s.nextPingTimer, s.nextResendTimer} \ {NoTimer}

\* The event loop waits for a timer that is enabled.
Clocked(s) ==
    /\ s.pingTimer \in -PastMax..PingInterval
    /\ s.dropTimer \in -PastMax..Timeout
    /\ s.nextPingTimer \in {PingTimer, NoTimer}
    /\ s.nextTimer \in TimersOf(s)

Running(s) == DOMAIN s = Fields /\ Queued(s) /\ Clocked(s)

NearestIn(s) == \A timer \in TimersOf(s) : TimeLeft(s, s.nextTimer) <= TimeLeft(s, timer)

\* What the operators on packets leave alone.
SameTable(s, t) ==
    /\ t.sessionTable = s.sessionTable /\ t.sessionReuseChunk = s.sessionReuseChunk
    /\ t.lastSessionId = s.lastSessionId /\ t.connectedSessions = s.connectedSessions

SameClock(s, t) ==
    t.pingTimer = s.pingTimer /\ t.dropTimer = s.dropTimer /\ t.nextPingTimer = s.nextPingTimer

Frame(s, t) ==
    /\ SameTable(s, t) /\ SameClock(s, t)
    /\ t.sessions = s.sessions /\ t.broadcast = s.broadcast

Contents(list) == {list[k] : k \in 1..Len(list)}

-------------------------------------------------------------------------------
(***************************************************************************)
(* Timers                                                                  *)
(***************************************************************************)

\* The names of timers and of packets are told apart.
LEMMA TimerNames ==
    /\ PingTimer # DropTimer /\ PingTimer # NoTimer /\ DropTimer # NoTimer
    /\ PingTimer \notin Packets /\ DropTimer \notin Packets /\ NoTimer \notin Packets
BY NamesAssumption, TimerNamesAssumption

\* The intervals and bounds are numbers, in the order timer.c asks for.
LEMMA Intervals ==
    /\ ResendTime \in Nat /\ PingInterval \in Nat /\ Timeout \in Nat /\ PastMax \in Nat
    /\ ResendTime > 0 /\ ResendTime <= PingInterval /\ PingInterval <= Timeout
    /\ Resends \in Nat /\ ResendsClosing \in Nat
BY TimersAssumption, RelayServerAssumption

\* Every timer that is enabled has time left, as a number.
LEMMA TimeLeftFacts ==
    ASSUME NEW s, DOMAIN s.packets \subseteq Packets, s.packets \in [DOMAIN s.packets -> PacketType],
           s.pingTimer \in Int, s.dropTimer \in Int
    PROVE  /\ TimeLeft(s, PingTimer) = s.pingTimer
           /\ TimeLeft(s, DropTimer) = s.dropTimer
           /\ \A p \in DOMAIN s.packets :
                 TimeLeft(s, p) = s.packets[p].resendTimer /\ TimeLeft(s, p) \in -PastMax..ResendTime
<1>1. TimeLeft(s, PingTimer) = s.pingTimer /\ TimeLeft(s, DropTimer) = s.dropTimer
  BY TimerNames DEF TimeLeft
<1>2. ASSUME NEW p \in DOMAIN s.packets
      PROVE  TimeLeft(s, p) = s.packets[p].resendTimer
  BY TimerNames DEF TimeLeft
<1>3. ASSUME NEW p \in DOMAIN s.packets
      PROVE  s.packets[p].resendTimer \in -PastMax..ResendTime
  BY DEF PacketType
<1> QED
  BY <1>1, <1>2, <1>3

\* What the packets and the timers are, which the table and the sessions have no part in.
SameQueue(s, t) ==
    /\ t.packets = s.packets /\ t.queue = s.queue
    /\ t.nextResendTimer = s.nextResendTimer /\ t.nextTimer = s.nextTimer

\* The packet that expires first stays that, and so does the next timer.
FirstKept(s, t) ==
    s.queue # <<>> =>
        /\ t.queue # <<>> /\ t.queue[1] = s.queue[1] /\ t.nextTimer = s.nextTimer
        /\ t.packets[s.queue[1]].resendTimer = s.packets[s.queue[1]].resendTimer

\* The timers that are enabled have time left as a number.
LEMMA EnabledTimers ==
    ASSUME NEW s, Running(s)
    PROVE  /\ s.nextTimer \in TimersOf(s)
           /\ \A timer \in TimersOf(s) :
                 /\ TimeLeft(s, timer) \in Int /\ timer # NoTimer
                 /\ \/ timer = PingTimer /\ TimeLeft(s, timer) = s.pingTimer
                    \/ timer = DropTimer /\ TimeLeft(s, timer) = s.dropTimer
                    \/ /\ s.queue # <<>> /\ timer = s.queue[1] /\ timer \in DOMAIN s.packets
                       /\ timer \notin {PingTimer, DropTimer}
                       /\ TimeLeft(s, timer) = s.packets[timer].resendTimer
<1>1. s.nextTimer \in TimersOf(s)
  BY DEF Running, Clocked
<1>2. /\ s.pingTimer \in Int /\ s.dropTimer \in Int
      /\ DOMAIN s.packets \subseteq Packets /\ s.packets \in [DOMAIN s.packets -> PacketType]
  BY Intervals DEF Running, Clocked, Queued
<1>3. s.queue # <<>> => s.queue[1] \in DOMAIN s.packets
  <2>1. s.queue \in Seq(Packets)
    BY DEF Running, Queued
  <2>2. s.queue # <<>> => 1 \in 1..Len(s.queue)
    BY <2>1
  <2> QED
    BY <2>2 DEF Running, Queued
<1> SUFFICES ASSUME NEW timer \in TimersOf(s)
             PROVE  /\ TimeLeft(s, timer) \in Int /\ timer # NoTimer
                    /\ \/ timer = PingTimer /\ TimeLeft(s, timer) = s.pingTimer
                       \/ timer = DropTimer /\ TimeLeft(s, timer) = s.dropTimer
                       \/ /\ s.queue # <<>> /\ timer = s.queue[1] /\ timer \in DOMAIN s.packets
                          /\ timer \notin {PingTimer, DropTimer}
                          /\ TimeLeft(s, timer) = s.packets[timer].resendTimer
  BY <1>1
<1>4. timer # NoTimer
  BY DEF TimersOf
<1>5. CASE timer = DropTimer
  BY <1>2, <1>4, <1>5, TimeLeftFacts
<1>6. CASE timer = PingTimer
  BY <1>2, <1>4, <1>6, TimeLeftFacts
<1>7. CASE timer \notin {DropTimer, PingTimer}
  <2>1. s.queue # <<>> /\ timer = s.queue[1]
    BY <1>7 DEF TimersOf, Running, Queued, Clocked
  <2>2. timer \in DOMAIN s.packets
    BY <1>3, <2>1
  <2>3. TimeLeft(s, timer) = s.packets[timer].resendTimer /\ TimeLeft(s, timer) \in -PastMax..ResendTime
    BY <1>2, <2>2, TimeLeftFacts
  <2> QED
    BY <1>4, <1>7, <2>1, <2>2, <2>3, Intervals
<1> QED
  BY <1>5, <1>6, <1>7

\* The table, the sessions and the broadcast list have no part in it.
LEMMA RunsWithout ==
    ASSUME NEW s, Running(s), NEW t, DOMAIN t = Fields, SameQueue(s, t), SameClock(s, t)
    PROVE  Running(t) /\ (NearestIn(s) => NearestIn(t))
<1>1. TimersOf(t) = TimersOf(s)
  BY DEF TimersOf, SameQueue, SameClock
<1>2. \A timer : TimeLeft(t, timer) = TimeLeft(s, timer)
  BY DEF TimeLeft, SameQueue, SameClock
<1>3. Queued(t)
  BY DEF Running, Queued, SameQueue
<1>4. Clocked(t)
  BY <1>1 DEF Running, Clocked, SameQueue, SameClock
<1>5. NearestIn(s) => NearestIn(t)
  BY <1>1, <1>2 DEF NearestIn, SameQueue
<1> QED
  BY <1>3, <1>4, <1>5 DEF Running

\* Nor has what a packet says of itself but its timer.
LEMMA MarkedRuns ==
    ASSUME NEW s, Running(s), NEW packets \in [DOMAIN s.packets -> PacketType],
           \A q \in DOMAIN s.packets : packets[q].resendTimer = s.packets[q].resendTimer,
           NEW t, t = [s EXCEPT !.packets = packets]
    PROVE  /\ Running(t) /\ Frame(s, t) /\ (NearestIn(s) => NearestIn(t))
           /\ t.packets = packets /\ t.queue = s.queue
           /\ t.nextResendTimer = s.nextResendTimer /\ t.nextTimer = s.nextTimer
<1>1. /\ DOMAIN t = Fields /\ Frame(s, t)
      /\ t.packets = packets /\ t.queue = s.queue
      /\ t.nextResendTimer = s.nextResendTimer /\ t.nextTimer = s.nextTimer
  BY DEF Running, Fields, Frame, SameTable, SameClock
<1>2. Queued(t)
  BY <1>1 DEF Running, Queued
<1>3. TimersOf(t) = TimersOf(s)
  BY <1>1 DEF TimersOf, Frame, SameClock
<1>4. Clocked(t)
  BY <1>1, <1>3 DEF Running, Clocked, Frame, SameClock
<1>5. Running(t)
  BY <1>1, <1>2, <1>4 DEF Running
<1>6. DOMAIN t.packets = DOMAIN s.packets
  BY <1>1
<1>7. \A timer \in TimersOf(s) : TimeLeft(t, timer) = TimeLeft(s, timer)
  <2> SUFFICES ASSUME NEW timer \in TimersOf(s) PROVE TimeLeft(t, timer) = TimeLeft(s, timer)
    OBVIOUS
  <2>1. CASE timer \in {PingTimer, DropTimer}
    BY <1>1, <2>1 DEF TimeLeft, Frame, SameClock
  <2>2. CASE timer \notin {PingTimer, DropTimer}
    <3>1. timer \in DOMAIN s.packets
      BY <2>2, EnabledTimers
    <3>2. TimeLeft(t, timer) = t.packets[timer].resendTimer
          /\ TimeLeft(s, timer) = s.packets[timer].resendTimer
      BY <2>2 DEF TimeLeft
    <3> QED
      BY <1>1, <3>1, <3>2
  <2> QED
    BY <2>1, <2>2
<1>8. NearestIn(s) => NearestIn(t)
  BY <1>1, <1>3, <1>7, EnabledTimers DEF NearestIn
<1> QED
  BY <1>1, <1>5, <1>8

\* The queue is appended a packet that was just sent.
LEMMA SendPacketRuns ==
    ASSUME NEW s, Running(s), NEW p \in DOMAIN s.packets, p \notin Contents(s.queue),
           NEW t, t = SendPacket(s, p)
    PROVE  /\ Running(t) /\ Frame(s, t)
           /\ Contents(t.queue) = Contents(s.queue) \cup {p} /\ t.queue # <<>>
           /\ DOMAIN t.packets = DOMAIN s.packets
           /\ NearestIn(s) => NearestIn(t)
           /\ FirstKept(s, t)
<1> DEFINE u == [s EXCEPT !.packets[p].resendTimer = ResendTime]
           packets == [s.packets EXCEPT ![p].resendTimer = ResendTime]
<1>1. /\ DOMAIN u = Fields /\ u.packets = packets /\ u.queue = s.queue
      /\ u.nextTimer = s.nextTimer /\ u.nextResendTimer = s.nextResendTimer
      /\ Frame(s, u)
  BY DEF Running, Fields, Frame, SameTable, SameClock
<1>2. t = EnqueuePacket(u, p)
  BY DEF SendPacket
<1>3. /\ p \in Packets /\ p # NoTimer /\ s.queue \in Seq(Packets)
      /\ s.packets \in [DOMAIN s.packets -> PacketType]
  BY TimerNames DEF Running, Queued
<1>4. packets \in [DOMAIN s.packets -> PacketType] /\ packets[p].resendTimer = ResendTime
      /\ \A q \in DOMAIN s.packets : q # p => packets[q] = s.packets[q]
  <2>1. ResendTime \in -PastMax..ResendTime
    BY Intervals
  <2>2. [s.packets[p] EXCEPT !.resendTimer = ResendTime] \in PacketType
    BY <1>3, <2>1 DEF PacketType
  <2>3. packets = [s.packets EXCEPT ![p] = [s.packets[p] EXCEPT !.resendTimer = ResendTime]]
    OBVIOUS
  <2> QED
    BY <1>3, <2>2, <2>3 DEF PacketType
<1> HIDE DEF u, packets
<1>5. \A k \in 1..Len(s.queue) : s.queue[k] \in DOMAIN s.packets /\ s.queue[k] # p
  BY DEF Running, Queued, Contents
<1>6. /\ DOMAIN t = Fields /\ t.packets = packets /\ Frame(s, t)
      /\ t.queue = Append(s.queue, p)
      /\ IF s.queue = <<>>
         THEN /\ t.nextResendTimer = p
              /\ t.nextTimer = IF s.nextTimer = NoTimer \/ ResendTime < TimeLeft(u, s.nextTimer)
                               THEN p ELSE s.nextTimer
         ELSE t.nextResendTimer = s.nextResendTimer /\ t.nextTimer = s.nextTimer
  <2>1. CASE s.queue = <<>>
    <3> DEFINE v == [u EXCEPT !.nextResendTimer = p]
               w == Sooner(v, p)
    <3>1. /\ DOMAIN v = Fields /\ v.packets = packets /\ v.queue = s.queue
          /\ v.nextTimer = s.nextTimer /\ v.nextResendTimer = p /\ Frame(s, v)
      BY <1>1 DEF Fields, Frame, SameTable, SameClock
    <3>2. TimeLeft(v, p) = ResendTime
      BY <1>3, <1>4, <3>1, TimerNames DEF TimeLeft
    <3>3. \A timer : TimeLeft(v, timer) = TimeLeft(u, timer)
      BY <1>1, <3>1 DEF TimeLeft, Frame, SameClock
    <3>4. w = [v EXCEPT !.nextTimer = IF s.nextTimer = NoTimer \/ ResendTime < TimeLeft(u, s.nextTimer)
                                      THEN p ELSE s.nextTimer]
      BY <3>1, <3>2, <3>3 DEF Sooner, Smaller, Fields
    <3>5. t = [w EXCEPT !.queue = Append(s.queue, p)]
      BY <1>1, <1>2, <2>1, <3>1, <3>4 DEF EnqueuePacket, ResendTimerAdd, Fields
    <3> HIDE DEF v, w
    <3> DEFINE next == IF s.nextTimer = NoTimer \/ ResendTime < TimeLeft(u, s.nextTimer)
                       THEN p ELSE s.nextTimer
    <3>6. w = [v EXCEPT !.nextTimer = next]
      BY <3>4
    <3> HIDE DEF next
    <3>7. /\ DOMAIN w = Fields /\ w.packets = packets /\ w.queue = s.queue
          /\ w.nextTimer = next /\ w.nextResendTimer = p /\ Frame(s, w)
      BY <3>1, <3>6 DEF Fields, Frame, SameTable, SameClock
    <3>8. /\ DOMAIN t = Fields /\ t.packets = packets /\ t.queue = Append(s.queue, p)
          /\ t.nextTimer = next /\ t.nextResendTimer = p /\ Frame(s, t)
      BY <3>5, <3>7 DEF Fields, Frame, SameTable, SameClock
    <3> QED
      BY <2>1, <3>8 DEF next
  <2>2. CASE s.queue # <<>>
    <3>1. t = [u EXCEPT !.queue = Append(s.queue, p)]
      BY <1>1, <1>2, <2>2 DEF EnqueuePacket
    <3> QED
      BY <1>1, <2>2, <3>1 DEF Fields, Frame, SameTable, SameClock
  <2> QED
    BY <2>1, <2>2
<1>7. t.queue \in Seq(Packets) /\ Len(t.queue) = Len(s.queue) + 1 /\ t.queue[Len(s.queue) + 1] = p
      /\ \A k \in 1..Len(s.queue) : t.queue[k] = s.queue[k]
  BY <1>3, <1>6
<1>8. Queued(t)
  <2>1. DOMAIN t.packets = DOMAIN s.packets /\ DOMAIN t.packets \subseteq Packets
        /\ t.packets \in [DOMAIN t.packets -> PacketType]
    BY <1>4, <1>6 DEF Running, Queued
  <2>2. \A k \in 1..Len(t.queue) : t.queue[k] \in DOMAIN t.packets
    BY <1>3, <1>5, <1>7, <2>1
  <2>3. \A j, k \in 1..Len(t.queue) : t.queue[j] = t.queue[k] => j = k
    BY SMTT(30), <1>3, <1>5, <1>7 DEF Running, Queued
  <2>4. ASSUME NEW j \in 1..Len(t.queue), NEW k \in 1..Len(t.queue), j <= k
        PROVE  t.packets[t.queue[j]].resendTimer <= t.packets[t.queue[k]].resendTimer
    <3>1. Len(s.queue) \in Nat
      BY <1>3
    <3>2. CASE k = Len(t.queue)
      <4>1. t.packets[t.queue[k]].resendTimer = ResendTime
        BY <1>3, <1>4, <1>6, <1>7, <3>2
      <4>2. t.packets[t.queue[j]].resendTimer \in -PastMax..ResendTime
        BY <2>1, <2>2 DEF PacketType
      <4> QED
        BY <4>1, <4>2, Intervals
    <3>3. CASE k # Len(t.queue)
      <4>1. j \in 1..Len(s.queue) /\ k \in 1..Len(s.queue)
        BY <1>7, <2>4, <3>1, <3>3
      <4>2. /\ t.packets[t.queue[j]] = s.packets[s.queue[j]]
            /\ t.packets[t.queue[k]] = s.packets[s.queue[k]]
        BY <1>4, <1>5, <1>6, <1>7, <4>1
      <4> QED
        BY <2>4, <4>1, <4>2 DEF Running, Queued
    <3> QED
      BY <3>2, <3>3
  <2>5. t.nextResendTimer = IF t.queue = <<>> THEN NoTimer ELSE t.queue[1]
    <3>1. t.queue # <<>>
      BY <1>3, <1>7
    <3>2. CASE s.queue = <<>>
      BY <1>6, <1>7, <3>1, <3>2
    <3>3. CASE s.queue # <<>>
      <4>1. 1 \in 1..Len(s.queue)
        BY <1>3, <3>3
      <4> QED
        BY <1>6, <1>7, <3>1, <3>3, <4>1 DEF Running, Queued
    <3> QED
      BY <3>2, <3>3
  <2> QED
    BY <1>7, <2>1, <2>2, <2>3, <2>4, <2>5 DEF Queued
<1>9. /\ s.pingTimer \in Int /\ s.dropTimer \in Int
      /\ t.pingTimer = s.pingTimer /\ t.dropTimer = s.dropTimer
      /\ t.nextPingTimer = s.nextPingTimer
      /\ s.nextTimer \in TimersOf(s)
  BY <1>6, Intervals DEF Running, Clocked, Frame, SameClock
<1>10. Clocked(t)
  <2>1. t.nextTimer \in TimersOf(t)
    <3>1. CASE s.queue = <<>>
      <4>1. s.nextResendTimer = NoTimer
        BY <3>1 DEF Running, Queued
      <4> QED
        BY <1>3, <1>6, <1>9, <3>1, <4>1 DEF TimersOf
    <3>2. CASE s.queue # <<>>
      BY <1>6, <1>9, <3>2 DEF TimersOf
    <3> QED
      BY <3>1, <3>2
  <2> QED
    BY <1>9, <2>1 DEF Running, Clocked
<1>11. ASSUME NearestIn(s) PROVE NearestIn(t)
  <2>1. ASSUME NEW timer \in TimersOf(s)
        PROVE  TimeLeft(t, timer) = TimeLeft(s, timer) /\ TimeLeft(u, timer) = TimeLeft(s, timer)
               /\ TimeLeft(s, timer) \in Int
    <3>1. CASE timer \in {PingTimer, DropTimer}
      BY <1>1, <1>9, <3>1, TimerNames DEF TimeLeft, Frame, SameClock
    <3>2. CASE timer \notin {PingTimer, DropTimer}
      <4>1. s.queue # <<>> /\ timer = s.queue[1]
        BY <3>2 DEF TimersOf, Running, Queued, Clocked
      <4>2. 1 \in 1..Len(s.queue)
        BY <1>3, <4>1
      <4>3. timer \in DOMAIN s.packets /\ timer # p
        BY <1>5, <4>1, <4>2
      <4>4. s.packets[timer].resendTimer \in Int
        BY <1>3, <4>3, Intervals DEF PacketType
      <4> QED
        BY <1>1, <1>3, <1>4, <1>6, <3>2, <4>3, <4>4 DEF TimeLeft
    <3> QED
      BY <3>1, <3>2
  <2>2. TimeLeft(t, p) = ResendTime
    BY <1>3, <1>4, <1>6, TimerNames DEF TimeLeft
  <2>3. s.nextTimer # NoTimer /\ \A timer \in TimersOf(s) : TimeLeft(s, s.nextTimer) <= TimeLeft(s, timer)
    BY <1>9, <1>11 DEF NearestIn, TimersOf
  <2>4. CASE s.queue = <<>>
    <3>1. TimersOf(t) = TimersOf(s) \cup {p} /\ t.nextResendTimer = p
      <4>1. s.nextResendTimer = NoTimer
        BY <2>4 DEF Running, Queued
      <4> QED
        BY <1>3, <1>6, <1>9, <2>4, <4>1 DEF TimersOf
    <3>2. t.nextTimer = IF ResendTime < TimeLeft(s, s.nextTimer) THEN p ELSE s.nextTimer
      BY <1>6, <1>9, <2>1, <2>3, <2>4
    <3> QED
      BY <1>9, <2>1, <2>2, <2>3, <3>1, <3>2, Intervals DEF NearestIn
  <2>5. CASE s.queue # <<>>
    <3>1. TimersOf(t) = TimersOf(s) /\ t.nextTimer = s.nextTimer
      BY <1>6, <1>9, <2>5 DEF TimersOf
    <3> QED
      BY <1>9, <2>1, <2>3, <3>1 DEF NearestIn
  <2> QED
    BY <2>4, <2>5
<1>12. Contents(t.queue) = Contents(s.queue) \cup {p} /\ t.queue # <<>>
  <2>1. Len(s.queue) \in Nat
    BY <1>3
  <2>2. 1..Len(t.queue) = 1..Len(s.queue) \cup {Len(s.queue) + 1}
    BY <1>7, <2>1
  <2>3. Contents(t.queue) = {t.queue[k] : k \in 1..Len(s.queue)} \cup {t.queue[Len(s.queue) + 1]}
    BY <2>2 DEF Contents
  <2>4. {t.queue[k] : k \in 1..Len(s.queue)} = Contents(s.queue)
    BY <1>7 DEF Contents
  <2>5. t.queue # <<>>
    BY <1>7, <2>1
  <2> QED
    BY <1>7, <2>3, <2>4, <2>5
<1>13. FirstKept(s, t)
  <2>1. SUFFICES ASSUME s.queue # <<>>
                 PROVE  /\ t.queue # <<>> /\ t.queue[1] = s.queue[1] /\ t.nextTimer = s.nextTimer
                        /\ t.packets[s.queue[1]].resendTimer = s.packets[s.queue[1]].resendTimer
    BY DEF FirstKept
  <2>2. 1 \in 1..Len(s.queue)
    BY <1>3, <2>1
  <2>3. t.packets[s.queue[1]] = s.packets[s.queue[1]]
    BY <1>4, <1>5, <1>6, <2>2
  <2> QED
    BY <1>6, <1>7, <1>12, <2>1, <2>2, <2>3
<1> QED
  BY <1>6, <1>8, <1>10, <1>11, <1>12, <1>13 DEF Running, packets

\* A list without one of its elements.
LEMMA WithoutFacts ==
    ASSUME NEW S, NEW list \in Seq(S), NEW element \in Contents(list),
           \A j, k \in 1..Len(list) : list[j] = list[k] => j = k,
           NEW rest, rest = Without(list, element), NEW place, place = Place(list, element)
    PROVE  /\ place \in 1..Len(list) /\ list[place] = element
           /\ rest \in Seq(S) /\ Len(rest) = Len(list) - 1
           /\ \A k \in 1..Len(list) - 1 : rest[k] = IF k < place THEN list[k] ELSE list[k + 1]
           /\ \A j, k \in 1..Len(rest) : rest[j] = rest[k] => j = k
           /\ Contents(rest) = Contents(list) \ {element}
<1> DEFINE n == Len(list)
<1>1. n \in Nat /\ DOMAIN list = 1..n
  OBVIOUS
<1>2. place \in 1..n /\ list[place] = element
  <2>1. \E k \in DOMAIN list : list[k] = element
    BY <1>1 DEF Contents
  <2> QED
    BY <1>1, <2>1 DEF Place
<1>3. rest = SubSeq(list, 1, place - 1) \o SubSeq(list, place + 1, n)
  BY DEF Without, RemoveAt
<1> DEFINE a == SubSeq(list, 1, place - 1)
           b == SubSeq(list, place + 1, n)
<1>4. a \in Seq(S) /\ Len(a) = place - 1 /\ \A k \in 1..place - 1 : a[k] = list[k]
  BY <1>1, <1>2
<1>5. b \in Seq(S) /\ Len(b) = n - place /\ \A k \in 1..n - place : b[k] = list[k + place]
  BY <1>1, <1>2
<1> HIDE DEF a, b, n
<1>6. rest = a \o b
  BY <1>3 DEF a, b, n
<1>7. rest \in Seq(S) /\ Len(rest) = n - 1
  <2>1. a \o b \in Seq(S) /\ Len(a \o b) = Len(a) + Len(b)
    BY ONLY SMTT(30), <1>4, <1>5
  <2>2. Len(a) + Len(b) = n - 1
    BY <1>1, <1>2, <1>4, <1>5
  <2> QED
    BY <1>6, <2>1, <2>2
<1>8. ASSUME NEW k \in 1..n - 1
      PROVE  rest[k] = IF k < place THEN list[k] ELSE list[k + 1]
  <2>1. CASE k < place
    BY <1>1, <1>2, <1>4, <1>5, <1>6, <2>1
  <2>2. CASE ~ (k < place)
    <3>1. k - (place - 1) \in 1..n - place /\ k - (place - 1) + place = k + 1
      BY <1>1, <1>2, <2>2
    <3>2. k \in Len(a) + 1..Len(a) + Len(b)
      BY <1>1, <1>2, <1>4, <1>5, <2>2
    <3>3. (a \o b)[k] = b[k - Len(a)]
      BY <1>4, <1>5, <3>2
    <3> QED
      BY <1>4, <1>5, <1>6, <2>2, <3>1, <3>3
  <2> QED
    BY <2>1, <2>2
<1>9. ASSUME NEW j \in 1..Len(rest), NEW k \in 1..Len(rest), rest[j] = rest[k]
      PROVE  j = k
  <2> DEFINE f(i) == IF i < place THEN i ELSE i + 1
  <2>1. f(j) \in 1..n /\ f(k) \in 1..n /\ rest[j] = list[f(j)] /\ rest[k] = list[f(k)]
    BY SMTT(30), <1>1, <1>2, <1>7, <1>8
  <2>2. f(j) = f(k)
    BY <1>9, <2>1 DEF n
  <2> QED
    BY <1>1, <1>2, <1>7, <2>2
<1>10. Contents(rest) = Contents(list) \ {element}
  <2>1. ASSUME NEW k \in 1..n, k # place
        PROVE  \E j \in 1..n - 1 : rest[j] = list[k]
    <3>1. CASE k < place
      <4>1. k \in 1..n - 1
        BY <1>1, <1>2, <3>1
      <4> QED
        BY <1>8, <3>1, <4>1
    <3>2. CASE k > place
      <4>1. k - 1 \in 1..n - 1 /\ ~ (k - 1 < place) /\ k - 1 + 1 = k
        BY <1>1, <1>2, <3>2
      <4> QED
        BY <1>8, <4>1
    <3> QED
      BY <1>1, <1>2, <2>1, <3>1, <3>2
  <2>2. ASSUME NEW k \in 1..n - 1
        PROVE  \E j \in 1..n : j # place /\ rest[k] = list[j]
    <3>1. CASE k < place
      BY <1>1, <1>2, <1>8, <3>1
    <3>2. CASE ~ (k < place)
      <4>1. k + 1 \in 1..n /\ k + 1 # place
        BY <1>1, <1>2, <3>2
      <4> QED
        BY <1>8, <3>2, <4>1
    <3> QED
      BY <3>1, <3>2
  <2> QED
    <3>1. ASSUME NEW x \in Contents(rest) PROVE x \in Contents(list) /\ x # element
      <4>1. PICK k \in 1..n - 1 : x = rest[k]
        BY <1>7 DEF Contents
      <4>2. PICK j \in 1..n : j # place /\ rest[k] = list[j]
        BY <2>2
      <4> QED
        BY <1>2, <4>1, <4>2 DEF Contents, n
    <3>2. ASSUME NEW x \in Contents(list), x # element PROVE x \in Contents(rest)
      <4>1. PICK k \in 1..n : x = list[k]
        BY DEF Contents, n
      <4>2. k # place
        BY <1>2, <3>2, <4>1
      <4> QED
        BY <1>7, <2>1, <4>1, <4>2 DEF Contents
    <3> QED
      BY <3>1, <3>2
<1> QED
  BY <1>2, <1>7, <1>8, <1>9, <1>10 DEF n

\* The nearest of the two timers is one of them, if they are enabled.
LEMMA NearestFacts ==
    ASSUME NEW s, NEW timerA, NEW timerB,
           timerA # NoTimer => TimeLeft(s, timerA) \in Int,
           timerB # NoTimer => TimeLeft(s, timerB) \in Int
    PROVE  /\ Nearest(s, timerA, timerB) \in {timerA, timerB}
           /\ Nearest(s, timerA, timerB) = NoTimer <=> timerA = NoTimer /\ timerB = NoTimer
           /\ timerA # NoTimer =>
                 TimeLeft(s, Nearest(s, timerA, timerB)) <= TimeLeft(s, timerA)
           /\ timerB # NoTimer =>
                 TimeLeft(s, Nearest(s, timerA, timerB)) <= TimeLeft(s, timerB)
BY DEF Nearest, Smaller

\* A packet is taken out of the queue, with or without its timer.
LEMMA DequeuePacketRuns ==
    ASSUME NEW s, Running(s), NEW p \in Contents(s.queue), NEW t, t = DequeuePacket(s, p)
    PROVE  /\ Running(t) /\ Frame(s, t) /\ (NearestIn(s) => NearestIn(t))
           /\ Contents(t.queue) = Contents(s.queue) \ {p}
           /\ DOMAIN t.packets = DOMAIN s.packets
<1> DEFINE queue == Without(s.queue, p)
           place == Place(s.queue, p)
           u     == [s EXCEPT !.queue = queue]
<1>1. /\ s.queue \in Seq(Packets) /\ DOMAIN s.packets \subseteq Packets
      /\ s.packets \in [DOMAIN s.packets -> PacketType]
      /\ \A k \in 1..Len(s.queue) : s.queue[k] \in DOMAIN s.packets
      /\ \A j, k \in 1..Len(s.queue) : s.queue[j] = s.queue[k] => j = k
  BY DEF Running, Queued
<1>2. /\ place \in 1..Len(s.queue) /\ s.queue[place] = p
      /\ queue \in Seq(Packets) /\ Len(queue) = Len(s.queue) - 1
      /\ \A k \in 1..Len(s.queue) - 1 : queue[k] = IF k < place THEN s.queue[k] ELSE s.queue[k + 1]
      /\ \A j, k \in 1..Len(queue) : queue[j] = queue[k] => j = k
      /\ Contents(queue) = Contents(s.queue) \ {p}
  BY <1>1, WithoutFacts
<1>3. /\ DOMAIN u = Fields /\ Frame(s, u) /\ u.packets = s.packets /\ u.queue = queue
      /\ u.nextTimer = s.nextTimer /\ u.nextResendTimer = s.nextResendTimer
  BY DEF Running, Fields, Frame, SameTable, SameClock
<1>4. Len(s.queue) \in Nat /\ s.queue # <<>>
  BY <1>1, <1>2
<1> HIDE DEF queue, place
<1>5. \A k \in 1..Len(queue) : queue[k] \in DOMAIN s.packets
  <2> SUFFICES ASSUME NEW k \in 1..Len(queue) PROVE queue[k] \in DOMAIN s.packets
    OBVIOUS
  <2>1. k \in 1..Len(s.queue) - 1 /\ k \in 1..Len(s.queue) /\ k + 1 \in 1..Len(s.queue)
    BY <1>2, <1>4
  <2> QED
    BY <1>1, <1>2, <2>1
<1>6. ASSUME NEW j \in 1..Len(queue), NEW k \in 1..Len(queue), j <= k
      PROVE  s.packets[queue[j]].resendTimer <= s.packets[queue[k]].resendTimer
  <2> DEFINE f(i) == IF i < place THEN i ELSE i + 1
  <2>1. /\ f(j) \in 1..Len(s.queue) /\ f(k) \in 1..Len(s.queue) /\ f(j) <= f(k)
    BY <1>2, <1>4, <1>6
  <2>2. queue[j] = s.queue[f(j)] /\ queue[k] = s.queue[f(k)]
    BY <1>2, <1>4
  <2> HIDE DEF f
  <2> QED
    BY <2>1, <2>2 DEF Running, Queued
<1>7. Head(s.queue) = s.queue[1]
  BY <1>4
<1>8. CASE s.queue[1] = p
  <2> DEFINE packet == IF queue = <<>> THEN NoTimer ELSE Head(queue)
             timer  == Nearest(u, u.nextPingTimer, packet)
             next   == IF u.nextTimer # u.nextResendTimer THEN u.nextTimer
                       ELSE IF timer = NoTimer THEN DropTimer
                       ELSE Nearest(u, timer, DropTimer)
  <2>1. t = ResendTimerRemove(u, packet)
    BY <1>7, <1>8 DEF DequeuePacket, queue
  <2>2. t = [u EXCEPT !.nextResendTimer = packet, !.nextTimer = next]
    BY <1>3, <2>1 DEF ResendTimerRemove, Fields
  <2> HIDE DEF next
  <2>3. /\ DOMAIN t = Fields /\ Frame(s, t) /\ t.packets = s.packets /\ t.queue = queue
        /\ t.nextTimer = next /\ t.nextResendTimer = packet
    BY <1>3, <2>2 DEF Fields, Frame, SameTable, SameClock
  <2>4. place = 1
    BY <1>1, <1>2, <1>4, <1>8
  <2>5. packet = IF queue = <<>> THEN NoTimer ELSE queue[1]
    BY <1>2
  <2> HIDE DEF packet
  <2>6. Queued(t)
    <3>1. t.nextResendTimer = IF t.queue = <<>> THEN NoTimer ELSE t.queue[1]
      BY <2>3, <2>5
    <3>2. \A k \in 1..Len(t.queue) : t.queue[k] \in DOMAIN t.packets
      BY <1>5, <2>3
    <3>3. \A j, k \in 1..Len(t.queue) : t.queue[j] = t.queue[k] => j = k
      BY <1>2, <2>3
    <3>4. \A j, k \in 1..Len(t.queue) :
             j <= k => t.packets[t.queue[j]].resendTimer <= t.packets[t.queue[k]].resendTimer
      BY <1>6, <2>3
    <3>5. /\ DOMAIN t.packets \subseteq Packets /\ t.packets \in [DOMAIN t.packets -> PacketType]
          /\ t.queue \in Seq(Packets)
      BY <1>1, <1>2, <2>3
    <3> HIDE DEF queue
    <3> QED
      BY <3>1, <3>2, <3>3, <3>4, <3>5 DEF Queued
  <2>7. s.nextResendTimer = p /\ p # NoTimer /\ p # DropTimer /\ p # PingTimer
    BY <1>1, <1>2, <1>4, <1>8, TimerNames DEF Running, Queued
  <2>8. packet # NoTimer => /\ packet \in DOMAIN s.packets /\ packet # p
                            /\ packet # DropTimer /\ packet # PingTimer
                            /\ s.packets[p].resendTimer <= s.packets[packet].resendTimer
    <3>1. CASE queue = <<>>
      BY <2>5, <3>1
    <3>2. CASE queue # <<>>
      <4>1. 1 \in 1..Len(queue)
        BY <1>2, <3>2
      <4>2. packet \in DOMAIN s.packets
        BY <1>5, <2>5, <3>2, <4>1
      <4>3. 2 \in 1..Len(s.queue) /\ 1 \in 1..Len(s.queue) /\ packet = s.queue[2]
        BY <1>2, <1>4, <2>4, <2>5, <3>2, <4>1
      <4>4. s.packets[s.queue[1]].resendTimer <= s.packets[s.queue[2]].resendTimer
        BY <4>3 DEF Running, Queued
      <4>5. packet # p
        BY <1>1, <1>8, <4>3
      <4> QED
        BY <1>1, <1>8, <4>2, <4>3, <4>4, <4>5, TimerNames
    <3> QED
      BY <3>1, <3>2
  <2>9. /\ \A q \in DOMAIN s.packets :
              /\ TimeLeft(s, q) = s.packets[q].resendTimer /\ TimeLeft(s, q) \in Int
        /\ TimeLeft(s, DropTimer) \in Int /\ TimeLeft(s, PingTimer) \in Int
    <3>1. s.pingTimer \in Int /\ s.dropTimer \in Int
      BY Intervals DEF Running, Clocked
    <3> QED
      BY <1>1, <3>1, TimeLeftFacts, Intervals
  <2>10. \A q : TimeLeft(u, q) = TimeLeft(s, q) /\ TimeLeft(t, q) = TimeLeft(s, q)
    BY <1>3, <2>3 DEF TimeLeft, Frame, SameClock
  <2>11. /\ u.nextPingTimer = s.nextPingTimer /\ t.nextPingTimer = s.nextPingTimer
         /\ s.nextPingTimer \in {PingTimer, NoTimer} /\ s.nextTimer \in TimersOf(s)
         /\ TimersOf(t) = {DropTimer, s.nextPingTimer, packet} \ {NoTimer}
         /\ TimersOf(s) = {DropTimer, s.nextPingTimer, p} \ {NoTimer}
    BY <1>3, <2>3, <2>7 DEF Running, Clocked, TimersOf, Frame, SameClock
  <2>12. CASE s.nextTimer # p
    <3>1. next = s.nextTimer
      BY <1>3, <2>7, <2>12 DEF next
    <3>2. t.nextTimer \in TimersOf(t)
      BY <2>3, <2>11, <2>12, <3>1
    <3>3. Clocked(t)
      BY <2>3, <3>2 DEF Running, Clocked, Frame, SameClock
    <3>4. ASSUME NearestIn(s) PROVE NearestIn(t)
      <4>1. \A q \in {DropTimer, s.nextPingTimer, p} \ {NoTimer} : TimeLeft(s, s.nextTimer) <= TimeLeft(s, q)
        BY <2>11, <3>4 DEF NearestIn
      <4>2. packet # NoTimer => TimeLeft(s, s.nextTimer) <= TimeLeft(s, packet)
        <5>1. TimeLeft(s, p) = s.packets[p].resendTimer /\ TimeLeft(s, p) \in Int
          BY <1>1, <1>2, <2>9
        <5>2. TimeLeft(s, s.nextTimer) \in Int
          BY <2>9, <2>11, <2>12
        <5> QED
          BY <2>7, <2>8, <2>9, <4>1, <5>1, <5>2
      <4>3. \A q \in TimersOf(t) : TimeLeft(s, s.nextTimer) <= TimeLeft(s, q)
        BY <2>11, <4>1, <4>2
      <4> QED
        BY <2>3, <2>10, <3>1, <4>3 DEF NearestIn
    <3> QED
      BY <1>2, <2>3, <2>6, <3>3, <3>4 DEF Running
  <2>13. CASE s.nextTimer = p
    <3>1. next = IF timer = NoTimer THEN DropTimer ELSE Nearest(u, timer, DropTimer)
      BY <1>3, <2>7, <2>13 DEF next
    <3>2. packet # NoTimer => TimeLeft(u, packet) \in Int
      BY <2>8, <2>9, <2>10
    <3>3. u.nextPingTimer # NoTimer => TimeLeft(u, u.nextPingTimer) \in Int
      BY <2>9, <2>10, <2>11
    <3>4. /\ timer \in {u.nextPingTimer, packet}
          /\ timer = NoTimer <=> u.nextPingTimer = NoTimer /\ packet = NoTimer
          /\ u.nextPingTimer # NoTimer => TimeLeft(u, timer) <= TimeLeft(u, u.nextPingTimer)
          /\ packet # NoTimer => TimeLeft(u, timer) <= TimeLeft(u, packet)
      BY <3>2, <3>3, NearestFacts
    <3> HIDE DEF timer
    <3>5. timer # NoTimer => TimeLeft(u, timer) \in Int
      BY <3>2, <3>3, <3>4
    <3> DEFINE last == Nearest(u, timer, DropTimer)
    <3>6. TimeLeft(u, DropTimer) \in Int /\ DropTimer # NoTimer
      BY <2>9, <2>10, TimerNames
    <3>7. /\ last \in {timer, DropTimer}
          /\ last = NoTimer <=> timer = NoTimer /\ DropTimer = NoTimer
          /\ timer # NoTimer => TimeLeft(u, last) <= TimeLeft(u, timer)
          /\ TimeLeft(u, last) <= TimeLeft(u, DropTimer)
      BY <3>5, <3>6, NearestFacts
    <3>8. next = IF timer = NoTimer THEN DropTimer ELSE last
      BY <3>1
    <3> HIDE DEF last
    <3>9. next \in TimersOf(t)
      BY <2>11, <3>4, <3>6, <3>7, <3>8
    <3>10. \A q \in TimersOf(t) : TimeLeft(u, next) <= TimeLeft(u, q)
      BY <2>11, <3>2, <3>3, <3>4, <3>5, <3>6, <3>7, <3>8
    <3>11. Clocked(t)
      BY <2>3, <3>9 DEF Running, Clocked, Frame, SameClock
    <3>12. NearestIn(t)
      BY <2>3, <2>10, <3>10 DEF NearestIn
    <3> QED
      BY <1>2, <2>3, <2>6, <3>11, <3>12 DEF Running
  <2> QED
    BY <2>12, <2>13
<1>9. CASE s.queue[1] # p
  <2>1. place # 1 /\ place - 1 \in 1..Len(s.queue)
    BY <1>2, <1>4, <1>9
  <2>2. /\ Queued(u) /\ Clocked(u)
    <3>1. queue # <<>> /\ queue[1] = s.queue[1]
      BY <1>2, <1>4, <2>1
    <3>2. u.nextResendTimer = queue[1]
      BY <1>3, <1>4, <3>1 DEF Running, Queued
    <3>3. Queued(u)
      BY SMTT(30), <1>1, <1>2, <1>3, <1>5, <1>6, <3>1, <3>2 DEF Queued
    <3>4. TimersOf(u) = TimersOf(s)
      BY <1>3 DEF TimersOf, Frame, SameClock
    <3> QED
      BY <1>3, <3>3, <3>4 DEF Running, Clocked, Frame, SameClock
  <2>3. NearestIn(s) => NearestIn(u)
    <3>1. \A timer : TimeLeft(u, timer) = TimeLeft(s, timer)
      BY <1>3 DEF TimeLeft, Frame, SameClock
    <3>2. TimersOf(u) = TimersOf(s)
      BY <1>3 DEF TimersOf, Frame, SameClock
    <3> QED
      BY <1>3, <3>1, <3>2 DEF NearestIn
  <2>4. Running(u)
    BY <1>3, <2>2 DEF Running
  <2> DEFINE before  == s.queue[place - 1]
             packets == [s.packets EXCEPT ![before].lastInChunk = TRUE]
  <2>5. t = IF s.packets[p].lastInChunk THEN [u EXCEPT !.packets[before].lastInChunk = TRUE] ELSE u
    BY <1>7, <1>9 DEF DequeuePacket, queue, place
  <2>6. before \in DOMAIN s.packets
    BY <1>1, <2>1
  <2>7. /\ packets \in [DOMAIN u.packets -> PacketType]
        /\ \A q \in DOMAIN u.packets : packets[q].resendTimer = u.packets[q].resendTimer
    <3>1. s.packets[before] \in PacketType
      BY <1>1, <2>6
    <3>2. /\ [s.packets[before] EXCEPT !.lastInChunk = TRUE] \in PacketType
          /\ [s.packets[before] EXCEPT !.lastInChunk = TRUE].resendTimer = s.packets[before].resendTimer
      BY <3>1 DEF PacketType
    <3>3. packets = [s.packets EXCEPT ![before] = [s.packets[before] EXCEPT !.lastInChunk = TRUE]]
      OBVIOUS
    <3> HIDE DEF packets
    <3> QED
      BY <1>1, <1>3, <2>6, <3>2, <3>3
  <2>8. [u EXCEPT !.packets[before].lastInChunk = TRUE] = [u EXCEPT !.packets = packets]
    BY <1>3
  <2> HIDE DEF packets, before, u
  <2>9. CASE s.packets[p].lastInChunk
    <3>1. t = [u EXCEPT !.packets = packets]
      BY <2>5, <2>8, <2>9
    <3>2. /\ Running(t) /\ Frame(u, t) /\ (NearestIn(u) => NearestIn(t))
          /\ t.packets = packets /\ t.queue = u.queue
      BY <2>4, <2>7, <3>1, MarkedRuns
    <3> QED
      BY <1>2, <1>3, <2>3, <2>7, <3>2 DEF Frame, SameTable, SameClock
  <2>10. CASE ~ s.packets[p].lastInChunk
    <3>1. t = u
      BY <2>5, <2>10
    <3> QED
      BY <1>2, <1>3, <2>3, <2>4, <3>1
  <2> QED
    BY <2>9, <2>10
<1> QED
  BY <1>8, <1>9

-------------------------------------------------------------------------------
(***************************************************************************)
(* Packets and the sessions they belong to                                 *)
(***************************************************************************)
SessionType ==
    [handshakeId : RequestIds \cup {NoSession}, closed : BOOLEAN, remoteId : RemoteIds,
     local : Seq(Packets)]

\* The local queue of a session has packets of its own, each once.
LocalOf(s, id) ==
    LET local == s.sessions[id].local
    IN  /\ \A k \in 1..Len(local) : local[k] \in DOMAIN s.packets /\ local[k][1] = id
        /\ \A j, k \in 1..Len(local) : local[j] = local[k] => j = k

\* A packet is in the resend queue and in the local queue of its session.
Owned(s) ==
    /\ Running(s)
    /\ DOMAIN s.sessions \subseteq SessionIds
    /\ s.sessions \in [DOMAIN s.sessions -> SessionType]
    /\ DOMAIN s.packets = Contents(s.queue)
    /\ \A id \in DOMAIN s.sessions : LocalOf(s, id)
    /\ \A p \in DOMAIN s.packets :
          p[1] \in DOMAIN s.sessions /\ p \in Contents(s.sessions[p[1]].local)

\* A packet is freed.
LEMMA ReleasePacketRuns ==
    ASSUME NEW s, Running(s), DOMAIN s.packets = Contents(s.queue), NEW p \in DOMAIN s.packets,
           NEW t, t = ReleasePacket(s, p)
    PROVE  /\ Running(t) /\ Frame(s, t) /\ (NearestIn(s) => NearestIn(t))
           /\ DOMAIN t.packets = DOMAIN s.packets \ {p}
           /\ DOMAIN t.packets = Contents(t.queue)
<1> DEFINE u == DequeuePacket(s, p)
<1>1. /\ Running(u) /\ Frame(s, u) /\ (NearestIn(s) => NearestIn(u))
      /\ Contents(u.queue) = Contents(s.queue) \ {p}
      /\ DOMAIN u.packets = DOMAIN s.packets
  BY DequeuePacketRuns
<1>2. t = [u EXCEPT !.packets = [q \in DOMAIN u.packets \ {p} |-> u.packets[q]]]
  BY DEF ReleasePacket, Restrict
<1> HIDE DEF u
<1> DEFINE packets == [q \in DOMAIN u.packets \ {p} |-> u.packets[q]]
<1>3. /\ DOMAIN t = Fields /\ Frame(s, t) /\ t.packets = packets /\ t.queue = u.queue
      /\ t.nextTimer = u.nextTimer /\ t.nextResendTimer = u.nextResendTimer
      /\ SameClock(u, t)
  BY <1>1, <1>2 DEF Running, Fields, Frame, SameTable, SameClock
<1>4. \A k \in 1..Len(u.queue) : u.queue[k] \in DOMAIN packets
  BY <1>1 DEF Contents
<1>5. DOMAIN packets = DOMAIN s.packets \ {p} /\ \A q \in DOMAIN packets : packets[q] = u.packets[q]
  BY <1>1
<1>6. packets \in [DOMAIN packets -> PacketType]
  BY <1>1 DEF Running, Queued
<1> HIDE DEF packets
<1>7. Queued(t)
  <2>1. /\ DOMAIN t.packets \subseteq Packets /\ t.queue \in Seq(Packets)
        /\ \A j, k \in 1..Len(t.queue) : t.queue[j] = t.queue[k] => j = k
        /\ t.nextResendTimer = IF t.queue = <<>> THEN NoTimer ELSE t.queue[1]
    BY <1>1, <1>3, <1>5 DEF Running, Queued
  <2>2. \A j, k \in 1..Len(t.queue) :
           j <= k => t.packets[t.queue[j]].resendTimer <= t.packets[t.queue[k]].resendTimer
    BY <1>1, <1>3, <1>4, <1>5 DEF Running, Queued
  <2> QED
    BY <1>3, <1>4, <1>6, <2>1, <2>2 DEF Queued
<1>8. TimersOf(t) = TimersOf(u)
  BY <1>3 DEF TimersOf, SameClock
<1>9. Clocked(t)
  BY <1>1, <1>3, <1>8 DEF Running, Clocked, SameClock
<1>10. Running(t)
  BY <1>3, <1>7, <1>9 DEF Running
<1>11. \A timer \in TimersOf(u) : TimeLeft(t, timer) = TimeLeft(u, timer)
  <2> SUFFICES ASSUME NEW timer \in TimersOf(u) PROVE TimeLeft(t, timer) = TimeLeft(u, timer)
    OBVIOUS
  <2>1. CASE timer \in {PingTimer, DropTimer}
    BY <1>3, <2>1 DEF TimeLeft, SameClock
  <2>2. CASE timer \notin {PingTimer, DropTimer}
    <3>1. timer \in DOMAIN t.packets
      BY <1>8, <1>10, <2>2, EnabledTimers
    <3>2. TimeLeft(t, timer) = t.packets[timer].resendTimer
          /\ TimeLeft(u, timer) = u.packets[timer].resendTimer
      BY <2>2 DEF TimeLeft
    <3> QED
      BY <1>3, <1>5, <3>1, <3>2
  <2> QED
    BY <2>1, <2>2
<1>12. NearestIn(u) => NearestIn(t)
  BY <1>1, <1>3, <1>8, <1>11, EnabledTimers DEF NearestIn
<1> QED
  BY <1>1, <1>3, <1>5, <1>10, <1>12

Created(s, p, packet) == [s EXCEPT !.packets = Added(@, p, packet)]

\* A packet that was not there is sent, in no local queue yet.
LEMMA CreatePacketRuns ==
    ASSUME NEW s, Running(s), NEW p \in Packets, p \notin DOMAIN s.packets,
           NEW packet \in PacketType, NEW t, t = SendPacket(Created(s, p, packet), p)
    PROVE  /\ Running(t) /\ Frame(s, t) /\ (NearestIn(s) => NearestIn(t))
           /\ Contents(t.queue) = Contents(s.queue) \cup {p} /\ t.queue # <<>>
           /\ DOMAIN t.packets = DOMAIN s.packets \cup {p}
           /\ FirstKept(s, t)
<1> DEFINE u == Created(s, p, packet)
           packets == Added(s.packets, p, packet)
<1>1. t = SendPacket(u, p)
  OBVIOUS
<1>2. /\ DOMAIN packets = DOMAIN s.packets \cup {p} /\ packets[p] = packet
      /\ \A q \in DOMAIN s.packets : q # p => packets[q] = s.packets[q]
      /\ packets = [q \in DOMAIN s.packets \cup {p} |-> packets[q]]
  BY DEF Added
<1>3. /\ DOMAIN u = Fields /\ Frame(s, u) /\ u.packets = packets /\ u.queue = s.queue
      /\ u.nextTimer = s.nextTimer /\ u.nextResendTimer = s.nextResendTimer
  BY DEF Running, Fields, Frame, SameTable, SameClock, Created
<1> HIDE DEF u, packets
<1>4. /\ s.queue \in Seq(Packets) /\ DOMAIN s.packets \subseteq Packets
      /\ s.packets \in [DOMAIN s.packets -> PacketType]
      /\ \A k \in 1..Len(s.queue) : s.queue[k] \in DOMAIN s.packets /\ s.queue[k] # p
  BY DEF Running, Queued
<1>5. \A k \in 1..Len(s.queue) : packets[s.queue[k]] = s.packets[s.queue[k]]
  BY <1>2, <1>4
<1>6. packets \in [DOMAIN packets -> PacketType]
  <2>1. \A q \in DOMAIN packets : packets[q] \in PacketType
    BY <1>2, <1>4
  <2>2. packets = [q \in DOMAIN packets |-> packets[q]]
    BY <1>2
  <2> QED
    BY <2>1, <2>2
<1>7. Queued(u)
  <2>1. DOMAIN u.packets \subseteq Packets /\ u.queue \in Seq(Packets)
    BY <1>2, <1>3, <1>4
  <2>2. \A k \in 1..Len(u.queue) : u.queue[k] \in DOMAIN u.packets
    BY <1>2, <1>3, <1>4
  <2>3. \A j, k \in 1..Len(u.queue) :
           j <= k => u.packets[u.queue[j]].resendTimer <= u.packets[u.queue[k]].resendTimer
    BY <1>3, <1>5 DEF Running, Queued
  <2>4. /\ \A j, k \in 1..Len(u.queue) : u.queue[j] = u.queue[k] => j = k
        /\ u.nextResendTimer = IF u.queue = <<>> THEN NoTimer ELSE u.queue[1]
    BY <1>3 DEF Running, Queued
  <2> QED
    BY <1>3, <1>6, <2>1, <2>2, <2>3, <2>4 DEF Queued
<1>8. TimersOf(u) = TimersOf(s)
  BY <1>3 DEF TimersOf, Frame, SameClock
<1>9. Running(u)
  BY <1>3, <1>7, <1>8 DEF Running, Clocked, Frame, SameClock
<1>10. \A timer \in TimersOf(s) : TimeLeft(u, timer) = TimeLeft(s, timer)
  <2> SUFFICES ASSUME NEW timer \in TimersOf(s) PROVE TimeLeft(u, timer) = TimeLeft(s, timer)
    OBVIOUS
  <2>1. CASE timer \in {PingTimer, DropTimer}
    BY <1>3, <2>1 DEF TimeLeft, Frame, SameClock
  <2>2. CASE timer \notin {PingTimer, DropTimer}
    <3>1. timer \in DOMAIN s.packets
      BY <2>2, EnabledTimers
    <3>2. TimeLeft(u, timer) = u.packets[timer].resendTimer
          /\ TimeLeft(s, timer) = s.packets[timer].resendTimer
      BY <2>2 DEF TimeLeft
    <3> QED
      BY <1>2, <1>3, <3>1, <3>2
  <2> QED
    BY <2>1, <2>2
<1>11. NearestIn(s) => NearestIn(u)
  BY <1>3, <1>8, <1>10, EnabledTimers DEF NearestIn
<1>12. p \in DOMAIN u.packets /\ p \notin Contents(u.queue)
  BY <1>2, <1>3, <1>4 DEF Contents
<1>13. /\ Running(t) /\ Frame(u, t)
       /\ Contents(t.queue) = Contents(u.queue) \cup {p} /\ t.queue # <<>>
       /\ DOMAIN t.packets = DOMAIN u.packets
       /\ NearestIn(u) => NearestIn(t)
       /\ FirstKept(u, t)
  BY ONLY <1>1, <1>9, <1>12, SendPacketRuns
<1>14. DOMAIN t.packets = DOMAIN s.packets \cup {p}
  BY <1>2, <1>3, <1>13
<1>15. Frame(s, t)
  BY <1>3, <1>13 DEF Frame, SameTable, SameClock
<1>16. FirstKept(s, t)
  <2>1. s.queue # <<>> => u.packets[s.queue[1]] = s.packets[s.queue[1]]
    BY <1>3, <1>4, <1>5
  <2> QED
    BY ONLY <1>3, <1>13, <2>1 DEF FirstKept
<1> QED
  BY <1>3, <1>11, <1>13, <1>14, <1>15, <1>16

\* A packet is sent again.
LEMMA RepeatPacketRuns ==
    ASSUME NEW s, Running(s), NEW p \in Contents(s.queue), s.packets[p].remainingResends > 0,
           NEW t, t = SendPacket(DequeuePacket([s EXCEPT !.packets[p].remainingResends = @ - 1], p), p)
    PROVE  /\ Running(t) /\ Frame(s, t) /\ (NearestIn(s) => NearestIn(t))
           /\ Contents(t.queue) = Contents(s.queue)
           /\ DOMAIN t.packets = DOMAIN s.packets
<1> DEFINE packets == [s.packets EXCEPT ![p].remainingResends = @ - 1]
           u == [s EXCEPT !.packets[p].remainingResends = @ - 1]
           v == DequeuePacket(u, p)
<1>1. /\ s.packets \in [DOMAIN s.packets -> PacketType] /\ p \in DOMAIN s.packets
      /\ s.queue \in Seq(Packets)
  BY DEF Running, Queued, Contents
<1>2. /\ packets \in [DOMAIN s.packets -> PacketType]
      /\ \A q \in DOMAIN s.packets : packets[q].resendTimer = s.packets[q].resendTimer
  <2>1. s.packets[p] \in PacketType
    BY <1>1
  <2>2. s.packets[p].remainingResends - 1 \in 0..Resends + ResendsClosing
    BY <2>1, Intervals DEF PacketType
  <2>3. /\ [s.packets[p] EXCEPT !.remainingResends = @ - 1] \in PacketType
        /\ [s.packets[p] EXCEPT !.remainingResends = @ - 1].resendTimer = s.packets[p].resendTimer
    BY <2>1, <2>2 DEF PacketType
  <2>4. packets = [s.packets EXCEPT ![p] = [s.packets[p] EXCEPT !.remainingResends = @ - 1]]
    OBVIOUS
  <2> HIDE DEF packets
  <2> QED
    BY <1>1, <2>3, <2>4
<1>3. u = [s EXCEPT !.packets = packets]
  OBVIOUS
<1>4. t = SendPacket(v, p)
  OBVIOUS
<1> HIDE DEF packets, u
<1>5. /\ Running(u) /\ Frame(s, u) /\ (NearestIn(s) => NearestIn(u))
      /\ u.packets = packets /\ u.queue = s.queue
  BY <1>2, <1>3, MarkedRuns
<1>6. /\ Running(v) /\ Frame(u, v) /\ (NearestIn(u) => NearestIn(v))
      /\ Contents(v.queue) = Contents(u.queue) \ {p}
      /\ DOMAIN v.packets = DOMAIN u.packets
  BY <1>5, DequeuePacketRuns
<1> HIDE DEF v
<1>7. p \in DOMAIN v.packets /\ p \notin Contents(v.queue)
  BY <1>1, <1>2, <1>5, <1>6
<1>8. /\ Running(t) /\ Frame(v, t) /\ Contents(t.queue) = Contents(v.queue) \cup {p}
      /\ DOMAIN t.packets = DOMAIN v.packets
      /\ NearestIn(v) => NearestIn(t)
  BY ONLY <1>4, <1>6, <1>7, SendPacketRuns
<1>9. Contents(t.queue) = Contents(s.queue)
  BY <1>5, <1>6, <1>8
<1>10. DOMAIN t.packets = DOMAIN s.packets
  BY <1>2, <1>5, <1>6, <1>8
<1> QED
  BY <1>5, <1>6, <1>8, <1>9, <1>10 DEF Frame, SameTable, SameClock

\* The sessions, if one has another local queue.
Relocated(sessions, id, local) == [sessions EXCEPT ![id].local = local]

\* Nothing else of the sessions changes.
LEMMA RelocatedFacts ==
    ASSUME NEW ids, NEW sessions \in [ids -> SessionType], NEW id \in ids,
           NEW local \in Seq(Packets), NEW new, new = Relocated(sessions, id, local)
    PROVE  /\ new \in [ids -> SessionType] /\ new[id].local = local
           /\ \A i \in ids : i # id => new[i] = sessions[i]
           /\ new[id].handshakeId = sessions[id].handshakeId
           /\ new[id].closed = sessions[id].closed
           /\ new[id].remoteId = sessions[id].remoteId
<1> DEFINE session == [sessions[id] EXCEPT !.local = local]
<1>1. new = [sessions EXCEPT ![id] = session]
  BY DEF Relocated
<1>2. /\ session \in SessionType /\ session.local = local
      /\ session.handshakeId = sessions[id].handshakeId
      /\ session.closed = sessions[id].closed /\ session.remoteId = sessions[id].remoteId
  BY DEF SessionType
<1> HIDE DEF session
<1> QED
  BY <1>1, <1>2

\* Only the last local queue counts.
LEMMA RelocatedTwice ==
    ASSUME NEW ids, NEW sessions \in [ids -> SessionType], NEW id \in ids, NEW a, NEW b
    PROVE  Relocated(Relocated(sessions, id, a), id, b) = Relocated(sessions, id, b)
<1>1. Relocated(sessions, id, a) = [sessions EXCEPT ![id] = [sessions[id] EXCEPT !.local = a]]
  BY DEF Relocated
<1> DEFINE first == [sessions[id] EXCEPT !.local = a]
<1>2. Relocated([sessions EXCEPT ![id] = first], id, b)
        = [sessions EXCEPT ![id] = [first EXCEPT !.local = b]]
  BY DEF Relocated
<1>3. [first EXCEPT !.local = b] = [sessions[id] EXCEPT !.local = b]
  BY DEF SessionType
<1>4. Relocated(sessions, id, b) = [sessions EXCEPT ![id] = [sessions[id] EXCEPT !.local = b]]
  BY DEF Relocated
<1> QED
  BY <1>1, <1>2, <1>3, <1>4

\* The table, the broadcast list and the timers but those of packets are left alone, and
\* the next timer stays the nearest.
Kept(s, t) ==
    /\ SameTable(s, t) /\ SameClock(s, t) /\ t.broadcast = s.broadcast
    /\ NearestIn(s) => NearestIn(t)

\* Two operations that keep the rest keep it together.
LEMMA KeptTwice ==
    ASSUME NEW r, NEW s, NEW t, Kept(r, s), Kept(s, t) PROVE Kept(r, t)
BY DEF Kept, SameTable, SameClock

\* The oldest packet of a session is freed.
LEMMA AcknowledgeNextOwned ==
    ASSUME NEW s, Owned(s), NEW id \in DOMAIN s.sessions, s.sessions[id].local # <<>>,
           NEW t, t = AcknowledgeNextPacket(s, id)
    PROVE  /\ Owned(t) /\ Kept(s, t)
           /\ t.sessions = Relocated(s.sessions, id, Tail(s.sessions[id].local))
<1> DEFINE local == s.sessions[id].local
           rest == Tail(local)
           p == Head(local)
           u == [s EXCEPT !.sessions[id].local = Tail(@)]
           sessions == Relocated(s.sessions, id, rest)
<1>1. /\ Running(s) /\ s.sessions \in [DOMAIN s.sessions -> SessionType]
      /\ DOMAIN s.sessions \subseteq SessionIds /\ LocalOf(s, id)
      /\ DOMAIN s.packets = Contents(s.queue)
  BY DEF Owned
<1>2. /\ local \in Seq(Packets) /\ local # <<>>
      /\ \A k \in 1..Len(local) : local[k] \in DOMAIN s.packets /\ local[k][1] = id
      /\ \A j, k \in 1..Len(local) : local[j] = local[k] => j = k
  BY <1>1 DEF SessionType, LocalOf
<1>3. Len(local) \in Nat /\ 1 \in 1..Len(local) /\ p = local[1]
  BY <1>2
<1>4. /\ rest \in Seq(Packets) /\ Len(rest) = Len(local) - 1
      /\ \A k \in 1..Len(local) - 1 : rest[k] = local[k + 1]
  BY <1>2
<1>5. /\ DOMAIN u = Fields /\ u.sessions = sessions /\ SameQueue(s, u) /\ SameClock(s, u)
      /\ SameTable(s, u) /\ u.broadcast = s.broadcast
  BY <1>1 DEF Running, Fields, SameQueue, SameClock, SameTable, Relocated
<1>6. t = ReleasePacket(u, p)
  BY DEF AcknowledgeNextPacket
<1> HIDE DEF u, rest, local, sessions, p
<1>7. /\ sessions \in [DOMAIN s.sessions -> SessionType] /\ sessions[id].local = rest
      /\ \A i \in DOMAIN s.sessions : i # id => sessions[i] = s.sessions[i]
  BY ONLY id \in DOMAIN s.sessions, <1>1, <1>4, RelocatedFacts DEF sessions
<1>8. Running(u) /\ (NearestIn(s) => NearestIn(u))
  BY <1>1, <1>5, RunsWithout
<1>9. p \in DOMAIN u.packets /\ DOMAIN u.packets = Contents(u.queue) /\ u.packets = s.packets
  BY <1>1, <1>2, <1>3, <1>5 DEF SameQueue
<1>10. /\ Running(t) /\ Frame(u, t) /\ (NearestIn(u) => NearestIn(t))
       /\ DOMAIN t.packets = DOMAIN s.packets \ {p}
       /\ DOMAIN t.packets = Contents(t.queue)
  BY <1>6, <1>8, <1>9, ReleasePacketRuns
<1>11. t.sessions = sessions
  BY <1>5, <1>10 DEF Frame
<1>12. p[1] = id
  BY <1>2, <1>3
<1>13. ASSUME NEW i \in DOMAIN t.sessions PROVE LocalOf(t, i)
  <2>1. CASE i = id
    <3>1. t.sessions[i].local = rest
      BY <1>7, <1>11, <2>1
    <3>2. ASSUME NEW k \in 1..Len(rest)
          PROVE  rest[k] \in DOMAIN t.packets /\ rest[k][1] = i
      <4>1. k + 1 \in 1..Len(local) /\ k + 1 # 1 /\ rest[k] = local[k + 1]
        BY <1>3, <1>4
      <4>2. local[k + 1] # p
        BY <1>2, <1>3, <4>1
      <4> QED
        BY <1>2, <1>10, <2>1, <4>1, <4>2
    <3>3. ASSUME NEW j \in 1..Len(rest), NEW k \in 1..Len(rest),
                 rest[j] = rest[k]
          PROVE  j = k
      <4>1. /\ k + 1 \in 1..Len(local) /\ rest[k] = local[k + 1]
            /\ j + 1 \in 1..Len(local) /\ rest[j] = local[j + 1]
        BY <1>3, <1>4
      <4>2. j + 1 = k + 1
        BY <1>2, <3>3, <4>1
      <4> QED
        BY <4>2
    <3> QED
      BY <3>1, <3>2, <3>3 DEF LocalOf
  <2>2. CASE i # id
    <3>1. t.sessions[i] = s.sessions[i] /\ i \in DOMAIN s.sessions
      BY <1>7, <1>11, <2>2
    <3>2. LocalOf(s, i)
      BY <3>1 DEF Owned
    <3> QED
      BY <1>10, <1>12, <2>2, <3>1, <3>2 DEF LocalOf
  <2> QED
    BY <2>1, <2>2
<1>14. ASSUME NEW q \in DOMAIN t.packets
       PROVE  q[1] \in DOMAIN t.sessions /\ q \in Contents(t.sessions[q[1]].local)
  <2>1. q # p /\ q[1] \in DOMAIN s.sessions /\ q \in Contents(s.sessions[q[1]].local)
    BY <1>10 DEF Owned
  <2>2. q[1] \in DOMAIN t.sessions
    BY <1>7, <1>11, <2>1
  <2>3. CASE q[1] # id
    BY <1>7, <1>11, <2>1, <2>2, <2>3
  <2>4. CASE q[1] = id
    <3>1. PICK k \in 1..Len(local) : q = local[k]
      BY <2>1, <2>4 DEF Contents, local
    <3>2. k # 1
      BY <1>3, <2>1, <3>1
    <3>3. k - 1 \in 1..Len(local) - 1 /\ k - 1 + 1 = k
      BY <1>3, <3>2
    <3>4. q = rest[k - 1]
      BY <1>4, <3>1, <3>3
    <3> QED
      BY <1>4, <1>7, <1>11, <2>2, <2>4, <3>3, <3>4 DEF Contents
  <2> QED
    BY <2>3, <2>4
<1>15. Owned(t)
  <2>1. t.sessions \in [DOMAIN t.sessions -> SessionType] /\ DOMAIN t.sessions \subseteq SessionIds
    BY <1>1, <1>7, <1>11
  <2> QED
    BY <1>10, <1>13, <1>14, <2>1 DEF Owned
<1>16. Kept(s, t)
  BY <1>5, <1>8, <1>10 DEF Kept, Frame, SameTable, SameClock
<1> QED
  BY <1>11, <1>15, <1>16 DEF sessions, rest, local

\* A packet is sent for the first time.
LEMMA SendNewOwned ==
    ASSUME NEW s, Owned(s), NEW id \in DOMAIN s.sessions, NEW p \in Packets, p[1] = id,
           p \notin DOMAIN s.packets, NEW resends \in 0..Resends + ResendsClosing,
           NEW last \in BOOLEAN, NEW t, t = SendNewPacket(s, p, resends, last)
    PROVE  /\ Owned(t) /\ Kept(s, t) /\ t.queue # <<>>
           /\ t.sessions = Relocated(s.sessions, id, Append(s.sessions[id].local, p))
           /\ DOMAIN t.packets = DOMAIN s.packets \cup {p}
           /\ FirstKept(s, t)
<1> DEFINE local == s.sessions[id].local
           packet == [remainingResends |-> resends, lastInChunk |-> last, resendTimer |-> 0]
           more == Append(local, p)
           sessions == Relocated(s.sessions, id, more)
           r == [s EXCEPT !.sessions = sessions]
           u == Created(r, p, packet)
<1>1. /\ Running(s) /\ s.sessions \in [DOMAIN s.sessions -> SessionType]
      /\ DOMAIN s.sessions \subseteq SessionIds /\ LocalOf(s, id)
      /\ DOMAIN s.packets = Contents(s.queue)
  BY DEF Owned
<1>2. /\ local \in Seq(Packets)
      /\ \A k \in 1..Len(local) : local[k] \in DOMAIN s.packets /\ local[k][1] = id
      /\ \A j, k \in 1..Len(local) : local[j] = local[k] => j = k
  BY <1>1 DEF SessionType, LocalOf
<1>3. packet \in PacketType
  BY Intervals DEF PacketType
<1>4. t = SendPacket(u, p)
  <2>1. u = [s EXCEPT !.packets = Added(@, p, packet),
                      !.sessions[p[1]].local = Append(@, p)]
    BY <1>1 DEF Running, Fields, Relocated, Created
  <2> QED
    BY <2>1 DEF SendNewPacket
<1>5. /\ DOMAIN r = Fields /\ r.sessions = sessions /\ SameQueue(s, r) /\ SameClock(s, r)
      /\ SameTable(s, r) /\ r.broadcast = s.broadcast
  BY <1>1 DEF Running, Fields, SameQueue, SameClock, SameTable
<1>6. u = Created(r, p, packet)
  OBVIOUS
<1> HIDE DEF u, r, packet, sessions, more, local
<1>7. Running(r) /\ (NearestIn(s) => NearestIn(r))
  BY <1>1, <1>5, RunsWithout
<1>8. p \notin DOMAIN r.packets
  BY <1>5 DEF SameQueue
<1>9. /\ Running(t) /\ Frame(r, t) /\ (NearestIn(r) => NearestIn(t))
      /\ Contents(t.queue) = Contents(r.queue) \cup {p} /\ t.queue # <<>>
      /\ DOMAIN t.packets = DOMAIN r.packets \cup {p}
      /\ FirstKept(r, t)
  BY <1>6, <1>3, <1>4, <1>7, <1>8, CreatePacketRuns
<1>10. /\ more \in Seq(Packets) /\ Len(more) = Len(local) + 1
      /\ more[Len(local) + 1] = p /\ Len(local) \in Nat
      /\ \A k \in 1..Len(local) : more[k] = local[k]
  BY <1>2 DEF more
<1>11. /\ sessions \in [DOMAIN s.sessions -> SessionType] /\ sessions[id].local = more
       /\ \A i \in DOMAIN s.sessions : i # id => sessions[i] = s.sessions[i]
  BY ONLY SMTT(30), id \in DOMAIN s.sessions, <1>1, <1>10, RelocatedFacts DEF sessions
<1>12. t.sessions = sessions /\ DOMAIN t.packets = DOMAIN s.packets \cup {p}
       /\ DOMAIN t.packets = Contents(t.queue)
  BY <1>1, <1>5, <1>9 DEF Frame, SameQueue
<1>13. ASSUME NEW i \in DOMAIN t.sessions PROVE LocalOf(t, i)
  <2>1. CASE i = id
    <3>1. t.sessions[i].local = more
      BY <1>11, <1>12, <2>1
    <3>2. ASSUME NEW k \in 1..Len(more)
          PROVE  more[k] \in DOMAIN t.packets /\ more[k][1] = i
      <4>1. k \in 1..Len(local) \/ k = Len(local) + 1
        BY <1>10
      <4> QED
        BY <1>2, <1>10, <1>12, <2>1, <4>1
    <3>3. ASSUME NEW j \in 1..Len(more), NEW k \in 1..Len(more), more[j] = more[k]
          PROVE  j = k
      <4>1. /\ k \in 1..Len(local) \/ k = Len(local) + 1
            /\ j \in 1..Len(local) \/ j = Len(local) + 1
        BY <1>10
      <4> QED
        BY <1>2, <1>10, <3>3, <4>1
    <3> QED
      BY <3>1, <3>2, <3>3 DEF LocalOf
  <2>2. CASE i # id
    <3>1. t.sessions[i] = s.sessions[i] /\ i \in DOMAIN s.sessions
      BY <1>11, <1>12, <2>2
    <3>2. LocalOf(s, i)
      BY <3>1 DEF Owned
    <3> QED
      BY <1>12, <3>1, <3>2 DEF LocalOf
  <2> QED
    BY <2>1, <2>2
<1>14. ASSUME NEW q \in DOMAIN t.packets
       PROVE  q[1] \in DOMAIN t.sessions /\ q \in Contents(t.sessions[q[1]].local)
  <2>1. CASE q = p
    <3>1. Len(local) + 1 \in 1..Len(more) /\ more[Len(local) + 1] = p
      BY <1>10
    <3> QED
      BY <1>11, <1>12, <2>1, <3>1 DEF Contents
  <2>2. CASE q # p
    <3>1. q[1] \in DOMAIN s.sessions /\ q \in Contents(s.sessions[q[1]].local)
      BY <1>12, <2>2 DEF Owned
    <3>2. CASE q[1] # id
      BY <1>11, <1>12, <3>1, <3>2
    <3>3. CASE q[1] = id
      <4>1. PICK k \in 1..Len(local) : q = local[k]
        BY <3>1, <3>3 DEF Contents, local
      <4>2. k \in 1..Len(more) /\ q = more[k]
        BY <1>10, <4>1
      <4> QED
        BY <1>11, <1>12, <3>3, <4>2 DEF Contents
    <3> QED
      BY <3>2, <3>3
  <2> QED
    BY <2>1, <2>2
<1>15. Owned(t)
  <2>1. t.sessions \in [DOMAIN t.sessions -> SessionType] /\ DOMAIN t.sessions \subseteq SessionIds
    BY <1>1, <1>11, <1>12
  <2> QED
    BY <1>9, <1>12, <1>13, <1>14, <2>1 DEF Owned
<1>16. Kept(s, t)
  BY <1>5, <1>7, <1>9 DEF Kept, Frame, SameTable, SameClock
<1>17. FirstKept(s, t)
  BY ONLY <1>5, <1>9 DEF SameQueue, FirstKept
<1> QED
  BY <1>9, <1>12, <1>15, <1>16, <1>17 DEF sessions, more, local

\* A packet is sent again.
LEMMA RepeatOwned ==
    ASSUME NEW s, Owned(s), NEW p \in DOMAIN s.packets, s.packets[p].remainingResends > 0,
           NEW t, t = ResendPacket(s, p)
    PROVE  Owned(t) /\ Kept(s, t) /\ t.sessions = s.sessions /\ DOMAIN t.packets = DOMAIN s.packets
<1>1. Running(s) /\ p \in Contents(s.queue)
  BY DEF Owned
<1>2. t = SendPacket(DequeuePacket([s EXCEPT !.packets[p].remainingResends = @ - 1], p), p)
  BY DEF ResendPacket
<1>3. /\ Running(t) /\ Frame(s, t) /\ (NearestIn(s) => NearestIn(t))
      /\ Contents(t.queue) = Contents(s.queue)
      /\ DOMAIN t.packets = DOMAIN s.packets
  BY <1>1, <1>2, RepeatPacketRuns
<1>4. t.sessions = s.sessions
  BY <1>3 DEF Frame
<1>5. \A id \in DOMAIN t.sessions : LocalOf(t, id)
  BY <1>3, <1>4 DEF Owned, LocalOf
<1>6. Owned(t)
  BY <1>3, <1>4, <1>5 DEF Owned
<1> QED
  BY <1>3, <1>4, <1>6 DEF Kept, Frame

\* A session that is given the queue it has stays as it is.
LEMMA RelocatedSame ==
    ASSUME NEW ids, NEW sessions \in [ids -> SessionType], NEW id \in ids
    PROVE  Relocated(sessions, id, sessions[id].local) = sessions
<1> DEFINE session == [sessions[id] EXCEPT !.local = sessions[id].local]
<1>1. session = sessions[id]
  BY DEF SessionType
<1>2. Relocated(sessions, id, sessions[id].local) = [sessions EXCEPT ![id] = session]
  BY DEF Relocated
<1> HIDE DEF session
<1> QED
  BY <1>1, <1>2

\* The rest of a list, and of that.
LEMMA RestFacts ==
    ASSUME NEW S, NEW list \in Seq(S), NEW n, n = Len(list)
    PROVE  /\ SubSeq(list, 1, n) = list /\ n \in Nat
           /\ SubSeq(list, n + 1, n) = <<>>
           /\ \A m \in Nat : m < n => /\ SubSeq(list, m + 1, n) # <<>>
                                      /\ Tail(SubSeq(list, m + 1, n)) = SubSeq(list, m + 2, n)
<1>1. n \in Nat
  OBVIOUS
<1>2. SubSeq(list, 1, n) = list
  OBVIOUS
<1>3. SubSeq(list, n + 1, n) = <<>>
  BY <1>1
<1>4. ASSUME NEW m \in Nat, m < n
      PROVE  /\ SubSeq(list, m + 1, n) # <<>>
             /\ Tail(SubSeq(list, m + 1, n)) = SubSeq(list, m + 2, n)
  <2> DEFINE a == SubSeq(list, m + 1, n)
             b == SubSeq(list, m + 2, n)
  <2>1. a \in Seq(S) /\ Len(a) = n - m /\ \A k \in 1..n - m : a[k] = list[k + m]
    BY <1>1, <1>4
  <2>2. b \in Seq(S) /\ Len(b) = n - m - 1 /\ \A k \in 1..n - m - 1 : b[k] = list[k + (m + 1)]
    BY <1>1, <1>4
  <2> HIDE DEF a, b
  <2>3. a # <<>>
    BY <1>1, <1>4, <2>1
  <2>4. /\ Tail(a) \in Seq(S) /\ Len(Tail(a)) = n - m - 1
        /\ \A k \in 1..n - m - 1 : Tail(a)[k] = a[k + 1]
    <3> DEFINE l == Len(a)
    <3>1. /\ l \in Nat /\ Tail(a) \in Seq(S) /\ Len(Tail(a)) = l - 1
          /\ \A k \in 1..l - 1 : Tail(a)[k] = a[k + 1]
      BY <2>1, <2>3
    <3>2. l = n - m
      BY <2>1
    <3> QED
      BY <3>1, <3>2
  <2>5. \A k \in 1..n - m - 1 : Tail(a)[k] = b[k]
    <3> TAKE k \in 1..n - m - 1
    <3>1. k + 1 \in 1..n - m /\ (k + 1) + m = k + (m + 1)
      BY <1>1, <1>4
    <3> QED
      BY <2>1, <2>2, <2>4, <3>1
  <2>6. Tail(a) = b
    BY <2>2, <2>4, <2>5
  <2> QED
    BY <2>3, <2>6 DEF a, b
<1> QED
  BY <1>1, <1>2, <1>3, <1>4

\* Packet after packet.
LEMMA AcknowledgedSteps ==
    ASSUME NEW s, NEW id, NEW count \in Nat, NEW t, t = Acknowledged(s, id, count)
    PROVE  \E f : /\ f[0] = s /\ f[count] = t
                  /\ \A k \in 1..count : f[k] = AcknowledgeNextPacket(f[k - 1], id)
<1> DEFINE Step(f, m) == [k \in 0..m |-> IF k = 0 THEN s ELSE AcknowledgeNextPacket(f[k - 1], id)]
           after == CHOOSE f : f = Step(f, count)
<1>1. \E f : f = Step(f, count)
  <2> DEFINE S == {m \in Nat : \E f : f = Step(f, m)}
  <2>1. 0 \in S
    <3>1. [k \in 0..0 |-> s] = Step([k \in 0..0 |-> s], 0)
      OBVIOUS
    <3> QED
      BY <3>1
  <2>2. ASSUME NEW m \in Nat, m \in S PROVE m + 1 \in S
    <3>1. PICK f : f = Step(f, m)
      BY <2>2
    <3> DEFINE g == [k \in 0..m + 1 |-> IF k = 0 THEN s ELSE AcknowledgeNextPacket(f[k - 1], id)]
    <3>2. \A k \in 0..m : f[k] = g[k]
      BY <3>1
    <3>3. \A k \in 0..m + 1 : g[k] = Step(g, m + 1)[k]
      <4> TAKE k \in 0..m + 1
      <4>1. CASE k = 0
        BY <4>1
      <4>2. CASE k # 0
        <5>1. k - 1 \in 0..m
          BY <4>2
        <5> QED
          BY <3>2, <4>2, <5>1
      <4> QED
        BY <4>1, <4>2
    <3>4. g = Step(g, m + 1)
      BY <3>3
    <3> HIDE DEF g, Step
    <3> QED
      BY <3>4
  <2>3. Nat \subseteq S
    <3> HIDE DEF S
    <3> QED
      BY <2>1, <2>2, NatInductionSet
  <2> QED
    BY <2>3
<1>2. after = Step(after, count)
  <2> HIDE DEF Step
  <2> QED
    BY <1>1
<1>3. t = after[count]
  BY DEF Acknowledged
<1> HIDE DEF after
<1>4. ASSUME NEW k \in 0..count
      PROVE  after[k] = IF k = 0 THEN s ELSE AcknowledgeNextPacket(after[k - 1], id)
  BY <1>2, Zenon
<1>5. after[0] = s
  BY <1>4
<1>6. ASSUME NEW k \in 1..count PROVE after[k] = AcknowledgeNextPacket(after[k - 1], id)
  <2>1. k \in 0..count /\ k # 0
    OBVIOUS
  <2> QED
    BY <1>4, <2>1, Zenon
<1> QED
  BY <1>3, <1>5, <1>6

\* A number of the oldest packets of a session are freed.
LEMMA AcknowledgedOwned ==
    ASSUME NEW s, Owned(s), NEW id \in DOMAIN s.sessions, NEW local, local = s.sessions[id].local,
           NEW count \in 0..Len(local), NEW t, t = Acknowledged(s, id, count)
    PROVE  /\ Owned(t) /\ Kept(s, t)
           /\ t.sessions = Relocated(s.sessions, id, SubSeq(local, count + 1, Len(local)))
<1> DEFINE n == Len(local)
           rest(m) == SubSeq(local, m + 1, n)
<1>1. local \in Seq(Packets) /\ s.sessions \in [DOMAIN s.sessions -> SessionType]
  BY DEF Owned, SessionType
<1>2. /\ rest(0) = local /\ n \in Nat
      /\ \A m \in Nat : m < n => rest(m) # <<>> /\ Tail(rest(m)) = rest(m + 1)
  <2> HIDE DEF n
  <2>1. /\ SubSeq(local, 1, n) = local /\ n \in Nat
        /\ \A m \in Nat : m < n => /\ SubSeq(local, m + 1, n) # <<>>
                                   /\ Tail(SubSeq(local, m + 1, n)) = SubSeq(local, m + 2, n)
    <3>1. n = Len(local)
      BY DEF n
    <3> QED
      BY ONLY <1>1, <3>1, RestFacts
  <2>2. ASSUME NEW m \in Nat, m < n
        PROVE  rest(m) # <<>> /\ Tail(rest(m)) = rest(m + 1)
    <3>1. (m + 1) + 1 = m + 2
      OBVIOUS
    <3>2. rest(m + 1) = SubSeq(local, m + 2, n)
      BY <3>1
    <3> QED
      BY <2>1, <2>2, <3>2
  <2>3. rest(0) = local
    BY <2>1
  <2> QED
    BY <2>1, <2>2, <2>3
<1>3. count \in Nat /\ count <= n
  BY <1>2
<1>4. \A m \in Nat : m <= n => rest(m) \in Seq(Packets)
  BY <1>1, <1>2
<1> HIDE DEF rest, n
<1>5. PICK f : /\ f[0] = s /\ f[count] = t
               /\ \A k \in 1..count : f[k] = AcknowledgeNextPacket(f[k - 1], id)
  BY <1>3, AcknowledgedSteps
<1> DEFINE Done(v, m) == Owned(v) /\ Kept(s, v) /\ v.sessions = Relocated(s.sessions, id, rest(m))
           S == {m \in Nat : m <= count => Done(f[m], m)}
<1>6. 0 \in S
  <2>1. Kept(s, s)
    BY DEF Kept, SameTable, SameClock
  <2>2. Relocated(s.sessions, id, rest(0)) = s.sessions
    BY <1>1, <1>2, RelocatedSame
  <2> QED
    BY <1>5, <2>1, <2>2
<1>7. ASSUME NEW m \in Nat, m \in S PROVE m + 1 \in S
  <2> SUFFICES ASSUME m + 1 <= count PROVE Done(f[m + 1], m + 1)
    OBVIOUS
  <2>1. m + 1 \in 1..count /\ (m + 1) - 1 = m /\ m <= count /\ m < n /\ m + 1 <= n /\ m <= n
    BY <1>2, <1>3
  <2> DEFINE v == f[m]
             w == f[m + 1]
  <2>2. Done(v, m) /\ w = AcknowledgeNextPacket(v, id)
    BY <1>5, <1>7, <2>1
  <2> HIDE DEF v, w
  <2>3. /\ v.sessions \in [DOMAIN s.sessions -> SessionType] /\ v.sessions[id].local = rest(m)
        /\ DOMAIN v.sessions = DOMAIN s.sessions
    <3>1. rest(m) \in Seq(Packets)
      BY <1>4, <2>1
    <3>2. v.sessions = Relocated(s.sessions, id, rest(m))
      BY <2>2
    <3>3. /\ v.sessions \in [DOMAIN s.sessions -> SessionType]
          /\ v.sessions[id].local = rest(m)
      BY ONLY SMTT(30), id \in DOMAIN s.sessions, <1>1, <3>1, <3>2, RelocatedFacts
    <3> QED
      BY <3>3
  <2>4. rest(m) # <<>> /\ Tail(rest(m)) = rest(m + 1)
    BY <1>2, <2>1
  <2>5. /\ Owned(w) /\ Kept(v, w)
        /\ w.sessions = Relocated(v.sessions, id, Tail(v.sessions[id].local))
    BY <2>2, <2>3, <2>4, AcknowledgeNextOwned
  <2>6. w.sessions = Relocated(s.sessions, id, rest(m + 1))
    <3>1. w.sessions = Relocated(v.sessions, id, rest(m + 1))
      BY <2>3, <2>4, <2>5
    <3>2. v.sessions = Relocated(s.sessions, id, rest(m))
      BY <2>2
    <3>3. Relocated(Relocated(s.sessions, id, rest(m)), id, rest(m + 1))
            = Relocated(s.sessions, id, rest(m + 1))
      BY <1>1, RelocatedTwice
    <3> QED
      BY <3>1, <3>2, <3>3
  <2>7. Kept(s, w)
    BY <2>2, <2>5, KeptTwice
  <2> QED
    BY <2>5, <2>6, <2>7 DEF w
<1>8. Nat \subseteq S
  <2> HIDE DEF S
  <2> QED
    BY <1>6, <1>7, NatInductionSet
<1> QED
  BY <1>3, <1>5, <1>8 DEF rest, n

\* All packets of a session are freed.
LEMMA FlushOwned ==
    ASSUME NEW s, Owned(s), NEW id \in DOMAIN s.sessions, NEW t, t = FlushPackets(s, id)
    PROVE  /\ Owned(t) /\ Kept(s, t) /\ t.sessions = Relocated(s.sessions, id, <<>>)
<1> DEFINE local == s.sessions[id].local
           n == Len(local)
<1>1. local \in Seq(Packets)
  BY DEF Owned, SessionType
<1>2. n \in Nat /\ SubSeq(local, n + 1, n) = <<>> /\ n \in 0..n
  BY <1>1, RestFacts
<1>3. t = Acknowledged(s, id, n)
  BY DEF FlushPackets
<1> HIDE DEF local, n
<1>4. local = s.sessions[id].local /\ n = Len(local)
  BY DEF local, n
<1>5. /\ Owned(t) /\ Kept(s, t)
      /\ t.sessions = Relocated(s.sessions, id, SubSeq(local, n + 1, n))
  BY <1>2, <1>3, <1>4, AcknowledgedOwned
<1> QED
  BY <1>2, <1>5

-------------------------------------------------------------------------------
(***************************************************************************)
(* The table of sessions                                                   *)
(***************************************************************************)
Ids == RequestIds \cup SessionIds

Held(chunk) == {low \in 0..ChunkSize - 1 : chunk.sessions[low] # NoSession}

\* The fill level counts the sessions, but wraps when the chunk is full.
ChunkGood(chunk) ==
    chunk \in Chunk /\ chunk.fillLevel = Cardinality(Held(chunk)) % ChunkSize

TableGood(s) ==
    /\ s.sessionTable \in [0..SessionChunks - 1 -> Chunk \cup {NoChunk}]
    /\ s.sessionReuseChunk \in {NoChunk, EmptyChunk}
    /\ \A high \in 0..SessionChunks - 1 :
          s.sessionTable[high] # NoChunk =>
             ChunkGood(s.sessionTable[high]) /\ Held(s.sessionTable[high]) # {}

\* The sizes of the table.
LEMMA Sizes ==
    /\ ChunkSize \in Nat \ {0} /\ SessionChunks \in Nat \ {0}
    /\ Limit \in Nat \ {0} /\ 2 * Limit = ChunkSize * SessionChunks
    /\ Ids = 0..2 * Limit - 1
<1>1. ChunkSize \in Nat \ {0} /\ SessionChunks \in Nat \ {0} /\ SessionChunks % 2 = 0
  BY RelayServerAssumption
<1> DEFINE half == SessionChunks \div 2
<1>2. half \in Int /\ SessionChunks = 2 * half + 0
  BY <1>1, DivModFacts
<1>3. half \in Nat \ {0}
  BY <1>1, <1>2
<1>4. Limit = half * ChunkSize
  BY DEF Limit
<1> HIDE DEF half
<1>5. half * ChunkSize \in Nat \ {0}
  BY <1>1, <1>3
<1>6. 2 * (half * ChunkSize) = ChunkSize * (2 * half)
  BY <1>1, <1>3
<1>7. 2 * Limit = ChunkSize * SessionChunks
  BY <1>2, <1>3, <1>4, <1>6
<1>8. Ids = 0..2 * Limit - 1
  BY <1>4, <1>5 DEF Ids, RequestIds, SessionIds
<1> QED
  BY <1>1, <1>4, <1>5, <1>7, <1>8

\* An id is found in a chunk, and at a place in it, that no other id has.
LEMMA Positions ==
    /\ \A id \in Ids : High(id) \in 0..SessionChunks - 1 /\ Low(id) \in 0..ChunkSize - 1
    /\ \A i, j \in Ids : High(i) = High(j) /\ Low(i) = Low(j) => i = j
<1>1. ASSUME NEW id \in Ids
      PROVE  /\ High(id) \in 0..SessionChunks - 1 /\ Low(id) \in 0..ChunkSize - 1
             /\ id = ChunkSize * High(id) + Low(id)
  <2> DEFINE q == High(id)
             r == Low(id)
  <2>1. id \in Int /\ 0 <= id /\ id < ChunkSize * SessionChunks
    BY Sizes
  <2>2. q \in Int /\ r \in Int /\ 0 <= r /\ r < ChunkSize /\ id = ChunkSize * q + r
    BY <2>1, Sizes, DivModFacts DEF High, Low
  <2> HIDE DEF q, r
  <2>3. q >= 0
    <3>1. CASE q <= -1
      <4>1. ChunkSize * q <= -ChunkSize
        BY <2>2, <3>1, Sizes
      <4> QED
        BY <2>1, <2>2, <4>1, Sizes
    <3> QED
      BY <2>2, <3>1
  <2>4. q < SessionChunks
    <3>1. CASE q >= SessionChunks
      <4>1. ChunkSize * q >= ChunkSize * SessionChunks
        BY <2>2, <3>1, Sizes
      <4> QED
        BY <2>1, <2>2, <4>1, Sizes
    <3> QED
      BY <2>2, <3>1, Sizes
  <2> QED
    BY <2>2, <2>3, <2>4, Sizes DEF q, r
<1> QED
  BY <1>1

\* What a chunk holds is finite.
LEMMA HeldFacts ==
    ASSUME NEW chunk
    PROVE  /\ IsFiniteSet(Held(chunk)) /\ Cardinality(Held(chunk)) \in 0..ChunkSize
           /\ Cardinality(Held(chunk)) = 0 <=> Held(chunk) = {}
<1>1. /\ IsFiniteSet(0..ChunkSize - 1) /\ Cardinality(0..ChunkSize - 1) = ChunkSize
      /\ ChunkSize \in Nat \ {0}
  <2>1. 0 \in Int /\ ChunkSize - 1 \in Int /\ ChunkSize \in Nat \ {0}
    BY Sizes
  <2>2. /\ IsFiniteSet(0..ChunkSize - 1)
        /\ Cardinality(0..ChunkSize - 1)
             = IF 0 > ChunkSize - 1 THEN 0 ELSE (ChunkSize - 1) - 0 + 1
    BY <2>1, FS_Interval
  <2> QED
    BY <2>1, <2>2
<1>2. Held(chunk) \subseteq 0..ChunkSize - 1
  BY DEF Held
<1>3. /\ IsFiniteSet(Held(chunk)) /\ Cardinality(Held(chunk)) \in Nat
      /\ Cardinality(Held(chunk)) <= ChunkSize
  BY <1>1, <1>2, FS_Subset, FS_CardinalityType
<1>4. Cardinality(Held(chunk)) = 0 <=> Held(chunk) = {}
  BY <1>3, FS_EmptySet
<1> QED
  BY <1>1, <1>3, <1>4

Filled(c, low, x) == [c EXCEPT !.sessions[low] = x, !.fillLevel = (@ + 1) % ChunkSize]
Emptied(c, low)   == [c EXCEPT !.sessions[low] = NoSession, !.fillLevel = (@ - 1) % ChunkSize]

\* A session comes into a chunk,
LEMMA FilledChunk ==
    ASSUME NEW c, ChunkGood(c), NEW low \in 0..ChunkSize - 1, c.sessions[low] = NoSession,
           NEW x \in SessionIds,
           NEW d, d = Filled(c, low, x)
    PROVE  /\ ChunkGood(d) /\ Held(d) # {} /\ d.sessions[low] = x
           /\ \A l \in 0..ChunkSize - 1 : l # low => d.sessions[l] = c.sessions[l]
<1> DEFINE n == Cardinality(Held(c))
           sessions == [c.sessions EXCEPT ![low] = x]
<1>1. /\ c \in Chunk /\ c.fillLevel = n % ChunkSize
      /\ c.sessions \in [0..ChunkSize - 1 -> SessionIds \cup {NoSession}]
  BY DEF ChunkGood, Chunk
<1>2. x # NoSession
  BY NamesAssumption
<1>3. /\ sessions \in [0..ChunkSize - 1 -> SessionIds \cup {NoSession}] /\ sessions[low] = x
      /\ \A l \in 0..ChunkSize - 1 : l # low => sessions[l] = c.sessions[l]
  BY <1>1
<1>4. ChunkSize \in Nat \ {0} /\ n \in Nat
  BY Sizes, HeldFacts
<1>5. ((n % ChunkSize) + 1) % ChunkSize = (n + 1) % ChunkSize
  BY <1>4, ModPlus
<1>6. (n + 1) % ChunkSize \in 0..ChunkSize - 1
  <2>1. n + 1 \in Int
    BY <1>4
  <2> QED
    BY <1>4, <2>1, DivModFacts
<1>7. d = [c EXCEPT !.sessions = sessions, !.fillLevel = (n + 1) % ChunkSize]
  BY <1>1, <1>5 DEF Filled
<1> HIDE DEF sessions
<1>8. d \in Chunk /\ d.sessions = sessions /\ d.fillLevel = (n + 1) % ChunkSize
  BY <1>1, <1>3, <1>6, <1>7 DEF Chunk
<1>9. Held(d) = Held(c) \cup {low} /\ low \notin Held(c)
  <2>1. \A l \in 0..ChunkSize - 1 :
           d.sessions[l] # NoSession <=> l = low \/ c.sessions[l] # NoSession
    BY <1>2, <1>3, <1>8
  <2> QED
    BY <2>1 DEF Held
<1>10. Cardinality(Held(d)) = n + 1
  <2>1. IsFiniteSet(Held(c))
    BY HeldFacts
  <2> QED
    BY <1>9, <2>1, FS_AddElement
<1> QED
  BY <1>3, <1>8, <1>9, <1>10 DEF ChunkGood

\* and leaves it; a chunk whose fill level is zero then is empty, not full.
LEMMA EmptiedChunk ==
    ASSUME NEW c, ChunkGood(c), NEW low \in 0..ChunkSize - 1, c.sessions[low] # NoSession,
           NEW d, d = Emptied(c, low)
    PROVE  /\ ChunkGood(d) /\ (d.fillLevel # 0 => Held(d) # {})
           /\ d.fillLevel = 0 => Held(d) = {} /\ d = EmptyChunk
           /\ d.sessions[low] = NoSession
           /\ \A l \in 0..ChunkSize - 1 : l # low => d.sessions[l] = c.sessions[l]
<1> DEFINE n == Cardinality(Held(c))
           sessions == [c.sessions EXCEPT ![low] = NoSession]
<1>1. /\ c \in Chunk /\ c.fillLevel = n % ChunkSize
      /\ c.sessions \in [0..ChunkSize - 1 -> SessionIds \cup {NoSession}]
  BY DEF ChunkGood, Chunk
<1>2. low \in Held(c)
  BY DEF Held
<1>3. /\ sessions \in [0..ChunkSize - 1 -> SessionIds \cup {NoSession}] /\ sessions[low] = NoSession
      /\ \A l \in 0..ChunkSize - 1 : l # low => sessions[l] = c.sessions[l]
  BY <1>1
<1>4. ChunkSize \in Nat \ {0} /\ n \in 1..ChunkSize
  BY <1>2, Sizes, HeldFacts
<1>5. ((n % ChunkSize) - 1) % ChunkSize = n - 1
  <2>1. ((n % ChunkSize) + (-1)) % ChunkSize = (n + (-1)) % ChunkSize
    BY <1>4, ModPlus
  <2>2. (n % ChunkSize) + (-1) = (n % ChunkSize) - 1 /\ n + (-1) = n - 1
    BY <1>4
  <2>3. n - 1 \in Nat /\ n - 1 < ChunkSize
    BY <1>4
  <2>4. (n - 1) % ChunkSize = n - 1
    BY <1>4, <2>3, ModSmall
  <2> QED
    BY <2>1, <2>2, <2>4
<1>6. d = [c EXCEPT !.sessions = sessions, !.fillLevel = n - 1]
  BY <1>1, <1>5 DEF Emptied
<1> HIDE DEF sessions
<1>7. n - 1 \in 0..ChunkSize - 1
  BY <1>4
<1>8. d \in Chunk /\ d.sessions = sessions /\ d.fillLevel = n - 1
  BY <1>1, <1>3, <1>6, <1>7 DEF Chunk
<1>9. Held(d) = Held(c) \ {low}
  BY <1>3, <1>8 DEF Held
<1>10. Cardinality(Held(d)) = n - 1
  <2>1. IsFiniteSet(Held(c))
    BY HeldFacts
  <2> QED
    BY <1>2, <1>9, <2>1, FS_RemoveElement
<1>11. Cardinality(Held(d)) % ChunkSize = n - 1
  <2>1. n - 1 \in Nat /\ n - 1 < ChunkSize
    BY <1>4
  <2> HIDE DEF n
  <2>2. (n - 1) % ChunkSize = n - 1
    BY <1>4, <2>1, ModSmall
  <2> QED
    BY <1>10, <2>2
<1>12. Cardinality(Held(d)) = 0 <=> Held(d) = {}
  BY HeldFacts
<1>13. ASSUME d.fillLevel = 0 PROVE d = EmptyChunk
  <2>1. Held(d) = {}
    BY <1>8, <1>10, <1>12, <1>13
  <2>2. \A l \in 0..ChunkSize - 1 : sessions[l] = NoSession
    BY <1>8, <2>1 DEF Held
  <2>3. sessions = [l \in 0..ChunkSize - 1 |-> NoSession]
    BY <1>3, <2>2
  <2> QED
    BY <1>8, <1>13, <2>3 DEF Chunk, EmptyChunk
<1> QED
  BY <1>3, <1>8, <1>10, <1>11, <1>12, <1>13 DEF ChunkGood

\* An empty chunk is in order, but is not in the table.
LEMMA EmptyChunkGood ==
    ChunkGood(EmptyChunk) /\ \A low \in 0..ChunkSize - 1 : EmptyChunk.sessions[low] = NoSession
<1>1. EmptyChunk \in Chunk
  BY Sizes DEF EmptyChunk, Chunk
<1>2. Held(EmptyChunk) = {}
  BY DEF Held, EmptyChunk
<1>3. Cardinality(Held(EmptyChunk)) = 0
  BY <1>2, HeldFacts
<1>4. 0 % ChunkSize = 0
  BY Sizes, ModSmall
<1> QED
  BY <1>1, <1>3, <1>4 DEF ChunkGood, EmptyChunk

\* All but the table is left alone.
OnlyTable(s, t) ==
    /\ SameQueue(s, t) /\ SameClock(s, t)
    /\ t.lastSessionId = s.lastSessionId /\ t.connectedSessions = s.connectedSessions
    /\ t.sessions = s.sessions /\ t.broadcast = s.broadcast

\* One id leads to another session.
Entry(s, t, id, session) ==
    /\ GetSession(t, id) = session
    /\ \A i \in Ids : i # id => GetSession(t, i) = GetSession(s, i)

\* The entry of an id, and no other, is the place in the chunk.
LEMMA ChunkEntry ==
    ASSUME NEW s, TableGood(s), NEW id \in Ids, NEW c \in Chunk, NEW d \in Chunk \cup {NoChunk},
           IF s.sessionTable[High(id)] = NoChunk
           THEN \A low \in 0..ChunkSize - 1 : c.sessions[low] = NoSession
           ELSE c = s.sessionTable[High(id)],
           NEW session,
           IF d = NoChunk
           THEN /\ session = NoSession
                /\ \A l \in 0..ChunkSize - 1 : l # Low(id) => c.sessions[l] = NoSession
           ELSE /\ d.sessions[Low(id)] = session
                /\ \A l \in 0..ChunkSize - 1 : l # Low(id) => d.sessions[l] = c.sessions[l],
           NEW t, t.sessionTable = [s.sessionTable EXCEPT ![High(id)] = d]
    PROVE  Entry(s, t, id, session)
<1>1. /\ High(id) \in 0..SessionChunks - 1 /\ Low(id) \in 0..ChunkSize - 1
      /\ s.sessionTable \in [0..SessionChunks - 1 -> Chunk \cup {NoChunk}]
      /\ NoChunk \notin Chunk
  BY Positions, NamesAssumption DEF TableGood
<1>2. t.sessionTable[High(id)] = d
  BY <1>1
<1>3. \A high \in 0..SessionChunks - 1 : high # High(id) => t.sessionTable[high] = s.sessionTable[high]
  BY <1>1
<1>4. GetSession(t, id) = session
  BY <1>2 DEF GetSession
<1>5. ASSUME NEW i \in Ids, i # id PROVE GetSession(t, i) = GetSession(s, i)
  <2>1. High(i) \in 0..SessionChunks - 1 /\ Low(i) \in 0..ChunkSize - 1
    BY Positions
  <2>2. CASE High(i) # High(id)
    BY <1>3, <2>1, <2>2 DEF GetSession
  <2>3. CASE High(i) = High(id)
    <3>1. Low(i) # Low(id)
      BY <1>5, <2>3, Positions
    <3>2. GetSession(s, i) = c.sessions[Low(i)]
      BY <2>1, <2>3 DEF GetSession
    <3>3. GetSession(t, i) = IF d = NoChunk THEN NoSession ELSE d.sessions[Low(i)]
      BY <1>2, <2>3 DEF GetSession
    <3> QED
      BY <2>1, <3>1, <3>2, <3>3
  <2> QED
    BY <2>2, <2>3
<1> QED
  BY <1>4, <1>5 DEF Entry

\* An id that led to no session leads to one.
LEMMA AddSessionFacts ==
    ASSUME NEW s, DOMAIN s = Fields, TableGood(s), NEW id \in Ids,
           GetSession(s, id) = NoSession, NEW session \in SessionIds,
           NEW t, t = AddSessionToChunk(s, id, session)
    PROVE  DOMAIN t = Fields /\ TableGood(t) /\ OnlyTable(s, t) /\ Entry(s, t, id, session)
<1> DEFINE high == High(id)
           low == Low(id)
           u == CreateSessionChunk(s, high)
           c == IF s.sessionTable[high] = NoChunk THEN EmptyChunk ELSE s.sessionTable[high]
           d == Filled(c, low, session)
           table == [s.sessionTable EXCEPT ![high] = c]
           reuse == IF s.sessionTable[high] = NoChunk THEN NoChunk ELSE s.sessionReuseChunk
<1>1. /\ high \in 0..SessionChunks - 1 /\ low \in 0..ChunkSize - 1
      /\ s.sessionTable \in [0..SessionChunks - 1 -> Chunk \cup {NoChunk}]
      /\ s.sessionReuseChunk \in {NoChunk, EmptyChunk}
      /\ NoChunk \notin Chunk
  BY Positions, NamesAssumption DEF TableGood
<1>2. /\ ChunkGood(c) /\ c.sessions[low] = NoSession
      /\ IF s.sessionTable[high] = NoChunk
         THEN \A l \in 0..ChunkSize - 1 : c.sessions[l] = NoSession
         ELSE c = s.sessionTable[high]
  <2>1. CASE s.sessionTable[high] = NoChunk
    BY <1>1, <2>1, EmptyChunkGood
  <2>2. CASE s.sessionTable[high] # NoChunk
    BY <1>1, <2>2 DEF TableGood, GetSession
  <2> QED
    BY <2>1, <2>2
<1>3. /\ DOMAIN u = Fields /\ u.sessionTable = table /\ u.sessionReuseChunk = reuse
      /\ OnlyTable(s, u)
  <2>1. CASE s.sessionTable[high] = NoChunk
    <3>1. (IF s.sessionReuseChunk = NoChunk THEN EmptyChunk ELSE s.sessionReuseChunk) = EmptyChunk
      BY <1>1
    <3>2. u = [s EXCEPT !.sessionTable = table, !.sessionReuseChunk = NoChunk]
      BY <2>1, <3>1 DEF CreateSessionChunk, Fields
    <3> HIDE DEF table
    <3> QED
      BY <2>1, <3>2 DEF Fields, OnlyTable, SameQueue, SameClock
  <2>2. CASE s.sessionTable[high] # NoChunk
    <3>1. u = s
      BY <2>2 DEF CreateSessionChunk
    <3>2. table = s.sessionTable
      BY <1>1, <2>2
    <3>3. reuse = s.sessionReuseChunk
      BY <2>2
    <3> HIDE DEF u, reuse, table
    <3> QED
      BY <3>1, <3>2, <3>3 DEF OnlyTable, SameQueue, SameClock
  <2> QED
    BY <2>1, <2>2
<1>4. t = [u EXCEPT !.sessionTable[high].sessions[low] = session,
                    !.sessionTable[high].fillLevel = (@ + 1) % ChunkSize]
  BY DEF AddSessionToChunk
<1> HIDE DEF high, low, c, u, reuse
<1>5. [table EXCEPT ![high].sessions[low] = session, ![high].fillLevel = (@ + 1) % ChunkSize]
        = [s.sessionTable EXCEPT ![high] = d]
  <2>1. table[high] = c
    BY <1>1
  <2>2. c = [fillLevel |-> c.fillLevel, sessions |-> c.sessions]
    BY <1>2 DEF ChunkGood, Chunk
  <2> QED
    BY <1>1, <2>1, <2>2 DEF Filled
<1> HIDE DEF table
<1>6. t = [u EXCEPT !.sessionTable = [s.sessionTable EXCEPT ![high] = d]]
  BY <1>3, <1>4, <1>5
<1>7. d = Filled(c, low, session)
  OBVIOUS
<1> HIDE DEF d
<1>8. /\ ChunkGood(d) /\ Held(d) # {} /\ d.sessions[low] = session
      /\ \A l \in 0..ChunkSize - 1 : l # low => d.sessions[l] = c.sessions[l]
  BY <1>7, <1>1, <1>2, FilledChunk
<1>9. /\ DOMAIN t = Fields /\ t.sessionTable = [s.sessionTable EXCEPT ![high] = d]
      /\ t.sessionReuseChunk = reuse /\ OnlyTable(s, t)
  BY <1>3, <1>6 DEF Fields, OnlyTable, SameQueue, SameClock
<1>10. TableGood(t)
  <2>1. t.sessionTable \in [0..SessionChunks - 1 -> Chunk \cup {NoChunk}]
    BY <1>1, <1>8, <1>9 DEF ChunkGood
  <2>2. t.sessionReuseChunk \in {NoChunk, EmptyChunk}
    BY <1>1, <1>9 DEF reuse
  <2>3. ASSUME NEW h \in 0..SessionChunks - 1, t.sessionTable[h] # NoChunk
        PROVE  ChunkGood(t.sessionTable[h]) /\ Held(t.sessionTable[h]) # {}
    <3>1. CASE h = high
      BY <1>1, <1>8, <1>9, <3>1
    <3>2. CASE h # high
      <4>1. t.sessionTable[h] = s.sessionTable[h]
        BY <1>1, <1>9, <3>2
      <4> QED
        BY <2>3, <4>1 DEF TableGood
    <3> QED
      BY <3>1, <3>2
  <2> QED
    BY <2>1, <2>2, <2>3 DEF TableGood
<1>11. Entry(s, t, id, session)
  <2>1. c \in Chunk /\ d \in Chunk
    BY <1>2, <1>8 DEF ChunkGood
  <2>2. d # NoChunk
    BY <1>1, <2>1
  <2> QED
    BY <1>2, <1>8, <1>9, <2>1, <2>2, ChunkEntry DEF high, low
<1> QED
  BY <1>9, <1>10, <1>11

\* An id that led to a session leads to none.
LEMMA RemoveSessionFacts ==
    ASSUME NEW s, DOMAIN s = Fields, TableGood(s), NEW id \in Ids,
           GetSession(s, id) # NoSession, NEW t, t = RemoveSessionFromChunk(s, id)
    PROVE  DOMAIN t = Fields /\ TableGood(t) /\ OnlyTable(s, t) /\ Entry(s, t, id, NoSession)
<1> DEFINE high == High(id)
           low == Low(id)
           c == s.sessionTable[high]
           chunk == Emptied(c, low)
           d == IF chunk.fillLevel # 0 THEN chunk ELSE NoChunk
           reuse == IF chunk.fillLevel = 0 /\ s.sessionReuseChunk = NoChunk
                    THEN chunk ELSE s.sessionReuseChunk
<1>1. /\ high \in 0..SessionChunks - 1 /\ low \in 0..ChunkSize - 1
      /\ s.sessionTable \in [0..SessionChunks - 1 -> Chunk \cup {NoChunk}]
      /\ s.sessionReuseChunk \in {NoChunk, EmptyChunk}
      /\ NoChunk \notin Chunk
  BY Positions, NamesAssumption DEF TableGood
<1>2. c # NoChunk /\ c.sessions[low] # NoSession
  BY DEF GetSession
<1>3. ChunkGood(c)
  BY <1>1, <1>2 DEF TableGood
<1>4. t = IF chunk.fillLevel # 0 THEN [s EXCEPT !.sessionTable[high] = chunk]
          ELSE [s EXCEPT !.sessionTable[high] = NoChunk,
                         !.sessionReuseChunk = IF @ = NoChunk THEN chunk ELSE @]
  BY DEF RemoveSessionFromChunk, Emptied
<1>5. chunk = Emptied(c, low)
  OBVIOUS
<1> HIDE DEF high, low, c, chunk
<1>6. /\ ChunkGood(chunk) /\ (chunk.fillLevel # 0 => Held(chunk) # {})
      /\ chunk.fillLevel = 0 => Held(chunk) = {} /\ chunk = EmptyChunk
      /\ chunk.sessions[low] = NoSession
      /\ \A l \in 0..ChunkSize - 1 : l # low => chunk.sessions[l] = c.sessions[l]
  BY <1>1, <1>2, <1>3, <1>5, EmptiedChunk
<1>7. t = [s EXCEPT !.sessionTable = [s.sessionTable EXCEPT ![high] = d], !.sessionReuseChunk = reuse]
  BY <1>4 DEF Fields
<1>8. /\ d \in Chunk \cup {NoChunk} /\ reuse \in {NoChunk, EmptyChunk}
      /\ d # NoChunk => d = chunk /\ Held(d) # {}
      /\ d = NoChunk => chunk.fillLevel = 0
  BY <1>1, <1>6 DEF ChunkGood
<1> HIDE DEF d, reuse
<1>9. /\ DOMAIN t = Fields /\ t.sessionTable = [s.sessionTable EXCEPT ![high] = d]
      /\ t.sessionReuseChunk = reuse /\ OnlyTable(s, t)
  BY <1>7 DEF Fields, OnlyTable, SameQueue, SameClock
<1>10. TableGood(t)
  <2>1. t.sessionTable \in [0..SessionChunks - 1 -> Chunk \cup {NoChunk}]
    BY <1>1, <1>8, <1>9
  <2>2. ASSUME NEW h \in 0..SessionChunks - 1, t.sessionTable[h] # NoChunk
        PROVE  ChunkGood(t.sessionTable[h]) /\ Held(t.sessionTable[h]) # {}
    <3>1. CASE h = high
      <4>1. t.sessionTable[h] = d
        BY <1>1, <1>9, <3>1
      <4> QED
        BY <1>6, <1>8, <2>2, <4>1
    <3>2. CASE h # high
      <4>1. t.sessionTable[h] = s.sessionTable[h]
        BY <1>1, <1>9, <3>2
      <4> QED
        BY <2>2, <4>1 DEF TableGood
    <3> QED
      BY <3>1, <3>2
  <2> QED
    BY <1>8, <1>9, <2>1, <2>2 DEF TableGood
<1>11. Entry(s, t, id, NoSession)
  <2>1. c \in Chunk /\ s.sessionTable[High(id)] = c /\ c # NoChunk
    BY <1>2, <1>3 DEF ChunkGood, c, high
  <2>2. d = NoChunk => \A l \in 0..ChunkSize - 1 : l # low => c.sessions[l] = NoSession
    BY <1>6, <1>8, EmptyChunkGood
  <2>3. d # NoChunk => /\ d.sessions[low] = NoSession
                       /\ \A l \in 0..ChunkSize - 1 : l # low => d.sessions[l] = c.sessions[l]
    BY <1>6, <1>8
  <2> QED
    BY <1>8, <1>9, <2>1, <2>2, <2>3, ChunkEntry DEF high, low
<1> QED
  BY <1>9, <1>10, <1>11

-------------------------------------------------------------------------------
(***************************************************************************)
(* The broadcast list and the other timers                                 *)
(***************************************************************************)

\* The sessions in the broadcast list are sent pings, if there are any.
Listed(s) ==
    /\ s.broadcast \in Seq(SessionIds)
    /\ \A j, k \in 1..Len(s.broadcast) : s.broadcast[j] = s.broadcast[k] => j = k
    /\ s.nextPingTimer = NoTimer <=> s.broadcast = <<>>

\* The sessions, their packets and the table are left alone.
SameContent(s, t) ==
    SameTable(s, t) /\ t.sessions = s.sessions /\ t.packets = s.packets /\ t.queue = s.queue

\* Which timers are enabled, and how much time is left, if that of packets is the same.
LEMMA EnabledAlike ==
    ASSUME NEW s, Running(s), NEW t, DOMAIN t = Fields, t.packets = s.packets, t.queue = s.queue,
           t.nextResendTimer = s.nextResendTimer, t.pingTimer \in -PastMax..PingInterval,
           t.dropTimer \in -PastMax..Timeout, t.nextPingTimer \in {PingTimer, NoTimer}
    PROVE  /\ Queued(t) /\ (t.nextTimer \in TimersOf(t) => Running(t))
           /\ TimeLeft(t, PingTimer) = t.pingTimer /\ TimeLeft(t, DropTimer) = t.dropTimer
           /\ t.pingTimer \in Int /\ t.dropTimer \in Int
           /\ \/ t.nextResendTimer = NoTimer /\ s.queue = <<>>
                 /\ TimersOf(t) = {DropTimer, t.nextPingTimer} \ {NoTimer}
              \/ /\ t.nextResendTimer = s.queue[1] /\ s.queue # <<>> /\ t.nextResendTimer # NoTimer
                 /\ t.nextResendTimer \notin {PingTimer, DropTimer}
                 /\ TimeLeft(t, t.nextResendTimer) = TimeLeft(s, s.nextResendTimer)
                 /\ TimeLeft(t, t.nextResendTimer) \in -PastMax..ResendTime
                 /\ TimersOf(t) = {DropTimer, t.nextPingTimer, t.nextResendTimer} \ {NoTimer}
<1>1. Queued(t)
  BY DEF Running, Queued
<1>2. t.nextTimer \in TimersOf(t) => Running(t)
  BY <1>1 DEF Running, Clocked
<1>3. t.pingTimer \in Int /\ t.dropTimer \in Int
  BY Intervals
<1>4. DOMAIN s.packets \subseteq Packets /\ s.packets \in [DOMAIN s.packets -> PacketType]
      /\ s.queue \in Seq(Packets)
  BY DEF Running, Queued
<1>5. /\ TimeLeft(t, PingTimer) = t.pingTimer /\ TimeLeft(t, DropTimer) = t.dropTimer
      /\ \A p \in DOMAIN t.packets :
            TimeLeft(t, p) = t.packets[p].resendTimer /\ TimeLeft(t, p) \in -PastMax..ResendTime
  BY <1>3, <1>4, TimeLeftFacts
<1>6. CASE s.queue = <<>>
  <2>1. t.nextResendTimer = NoTimer
    BY <1>6 DEF Running, Queued
  <2> QED
    BY <1>1, <1>2, <1>3, <1>5, <1>6, <2>1 DEF TimersOf
<1>7. CASE s.queue # <<>>
  <2>1. s.nextResendTimer = s.queue[1] /\ 1 \in 1..Len(s.queue)
    BY <1>4, <1>7 DEF Running, Queued
  <2>2. s.queue[1] \in DOMAIN s.packets
    BY <2>1 DEF Running, Queued
  <2>3. s.queue[1] # NoTimer /\ s.queue[1] \notin {PingTimer, DropTimer}
    BY <1>4, <2>2, TimerNames
  <2>4. TimeLeft(s, s.queue[1]) = s.packets[s.queue[1]].resendTimer
    BY <2>3 DEF TimeLeft
  <2>5. TimeLeft(t, s.queue[1]) = s.packets[s.queue[1]].resendTimer
        /\ TimeLeft(t, s.queue[1]) \in -PastMax..ResendTime
    BY <1>5, <2>2
  <2> QED
    BY <1>1, <1>2, <1>3, <1>5, <1>7, <2>1, <2>3, <2>4, <2>5 DEF TimersOf
<1> QED
  BY <1>6, <1>7

\* A connected session is added to the broadcast list.
LEMMA EnqueueSessionRuns ==
    ASSUME NEW s, Running(s), Listed(s), NEW id \in SessionIds, id \notin Contents(s.broadcast),
           NEW t, t = EnqueueSession(s, id)
    PROVE  /\ Running(t) /\ Listed(t) /\ SameContent(s, t) /\ (NearestIn(s) => NearestIn(t))
           /\ t.broadcast # <<>> /\ Contents(t.broadcast) = Contents(s.broadcast) \cup {id}
           /\ t.dropTimer = s.dropTimer
<1> DEFINE list == <<id>> \o s.broadcast
           u == IF s.broadcast = <<>> THEN PingTimerEnable(s) ELSE s
<1>1. s.broadcast \in Seq(SessionIds) /\ Len(s.broadcast) \in Nat
  BY DEF Listed
<1>2. /\ list \in Seq(SessionIds) /\ Len(list) = Len(s.broadcast) + 1 /\ list[1] = id
      /\ \A k \in 1..Len(s.broadcast) : list[k + 1] = s.broadcast[k]
  BY <1>1
<1>3. t = [u EXCEPT !.broadcast = <<id>> \o @]
  BY DEF EnqueueSession
<1>4. /\ u.broadcast = s.broadcast /\ DOMAIN u = Fields /\ SameContent(s, u)
      /\ u.nextResendTimer = s.nextResendTimer /\ u.dropTimer = s.dropTimer
      /\ s.broadcast = <<>> => /\ u.nextPingTimer = PingTimer /\ u.pingTimer = PingInterval
                               /\ u.nextTimer = IF \/ s.nextTimer = NoTimer
                                                   \/ Smaller([s EXCEPT !.nextPingTimer = PingTimer,
                                                                        !.pingTimer = PingInterval],
                                                              PingTimer, s.nextTimer)
                                                THEN PingTimer ELSE s.nextTimer
      /\ s.broadcast # <<>> => /\ u.nextPingTimer = s.nextPingTimer /\ u.pingTimer = s.pingTimer
                               /\ u.nextTimer = s.nextTimer
  BY DEF PingTimerEnable, Sooner, Running, Fields, SameContent, SameTable
<1> HIDE DEF u, list
<1>5. /\ DOMAIN t = Fields /\ t.broadcast = list /\ SameContent(s, t)
      /\ t.nextResendTimer = s.nextResendTimer /\ t.dropTimer = s.dropTimer
      /\ t.nextPingTimer = u.nextPingTimer /\ t.pingTimer = u.pingTimer
      /\ t.nextTimer = u.nextTimer
  BY <1>3, <1>4 DEF Fields, SameContent, SameTable, list
<1>6. /\ s.pingTimer \in -PastMax..PingInterval /\ s.dropTimer \in -PastMax..Timeout
      /\ s.nextPingTimer \in {PingTimer, NoTimer} /\ PingInterval \in -PastMax..PingInterval
  BY Intervals DEF Running, Clocked
<1>7. t.packets = s.packets /\ t.queue = s.queue
  BY <1>5 DEF SameContent
<1>8. Running(t) /\ (NearestIn(s) => NearestIn(t)) /\ t.nextPingTimer = PingTimer
  <2>1. CASE s.broadcast # <<>>
    <3>1. s.nextPingTimer = PingTimer
      BY <1>6, <2>1 DEF Listed
    <3>2. SameQueue(s, t) /\ SameClock(s, t)
      BY <1>4, <1>5, <1>7, <2>1 DEF SameQueue, SameClock
    <3> QED
      BY <1>5, <3>1, <3>2, RunsWithout DEF SameClock
  <2>2. CASE s.broadcast = <<>>
    <3> DEFINE v == [s EXCEPT !.nextPingTimer = PingTimer, !.pingTimer = PingInterval]
    <3>1. \A timer : TimeLeft(v, timer) = TimeLeft(t, timer)
      <4>1. v.packets = t.packets /\ v.pingTimer = t.pingTimer /\ v.dropTimer = t.dropTimer
        BY <1>4, <1>5, <1>7, <2>2 DEF Running, Fields
      <4> QED
        BY <4>1 DEF TimeLeft
    <3>2. /\ t.nextPingTimer = PingTimer /\ t.pingTimer = PingInterval
          /\ t.nextTimer = IF s.nextTimer = NoTimer \/ TimeLeft(t, PingTimer) < TimeLeft(t, s.nextTimer)
                           THEN PingTimer ELSE s.nextTimer
      BY <1>4, <1>5, <2>2, <3>1 DEF Smaller
    <3> HIDE DEF v
    <3>3. s.nextPingTimer = NoTimer
      BY <2>2 DEF Listed
    <3>4. TimersOf(t) = TimersOf(s) \cup {PingTimer}
      BY <1>5, <3>2, <3>3, TimerNames DEF TimersOf
    <3>5. s.nextTimer \in TimersOf(s) /\ s.nextTimer # NoTimer
      BY EnabledTimers
    <3>6. Running(t)
      BY <1>5, <1>6, <1>7, <3>2, <3>4, <3>5, EnabledAlike
    <3>7. \A timer \in TimersOf(s) : /\ TimeLeft(t, timer) = TimeLeft(s, timer)
                                     /\ TimeLeft(s, timer) \in Int
      <4> SUFFICES ASSUME NEW timer \in TimersOf(s)
                   PROVE  TimeLeft(t, timer) = TimeLeft(s, timer) /\ TimeLeft(s, timer) \in Int
        OBVIOUS
      <4>1. TimeLeft(s, timer) \in Int
        BY EnabledTimers
      <4>2. timer # PingTimer
        <5>1. DOMAIN s = Fields
          BY DEF Running
        <5>2. \/ TimersOf(s) = {DropTimer, s.nextPingTimer} \ {NoTimer}
              \/ /\ s.nextResendTimer \notin {PingTimer, DropTimer}
                 /\ TimersOf(s) = {DropTimer, s.nextPingTimer, s.nextResendTimer} \ {NoTimer}
          BY <1>6, <5>1, EnabledAlike
        <5> QED
          BY <3>3, <5>2, TimerNames
      <4>3. t.packets = s.packets /\ t.dropTimer = s.dropTimer
        BY <1>5, <1>7
      <4>4. TimeLeft(t, timer) = TimeLeft(s, timer)
        BY ONLY <4>2, <4>3 DEF TimeLeft
      <4> QED
        BY <4>1, <4>4
    <3>8. TimeLeft(t, PingTimer) = PingInterval /\ PingInterval \in Int
      BY <3>2, Intervals, TimerNames DEF TimeLeft
    <3>9. NearestIn(s) => NearestIn(t)
      BY <3>2, <3>4, <3>5, <3>7, <3>8 DEF NearestIn
    <3> QED
      BY <3>2, <3>6, <3>9
  <2> QED
    BY <2>1, <2>2
<1>9. 1..Len(list) = {1} \cup {k + 1 : k \in 1..Len(s.broadcast)}
  <2>1. ASSUME NEW k \in 1..Len(list) PROVE k \in {1} \cup {j + 1 : j \in 1..Len(s.broadcast)}
    <3>1. k = 1 \/ (k - 1 \in 1..Len(s.broadcast) /\ k = (k - 1) + 1)
      BY <1>1, <1>2
    <3> QED
      BY <3>1
  <2>2. \A k \in 1..Len(s.broadcast) : k + 1 \in 1..Len(list)
    BY <1>1, <1>2
  <2>3. 1 \in 1..Len(list)
    BY <1>1, <1>2
  <2> QED
    BY <2>1, <2>2, <2>3
<1>10. Contents(list) = Contents(s.broadcast) \cup {id}
  <2>1. ASSUME NEW k \in 1..Len(list) PROVE list[k] \in Contents(s.broadcast) \cup {id}
    <3>1. k = 1 \/ \E j \in 1..Len(s.broadcast) : k = j + 1
      BY <1>9
    <3> QED
      BY <1>2, <3>1 DEF Contents
  <2>2. ASSUME NEW k \in 1..Len(s.broadcast)
        PROVE  k + 1 \in 1..Len(list) /\ s.broadcast[k] = list[k + 1]
    BY <1>2, <1>9
  <2>3. 1 \in 1..Len(list) /\ list[1] = id
    BY <1>2, <1>9
  <2> QED
    BY <2>1, <2>2, <2>3 DEF Contents
<1>11. ASSUME NEW j \in 1..Len(list), NEW k \in 1..Len(list), list[j] = list[k] PROVE j = k
  <2>1. \A i \in 1..Len(s.broadcast) : s.broadcast[i] # id
    BY DEF Contents
  <2>2. \A l \in 1..Len(s.broadcast) : list[l + 1] # id
    BY <1>2, <2>1
  <2>3. ASSUME NEW l \in 1..Len(s.broadcast), NEW m \in 1..Len(s.broadcast), list[l + 1] = list[m + 1]
        PROVE  l = m
    BY <1>2, <2>3 DEF Listed
  <2>4. j = 1 \/ \E l \in 1..Len(s.broadcast) : j = l + 1
    BY <1>9
  <2>5. k = 1 \/ \E l \in 1..Len(s.broadcast) : k = l + 1
    BY <1>9
  <2>6. CASE j = 1
    BY <1>2, <1>11, <2>2, <2>5, <2>6
  <2>7. CASE k = 1
    BY <1>2, <1>11, <2>2, <2>4, <2>7
  <2>8. CASE j # 1 /\ k # 1
    BY <1>11, <2>3, <2>4, <2>5, <2>8
  <2> QED
    BY <2>6, <2>7, <2>8
<1>12. Listed(t) /\ t.broadcast # <<>>
  <2>1. list # <<>>
    BY <1>1, <1>2
  <2> QED
    BY <1>2, <1>5, <1>8, <1>11, <2>1, TimerNames DEF Listed
<1> QED
  BY <1>5, <1>8, <1>10, <1>12

\* A session is taken out of the broadcast list.
LEMMA DequeueSessionRuns ==
    ASSUME NEW s, Running(s), Listed(s), NEW id \in Contents(s.broadcast),
           NEW t, t = DequeueSession(s, id)
    PROVE  /\ Running(t) /\ Listed(t) /\ SameContent(s, t) /\ (NearestIn(s) => NearestIn(t))
           /\ Contents(t.broadcast) = Contents(s.broadcast) \ {id}
           /\ t.dropTimer = s.dropTimer
<1> DEFINE list == Without(s.broadcast, id)
           place == Place(s.broadcast, id)
           u == [s EXCEPT !.broadcast = list]
<1>1. /\ list \in Seq(SessionIds)
      /\ \A j, k \in 1..Len(list) : list[j] = list[k] => j = k
      /\ Contents(list) = Contents(s.broadcast) \ {id}
  BY WithoutFacts DEF Listed
<1>2. t = IF list = <<>> THEN PingTimerDisable(u) ELSE u
  BY DEF DequeueSession, Running, Fields
<1>3. /\ DOMAIN u = Fields /\ u.broadcast = list /\ SameQueue(s, u) /\ SameClock(s, u)
      /\ SameContent(s, u)
  BY DEF Running, Fields, SameQueue, SameClock, SameContent, SameTable
<1> HIDE DEF list, u
<1>4. Running(u) /\ (NearestIn(s) => NearestIn(u))
  BY <1>3, RunsWithout
<1>5. s.nextPingTimer = PingTimer
  <2>1. s.broadcast # <<>>
    BY DEF Contents
  <2> QED
    BY <2>1 DEF Listed, Running, Clocked
<1>6. CASE list # <<>>
  BY <1>1, <1>2, <1>3, <1>4, <1>5, <1>6, TimerNames DEF Listed, SameClock
<1>7. CASE list = <<>>
  <2> DEFINE nearest == Nearest(u, u.nextResendTimer, DropTimer)
             next == IF u.nextTimer # PingTimer THEN u.nextTimer ELSE nearest
  <2>1. t = [u EXCEPT !.nextPingTimer = NoTimer, !.nextTimer = next]
    BY <1>2, <1>3, <1>7 DEF PingTimerDisable, Fields
  <2> HIDE DEF next
  <2>2. /\ DOMAIN t = Fields /\ t.nextPingTimer = NoTimer /\ t.nextTimer = next
        /\ t.nextResendTimer = u.nextResendTimer /\ t.broadcast = list
        /\ t.packets = u.packets /\ t.queue = u.queue /\ SameContent(s, t)
        /\ t.pingTimer = u.pingTimer /\ t.dropTimer = u.dropTimer
    BY <1>3, <2>1 DEF Fields, SameContent, SameTable
  <2>3. /\ t.pingTimer \in -PastMax..PingInterval /\ t.dropTimer \in -PastMax..Timeout
        /\ u.pingTimer \in -PastMax..PingInterval /\ u.dropTimer \in -PastMax..Timeout
        /\ u.nextPingTimer \in {PingTimer, NoTimer}
    BY <1>4, <2>2 DEF Running, Clocked
  <2>4. \A timer : TimeLeft(t, timer) = TimeLeft(u, timer)
    BY <2>2 DEF TimeLeft
  <2>5. /\ t.nextTimer \in TimersOf(t) => Running(t)
        /\ TimeLeft(u, DropTimer) \in Int
        /\ \/ u.nextResendTimer = NoTimer /\ TimersOf(t) = {DropTimer}
           \/ /\ u.nextResendTimer # NoTimer /\ TimeLeft(u, u.nextResendTimer) \in Int
              /\ u.nextResendTimer # PingTimer
              /\ TimersOf(t) = {DropTimer, u.nextResendTimer}
    <3>1. t.nextTimer \in TimersOf(t) => Running(t)
      BY <1>4, <2>2, <2>3, EnabledAlike
    <3>2. TimeLeft(u, DropTimer) \in Int
      BY <1>4, EnabledTimers, TimerNames DEF TimersOf
    <3>3. u.nextResendTimer # NoTimer =>
             TimeLeft(u, u.nextResendTimer) \in Int /\ u.nextResendTimer # PingTimer
      <4> SUFFICES ASSUME u.nextResendTimer # NoTimer
                   PROVE  TimeLeft(u, u.nextResendTimer) \in Int /\ u.nextResendTimer # PingTimer
        OBVIOUS
      <4>1. u.nextResendTimer \in TimersOf(u)
        BY DEF TimersOf
      <4>2. u.nextResendTimer \in Packets
        <5>1. u.queue # <<>> /\ u.nextResendTimer = u.queue[1] /\ u.queue \in Seq(Packets)
          BY <1>4 DEF Running, Queued
        <5> QED
          BY <5>1
      <4> QED
        BY <1>4, <4>1, <4>2, EnabledTimers, TimerNames
    <3>4. TimersOf(t) = {DropTimer, u.nextResendTimer} \ {NoTimer}
      BY <2>2 DEF TimersOf
    <3> QED
      BY <3>1, <3>2, <3>3, <3>4, TimerNames
  <2>6. /\ nearest \in TimersOf(t)
        /\ \A timer \in TimersOf(t) : TimeLeft(u, nearest) <= TimeLeft(u, timer)
    BY <2>5, NearestFacts, TimerNames
  <2> HIDE DEF nearest
  <2>7. next = IF u.nextTimer # PingTimer THEN u.nextTimer ELSE nearest
    BY DEF next
  <2>8. TimersOf(u) = TimersOf(t) \cup {PingTimer} /\ u.nextTimer \in TimersOf(u)
    <3>1. u.nextPingTimer = PingTimer
      BY <1>3, <1>5 DEF SameClock
    <3> QED
      BY <1>4, <2>2, <3>1, TimerNames, EnabledTimers DEF TimersOf
  <2>9. next \in TimersOf(t)
    BY <2>6, <2>7, <2>8
  <2>10. NearestIn(u) => NearestIn(t)
    BY <2>2, <2>4, <2>6, <2>7, <2>8 DEF NearestIn
  <2>11. Listed(t)
    BY <1>1, <1>7, <2>2 DEF Listed
  <2>12. t.dropTimer = s.dropTimer
    BY <1>3, <2>2 DEF SameClock
  <2> QED
    BY <1>1, <1>4, <2>2, <2>5, <2>9, <2>10, <2>11, <2>12
<1> QED
  BY <1>6, <1>7

\* The drop timer starts over.
LEMMA DropTimerRestartRuns ==
    ASSUME NEW s, Running(s), NEW t, t = DropTimerRestart(s)
    PROVE  /\ Running(t) /\ SameContent(s, t) /\ t.broadcast = s.broadcast
           /\ t.nextPingTimer = s.nextPingTimer /\ t.dropTimer = Timeout
           /\ NearestIn(s) => \/ NearestIn(t)
                              \/ Overlooks(t) /\ s.dropTimer # Timeout
<1> DEFINE next == IF s.nextTimer # DropTimer THEN s.nextTimer
                   ELSE IF s.nextResendTimer = NoTimer
                        THEN IF s.nextPingTimer = NoTimer THEN DropTimer ELSE PingTimer
                   ELSE IF s.nextPingTimer = NoTimer THEN s.nextResendTimer
                   ELSE IF TimeLeft(s, PingTimer) < TimeLeft(s, s.nextResendTimer)
                        THEN PingTimer ELSE DropTimer
<1>1. t = [s EXCEPT !.dropTimer = Timeout, !.nextTimer = next]
  <2> DEFINE pings   == s.nextPingTimer # NoTimer
             packets == s.nextResendTimer # NoTimer
             choice  == CASE ~ pings /\ ~ packets -> DropTimer
                          [] pings /\ ~ packets   -> PingTimer
                          [] ~ pings /\ packets   -> s.nextResendTimer
                          [] pings /\ packets     ->
                                IF Smaller(s, PingTimer, s.nextResendTimer) THEN PingTimer
                                ELSE DropTimer
  <2>1. t = [s EXCEPT !.dropTimer = Timeout,
                      !.nextTimer = IF s.nextTimer # DropTimer THEN s.nextTimer ELSE choice]
    <3> HIDE DEF choice
    <3> QED
      BY DEF DropTimerRestart, choice, Running, Fields
  <2>2. s.nextTimer = DropTimer => choice = next
    BY DEF Smaller
  <2>3. next = IF s.nextTimer # DropTimer THEN s.nextTimer ELSE choice
    <3> HIDE DEF choice
    <3> QED
      BY <2>2
  <2> HIDE DEF choice, next
  <2> QED
    BY <2>1, <2>3
<1> HIDE DEF next
<1>2. /\ DOMAIN t = Fields /\ t.dropTimer = Timeout /\ t.nextTimer = next
      /\ t.pingTimer = s.pingTimer /\ t.nextPingTimer = s.nextPingTimer
      /\ t.nextResendTimer = s.nextResendTimer
      /\ t.packets = s.packets /\ t.queue = s.queue
      /\ SameContent(s, t) /\ t.broadcast = s.broadcast
  BY <1>1 DEF Running, Fields, SameContent, SameTable
<1>3. /\ s.pingTimer \in -PastMax..PingInterval /\ s.dropTimer \in -PastMax..Timeout
      /\ s.nextPingTimer \in {PingTimer, NoTimer} /\ Timeout \in -PastMax..Timeout
      /\ DOMAIN s = Fields
  BY Intervals DEF Running, Clocked
<1>4. /\ t.nextTimer \in TimersOf(t) => Running(t)
      /\ TimeLeft(t, PingTimer) = s.pingTimer /\ TimeLeft(t, DropTimer) = Timeout
      /\ s.pingTimer \in Int
      /\ \/ t.nextResendTimer = NoTimer /\ s.queue = <<>>
            /\ TimersOf(t) = {DropTimer, s.nextPingTimer} \ {NoTimer}
         \/ /\ t.nextResendTimer = s.queue[1] /\ s.queue # <<>> /\ t.nextResendTimer # NoTimer
            /\ t.nextResendTimer \notin {PingTimer, DropTimer}
            /\ TimeLeft(t, s.nextResendTimer) = TimeLeft(s, s.nextResendTimer)
            /\ TimeLeft(t, s.nextResendTimer) \in -PastMax..ResendTime
            /\ TimersOf(t) = {DropTimer, s.nextPingTimer, s.nextResendTimer} \ {NoTimer}
  BY <1>2, <1>3, EnabledAlike
<1>5. /\ TimersOf(t) = TimersOf(s) /\ s.nextTimer \in TimersOf(s)
      /\ TimeLeft(s, PingTimer) = s.pingTimer /\ TimeLeft(s, DropTimer) = s.dropTimer
      /\ s.dropTimer \in Int
  <2>1. TimersOf(t) = TimersOf(s)
    BY <1>2 DEF TimersOf
  <2> QED
    BY <1>3, <2>1, EnabledAlike, EnabledTimers
<1>6. next \in TimersOf(t)
  BY <1>3, <1>4, <1>5, <1>2, TimerNames DEF next
<1>7. ASSUME NearestIn(s), ~ (Overlooks(t) /\ s.dropTimer # Timeout)
      PROVE  NearestIn(t)
  <2>1. /\ s.dropTimer <= Timeout /\ s.pingTimer <= PingInterval /\ PingInterval <= Timeout
        /\ Timeout \in Int /\ ResendTime <= Timeout /\ PingInterval \in Int /\ ResendTime \in Int
    BY <1>3, Intervals
  <2>2. \A timer \in TimersOf(s) : TimeLeft(s, s.nextTimer) <= TimeLeft(s, timer)
    BY <1>7 DEF NearestIn
  <2>3. DropTimer \in TimersOf(s) /\ (s.nextPingTimer = PingTimer => PingTimer \in TimersOf(s))
        /\ (s.nextResendTimer # NoTimer => s.nextResendTimer \in TimersOf(s))
    BY <1>3, TimerNames DEF TimersOf
  <2>4. CASE t.nextResendTimer = NoTimer /\ s.queue = <<>>
    <3>1. s.nextResendTimer = NoTimer /\ TimersOf(t) = {DropTimer, s.nextPingTimer} \ {NoTimer}
      BY <1>2, <1>4, <2>4
    <3> QED
      BY <1>2, <1>3, <1>4, <1>5, <2>1, <2>2, <2>3, <3>1, TimerNames DEF NearestIn, next
  <2>5. CASE s.queue # <<>>
    <3> DEFINE r == s.nextResendTimer
    <3>1. /\ r # NoTimer /\ r \notin {PingTimer, DropTimer}
          /\ TimeLeft(t, r) = TimeLeft(s, r) /\ TimeLeft(t, r) \in -PastMax..ResendTime
          /\ TimersOf(t) = {DropTimer, s.nextPingTimer, r} \ {NoTimer}
      BY <1>2, <1>4, <2>5
    <3>2. TimeLeft(t, r) \in Int /\ TimeLeft(t, r) <= ResendTime
      BY <3>1, Intervals
    <3> HIDE DEF r
    <3>3. next = IF s.nextTimer # DropTimer THEN s.nextTimer
                 ELSE IF s.nextPingTimer = NoTimer THEN r
                 ELSE IF s.pingTimer < TimeLeft(s, r) THEN PingTimer ELSE DropTimer
      BY <1>5, <3>1 DEF next, r
    <3>4. CASE s.nextTimer # DropTimer
      BY <1>2, <1>3, <1>4, <1>5, <2>1, <2>2, <2>3, <3>1, <3>2, <3>3, <3>4, TimerNames DEF NearestIn
    <3>5. CASE s.nextTimer = DropTimer /\ s.nextPingTimer = NoTimer
      BY <1>2, <1>3, <1>4, <1>5, <2>1, <3>1, <3>2, <3>3, <3>5, TimerNames DEF NearestIn
    <3>6. CASE s.nextTimer = DropTimer /\ s.nextPingTimer = PingTimer /\ s.pingTimer < TimeLeft(s, r)
      BY <1>2, <1>3, <1>4, <1>5, <2>1, <3>1, <3>2, <3>3, <3>6, TimerNames DEF NearestIn
    <3>7. CASE /\ s.nextTimer = DropTimer /\ s.nextPingTimer = PingTimer
               /\ ~ (s.pingTimer < TimeLeft(s, r))
      <4>1. next = DropTimer
        BY <3>3, <3>7, TimerNames
      <4>2. s.dropTimer = Timeout
        <5>1. ~ Smaller(t, PingTimer, r)
          BY <1>4, <1>5, <3>1, <3>7 DEF Smaller
        <5>2. t.nextTimer = DropTimer /\ t.nextPingTimer # NoTimer /\ t.nextResendTimer = r
          BY <1>2, <3>7, <4>1, TimerNames DEF r
        <5>3. Overlooks(t)
          BY <3>1, <5>1, <5>2 DEF Overlooks
        <5> QED
          BY <1>7, <5>3
      <4>3. s.dropTimer <= s.pingTimer
        BY <1>5, <2>2, <2>3, <3>7
      <4>4. s.dropTimer <= TimeLeft(s, r)
        BY <1>5, <2>2, <2>3, <3>1, <3>7 DEF r
      <4> QED
        BY <1>2, <1>3, <1>4, <1>5, <2>1, <3>1, <3>2, <4>1, <4>2, <4>3, <4>4, TimerNames DEF NearestIn
    <3> QED
      BY <1>3, <3>4, <3>5, <3>6, <3>7
  <2> QED
    BY <1>4, <2>4, <2>5
<1> QED
  BY <1>2, <1>4, <1>6, <1>7

\* The pings start over after some packets were sent.
LEMMA PingTimerRestartRuns ==
    ASSUME NEW s, Running(s), s.queue # <<>>, NEW t, t = PingTimerRestart(s)
    PROVE  /\ Running(t) /\ SameContent(s, t) /\ t.broadcast = s.broadcast
           /\ t.nextPingTimer = s.nextPingTimer /\ NearestIn(t)
<1> DEFINE r == s.nextResendTimer
           u == [s EXCEPT !.pingTimer = PingInterval, !.nextTimer = r]
<1>1. /\ s.pingTimer \in -PastMax..PingInterval /\ s.dropTimer \in -PastMax..Timeout
      /\ s.nextPingTimer \in {PingTimer, NoTimer} /\ PingInterval \in -PastMax..PingInterval
      /\ DOMAIN s = Fields
  BY Intervals DEF Running, Clocked
<1>2. /\ DOMAIN u = Fields /\ u.pingTimer = PingInterval /\ u.nextTimer = r
      /\ u.dropTimer = s.dropTimer /\ u.nextPingTimer = s.nextPingTimer
      /\ u.nextResendTimer = s.nextResendTimer /\ u.packets = s.packets /\ u.queue = s.queue
      /\ SameContent(s, u) /\ u.broadcast = s.broadcast
  BY <1>1 DEF Fields, SameContent, SameTable
<1>3. /\ r # NoTimer /\ r \notin {PingTimer, DropTimer}
      /\ TimeLeft(u, r) \in -PastMax..ResendTime
      /\ TimeLeft(u, PingTimer) = PingInterval /\ TimeLeft(u, DropTimer) = s.dropTimer
      /\ TimersOf(u) = {DropTimer, s.nextPingTimer, r} \ {NoTimer}
      /\ s.dropTimer \in Int
  <2> HIDE DEF u
  <2> QED
    BY <1>1, <1>2, EnabledAlike
<1>4. t = [u EXCEPT !.nextTimer = IF s.dropTimer < TimeLeft(u, r) THEN DropTimer ELSE r]
  <2>1. t = Sooner(u, DropTimer)
    BY <1>1, <1>3 DEF PingTimerRestart, Fields
  <2> HIDE DEF u
  <2> QED
    BY <1>2, <1>3, <2>1 DEF Sooner, Smaller
<1> HIDE DEF u
<1>5. /\ DOMAIN t = Fields /\ t.pingTimer = PingInterval
      /\ t.nextTimer = (IF s.dropTimer < TimeLeft(u, r) THEN DropTimer ELSE r)
      /\ t.dropTimer = s.dropTimer /\ t.nextPingTimer = s.nextPingTimer
      /\ t.nextResendTimer = s.nextResendTimer /\ t.packets = s.packets /\ t.queue = s.queue
      /\ SameContent(s, t) /\ t.broadcast = s.broadcast
  BY <1>2, <1>4 DEF Fields, SameContent, SameTable
<1>6. \A timer : TimeLeft(t, timer) = TimeLeft(u, timer)
  BY <1>2, <1>5 DEF TimeLeft
<1>7. TimersOf(t) = {DropTimer, s.nextPingTimer, r} \ {NoTimer}
  BY <1>5 DEF TimersOf
<1> HIDE DEF r
<1>8. t.nextTimer \in TimersOf(t)
  BY <1>3, <1>5, <1>7, TimerNames
<1>9. Running(t)
  BY <1>1, <1>5, <1>8, EnabledAlike
<1>10. TimeLeft(u, r) \in Int /\ TimeLeft(u, r) <= PingInterval /\ PingInterval \in Int
  BY <1>3, Intervals
<1>11. NearestIn(t)
  BY <1>1, <1>3, <1>5, <1>6, <1>7, <1>10 DEF NearestIn
<1> QED
  BY <1>5, <1>9, <1>11

-------------------------------------------------------------------------------
(***************************************************************************)
(* The inductive invariant                                                 *)
(***************************************************************************)

\* An id leads to the session it is of: the id that was assigned to it, and the one its
\* client picked while it is opened.
TableInv(s) ==
    /\ TableGood(s) /\ s.lastSessionId \in SessionIds
    /\ s.connectedSessions = Cardinality(DOMAIN s.sessions)
    /\ \A id \in SessionIds : GetSession(s, id) = IF id \in DOMAIN s.sessions THEN id ELSE NoSession
    /\ \A request \in RequestIds :
          /\ GetSession(s, request) \in DOMAIN s.sessions \cup {NoSession}
          /\ \A id \in DOMAIN s.sessions :
                s.sessions[id].handshakeId = request <=> GetSession(s, request) = id

Connected(s, id) == ~ s.sessions[id].closed /\ ~ Opening(s, id)

\* A session that is connected is in the broadcast list, another waits for one answer; if
\* it is opening, it may have got that under its other id.
Settled(s, id) ==
    /\ id \in Contents(s.broadcast) <=> Connected(s, id)
    /\ ~ Connected(s, id) => \/ s.sessions[id].local = <<PacketOf(id, 0)>>
                             \/ Opening(s, id) /\ s.sessions[id].local = <<>>
    /\ s.sessions[id].closed => ~ Opening(s, id)

ListInv(s) ==
    /\ Listed(s) /\ Contents(s.broadcast) \subseteq DOMAIN s.sessions
    /\ \A id \in DOMAIN s.sessions : Settled(s, id)

Inv(s) == Owned(s) /\ TableInv(s) /\ ListInv(s)

\* The ids clients pick, those the server assigns, and no session at all are told apart.
LEMMA IdFacts ==
    /\ NoSession \notin SessionIds /\ NoSession \notin RequestIds
    /\ RequestIds \cap SessionIds = {} /\ IsFiniteSet(SessionIds) /\ Cardinality(SessionIds) = Limit
    /\ \A id \in SessionIds : PacketOf(id, 0) \in Packets /\ PacketOf(id, 0)[1] = id
<1>1. NoSession \notin SessionIds /\ NoSession \notin RequestIds
  BY NamesAssumption
<1>2. RequestIds \cap SessionIds = {}
  BY Sizes DEF RequestIds, SessionIds
<1>3. /\ IsFiniteSet(Limit..2 * Limit - 1)
      /\ Cardinality(Limit..2 * Limit - 1)
            = IF Limit > 2 * Limit - 1 THEN 0 ELSE (2 * Limit - 1) - Limit + 1
  <2>1. Limit \in Int /\ 2 * Limit - 1 \in Int
    BY Sizes
  <2> QED
    BY <2>1, FS_Interval
<1>4. IsFiniteSet(SessionIds) /\ Cardinality(SessionIds) = Limit
  BY <1>3, Sizes DEF SessionIds
<1>5. 0 \in RemoteIds
  BY RelayServerAssumption DEF RemoteIds
<1>6. \A id \in SessionIds : PacketOf(id, 0) \in Packets /\ PacketOf(id, 0)[1] = id
  BY <1>5 DEF PacketOf, Packets
<1> QED
  BY <1>1, <1>2, <1>4, <1>6

\* The local queues have no part in the table.
LEMMA TableKept ==
    ASSUME NEW s, TableInv(s), NEW t, SameTable(s, t), DOMAIN t.sessions = DOMAIN s.sessions,
           \A id \in DOMAIN s.sessions : t.sessions[id].handshakeId = s.sessions[id].handshakeId
    PROVE  TableInv(t)
<1>1. \A id : GetSession(t, id) = GetSession(s, id)
  BY DEF GetSession, SameTable
<1>2. TableGood(t)
  BY DEF TableInv, TableGood, SameTable
<1> QED
  BY <1>1, <1>2 DEF TableInv, SameTable

\* The packets have no part in what else is said of a session.
LEMMA OwnedSessions ==
    ASSUME NEW s, Owned(s), NEW t, DOMAIN t = Fields, SameQueue(s, t), SameClock(s, t),
           DOMAIN t.sessions = DOMAIN s.sessions,
           t.sessions \in [DOMAIN s.sessions -> SessionType],
           \A id \in DOMAIN s.sessions : t.sessions[id].local = s.sessions[id].local
    PROVE  Owned(t) /\ (NearestIn(s) => NearestIn(t))
<1>1. Running(t) /\ (NearestIn(s) => NearestIn(t))
  BY RunsWithout DEF Owned
<1>2. t.packets = s.packets /\ t.queue = s.queue
  BY DEF SameQueue
<1>3. \A id \in DOMAIN t.sessions : LocalOf(t, id)
  BY <1>2 DEF Owned, LocalOf
<1>4. \A p \in DOMAIN t.packets :
         p[1] \in DOMAIN t.sessions /\ p \in Contents(t.sessions[p[1]].local)
  BY <1>2 DEF Owned
<1> QED
  BY <1>1, <1>2, <1>3, <1>4 DEF Owned

\* A session does not go by the id of its client any more.
LEMMA CompletedHandshakeFacts ==
    ASSUME NEW s, Owned(s), TableInv(s), NEW id \in DOMAIN s.sessions, Opening(s, id),
           NEW t, t = CompletedHandshake(s, id)
    PROVE  /\ Owned(t) /\ TableInv(t) /\ (NearestIn(s) => NearestIn(t))
           /\ t.broadcast = s.broadcast /\ SameClock(s, t) /\ SameQueue(s, t)
           /\ DOMAIN t.sessions = DOMAIN s.sessions
           /\ \A i \in DOMAIN s.sessions : i # id => t.sessions[i] = s.sessions[i]
           /\ t.sessions[id].handshakeId = NoSession
           /\ t.sessions[id].closed = s.sessions[id].closed
           /\ t.sessions[id].local = s.sessions[id].local
<1> DEFINE h == s.sessions[id].handshakeId
           u == RemoveSessionFromChunk(s, h)
           session == [s.sessions[id] EXCEPT !.handshakeId = NoSession]
           sessions == [s.sessions EXCEPT ![id] = session]
<1>1. /\ DOMAIN s = Fields /\ s.sessions \in [DOMAIN s.sessions -> SessionType]
      /\ DOMAIN s.sessions \subseteq SessionIds
  BY DEF Owned, Running
<1>2. h \in RequestIds /\ h \in Ids
  BY <1>1 DEF Opening, SessionType, Ids
<1>3. GetSession(s, h) = id /\ id # NoSession /\ id \in SessionIds
  BY <1>1, <1>2, IdFacts DEF TableInv
<1>4. DOMAIN u = Fields /\ TableGood(u) /\ OnlyTable(s, u) /\ Entry(s, u, h, NoSession)
  BY <1>1, <1>2, <1>3, RemoveSessionFacts DEF TableInv
<1>5. t = [u EXCEPT !.sessions[id].handshakeId = NoSession]
  BY DEF CompletedHandshake
<1> HIDE DEF u
<1>6. /\ session \in SessionType /\ session.handshakeId = NoSession
      /\ session.closed = s.sessions[id].closed /\ session.local = s.sessions[id].local
  BY <1>1 DEF SessionType
<1>7. u.sessions = s.sessions
  BY <1>4 DEF OnlyTable
<1>8. t = [u EXCEPT !.sessions = sessions]
  BY <1>5, <1>7
<1> HIDE DEF session
<1>9. /\ sessions \in [DOMAIN s.sessions -> SessionType] /\ sessions[id] = session
      /\ \A i \in DOMAIN s.sessions : i # id => sessions[i] = s.sessions[i]
  BY <1>1, <1>6
<1> HIDE DEF sessions
<1>10. /\ DOMAIN t = Fields /\ t.sessions = sessions /\ SameTable(u, t)
       /\ SameQueue(s, t) /\ SameClock(s, t) /\ t.broadcast = s.broadcast
       /\ t.lastSessionId = s.lastSessionId /\ t.connectedSessions = s.connectedSessions
  BY <1>4, <1>8 DEF Fields, SameTable, OnlyTable, SameQueue, SameClock
<1>11. Owned(t) /\ (NearestIn(s) => NearestIn(t))
  <2>1. \A i \in DOMAIN s.sessions : t.sessions[i].local = s.sessions[i].local
    BY <1>6, <1>9, <1>10
  <2> QED
    BY <1>9, <1>10, <2>1, OwnedSessions
<1>12. TableInv(t)
  <2>1. \A i : GetSession(t, i) = GetSession(u, i)
    BY <1>10 DEF GetSession, SameTable
  <2>2. TableGood(t)
    BY <1>4, <1>10 DEF TableGood, SameTable
  <2>3. GetSession(t, h) = NoSession /\ \A i \in Ids : i # h => GetSession(t, i) = GetSession(s, i)
    BY <1>4, <2>1 DEF Entry
  <2>4. DOMAIN t.sessions = DOMAIN s.sessions
    BY <1>9, <1>10
  <2>5. ASSUME NEW i \in SessionIds
        PROVE  GetSession(t, i) = IF i \in DOMAIN t.sessions THEN i ELSE NoSession
    <3>1. i \in Ids /\ i # h
      BY <1>2, IdFacts DEF Ids
    <3> QED
      BY <2>3, <2>4, <3>1 DEF TableInv
  <2>6. ASSUME NEW request \in RequestIds
        PROVE  /\ GetSession(t, request) \in DOMAIN t.sessions \cup {NoSession}
               /\ \A i \in DOMAIN t.sessions :
                     t.sessions[i].handshakeId = request <=> GetSession(t, request) = i
    <3>1. CASE request = h
      <4>1. \A i \in DOMAIN s.sessions : i # id => s.sessions[i].handshakeId # h
        BY <1>2, <1>3 DEF TableInv
      <4>2. \A i \in DOMAIN s.sessions : t.sessions[i].handshakeId # h
        BY <1>2, <1>6, <1>9, <1>10, <4>1, IdFacts
      <4> QED
        BY <1>1, <2>3, <2>4, <3>1, <4>2, IdFacts
    <3>2. CASE request # h
      <4>1. GetSession(t, request) = GetSession(s, request) /\ request \in Ids
        BY <2>3, <3>2 DEF Ids
      <4>2. \A i \in DOMAIN s.sessions :
               t.sessions[i].handshakeId = request <=> s.sessions[i].handshakeId = request
        BY <1>6, <1>9, <1>10, <3>2, IdFacts
      <4> QED
        BY <2>4, <4>1, <4>2 DEF TableInv
    <3> QED
      BY <3>1, <3>2
  <2>7. t.lastSessionId \in SessionIds /\ t.connectedSessions = Cardinality(DOMAIN t.sessions)
    BY <1>10, <2>4 DEF TableInv
  <2> QED
    BY <2>2, <2>5, <2>6, <2>7 DEF TableInv
<1> QED
  BY <1>6, <1>9, <1>10, <1>11, <1>12

\* A session whose packets are gone.
Shed(s, id) ==
    /\ Running(s)
    /\ DOMAIN s.sessions \subseteq SessionIds
    /\ s.sessions \in [DOMAIN s.sessions -> SessionType]
    /\ DOMAIN s.packets = Contents(s.queue)
    /\ \A i \in DOMAIN s.sessions \ {id} : LocalOf(s, i)
    /\ \A p \in DOMAIN s.packets :
          /\ p[1] \in DOMAIN s.sessions \ {id}
          /\ p \in Contents(s.sessions[p[1]].local)

ListBut(s, id) ==
    /\ Listed(s) /\ Contents(s.broadcast) \subseteq DOMAIN s.sessions \ {id}
    /\ \A i \in DOMAIN s.sessions \ {id} : Settled(s, i)

\* A session that has no packets and is in no list leaves the table and is freed.
LEMMA ReleaseSessionFacts ==
    ASSUME NEW s, NEW id \in DOMAIN s.sessions, Shed(s, id), ListBut(s, id), TableInv(s),
           NEW t, t = ReleaseSession(s, id)
    PROVE  Inv(t) /\ SameClock(s, t) /\ SameQueue(s, t) /\ (NearestIn(s) => NearestIn(t))
<1> DEFINE h == s.sessions[id].handshakeId
           u == RemoveSessionFromChunk(s, id)
           v == IF Opening(s, id) THEN RemoveSessionFromChunk(u, h) ELSE u
           rest == DOMAIN s.sessions \ {id}
           sessions == [i \in rest |-> s.sessions[i]]
<1>1. /\ DOMAIN s = Fields /\ s.sessions \in [DOMAIN s.sessions -> SessionType]
      /\ DOMAIN s.sessions \subseteq SessionIds
  BY DEF Shed, Running
<1>2. id \in SessionIds /\ id \in Ids /\ id # NoSession /\ GetSession(s, id) = id
  BY <1>1, IdFacts DEF TableInv, Ids
<1>3. DOMAIN u = Fields /\ TableGood(u) /\ OnlyTable(s, u) /\ Entry(s, u, id, NoSession)
  BY <1>1, <1>2, RemoveSessionFacts DEF TableInv
<1> HIDE DEF u
<1>4. /\ DOMAIN v = Fields /\ TableGood(v) /\ OnlyTable(s, v)
      /\ GetSession(v, id) = NoSession
      /\ \A i \in SessionIds : i # id => GetSession(v, i) = GetSession(s, i)
      /\ \A r \in RequestIds : GetSession(v, r) = IF r = h THEN NoSession ELSE GetSession(s, r)
  <2>1. CASE ~ Opening(s, id)
    <3>1. v = u
      BY <2>1
    <3>2. \A r \in RequestIds : r # h
      BY <2>1, IdFacts DEF Opening
    <3> QED
      BY <1>2, <1>3, <3>1, <3>2, IdFacts DEF Entry, Ids
  <2>2. CASE Opening(s, id)
    <3>1. h \in RequestIds /\ h \in Ids /\ h # id
      BY <1>1, <1>2, <2>2, IdFacts DEF Opening, SessionType, Ids
    <3>2. GetSession(s, h) = id
      BY <3>1 DEF TableInv
    <3>3. GetSession(u, h) = id
      BY <1>3, <3>1, <3>2 DEF Entry
    <3>4. v = RemoveSessionFromChunk(u, h)
      BY <2>2
    <3>5. DOMAIN v = Fields /\ TableGood(v) /\ OnlyTable(u, v) /\ Entry(u, v, h, NoSession)
      BY <1>2, <1>3, <3>1, <3>3, <3>4, RemoveSessionFacts
    <3> HIDE DEF h, v
    <3>6. OnlyTable(s, v)
      BY <1>3, <3>5 DEF OnlyTable, SameQueue, SameClock
    <3>7. \A i \in Ids : i # id /\ i # h => GetSession(v, i) = GetSession(s, i)
      BY <1>3, <3>5 DEF Entry
    <3>8. GetSession(v, id) = NoSession /\ GetSession(v, h) = NoSession
      BY <1>2, <1>3, <3>1, <3>5 DEF Entry
    <3> QED
      BY <1>2, <3>1, <3>5, <3>6, <3>7, <3>8, IdFacts DEF Ids
  <2> QED
    BY <2>1, <2>2
<1>5. t = [v EXCEPT !.connectedSessions = @ - 1,
                    !.sessions = [i \in DOMAIN v.sessions \ {id} |-> v.sessions[i]]]
  BY DEF ReleaseSession, Restrict, u
<1> HIDE DEF v
<1>6. v.sessions = s.sessions /\ v.connectedSessions = s.connectedSessions
  BY <1>4 DEF OnlyTable
<1>7. t = [v EXCEPT !.connectedSessions = s.connectedSessions - 1, !.sessions = sessions]
  BY <1>4, <1>5, <1>6 DEF Fields
<1>8. /\ sessions \in [rest -> SessionType] /\ DOMAIN sessions = rest
      /\ \A i \in rest : sessions[i] = s.sessions[i]
  BY <1>1
<1> HIDE DEF sessions
<1>9. /\ DOMAIN t = Fields /\ t.sessions = sessions /\ DOMAIN t.sessions = rest
      /\ t.connectedSessions = s.connectedSessions - 1 /\ t.lastSessionId = s.lastSessionId
      /\ t.sessionTable = v.sessionTable /\ t.sessionReuseChunk = v.sessionReuseChunk
      /\ SameQueue(s, t) /\ SameClock(s, t) /\ t.broadcast = s.broadcast
  BY <1>4, <1>7, <1>8 DEF Fields, OnlyTable, SameQueue, SameClock
<1>10. Running(t) /\ (NearestIn(s) => NearestIn(t))
  BY <1>9, RunsWithout DEF Shed
<1>11. Owned(t)
  <2>1. t.packets = s.packets /\ t.queue = s.queue
    BY <1>9 DEF SameQueue
  <2>2. \A i \in DOMAIN t.sessions : LocalOf(t, i)
    BY <1>8, <1>9, <2>1 DEF Shed, LocalOf
  <2>3. \A p \in DOMAIN t.packets :
           p[1] \in DOMAIN t.sessions /\ p \in Contents(t.sessions[p[1]].local)
    BY <1>8, <1>9, <2>1 DEF Shed
  <2> QED
    BY <1>1, <1>8, <1>9, <1>10, <2>1, <2>2, <2>3 DEF Owned, Shed
<1>12. TableInv(t)
  <2>1. \A i : GetSession(t, i) = GetSession(v, i)
    BY <1>9 DEF GetSession
  <2>2. TableGood(t)
    BY <1>4, <1>9 DEF TableGood
  <2>3. t.connectedSessions = Cardinality(DOMAIN t.sessions)
    <3>1. IsFiniteSet(DOMAIN s.sessions)
      BY <1>1, IdFacts, FS_Subset
    <3>2. Cardinality(rest) = Cardinality(DOMAIN s.sessions) - 1
      BY <3>1, FS_RemoveElement
    <3> QED
      BY <1>9, <3>2 DEF TableInv
  <2>4. \A i \in SessionIds : GetSession(t, i) = IF i \in DOMAIN t.sessions THEN i ELSE NoSession
    BY <1>4, <1>9, <2>1 DEF TableInv
  <2>5. ASSUME NEW r \in RequestIds
        PROVE  /\ GetSession(t, r) \in DOMAIN t.sessions \cup {NoSession}
               /\ \A i \in DOMAIN t.sessions :
                     t.sessions[i].handshakeId = r <=> GetSession(t, r) = i
    <3>1. GetSession(t, r) = IF r = h THEN NoSession ELSE GetSession(s, r)
      BY <1>4, <2>1
    <3>2. h = r <=> GetSession(s, r) = id
      BY DEF TableInv
    <3>3. \A i \in DOMAIN t.sessions : s.sessions[i].handshakeId = r <=> GetSession(s, r) = i
      BY <1>9 DEF TableInv
    <3>4. GetSession(s, r) \in DOMAIN s.sessions \cup {NoSession}
      BY DEF TableInv
    <3>5. \A i \in DOMAIN t.sessions : t.sessions[i] = s.sessions[i] /\ i # id /\ i # NoSession
      BY <1>1, <1>8, <1>9, IdFacts
    <3> HIDE DEF h
    <3> QED
      BY <1>9, <3>1, <3>2, <3>3, <3>4, <3>5
  <2> QED
    BY <1>9, <2>2, <2>3, <2>4, <2>5 DEF TableInv
<1>13. ListInv(t)
  <2>1. Listed(t)
    BY <1>9 DEF ListBut, Listed, SameClock
  <2>2. \A i \in DOMAIN t.sessions : Settled(t, i)
    BY <1>8, <1>9 DEF ListBut, Settled, Connected, Opening
  <2>3. Contents(t.broadcast) \subseteq DOMAIN t.sessions
    BY <1>9 DEF ListBut
  <2> QED
    BY <2>1, <2>2, <2>3 DEF ListInv
<1> QED
  BY <1>9, <1>10, <1>11, <1>12, <1>13 DEF Inv

\* The queues and the sessions stay as they are while a timer or the list changes.
LEMMA OwnedAlike ==
    ASSUME NEW s, Owned(s), NEW t, Running(t), t.sessions = s.sessions,
           t.packets = s.packets, t.queue = s.queue
    PROVE  Owned(t)
BY DEF Owned, LocalOf

\* An invariant that holds of a server, and a step that leaves it the nearest timer.
Carried(s, t) == Inv(t) /\ (NearestIn(s) => NearestIn(t))

\* A session has no packet but the one of its closing request.
LEMMA SendClosingFacts ==
    ASSUME NEW s, Inv(s), NEW id \in DOMAIN s.sessions,
           NEW t, t = SendClosingPacket(FlushPackets(s, id), id)
    PROVE  /\ Owned(t) /\ TableInv(t) /\ (NearestIn(s) => NearestIn(t))
           /\ SameClock(s, t) /\ t.broadcast = s.broadcast
           /\ DOMAIN t.sessions = DOMAIN s.sessions
           /\ \A i \in DOMAIN s.sessions : i # id => t.sessions[i] = s.sessions[i]
           /\ t.sessions[id].handshakeId = s.sessions[id].handshakeId
           /\ t.sessions[id].closed
           /\ t.sessions[id].local = <<PacketOf(id, 0)>>
<1> DEFINE r == FlushPackets(s, id)
           session == [r.sessions[id] EXCEPT !.closed = TRUE]
           sessions == [r.sessions EXCEPT ![id] = session]
           u == [r EXCEPT !.sessions = sessions]
           p == PacketOf(id, 0)
<1>1. Owned(s) /\ TableInv(s)
  BY DEF Inv
<1>2. /\ DOMAIN s.sessions \subseteq SessionIds /\ id \in SessionIds
      /\ s.sessions \in [DOMAIN s.sessions -> SessionType]
  BY <1>1 DEF Owned
<1>3. Owned(r) /\ Kept(s, r) /\ r.sessions = Relocated(s.sessions, id, <<>>)
  BY <1>1, FlushOwned
<1> HIDE DEF r
<1>4. <<>> \in Seq(Packets)
  OBVIOUS
<1>5. /\ r.sessions \in [DOMAIN s.sessions -> SessionType] /\ r.sessions[id].local = <<>>
      /\ \A i \in DOMAIN s.sessions : i # id => r.sessions[i] = s.sessions[i]
      /\ r.sessions[id].handshakeId = s.sessions[id].handshakeId
  <2>1. PICK none : none = <<>>
    OBVIOUS
  <2>2. s.sessions \in [DOMAIN s.sessions -> SessionType]
    BY <1>2
  <2>3. none \in Seq(Packets) /\ r.sessions = Relocated(s.sessions, id, none)
    BY <1>3, <1>4, <2>1
  <2>4. /\ r.sessions \in [DOMAIN s.sessions -> SessionType] /\ r.sessions[id].local = none
        /\ \A i \in DOMAIN s.sessions : i # id => r.sessions[i] = s.sessions[i]
        /\ r.sessions[id].handshakeId = s.sessions[id].handshakeId
    BY ONLY id \in DOMAIN s.sessions, <2>2, <2>3, RelocatedFacts
  <2> QED
    BY <2>1, <2>4
<1>6. /\ session \in SessionType /\ session.closed /\ session.local = <<>>
      /\ session.handshakeId = s.sessions[id].handshakeId
  BY <1>5 DEF SessionType
<1> HIDE DEF session
<1>7. /\ sessions \in [DOMAIN s.sessions -> SessionType] /\ sessions[id] = session
      /\ \A i \in DOMAIN s.sessions : i # id => sessions[i] = s.sessions[i]
  BY <1>5, <1>6
<1>8. t = SendNewPacket(u, p, ResendsClosing, TRUE)
  BY DEF SendClosingPacket, r, session
<1> HIDE DEF sessions
<1>9. /\ DOMAIN u = Fields /\ u.sessions = sessions /\ SameTable(r, u) /\ SameClock(r, u)
      /\ SameQueue(r, u) /\ u.broadcast = r.broadcast
  BY <1>3 DEF Owned, Running, Fields, SameTable, SameClock, SameQueue
<1> HIDE DEF u
<1>10. Owned(u) /\ (NearestIn(r) => NearestIn(u))
  <2>1. DOMAIN r.sessions = DOMAIN s.sessions /\ DOMAIN u.sessions = DOMAIN s.sessions
    BY <1>5, <1>7, <1>9
  <2>2. \A i \in DOMAIN s.sessions : u.sessions[i].local = r.sessions[i].local
    BY <1>5, <1>6, <1>7, <1>9
  <2>3. u.sessions \in [DOMAIN r.sessions -> SessionType]
    BY <1>7, <1>9, <2>1
  <2> QED
    BY <1>3, <1>9, <2>1, <2>2, <2>3, OwnedSessions
<1>11. p \in Packets /\ p[1] = id
  BY <1>2, IdFacts
<1> HIDE DEF p
<1>12. DOMAIN u.sessions = DOMAIN s.sessions /\ u.sessions[id].local = <<>>
  BY <1>6, <1>7, <1>9
<1>13. p \notin DOMAIN u.packets
  <2>1. Contents(<<>>) = {}
    BY DEF Contents
  <2> QED
    BY <1>10, <1>11, <1>12, <2>1 DEF Owned
<1>14. ResendsClosing \in 0..Resends + ResendsClosing /\ TRUE \in BOOLEAN
  BY Intervals
<1>15. Owned(t) /\ Kept(u, t) /\ t.sessions = Relocated(u.sessions, id, Append(<<>>, p))
  <2>1. id \in DOMAIN u.sessions /\ u.sessions[id].local = <<>>
    BY <1>12
  <2>2. /\ Owned(t) /\ Kept(u, t)
        /\ t.sessions = Relocated(u.sessions, id, Append(u.sessions[id].local, p))
    <3>1. PICK last \in BOOLEAN : last = TRUE
      OBVIOUS
    <3>2. Owned(u) /\ t = SendNewPacket(u, p, ResendsClosing, last)
      BY <1>8, <1>10, <3>1
    <3>3. id \in DOMAIN u.sessions /\ p \in Packets /\ p[1] = id /\ p \notin DOMAIN u.packets
      BY <1>11, <1>12, <1>13
    <3>4. PICK resends \in 0..Resends + ResendsClosing : resends = ResendsClosing
      BY <1>14
    <3>5. t = SendNewPacket(u, p, resends, last) /\ Owned(u)
      BY <3>2, <3>4
    <3> QED
      BY ONLY last \in BOOLEAN, resends \in 0..Resends + ResendsClosing, <3>3, <3>5, SendNewOwned
  <2> QED
    BY <2>1, <2>2
<1>16. Append(<<>>, p) = <<p>> /\ <<p>> \in Seq(Packets)
  BY <1>11
<1>17. /\ t.sessions \in [DOMAIN s.sessions -> SessionType] /\ t.sessions[id].local = <<p>>
       /\ \A i \in DOMAIN s.sessions : i # id => t.sessions[i] = s.sessions[i]
       /\ t.sessions[id].handshakeId = s.sessions[id].handshakeId
       /\ t.sessions[id].closed
  <2>1. t.sessions = Relocated(sessions, id, <<p>>)
    BY <1>9, <1>15, <1>16
  <2>2. /\ t.sessions \in [DOMAIN s.sessions -> SessionType] /\ t.sessions[id].local = <<p>>
        /\ \A i \in DOMAIN s.sessions : i # id => t.sessions[i] = sessions[i]
        /\ t.sessions[id].handshakeId = sessions[id].handshakeId
        /\ t.sessions[id].closed = sessions[id].closed
    BY ONLY id \in DOMAIN s.sessions, <1>7, <1>16, <2>1, RelocatedFacts
  <2> QED
    BY <1>6, <1>7, <2>2
<1>18. SameTable(s, t) /\ SameClock(s, t) /\ t.broadcast = s.broadcast
  BY <1>3, <1>9, <1>15 DEF Kept, SameTable, SameClock
<1>19. TableInv(t)
  BY <1>1, <1>17, <1>18, TableKept
<1> QED
  BY <1>3, <1>10, <1>15, <1>17, <1>18, <1>19 DEF Kept, p

\* The server requests to close a session, which is connected or not yet.
LEMMA CloseSessionRuns ==
    ASSUME NEW s, Inv(s), NEW id \in DOMAIN s.sessions, ~ s.sessions[id].closed,
           NEW t, t = CloseSession(s, id)
    PROVE  Carried(s, t)
<1>1. PICK u : u = SendClosingPacket(FlushPackets(s, id), id)
  OBVIOUS
<1>2. /\ Owned(u) /\ TableInv(u) /\ (NearestIn(s) => NearestIn(u))
      /\ SameClock(s, u) /\ u.broadcast = s.broadcast
      /\ DOMAIN u.sessions = DOMAIN s.sessions
      /\ \A i \in DOMAIN s.sessions : i # id => u.sessions[i] = s.sessions[i]
      /\ u.sessions[id].handshakeId = s.sessions[id].handshakeId
      /\ u.sessions[id].closed
      /\ u.sessions[id].local = <<PacketOf(id, 0)>>
  BY <1>1, SendClosingFacts
<1>3. t = IF Opening(u, id) THEN CompletedHandshake(u, id) ELSE DequeueSession(u, id)
  BY <1>1 DEF CloseSession
<1>4. Opening(u, id) <=> Opening(s, id)
  BY <1>2 DEF Opening
<1>5. ListInv(s) /\ Settled(s, id)
  BY DEF Inv, ListInv
<1>6. Listed(u) /\ DOMAIN s.sessions \subseteq SessionIds
  BY <1>2, <1>5 DEF ListInv, Listed, SameClock, Owned
<1>7. \A i \in DOMAIN s.sessions : Settled(s, i)
  BY <1>5 DEF ListInv
<1>8. CASE Opening(u, id)
  <2>1. /\ Owned(t) /\ TableInv(t) /\ (NearestIn(u) => NearestIn(t))
        /\ t.broadcast = u.broadcast /\ SameClock(u, t) /\ SameQueue(u, t)
        /\ DOMAIN t.sessions = DOMAIN u.sessions
        /\ \A i \in DOMAIN u.sessions : i # id => t.sessions[i] = u.sessions[i]
        /\ t.sessions[id].handshakeId = NoSession
        /\ t.sessions[id].closed = u.sessions[id].closed
        /\ t.sessions[id].local = u.sessions[id].local
    <3>1. t = CompletedHandshake(u, id) /\ id \in DOMAIN u.sessions
      BY <1>2, <1>3, <1>8
    <3>2. Owned(u) /\ TableInv(u) /\ Opening(u, id)
      BY <1>2, <1>8
    <3> QED
      BY ONLY <3>1, <3>2, CompletedHandshakeFacts
  <2>2. Listed(t)
    BY <1>6, <2>1 DEF Listed, SameClock
  <2>3. id \notin Contents(s.broadcast)
    BY <1>4, <1>5, <1>8 DEF Settled, Connected
  <2>4. Settled(t, id)
    BY <1>2, <2>1, <2>3 DEF Settled, Connected, Opening
  <2>5. \A i \in DOMAIN s.sessions : i # id => Settled(t, i)
    BY <1>2, <1>7, <2>1 DEF Settled, Connected, Opening
  <2>6. ListInv(t)
    BY <1>2, <1>5, <2>1, <2>2, <2>4, <2>5 DEF ListInv
  <2> QED
    BY <1>2, <2>1, <2>6 DEF Inv, Carried
<1>9. CASE ~ Opening(u, id)
  <2>1. id \in Contents(u.broadcast)
    BY <1>2, <1>4, <1>5, <1>9 DEF Settled, Connected
  <2>2. t = DequeueSession(u, id)
    BY <1>3, <1>9
  <2>3. /\ Running(t) /\ Listed(t) /\ SameContent(u, t) /\ (NearestIn(u) => NearestIn(t))
        /\ Contents(t.broadcast) = Contents(u.broadcast) \ {id}
    BY <1>2, <1>6, <2>1, <2>2, DequeueSessionRuns DEF Owned
  <2>4. t.sessions = u.sessions /\ SameTable(u, t) /\ t.packets = u.packets /\ t.queue = u.queue
    BY <2>3 DEF SameContent
  <2>5. Owned(t)
    BY <1>2, <2>3, <2>4, OwnedAlike
  <2>6. TableInv(t)
    BY <1>2, <2>4, TableKept
  <2>7. Settled(t, id)
    BY <1>2, <1>9, <2>3, <2>4 DEF Settled, Connected, Opening
  <2>8. \A i \in DOMAIN s.sessions : i # id => Settled(t, i)
    BY <1>2, <1>7, <2>3, <2>4 DEF Settled, Connected, Opening
  <2>9. ListInv(t)
    BY <1>2, <1>5, <2>3, <2>4, <2>7, <2>8 DEF ListInv
  <2> QED
    BY <1>2, <2>3, <2>5, <2>6, <2>9 DEF Inv, Carried
<1> QED
  BY <1>8, <1>9

\* A list of one element.
LEMMA OneElement ==
    ASSUME NEW S, NEW x \in S
    PROVE  /\ <<x>> \in Seq(S) /\ <<x>> # <<>> /\ Len(<<x>>) = 1 /\ <<x>>[1] = x
           /\ Contents(<<x>>) = {x} /\ Head(<<x>>) = x
<1>1. <<x>> \in Seq(S) /\ <<x>> # <<>> /\ Len(<<x>>) = 1 /\ <<x>>[1] = x /\ Head(<<x>>) = x
  OBVIOUS
<1>2. Contents(<<x>>) = {x}
  <2>1. \A k \in 1..Len(<<x>>) : <<x>>[k] = x
    OBVIOUS
  <2>2. 1 \in 1..Len(<<x>>) /\ <<x>>[1] = x
    OBVIOUS
  <2>3. ASSUME NEW y PROVE y \in Contents(<<x>>) <=> y \in {x}
    BY <2>1, <2>2 DEF Contents
  <2> QED
    BY <2>3
<1> QED
  BY <1>1, <1>2

\* The sessions and the broadcast list stay settled while packets come and go, if the
\* sessions in a handshake keep theirs.
LEMMA ListKept ==
    ASSUME NEW s, ListInv(s), NEW t, t.broadcast = s.broadcast, t.nextPingTimer = s.nextPingTimer,
           DOMAIN t.sessions = DOMAIN s.sessions,
           \A id \in DOMAIN s.sessions :
              /\ t.sessions[id].handshakeId = s.sessions[id].handshakeId
              /\ t.sessions[id].closed <=> s.sessions[id].closed
              /\ \/ Connected(s, id) \/ t.sessions[id].local = s.sessions[id].local
                 \/ Opening(s, id) /\ t.sessions[id].local = <<>>
    PROVE  ListInv(t)
<1>1. Listed(t) /\ Contents(t.broadcast) \subseteq DOMAIN t.sessions
  BY DEF ListInv, Listed
<1>2. ASSUME NEW id \in DOMAIN s.sessions PROVE Settled(t, id)
  BY DEF ListInv, Settled, Connected, Opening
<1> QED
  BY <1>1, <1>2 DEF ListInv

\* The one packet of a closed session is freed, and the session with it.
LEMMA ReleaseClosedRuns ==
    ASSUME NEW s, Inv(s), NEW p \in DOMAIN s.packets, s.sessions[p[1]].closed,
           NEW t, t = ReleaseSession(ReleasePacket(s, p), p[1])
    PROVE  Carried(s, t) /\ SameClock(s, t)
<1>1. Owned(s) /\ TableInv(s) /\ ListInv(s)
  BY DEF Inv
<1>2. PICK id : id = p[1]
  OBVIOUS
<1>3. id \in DOMAIN s.sessions /\ p \in Contents(s.sessions[id].local)
  BY <1>1, <1>2 DEF Owned
<1>4. id \in SessionIds /\ PacketOf(id, 0) \in Packets
  BY <1>1, <1>3, IdFacts DEF Owned
<1>5. ~ Connected(s, id) /\ s.sessions[id].local = <<PacketOf(id, 0)>>
      /\ id \notin Contents(s.broadcast)
  BY <1>1, <1>2, <1>3 DEF ListInv, Settled, Connected
<1>6. \A q \in DOMAIN s.packets : q[1] = id => q = p
  <2>1. Contents(s.sessions[id].local) = {PacketOf(id, 0)}
    BY <1>4, <1>5, OneElement
  <2> QED
    BY <1>1, <1>3, <2>1 DEF Owned
<1>7. PICK u : u = ReleasePacket(s, p)
  OBVIOUS
<1>8. /\ Running(u) /\ Frame(s, u) /\ (NearestIn(s) => NearestIn(u))
      /\ DOMAIN u.packets = DOMAIN s.packets \ {p}
      /\ DOMAIN u.packets = Contents(u.queue)
  <2>1. Running(s) /\ DOMAIN s.packets = Contents(s.queue)
    BY <1>1 DEF Owned
  <2> QED
    BY ONLY p \in DOMAIN s.packets, <2>1, <1>7, ReleasePacketRuns
<1>9. u.sessions = s.sessions /\ SameClock(s, u) /\ SameTable(s, u) /\ u.broadcast = s.broadcast
  BY <1>8 DEF Frame
<1>10. Shed(u, id)
  <2>1. ASSUME NEW i \in DOMAIN s.sessions, i # id PROVE LocalOf(u, i)
    <3>1. LocalOf(s, i)
      BY <1>1 DEF Owned
    <3> QED
      BY <1>2, <1>8, <1>9, <2>1, <3>1 DEF LocalOf
  <2>2. ASSUME NEW q \in DOMAIN u.packets
        PROVE  /\ q[1] \in DOMAIN s.sessions \ {id}
               /\ q \in Contents(s.sessions[q[1]].local)
    BY <1>1, <1>6, <1>8 DEF Owned
  <2>3. DOMAIN s.sessions \subseteq SessionIds /\ s.sessions \in [DOMAIN s.sessions -> SessionType]
    BY <1>1 DEF Owned
  <2> QED
    BY <1>8, <1>9, <2>1, <2>2, <2>3 DEF Shed
<1>11. ListBut(u, id)
  <2>1. Listed(u)
    BY <1>1, <1>9 DEF ListInv, Listed, SameClock
  <2>2. ASSUME NEW i \in DOMAIN s.sessions PROVE Settled(u, i)
    BY <1>1, <1>9 DEF ListInv, Settled, Connected, Opening
  <2>3. Contents(u.broadcast) \subseteq DOMAIN u.sessions \ {id}
    BY <1>1, <1>5, <1>9 DEF ListInv
  <2> QED
    BY <1>9, <2>1, <2>2, <2>3 DEF ListBut
<1>12. TableInv(u)
  BY <1>1, <1>9, TableKept
<1>13. t = ReleaseSession(u, id) /\ id \in DOMAIN u.sessions
  BY <1>2, <1>3, <1>7, <1>9
<1>14. Inv(t) /\ SameClock(u, t) /\ SameQueue(u, t) /\ (NearestIn(u) => NearestIn(t))
  BY ONLY <1>10, <1>11, <1>12, <1>13, ReleaseSessionFacts
<1> QED
  BY <1>8, <1>9, <1>14 DEF Carried, SameClock

\* A packet is sent again; if that is in vain its session is closed, or forgotten.
LEMMA ResendPacketRuns ==
    ASSUME NEW s, Inv(s), NEW p \in DOMAIN s.packets, NEW t, t = ResendPacket(s, p)
    PROVE  Carried(s, t)
<1>1. Owned(s) /\ TableInv(s) /\ ListInv(s)
  BY DEF Inv
<1>2. CASE s.packets[p].remainingResends > 0
  <2>1. Owned(t) /\ Kept(s, t) /\ t.sessions = s.sessions
    BY <1>1, <1>2, RepeatOwned
  <2>2. /\ SameTable(s, t) /\ t.broadcast = s.broadcast /\ t.nextPingTimer = s.nextPingTimer
        /\ NearestIn(s) => NearestIn(t)
    BY <2>1 DEF Kept, SameClock
  <2>3. TableInv(t)
    BY <1>1, <2>1, <2>2, TableKept
  <2>4. ListInv(t)
    BY <1>1, <2>1, <2>2, ListKept
  <2> QED
    BY <2>1, <2>2, <2>3, <2>4 DEF Inv, Carried
<1>3. CASE ~ (s.packets[p].remainingResends > 0) /\ ~ s.sessions[p[1]].closed
  <2>1. t = CloseSession(s, p[1])
    BY <1>3 DEF ResendPacket
  <2>2. PICK id : id = p[1]
    OBVIOUS
  <2>3. id \in DOMAIN s.sessions /\ ~ s.sessions[id].closed /\ t = CloseSession(s, id)
    BY <1>1, <1>3, <2>1, <2>2 DEF Owned
  <2> QED
    BY ONLY Inv(s), <2>3, CloseSessionRuns
<1>4. CASE ~ (s.packets[p].remainingResends > 0) /\ s.sessions[p[1]].closed
  <2>1. t = ReleaseSession(ReleasePacket(s, p), p[1]) /\ s.sessions[p[1]].closed
    BY <1>4 DEF ResendPacket
  <2> QED
    BY ONLY Inv(s), p \in DOMAIN s.packets, <2>1, ReleaseClosedRuns
<1> QED
  BY <1>2, <1>3, <1>4

\* A session is forgotten with whatever packets it has.
LEMMA ReleaseFlushedRuns ==
    ASSUME NEW s, Owned(s), TableInv(s), NEW id \in DOMAIN s.sessions, ListBut(s, id),
           NEW t, t = ReleaseSession(FlushPackets(s, id), id)
    PROVE  Carried(s, t) /\ SameClock(s, t)
<1>1. PICK u : u = FlushPackets(s, id)
  OBVIOUS
<1>2. Owned(u) /\ Kept(s, u) /\ u.sessions = Relocated(s.sessions, id, <<>>)
  BY <1>1, FlushOwned
<1>3. PICK none : none = <<>>
  OBVIOUS
<1>4. /\ u.sessions \in [DOMAIN s.sessions -> SessionType] /\ u.sessions[id].local = none
      /\ \A i \in DOMAIN s.sessions : i # id => u.sessions[i] = s.sessions[i]
      /\ u.sessions[id].handshakeId = s.sessions[id].handshakeId
  <2>1. s.sessions \in [DOMAIN s.sessions -> SessionType]
    BY DEF Owned
  <2>2. none \in Seq(Packets) /\ u.sessions = Relocated(s.sessions, id, none)
    BY <1>2, <1>3
  <2> QED
    BY ONLY id \in DOMAIN s.sessions, <2>1, <2>2, RelocatedFacts
<1>5. /\ DOMAIN u.sessions = DOMAIN s.sessions
      /\ SameClock(s, u) /\ SameTable(s, u) /\ u.broadcast = s.broadcast
      /\ NearestIn(s) => NearestIn(u)
  BY <1>2, <1>4 DEF Kept
<1>6. Contents(none) = {}
  BY <1>3 DEF Contents
<1>7. Shed(u, id)
  <2>1. ASSUME NEW p \in DOMAIN u.packets
        PROVE  p[1] \in DOMAIN u.sessions \ {id} /\ p \in Contents(u.sessions[p[1]].local)
    BY <1>2, <1>4, <1>6 DEF Owned
  <2> QED
    BY <1>2, <2>1 DEF Owned, Shed
<1>8. ListBut(u, id)
  <2>1. Listed(u)
    BY <1>5 DEF ListBut, Listed, SameClock
  <2>2. ASSUME NEW i \in DOMAIN u.sessions \ {id} PROVE Settled(u, i)
    <3>1. Settled(s, i) /\ u.sessions[i] = s.sessions[i]
      BY <1>4, <1>5 DEF ListBut
    <3> QED
      BY <1>5, <3>1 DEF Settled, Connected, Opening
  <2> QED
    BY <1>5, <2>1, <2>2 DEF ListBut
<1>9. TableInv(u)
  <2>1. \A i \in DOMAIN s.sessions : u.sessions[i].handshakeId = s.sessions[i].handshakeId
    BY <1>4
  <2> QED
    BY <1>5, <2>1, TableKept
<1>10. t = ReleaseSession(u, id) /\ id \in DOMAIN u.sessions
  BY <1>1, <1>5
<1>11. Inv(t) /\ SameClock(u, t) /\ SameQueue(u, t) /\ (NearestIn(u) => NearestIn(t))
  BY ONLY <1>7, <1>8, <1>9, <1>10, ReleaseSessionFacts
<1> QED
  BY <1>5, <1>11 DEF Carried, SameClock

-------------------------------------------------------------------------------
(***************************************************************************)
(* The id of a new session                                                 *)
(***************************************************************************)

\* A set of numbers has a least one.
LEMMA LeastIn ==
    ASSUME NEW S \in SUBSET Nat, S # {}
    PROVE  Min(S) \in S
<1> DEFINE T == {n \in Nat : \A k \in 0..n : k \notin S}
<1> SUFFICES ASSUME ~ \E x \in S : \A y \in S : x <= y PROVE FALSE
  BY DEF Min
<1>1. 0 \in T
  <2>1. 0 \notin S
    OBVIOUS
  <2> QED
    BY <2>1
<1>2. ASSUME NEW n \in Nat, n \in T PROVE n + 1 \in T
  <2>1. n + 1 \notin S
    <3> SUFFICES ASSUME n + 1 \in S PROVE FALSE
      OBVIOUS
    <3>1. PICK y \in S : ~ (n + 1 <= y)
      OBVIOUS
    <3>2. y \in 0..n
      BY <3>1
    <3> QED
      BY <1>2, <3>2
  <2> QED
    BY <1>2, <2>1
<1> HIDE DEF T
<1>3. Nat \subseteq T
  BY <1>1, <1>2, NatInductionSet
<1>4. PICK x \in S : TRUE
  OBVIOUS
<1>5. x \in T
  BY <1>3, <1>4
<1> QED
  BY <1>4, <1>5 DEF T

\* Counting on from any id, every id comes once.
LEMMA EveryIdComes ==
    ASSUME NEW last \in SessionIds, NEW id \in SessionIds
    PROVE  \E k \in 1..Limit : Limit + ((last + k) % Limit) = id
<1>1. Limit \in Nat \ {0}
  BY Sizes
<1> DEFINE j == last - Limit
           m == id - Limit
           k == IF m > j THEN m - j ELSE m - j + Limit
           q == IF m > j THEN 1 ELSE 2
<1>2. j \in Int /\ m \in Int /\ 0 <= j /\ j < Limit /\ 0 <= m /\ m < Limit
  BY <1>1 DEF SessionIds
<1>3. k \in 1..Limit /\ q \in Int
  BY <1>1, <1>2
<1>4. last + k = Limit * q + m
  <2>1. last \in Int /\ id \in Int
    BY <1>1 DEF SessionIds
  <2>2. CASE m > j
    <3>1. last + k = Limit + m /\ q = 1
      BY <1>1, <1>2, <2>1, <2>2
    <3>2. Limit * 1 = Limit
      BY <1>1
    <3> QED
      BY <3>1, <3>2
  <2>3. CASE ~ (m > j)
    <3>1. last + k = Limit + Limit + m /\ q = 2
      BY <1>1, <1>2, <2>1, <2>3
    <3>2. Limit * 2 = Limit + Limit
      BY <1>1
    <3> QED
      BY <1>1, <1>2, <3>1, <3>2
  <2> QED
    BY <2>2, <2>3
<1> HIDE DEF k, q
<1>5. last + k \in Int
  BY <1>1, <1>3 DEF SessionIds
<1> HIDE DEF m
<1>6. (last + k) % Limit = m
  <2>1. PICK n \in Int : n = last + k
    BY <1>5
  <2>2. n = Limit * q + m
    BY <1>4, <2>1
  <2>3. n % Limit = m
    BY ONLY n \in Int, <1>1, <1>2, <1>3, <2>2, DivModUnique
  <2> QED
    BY <2>1, <2>3
<1>7. Limit + m = id
  BY <1>1 DEF SessionIds, m
<1> QED
  BY <1>3, <1>6, <1>7

\* While the limit of sessions is not reached, the search for a free id ends at one.
LEMMA NewSessionIdFree ==
    ASSUME NEW s, Owned(s), TableInv(s), s.connectedSessions # Limit,
           NEW session, session = NewSessionId(s)
    PROVE  /\ session \in SessionIds /\ session \notin DOMAIN s.sessions
           /\ GetSession(s, session) = NoSession
<1> DEFINE after(k) == Limit + ((s.lastSessionId + k) % Limit)
           S == {k \in 1..Limit : GetSession(s, after(k)) = NoSession}
<1>1. Limit \in Nat \ {0} /\ s.lastSessionId \in SessionIds /\ s.lastSessionId \in Int
  BY Sizes DEF TableInv, SessionIds
<1>2. PICK id \in SessionIds : id \notin DOMAIN s.sessions
  <2>1. DOMAIN s.sessions \subseteq SessionIds
    BY DEF Owned
  <2>2. Cardinality(DOMAIN s.sessions) # Cardinality(SessionIds)
    BY IdFacts DEF TableInv
  <2>3. DOMAIN s.sessions # SessionIds
    BY <2>2
  <2> QED
    BY <2>1, <2>3
<1>3. GetSession(s, id) = NoSession
  BY <1>2 DEF TableInv
<1>4. S \in SUBSET Nat /\ S # {}
  <2>1. PICK k \in 1..Limit : after(k) = id
    BY <1>1, EveryIdComes
  <2> QED
    BY <1>1, <1>3, <2>1
<1>5. Min(S) \in S
  BY <1>4, LeastIn
<1>6. session = after(Min(S))
  BY DEF NewSessionId
<1>7. ASSUME NEW k \in 1..Limit PROVE after(k) \in SessionIds
  <2>1. s.lastSessionId + k \in Int
    BY <1>1
  <2>2. (s.lastSessionId + k) % Limit \in Int /\ 0 <= (s.lastSessionId + k) % Limit
        /\ (s.lastSessionId + k) % Limit < Limit
    BY <1>1, <2>1, DivModFacts
  <2> QED
    BY <1>1, <2>2 DEF SessionIds
<1>8. session \in SessionIds /\ GetSession(s, session) = NoSession
  BY <1>5, <1>6, <1>7
<1> QED
  BY <1>8, IdFacts DEF TableInv

\* What StartHandshake() makes of the server before it sends the accept packet.
NewSession(request) ==
    [handshakeId |-> request, closed |-> FALSE, remoteId |-> 0, local |-> <<>>]
Opened(added, session, request) ==
    [added EXCEPT !.lastSessionId = session,
                  !.connectedSessions = @ + 1,
                  !.sessions = Added(@, session, NewSession(request))]

\* A session is in the table under both of its ids, and has no packet yet.
LEMMA OpenedFacts ==
    ASSUME NEW s, Inv(s), s.connectedSessions # Limit, NEW request \in RequestIds,
           GetSession(s, request) = NoSession, NEW session, session = NewSessionId(s),
           NEW u, u = Opened(AddSessionToChunk(AddSessionToChunk(s, request, session),
                                               session, session), session, request)
    PROVE  /\ Owned(u) /\ TableInv(u) /\ SameQueue(s, u) /\ SameClock(s, u)
           /\ NearestIn(s) => NearestIn(u)
           /\ u.broadcast = s.broadcast
           /\ session \in SessionIds /\ session \notin DOMAIN s.sessions
           /\ DOMAIN u.sessions = DOMAIN s.sessions \cup {session}
           /\ u.sessions[session] = NewSession(request)
           /\ \A i \in DOMAIN s.sessions : u.sessions[i] = s.sessions[i]
<1>1. Owned(s) /\ TableInv(s) /\ DOMAIN s = Fields
  BY DEF Inv, Owned, Running
<1>2. /\ session \in SessionIds /\ session \notin DOMAIN s.sessions
      /\ GetSession(s, session) = NoSession
  BY <1>1, NewSessionIdFree
<1>3. request \in Ids /\ session \in Ids /\ request # session /\ session # NoSession
  BY <1>2, IdFacts DEF Ids
<1>4. PICK v : v = AddSessionToChunk(s, request, session)
  OBVIOUS
<1>5. DOMAIN v = Fields /\ TableGood(v) /\ OnlyTable(s, v) /\ Entry(s, v, request, session)
  <2>1. TableGood(s)
    BY <1>1 DEF TableInv
  <2> QED
    BY <1>1, <1>2, <1>3, <1>4, <2>1, AddSessionFacts
<1>6. GetSession(v, session) = NoSession
  BY <1>2, <1>3, <1>5 DEF Entry
<1>7. PICK w : w = AddSessionToChunk(v, session, session)
  OBVIOUS
<1>8. DOMAIN w = Fields /\ TableGood(w) /\ OnlyTable(v, w) /\ Entry(v, w, session, session)
  BY <1>2, <1>3, <1>5, <1>6, <1>7, AddSessionFacts
<1>9. OnlyTable(s, w)
  BY <1>5, <1>8 DEF OnlyTable, SameQueue, SameClock
<1>10. /\ GetSession(w, session) = session /\ GetSession(w, request) = session
       /\ \A i \in Ids : i # session /\ i # request => GetSession(w, i) = GetSession(s, i)
  BY <1>3, <1>5, <1>8 DEF Entry
<1>11. PICK sessions : sessions = Added(s.sessions, session, NewSession(request))
  OBVIOUS
<1>12. NewSession(request) \in SessionType
  <2>1. 0 \in RemoteIds
    BY RelayServerAssumption DEF RemoteIds
  <2> QED
    BY <2>1 DEF NewSession, SessionType
<1>13. /\ sessions \in [DOMAIN s.sessions \cup {session} -> SessionType]
       /\ DOMAIN sessions = DOMAIN s.sessions \cup {session}
       /\ sessions[session] = NewSession(request)
       /\ \A i \in DOMAIN s.sessions : sessions[i] = s.sessions[i]
  <2>1. s.sessions \in [DOMAIN s.sessions -> SessionType]
    BY <1>1 DEF Owned
  <2> QED
    BY <1>2, <1>11, <1>12, <2>1 DEF Added
<1>14. u = [w EXCEPT !.lastSessionId = session, !.connectedSessions = s.connectedSessions + 1,
                     !.sessions = sessions]
  BY <1>4, <1>7, <1>8, <1>9, <1>11 DEF Opened, OnlyTable, Fields
<1>15. /\ DOMAIN u = Fields /\ u.sessions = sessions
       /\ u.connectedSessions = s.connectedSessions + 1 /\ u.lastSessionId = session
       /\ u.sessionTable = w.sessionTable /\ u.sessionReuseChunk = w.sessionReuseChunk
       /\ SameQueue(s, u) /\ SameClock(s, u) /\ u.broadcast = s.broadcast
  BY <1>8, <1>9, <1>14 DEF Fields, OnlyTable, SameQueue, SameClock
<1>16. Running(u) /\ (NearestIn(s) => NearestIn(u))
  BY <1>1, <1>15, RunsWithout DEF Owned
<1>17. Owned(u)
  <2>1. u.packets = s.packets /\ u.queue = s.queue
    BY <1>15 DEF SameQueue
  <2>2. LocalOf(u, session)
    BY <1>13, <1>15 DEF LocalOf, NewSession
  <2>3. ASSUME NEW i \in DOMAIN s.sessions PROVE LocalOf(u, i)
    <3>1. LocalOf(s, i)
      BY <1>1 DEF Owned
    <3> QED
      BY <1>13, <1>15, <2>1, <3>1 DEF LocalOf
  <2>4. \A p \in DOMAIN u.packets :
           p[1] \in DOMAIN u.sessions /\ p \in Contents(u.sessions[p[1]].local)
    BY <1>1, <1>13, <1>15, <2>1 DEF Owned
  <2>5. DOMAIN u.packets = Contents(u.queue) /\ DOMAIN s.sessions \subseteq SessionIds
    BY <1>1, <2>1 DEF Owned
  <2> QED
    BY <1>2, <1>13, <1>15, <1>16, <2>2, <2>3, <2>4, <2>5 DEF Owned
<1>18. TableInv(u)
  <2>1. \A i : GetSession(u, i) = GetSession(w, i)
    BY <1>15 DEF GetSession
  <2>2. TableGood(u)
    BY <1>8, <1>15 DEF TableGood
  <2>3. u.connectedSessions = Cardinality(DOMAIN u.sessions)
    <3>1. IsFiniteSet(DOMAIN s.sessions)
      BY <1>1, IdFacts, FS_Subset DEF Owned
    <3>2. Cardinality(DOMAIN s.sessions \cup {session}) = Cardinality(DOMAIN s.sessions) + 1
      BY <1>2, <3>1, FS_AddElement
    <3> QED
      BY <1>1, <1>13, <1>15, <3>2 DEF TableInv
  <2>4. ASSUME NEW i \in SessionIds
        PROVE  GetSession(u, i) = IF i \in DOMAIN u.sessions THEN i ELSE NoSession
    <3>1. i \in Ids /\ i # request
      BY IdFacts DEF Ids
    <3>2. i # session => GetSession(u, i) = IF i \in DOMAIN s.sessions THEN i ELSE NoSession
      BY <1>1, <1>10, <2>1, <3>1 DEF TableInv
    <3> QED
      BY <1>10, <1>13, <1>15, <2>1, <3>2
  <2>5. ASSUME NEW r \in RequestIds
        PROVE  /\ GetSession(u, r) \in DOMAIN u.sessions \cup {NoSession}
               /\ \A i \in DOMAIN u.sessions :
                     u.sessions[i].handshakeId = r <=> GetSession(u, r) = i
    <3>1. u.sessions[session].handshakeId = request
      BY <1>13, <1>15 DEF NewSession
    <3>2. \A i \in DOMAIN s.sessions : u.sessions[i] = s.sessions[i] /\ i # session /\ i # NoSession
      BY <1>1, <1>2, <1>13, <1>15, IdFacts DEF Owned
    <3>3. \A i \in DOMAIN s.sessions : s.sessions[i].handshakeId = r <=> GetSession(s, r) = i
      BY <1>1 DEF TableInv
    <3>4. GetSession(s, r) \in DOMAIN s.sessions \cup {NoSession}
      BY <1>1 DEF TableInv
    <3>5. CASE r = request
      <4>1. GetSession(u, r) = session
        BY <1>10, <2>1, <3>5
      <4>2. \A i \in DOMAIN s.sessions : u.sessions[i].handshakeId # r
        BY <3>2, <3>3, <3>5
      <4> QED
        BY <1>13, <1>15, <3>1, <3>2, <3>5, <4>1, <4>2
    <3>6. CASE r # request
      <4>1. GetSession(u, r) = GetSession(s, r)
        <5>1. r \in Ids /\ r # session
          BY <1>2, IdFacts DEF Ids
        <5> QED
          BY <1>10, <2>1, <3>6, <5>1
      <4> QED
        BY <1>2, <1>3, <1>13, <1>15, <3>1, <3>2, <3>3, <3>4, <3>6, <4>1
    <3> QED
      BY <3>5, <3>6
  <2> QED
    BY <1>2, <1>15, <2>2, <2>3, <2>4, <2>5 DEF TableInv
<1> QED
  BY <1>2, <1>13, <1>15, <1>16, <1>17, <1>18

\* A client opens a session.
LEMMA OpenSessionRuns ==
    ASSUME NEW s, Inv(s), s.connectedSessions # Limit, NEW request \in RequestIds,
           GetSession(s, request) = NoSession, NEW session, session = NewSessionId(s),
           NEW u, u = Opened(AddSessionToChunk(AddSessionToChunk(s, request, session),
                                               session, session), session, request),
           NEW t, t = SendNewPacket(u, PacketOf(session, 0), Resends, TRUE)
    PROVE  Carried(s, t)
<1>1. /\ Owned(u) /\ TableInv(u) /\ SameQueue(s, u) /\ SameClock(s, u)
      /\ NearestIn(s) => NearestIn(u)
      /\ u.broadcast = s.broadcast
      /\ session \in SessionIds /\ session \notin DOMAIN s.sessions
      /\ DOMAIN u.sessions = DOMAIN s.sessions \cup {session}
      /\ u.sessions[session] = NewSession(request)
      /\ \A i \in DOMAIN s.sessions : u.sessions[i] = s.sessions[i]
  BY OpenedFacts
<1>2. PICK p : p = PacketOf(session, 0)
  OBVIOUS
<1>3. PICK none : none = <<>>
  OBVIOUS
<1>4. /\ u.sessions[session].handshakeId = request /\ ~ u.sessions[session].closed
      /\ u.sessions[session].local = none
  BY <1>1, <1>3 DEF NewSession
<1>5. /\ session \in DOMAIN u.sessions /\ p \in Packets /\ p[1] = session
      /\ p \notin DOMAIN u.packets
  <2>1. Contents(none) = {}
    BY <1>3 DEF Contents
  <2>2. p \in Packets /\ p[1] = session
    BY <1>1, <1>2, IdFacts
  <2> QED
    BY <1>1, <1>4, <2>1, <2>2 DEF Owned
<1>6. PICK last \in BOOLEAN : last = TRUE
  OBVIOUS
<1>7. PICK resends \in 0..Resends + ResendsClosing : resends = Resends
  BY Intervals
<1>8. Owned(u) /\ t = SendNewPacket(u, p, resends, last)
  BY <1>1, <1>2, <1>6, <1>7
<1>9. /\ Owned(t) /\ Kept(u, t)
      /\ t.sessions = Relocated(u.sessions, session, Append(u.sessions[session].local, p))
  BY ONLY last \in BOOLEAN, resends \in 0..Resends + ResendsClosing, <1>5, <1>8, SendNewOwned
<1>10. PICK local : local = Append(none, p)
  OBVIOUS
<1>11. local \in Seq(Packets) /\ local = <<p>>
  BY <1>3, <1>5, <1>10
<1>12. /\ t.sessions \in [DOMAIN u.sessions -> SessionType] /\ t.sessions[session].local = local
       /\ \A i \in DOMAIN u.sessions : i # session => t.sessions[i] = u.sessions[i]
       /\ t.sessions[session].handshakeId = u.sessions[session].handshakeId
       /\ t.sessions[session].closed = u.sessions[session].closed
  <2>1. u.sessions \in [DOMAIN u.sessions -> SessionType]
    BY <1>1 DEF Owned
  <2>2. local \in Seq(Packets) /\ session \in DOMAIN u.sessions
    BY <1>5, <1>11
  <2>3. t.sessions = Relocated(u.sessions, session, local)
    BY <1>4, <1>9, <1>10
  <2> QED
    BY ONLY <2>1, <2>2, <2>3, RelocatedFacts
<1>13. DOMAIN t.sessions = DOMAIN u.sessions
  BY <1>12
<1>14. SameTable(u, t) /\ SameClock(u, t) /\ t.broadcast = u.broadcast /\ (NearestIn(u) => NearestIn(t))
  BY <1>9 DEF Kept
<1>15. TableInv(t)
  <2>1. \A i \in DOMAIN u.sessions : t.sessions[i].handshakeId = u.sessions[i].handshakeId
    BY <1>12
  <2>2. TableInv(u) /\ SameTable(u, t)
    BY <1>1, <1>14
  <2> QED
    BY ONLY <1>13, <2>1, <2>2, TableKept
<1>16. ListInv(t)
  <2>1. ListInv(s)
    BY DEF Inv
  <2>2. t.broadcast = s.broadcast /\ t.nextPingTimer = s.nextPingTimer
    BY <1>1, <1>14 DEF SameClock
  <2>3. Listed(t) /\ Contents(t.broadcast) \subseteq DOMAIN s.sessions
    BY ONLY <2>1, <2>2 DEF ListInv, Listed
  <2>4. ASSUME NEW i \in DOMAIN s.sessions PROVE Settled(t, i)
    <3>1. Settled(s, i)
      BY <2>1 DEF ListInv
    <3>2. u.sessions[i] = s.sessions[i] /\ i \in DOMAIN u.sessions /\ i # session
      BY <1>1
    <3>3. t.sessions[i] = s.sessions[i]
      BY <1>12, <3>2
    <3> QED
      BY <2>2, <3>1, <3>3 DEF Settled, Connected, Opening
  <2>5. Settled(t, session)
    <3>1. t.sessions[session].local = <<PacketOf(session, 0)>>
      <4>1. t.sessions[session].local = local
        BY <1>12
      <4>2. local = <<PacketOf(session, 0)>>
        BY ONLY <1>2, <1>11
      <4> QED
        BY ONLY <4>1, <4>2, Zenon
    <3>2. Opening(t, session) /\ ~ t.sessions[session].closed
      <4>1. t.sessions[session].handshakeId = request
        BY <1>4, <1>12
      <4>2. ~ t.sessions[session].closed
        BY ONLY <1>4, <1>12
      <4> QED
        BY <4>1, <4>2, IdFacts DEF Opening
    <3>3. session \notin Contents(t.broadcast)
      BY <1>1, <2>3
    <3> QED
      BY <3>1, <3>2, <3>3 DEF Settled, Connected
  <2> QED
    BY <1>1, <1>13, <2>3, <2>4, <2>5 DEF ListInv
<1> QED
  BY <1>1, <1>9, <1>14, <1>15, <1>16 DEF Inv, Carried

-------------------------------------------------------------------------------
(***************************************************************************)
(* Pings and commands                                                      *)
(***************************************************************************)

\* The next id of a packet is an id.
LEMMA RemoteIdFacts ==
    ASSUME NEW remoteId \in RemoteIds
    PROVE  NextRemoteId(remoteId) \in RemoteIds
<1>1. RemoteIdCount \in Nat \ {0} /\ remoteId + 1 \in Int
  BY RelayServerAssumption DEF RemoteIds
<1>2. /\ (remoteId + 1) % RemoteIdCount \in Int
      /\ 0 <= (remoteId + 1) % RemoteIdCount /\ (remoteId + 1) % RemoteIdCount < RemoteIdCount
  BY <1>1, DivModFacts
<1> QED
  BY <1>1, <1>2 DEF NextRemoteId, RemoteIds

\* A session is sent a packet with its next id.
LEMMA SendDataOwned ==
    ASSUME NEW s, Owned(s), NEW id \in DOMAIN s.sessions,
           NEW p, p = PacketOf(id, NextRemoteId(s.sessions[id].remoteId)), p \notin DOMAIN s.packets,
           NEW t, t = SendDataPacket(s, id)
    PROVE  /\ Owned(t) /\ Kept(s, t) /\ t.queue # <<>>
           /\ FirstKept(s, t)
           /\ p[1] = id /\ DOMAIN t.packets = DOMAIN s.packets \cup {p}
           /\ DOMAIN t.sessions = DOMAIN s.sessions
           /\ \A i \in DOMAIN s.sessions : i # id => t.sessions[i] = s.sessions[i]
           /\ t.sessions[id].handshakeId = s.sessions[id].handshakeId
           /\ t.sessions[id].closed = s.sessions[id].closed
<1>1. /\ DOMAIN s = Fields /\ DOMAIN s.sessions \subseteq SessionIds /\ id \in SessionIds
      /\ s.sessions \in [DOMAIN s.sessions -> SessionType]
  BY DEF Owned, Running
<1>2. PICK remoteId : remoteId = NextRemoteId(s.sessions[id].remoteId)
  OBVIOUS
<1>3. remoteId \in RemoteIds
  BY <1>1, <1>2, RemoteIdFacts DEF SessionType
<1>4. p \in Packets /\ p[1] = id /\ p = PacketOf(id, remoteId)
  BY <1>1, <1>2, <1>3 DEF PacketOf, Packets
<1>5. PICK session : session = [s.sessions[id] EXCEPT !.remoteId = remoteId]
  OBVIOUS
<1>6. /\ session \in SessionType /\ session.local = s.sessions[id].local
      /\ session.handshakeId = s.sessions[id].handshakeId
      /\ session.closed = s.sessions[id].closed
  BY <1>1, <1>3, <1>5 DEF SessionType
<1>7. PICK sessions : sessions = [s.sessions EXCEPT ![id] = session]
  OBVIOUS
<1>8. /\ sessions \in [DOMAIN s.sessions -> SessionType] /\ sessions[id] = session
      /\ \A i \in DOMAIN s.sessions : i # id => sessions[i] = s.sessions[i]
  BY <1>1, <1>6, <1>7
<1>9. PICK u : u = [s EXCEPT !.sessions = sessions]
  OBVIOUS
<1>10. /\ DOMAIN u = Fields /\ u.sessions = sessions /\ SameTable(s, u) /\ SameClock(s, u)
       /\ SameQueue(s, u) /\ u.broadcast = s.broadcast
  BY <1>1, <1>9 DEF Fields, SameTable, SameClock, SameQueue
<1>11. t = SendNewPacket(u, p, Resends, FALSE)
  BY <1>2, <1>4, <1>5, <1>7, <1>9 DEF SendDataPacket
<1>12. DOMAIN u.sessions = DOMAIN s.sessions /\ u.packets = s.packets /\ u.queue = s.queue
       /\ u.nextTimer = s.nextTimer
  BY <1>8, <1>10 DEF SameQueue
<1>13. Owned(u) /\ (NearestIn(s) => NearestIn(u))
  <2>1. \A i \in DOMAIN s.sessions : u.sessions[i].local = s.sessions[i].local
    BY <1>6, <1>8, <1>10
  <2>2. u.sessions \in [DOMAIN s.sessions -> SessionType]
    BY <1>8, <1>10
  <2>3. DOMAIN u = Fields /\ SameQueue(s, u) /\ SameClock(s, u) /\ DOMAIN u.sessions = DOMAIN s.sessions
    BY <1>10, <1>12
  <2> QED
    BY ONLY Owned(s), <2>1, <2>2, <2>3, OwnedSessions
<1>14. PICK last \in BOOLEAN : last = FALSE
  OBVIOUS
<1>15. PICK resends \in 0..Resends + ResendsClosing : resends = Resends
  BY Intervals
<1>16. /\ Owned(t) /\ Kept(u, t) /\ t.queue # <<>>
       /\ t.sessions = Relocated(u.sessions, id, Append(u.sessions[id].local, p))
       /\ DOMAIN t.packets = DOMAIN u.packets \cup {p}
       /\ FirstKept(u, t)
  <2>1. id \in DOMAIN u.sessions /\ p \in Packets /\ p[1] = id /\ p \notin DOMAIN u.packets
    BY <1>4, <1>12
  <2>2. t = SendNewPacket(u, p, resends, last) /\ Owned(u)
    BY <1>11, <1>13, <1>14, <1>15
  <2> QED
    BY ONLY last \in BOOLEAN, resends \in 0..Resends + ResendsClosing, <2>1, <2>2, SendNewOwned
<1>17. PICK local : local = Append(u.sessions[id].local, p)
  OBVIOUS
<1>18. /\ t.sessions \in [DOMAIN s.sessions -> SessionType]
       /\ \A i \in DOMAIN s.sessions : i # id => t.sessions[i] = sessions[i]
       /\ t.sessions[id].handshakeId = sessions[id].handshakeId
       /\ t.sessions[id].closed = sessions[id].closed
  <2>1. local \in Seq(Packets)
    <3>1. u.sessions[id].local \in Seq(Packets)
      BY <1>8, <1>10 DEF SessionType
    <3> QED
      BY <1>4, <1>17, <3>1
  <2>2. t.sessions = Relocated(sessions, id, local)
    BY <1>10, <1>16, <1>17
  <2>3. sessions \in [DOMAIN s.sessions -> SessionType]
    BY <1>8
  <2> QED
    BY ONLY id \in DOMAIN s.sessions, <2>1, <2>2, <2>3, RelocatedFacts
<1>19. Kept(s, t)
  BY <1>10, <1>13, <1>16 DEF Kept, SameTable, SameClock
<1>20. /\ \A i \in DOMAIN s.sessions : i # id => t.sessions[i] = s.sessions[i]
       /\ t.sessions[id].handshakeId = s.sessions[id].handshakeId
       /\ DOMAIN t.sessions = DOMAIN s.sessions
  BY <1>6, <1>8, <1>18
<1>21. t.sessions[id].closed = s.sessions[id].closed
  BY <1>6, <1>8, <1>18
<1>22. FirstKept(s, t)
  BY ONLY <1>12, <1>16 DEF FirstKept
<1> QED
  BY <1>4, <1>12, <1>16, <1>19, <1>20, <1>21, <1>22

\* The last packet of the queue ends the chunk.
Ended(s) == [s EXCEPT !.packets[Last(s.queue)].lastInChunk = TRUE]

\* Session after session.
LEMMA BroadcastSteps ==
    ASSUME NEW s, s.broadcast \in Seq(SessionIds), NEW t, t = Broadcast(s)
    PROVE  \E f : /\ f[0] = s
                  /\ \A k \in 1..Len(s.broadcast) : f[k] = SendDataPacket(f[k - 1], s.broadcast[k])
                  /\ t = Ended(f[Len(s.broadcast)])
<1> DEFINE list == s.broadcast
           count == Len(s.broadcast)
           Step(f, m) == [k \in 0..m |-> IF k = 0 THEN s ELSE SendDataPacket(f[k - 1], s.broadcast[k])]
           after == CHOOSE f : f = Step(f, count)
<1>1. count \in Nat
  OBVIOUS
<1>2. \E f : f = Step(f, count)
  <2> DEFINE S == {m \in Nat : \E f : f = Step(f, m)}
  <2>1. 0 \in S
    <3>1. [k \in 0..0 |-> s] = Step([k \in 0..0 |-> s], 0)
      OBVIOUS
    <3> QED
      BY <3>1
  <2>2. ASSUME NEW m \in Nat, m \in S PROVE m + 1 \in S
    <3>1. PICK f : f = Step(f, m)
      BY <2>2
    <3> DEFINE g == [k \in 0..m + 1 |-> IF k = 0 THEN s ELSE SendDataPacket(f[k - 1], s.broadcast[k])]
    <3>2. \A k \in 0..m : f[k] = g[k]
      BY <3>1
    <3>3. \A k \in 0..m + 1 : g[k] = Step(g, m + 1)[k]
      <4> TAKE k \in 0..m + 1
      <4>1. CASE k = 0
        BY <4>1
      <4>2. CASE k # 0
        <5>1. k - 1 \in 0..m
          BY <4>2
        <5> QED
          BY <3>2, <4>2, <5>1
      <4> QED
        BY <4>1, <4>2
    <3>4. g = Step(g, m + 1)
      BY <3>3
    <3> HIDE DEF g, Step
    <3> QED
      BY <3>4
  <2>3. Nat \subseteq S
    <3> HIDE DEF S
    <3> QED
      BY <2>1, <2>2, NatInductionSet
  <2> QED
    BY <1>1, <2>3
<1>3. after = Step(after, count)
  <2> HIDE DEF Step
  <2> QED
    BY <1>2
<1>4. t = Ended(after[count])
  BY DEF Broadcast, Ended
<1> HIDE DEF after
<1>5. ASSUME NEW k \in 0..count
      PROVE  after[k] = IF k = 0 THEN s ELSE SendDataPacket(after[k - 1], s.broadcast[k])
  BY <1>3, Zenon
<1>6. after[0] = s
  BY <1>1, <1>5
<1>7. ASSUME NEW k \in 1..count PROVE after[k] = SendDataPacket(after[k - 1], s.broadcast[k])
  <2>1. k \in 0..count /\ k # 0
    BY <1>1
  <2> QED
    BY <1>5, <2>1, Zenon
<1> QED
  BY <1>4, <1>6, <1>7

\* The last packet in the resend queue ends a chunk.
LEMMA MarkedOwned ==
    ASSUME NEW s, Owned(s), s.queue # <<>>,
           NEW t, t = Ended(s)
    PROVE  /\ Owned(t) /\ Frame(s, t) /\ (NearestIn(s) => NearestIn(t))
           /\ FirstKept(s, t) /\ t.queue = s.queue
<1>1. /\ Running(s) /\ s.queue \in Seq(Packets) /\ s.packets \in [DOMAIN s.packets -> PacketType]
      /\ \A k \in 1..Len(s.queue) : s.queue[k] \in DOMAIN s.packets
  BY DEF Owned, Running, Queued
<1>2. PICK p : p = Last(s.queue)
  OBVIOUS
<1>3. p \in DOMAIN s.packets
  <2>1. Len(s.queue) \in 1..Len(s.queue)
    BY <1>1
  <2> QED
    BY <1>1, <1>2, <2>1 DEF Last
<1>4. PICK packet : packet = [s.packets[p] EXCEPT !.lastInChunk = TRUE]
  OBVIOUS
<1>5. packet \in PacketType /\ packet.resendTimer = s.packets[p].resendTimer
  BY <1>1, <1>3, <1>4 DEF PacketType
<1>6. PICK packets : packets = [s.packets EXCEPT ![p] = packet]
  OBVIOUS
<1>7. /\ packets \in [DOMAIN s.packets -> PacketType] /\ DOMAIN packets = DOMAIN s.packets
      /\ \A q \in DOMAIN s.packets : packets[q].resendTimer = s.packets[q].resendTimer
  BY <1>1, <1>3, <1>5, <1>6
<1>8. t = [s EXCEPT !.packets = packets]
  BY <1>2, <1>4, <1>6 DEF Ended
<1>9. /\ Running(t) /\ Frame(s, t) /\ (NearestIn(s) => NearestIn(t))
      /\ t.packets = packets /\ t.queue = s.queue /\ t.nextTimer = s.nextTimer
  BY ONLY <1>1, <1>7, <1>8, MarkedRuns
<1>10. t.sessions = s.sessions /\ DOMAIN t.packets = DOMAIN s.packets
  BY <1>7, <1>9 DEF Frame
<1>11. Owned(t)
  <2>1. ASSUME NEW id \in DOMAIN s.sessions PROVE LocalOf(t, id)
    <3>1. LocalOf(s, id)
      BY DEF Owned
    <3> QED
      BY ONLY <1>10, <3>1 DEF LocalOf
  <2>2. /\ DOMAIN s.packets = Contents(s.queue) /\ DOMAIN s.sessions \subseteq SessionIds
        /\ s.sessions \in [DOMAIN s.sessions -> SessionType]
        /\ \A q \in DOMAIN s.packets :
              q[1] \in DOMAIN s.sessions /\ q \in Contents(s.sessions[q[1]].local)
    BY DEF Owned
  <2> QED
    BY ONLY <1>9, <1>10, <2>1, <2>2 DEF Owned
<1>12. FirstKept(s, t)
  <2>1. 1 \in 1..Len(s.queue)
    BY <1>1
  <2>2. t.packets[s.queue[1]].resendTimer = s.packets[s.queue[1]].resendTimer
    BY <1>1, <1>7, <1>9, <2>1
  <2> QED
    BY ONLY <1>9, <2>2 DEF FirstKept
<1> QED
  BY <1>9, <1>11, <1>12

\* What a broadcast has done after some of the sessions.
Reached(s, v, k) ==
    /\ Owned(v) /\ Kept(s, v)
    /\ k > 0 => v.queue # <<>>
    /\ FirstKept(s, v)
    /\ DOMAIN v.sessions = DOMAIN s.sessions
    /\ \A id \in DOMAIN s.sessions :
          /\ v.sessions[id].handshakeId = s.sessions[id].handshakeId
          /\ v.sessions[id].closed = s.sessions[id].closed
          /\ id \in Contents(s.broadcast) \/ v.sessions[id] = s.sessions[id]
    /\ \A j \in 1..Len(s.broadcast) :
          j > k => PacketOf(s.broadcast[j], NextRemoteId(v.sessions[s.broadcast[j]].remoteId))
                      \notin DOMAIN v.packets

\* The next session of the broadcast list is sent its packet.
LEMMA ReachedNext ==
    ASSUME NEW s, Listed(s), Contents(s.broadcast) \subseteq DOMAIN s.sessions,
           NEW k \in Nat, k + 1 <= Len(s.broadcast), NEW v, Reached(s, v, k),
           NEW w, w = SendDataPacket(v, s.broadcast[k + 1])
    PROVE  Reached(s, w, k + 1)
<1>1. PICK id : id = s.broadcast[k + 1]
  OBVIOUS
<1>2. s.broadcast \in Seq(SessionIds) /\ Len(s.broadcast) \in Nat /\ k + 1 \in 1..Len(s.broadcast)
      /\ \A i, j \in 1..Len(s.broadcast) : s.broadcast[i] = s.broadcast[j] => i = j
  BY DEF Listed
<1>3. id \in Contents(s.broadcast) /\ id \in DOMAIN s.sessions
  BY <1>1, <1>2 DEF Contents
<1>4. /\ Owned(v) /\ Kept(s, v) /\ DOMAIN v.sessions = DOMAIN s.sessions
      /\ FirstKept(s, v)
  BY DEF Reached
<1>5. PICK p : p = PacketOf(id, NextRemoteId(v.sessions[id].remoteId))
  OBVIOUS
<1>6. p \notin DOMAIN v.packets
  <2>1. k + 1 > k
    OBVIOUS
  <2> QED
    BY <1>1, <1>2, <1>5, <2>1 DEF Reached
<1>7. w = SendDataPacket(v, id) /\ id \in DOMAIN v.sessions
  BY <1>1, <1>3, <1>4
<1>8. /\ Owned(w) /\ Kept(v, w) /\ w.queue # <<>>
      /\ FirstKept(v, w)
      /\ p[1] = id /\ DOMAIN w.packets = DOMAIN v.packets \cup {p}
      /\ DOMAIN w.sessions = DOMAIN v.sessions
      /\ \A i \in DOMAIN v.sessions : i # id => w.sessions[i] = v.sessions[i]
      /\ w.sessions[id].handshakeId = v.sessions[id].handshakeId
      /\ w.sessions[id].closed = v.sessions[id].closed
  <2>1. Owned(v)
    BY <1>4
  <2> QED
    BY ONLY <1>5, <1>6, <1>7, <2>1, SendDataOwned
<1>9. Kept(s, w)
  BY <1>4, <1>8, KeptTwice
<1>10. ASSUME NEW i \in DOMAIN s.sessions
       PROVE  /\ w.sessions[i].handshakeId = s.sessions[i].handshakeId
              /\ w.sessions[i].closed = s.sessions[i].closed
              /\ i \in Contents(s.broadcast) \/ w.sessions[i] = s.sessions[i]
  <2>1. /\ v.sessions[i].handshakeId = s.sessions[i].handshakeId
        /\ v.sessions[i].closed = s.sessions[i].closed
        /\ i \in Contents(s.broadcast) \/ v.sessions[i] = s.sessions[i]
    BY DEF Reached
  <2>2. CASE i = id
    BY ONLY <1>3, <1>8, <2>1, <2>2
  <2>3. CASE i # id
    <3>1. w.sessions[i] = v.sessions[i]
      BY <1>4, <1>8, <2>3
    <3> QED
      BY ONLY <2>1, <3>1
  <2> QED
    BY <2>2, <2>3
<1>11. ASSUME NEW j \in 1..Len(s.broadcast), j > k + 1
       PROVE  PacketOf(s.broadcast[j], NextRemoteId(w.sessions[s.broadcast[j]].remoteId))
                 \notin DOMAIN w.packets
  <2>1. PICK i : i = s.broadcast[j]
    OBVIOUS
  <2>2. i # id /\ i \in DOMAIN v.sessions
    <3>1. i \in Contents(s.broadcast)
      BY <2>1 DEF Contents
    <3>2. j # k + 1
      BY <1>2, <1>11
    <3> QED
      BY <1>1, <1>2, <1>4, <2>1, <3>1, <3>2
  <2>3. w.sessions[i] = v.sessions[i]
    BY <1>8, <2>2
  <2>4. PICK q : q = PacketOf(i, NextRemoteId(v.sessions[i].remoteId))
    OBVIOUS
  <2>5. q \notin DOMAIN v.packets
    <3>1. j > k
      BY <1>2, <1>11
    <3> QED
      BY <2>1, <2>4, <3>1 DEF Reached
  <2>6. q[1] = i
    BY <2>4 DEF PacketOf
  <2>7. q # p
    BY <1>8, <2>2, <2>6
  <2> QED
    BY <1>8, <2>1, <2>3, <2>4, <2>5, <2>7
<1>12. FirstKept(s, w)
  BY ONLY <1>4, <1>8 DEF FirstKept
<1>13. DOMAIN w.sessions = DOMAIN s.sessions /\ w.queue # <<>>
  BY <1>4, <1>8
<1> QED
  BY ONLY <1>8, <1>9, <1>10, <1>11, <1>12, <1>13 DEF Reached

\* All connected sessions are sent a packet, while their ids do not run out.
LEMMA BroadcastRuns ==
    ASSUME NEW s, Inv(s), s.broadcast # <<>>, IdsLeft(s), NEW t, t = Broadcast(s)
    PROVE  /\ Carried(s, t) /\ SameClock(s, t) /\ t.queue # <<>>
           /\ FirstKept(s, t)
<1>1. Owned(s) /\ TableInv(s) /\ ListInv(s)
  BY DEF Inv
<1>2. /\ Listed(s) /\ Contents(s.broadcast) \subseteq DOMAIN s.sessions
      /\ s.broadcast \in Seq(SessionIds)
  BY <1>1 DEF ListInv, Listed
<1>3. PICK count : count = Len(s.broadcast)
  OBVIOUS
<1>4. count \in Nat /\ count > 0
  BY <1>2, <1>3
<1>5. PICK f : /\ f[0] = s
               /\ \A k \in 1..count : f[k] = SendDataPacket(f[k - 1], s.broadcast[k])
               /\ t = Ended(f[count])
  <2>1. s.broadcast \in Seq(SessionIds)
    BY <1>2
  <2>2. PICK f : /\ f[0] = s
                 /\ \A k \in 1..Len(s.broadcast) : f[k] = SendDataPacket(f[k - 1], s.broadcast[k])
                 /\ t = Ended(f[Len(s.broadcast)])
    BY ONLY t = Broadcast(s), <2>1, BroadcastSteps
  <2> QED
    BY ONLY <1>3, <2>2
<1> DEFINE S == {m \in Nat : m <= count => Reached(s, f[m], m)}
<1>6. 0 \in S
  <2>1. Kept(s, s)
    BY DEF Kept, SameTable, SameClock
  <2>3. FirstKept(s, s)
    BY DEF FirstKept
  <2>2. ASSUME NEW j \in 1..Len(s.broadcast)
        PROVE  PacketOf(s.broadcast[j], NextRemoteId(s.sessions[s.broadcast[j]].remoteId))
                  \notin DOMAIN s.packets
    <3>1. s.broadcast[j] \in ToSet(s.broadcast)
      BY <1>2 DEF ToSet
    <3> QED
      BY <3>1 DEF IdsLeft
  <2> QED
    BY <1>1, <1>5, <2>1, <2>2, <2>3 DEF Reached
<1>7. ASSUME NEW m \in Nat, m \in S PROVE m + 1 \in S
  <2> SUFFICES ASSUME m + 1 <= count PROVE Reached(s, f[m + 1], m + 1)
    OBVIOUS
  <2>1. m + 1 \in 1..count /\ (m + 1) - 1 = m /\ m <= count
    BY <1>4
  <2>2. PICK v, w : v = f[m] /\ w = f[m + 1]
    OBVIOUS
  <2>3. Reached(s, v, m) /\ w = SendDataPacket(v, s.broadcast[m + 1]) /\ m + 1 <= Len(s.broadcast)
    BY <1>3, <1>5, <1>7, <2>1, <2>2
  <2>4. Listed(s) /\ Contents(s.broadcast) \subseteq DOMAIN s.sessions
    BY <1>2
  <2>5. Reached(s, w, m + 1)
    BY ONLY m \in Nat, <2>3, <2>4, ReachedNext
  <2> QED
    BY <2>2, <2>5
<1> HIDE DEF S
<1>8. count \in S
  BY <1>4, <1>6, <1>7, NatInductionSet
<1>9. PICK u : u = f[count]
  OBVIOUS
<1>10. Reached(s, u, count)
  BY <1>8, <1>9 DEF S
<1>11. /\ Owned(u) /\ Kept(s, u) /\ u.queue # <<>>
       /\ FirstKept(s, u)
       /\ DOMAIN u.sessions = DOMAIN s.sessions
       /\ \A id \in DOMAIN s.sessions :
             /\ u.sessions[id].handshakeId = s.sessions[id].handshakeId
             /\ u.sessions[id].closed = s.sessions[id].closed
             /\ id \in Contents(s.broadcast) \/ u.sessions[id] = s.sessions[id]
  BY <1>4, <1>10 DEF Reached
<1>12. t = Ended(u)
  BY <1>5, <1>9
<1>13. /\ Owned(t) /\ Frame(u, t) /\ (NearestIn(u) => NearestIn(t))
       /\ t.queue = u.queue /\ FirstKept(u, t)
  <2>1. Owned(u) /\ u.queue # <<>>
    BY <1>11
  <2> QED
    BY ONLY <1>12, <2>1, MarkedOwned
<1>14. /\ SameTable(s, t) /\ SameClock(s, t) /\ t.broadcast = s.broadcast
       /\ t.sessions = u.sessions /\ (NearestIn(s) => NearestIn(t))
  BY <1>11, <1>13 DEF Kept, Frame, SameTable, SameClock
<1>15. TableInv(t)
  <2>1. /\ DOMAIN t.sessions = DOMAIN s.sessions /\ SameTable(s, t)
        /\ \A id \in DOMAIN s.sessions : t.sessions[id].handshakeId = s.sessions[id].handshakeId
    BY <1>11, <1>14
  <2> QED
    BY ONLY <1>1, <2>1, TableKept
<1>16. ListInv(t)
  <2>1. ASSUME NEW id \in DOMAIN s.sessions
        PROVE  /\ t.sessions[id].handshakeId = s.sessions[id].handshakeId
               /\ t.sessions[id].closed <=> s.sessions[id].closed
               /\ Connected(s, id) \/ t.sessions[id].local = s.sessions[id].local
    <3>1. /\ t.sessions[id].handshakeId = s.sessions[id].handshakeId
          /\ t.sessions[id].closed = s.sessions[id].closed
          /\ id \in Contents(s.broadcast) \/ t.sessions[id] = s.sessions[id]
      BY ONLY id \in DOMAIN s.sessions, <1>11, <1>14
    <3>2. id \in Contents(s.broadcast) => Connected(s, id)
      BY <1>1 DEF ListInv, Settled
    <3> QED
      BY ONLY <3>1, <3>2
  <2>2. /\ DOMAIN t.sessions = DOMAIN s.sessions /\ t.broadcast = s.broadcast
        /\ t.nextPingTimer = s.nextPingTimer
    BY <1>11, <1>14 DEF SameClock
  <2> QED
    BY ONLY <1>1, <2>1, <2>2, ListKept
<1>17. FirstKept(s, t)
  BY ONLY <1>11, <1>13 DEF FirstKept
<1> QED
  BY <1>11, <1>13, <1>14, <1>15, <1>16, <1>17 DEF Inv, Carried

-------------------------------------------------------------------------------
(***************************************************************************)
(* Retransmissions                                                         *)
(***************************************************************************)

\* One more round of ResendProxyPackets().
Again(s) ==
    IF s.queue = <<>> \/ s.packets[Head(s.queue)].lastInChunk
    THEN s ELSE ResendPacket(s, Head(s.queue))

\* Resending goes on step by step, each from what the last one left.
LEMMA ResendSteps ==
    ASSUME NEW rounds \in Nat \ {0},
           rounds = Len(server.queue) * (Resends + ResendsClosing + 2)
    PROVE  \E f : /\ f[1] = ResendPacket(server, Head(server.queue))
                  /\ \A k \in 2..rounds : f[k] = Again(f[k - 1])
                  /\ ResendProxyPackets = f[rounds]
<1> DEFINE first == ResendPacket(server, Head(server.queue))
           Step(f, m) == [k \in 1..m |-> IF k = 1 THEN first ELSE Again(f[k - 1])]
           after == CHOOSE f : f = Step(f, rounds)
<1>1. \E f : f = Step(f, rounds)
  <2> DEFINE S == {m \in Nat : \E f : f = Step(f, m)}
  <2>1. 0 \in S
    <3>1. [k \in 1..0 |-> first] = Step([k \in 1..0 |-> first], 0)
      OBVIOUS
    <3> QED
      BY <3>1
  <2>2. ASSUME NEW m \in Nat, m \in S PROVE m + 1 \in S
    <3>1. PICK f : f = Step(f, m)
      BY <2>2
    <3> DEFINE g == [k \in 1..m + 1 |-> IF k = 1 THEN first ELSE Again(f[k - 1])]
    <3> HIDE DEF first
    <3>2. \A k \in 1..m : f[k] = g[k]
      BY <3>1
    <3>3. \A k \in 1..m + 1 : g[k] = Step(g, m + 1)[k]
      <4> TAKE k \in 1..m + 1
      <4>1. CASE k = 1
        BY <4>1
      <4>2. CASE k # 1
        <5>1. k - 1 \in 1..m
          BY <4>2
        <5> QED
          BY <3>2, <4>2, <5>1
      <4> QED
        BY <4>1, <4>2
    <3>4. g = Step(g, m + 1)
      BY <3>3
    <3> HIDE DEF g, Step
    <3> QED
      BY <3>4
  <2>3. Nat \subseteq S
    <3> HIDE DEF S
    <3> QED
      BY <2>1, <2>2, NatInductionSet
  <2> QED
    BY <2>3
<1>2. after = Step(after, rounds)
  <2> HIDE DEF Step
  <2> QED
    BY <1>1
<1>3. ResendProxyPackets = after[rounds]
  BY DEF ResendProxyPackets, Again
<1> HIDE DEF after, first
<1>4. ASSUME NEW k \in 1..rounds
      PROVE  after[k] = IF k = 1 THEN first ELSE Again(after[k - 1])
  BY <1>2, Zenon
<1>5. after[1] = first
  BY <1>4
<1>6. ASSUME NEW k \in 2..rounds PROVE after[k] = Again(after[k - 1])
  <2>1. k \in 1..rounds /\ k # 1
    OBVIOUS
  <2> QED
    BY <1>4, <2>1, Zenon
<1> QED
  BY <1>3, <1>5, <1>6 DEF first

\* The first packet is sent again, or its session is closed.
LEMMA HeadRuns ==
    ASSUME NEW s, Inv(s), s.queue # <<>>, NEW t, t = ResendPacket(s, Head(s.queue))
    PROVE  Carried(s, t)
<1>1. s.queue \in Seq(Packets) /\ DOMAIN s.packets = Contents(s.queue)
  BY DEF Inv, Owned, Running, Queued
<1>2. PICK p : p = Head(s.queue)
  OBVIOUS
<1>3. p \in DOMAIN s.packets
  <2>1. 1 \in 1..Len(s.queue) /\ p = s.queue[1]
    BY <1>1, <1>2
  <2> QED
    BY <1>1, <2>1 DEF Contents
<1>4. t = ResendPacket(s, p)
  BY <1>2
<1> QED
  BY ONLY Inv(s), <1>3, <1>4, ResendPacketRuns

\* So is the next one, unless a chunk ended.
LEMMA AgainRuns ==
    ASSUME NEW r, NEW s, Inv(s), Carried(r, s), NEW t, t = Again(s)
    PROVE  Carried(r, t)
<1>1. CASE s.queue = <<>> \/ s.packets[Head(s.queue)].lastInChunk
  BY <1>1 DEF Again
<1>2. CASE ~ (s.queue = <<>> \/ s.packets[Head(s.queue)].lastInChunk)
  <2>1. t = ResendPacket(s, Head(s.queue)) /\ s.queue # <<>>
    BY <1>2 DEF Again
  <2>2. Carried(s, t)
    BY ONLY Inv(s), <2>1, HeadRuns
  <2> QED
    BY <2>2 DEF Carried
<1> QED
  BY <1>1, <1>2

\* Packet after packet is sent again.
LEMMA ResendProxyPacketsRuns ==
    ASSUME Inv(server), server.queue # <<>>, NEW t, t = ResendProxyPackets
    PROVE  Carried(server, t)
<1>1. PICK rounds : rounds = Len(server.queue) * (Resends + ResendsClosing + 2)
  OBVIOUS
<1>2. rounds \in Nat \ {0}
  <2>1. server.queue \in Seq(Packets)
    BY DEF Inv, Owned, Running, Queued
  <2>2. PICK m : m = Len(server.queue)
    OBVIOUS
  <2>3. PICK n : n = Resends + ResendsClosing + 2
    OBVIOUS
  <2>4. m \in Nat \ {0} /\ n \in Nat \ {0}
    BY <2>1, <2>2, <2>3, Intervals
  <2>5. m * n \in Nat \ {0}
    BY ONLY <2>4
  <2> QED
    BY <1>1, <2>2, <2>3, <2>5
<1>3. PICK f : /\ f[1] = ResendPacket(server, Head(server.queue))
               /\ \A k \in 2..rounds : f[k] = Again(f[k - 1])
               /\ ResendProxyPackets = f[rounds]
  BY ONLY <1>1, <1>2, ResendSteps
<1> DEFINE S == {m \in Nat : m + 1 <= rounds => Carried(server, f[m + 1])}
<1>4. 0 \in S
  <2>1. PICK u : u = f[1]
    OBVIOUS
  <2>2. u = ResendPacket(server, Head(server.queue))
    BY <1>3, <2>1
  <2>3. Carried(server, u)
    BY ONLY Inv(server), server.queue # <<>>, <2>2, HeadRuns
  <2>4. 0 + 1 = 1
    OBVIOUS
  <2> QED
    BY <2>1, <2>3, <2>4
<1>5. ASSUME NEW m \in Nat, m \in S PROVE m + 1 \in S
  <2> SUFFICES ASSUME m + 1 + 1 <= rounds PROVE Carried(server, f[m + 1 + 1])
    OBVIOUS
  <2>1. PICK k : k = m + 1 + 1
    OBVIOUS
  <2>2. k \in 2..rounds /\ k - 1 = m + 1 /\ m + 1 <= rounds
    BY <1>2, <2>1
  <2>3. PICK u, v : u = f[m + 1] /\ v = f[k]
    OBVIOUS
  <2>4. Carried(server, u) /\ v = Again(u)
    BY <1>3, <1>5, <2>2, <2>3
  <2>5. Inv(u)
    BY <2>4 DEF Carried
  <2>6. Carried(server, v)
    BY ONLY <2>4, <2>5, AgainRuns
  <2> QED
    BY <2>1, <2>3, <2>6
<1> HIDE DEF S
<1>6. rounds - 1 \in S
  <2>1. rounds - 1 \in Nat
    BY <1>2
  <2> QED
    BY <1>4, <1>5, <2>1, NatInductionSet
<1>7. rounds - 1 + 1 = rounds /\ rounds <= rounds
  BY <1>2
<1>8. Carried(server, f[rounds])
  BY <1>6, <1>7 DEF S
<1> QED
  BY <1>3, <1>8

-------------------------------------------------------------------------------
(***************************************************************************)
(* Events                                                                  *)
(***************************************************************************)

\* A step leaves the event loop the nearest timer, if it had that; but see NearestKept.
Stepped(s, t) ==
    /\ Inv(t)
    /\ NearestIn(s) =>
          \/ NearestIn(t)
          \/ Overlooks(t) /\ s.dropTimer # Timeout /\ t.dropTimer = Timeout

\* The clock has no part in what else the invariant says.
LEMMA InvAlike ==
    ASSUME NEW s, Inv(s), NEW t, Running(t), SameContent(s, t), t.broadcast = s.broadcast,
           t.nextPingTimer = s.nextPingTimer
    PROVE  Inv(t)
<1>1. Owned(s) /\ TableInv(s) /\ ListInv(s)
  BY DEF Inv
<1>2. t.sessions = s.sessions /\ t.packets = s.packets /\ t.queue = s.queue /\ SameTable(s, t)
  BY DEF SameContent
<1>3. Owned(t)
  BY <1>1, <1>2, OwnedAlike
<1>4. TableInv(t)
  BY <1>1, <1>2, TableKept
<1>5. ListInv(t)
  BY <1>1, <1>2, ListKept
<1> QED
  BY <1>3, <1>4, <1>5 DEF Inv

\* The drop timer is the next one, though the first packet expires before the pings.
OverlooksFirst(s) ==
    /\ s.nextTimer = DropTimer /\ s.nextPingTimer # NoTimer /\ s.queue # <<>>
    /\ ~ s.pingTimer < s.packets[s.queue[1]].resendTimer

\* The first packet is the one to wait for.
LEMMA OverlooksMeans ==
    ASSUME NEW s, Running(s)
    PROVE  Overlooks(s) <=> OverlooksFirst(s)
<1>1. s.queue \in Seq(Packets)
      /\ s.nextResendTimer = IF s.queue = <<>> THEN NoTimer ELSE s.queue[1]
  BY DEF Running, Queued
<1>2. s.queue # <<>> => s.queue[1] \in Packets /\ s.nextResendTimer = s.queue[1]
  BY <1>1
<1>3. ASSUME s.queue # <<>>
      PROVE  /\ s.nextResendTimer # NoTimer
             /\ TimeLeft(s, s.nextResendTimer) = s.packets[s.queue[1]].resendTimer
  BY <1>2, <1>3, TimerNames DEF TimeLeft
<1>4. TimeLeft(s, PingTimer) = s.pingTimer
  BY TimerNames DEF TimeLeft
<1> QED
  BY ONLY <1>1, <1>3, <1>4 DEF Overlooks, OverlooksFirst, Smaller

\* The drop timer is restarted.
LEMMA DropTimerRestartInv ==
    ASSUME NEW s, Inv(s), NEW t, t = DropTimerRestart(s)
    PROVE  /\ Inv(t) /\ SameContent(s, t) /\ t.broadcast = s.broadcast
           /\ t.dropTimer = Timeout
           /\ t.nextPingTimer = s.nextPingTimer
           /\ NearestIn(s) => \/ NearestIn(t)
                              \/ Overlooks(t) /\ s.dropTimer # Timeout
<1>1. Running(s)
  BY DEF Inv, Owned
<1>2. /\ Running(t) /\ SameContent(s, t) /\ t.broadcast = s.broadcast
      /\ t.nextPingTimer = s.nextPingTimer /\ t.dropTimer = Timeout
      /\ NearestIn(s) => \/ NearestIn(t)
                         \/ Overlooks(t) /\ s.dropTimer # Timeout
  BY <1>1, DropTimerRestartRuns
<1> QED
  BY <1>2, InvAlike

\* A session that is found under the id of its client has the packet of its handshake only,
\* if any.
LEMMA OpeningFacts ==
    ASSUME NEW s, Inv(s), NEW request \in RequestIds, GetSession(s, request) # NoSession,
           NEW id, id = GetSession(s, request), s.sessions[id].local # <<>>
    PROVE  /\ id \in DOMAIN s.sessions /\ id \in SessionIds /\ Opening(s, id)
           /\ ~ s.sessions[id].closed /\ ~ Connected(s, id)
           /\ s.sessions[id].local = <<PacketOf(id, 0)>> /\ PacketOf(id, 0) \in Packets
           /\ PacketOf(id, 0) \in DOMAIN s.packets
           /\ id \notin Contents(s.broadcast)
<1>1. Owned(s) /\ TableInv(s) /\ ListInv(s)
  BY DEF Inv
<1>2. id \in DOMAIN s.sessions /\ id \in SessionIds /\ s.sessions[id].handshakeId = request
  BY <1>1 DEF TableInv, Owned
<1>3. Opening(s, id)
  BY <1>2, IdFacts DEF Opening
<1>4. Settled(s, id)
  BY <1>1, <1>2 DEF ListInv
<1>5. /\ ~ s.sessions[id].closed /\ ~ Connected(s, id) /\ id \notin Contents(s.broadcast)
      /\ s.sessions[id].local = <<PacketOf(id, 0)>>
  BY <1>3, <1>4 DEF Settled, Connected
<1>6. PacketOf(id, 0) \in Packets
  BY <1>2, IdFacts
<1>7. PacketOf(id, 0) \in DOMAIN s.packets
  <2>1. PICK local : local = s.sessions[id].local
    OBVIOUS
  <2>2. Len(local) = 1 /\ local[1] = PacketOf(id, 0)
    BY <1>5, <1>6, <2>1, OneElement
  <2>3. LocalOf(s, id)
    BY <1>1, <1>2 DEF Owned
  <2>4. 1 \in 1..Len(local)
    BY <2>2
  <2> QED
    BY <2>1, <2>2, <2>3, <2>4 DEF LocalOf
<1> QED
  BY <1>2, <1>3, <1>5, <1>6, <1>7

\* A client opens a session, or asks for the packet that opens it again.
LEMMA StartHandshakeStep ==
    ASSUME Inv(server), NEW request \in RequestIds, StartHandshake(request)
    PROVE  Stepped(server, server')
<1>1. CASE GetSession(server, request) # NoSession
  <2>1. PICK id : id = GetSession(server, request)
    OBVIOUS
  <2>2. id \in SessionIds /\ server.sessions[id].local = <<PacketOf(id, 0)>>
        /\ PacketOf(id, 0) \in Packets /\ PacketOf(id, 0) \in DOMAIN server.packets
    <3>1. server.sessions[id].local # <<>>
      BY <1>1, <2>1 DEF StartHandshake, NoAcceptPacket
    <3> QED
      BY ONLY Inv(server), request \in RequestIds, <1>1, <2>1, <3>1, OpeningFacts
  <2>3. PICK p : p = Head(server.sessions[id].local)
    OBVIOUS
  <2>4. p = PacketOf(id, 0)
    BY <2>2, <2>3, OneElement
  <2>5. server' = ResendPacket(server, p)
    BY <1>1, <2>1, <2>3 DEF StartHandshake
  <2>6. p \in DOMAIN server.packets
    BY <2>2, <2>4
  <2>7. Carried(server, server')
    BY ONLY Inv(server), <2>5, <2>6, ResendPacketRuns
  <2> QED
    BY ONLY <2>7 DEF Carried, Stepped
<1>2. CASE GetSession(server, request) = NoSession
  <2>1. server.connectedSessions # Limit
    BY DEF StartHandshake
  <2>2. PICK session : session = NewSessionId(server)
    OBVIOUS
  <2>3. PICK u : u = Opened(AddSessionToChunk(AddSessionToChunk(server, request, session),
                                              session, session), session, request)
    OBVIOUS
  <2>4. server' = SendNewPacket(u, PacketOf(session, 0), Resends, TRUE)
    BY <1>2, <2>2, <2>3 DEF StartHandshake, Opened, NewSession
  <2>5. Carried(server, server')
    BY ONLY Inv(server), request \in RequestIds, <1>2, <2>1, <2>2, <2>3, <2>4, OpenSessionRuns
  <2> QED
    BY ONLY <2>5 DEF Carried, Stepped
<1> QED
  BY <1>1, <1>2

\* A client closes its session.
LEMMA CloseOpenSessionStep ==
    ASSUME Inv(server), NEW id \in SessionIds, CloseOpenSession(id)
    PROVE  Stepped(server, server')
<1>1. Owned(server) /\ TableInv(server) /\ ListInv(server) /\ Running(server)
  BY DEF Inv, Owned
<1>2. id \in DOMAIN server.sessions
  BY <1>1 DEF CloseOpenSession, TableInv
<1>3. Settled(server, id) /\ Listed(server)
      /\ Contents(server.broadcast) \subseteq DOMAIN server.sessions
      /\ \A i \in DOMAIN server.sessions : Settled(server, i)
  BY <1>1, <1>2 DEF ListInv
<1>4. PICK s : s = IF Connected(server, id) THEN DequeueSession(server, id) ELSE server
  OBVIOUS
<1>5. server' = ReleaseSession(FlushPackets(s, id), id)
  BY <1>4 DEF CloseOpenSession, Connected
<1>6. /\ Owned(s) /\ TableInv(s) /\ (NearestIn(server) => NearestIn(s))
      /\ s.sessions = server.sessions /\ ListBut(s, id)
  <2>1. CASE Connected(server, id)
    <3>1. s = DequeueSession(server, id) /\ id \in Contents(server.broadcast)
      BY <1>3, <1>4, <2>1 DEF Settled
    <3>2. /\ Running(s) /\ Listed(s) /\ SameContent(server, s)
          /\ NearestIn(server) => NearestIn(s)
          /\ Contents(s.broadcast) = Contents(server.broadcast) \ {id}
      BY ONLY <1>1, <1>3, <3>1, DequeueSessionRuns
    <3>3. s.sessions = server.sessions /\ s.packets = server.packets /\ s.queue = server.queue
          /\ SameTable(server, s)
      BY <3>2 DEF SameContent
    <3>4. Owned(s)
      BY ONLY <1>1, <3>2, <3>3, OwnedAlike
    <3>5. TableInv(s)
      BY ONLY <1>1, <3>3, TableKept
    <3>6. ListBut(s, id)
      BY ONLY <1>3, <3>2, <3>3 DEF ListBut, Settled, Connected, Opening
    <3> QED
      BY <3>2, <3>3, <3>4, <3>5, <3>6
  <2>2. CASE ~ Connected(server, id)
    <3>1. s = server /\ id \notin Contents(server.broadcast)
      BY <1>3, <1>4, <2>2 DEF Settled
    <3>2. ListBut(server, id)
      BY <1>3, <3>1 DEF ListBut
    <3> QED
      BY <1>1, <3>1, <3>2
  <2> QED
    BY <2>1, <2>2
<1>7. id \in DOMAIN s.sessions
  BY <1>2, <1>6
<1>8. Carried(s, server')
  BY ONLY <1>5, <1>6, <1>7, ReleaseFlushedRuns
<1> QED
  BY ONLY <1>6, <1>8 DEF Carried, Stepped

\* A client agrees to a closing request.
LEMMA CloseClosingSessionStep ==
    ASSUME Inv(server), NEW id \in SessionIds, CloseClosingSession(id)
    PROVE  Stepped(server, server')
<1>1. Owned(server) /\ TableInv(server) /\ ListInv(server)
  BY DEF Inv
<1>2. id \in DOMAIN server.sessions /\ server.sessions[id].closed
  BY <1>1 DEF CloseClosingSession, TableInv
<1>3. PICK p : p = PacketOf(id, 0)
  OBVIOUS
<1>4. server.sessions[id].local = <<p>> /\ p \in Packets /\ p[1] = id
  <2>1. Settled(server, id)
    BY <1>1, <1>2 DEF ListInv
  <2>2. server.sessions[id].local = <<PacketOf(id, 0)>>
    BY <1>2, <2>1 DEF Settled, Connected
  <2> QED
    BY ONLY id \in SessionIds, <1>3, <2>2, IdFacts
<1>5. p \in DOMAIN server.packets
  <2>1. PICK local : local = server.sessions[id].local
    OBVIOUS
  <2>2. Len(local) = 1 /\ local[1] = p
    BY <1>4, <2>1, OneElement
  <2>3. LocalOf(server, id)
    BY <1>1, <1>2 DEF Owned
  <2>4. 1 \in 1..Len(local)
    BY <2>2
  <2> QED
    BY <2>1, <2>2, <2>3, <2>4 DEF LocalOf
<1>6. Head(server.sessions[id].local) = p
  BY <1>4, OneElement
<1>7. server' = ReleaseSession(ReleasePacket(server, p), p[1]) /\ server.sessions[p[1]].closed
  BY <1>2, <1>4, <1>6 DEF CloseClosingSession
<1>8. Carried(server, server')
  BY ONLY Inv(server), <1>5, <1>7, ReleaseClosedRuns
<1> QED
  BY ONLY <1>8 DEF Carried, Stepped

\* The session that has completed its handshake, before the drop timer is restarted.
LEMMA CompletedRuns ==
    ASSUME NEW s, Inv(s), NEW request \in RequestIds, GetSession(s, request) # NoSession,
           NEW id, id = GetSession(s, request), s.sessions[id].local # <<>>,
           NEW t, t = EnqueueSession(CompletedHandshake(AcknowledgeNextPacket(s, id), id), id)
    PROVE  Carried(s, t) /\ t.dropTimer = s.dropTimer
<1>1. Owned(s) /\ TableInv(s) /\ ListInv(s)
  BY DEF Inv
<1>2. /\ id \in DOMAIN s.sessions /\ id \in SessionIds /\ Opening(s, id)
      /\ ~ s.sessions[id].closed /\ ~ Connected(s, id)
      /\ s.sessions[id].local = <<PacketOf(id, 0)>> /\ PacketOf(id, 0) \in Packets
      /\ id \notin Contents(s.broadcast)
  BY ONLY Inv(s), request \in RequestIds, GetSession(s, request) # NoSession,
          id = GetSession(s, request), s.sessions[id].local # <<>>, OpeningFacts
<1>3. s.sessions[id].local # <<>>
  OBVIOUS
<1>4. PICK u : u = AcknowledgeNextPacket(s, id)
  OBVIOUS
<1>5. /\ Owned(u) /\ Kept(s, u)
      /\ u.sessions = Relocated(s.sessions, id, Tail(s.sessions[id].local))
  <2>1. id \in DOMAIN s.sessions /\ Owned(s)
    BY <1>1, <1>2
  <2> QED
    BY ONLY <1>3, <1>4, <2>1, AcknowledgeNextOwned
<1>6. PICK rest : rest = Tail(s.sessions[id].local)
  OBVIOUS
<1>7. /\ u.sessions \in [DOMAIN s.sessions -> SessionType]
      /\ \A i \in DOMAIN s.sessions : i # id => u.sessions[i] = s.sessions[i]
      /\ u.sessions[id].handshakeId = s.sessions[id].handshakeId
      /\ u.sessions[id].closed = s.sessions[id].closed
  <2>1. s.sessions \in [DOMAIN s.sessions -> SessionType] /\ id \in DOMAIN s.sessions
    BY <1>1, <1>2 DEF Owned
  <2>2. s.sessions[id].local \in Seq(Packets)
    BY <2>1 DEF SessionType
  <2>3. rest \in Seq(Packets)
    BY ONLY <1>3, <1>6, <2>2
  <2>4. u.sessions = Relocated(s.sessions, id, rest)
    BY <1>5, <1>6
  <2> QED
    BY ONLY <2>1, <2>3, <2>4, RelocatedFacts
<1>8. /\ SameTable(s, u) /\ SameClock(s, u) /\ u.broadcast = s.broadcast
      /\ NearestIn(s) => NearestIn(u)
  BY <1>5 DEF Kept
<1>9. DOMAIN u.sessions = DOMAIN s.sessions /\ Opening(u, id)
  BY <1>2, <1>7 DEF Opening
<1>10. TableInv(u)
  <2>1. \A i \in DOMAIN s.sessions : u.sessions[i].handshakeId = s.sessions[i].handshakeId
    BY <1>7
  <2> QED
    BY ONLY <1>1, <1>8, <1>9, <2>1, TableKept
<1>11. PICK v : v = CompletedHandshake(u, id)
  OBVIOUS
<1>12. /\ Owned(v) /\ TableInv(v) /\ (NearestIn(u) => NearestIn(v))
       /\ v.broadcast = u.broadcast /\ SameClock(u, v) /\ SameQueue(u, v)
       /\ DOMAIN v.sessions = DOMAIN u.sessions
       /\ \A i \in DOMAIN u.sessions : i # id => v.sessions[i] = u.sessions[i]
       /\ v.sessions[id].handshakeId = NoSession
       /\ v.sessions[id].closed = u.sessions[id].closed
       /\ v.sessions[id].local = u.sessions[id].local
  <2>1. Owned(u) /\ id \in DOMAIN u.sessions
    BY <1>2, <1>5, <1>9
  <2> QED
    BY ONLY <1>9, <1>10, <1>11, <2>1, CompletedHandshakeFacts
<1>13. /\ DOMAIN v.sessions = DOMAIN s.sessions
       /\ \A i \in DOMAIN s.sessions : i # id => v.sessions[i] = s.sessions[i]
       /\ v.sessions[id].handshakeId = NoSession
       /\ v.broadcast = s.broadcast /\ SameClock(s, v) /\ (NearestIn(s) => NearestIn(v))
  BY <1>7, <1>8, <1>9, <1>12 DEF SameClock
<1>14. ~ v.sessions[id].closed
  <2>1. v.sessions[id].closed = s.sessions[id].closed
    BY ONLY <1>7, <1>12
  <2>2. ~ s.sessions[id].closed
    BY <1>2
  <2> QED
    BY ONLY <2>1, <2>2
<1>15. Running(v) /\ Listed(v) /\ id \in SessionIds /\ id \notin Contents(v.broadcast)
  BY <1>1, <1>2, <1>12, <1>13 DEF Owned, ListInv, Listed, SameClock
<1>16. t = EnqueueSession(v, id)
  BY <1>4, <1>11
<1>17. /\ Running(t) /\ Listed(t) /\ SameContent(v, t) /\ (NearestIn(v) => NearestIn(t))
       /\ Contents(t.broadcast) = Contents(v.broadcast) \cup {id}
       /\ t.dropTimer = v.dropTimer
  BY ONLY <1>15, <1>16, EnqueueSessionRuns
<1>18. /\ t.sessions = v.sessions /\ t.packets = v.packets /\ t.queue = v.queue
       /\ SameTable(v, t)
  BY ONLY <1>17 DEF SameContent
<1>19. Owned(t)
  <2>1. Owned(v) /\ Running(t)
    BY <1>12, <1>17
  <2> QED
    BY ONLY <1>18, <2>1, OwnedAlike
<1>20. TableInv(t)
  <2>1. TableInv(v)
    BY <1>12
  <2> QED
    BY ONLY <1>18, <2>1, TableKept
<1>21. ListInv(t)
  <2>1. Settled(t, id)
    BY ONLY <1>13, <1>14, <1>17, <1>18 DEF Settled, Connected, Opening
  <2>2. ASSUME NEW i \in DOMAIN s.sessions, i # id PROVE Settled(t, i)
    <3>1. Settled(s, i) /\ t.sessions[i] = s.sessions[i]
      BY <1>1, <1>13, <1>18, <2>2 DEF ListInv
    <3>2. i \in Contents(t.broadcast) <=> i \in Contents(s.broadcast)
      BY <1>13, <1>17, <2>2
    <3> QED
      BY ONLY <3>1, <3>2 DEF Settled, Connected, Opening
  <2>3. Contents(t.broadcast) \subseteq DOMAIN t.sessions
    BY <1>1, <1>2, <1>13, <1>17, <1>18 DEF ListInv
  <2>4. DOMAIN t.sessions = DOMAIN s.sessions /\ Listed(t)
    BY <1>13, <1>17, <1>18
  <2> QED
    BY ONLY <2>1, <2>2, <2>3, <2>4 DEF ListInv
<1>22. t.dropTimer = s.dropTimer
  BY <1>13, <1>17 DEF SameClock
<1>23. NearestIn(s) => NearestIn(t)
  BY <1>13, <1>17
<1> QED
  BY ONLY <1>19, <1>20, <1>21, <1>22, <1>23 DEF Inv, Carried

\* A client acknowledges that its session is open.
LEMMA CompleteHandshakeStep ==
    ASSUME Inv(server), NEW request \in RequestIds, CompleteHandshake(request)
    PROVE  Stepped(server, server')
<1>1. GetSession(server, request) # NoSession
  BY DEF CompleteHandshake
<1>2. PICK id : id = GetSession(server, request)
  OBVIOUS
<1>3. PICK s : s = EnqueueSession(CompletedHandshake(AcknowledgeNextPacket(server, id), id), id)
  OBVIOUS
<1>4. Carried(server, s) /\ s.dropTimer = server.dropTimer
  <2>1. server.sessions[id].local # <<>>
    BY <1>1, <1>2 DEF CompleteHandshake, NoAcceptPacket
  <2> QED
    BY ONLY Inv(server), request \in RequestIds, <1>1, <1>2, <1>3, <2>1, CompletedRuns
<1>5. server' = DropTimerRestart(s)
  BY <1>2, <1>3 DEF CompleteHandshake
<1>6. /\ Inv(server') /\ server'.dropTimer = Timeout
      /\ NearestIn(s) => \/ NearestIn(server')
                         \/ Overlooks(server') /\ s.dropTimer # Timeout
  <2>1. Inv(s)
    BY <1>4 DEF Carried
  <2> QED
    BY ONLY <1>5, <2>1, DropTimerRestartInv
<1> QED
  BY ONLY <1>4, <1>6 DEF Carried, Stepped

\* A client acknowledges packets, the oldest ones of its session.
LEMMA AcknowledgeLocalPacketStep ==
    ASSUME Inv(server), NEW id \in SessionIds, NEW ackId, AcknowledgeLocalPacket(id, ackId)
    PROVE  Stepped(server, server')
<1>1. Owned(server) /\ TableInv(server) /\ ListInv(server)
  BY DEF Inv
<1>2. id \in DOMAIN server.sessions /\ ~ server.sessions[id].closed
  BY <1>1 DEF AcknowledgeLocalPacket, TableInv
<1>3. PICK local : local = server.sessions[id].local
  OBVIOUS
<1>4. PICK count \in 1..Len(local) : server' = Acknowledged(server, id, count)
  BY <1>3 DEF AcknowledgeLocalPacket
<1>5. server.sessions \in [DOMAIN server.sessions -> SessionType] /\ local \in Seq(Packets)
  BY <1>1, <1>2, <1>3 DEF Owned, SessionType
<1>6. count \in 0..Len(local) /\ Len(local) \in Nat
  BY <1>5
<1>7. PICK rest : rest = SubSeq(local, count + 1, Len(local))
  OBVIOUS
<1>8. /\ Owned(server') /\ Kept(server, server')
      /\ server'.sessions = Relocated(server.sessions, id, rest)
  <2>1. /\ Owned(server') /\ Kept(server, server')
        /\ server'.sessions = Relocated(server.sessions, id, SubSeq(local, count + 1, Len(local)))
    BY <1>1, <1>2, <1>3, <1>4, <1>6, AcknowledgedOwned
  <2> QED
    BY <1>7, <2>1
<1>9. rest \in Seq(Packets)
  BY <1>5, <1>6, <1>7
<1>10. /\ server'.sessions \in [DOMAIN server.sessions -> SessionType]
       /\ \A i \in DOMAIN server.sessions : i # id => server'.sessions[i] = server.sessions[i]
       /\ server'.sessions[id].handshakeId = server.sessions[id].handshakeId
       /\ server'.sessions[id].closed = server.sessions[id].closed
  <2>1. id \in DOMAIN server.sessions
    BY <1>2
  <2>2. server'.sessions = Relocated(server.sessions, id, rest)
    BY <1>8
  <2>3. server.sessions \in [DOMAIN server.sessions -> SessionType]
    BY <1>5
  <2> QED
    BY ONLY <1>9, <2>1, <2>2, <2>3, RelocatedFacts
<1>11. /\ SameTable(server, server') /\ server'.broadcast = server.broadcast
       /\ server'.nextPingTimer = server.nextPingTimer
       /\ NearestIn(server) => NearestIn(server')
  BY <1>8 DEF Kept, SameClock
<1>12. DOMAIN server'.sessions = DOMAIN server.sessions
  BY <1>10
<1>13. ASSUME NEW i \in DOMAIN server.sessions
       PROVE  /\ server'.sessions[i].handshakeId = server.sessions[i].handshakeId
              /\ server'.sessions[i].closed <=> server.sessions[i].closed
              /\ \/ Connected(server, i) \/ server'.sessions[i].local = server.sessions[i].local
                 \/ Opening(server, i) /\ server'.sessions[i].local = <<>>
  <2>1. CASE i = id
    <3>1. CASE Connected(server, id)
      BY ONLY <1>10, <2>1, <3>1
    <3>2. CASE ~ Connected(server, id)
      <4>1. Opening(server, id)
        BY <1>2, <3>2 DEF Connected
      <4>2. Settled(server, id)
        BY <1>1, <1>2 DEF ListInv
      <4>3. local = <<PacketOf(id, 0)>>
        <5>1. local = <<PacketOf(id, 0)>> \/ local = <<>>
          BY <1>3, <3>2, <4>2 DEF Settled
        <5> QED
          BY <1>4, <5>1
      <4>4. PICK p : p = PacketOf(id, 0)
        OBVIOUS
      <4>5. Len(local) = 1
        BY ONLY <4>3, <4>4
      <4>6. rest = <<>>
        BY ONLY <1>4, <1>5, <1>7, <4>5
      <4>7. server'.sessions[id].local = rest
        BY ONLY <1>2, <1>5, <1>8, <1>9, RelocatedFacts
      <4> QED
        BY ONLY <1>10, <2>1, <4>1, <4>6, <4>7
    <3> QED
      BY <3>1, <3>2
  <2>2. CASE i # id
    BY ONLY i \in DOMAIN server.sessions, <1>10, <2>2
  <2> QED
    BY <2>1, <2>2
<1>14. TableInv(server')
  BY <1>1, <1>11, <1>12, <1>13, TableKept
<1>15. ListInv(server')
  BY ONLY <1>1, <1>11, <1>12, <1>13, ListKept
<1> QED
  BY <1>8, <1>11, <1>14, <1>15 DEF Inv, Stepped

\* The switcher sends something.
LEMMA RelayDataStep ==
    ASSUME Inv(server), NEW commands \in BOOLEAN, RelayData(commands)
    PROVE  Stepped(server, server')
<1>1. PICK s : s = DropTimerRestart(server)
  OBVIOUS
<1>2. /\ Inv(s) /\ SameContent(server, s) /\ s.broadcast = server.broadcast
      /\ s.dropTimer = Timeout
      /\ NearestIn(server) => \/ NearestIn(s)
                              \/ Overlooks(s) /\ server.dropTimer # Timeout
  BY <1>1, DropTimerRestartInv
<1>3. server' = IF commands /\ s.broadcast # <<>> THEN Broadcast(s) ELSE s
  BY <1>1 DEF RelayData
<1>4. CASE commands /\ s.broadcast # <<>>
  <2>1. IdsLeft(server)
    BY <1>4 DEF RelayData
  <2>2. IdsLeft(s)
    BY <1>2, <2>1 DEF IdsLeft, SameContent
  <2>3. server' = Broadcast(s) /\ s.broadcast # <<>> /\ Inv(s)
    BY <1>2, <1>3, <1>4
  <2>4. /\ Carried(s, server') /\ SameClock(s, server')
        /\ FirstKept(s, server')
    BY ONLY <2>2, <2>3, BroadcastRuns
  <2>5. Inv(server') /\ (NearestIn(s) => NearestIn(server')) /\ server'.dropTimer = s.dropTimer
    BY <2>4 DEF Carried, SameClock
  <2>6. ASSUME Overlooks(s) PROVE Overlooks(server')
    <3>1. Running(s) /\ Running(server')
      BY <2>3, <2>5 DEF Inv, Owned
    <3>2. OverlooksFirst(s)
      BY ONLY <2>6, <3>1, OverlooksMeans
    <3>3. OverlooksFirst(server')
      BY ONLY <2>4, <3>2 DEF OverlooksFirst, FirstKept, SameClock
    <3> QED
      BY ONLY <3>1, <3>3, OverlooksMeans
  <2> QED
    BY <1>2, <2>4, <2>5, <2>6 DEF Stepped
<1>5. CASE ~ (commands /\ s.broadcast # <<>>)
  <2>1. server' = s
    BY <1>3, <1>5
  <2> QED
    BY <1>2, <2>1 DEF Stepped
<1> QED
  BY <1>4, <1>5

\* The next timer expired: pings, packets that are sent again, or the drop timer.
LEMMA TimerEventStep ==
    ASSUME Inv(server), TimerEvent
    PROVE  Stepped(server, server')
<1>1. Owned(server) /\ TableInv(server) /\ ListInv(server) /\ Running(server) /\ Listed(server)
  BY DEF Inv, Owned, ListInv
<1>2. /\ server.nextTimer \in TimersOf(server) /\ server.nextTimer # NoTimer
      /\ server.nextPingTimer \in {PingTimer, NoTimer}
      /\ server.nextResendTimer \notin {PingTimer, DropTimer}
      /\ server.queue = <<>> <=> server.nextResendTimer = NoTimer
  <2>1. /\ server.nextPingTimer \in {PingTimer, NoTimer} /\ server.nextTimer \in TimersOf(server)
        /\ server.nextResendTimer = IF server.queue = <<>> THEN NoTimer ELSE server.queue[1]
        /\ server.queue \in Seq(Packets)
    BY <1>1 DEF Running, Clocked, Queued
  <2>2. server.queue # <<>> => server.queue[1] \in Packets
    BY <2>1
  <2> QED
    BY <2>1, <2>2, TimerNames DEF TimersOf
<1>3. CASE server.nextTimer = server.nextPingTimer
  <2>1. server.nextTimer = PingTimer /\ server.nextTimer # server.nextResendTimer
        /\ server.nextPingTimer # NoTimer
    BY <1>2, <1>3, TimerNames
  <2>2. server' = PingProxySessions(server) /\ IdsLeft(server)
    BY <1>3, <2>1 DEF TimerEvent
  <2>3. server.broadcast # <<>>
    BY <1>1, <2>1 DEF Listed
  <2>4. PICK s : s = Broadcast(server)
    OBVIOUS
  <2>5. Carried(server, s) /\ s.queue # <<>>
    BY <2>2, <2>3, <2>4, BroadcastRuns
  <2>6. server' = PingTimerRestart(s)
    BY <2>2, <2>4 DEF PingProxySessions
  <2>7. Inv(s) /\ Running(s) /\ s.queue # <<>>
    BY <2>5 DEF Carried, Inv, Owned
  <2>8. /\ Running(server') /\ SameContent(s, server') /\ server'.broadcast = s.broadcast
        /\ server'.nextPingTimer = s.nextPingTimer /\ NearestIn(server')
    BY ONLY <2>6, <2>7, PingTimerRestartRuns
  <2>9. Inv(server')
    BY ONLY <2>7, <2>8, InvAlike
  <2> QED
    BY <2>8, <2>9 DEF Stepped
<1>4. CASE server.nextTimer = server.nextResendTimer
  <2>1. server.nextTimer # server.nextPingTimer /\ server.queue # <<>>
    BY <1>2, <1>4
  <2>2. server' = ResendProxyPackets
    BY <1>4, <2>1 DEF TimerEvent
  <2>3. Carried(server, server')
    BY <2>1, <2>2, ResendProxyPacketsRuns
  <2> QED
    BY <2>3 DEF Carried, Stepped
<1>5. CASE server.nextTimer \notin {server.nextPingTimer, server.nextResendTimer}
  <2>1. server' = DropTimerRestart(server)
    BY <1>5 DEF TimerEvent
  <2>2. /\ Inv(server') /\ server'.dropTimer = Timeout
        /\ NearestIn(server) => \/ NearestIn(server')
                                \/ Overlooks(server') /\ server.dropTimer # Timeout
    BY <2>1, DropTimerRestartInv
  <2> QED
    BY <2>2 DEF Stepped
<1> QED
  BY <1>3, <1>4, <1>5

\* Time that passes keeps the order of timers and their range.
LEMMA PassedFacts ==
    /\ \A x \in Int : Passed(x) \in Int
    /\ \A x, y \in Int : x <= y => Passed(x) <= Passed(y)
    /\ \A x \in Int : x > 0 => Passed(x) = x - 1
    /\ \A x \in Int, top \in Nat : x \in -PastMax..top => Passed(x) \in -PastMax..top
BY Intervals DEF Passed

\* Time passes for every packet alike.
LEMMA TickPackets ==
    ASSUME NEW s, Running(s), NEW packets,
           packets = [p \in DOMAIN s.packets |-> [s.packets[p] EXCEPT !.resendTimer = Passed(@)]]
    PROVE  /\ packets \in [DOMAIN s.packets -> PacketType]
           /\ \A p \in DOMAIN s.packets :
                 packets[p].resendTimer = Passed(s.packets[p].resendTimer)
<1>1. s.packets \in [DOMAIN s.packets -> PacketType]
  BY DEF Running, Queued
<1>2. ASSUME NEW p \in DOMAIN s.packets
      PROVE  /\ packets[p] \in PacketType
             /\ packets[p].resendTimer = Passed(s.packets[p].resendTimer)
  <2>1. s.packets[p] \in PacketType
    BY <1>1
  <2>2. PICK left : left = s.packets[p].resendTimer
    OBVIOUS
  <2>3. left \in -PastMax..ResendTime /\ left \in Int
    BY <2>1, <2>2, Intervals DEF PacketType
  <2>4. Passed(left) \in -PastMax..ResendTime
    BY <2>3, PassedFacts, Intervals
  <2>5. packets[p] = [s.packets[p] EXCEPT !.resendTimer = Passed(left)]
    BY <2>2
  <2> QED
    BY ONLY <2>1, <2>2, <2>4, <2>5 DEF PacketType
<1> QED
  BY <1>2

\* It passes for all timers alike, so that the nearest one stays that.
LEMMA TickRuns ==
    ASSUME Running(server), Tick
    PROVE  /\ Running(server')
           /\ server'.sessions = server.sessions /\ server'.broadcast = server.broadcast
           /\ SameTable(server, server') /\ server'.queue = server.queue
           /\ DOMAIN server'.packets = DOMAIN server.packets
           /\ server'.nextPingTimer = server.nextPingTimer
           /\ NearestIn(server) => NearestIn(server')
<1> DEFINE packets == [p \in DOMAIN server.packets |->
                          [server.packets[p] EXCEPT !.resendTimer = Passed(@)]]
           ping == IF server.nextPingTimer = NoTimer THEN 0 ELSE Passed(server.pingTimer)
           drop == Passed(server.dropTimer)
<1>1. packets = [p \in DOMAIN server.packets |->
                    [server.packets[p] EXCEPT !.resendTimer = Passed(@)]]
  OBVIOUS
<1>2. ping = IF server.nextPingTimer = NoTimer THEN 0 ELSE Passed(server.pingTimer)
  OBVIOUS
<1>3. drop = Passed(server.dropTimer)
  OBVIOUS
<1>4. server' = [server EXCEPT !.pingTimer = ping, !.dropTimer = drop, !.packets = packets]
  BY DEF Tick
<1> HIDE DEF packets, ping, drop
<1>5. /\ packets \in [DOMAIN server.packets -> PacketType]
      /\ \A p \in DOMAIN server.packets :
            packets[p].resendTimer = Passed(server.packets[p].resendTimer)
  BY <1>1, TickPackets
<1>6. DOMAIN server = Fields /\ Queued(server) /\ Clocked(server)
  BY DEF Running
<1>7. /\ DOMAIN server' = Fields
      /\ server'.sessions = server.sessions /\ server'.broadcast = server.broadcast
      /\ SameTable(server, server') /\ server'.queue = server.queue
      /\ server'.packets = packets /\ server'.pingTimer = ping /\ server'.dropTimer = drop
      /\ server'.nextPingTimer = server.nextPingTimer
      /\ server'.nextResendTimer = server.nextResendTimer
      /\ server'.nextTimer = server.nextTimer
  BY <1>4, <1>6 DEF Fields, SameTable
<1>8. DOMAIN packets = DOMAIN server.packets
  BY <1>5
<1>9. /\ server.pingTimer \in Int /\ server.dropTimer \in Int
      /\ ping \in -PastMax..PingInterval /\ drop \in -PastMax..Timeout
  <2>1. server.pingTimer \in -PastMax..PingInterval /\ server.dropTimer \in -PastMax..Timeout
    BY <1>6 DEF Clocked
  <2>2. server.pingTimer \in Int /\ server.dropTimer \in Int
    BY <2>1, Intervals
  <2>3. Passed(server.pingTimer) \in -PastMax..PingInterval
    BY ONLY <2>1, <2>2, PassedFacts, Intervals
  <2>4. drop \in -PastMax..Timeout
    BY ONLY <1>3, <2>1, <2>2, PassedFacts, Intervals
  <2>5. 0 \in -PastMax..PingInterval
    BY Intervals
  <2> QED
    BY <1>2, <2>2, <2>3, <2>4, <2>5
<1>10. Queued(server')
  <2>1. ASSUME NEW j \in 1..Len(server.queue), NEW k \in 1..Len(server.queue), j <= k
        PROVE  packets[server.queue[j]].resendTimer <= packets[server.queue[k]].resendTimer
    <3>1. PICK p, q : p = server.queue[j] /\ q = server.queue[k]
      OBVIOUS
    <3>2. /\ p \in DOMAIN server.packets /\ q \in DOMAIN server.packets
          /\ server.packets[p].resendTimer <= server.packets[q].resendTimer
      BY <1>6, <2>1, <3>1 DEF Queued
    <3>3. server.packets[p].resendTimer \in Int /\ server.packets[q].resendTimer \in Int
      BY <1>6, <3>2, Intervals DEF Queued, PacketType
    <3>4. Passed(server.packets[p].resendTimer) <= Passed(server.packets[q].resendTimer)
      BY ONLY <3>2, <3>3, PassedFacts
    <3> QED
      BY <1>5, <3>1, <3>2, <3>4
  <2>2. /\ DOMAIN server.packets \subseteq Packets /\ server.queue \in Seq(Packets)
        /\ \A k \in 1..Len(server.queue) : server.queue[k] \in DOMAIN server.packets
        /\ \A j, k \in 1..Len(server.queue) : server.queue[j] = server.queue[k] => j = k
        /\ server.nextResendTimer = IF server.queue = <<>> THEN NoTimer ELSE server.queue[1]
    BY <1>6 DEF Queued
  <2> QED
    BY ONLY <1>5, <1>7, <1>8, <2>1, <2>2 DEF Queued
<1>11. TimersOf(server') = TimersOf(server)
  BY <1>7 DEF TimersOf
<1>12. Running(server')
  <2>1. server.nextPingTimer \in {PingTimer, NoTimer} /\ server.nextTimer \in TimersOf(server)
    BY <1>6 DEF Clocked
  <2>2. Clocked(server')
    BY ONLY <1>7, <1>9, <1>11, <2>1 DEF Clocked
  <2> QED
    BY <1>7, <1>10, <2>2 DEF Running
<1>13. ASSUME NEW timer \in TimersOf(server), TimeLeft(server, timer) > 0
       PROVE  TimeLeft(server', timer) = TimeLeft(server, timer) - 1
  <2>1. /\ TimeLeft(server, timer) \in Int /\ timer # NoTimer
        /\ \/ timer = PingTimer /\ TimeLeft(server, timer) = server.pingTimer
           \/ timer = DropTimer /\ TimeLeft(server, timer) = server.dropTimer
           \/ /\ timer \in DOMAIN server.packets /\ timer \notin {PingTimer, DropTimer}
              /\ TimeLeft(server, timer) = server.packets[timer].resendTimer
    BY EnabledTimers
  <2>2. Passed(TimeLeft(server, timer)) = TimeLeft(server, timer) - 1
    BY ONLY <1>13, <2>1, PassedFacts
  <2>3. CASE timer = PingTimer
    <3>1. server.nextPingTimer # NoTimer
      <4>1. server.nextResendTimer # PingTimer
        <5>1. server.queue # <<>> => server.queue[1] \in Packets
          BY <1>6 DEF Queued
        <5> QED
          BY <1>6, <5>1, TimerNames DEF Queued
      <4> QED
        BY <2>3, <4>1, TimerNames DEF TimersOf
    <3>2. TimeLeft(server', timer) = Passed(server.pingTimer)
      BY <1>2, <1>7, <2>3, <3>1, TimerNames DEF TimeLeft
    <3> QED
      BY <2>1, <2>2, <2>3, <3>2, TimerNames
  <2>4. CASE timer = DropTimer
    <3>1. TimeLeft(server', timer) = Passed(server.dropTimer)
      BY <1>3, <1>7, <2>4, TimerNames DEF TimeLeft
    <3> QED
      BY <2>1, <2>2, <2>4, <3>1, TimerNames
  <2>5. CASE timer \notin {PingTimer, DropTimer}
    <3>1. TimeLeft(server', timer) = packets[timer].resendTimer
      BY <1>7, <2>5 DEF TimeLeft
    <3> QED
      BY <1>5, <2>1, <2>2, <2>5, <3>1
  <2> QED
    BY <2>3, <2>4, <2>5
<1>14. ASSUME NearestIn(server) PROVE NearestIn(server')
  <2>1. server.nextTimer \in TimersOf(server) /\ TimeLeft(server, server.nextTimer) > 0
    BY <1>6 DEF Clocked, Tick, Waiting
  <2>2. ASSUME NEW timer \in TimersOf(server)
        PROVE  TimeLeft(server', server'.nextTimer) <= TimeLeft(server', timer)
    <3>1. TimeLeft(server, server.nextTimer) <= TimeLeft(server, timer)
      BY <1>14 DEF NearestIn
    <3>2. TimeLeft(server, server.nextTimer) \in Int /\ TimeLeft(server, timer) \in Int
      BY <2>1, EnabledTimers
    <3>3. TimeLeft(server, timer) > 0
      BY <2>1, <3>1, <3>2
    <3>4. TimeLeft(server', timer) = TimeLeft(server, timer) - 1
      BY <1>13, <3>3
    <3>5. TimeLeft(server', server.nextTimer) = TimeLeft(server, server.nextTimer) - 1
      BY <1>13, <2>1
    <3> QED
      BY <1>7, <3>1, <3>2, <3>4, <3>5
  <2> QED
    BY <1>11, <2>2 DEF NearestIn
<1> QED
  BY <1>7, <1>8, <1>12, <1>14

\* No timer expires while time passes; the sessions have no part in it.
LEMMA TickStep ==
    ASSUME Inv(server), Tick
    PROVE  Stepped(server, server')
<1>1. Owned(server) /\ TableInv(server) /\ ListInv(server) /\ Running(server)
  BY DEF Inv, Owned
<1>2. /\ Running(server')
      /\ server'.sessions = server.sessions /\ server'.broadcast = server.broadcast
      /\ SameTable(server, server') /\ server'.queue = server.queue
      /\ DOMAIN server'.packets = DOMAIN server.packets
      /\ server'.nextPingTimer = server.nextPingTimer
      /\ NearestIn(server) => NearestIn(server')
  BY ONLY <1>1, Tick, TickRuns
<1>3. Owned(server')
  BY ONLY <1>1, <1>2 DEF Owned, LocalOf
<1>4. TableInv(server')
  BY ONLY <1>1, <1>2, TableKept
<1>5. ListInv(server')
  BY ONLY <1>1, <1>2, ListKept
<1> QED
  BY <1>2, <1>3, <1>4, <1>5 DEF Inv, Stepped

\* The server starts with an empty table and no packets.
LEMMA InitInv ==
    ASSUME Init
    PROVE  Inv(server) /\ NearestIn(server)
<1>1. PICK empty : empty = <<>>
  OBVIOUS
<1>2. PICK none : none = [p \in {} |-> p]
  OBVIOUS
<1>3. PICK table : table = [high \in 0..SessionChunks - 1 |-> NoChunk]
  OBVIOUS
<1>4. server = [sessionTable |-> table, sessionReuseChunk |-> NoChunk,
                lastSessionId |-> Limit, connectedSessions |-> 0, sessions |-> none,
                broadcast |-> empty, packets |-> none, queue |-> empty,
                pingTimer |-> 0, dropTimer |-> Timeout, nextPingTimer |-> NoTimer,
                nextResendTimer |-> NoTimer, nextTimer |-> DropTimer]
  BY <1>1, <1>2, <1>3 DEF Init
<1>5. /\ DOMAIN server = Fields /\ server.sessionTable = table
      /\ server.sessionReuseChunk = NoChunk /\ server.lastSessionId = Limit
      /\ server.connectedSessions = 0 /\ server.sessions = none /\ server.broadcast = empty
      /\ server.packets = none /\ server.queue = empty
  BY ONLY <1>4 DEF Fields
<1>6. /\ server.pingTimer = 0 /\ server.dropTimer = Timeout
      /\ server.nextPingTimer = NoTimer /\ server.nextResendTimer = NoTimer
      /\ server.nextTimer = DropTimer
  BY ONLY <1>4
<1>7. DOMAIN none = {}
  BY <1>2
<1>8. none \in [DOMAIN none -> PacketType] /\ none \in [DOMAIN none -> SessionType]
  BY <1>2
<1>9. empty \in Seq(Packets) /\ empty \in Seq(SessionIds) /\ Len(empty) = 0
  BY <1>1
<1>10. Contents(empty) = {}
  BY <1>9 DEF Contents
<1>11. TimersOf(server) = {DropTimer}
  BY <1>6, TimerNames DEF TimersOf
<1>12. Queued(server)
  BY <1>1, <1>5, <1>6, <1>7, <1>8, <1>9 DEF Queued
<1>13. Clocked(server)
  BY <1>6, <1>11, Intervals DEF Clocked
<1>14. NearestIn(server)
  <2>1. TimeLeft(server, DropTimer) = Timeout
    BY <1>6, TimerNames DEF TimeLeft
  <2> QED
    BY <1>6, <1>11, <2>1, Intervals DEF NearestIn
<1>15. Owned(server)
  BY <1>5, <1>7, <1>8, <1>10, <1>12, <1>13 DEF Owned, Running
<1>16. TableInv(server)
  <2>1. TableGood(server)
    BY <1>3, <1>5 DEF TableGood
  <2>2. Limit \in SessionIds
    BY Sizes DEF SessionIds
  <2>3. Cardinality(DOMAIN none) = 0
    BY <1>7, FS_EmptySet
  <2>4. ASSUME NEW id \in Ids PROVE GetSession(server, id) = NoSession
    <3>1. High(id) \in 0..SessionChunks - 1
      BY Positions
    <3>2. table[High(id)] = NoChunk
      BY <1>3, <3>1
    <3> QED
      BY <1>5, <3>2 DEF GetSession
  <2>5. \A id \in SessionIds : GetSession(server, id) = NoSession
    BY <2>4 DEF Ids
  <2>6. \A request \in RequestIds : GetSession(server, request) = NoSession
    BY <2>4 DEF Ids
  <2> QED
    BY <1>5, <1>7, <2>1, <2>2, <2>3, <2>5, <2>6 DEF TableInv
<1>17. ListInv(server)
  BY <1>1, <1>5, <1>6, <1>7, <1>9, <1>10 DEF ListInv, Listed
<1> QED
  BY <1>14, <1>15, <1>16, <1>17 DEF Inv

\* Every step keeps the invariant, and the nearest timer but when the drop timer restarts.
LEMMA NextStep ==
    ASSUME Inv(server), [Next]_vars
    PROVE  Stepped(server, server')
<1>1. CASE server' = server
  BY <1>1 DEF Stepped
<1>2. ASSUME NEW request \in RequestIds, StartHandshake(request)
      PROVE  Stepped(server, server')
  BY <1>2, StartHandshakeStep
<1>3. ASSUME NEW request \in RequestIds, CompleteHandshake(request)
      PROVE  Stepped(server, server')
  BY <1>3, CompleteHandshakeStep
<1>4. ASSUME NEW id \in SessionIds, CloseOpenSession(id)
      PROVE  Stepped(server, server')
  BY <1>4, CloseOpenSessionStep
<1>5. ASSUME NEW id \in SessionIds, CloseClosingSession(id)
      PROVE  Stepped(server, server')
  BY <1>5, CloseClosingSessionStep
<1>6. ASSUME NEW id \in SessionIds, NEW ackId \in RemoteIds, AcknowledgeLocalPacket(id, ackId)
      PROVE  Stepped(server, server')
  BY <1>6, AcknowledgeLocalPacketStep
<1>7. ASSUME NEW commands \in BOOLEAN, RelayData(commands)
      PROVE  Stepped(server, server')
  BY <1>7, RelayDataStep
<1>8. CASE TimerEvent
  BY <1>8, TimerEventStep
<1>9. CASE Tick
  BY <1>9, TickStep
<1> QED
  BY <1>1, <1>2, <1>3, <1>4, <1>5, <1>6, <1>7, <1>8, <1>9 DEF Next, Runs, Fail, vars

ServerInv == failed \in BOOLEAN /\ Inv(server)

\* The invariant holds in every state.
THEOREM Invariant == Spec => []ServerInv
<1>1. Init => ServerInv
  BY InitInv DEF Init, ServerInv
<1>2. ServerInv /\ [Next]_vars => ServerInv'
  <2> SUFFICES ASSUME ServerInv, [Next]_vars PROVE ServerInv'
    OBVIOUS
  <2>1. Stepped(server, server')
    BY NextStep DEF ServerInv
  <2>2. failed' \in BOOLEAN
    BY DEF ServerInv, Next, Fail, vars
  <2> QED
    BY <2>1, <2>2 DEF Stepped, ServerInv
<1> QED
  BY <1>1, <1>2, PTL DEF Spec

-------------------------------------------------------------------------------
(***************************************************************************)
(* What the invariant says                                                 *)
(***************************************************************************)

\* What the library says of lists.
LEMMA ListFacts ==
    ASSUME NEW S, NEW list \in Seq(S)
    PROVE  /\ ToSet(list) = Contents(list) /\ DOMAIN list = 1..Len(list)
           /\ IsInjective(list) <=> \A j, k \in 1..Len(list) : list[j] = list[k] => j = k
           /\ list # <<>> => Head(list) = list[1]
<1>1. DOMAIN list = 1..Len(list)
  OBVIOUS
<1>2. ToSet(list) = Contents(list)
  BY <1>1 DEF ToSet, Contents
<1>3. IsInjective(list) <=> \A j, k \in 1..Len(list) : list[j] = list[k] => j = k
  BY <1>1 DEF IsInjective
<1>4. list # <<>> => Head(list) = list[1]
  OBVIOUS
<1> QED
  BY <1>1, <1>2, <1>3, <1>4

\* The invariant has the types.
LEMMA InvTypeOK == ASSUME Inv(server), failed \in BOOLEAN PROVE TypeOK
<1>1. Owned(server) /\ TableInv(server) /\ Running(server)
  BY DEF Inv, Owned
<1>2. server.lastSessionId \in SessionIds
  BY <1>1 DEF TableInv
<1>3. Sessions \subseteq SessionIds /\ server.sessions \in [Sessions -> SessionType]
  BY <1>1 DEF Owned, Sessions
<1>4. server.connectedSessions \in 0..Limit
  <2>1. Cardinality(Sessions) <= Cardinality(SessionIds) /\ Cardinality(Sessions) \in Nat
    BY <1>3, IdFacts, FS_Subset, FS_CardinalityType
  <2>2. server.connectedSessions = Cardinality(Sessions)
    BY <1>1 DEF TableInv, Sessions
  <2> QED
    BY <2>1, <2>2, IdFacts, Sizes
<1>5. \A id \in Sessions :
         /\ server.sessions[id].handshakeId \in RequestIds \cup {NoSession}
         /\ server.sessions[id].closed \in BOOLEAN
         /\ server.sessions[id].remoteId \in RemoteIds
  <2> SUFFICES ASSUME NEW id \in Sessions
               PROVE  /\ server.sessions[id].handshakeId \in RequestIds \cup {NoSession}
                      /\ server.sessions[id].closed \in BOOLEAN
                      /\ server.sessions[id].remoteId \in RemoteIds
    OBVIOUS
  <2>1. server.sessions[id] \in SessionType
    BY <1>3
  <2> QED
    BY <2>1 DEF SessionType
<1>6. /\ DOMAIN server.packets \subseteq SessionIds \X RemoteIds
      /\ server.packets \in [DOMAIN server.packets -> PacketType]
  BY <1>1 DEF Running, Queued, Packets
<1>7. \A p \in DOMAIN server.packets :
         /\ server.packets[p].remainingResends \in 0..Resends + ResendsClosing
         /\ server.packets[p].lastInChunk \in BOOLEAN
         /\ server.packets[p].resendTimer \in -PastMax..ResendTime
  <2> SUFFICES ASSUME NEW p \in DOMAIN server.packets
               PROVE  /\ server.packets[p].remainingResends \in 0..Resends + ResendsClosing
                      /\ server.packets[p].lastInChunk \in BOOLEAN
                      /\ server.packets[p].resendTimer \in -PastMax..ResendTime
    OBVIOUS
  <2>1. server.packets[p] \in PacketType
    BY <1>6
  <2> QED
    BY <2>1 DEF PacketType
<1>8. /\ server.pingTimer \in -PastMax..PingInterval
      /\ server.dropTimer \in -PastMax..Timeout
      /\ server.nextPingTimer \in {PingTimer, NoTimer}
  BY <1>1 DEF Running, Clocked
<1> QED
  BY <1>2, <1>3, <1>4, <1>5, <1>6, <1>7, <1>8 DEF TypeOK

\* It has the table consistent with the sessions,
LEMMA InvTable == ASSUME Inv(server) PROVE TableConsistent
<1>1. TableInv(server) /\ Sessions \subseteq SessionIds
  BY DEF Inv, Owned, Sessions
<1>2. ASSUME NEW request \in RequestIds
      PROVE  {i \in Sessions : server.sessions[i].handshakeId = request}
                = {GetSession(server, request)} \ {NoSession}
  <2>1. PICK id : id = GetSession(server, request)
    OBVIOUS
  <2>2. /\ id \in Sessions \cup {NoSession} /\ NoSession \notin Sessions
        /\ \A i \in Sessions : server.sessions[i].handshakeId = request <=> id = i
    BY <1>1, <2>1, IdFacts DEF TableInv, Sessions
  <2> QED
    BY ONLY <2>1, <2>2
<1>3. TableGood(server)
  BY <1>1 DEF TableInv
<1>4. ASSUME NEW high \in Chunks, NEW chunk, chunk = server.sessionTable[high],
             NEW held, held = {low \in DOMAIN chunk.sessions : chunk.sessions[low] # NoSession}
      PROVE  held # {} /\ chunk.fillLevel = Cardinality(held) % ChunkSize
  <2>1. high \in 0..SessionChunks - 1 /\ chunk # NoChunk
    BY <1>3, <1>4 DEF Chunks, TableGood
  <2>2. ChunkGood(chunk) /\ Held(chunk) # {}
    BY <1>3, <1>4, <2>1 DEF TableGood
  <2>3. DOMAIN chunk.sessions = 0..ChunkSize - 1
    BY <2>2 DEF ChunkGood, Chunk
  <2>4. held = Held(chunk)
    BY <1>4, <2>3 DEF Held
  <2> QED
    BY <2>2, <2>4 DEF ChunkGood
<1>5. /\ server.connectedSessions = Cardinality(Sessions)
      /\ \A id \in SessionIds :
            GetSession(server, id) = IF id \in Sessions THEN id ELSE NoSession
  BY <1>1 DEF TableInv, Sessions
<1>6. server.sessionReuseChunk \in {NoChunk, EmptyChunk}
  BY <1>3 DEF TableGood
<1>7. \A request \in RequestIds :
         LET id == GetSession(server, request)
         IN  {i \in Sessions : server.sessions[i].handshakeId = request} = {id} \ {NoSession}
  BY <1>2
<1>8. \A high \in Chunks :
         LET chunk == server.sessionTable[high]
             held  == {low \in DOMAIN chunk.sessions : chunk.sessions[low] # NoSession}
         IN  held # {} /\ chunk.fillLevel = Cardinality(held) % ChunkSize
  BY ONLY <1>4
<1> QED
  BY <1>5, <1>6, <1>7, <1>8 DEF TableConsistent

\* the queues with the packets and the sessions,
LEMMA InvQueues == ASSUME Inv(server) PROVE QueuesConsistent
<1>1. Owned(server) /\ ListInv(server) /\ Queued(server) /\ Listed(server)
  BY DEF Inv, Owned, Running, ListInv
<1>2. /\ IsInjective(server.queue) /\ ToSet(server.queue) = Contents(server.queue)
  BY <1>1, ListFacts DEF Queued
<1>3. IsInjective(server.broadcast) /\ ToSet(server.broadcast) = Contents(server.broadcast)
  BY <1>1, ListFacts DEF Listed
<1>4. ASSUME NEW id \in Sessions
      PROVE  ToSet(server.sessions[id].local) = Contents(server.sessions[id].local)
  <2>1. server.sessions[id] \in SessionType
    BY <1>1 DEF Owned, Sessions
  <2>2. server.sessions[id].local \in Seq(Packets)
    BY <2>1 DEF SessionType
  <2> QED
    BY <2>2, ListFacts
<1>5. DOMAIN server.packets = UNION {ToSet(server.sessions[id].local) : id \in Sessions}
  <2>1. ASSUME NEW p \in DOMAIN server.packets
        PROVE  \E id \in Sessions : p \in ToSet(server.sessions[id].local)
    <3>1. p[1] \in Sessions /\ p \in Contents(server.sessions[p[1]].local)
      BY <1>1 DEF Owned, Sessions
    <3> QED
      BY <1>4, <3>1
  <2>2. ASSUME NEW id \in Sessions, NEW p \in ToSet(server.sessions[id].local)
        PROVE  p \in DOMAIN server.packets
    <3>1. p \in Contents(server.sessions[id].local)
      BY <1>4, <2>2
    <3>2. LocalOf(server, id)
      BY <1>1 DEF Owned, Sessions
    <3> QED
      BY <3>1, <3>2 DEF LocalOf, Contents
  <2> QED
    BY <2>1, <2>2
<1>6. \A id \in Sessions : Settled(server, id)
  BY <1>1 DEF ListInv, Sessions
<1>7. ToSet(server.broadcast) =
         {id \in Sessions : ~ server.sessions[id].closed /\ ~ Opening(server, id)}
  <2>1. Contents(server.broadcast) \subseteq Sessions
    BY <1>1 DEF ListInv, Sessions
  <2>2. \A id \in Sessions :
           id \in Contents(server.broadcast)
              <=> ~ server.sessions[id].closed /\ ~ Opening(server, id)
    BY <1>6 DEF Settled, Connected
  <2> QED
    BY <1>3, <2>1, <2>2
<1>8. \A id \in Sessions \ ToSet(server.broadcast) :
         \/ server.sessions[id].local = <<PacketOf(id, 0)>>
         \/ Opening(server, id) /\ server.sessions[id].local = <<>>
  BY <1>3, <1>6 DEF Settled
<1>9. \A id \in Sessions : server.sessions[id].closed => ~ Opening(server, id)
  BY <1>6 DEF Settled
<1>10. ToSet(server.queue) = DOMAIN server.packets
  BY <1>1, <1>2 DEF Owned
<1> QED
  BY <1>2, <1>3, <1>5, <1>7, <1>8, <1>9, <1>10 DEF QueuesConsistent

\* and the timers with both; NearestIn is what the run checks as NextIsNearest.
LEMMA InvTimers ==
    ASSUME Inv(server)
    PROVE  TimersConsistent /\ (NearestIn(server) <=> NextIsNearest)
<1>1. Running(server) /\ Queued(server) /\ Clocked(server) /\ Listed(server)
  BY DEF Inv, Owned, Running, ListInv
<1>2. Timers = TimersOf(server)
  BY DEF Timers, TimersOf
<1>3. /\ ToSet(server.queue) = Contents(server.queue)
      /\ server.queue # <<>> => Head(server.queue) = server.queue[1]
      /\ server.queue \in Seq(Packets)
  BY <1>1, ListFacts DEF Queued
<1>4. server.nextResendTimer = IF server.queue = <<>> THEN NoTimer ELSE Head(server.queue)
  BY <1>1, <1>3 DEF Queued
<1>5. ASSUME NEW p \in ToSet(server.queue)
      PROVE  TimeLeft(server, Head(server.queue)) <= TimeLeft(server, p)
  <2>1. PICK k \in 1..Len(server.queue) : server.queue[k] = p
    BY <1>3, <1>5 DEF Contents
  <2>2. 1 \in 1..Len(server.queue) /\ 1 <= k /\ server.queue # <<>>
    BY <1>3, <2>1
  <2>3. PICK first : first = server.queue[1]
    OBVIOUS
  <2>4. /\ first \in DOMAIN server.packets /\ p \in DOMAIN server.packets
        /\ server.packets[first].resendTimer <= server.packets[p].resendTimer
    BY <1>1, <2>1, <2>2, <2>3 DEF Queued
  <2>5. \A q \in DOMAIN server.packets : TimeLeft(server, q) = server.packets[q].resendTimer
    <3>1. DOMAIN server.packets \subseteq Packets
      BY <1>1 DEF Queued
    <3> QED
      BY <3>1, TimerNames DEF TimeLeft
  <2>6. Head(server.queue) = first
    BY <1>3, <2>2, <2>3
  <2> QED
    BY <2>4, <2>5, <2>6
<1>6. (server.nextPingTimer = NoTimer) <=> (server.broadcast = <<>>)
  BY <1>1 DEF Listed
<1>7. server.nextTimer \in Timers
  BY <1>1, <1>2 DEF Clocked
<1>8. NearestIn(server) <=> NextIsNearest
  BY <1>2 DEF NearestIn, NextIsNearest
<1> QED
  BY <1>4, <1>5, <1>6, <1>7, <1>8 DEF TimersConsistent

-------------------------------------------------------------------------------
(***************************************************************************)
(* Theorems                                                                *)
(***************************************************************************)

\* The ids of sessions and packets, the counts of retransmissions and the timers stay in
\* range, and there are never more sessions than the limit that startHandshake() relies on
\* to find a free id (server.c).
THEOREM TypeOKThm == Spec => []TypeOK
<1>1. ServerInv => TypeOK
  BY InvTypeOK DEF ServerInv
<1> QED
  BY <1>1, Invariant, PTL

\* After every event of the event loop the table leads to exactly the sessions there are,
\* the resend queue and the local queues hold the same packets, the broadcast list exactly
\* the connected sessions, a closing session has its one packet and an opening one has it
\* unless it was acknowledged early, and the next timer is one that is enabled, never that of a
\* packet that was freed.
THEOREM ConsistentThm == Spec => []Consistent
<1>1. ServerInv => Consistent
  BY InvTable, InvQueues, InvTimers DEF ServerInv, Consistent
<1> QED
  BY <1>1, Invariant, PTL

\* If the event loop waits for the timer that expires first, then it does so after the
\* next event, unless that restarted the drop timer and overlooked the pings and a packet.
THEOREM NearestKeptThm == Spec => NearestKept
<1>1. ASSUME ServerInv, ServerInv', [Next]_vars
      PROVE  [NextIsNearest =>
                 \/ NextIsNearest'
                 \/ /\ Overlooks(server')
                    /\ server.dropTimer # Timeout /\ server'.dropTimer = Timeout]_vars
  <2>1. Stepped(server, server')
    BY <1>1, NextStep DEF ServerInv
  <2>2. NearestIn(server) <=> NextIsNearest
    BY <1>1, InvTimers DEF ServerInv
  <2>3. NearestIn(server') <=> NextIsNearest'
    <3>1. TimersOf(server') = Timers'
      BY DEF TimersOf, Timers
    <3> QED
      BY <3>1 DEF NearestIn, NextIsNearest
  <2> QED
    BY <2>1, <2>2, <2>3 DEF Stepped
<1> QED
  BY <1>1, Invariant, PTL DEF Spec, NearestKept

===============================================================================
