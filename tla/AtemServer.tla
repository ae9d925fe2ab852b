------------------------------ MODULE AtemServer ------------------------------
(***************************************************************************)
(* The proxy server (struct atem_server and all that works on it in        *)
(* proxy/atem_server.c, atem_session.c, atem_packet.c and atem_cache.c).   *)
(*                                                                         *)
(* Clients open sessions, acknowledge packets, send data and close their   *)
(* sessions; a timer pings the connected sessions and retransmits the      *)
(* packet at the head of one queue that all sessions share.  A packet that *)
(* ran out of retransmits turns into the closing request of the sessions   *)
(* that still have not acknowledged it.                                    *)
(*                                                                         *)
(* The event loop runs one handler at a time, so one action is one call of *)
(* a handler.  Datagrams may be lost, repeated, delayed and reordered: any *)
(* datagram any client may have sent can arrive in any state.  Whatever    *)
(* the server sends leaves no trace here.  The clock is abstracted to the  *)
(* order of the queue: the packet at its head may expire at any time.      *)
(*                                                                         *)
(* Operators named like C functions map the server before the call to the  *)
(* server after it.  A failed assert() stops the program: failed names it. *)
(***************************************************************************)
EXTENDS SessionTable, PacketSessions, SequencesExt

CONSTANTS
    Peers,            \* addresses of clients
    RemoteIdCount,    \* how many ids packets are numbered with (0x8000 of them)
    Resends,          \* ATEM_RESENDS
    ResendsClosing,   \* ATEM_RESENDS_CLOSING
    CacheChunks,      \* chunks_count: packets it takes to dump the cache
    Packets,          \* memory to allocate packets from: bounds how many there are
    NoPacket,         \* NULL
    Updates           \* how many camera control updates data may carry: a set

ASSUME ServerAssumption ==
    /\ RemoteIdCount \in Nat \ {0}
    /\ Resends \in Nat /\ ResendsClosing \in Nat
    /\ CacheChunks \in 1..RemoteIdCount - 1
    /\ NoPacket \notin Packets
    /\ IsFiniteSet(Packets)
    /\ Updates \subseteq Nat

VARIABLES
    server,           \* struct atem_server with everything it points to
    failed            \* the assertion that stopped the program, if any

vars == <<server, failed>>

RemoteIds == 0..RemoteIdCount - 1

Init ==
    /\ server = [sessions           |-> NoSessions.sessions,
                 sessions_len       |-> NoSessions.sessions_len,
                 sessions_connected |-> NoSessions.sessions_connected,
                 lookup             |-> NoSessions.lookup,
                 session_id_last    |-> 0,
                 packets            |-> [p \in {} |-> p],
                 queue              |-> <<>>,
                 queue_tail         |-> NoPacket,
                 closing            |-> FALSE]
    /\ failed = "none"

-------------------------------------------------------------------------------
(***************************************************************************)
(* Packets and the retransmit queue (proxy/atem_packet.c)                  *)
(***************************************************************************)

FreePackets(s) == Packets \ DOMAIN s.packets
NewPacket(s)   == CHOOSE p \in FreePackets(s) : TRUE

\* A packet for the sessions and remote ids in its slots.
Packet(slots, flags) ==
    [flags                |-> flags,
     resends              |-> Resends,
     slots                |-> slots,
     sessions_remaining   |-> Cardinality(DOMAIN slots),
     packet_session_index |-> SelfIndexed(Cardinality(DOMAIN slots))]

Slot(id, remote_id) == [session_id |-> id, remote_id |-> remote_id]

Enqueue(s, p, packet) ==
    [s EXCEPT !.packets = [q \in DOMAIN s.packets \cup {p} |->
                              IF q = p THEN packet ELSE s.packets[q]],
              !.queue = Append(@, p),
              !.queue_tail = p]

Position(queue, p) == CHOOSE k \in DOMAIN queue : queue[k] = p

\* Takes a packet out of the queue, wherever it is, and frees it.
Release(s, p) ==
    LET queue == RemoveAt(s.queue, Position(s.queue, p))
    IN  [s EXCEPT !.packets = Restrict(@, DOMAIN @ \ {p}),
                  !.queue = queue,
                  !.queue_tail = IF Last(s.queue) # p THEN @
                                 ELSE IF queue = <<>> THEN NoPacket ELSE Last(queue)]

Disassociate(s, link) ==
    IF s.packets[link.packet].sessions_remaining > 1
    THEN [s EXCEPT !.packets[link.packet] = Disassociated(@, link.slot)]
    ELSE Release(s, link.packet)

\* Takes a session out of all packets of (the rest of) its chain.
FlushChain(s, chain) ==
    LET after[k \in 0..Len(chain)] ==
            IF k = 0 THEN s ELSE Disassociate(after[k - 1], chain[k])
    IN  after[Len(chain)]

Requeue(s, p) == [s EXCEPT !.queue = Append(Tail(@), p), !.queue_tail = p]

-------------------------------------------------------------------------------
(***************************************************************************)
(* Sessions: on top of the fields of SessionTable, a session has its peer, *)
(* its chain (packet_head to packet_tail: the packets it has not           *)
(* acknowledged, oldest first, each with the slot the session has in it),  *)
(* and the ids of the latest packet sent (remote_id) and received.         *)
(***************************************************************************)

Link(p, slot)     == [packet |-> p, slot |-> slot]
LinkSlot(s, link) == s.packets[link.packet].slots[link.slot]

NextSessionId(s)  == (s.session_id_last + 1) % SessionIdCount
\* Mutation: the id is not masked.
NextRemoteIdUnmasked(id) == id + 1

NextRemoteId(id)  == (id + 1) % RemoteIdCount

\* A registered id of a session that belongs to the peer the datagram is from.
From(peer, id) ==
    /\ server.lookup[id] # NoSession
    /\ server.sessions[server.lookup[id]].peer = peer

\* Sends a packet to all connected sessions; the slot is the session's index.
Broadcast(s) ==
    LET p == NewPacket(s)
        pushed == [s EXCEPT !.sessions = [i \in Indexes(s) |->
                     IF Connected(s, i)
                     THEN [s.sessions[i] EXCEPT !.remote_id = NextRemoteId(@),
                                                !.chain = Append(@, Link(p, i))]
                     ELSE s.sessions[i]]]
    IN  Enqueue(pushed, p,
                Packet([i \in 0..s.sessions_connected - 1 |->
                           Slot(pushed.sessions[i].session_id, pushed.sessions[i].remote_id)],
                       "none"))

\* Sends one chunk of the cache to a session.
SendChunk(s, i, chunk) ==
    LET p == NewPacket(s)
    IN  Enqueue([s EXCEPT !.sessions[i].chain = Append(@, Link(p, 0))], p,
                Packet([slot \in 0..0 |-> Slot(s.sessions[i].session_id, chunk)], "none"))

DumpCache(s, i) ==
    LET after[chunk \in 0..CacheChunks] ==
            IF chunk = 0
            THEN [s EXCEPT !.sessions[i].chain = <<>>, !.sessions[i].remote_id = CacheChunks]
            ELSE SendChunk(after[chunk - 1], i, chunk)
    IN  after[CacheChunks]

CreateSession(s, request, peer) ==
    LET id == NextSessionId(s)
        p  == NewPacket(s)
        session == [session_id     |-> id,
                    send_id        |-> request,
                    peer           |-> peer,
                    chain          |-> <<Link(p, 0)>>,
                    remote_id      |-> 0,
                    remote_id_last |-> 0]
    IN  Enqueue([AddSession(s, session) EXCEPT !.session_id_last = id], p,
                Packet([slot \in 0..0 |-> Slot(id, 0)], "none"))

\* The opening handshake completes: the accept packet is gone, the cache follows.
CompleteSession(s, request) ==
    LET accept == Head(s.sessions[s.lookup[request]].chain).packet
    IN  DumpCache(Release(ConnectSession(s, request), accept), s.sessions_connected)

\* Mutation: only the packet with the id itself is acknowledged.
BehindUnlessEqual(ack_id, remote_id) == ack_id # remote_id

\* ack_id - remote_id > 0x7fff / 2, in int: neither side is masked to 15 bits.
Behind(ack_id, remote_id) == ack_id - remote_id > (RemoteIdCount - 1) \div 2

\* Takes a session out of the packets at the head of its chain, until one is
\* considered not acknowledged.
Acknowledge(s, i, ack_id) ==
    LET chain == s.sessions[i].chain
        Left(k) == Behind(ack_id, LinkSlot(s, chain[k]).remote_id)
        acked == CHOOSE n \in 0..Len(chain) :
                    (\A k \in 1..n : ~ Left(k)) /\ (n < Len(chain) => Left(n + 1))
    IN  [FlushChain(s, SubSeq(chain, 1, acked))
            EXCEPT !.sessions[i].chain = SubSeq(chain, acked + 1, Len(chain))]

\* Mutation: the session is not taken out of its packets.
CloseSessionUnflushed(s, i) ==
    IF Connected(s, i) THEN CloseConnected(s, i) ELSE CloseUnconnected(s, i)

CloseSession(s, i) ==
    LET flushed == FlushChain(s, s.sessions[i].chain)
    IN  IF Connected(s, i) THEN CloseConnected(flushed, i) ELSE CloseUnconnected(flushed, i)

-------------------------------------------------------------------------------
(***************************************************************************)
(* The packet at the head of the queue expires.                            *)
(***************************************************************************)

\* The slot that the retransmission visits as its k-th, from one.
Visited(packet, k) == packet.packet_session_index[k - 1]

Receiver(s, p, slot) == s.lookup[s.packets[p].slots[slot].session_id]

\* Mutation: the retransmits are not counted.
ResendUncounted(s, p) == Requeue(s, p)

Resend(s, p) == Requeue([s EXCEPT !.packets[p].resends = @ - 1], p)

\* Mutation: the session stays in its later packets.
DropReceiverUnflushed(s, p, slot) ==
    [DropSession(s, Receiver(s, p, slot)) EXCEPT !.packets[p].slots[slot].remote_id = 0]

\* A session that did not acknowledge a packet is left with it alone.
DropReceiver(s, p, slot) ==
    LET i == Receiver(s, p, slot)
        chain == s.sessions[i].chain
        flushed == [FlushChain(s, Tail(chain)) EXCEPT !.sessions[i].chain = <<Head(chain)>>]
    IN  [DropSession(flushed, i) EXCEPT !.packets[p].slots[slot].remote_id = 0]

\* The packet becomes the closing request of its remaining sessions.
DropReceivers(s, p) ==
    LET packet == s.packets[p]
        after[k \in 0..packet.sessions_remaining] ==
            IF k = 0 THEN s ELSE DropReceiver(after[k - 1], p, Visited(packet, k))
    IN  Requeue([after[packet.sessions_remaining] EXCEPT !.packets[p].resends = ResendsClosing,
                                                         !.packets[p].flags = "closing"], p)

\* The closing request was not answered either.  packet_queue_tail stays.
TerminateReceivers(s, p) ==
    LET packet == s.packets[p]
        after[k \in 0..packet.sessions_remaining] ==
            IF k = 0 THEN s
            ELSE TerminateSession(after[k - 1], Receiver(after[k - 1], p, Visited(packet, k)))
    IN  [after[packet.sessions_remaining] EXCEPT !.packets = Restrict(@, DOMAIN @ \ {p}),
                                                 !.queue = Tail(@)]

-------------------------------------------------------------------------------
(***************************************************************************)
(* The server closes all sessions.                                         *)
(***************************************************************************)

\* Every session in a handshake is alone in its packet, says an assertion.
HandshakesAlone(s) ==
    \A i \in Indexes(s) : ~ Connected(s, i) =>
        s.packets[Head(s.sessions[i].chain).packet].sessions_remaining = 1

\* Releasing the whole queue resets its tail, unless the queue is empty already.
ReleaseQueue(s) ==
    [s EXCEPT !.packets = [p \in {} |-> p],
              !.queue = <<>>,
              !.queue_tail = IF s.queue = <<>> THEN @ ELSE NoPacket]

BroadcastClose(s) ==
    LET p == NewPacket(s)
    IN  Enqueue([s EXCEPT !.sessions = [i \in Indexes(s) |->
                             [s.sessions[i] EXCEPT !.chain = <<Link(p, i)>>]]],
                p, Packet([i \in Indexes(s) |-> Slot(s.sessions[i].session_id, 0)], "closing"))

-------------------------------------------------------------------------------
(***************************************************************************)
(* Actions                                                                 *)
(***************************************************************************)
Running == failed = "none"

Becomes(s) == server' = s /\ UNCHANGED failed
Fails(assertion) == failed' = assertion /\ UNCHANGED server

\* Mutation: sessions can be opened while the server closes.
RecvOpenClosing(peer, request) ==
    /\ Running
    /\ server.lookup[request] = NoSession
    /\ server.sessions_len # SessionsLimit
    /\ FreePackets(server) # {}
    /\ IF server.lookup[NextSessionId(server)] # NoSession THEN Fails("atem_session_create")
       ELSE Becomes(CreateSession(server, request, peer))

\* A client requests to open a session.  A request that is already in progress
\* only has its response sent again, one without a slot is only rejected.
RecvOpen(peer, request) ==
    /\ Running
    /\ server.lookup[request] = NoSession
    /\ server.sessions_len # SessionsLimit /\ ~ server.closing
    /\ FreePackets(server) # {}
    /\ IF server.lookup[NextSessionId(server)] # NoSession THEN Fails("atem_session_create")
       ELSE Becomes(CreateSession(server, request, peer))

\* A client completes its opening handshake.
RecvConnect(peer, request) ==
    /\ Running
    /\ From(peer, request)
    /\ Cardinality(FreePackets(server)) >= CacheChunks
    /\ Becomes(CompleteSession(server, request))

\* A client acknowledges; sessions in a handshake ignore it.
RecvAck(peer, id, ack_id) ==
    /\ Running
    /\ From(peer, id)
    /\ Connected(server, server.lookup[id])
    /\ Becomes(Acknowledge(server, server.lookup[id], ack_id))

\* A client closes its session.
RecvClosing(peer, id) ==
    /\ Running
    /\ From(peer, id)
    /\ Becomes(CloseSession(server, server.lookup[id]))

\* A client answers the closing request; ignored where none was sent.
RecvClosed(peer, id) ==
    /\ Running
    /\ From(peer, id)
    /\ LET i     == server.lookup[id]
           chain == server.sessions[i].chain
       IN  /\ chain # <<>> /\ server.packets[Head(chain).packet].flags = "closing"
           /\ Becomes(TerminateSession(Disassociate(server, Head(chain)), i))

\* Every update is broadcast in a packet of its own.
BroadcastUpdates(s, updates) ==
    LET after[k \in 0..updates] == IF k = 0 THEN s ELSE Broadcast(after[k - 1])
    IN  after[updates]

\* A client sends the data packet the server expects next, every update in it
\* is broadcast.  Any other is only responded to: one that is ahead requests the
\* missing packet, one that is behind is acknowledged again.
RecvData(peer, id, updates) ==
    /\ Running
    /\ From(peer, id)
    /\ updates <= Cardinality(FreePackets(server))
    /\ LET i == server.lookup[id]
           received == [server EXCEPT !.sessions[i].remote_id_last = NextRemoteId(@)]
       IN  IF server.sessions_connected = 0 THEN Fails("atem_cache_update")
           ELSE Becomes(BroadcastUpdates(received, updates))

\* The ping timer fires.
Ping ==
    /\ Running
    /\ server.sessions_connected > 0
    /\ FreePackets(server) # {}
    /\ Becomes(Broadcast(server))

\* Mutation: sessions are forgotten without a closing request.
RetransmitSilent(p) ==
    /\ Running
    /\ server.queue # <<>> /\ Head(server.queue) = p
    /\ Becomes(IF server.packets[p].resends > 0 THEN Resend(server, p)
               ELSE TerminateReceivers(server, p))

\* The packet at the head of the queue expires.
Retransmit(p) ==
    /\ Running
    /\ server.queue # <<>> /\ Head(server.queue) = p
    /\ Becomes(IF server.packets[p].resends > 0 THEN Resend(server, p)
               ELSE IF server.packets[p].flags = "closing" THEN TerminateReceivers(server, p)
               ELSE DropReceivers(server, p))

\* The program closes the server.
Close ==
    /\ Running
    /\ ~ server.closing
    /\ LET closing == [server EXCEPT !.closing = TRUE]
           flushed == ReleaseQueue(EvictSessions(closing))
       IN  IF server.sessions_len = 0 THEN Becomes(closing)
           ELSE IF ~ HandshakesAlone(server) THEN Fails("atem_server_flush")
           ELSE IF flushed.queue_tail # NoPacket THEN Fails("atem_packet_broadcast_close")
           ELSE Becomes(BroadcastClose(flushed))

\* The program opens the server again once it has closed.
Restart ==
    /\ Running
    /\ server.closing
    /\ server.sessions_len = 0
    /\ Becomes([server EXCEPT !.closing = FALSE])

Next ==
    \/ \E peer \in Peers :
          \/ \E request \in RequestIds : RecvOpen(peer, request) \/ RecvConnect(peer, request)
          \/ \E id \in SessionIds :
                \/ \E ack_id \in RemoteIds : RecvAck(peer, id, ack_id)
                \/ RecvClosing(peer, id)
                \/ RecvClosed(peer, id)
                \/ \E updates \in Updates : RecvData(peer, id, updates)
    \/ Ping
    \/ \E p \in Packets : Retransmit(p)
    \/ Close
    \/ Restart

Spec == Init /\ [][Next]_vars

\* The event loop sleeps until the head of the queue expires at the latest: a
\* packet that stays at the head is dealt with.
Fairness == \A p \in Packets : WF_vars(Retransmit(p))

FairSpec == Spec /\ Fairness

-------------------------------------------------------------------------------
(***************************************************************************)
(* Safety                                                                  *)
(***************************************************************************)
Links     == [packet : Packets, slot : 0..SessionsLimit - 1]
Sessions  == [session_id : SessionIds, send_id : Ids, peer : Peers, chain : Seq(Links),
              remote_id : RemoteIds, remote_id_last : RemoteIds]
SlotType  == [session_id : SessionIds, remote_id : RemoteIds]

TypeOK ==
    /\ server.sessions_len \in 0..SessionsLimit
    /\ \A i \in Indexes(server) : server.sessions[i] \in Sessions
    /\ server.sessions_connected \in 0..SessionsLimit
    /\ server.lookup \in [Ids -> -1..SessionsLimit - 1]
    /\ server.session_id_last \in SessionIds
    /\ DOMAIN server.packets \subseteq Packets
    /\ \A p \in DOMAIN server.packets :
          /\ server.packets[p].flags \in {"none", "closing"}
          /\ server.packets[p].resends \in 0..Resends + ResendsClosing
          /\ \A slot \in DOMAIN server.packets[p].slots :
                server.packets[p].slots[slot] \in SlotType
    /\ server.queue \in Seq(Packets)
    /\ server.queue_tail \in Packets \cup {NoPacket}
    /\ server.closing \in BOOLEAN
    /\ failed \in {"none", "atem_session_create", "atem_cache_update",
                   "atem_server_flush", "atem_packet_broadcast_close"}

\* The links sessions have to a packet, and what is on the other end.
LinksTo(p) ==
    {l \in UNION {{i} \X DOMAIN server.sessions[i].chain : i \in Indexes(server)} :
        server.sessions[l[1]].chain[l[2]].packet = p}

(***************************************************************************)
(* The server's own checks of its data structures (proxy/atem_assert.c): a *)
(* debug build has them, to be called between any two events.              *)
(***************************************************************************)
ChainPackets(i) == {link.packet : link \in ToSet(server.sessions[i].chain)}

AssertPacket(p) ==
    LET packet == server.packets[p]
        id(slot) == packet.slots[slot].session_id
    IN  /\ packet.sessions_remaining > 0
        /\ \A slot \in RetransmitSlots(packet) :
              LET i == server.lookup[id(slot)]
              IN  i \in Indexes(server) /\ p \in ChainPackets(i)
        /\ IsInjective([slot \in 0..packet.sessions_remaining - 1 |-> id(slot)])

AssertPackets ==
    server.queue # <<>> =>
        /\ \A p \in ToSet(server.queue) : AssertPacket(p)
        /\ IsInjective(server.queue)
        /\ server.queue_tail = Last(server.queue)

\* The C code adds one to the id before it without masking the sum, and so fails on
\* sound chains when the ids wrap: here they are to follow as they are assigned.
AssertSessionConnected(i) ==
    LET session == server.sessions[i]
        chain   == session.chain
        slot(k) == LinkSlot(server, chain[k])
    IN  /\ server.lookup[session.session_id] = i
        /\ ~ Opening(server, i)
        /\ \A k \in DOMAIN chain :
              /\ chain[k].packet \in ToSet(server.queue)
              /\ server.packets[chain[k].packet].flags = "none"
              /\ slot(k).session_id = session.session_id
              /\ slot(k).remote_id =
                    IF k = Len(chain) THEN session.remote_id
                    ELSE (slot(k + 1).remote_id - 1) % RemoteIdCount

AssertSessionUnconnected(i) ==
    LET session == server.sessions[i]
    IN  /\ server.lookup[session.session_id] = i
        /\ server.lookup[session.send_id] = i
        /\ Len(session.chain) = 1
        /\ LET packet == server.packets[session.chain[1].packet]
           IN  /\ packet.sessions_remaining > 0
               /\ LinkSlot(server, session.chain[1]) = Slot(session.session_id, 0)
               /\ (packet.flags = "closing") <=> ~ Opening(server, i)

AssertSessions ==
    /\ server.sessions_connected <= server.sessions_len
    /\ server.sessions_len <= SessionsLimit
    /\ \A i \in Indexes(server) :
          IF Connected(server, i) THEN AssertSessionConnected(i) ELSE AssertSessionUnconnected(i)
    /\ SessionIdsLead(server)
    /\ RequestIdsLead(server)

\* A packet that ran out of retransmits while it waits at the head of the queue is the
\* oldest one of every session that still waits for it: turning it into their closing
\* request leaves no older packet behind.
AssertExhausted ==
    \A p \in ToSet(server.queue) :
        p = Head(server.queue) /\ server.packets[p].resends = 0 =>
            \A l \in LinksTo(p) : l[2] = 1

\* Sessions, ids, packets and the retransmit queue belong together however packets,
\* timers and handshakes interleave (atem_assert(), atem_packet_retransmit()).
DebugAsserts == AssertSessions /\ AssertPackets /\ AssertExhausted

\* The packets in memory are those of the queue, each of them once, and a packet
\* is retransmitted to exactly the sessions whose chain holds it: none is kept
\* without a session waiting for it, no chain leads to a packet that was freed,
\* and no slot to another session (atem_assert_packet()).
PacketsLinked ==
    /\ ToSet(server.queue) = DOMAIN server.packets
    /\ IsInjective(server.queue)
    /\ \A i \in Indexes(server) : \A k \in DOMAIN server.sessions[i].chain :
          server.sessions[i].chain[k].packet \in DOMAIN server.packets
    /\ \A p \in DOMAIN server.packets :
          LET slot(l) == server.sessions[l[1]].chain[l[2]].slot
          IN  /\ LinksTo(p) # {}
              /\ {slot(l) : l \in LinksTo(p)} = RetransmitSlots(server.packets[p])
              /\ Cardinality(LinksTo(p)) = server.packets[p].sessions_remaining
              /\ \A l \in LinksTo(p) : server.packets[p].slots[slot(l)].session_id =
                                        server.sessions[l[1]].session_id

\* While the server closes, it pings nobody, and every session it still has was
\* sent the closing request.
ClosingToAll ==
    server.closing /\ Running =>
        /\ server.sessions_connected = 0
        /\ \A i \in Indexes(server) : ~ Opening(server, i)

\* An acknowledgement reaches every packet that is not considered behind it, to
\* the half of the id space, and takes the session out of it
\* (atem_session_acknowledge()): also out of those numbered before the ids wrapped.
Reached(ack_id, remote_id) ==
    (ack_id - remote_id) % RemoteIdCount <= (RemoteIdCount - 1) \div 2

AcknowledgesOlder ==
    \A i \in Indexes(server), ack_id \in RemoteIds : Connected(server, i) =>
        LET chain == server.sessions[i].chain
            left  == ToSet(Acknowledge(server, i, ack_id).sessions[i].chain)
        IN  \A k \in DOMAIN chain :
              (\A j \in 1..k : Reached(ack_id, LinkSlot(server, chain[j]).remote_id)) =>
                  chain[k] \notin left

-------------------------------------------------------------------------------
(***************************************************************************)
(* Action properties and liveness                                          *)
(***************************************************************************)
Live(id) == server.lookup[id] # NoSession

\* A session is forgotten only after it was sent a closing request, or when its
\* own client closes it (doc/atem_protocol.md, closing handshake).
ClosedByHandshake ==
    [][\A id \in SessionIds :
          Live(id) /\ ~ Live(id)' =>
              \/ LET i == server.lookup[id]
                 IN  ~ Connected(server, i) /\ ~ Opening(server, i)
              \/ \E peer \in Peers : RecvClosing(peer, id)
      ]_vars

\* A server that closes gets rid of all its sessions, answered or not.
Closes == server.closing ~> server.sessions_len = 0 \/ ~ Running

\* A session does not wait forever for an acknowledgement: its client is heard
\* from again, or the session is closed and forgotten.
Pending(id) ==
    /\ Running
    /\ Live(id)
    /\ server.sessions[server.lookup[id]].chain # <<>>

Heard(id) ==
    \E peer \in Peers :
        \/ \E ack_id \in RemoteIds : RecvAck(peer, id, ack_id)
        \/ \E request \in RequestIds :
              RecvConnect(peer, request) /\ server.lookup[request] = server.lookup[id]

SilentForgotten ==
    \A id \in SessionIds : []<>~ Pending(id) \/ []<><<Heard(id)>>_vars

===============================================================================
