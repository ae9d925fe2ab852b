------------------------------ MODULE RelayServer -----------------------------
(***************************************************************************)
(* The server of the legacy proxy (proxy_server/server.c) with its timers: *)
(* clients open sessions, get the commands of the switcher and pings, and  *)
(* acknowledge them; what is not acknowledged is sent again, and a client  *)
(* that does not answer is closed.                                         *)
(*                                                                         *)
(* Sessions are found by id in a table of chunks that exist only while     *)
(* they hold sessions: under the id their client picked while it opens the *)
(* session, and under the id the server assigned.  The connected ones are  *)
(* in the broadcast list.  A packet is in the local queue of its session   *)
(* and in the resend queue of the server, whose head expires first.        *)
(*                                                                         *)
(* The connection to the switcher (relay.c) is external: it restarts the   *)
(* drop timer and hands over commands.  A datagram of a client with any    *)
(* ids may arrive at any time.  Time passes while the event loop waits for *)
(* its next timer; an expired one is handled before anything else.  The    *)
(* program stops when it follows a NULL pointer: failed.                   *)
(***************************************************************************)
EXTENDS RelayTimers, SequencesExt

CONSTANTS
    SessionChunks,    \* SESSIONCHUNKS, half of them for the ids clients pick
    ChunkSize,        \* SESSIONCHUNKSIZE, and how many values fillLevel has
    RemoteIdCount,    \* ids of packets (0x8000 of them)
    Resends,          \* ATEM_RESEND_OPENINGHANDSHAKE, for any packet but a
    ResendsClosing,   \* closing request: ATEM_RESEND_CLOSINGHANDSHAKE
    NoChunk, NoSession,
    QueueMax,         \* bound: the resend queue when commands are broadcast
    PastMax           \* bound: expired timers are not told apart after that

\* CONNECTEDSESSIONSLIMIT: a session for each id the server can assign.
Limit == (SessionChunks \div 2) * ChunkSize

ASSUME RelayServerAssumption ==
    /\ SessionChunks \in Nat \ {0} /\ SessionChunks % 2 = 0 /\ ChunkSize \in Nat \ {0}
    /\ RemoteIdCount \in Nat \ {0, 1}
    /\ Resends \in Nat /\ ResendsClosing \in Nat
    /\ QueueMax \in Nat /\ PastMax \in Nat

RequestIds == 0..Limit - 1
SessionIds == Limit..2 * Limit - 1
RemoteIds  == 0..RemoteIdCount - 1

Packets    == SessionIds \X RemoteIds
Chunk      == [fillLevel : 0..ChunkSize - 1,
               sessions  : [0..ChunkSize - 1 -> SessionIds \cup {NoSession}]]

ASSUME NamesAssumption ==
    /\ NoSession \notin RequestIds \cup SessionIds /\ NoChunk \notin Chunk
    /\ {PingTimer, DropTimer, NoTimer} \cap Packets = {}

VARIABLES
    server,
    failed

vars == <<server, failed>>

EmptyChunk == [fillLevel |-> 0, sessions |-> [low \in 0..ChunkSize - 1 |-> NoSession]]

Init ==
    /\ server = [sessionTable      |-> [high \in 0..SessionChunks - 1 |-> NoChunk],
                 sessionReuseChunk |-> NoChunk,
                 lastSessionId     |-> Limit,
                 connectedSessions |-> 0,
                 sessions          |-> [id \in {} |-> id],
                 broadcast         |-> <<>>,
                 packets           |-> [p \in {} |-> p],
                 queue             |-> <<>>,
                 pingTimer         |-> 0,
                 dropTimer         |-> Timeout,
                 nextPingTimer     |-> NoTimer,
                 nextResendTimer   |-> NoTimer,
                 nextTimer         |-> DropTimer]
    /\ failed = FALSE

\* The function f with one more argument.
Added(f, x, y) == [z \in DOMAIN f \cup {x} |-> IF z = x THEN y ELSE f[z]]

\* Where an element of a list is, and the list without it.
Place(list, element)   == CHOOSE k \in DOMAIN list : list[k] = element
Without(list, element) == RemoveAt(list, Place(list, element))

-------------------------------------------------------------------------------
(***************************************************************************)
(* The table of sessions.  A session is named by the id the server         *)
(* assigned it.                                                            *)
(***************************************************************************)
High(id) == id \div ChunkSize
Low(id)  == id % ChunkSize

GetSession(s, id) ==
    LET chunk == s.sessionTable[High(id)]
    IN  IF chunk = NoChunk THEN NoSession ELSE chunk.sessions[Low(id)]

CreateSessionChunk(s, high) ==
    IF s.sessionTable[high] # NoChunk THEN s
    ELSE [s EXCEPT !.sessionTable[high] =
                      IF s.sessionReuseChunk = NoChunk THEN EmptyChunk ELSE s.sessionReuseChunk,
                   !.sessionReuseChunk = NoChunk]

AddSessionToChunk(s, id, session) ==
    [CreateSessionChunk(s, High(id)) EXCEPT
        !.sessionTable[High(id)].sessions[Low(id)] = session,
        !.sessionTable[High(id)].fillLevel = (@ + 1) % ChunkSize]

\* An empty chunk leaves the table; one of them is kept for reuse.
RemoveSessionFromChunk(s, id) ==
    LET chunk == [s.sessionTable[High(id)] EXCEPT
                     !.sessions[Low(id)] = NoSession,
                     !.fillLevel = (@ - 1) % ChunkSize]
    IN  IF chunk.fillLevel # 0 THEN [s EXCEPT !.sessionTable[High(id)] = chunk]
        ELSE [s EXCEPT !.sessionTable[High(id)] = NoChunk,
                       !.sessionReuseChunk = IF @ = NoChunk THEN chunk ELSE @]

\* A session that is still opened under the id of its client.
Opening(s, id) == s.sessions[id].handshakeId # NoSession

CompletedHandshake(s, id) ==
    [RemoveSessionFromChunk(s, s.sessions[id].handshakeId) EXCEPT
        !.sessions[id].handshakeId = NoSession]

ReleaseSession(s, id) ==
    LET t == RemoveSessionFromChunk(s, id)
        u == IF Opening(s, id) THEN RemoveSessionFromChunk(t, s.sessions[id].handshakeId) ELSE t
    IN  [u EXCEPT !.connectedSessions = @ - 1,
                  !.sessions = Restrict(@, DOMAIN @ \ {id})]

EnqueueSession(s, id) ==
    [(IF s.broadcast = <<>> THEN PingTimerEnable(s) ELSE s) EXCEPT !.broadcast = <<id>> \o @]

DequeueSession(s, id) ==
    LET t == [s EXCEPT !.broadcast = Without(@, id)]
    IN  IF t.broadcast = <<>> THEN PingTimerDisable(t) ELSE t

-------------------------------------------------------------------------------
(***************************************************************************)
(* Packets, named by their session and the id they have there (zero in a   *)
(* handshake), and the resend queue.                                       *)
(***************************************************************************)
PacketOf(id, remote_id) == <<id, remote_id>>

EnqueuePacket(s, p) ==
    LET t == IF s.queue = <<>> THEN ResendTimerAdd(s, p) ELSE s
    IN  [t EXCEPT !.queue = Append(@, p)]

\* The packet before it ends the chunk in its place, unless it is the first.
DequeuePacket(s, p) ==
    LET queue  == Without(s.queue, p)
        before == s.queue[Place(s.queue, p) - 1]
        t      == [s EXCEPT !.queue = queue]
    IN  IF Head(s.queue) = p
        THEN ResendTimerRemove(t, IF queue = <<>> THEN NoTimer ELSE Head(queue))
        ELSE IF s.packets[p].lastInChunk THEN [t EXCEPT !.packets[before].lastInChunk = TRUE]
        ELSE t

SendPacket(s, p) == EnqueuePacket([s EXCEPT !.packets[p].resendTimer = ResendTime], p)

\* A packet that is sent for the first time, in its session's local queue.
SendNewPacket(s, p, resends, lastInChunk) ==
    SendPacket([s EXCEPT !.packets = Added(@, p, [remainingResends |-> resends,
                                                  lastInChunk      |-> lastInChunk,
                                                  resendTimer      |-> 0]),
                         !.sessions[p[1]].local = Append(@, p)], p)

ReleasePacket(s, p) ==
    LET t == DequeuePacket(s, p) IN [t EXCEPT !.packets = Restrict(@, DOMAIN @ \ {p})]

\* The oldest packet of the session is taken out of its queue and freed,
AcknowledgeNextPacket(s, id) ==
    ReleasePacket([s EXCEPT !.sessions[id].local = Tail(@)], Head(s.sessions[id].local))

\* as are a number of them,
Acknowledged(s, id, count) ==
    LET after[k \in 0..count] ==
            IF k = 0 THEN s ELSE AcknowledgeNextPacket(after[k - 1], id)
    IN  after[count]

\* or all.
FlushPackets(s, id) == Acknowledged(s, id, Len(s.sessions[id].local))

SendClosingPacket(s, id) ==
    SendNewPacket([s EXCEPT !.sessions[id].closed = TRUE], PacketOf(id, 0), ResendsClosing, TRUE)

\* Mutation: the session stays in the broadcast list.
CloseSessionBroadcast(s, id) ==
    LET t == SendClosingPacket(FlushPackets(s, id), id)
    IN  IF Opening(t, id) THEN CompletedHandshake(t, id) ELSE t

\* The server requests to close the session.
CloseSession(s, id) ==
    LET t == SendClosingPacket(FlushPackets(s, id), id)
    IN  IF Opening(t, id) THEN CompletedHandshake(t, id) ELSE DequeueSession(t, id)

\* Mutation: retransmits do not run out.
ResendPacketAlways(s, p) == SendPacket(DequeuePacket(s, p), p)

ResendPacket(s, p) ==
    IF s.packets[p].remainingResends > 0
    THEN SendPacket(DequeuePacket([s EXCEPT !.packets[p].remainingResends = @ - 1], p), p)
    ELSE IF ~ s.sessions[p[1]].closed THEN CloseSession(s, p[1])
    ELSE ReleaseSession(ReleasePacket(s, p), p[1])

\* Mutation: ids of packets do not wrap.
NextRemoteIdUnmasked(id) == id + 1

NextRemoteId(id) == (id + 1) % RemoteIdCount

\* Sends a session a packet with its next id.
SendDataPacket(s, id) ==
    LET remoteId == NextRemoteId(s.sessions[id].remoteId)
    IN  SendNewPacket([s EXCEPT !.sessions[id].remoteId = remoteId],
                      PacketOf(id, remoteId), Resends, FALSE)

\* Sends all connected sessions a packet; these packets are a chunk.
Broadcast(s) ==
    LET after[k \in 0..Len(s.broadcast)] ==
            IF k = 0 THEN s ELSE SendDataPacket(after[k - 1], s.broadcast[k])
        t == after[Len(s.broadcast)]
    IN  [t EXCEPT !.packets[Last(t.queue)].lastInChunk = TRUE]

\* Bound: packets are told apart by their ids, of which a session does not run out.
IdsLeft(s) ==
    \A id \in ToSet(s.broadcast) :
        PacketOf(id, NextRemoteId(s.sessions[id].remoteId)) \notin DOMAIN s.packets

\* Pings are packets without commands, a chunk as well.
PingProxySessions(s) == PingTimerRestart(Broadcast(s))

-------------------------------------------------------------------------------
(***************************************************************************)
(* Events                                                                  *)
(***************************************************************************)

\* timeToNextTimerEvent() has dealt with all that expired.
Waiting == TimeLeft(server, server.nextTimer) > 0

\* The id the server assigns next.
NewSessionId(s) ==
    LET after(k) == Limit + ((s.lastSessionId + k) % Limit)
    IN  after(Min({k \in 1..Limit : GetSession(s, after(k)) = NoSession}))

\* A client opened a session and acknowledged the accept packet under the id in it.
NoAcceptPacket(request) ==
    LET id == GetSession(server, request) IN id # NoSession /\ server.sessions[id].local = <<>>

\* A client opens a session, or repeats that.
StartHandshake(request) ==
    /\ Waiting
    /\ server.connectedSessions # Limit
    /\ ~ NoAcceptPacket(request)
    /\ LET known   == GetSession(server, request)
           session == NewSessionId(server)
           added   == AddSessionToChunk(AddSessionToChunk(server, request, session),
                                        session, session)
       IN  server' =
             IF known # NoSession THEN ResendPacket(server, Head(server.sessions[known].local))
             ELSE SendNewPacket(
                    [added EXCEPT
                        !.lastSessionId = session,
                        !.connectedSessions = @ + 1,
                        !.sessions = Added(@, session, [handshakeId |-> request,
                                                        closed      |-> FALSE,
                                                        remoteId    |-> 0,
                                                        local       |-> <<>>])],
                    PacketOf(session, 0), Resends, TRUE)

\* The client acknowledges the accept packet.  (dumpAtemData() has no data of its own:
\* it restarts the connection to the switcher, which will send all of it.)
CompleteHandshake(request) ==
    /\ Waiting
    /\ GetSession(server, request) # NoSession /\ ~ NoAcceptPacket(request)
    /\ LET id == GetSession(server, request)
       IN  server' = DropTimerRestart(EnqueueSession(
                         CompletedHandshake(AcknowledgeNextPacket(server, id), id), id))

\* Both handlers take the first packet of the local queue, whether there is one or not.
Fail(request) ==
    /\ Waiting
    /\ NoAcceptPacket(request)
    /\ failed' = TRUE
    /\ UNCHANGED server

\* The client closes its session, in whatever state that is.
CloseOpenSession(id) ==
    /\ Waiting
    /\ GetSession(server, id) # NoSession
    /\ LET connected == ~ server.sessions[id].closed /\ ~ Opening(server, id)
           s == IF connected THEN DequeueSession(server, id) ELSE server
       IN  server' = ReleaseSession(FlushPackets(s, id), id)

\* The client agrees to the server's closing request.
CloseClosingSession(id) ==
    /\ Waiting
    /\ GetSession(server, id) # NoSession
    /\ server.sessions[id].closed
    /\ server' = ReleaseSession(ReleasePacket(server, Head(server.sessions[id].local)), id)

\* The client acknowledges what was sent to it; ids are compared as they are.  The accept
\* packet of a session that is still opened has id zero, and goes with any of them.
AcknowledgeLocalPacket(id, ackId) ==
    /\ Waiting
    /\ GetSession(server, id) # NoSession
    /\ ~ server.sessions[id].closed
    /\ LET local == server.sessions[id].local
       IN  \E count \in 1..Len(local) :
              /\ \A k \in 1..count : local[k][2] <= ackId
              /\ count < Len(local) => local[count + 1][2] > ackId
              /\ server' = Acknowledged(server, id, count)

\* The switcher sends commands, or only something (which restarts the drop timer first).
RelayData(commands) ==
    /\ Waiting
    /\ LET s == DropTimerRestart(server)
       IN  server' = IF commands /\ s.broadcast # <<>> THEN Broadcast(s) ELSE s
    /\ commands => Len(server.queue) + Len(server.broadcast) <= QueueMax /\ IdsLeft(server)

\* Sends packets again from the head of the queue, up to one that ends a chunk.
ResendProxyPackets ==
    LET rounds == Len(server.queue) * (Resends + ResendsClosing + 2)
        done(s) == s.queue = <<>> \/ s.packets[Head(s.queue)].lastInChunk
        after[k \in 1..rounds] ==
            IF k = 1 THEN ResendPacket(server, Head(server.queue))
            ELSE LET s == after[k - 1]
                 IN  IF done(s) THEN s ELSE ResendPacket(s, Head(s.queue))
    IN  after[rounds]

\* The next timer has expired.
TimerEvent ==
    /\ ~ Waiting
    /\ server.nextTimer = server.nextPingTimer => IdsLeft(server)
    /\ server' = CASE server.nextTimer = server.nextPingTimer   -> PingProxySessions(server)
                   [] server.nextTimer = server.nextResendTimer -> ResendProxyPackets
                   [] OTHER -> DropTimerRestart(server)

Passed(timer) == IF timer > -PastMax THEN timer - 1 ELSE timer

\* Time passes while the event loop waits.
Tick ==
    /\ Waiting
    /\ server' = [server EXCEPT
                    !.pingTimer = IF server.nextPingTimer = NoTimer THEN 0 ELSE Passed(@),
                    !.dropTimer = Passed(@),
                    !.packets = [p \in DOMAIN server.packets |->
                                    [server.packets[p] EXCEPT !.resendTimer = Passed(@)]]]

Runs ==
    \/ \E request \in RequestIds : StartHandshake(request) \/ CompleteHandshake(request)
    \/ \E id \in SessionIds :
          \/ CloseOpenSession(id) \/ CloseClosingSession(id)
          \/ \E ackId \in RemoteIds : AcknowledgeLocalPacket(id, ackId)
    \/ \E commands \in BOOLEAN : RelayData(commands)
    \/ TimerEvent
    \/ Tick

Next ==
    /\ ~ failed
    /\ \/ Runs /\ UNCHANGED failed
       \/ \E request \in RequestIds : Fail(request)

Spec == Init /\ [][Next]_vars

\* While the program runs the event loop does, and time passes: WF_vars(TimerEvent) /\
\* WF_vars(Tick), as these are enabled exactly if the event loop does not wait, and if it does.
FairSpec ==
    /\ Spec
    /\ []<>(failed \/ Waiting) \/ []<><<~ Waiting>>_vars
    /\ []<>(failed \/ ~ Waiting) \/ []<><<Tick>>_vars

-------------------------------------------------------------------------------
(***************************************************************************)
(* Properties                                                              *)
(***************************************************************************)
Sessions == DOMAIN server.sessions
Chunks   == {high \in DOMAIN server.sessionTable : server.sessionTable[high] # NoChunk}

TypeOK ==
    /\ failed \in BOOLEAN
    /\ server.lastSessionId \in SessionIds
    /\ server.connectedSessions \in 0..Limit
    /\ Sessions \subseteq SessionIds
    /\ \A id \in Sessions :
          /\ server.sessions[id].handshakeId \in RequestIds \cup {NoSession}
          /\ server.sessions[id].closed \in BOOLEAN
          /\ server.sessions[id].remoteId \in RemoteIds
    /\ DOMAIN server.packets \subseteq SessionIds \X RemoteIds
    /\ \A p \in DOMAIN server.packets :
          /\ server.packets[p].remainingResends \in 0..Resends + ResendsClosing
          /\ server.packets[p].lastInChunk \in BOOLEAN
          /\ server.packets[p].resendTimer \in -PastMax..ResendTime
    /\ server.pingTimer \in -PastMax..PingInterval
    /\ server.dropTimer \in -PastMax..Timeout
    /\ server.nextPingTimer \in {PingTimer, NoTimer}

\* The table holds exactly the ids of the sessions there are, in chunks that are there
\* exactly while they are not empty, although their fill level wraps when they are full;
\* the session limit is what keeps the search for a free id finite.
TableConsistent ==
    /\ server.connectedSessions = Cardinality(Sessions)
    /\ \A id \in SessionIds : GetSession(server, id) = IF id \in Sessions THEN id ELSE NoSession
    /\ \A request \in RequestIds :
          LET id == GetSession(server, request)
          IN  {i \in Sessions : server.sessions[i].handshakeId = request} =
                  {id} \ {NoSession}
    /\ \A high \in Chunks :
          LET chunk == server.sessionTable[high]
              held  == {low \in DOMAIN chunk.sessions : chunk.sessions[low] # NoSession}
          IN  held # {} /\ chunk.fillLevel = Cardinality(held) % ChunkSize
    /\ server.sessionReuseChunk \in {NoChunk, EmptyChunk}

\* Every packet is in the resend queue and in the local queue of its session, once; a
\* session in a closing handshake has the one packet of it, one in its opening handshake
\* has that or was acknowledged early, and exactly the others are sent pings and commands.
QueuesConsistent ==
    /\ IsInjective(server.queue) /\ IsInjective(server.broadcast)
    /\ ToSet(server.queue) = DOMAIN server.packets
    /\ DOMAIN server.packets = UNION {ToSet(server.sessions[id].local) : id \in Sessions}
    /\ ToSet(server.broadcast) =
          {id \in Sessions : ~ server.sessions[id].closed /\ ~ Opening(server, id)}
    /\ \A id \in Sessions \ ToSet(server.broadcast) :
          \/ server.sessions[id].local = <<PacketOf(id, 0)>>
          \/ Opening(server, id) /\ server.sessions[id].local = <<>>
    /\ \A id \in Sessions : server.sessions[id].closed => ~ Opening(server, id)

Timers == {DropTimer, server.nextPingTimer, server.nextResendTimer} \ {NoTimer}

\* The next timer is one that is enabled and never that of a packet that is gone; the
\* oldest packet is the next to be sent again.
TimersConsistent ==
    /\ (server.nextPingTimer = NoTimer) <=> (server.broadcast = <<>>)
    /\ server.nextResendTimer = IF server.queue = <<>> THEN NoTimer ELSE Head(server.queue)
    /\ \A p \in ToSet(server.queue) : TimeLeft(server, Head(server.queue)) <= TimeLeft(server, p)
    /\ server.nextTimer \in Timers

Consistent == TableConsistent /\ QueuesConsistent /\ TimersConsistent

NextIsNearest ==
    \A timer \in Timers : TimeLeft(server, server.nextTimer) <= TimeLeft(server, timer)

\* The case that dropTimerRestart() misses: the drop timer was the next one and stays that,
\* with pings and a packet that both expire first, the packet no later than the pings.
Overlooks(s) ==
    /\ s.nextTimer = DropTimer /\ s.nextPingTimer # NoTimer /\ s.nextResendTimer # NoTimer
    /\ ~ Smaller(s, PingTimer, s.nextResendTimer)

\* Once the event loop waits for the timer that expires first, it does so after every
\* event but one: a restart of the drop timer that overlooks the others, while it is the
\* next one or has become that in the same event.
NearestKept ==
    [][NextIsNearest =>
          \/ NextIsNearest'
          \/ Overlooks(server') /\ server.dropTimer # Timeout /\ server'.dropTimer = Timeout
      ]_vars

\* The oldest packet of a session, if it waits for its client.
Oldest(id) ==
    IF id \in Sessions /\ server.sessions[id].local # <<>>
    THEN Head(server.sessions[id].local) ELSE NoSession

\* Its client answered, no timer took the packet away.
Answered(id) == Waiting /\ Oldest(id) # NoSession /\ Oldest(id)' # Oldest(id)

\* No client that owes an answer keeps the server waiting: it answers, or is closed and
\* forgotten; unless the program failed, or the next timer stays the drop timer while
\* packets wait (see NearestKept).
SilentForgotten ==
    []<>(~ failed /\ server.nextTimer # DropTimer) =>
        \A id \in SessionIds : []<>(Oldest(id) = NoSession) \/ []<><<Answered(id)>>_vars

===============================================================================
