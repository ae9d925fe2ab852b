------------------------------ MODULE AtemCache -------------------------------
(***************************************************************************)
(* The camera control cache of the proxy (proxy/atem_cache.c) together     *)
(* with what it is for: every client that connects is sent the whole cache *)
(* in a few packets, every update a client sends is applied to the cache   *)
(* and broadcast to all connected clients, and a client that processes     *)
(* its packets in the order of their ids ends up with the cache's values.  *)
(*                                                                         *)
(* Datagrams are lost, repeated, delayed and reordered.  A packet that was *)
(* sent may arrive at any time, or never.  The server sends it again while *)
(* it is in its session's chain (Retransmit in AtemServer); an             *)
(* acknowledgement takes packets out of the chain that the client has not  *)
(* got, and those are not sent again.  Ids are as in AtemServer but do not *)
(* wrap here, and the handshakes are one action each: AtemServer has their *)
(* steps.  The values in a packet are copied when the packet is made:      *)
(* later updates of the cache do not change it.                            *)
(*                                                                         *)
(* Clients may send any command.  Where one fails an assertion or makes    *)
(* the program write behind the memory of a parameter, nothing is said of  *)
(* what comes after: failed.                                               *)
(***************************************************************************)
EXTENDS CameraControl

CONSTANTS
    Clients,
    Defaults,         \* initial payload of each parameter
    TypeOf,           \* type of each parameter: cc_head[3]
    Chunks,           \* parameters in each packet of a dump: a sequence of sets
    Datagrams,        \* what clients may send: sequences of commands
    DatagramsMax,     \* bound: datagrams that clients sent in their sessions
    RemoteIdsMax,     \* bound: packets a session is sent
    AckRange          \* half of the greatest id: 0x7fff / 2

ASSUME AtemCacheAssumption ==
    /\ Defaults \in [Params -> Payloads]
    /\ Chunks \in Seq(SUBSET Params) /\ UNION Range(Chunks) = Params
    /\ RemoteIdsMax \in Nat /\ Len(Chunks) <= RemoteIdsMax
    /\ DatagramsMax \in Nat /\ AckRange \in Nat
    /\ Datagrams \subseteq Seq(Commands)

VARIABLES
    cache,            \* payload of each parameter
    sessions,         \* the server's side of each client's session
    clients,          \* the client's side
    failed

vars == <<cache, sessions, clients, failed>>

\* A packet of the server; values holds the payloads of some parameters.
Packet(id, values) == [remote_id |-> id, values |-> values]

\* chain holds the packets that are sent again.  underway holds those that the client did
\* not process, on the network or lost: copies of others change nothing any more.
NoSession == [connected |-> FALSE, remote_id |-> 0, remote_id_last |-> 0,
              chain |-> <<>>, underway |-> <<>>]
NewClient == [received |-> 0, view |-> [p \in {} |-> <<>>], sent |-> <<>>]

Init ==
    /\ cache = Defaults
    /\ sessions = [c \in Clients |-> NoSession]
    /\ clients = [c \in Clients |-> NewClient]
    /\ failed = FALSE

Connected(c) == sessions[c].connected

-------------------------------------------------------------------------------
(***************************************************************************)
(* Operators on s = [cache, sessions], the server's state.                 *)
(***************************************************************************)
Server == [cache |-> cache, sessions |-> sessions]

\* A session that is sent one more packet.
Pushed(session, values) ==
    LET packet == Packet(session.remote_id + 1, values)
    IN  [session EXCEPT !.remote_id = packet.remote_id,
                        !.chain = Append(@, packet),
                        !.underway = Append(@, packet)]

Only(parameter, payload) == [p \in {parameter} |-> payload]

Broadcast(s, values) ==
    [s EXCEPT !.sessions = [c \in Clients |->
        IF s.sessions[c].connected THEN Pushed(s.sessions[c], values)
        ELSE s.sessions[c]]]

\* Mutation: clients are sent what was received, not what it changed the parameter to.
UpdateReceived(s, cc) ==
    IF ~ Effective(cc) THEN s
    ELSE Broadcast([s EXCEPT !.cache[cc.parameter] = Updated(@, cc)],
                   Only(cc.parameter, cc.payload))

\* One camera control command: the parameter is updated and the value broadcast.
UpdateCC(s, cc) ==
    IF ~ Effective(cc) THEN s
    ELSE LET value == Updated(s.cache[cc.parameter], cc)
         IN  Broadcast([s EXCEPT !.cache[cc.parameter] = value], Only(cc.parameter, value))

\* The commands of one datagram, in order.
Update(s, datagram) ==
    LET after[k \in 0..Len(datagram)] ==
            IF k = 0 THEN s ELSE UpdateCC(after[k - 1], datagram[k])
    IN  after[Len(datagram)]

\* Mutation: the last packet of the dump is not sent.
DumpShort(s) ==
    LET dump == [k \in 1..Len(Chunks) - 1 |-> Packet(k, Restrict(s.cache, Chunks[k]))]
    IN  [NoSession EXCEPT !.connected = TRUE, !.remote_id = Len(dump),
                          !.chain = dump, !.underway = dump]

\* The session of a client that was sent the whole cache.
Dumped(s) ==
    LET dump == [k \in DOMAIN Chunks |-> Packet(k, Restrict(s.cache, Chunks[k]))]
    IN  [NoSession EXCEPT !.connected = TRUE, !.remote_id = Len(Chunks),
                          !.chain = dump, !.underway = dump]

\* What an acknowledgement leaves of a chain.  The loop ends at the first packet whose id
\* it is too far ahead of; as ids ascend, that is the oldest one or none: an
\* acknowledgement takes all packets or none, whichever it is for.
Unacknowledged(chain, ack_id) ==
    IF chain # <<>> /\ ack_id - Head(chain).remote_id > AckRange THEN chain ELSE <<>>

-------------------------------------------------------------------------------
(***************************************************************************)
(* Actions of the server                                                   *)
(***************************************************************************)

\* A client's opening handshake completes.
Connect(c) ==
    /\ ~ Connected(c)
    /\ sessions' = [sessions EXCEPT ![c] = Dumped(Server)]
    /\ UNCHANGED <<cache, clients, failed>>

\* The datagram of a client with the next id.  One that is behind or ahead is only
\* responded to.  (AtemServer also has data that arrives while a session closes.)
RecvData(c, id) ==
    /\ Connected(c)
    /\ id = sessions[c].remote_id_last + 1
    /\ id \in DOMAIN clients[c].sent
    /\ \A cc \in Range(clients[c].sent[id]) : ~ Fails(cc)
    /\ LET s == Update(Server, clients[c].sent[id])
       IN  /\ \A d \in Clients : s.sessions[d].remote_id <= RemoteIdsMax
           /\ cache' = s.cache
           /\ sessions' = [s.sessions EXCEPT ![c].remote_id_last = id]
    /\ UNCHANGED <<clients, failed>>

\* The same with a command that fails.  (What those before it change is left out.)
Fail(c, id) ==
    /\ Connected(c)
    /\ id = sessions[c].remote_id_last + 1
    /\ id \in DOMAIN clients[c].sent
    /\ \E cc \in Range(clients[c].sent[id]) : Fails(cc)
    /\ failed' = TRUE
    /\ UNCHANGED <<cache, sessions, clients>>

\* A client's acknowledgement, of its latest packet at the time: it may be late.
RecvAck(c, ack_id) ==
    /\ Connected(c)
    /\ ack_id <= clients[c].received
    /\ sessions' = [sessions EXCEPT ![c].chain = Unacknowledged(@, ack_id)]
    /\ UNCHANGED <<cache, clients, failed>>

\* The session ends, by whichever closing handshake.  The next one of the client has
\* another id: no datagram of this one is taken for one of the next.
Closed(c) ==
    /\ Connected(c)
    /\ sessions' = [sessions EXCEPT ![c] = NoSession]
    /\ clients' = [clients EXCEPT ![c] = NewClient]
    /\ UNCHANGED <<cache, failed>>

-------------------------------------------------------------------------------
(***************************************************************************)
(* Actions of clients (any software that speaks the protocol, such as      *)
(* core/atem.c for what is received)                                       *)
(***************************************************************************)

\* A client sends commands, and again until they are acknowledged.
Send(c, datagram) ==
    /\ Connected(c)
    /\ FoldFunction(LAMBDA client, n : n + Len(client.sent), 0, clients) < DatagramsMax
    /\ clients' = [clients EXCEPT ![c].sent = Append(@, datagram)]
    /\ UNCHANGED <<cache, sessions, failed>>

\* What a client knows once it has processed the values of a packet.
Processed(view, values) ==
    [p \in DOMAIN view \cup DOMAIN values |->
        IF p \in DOMAIN values THEN values[p] ELSE view[p]]

\* A client processes the packet with the next id, when any copy of it arrives; other
\* packets are only responded to.
RecvPacket(c) ==
    /\ sessions[c].underway # <<>>
    /\ LET packet == Head(sessions[c].underway)
       IN  /\ packet.remote_id = clients[c].received + 1
           /\ clients' = [clients EXCEPT ![c].received = packet.remote_id,
                                         ![c].view = Processed(@, packet.values)]
    /\ sessions' = [sessions EXCEPT ![c].underway = Tail(@)]
    /\ UNCHANGED <<cache, failed>>

RemoteIds == 1..RemoteIdsMax

Next ==
    /\ ~ failed
    /\ \E c \in Clients :
          \/ Connect(c)
          \/ Closed(c)
          \/ \E id \in 1..DatagramsMax : RecvData(c, id) \/ Fail(c, id)
          \/ \E id \in RemoteIds : RecvAck(c, id)
          \/ \E datagram \in Datagrams : Send(c, datagram)
          \/ RecvPacket(c)

Spec == Init /\ [][Next]_vars

\* A packet that the client waits for has left the chain: it is not sent again.
Stranded(c) ==
    sessions[c].underway # <<>> /\ Head(sessions[c].underway) \notin ToSet(sessions[c].chain)

\* The server sends a packet again and again until it is acknowledged, and the network
\* does not lose all copies of it; or it runs out of retransmissions and closes the
\* session.  There is no such hope for a packet that was acknowledged.
Fairness ==
    \A c \in Clients : WF_vars(~ failed /\ ~ Stranded(c) /\ RecvPacket(c))

FairSpec == Spec /\ Fairness

-------------------------------------------------------------------------------
(***************************************************************************)
(* Properties                                                              *)
(***************************************************************************)
Views == UNION {[S -> Payloads] : S \in SUBSET Params}

TypeOK ==
    /\ failed \in BOOLEAN
    /\ cache \in [Params -> Payloads]
    /\ \A c \in Clients :
          /\ sessions[c].connected \in BOOLEAN
          /\ sessions[c].remote_id \in 0..RemoteIdsMax
          /\ sessions[c].remote_id_last \in 0..DatagramsMax
          /\ \A packet \in ToSet(sessions[c].chain) \cup ToSet(sessions[c].underway) :
                packet.remote_id \in RemoteIds /\ packet.values \in Views
          /\ clients[c].received \in 0..RemoteIdsMax
          /\ clients[c].view \in Views
          /\ clients[c].sent \in Seq(Datagrams)

\* However late or lost packets are: what a connected client knows, with the packets
\* that it was sent and did not process applied in order, is exactly the cache; a client
\* is behind, never wrong.  It needs the dump to be complete, no update to fall between
\* dump and broadcasts, and relative updates to be told as the values they lead to
\* (atem_cache_dump(), atem_cache_update_cc()).  Whether packets still arrive is another
\* matter: CatchesUp.
InSync ==
    \A c \in Clients : Connected(c) =>
        LET underway   == sessions[c].underway
            holding(p) == {k \in DOMAIN underway : p \in DOMAIN underway[k].values}
        IN  \A p \in Params :
              IF holding(p) # {} THEN underway[Max(holding(p))].values[p] = cache[p]
              ELSE p \in DOMAIN clients[c].view /\ clients[c].view[p] = cache[p]

\* A client that stays connected catches up with the cache, again and again; unless an
\* acknowledgement took the packet that it waits for out of the chain before it arrived
\* (atem_session_acknowledge()), or a command made the server fail.
CatchesUp ==
    \A c \in Clients : []<>(~ Connected(c) \/ clients[c].view = cache \/ Stranded(c) \/ failed)

-------------------------------------------------------------------------------
(***************************************************************************)
(* The cache implements a store of shared parameters: payloads stand for   *)
(* the numbers in them, packets a client has not processed for its news.   *)
(* Numbers of another width than the parameter's add up to some value.     *)
(***************************************************************************)
Width(p)       == Types[TypeOf[p]]
Numbers(p, payload) ==
    [k \in 1..PayloadLen \div Width(p) |-> Number(Element(payload, Width(p), k - 1))]
AsNumbers(values) == [p \in DOMAIN values |-> Numbers(p, values[p])]

Meaning(cc) ==
    LET p       == cc.parameter
        how     == CASE Fails(cc) \/ ~ Effective(cc)    -> "none"
                     [] OTHER ->
                          IF ~ cc.relative THEN "set"
                          ELSE IF Types[cc.type] = Width(p) THEN "add" ELSE "some"
        values  == CASE how = "set" -> Numbers(p, cc.payload)
                     [] how = "add" -> SubSeq(Numbers(p, cc.payload), 1, cc.count)
                     [] OTHER       -> <<>>
    IN  [parameter |-> p, how |-> how, values |-> values]

Requests(c) ==
    LET unprocessed == SubSeq(clients[c].sent, sessions[c].remote_id_last + 1, Len(clients[c].sent))
    IN  [k \in DOMAIN unprocessed |->
            [j \in DOMAIN unprocessed[k] |-> Meaning(unprocessed[k][j])]]

Shared == INSTANCE SharedParameters WITH
    Parameters <- Params,
    Initial    <- AsNumbers(Defaults),
    Modulus    <- [p \in Params |-> Values[Width(p)]],
    Values     <- [p \in Params |-> {Numbers(p, payload) : payload \in Payloads}],
    Parts      <- Chunks,
    store      <- AsNumbers(cache),
    joined     <- {c \in Clients : Connected(c)},
    requests   <- [c \in Clients |-> Requests(c)],
    news       <- [c \in Clients |-> [k \in DOMAIN sessions[c].underway |->
                                      AsNumbers(sessions[c].underway[k].values)]],
    views      <- [c \in Clients |-> AsNumbers(clients[c].view)]

\* However datagrams are lost, repeated and late: each datagram of a client takes
\* effect at most once, in order and as a whole, numbers are added as numbers, and what
\* clients are told of the changes of all clients is the same, in the same order.
ImplementsSharedParameters == Shared!Spec

===============================================================================
