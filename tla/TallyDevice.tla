------------------------------ MODULE TallyDevice ------------------------------
(***************************************************************************)
(* A tally device (firmware/atem_sock.c on top of core/atem.c) and the     *)
(* switcher it shows the tally of one camera of.                           *)
(*                                                                         *)
(* The device requests a session as soon as there is a network, and again  *)
(* whenever it has not received anything for five seconds.  It shows the   *)
(* tally the switcher reports, until it loses the session or the switcher  *)
(* closes it.  lwIP calls one callback at a time, so an action is a call   *)
(* of one.                                                                 *)
(*                                                                         *)
(* The switcher is not part of the source: it is modelled by what the      *)
(* device relies on.  It numbers its packets, repeats each of them until   *)
(* it is acknowledged, and gives up a session that is not.                 *)
(*                                                                         *)
(* Datagrams may be lost, and repeated by the switcher.  That they may     *)
(* overtake each other (Overtakes), and that a session may be alive when   *)
(* the device gives up on it (Outlives), are choices: some of what the     *)
(* device promises depends on either.                                      *)
(***************************************************************************)
EXTENDS AtemClient, SequencesExt

CONSTANTS
    SwitcherSessions, \* ids of the sessions of the switcher
    Unacknowledged,   \* how many packets of a session may be unacknowledged (bound)
    InFlight,         \* how many datagrams are on their way (bound)
    Overtakes,        \* datagrams may arrive out of order
    Outlives          \* a session may outlive the device's timeout

\* The id all requests of the device carry.
ClientSession == 0

ASSUME DeviceAssumption ==
    /\ ClientSession \notin SwitcherSessions
    /\ Unacknowledged \in Nat \ {0}
    /\ Unacknowledged < RemoteIdCount
    /\ InFlight \in Nat \ {0}
    /\ {Overtakes, Outlives} \subseteq BOOLEAN

VARIABLES
    client,           \* struct atem atem: the client's end of the session
    device,           \* atem_state, the outputs, and what is set up
    switcher,         \* the sessions of the switcher
    to_client,        \* datagrams on their way
    to_server

vars == <<client, device, switcher, to_client, to_server>>

Tallies == {"off", "on"}

NoSession == [phase |-> "none", base |-> 0, tally |-> "off", chain |-> <<>>]

Init ==
    /\ client = NewClient
    /\ device = [atem_state |-> "unconnected", conn |-> FALSE, tally |-> "off",
                 softap |-> TRUE, polled |-> FALSE]
    /\ switcher = [s \in SwitcherSessions |-> NoSession]
    /\ to_client = <<>>
    /\ to_server = <<>>

Alive(s) == switcher[s].phase # "none"

\* The datagrams that may be next to arrive.
Arriving(channel) ==
    {k \in DOMAIN channel : Overtakes \/ k = 1}

\* Bounds the datagrams on their way, of which an answer replaces another.
Uncongested == Len(to_client) + Len(to_server) < InFlight

-------------------------------------------------------------------------------
(***************************************************************************)
(* The device                                                              *)
(***************************************************************************)
TallyReset(d) == [d EXCEPT !.conn = FALSE, !.tally = "off"]

\* The commands in a packet: the version of the protocol, and the tally.
ProcessCommands(d, m) ==
    LET connected == IF m.version
                     THEN [d EXCEPT !.conn = TRUE, !.atem_state = "connected", !.softap = FALSE]
                     ELSE d
    IN  IF m.tally = "none" THEN connected ELSE [connected EXCEPT !.tally = m.tally]

\* Mutation: the outputs stay as they are when the session is closed.
ProcessKeepingTally(d, status, m) ==
    CASE status = "rejected" -> [d EXCEPT !.atem_state = "rejected"]
      [] status = "closing"  -> [d EXCEPT !.atem_state = "disconnected"]
      [] status = "write"    -> ProcessCommands(d, m)
      [] OTHER -> d

\* atem_process(), up to what it sends.
Process(d, status, m) ==
    CASE status = "rejected" -> [d EXCEPT !.atem_state = "rejected"]
      [] status = "closing"  -> TallyReset([d EXCEPT !.atem_state = "disconnected"])
      [] status = "write"    -> ProcessCommands(d, m)
      [] OTHER -> d

Answered == {"write", "write_only", "accepted", "closing"}

\* A datagram arrives.
Recv(k) ==
    /\ device.polled
    /\ k \in Arriving(to_client)
    /\ LET m == to_client[k]
           parsed == Parse(client, m)
       IN  /\ client' = parsed.client
           /\ device' = Process(device, parsed.status, m)
           /\ to_client' = RemoveAt(to_client, k)
           /\ to_server' = IF parsed.status \in Answered THEN Append(to_server, parsed.reply)
                           ELSE to_server
    /\ UNCHANGED switcher

Open == [kind |-> "open", session |-> ClientSession, id |-> 0]

\* A network interface is up that the switcher can be reached from.
NetifUp ==
    /\ ~ device.polled
    /\ device' = [device EXCEPT !.polled = TRUE]
    /\ to_server' = Append(to_server, Open)
    /\ UNCHANGED <<client, switcher, to_client>>

\* Mutation: the outputs stay as they are.
ConnectionLostLit(d) ==
    IF d.atem_state = "connected" THEN [d EXCEPT !.atem_state = "dropped"] ELSE d

ConnectionLost(d) ==
    IF d.atem_state = "connected" THEN TallyReset([d EXCEPT !.atem_state = "dropped"]) ELSE d

\* Nothing arrived for five seconds.  What was on its way is lost, and unless a
\* session outlives that, the switcher has pinged it, repeated the ping, got no
\* answer and given it up.
Timeout ==
    /\ device.polled
    /\ to_client = <<>>
    /\ client' = ConnectionOpen(client)
    /\ device' = ConnectionLost(device)
    /\ to_server' = <<Open>>
    /\ switcher' = IF Outlives THEN switcher ELSE [s \in SwitcherSessions |-> NoSession]
    /\ UNCHANGED to_client

-------------------------------------------------------------------------------
(***************************************************************************)
(* The switcher                                                            *)
(***************************************************************************)
Datagram(kind, s) == [kind |-> kind, session |-> s, id |-> 0, version |-> FALSE, tally |-> "none"]

Data(s, id, version, tally) ==
    [kind |-> "data", session |-> s, id |-> id, version |-> version, tally |-> tally]

\* The tally a session has reported up to a packet of its chain.
TallyAfter(session, k) ==
    LET reports == {j \in 1..k : session.chain[j].tally # "none"}
    IN  IF reports = {} THEN session.tally ELSE session.chain[Max(reports)].tally

\* A session that is accepted reports the version and the tally first.
Connected(s, tally) ==
    [phase |-> "connected", base |-> 0, tally |-> "off", chain |-> <<Data(s, 1, TRUE, tally)>>]

Acknowledged(session, k) ==
    [session EXCEPT !.base = session.chain[k].id,
                    !.tally = TallyAfter(session, k),
                    !.chain = SubSeq(@, k + 1, Len(@))]

LatestId(session) ==
    IF session.chain = <<>> THEN session.base ELSE Last(session.chain).id

\* A datagram of the device arrives, and the switcher changes to sessions and
\* sends datagrams.
Answer(k, sessions, datagrams) ==
    /\ switcher' = sessions
    /\ to_server' = RemoveAt(to_server, k)
    /\ to_client' = to_client \o datagrams
    /\ UNCHANGED <<client, device>>

Accept(k) ==
    /\ k \in Arriving(to_server) /\ to_server[k].kind = "open"
    /\ \E s \in SwitcherSessions :
          IF \E t \in SwitcherSessions : switcher[t].phase = "opening"
          THEN /\ switcher[s].phase = "opening"
               /\ Answer(k, switcher, <<Datagram("accept", s)>>)
          ELSE /\ ~ Alive(s)
               /\ Answer(k, [switcher EXCEPT ![s].phase = "opening"], <<Datagram("accept", s)>>)

\* The switcher has no room for another session.
Reject(k) ==
    /\ k \in Arriving(to_server) /\ to_server[k].kind = "open"
    /\ \A s \in SwitcherSessions : switcher[s].phase # "opening"
    /\ Answer(k, switcher, <<Datagram("reject", ClientSession)>>)

\* The switcher waits for this datagram.
Expects(m) ==
    /\ m.session \in SwitcherSessions
    /\ CASE m.kind = "ack"     -> \/ switcher[m.session].phase = "opening"
                                  \/ \E j \in DOMAIN switcher[m.session].chain :
                                        switcher[m.session].chain[j].id = m.id
         [] m.kind = "closed"  -> switcher[m.session].phase = "closing"
         [] m.kind = "closing" -> TRUE
         [] OTHER -> FALSE

Acknowledge(k) ==
    /\ k \in Arriving(to_server) /\ to_server[k].kind = "ack" /\ Expects(to_server[k])
    /\ LET s == to_server[k].session
       IN  IF switcher[s].phase = "opening"
           THEN \E tally \in Tallies :
                   Answer(k, [switcher EXCEPT ![s] = Connected(s, tally)], Connected(s, tally).chain)
           ELSE \E j \in DOMAIN switcher[s].chain :
                   /\ switcher[s].chain[j].id = to_server[k].id
                   /\ Answer(k, [switcher EXCEPT ![s] = Acknowledged(@, j)], <<>>)

\* The device answers a closing request, or requests to close a session itself.
End(k) ==
    /\ k \in Arriving(to_server) /\ to_server[k].kind \in {"closed", "closing"}
    /\ Expects(to_server[k])
    /\ LET s == to_server[k].session
       IN  Answer(k, [switcher EXCEPT ![s] = NoSession],
                  IF to_server[k].kind = "closing" THEN <<Datagram("closed", s)>> ELSE <<>>)

\* Requests to repeat a packet, which is repeated anyway, and answers to what the
\* switcher does not wait for any more.
Ignore(k) ==
    /\ k \in Arriving(to_server) /\ to_server[k].kind # "open" /\ ~ Expects(to_server[k])
    /\ Answer(k, switcher, <<>>)

Sends(m) == to_client' = Append(to_client, m) /\ UNCHANGED <<client, device, to_server>>

\* The switcher pings, or reports the tally.
Report(s, tally) ==
    /\ Uncongested
    /\ switcher[s].phase = "connected" /\ Len(switcher[s].chain) < Unacknowledged
    /\ LET m == Data(s, (LatestId(switcher[s]) + 1) % RemoteIdCount, FALSE, tally)
       IN  switcher' = [switcher EXCEPT ![s].chain = Append(@, m)] /\ Sends(m)

\* What the switcher waits for an answer to.
Outstanding(s) ==
    CASE switcher[s].phase = "opening"   -> <<Datagram("accept", s)>>
      [] switcher[s].phase = "connected" -> switcher[s].chain
      [] switcher[s].phase = "closing"   -> <<Datagram("closing", s)>>
      [] OTHER -> <<>>

Repeat(s, k) ==
    /\ Uncongested
    /\ k \in DOMAIN Outstanding(s)
    /\ Sends(Outstanding(s)[k])
    /\ UNCHANGED switcher

\* The switcher closes a session, for want of an answer or on its own account.
Drop(s) ==
    /\ Uncongested
    /\ switcher[s].phase \in {"opening", "connected"}
    /\ switcher' = [switcher EXCEPT ![s] = [NoSession EXCEPT !.phase = "closing"]]
    /\ Sends(Datagram("closing", s))

Forget(s) ==
    /\ switcher[s].phase = "closing"
    /\ switcher' = [switcher EXCEPT ![s] = NoSession]
    /\ UNCHANGED <<client, device, to_client, to_server>>

-------------------------------------------------------------------------------
LoseToClient(k) ==
    /\ k \in DOMAIN to_client
    /\ to_client' = RemoveAt(to_client, k)
    /\ UNCHANGED <<client, device, switcher, to_server>>

LoseToServer(k) ==
    /\ k \in DOMAIN to_server
    /\ to_server' = RemoveAt(to_server, k)
    /\ UNCHANGED <<client, device, switcher, to_client>>

SwitcherRecv ==
    \E k \in 1..InFlight :
        Accept(k) \/ Reject(k) \/ Acknowledge(k) \/ End(k) \/ Ignore(k)

Next ==
    \/ NetifUp
    \/ \E k \in 1..InFlight : Recv(k) \/ LoseToClient(k) \/ LoseToServer(k)
    \/ Timeout
    \/ SwitcherRecv
    \/ \E s \in SwitcherSessions :
          \/ \E tally \in Tallies \cup {"none"} : Report(s, tally)
          \/ \E k \in 1..Unacknowledged : Repeat(s, k)
          \/ Drop(s)
          \/ Forget(s)

Spec == Init /\ [][Next]_vars

\* The network interface comes up, lwIP delivers what arrives and fires the timer,
\* and the switcher does its part; it repeats a packet however busy the network is.
Fairness ==
    /\ WF_vars(NetifUp)
    /\ \A k \in 1..InFlight : WF_vars(Recv(k))
    /\ WF_vars(Timeout)
    /\ WF_vars(SwitcherRecv)
    /\ \A s \in SwitcherSessions : SF_vars(Repeat(s, 1))

FairSpec == Spec /\ Fairness

-------------------------------------------------------------------------------
(***************************************************************************)
(* Safety                                                                  *)
(***************************************************************************)
Replies   == [kind : {"open", "ack", "retxreq", "closing", "closed"},
              session : SwitcherSessions \cup {ClientSession}, id : RemoteIds]
Datagrams == [kind : {"accept", "reject", "data", "closing", "closed"},
              session : SwitcherSessions \cup {ClientSession}, id : RemoteIds,
              version : BOOLEAN, tally : Tallies \cup {"none"}]

TypeOK ==
    /\ client \in Clients
    /\ device \in [atem_state : {"unconnected", "connected", "dropped", "rejected", "disconnected"},
                   conn : BOOLEAN, tally : Tallies, softap : BOOLEAN, polled : BOOLEAN]
    /\ switcher \in [SwitcherSessions ->
                       [phase : {"none", "opening", "connected", "closing"}, base : RemoteIds,
                        tally : Tallies, chain : Seq(Datagrams)]]
    /\ to_client \in Seq(Datagrams)
    /\ to_server \in Seq(Replies)

\* What the device shows is what the session has reported up to the packet the
\* device received last: however packets are lost and repeated, none is taken
\* twice, none is left out, and none is taken from a session before.
TallyFollows ==
    \A s \in SwitcherSessions : switcher[s].phase = "connected" =>
        LET session == switcher[s]
        IN  \/ client.remote_id_last = session.base /\ device.tally = session.tally
            \/ \E k \in DOMAIN session.chain :
                  /\ client.remote_id_last = session.chain[k].id
                  /\ device.tally = TallyAfter(session, k)

\* Nothing is lit but while the device says that it is connected, so the timeout
\* turns off all there is (atem_timeout_callback()).
LitOnlyConnected ==
    device.conn \/ device.tally # "off" => device.atem_state = "connected"

\* The buffer to send is as long as what is sent from it.
SendsWholeBuffer ==
    client.write_buf # "none" => client.write_len = BufferLen(client.write_buf)

-------------------------------------------------------------------------------
(***************************************************************************)
(* Liveness                                                                *)
(***************************************************************************)

\* When the switcher is not heard from any more, the tally goes out and stays out.
DarkWhenGone == <>[](to_client = <<>>) => <>[](device.tally = "off" /\ ~ device.conn)

\* A datagram is lost that matters (a step of LoseToServer may also be one of
\* Ignore), a session is given up or refused, or the device runs out of patience
\* with a switcher that is about to answer.
Interrupted ==
    \/ \E k \in 1..InFlight :
          \/ LoseToClient(k)
          \/ LoseToServer(k) /\ (to_server[k].kind = "open" \/ Expects(to_server[k]))
          \/ Reject(k)
    \/ \E s \in SwitcherSessions : Drop(s)
    \/ Timeout /\ (to_server # <<>> \/ \E s \in SwitcherSessions : Alive(s))

\* Whatever happened before: a device that is not interrupted any more connects.
Reconnects == <>[][~ Interrupted]_vars => []<>(device.atem_state = "connected")

===============================================================================
