# Verification of the ATEM client, tally device and proxy

TLA+ models of the programs in this repository, the TLC configurations that
model-check them on small instances, and proofs TLAPS checks for instances of
any size. Paths are relative to `src/`.

    tlc -config MCAtemServer.cfg MCAtemServer     check one instance
    tlapm SessionSlotsProofs.tla                  check the proofs of a module

`PROJECT.json` lists the components, the runs, the definitions with the lines
they model, a mutation of the code for every property, what the runs found, the
hazards in the code, and the theorems.


## The system

An ATEM switcher speaks a protocol of its own over UDP: a client opens a session
with a handshake, both sides number their data packets with 15 bit ids and repeat
each until it is acknowledged, and either side closes the session with a second
handshake. The repository holds

- a client of the protocol (`core/`), used by
- tally and camera control firmware for microcontrollers (`firmware/`), and
- a proxy (`proxy/`) that is a server of the protocol to many clients, and an
  earlier one (`proxy_server/`).

### Inventory

| component | state | operations | talks to |
|---|---|---|---|
| protocol client `core/atem.c` | `struct atem`: read buffer, which of four buffers is to be sent and how much of it, the id received last | open, close, parse a datagram, iterate over its commands | the device and the POSIX client call it with every datagram; it has no socket and no timer |
| POSIX client `core/atem_posix.c` | a socket and a `struct atem` | init, send, receive with a timeout, poll | blocking wrapper around the client |
| proxy: sessions `proxy/atem_session.c` | array of sessions, connected ones first; lookup table from session ids and request ids to indexes; counter of session ids | create, connect, acknowledge, closing, closed, drop, terminate, flush, evict | called by the server for datagrams, by packets when one runs out of retransmits |
| proxy: packets `proxy/atem_packet.c` | one queue of unacknowledged packets in the order they expire; in each packet the sessions it went to, an index of them with those still waiting in front, links into the chains of those sessions | allocate, enqueue, disassociate, retransmit, broadcast a ping or the closing request | sessions are linked into packets and packets into sessions |
| proxy: server `proxy/atem_server.c` | the above, the socket, whether it is closing | init, receive, broadcast, close, restart, release | event loop |
| proxy: cache `proxy/atem_cache.c` | latest value of every camera control parameter, in chunks as large as packets | update, dump to a new session | data that was received; sessions that connect |
| proxy: timeouts `proxy/timeout.c` | none: computed from the head of the queue and the ping timer | the time to sleep for; what to do after it | event loop, packets |
| proxy: assertions `proxy/atem_assert.c` | none | checks sessions, packets and the queue | in debug builds; for calls while debugging, nothing calls it at present |
| proxy: background thread `proxy/async.c` | list of tasks, mutex, pipe | dispatch a task, run all tasks | any thread dispatches; the background thread runs tasks, and the server's handlers |
| legacy proxy: server `proxy_server/server.c` | chunks of sessions by id, which exist while they are not empty; connected sessions; each session's unacknowledged packets; one resend queue of all of them | open, complete, close and time out handshakes; acknowledge; broadcast commands; ping; retransmit | called by the event loop and by `relay.c` |
| legacy proxy: timers `proxy_server/timer.c` | one timer each for pings, the oldest packet and the connection to the switcher; a pointer to the one that expires first | enable, disable, restart, what to do next | called by the server whenever a queue becomes empty or not |
| legacy proxy: relay and cache `proxy_server/relay.c`, `cache.c` | a client of the switcher | connect, receive, time out | the server, the drop timer |
| firmware: ATEM connection `firmware/atem_sock.c` | `struct atem`, the state shown to the user, the outputs, a UDP control block, a timer | wait for a network, receive, time out and reconnect | lwIP callbacks; LEDs, SDI shield, access point |
| firmware: HTTP server `firmware/http.c`, `http_respond.c` | per connection: parser state, offsets, remaining body, segment chain; configuration being edited | receive a segment, send when there is room, time out, close | lwIP callbacks; configuration storage |
| firmware: DNS `firmware/dns.c` | none | answer one question | lwIP callback |
| firmware: configuration `firmware/flash_*.c` | a flash sector, and the WLAN settings the SDK keeps | read; write the settings, erase and write the sector if it changed, restart | start; HTTP server |
| firmware: outputs and start | registers | | |

### What is hard here

- **Two structures that refer to each other.** A session has a chain of packets
  and each packet an array of sessions, with indexes in both directions; sessions
  move in their array while packets refer to them by id. Every operation changes
  several links and moves up to two sessions. `proxy/atem_assert.c` says what of
  it should hold. *Correct when:* ids lead to sessions, packets to exactly the
  sessions waiting for them, nothing refers to freed memory, whatever the order of
  datagrams, timers and calls of the program.
- **Unreliable delivery.** Datagrams are lost, repeated and reordered; handshakes
  are repeated and answered late. *Correct when:* no packet is taken twice, none is
  skipped, no session is forgotten without a closing handshake.
- **Timeouts.** One head of one queue stands for all sessions; a device gives up a
  session without telling anybody. *Correct when:* a silent client is forgotten, a
  closing server gets rid of everyone, a device connects again, and the tally goes
  out when it does not.
- **Ids that wrap**, compared by differences of ints.
- **One value, many copies.** The cache, packets made from it, and what clients know: a client
  connects while others change parameters, relatively as well. *Correct when:* a client with
  the packets it has not processed yet knows the cache, and no change is made twice.
- **One timer for many.** Both event loops wait for one time: the queues must be in the order of
  expiry, and the next timer be the nearest. *Correct when:* no client keeps the server waiting.
- **Two threads** and a pipe. *Correct when:* every dispatched task runs, once, in
  order, and no wakeup is lost.
- **Streams cut anywhere** (HTTP): the parser keeps where it is in a state, an offset and
  two unions, whose members the response and the timer use as well. *Correct when:* what
  is stored is what the request says, wherever it was cut.
- **Writes cut anywhere** (flash).

`PROJECT.json` has all of it under `hazards`, with lines.


## Modules

    Unacknowledged            abstract: who has not acknowledged one packet
    PacketSessions            operators: a packet's index of sessions
      PacketAcks              one packet, acknowledged in any order  --implements--> Unacknowledged
        PacketAcksProofs
    SessionTable              operators: sessions array and lookup table
      SessionSlots            every sequence of its operations
      SessionTableProofs      what each operator does to a consistent table, for any kind of session
        SessionSlotsProofs
    AtemServer                the proxy server: SessionTable + PacketSessions + queue + datagrams,
                              with what its atem_assert() says
      AtemServerProofs        with SessionTableProofs: the whole server
      AtemServerClaims        what comments and documents say and the code does not
    AtemClient                operators: the protocol client
      TallyDevice             the firmware's connection, a switcher, a network
        TallyDeviceProofs
    CameraControl             operators: payloads and the commands that change them
      AtemCache               the cache, its clients, their packets  --implements--> SharedParameters
        AtemCacheProofs
    SharedParameters          abstract: a store that clients change and follow
    CacheChunks               how the cache is cut into packets and dumped
    TaskQueue                 abstract: a queue of tasks
      Async                   the background thread          --implements--> TaskQueue
        AsyncProofs
    RelayTimers               operators: the legacy proxy's three timers
      RelayServer             its sessions, queues and event loop
        RelayServerProofs
    HttpParser                operators: the parser of the configuration server
      HttpForm                reference: what a whole body means
        HttpServer            a connection: segments, responses, timer, what is stored
          HttpServerClaims

`MC*` modules and configurations hold the constants of the instances. An operator
that says *Mutation* is a plausible bug in place of the operator after it; no
specification uses it, and TLC finds each one violate a property.

### PacketSessions, PacketAcks (`proxy/atem_packet.c`)

A broadcast packet has a slot for each session it was sent to, and a permutation of
the slots, `packet_session_index`, with those still waiting first. Acknowledging
swaps a slot with the last waiting one (`atem_packet_disassociate`), and the last
acknowledgement frees the packet. `PacketAcks` is one packet under every order of
acknowledgements with retransmissions between them; its variables are the packet
(`none` once freed), which sessions are still linked to it, and where the latest
retransmission went. The C code keeps the index in the same array as the links; the
model has one function for it.

### SessionTable, SessionSlots (`proxy/atem_session.c`)

Operators take a record with the fields of `struct atem_server` and return what
the C function of that name leaves behind. Connected sessions are at the front
of the array, so connecting and dropping swap a session with the one at the border,
and releasing fills the gap with the last one. A session in its opening handshake is
registered under its request id as well. `SessionSlots` calls the operations in
every order; `AtemServer` calls them as the handlers do.

### AtemServer (`proxy/atem_server.c`, `atem_session.c`, `atem_packet.c`, `timeout.c`)

`server` is `struct atem_server` with everything it points to:

| model | code |
|---|---|
| `sessions`, `sessions_len`, `sessions_connected`, `lookup` | as in SessionTable |
| `chain` of a session, a sequence of links | `packet_head` to `packet_tail`, doubly linked through the packets |
| `packets`, a function on the packets in memory | allocated packets; removing one from the domain is `free()` |
| `queue`, `queue_tail` | `packet_queue_head` and its links; the tail on its own because the code does not always reset it |
| `remote_id`, `remote_id_last` | latest id sent and received |
| `failed` | the name of the function whose `assert()` stopped the program |

One action is one handler: `RecvOpen`, `RecvConnect`, `RecvAck`, `RecvClosing`,
`RecvClosed`, `RecvData` for what `atem_server_recv` does with a datagram that has one
flag, `Ping`, `Retransmit`, `Close` and `Restart` for the timers and the program. The
event loop calls one handler at a time, so handlers do not interleave; within a
handler, everything it does (renumbering, swapping, requeueing, releasing) is part of
the action. There is no network: an action may happen whenever some client could have
sent the datagram it is about, so loss, repetition, delay and reordering are all there.
Datagrams that change no state (rejections, answers sent again) are not actions.

The assertions of `atem_assert.c` are operators of the same names (`AssertPackets`,
`AssertSessionConnected`, `AssertSessions`, ...) and together the invariant `DebugAsserts`. The program
has them compiled in for debugging but calls them nowhere; the model checks them in every state
between handlers.

### CameraControl, AtemCache, SharedParameters, CacheChunks (`proxy/atem_cache.c`)

`CameraControl` has a payload as the bytes it is, and what a command does to it: replace it, or
add numbers of one, two or four bytes that carry and wrap (`atem_cache_update_cc`). A command that finds no
parameter, or has an unknown type, is not `Effective`. `Hidden` are the parameters that are in the dump but
not found by `cc_param_get`. What a client sends is not checked for its camera nor for how many numbers it
adds: `Fails` is what trips the assertion on camera 0, reaches behind the last camera (both `NoCamera`)
or runs past the payload. Numbers of another width than the parameter's are added as they are.

`AtemCache` is the cache together with what it is for. `RecvData` applies all commands of a
datagram and broadcasts the new value of each; `Connect` dumps all chunks to a new session. A session has two
sequences of packets: `chain` are those it sends again, `underway` those its client has not processed. They differ because of
`Unacknowledged`: the loop in `atem_session_acknowledge` takes the whole chain or nothing, so an acknowledgement of
the first packet of a dump stops the others from being sent again, whether they arrived or not. Such a client is
`Stranded` on a packet that may still arrive, since it was sent once, or never. After a command that `Fails` the model
stops (`Fail`, `failed`). The handshakes are one action each, as AtemServer has their steps, and ids do not wrap. A
client's side is external for clients other than this repository's: it takes the packet with the next id only, as
`core/atem.c` does.
`SharedParameters` is what clients can rely on, without ids, chains or bytes: requests of
each client take effect at most once, in order and as a whole, and everyone who joined is told the store and
then every change. The refinement mapping reads the numbers out of payloads, takes a client's
datagrams above the id received last for its requests, and the packets underway to it for its news. A relative
command with numbers of another width is a request for some value, one that fails is a request for nothing.

`CacheChunks` is `atem_cache_init` one command at a time, with the lengths of the real
commands. The code keeps a chunk's length in the padding of its first command, and finds the next
chunk by it; `lens` is a function on those places. `Dump` is one packet of `atem_cache_dump`.

### RelayTimers, RelayServer (`proxy_server/timer.c`, `server.c`)

`server` has the session table as the chunks it consists of (with their fill level, which wraps when
a chunk is full, and the one empty chunk kept for reuse), the broadcast list, a local queue for each
session, the resend queue, and the timers. The operators of `RelayTimers` are the functions of
`timer.c` by their names. `TimerEvent` is one round of `timeToNextTimerEvent`, which serves the next
timer if it has expired; datagrams and ticks come only when it has not (`Waiting`), as
in the event loop. A datagram is guarded as `processProxyData` guards it.

`relay.c` and `cache.c` do not compile against the present `core/atem.h`; what they do to the server
is environment: `RelayData` restarts the drop timer and broadcasts commands or does not. A datagram with any ids may
arrive at any time. `processProxyData` looks at nothing but `closed` before it acknowledges, so a client that acknowledges under its
assigned id while its session opens takes the accept packet out of the session: what completes the handshake or repeats the
packet follows a NULL pointer then, where the model stops (`Fail`, `failed`).

### AtemClient, TallyDevice (`core/atem.c`, `firmware/atem_sock.c`)

`AtemClient` has `atem_parse` as operators from a client and a datagram to the client
after it, the status and the reply. `TallyDevice` puts it into the firmware:
`NetifUp`, `Recv`, `Timeout` are the lwIP callbacks, which do not interleave.

The switcher is hardware, not part of the repository, and is modelled as the code
relies on it and `doc/atem_protocol.md` describes it: it accepts or rejects, reports the
version and the tally first, numbers packets, repeats what is not acknowledged,
closes sessions, forgets them. The channels lose datagrams; the switcher
repeats them. Two assumptions are constants, because properties depend on them:

- `Overtakes`: datagrams may arrive out of order. Off in the run `device`: the device
  does not take a packet for one of another position in either case, but an accept
  packet that is overtaken by data resets it, and with `Overtakes` on `TallyFollows` is violated
  (`LitOnlyConnected` and `SendsWholeBuffer` are not).
- `Outlives`: a switcher's session may still be alive when the device gives up on it.
  Off in the run `device`, which is what the proxy of this repository as the switcher
  is like: it pings every 500 ms and gives up after ten retransmits of 200 ms each, well
  within the device's five seconds. A switcher that waits five seconds itself
  can outlive the device; with `Outlives` on, and two sessions, `TallyFollows`, `LitOnlyConnected` and
  `SendsWholeBuffer` are violated.

### TaskQueue, Async (`proxy/async.c`)

One action is one access to what threads share: taking the mutex, looking at
the head and writing it or `tail->next`, writing to the pipe, setting the tail,
releasing the mutex; reading the pipe, taking the mutex, running a task, releasing.
Tasks are memory: running one frees it, and the next `Dispatch` may get the same
address. `SignalFails` is the early return after a failed `write()`, with the mutex
locked; nothing runs after it, which is why `MCAsync.cfg` allows deadlock.


### HttpParser, HttpForm, HttpServer (`firmware/http.c`, `http_respond.c`, `flash_*.c`)

`HttpParser` maps `struct http_ctx` before a character (`Char`) or the end of a segment
(`Cut`) to the one after it. The C parser loops over what is available and falls through
from state to state; a state and an offset stand for the same position, and the cases in which
running out of data does something are `KeyCut` and `ValueCut`. Words are shortened to the
letters that tell them apart. Each type of value has one key, addresses two, with names that
share beginnings as `netmask` and `name` do. The unions are unions: `union` holds what was
written last to `cmp`, `hex` or `response_state`, and reading it as another member gives what
the bits mean there (`HexRead`, `ResponseState`).

`HttpServer` is a connection and the flash. `Receive` is a character of a segment, and only
`Receive` happens within one (`conn = "parsing"`); `Sent`, `Poll`, `Disconnect` and `Reboot` are
the TCP callbacks, `Store` the deferred one that writes. A response has as much room as it
happens to have. `Stages` is what the flash holds after each step of writing. The timer may
fire at any time, also within a value, where it responds by what the union happens to hold
(`polled` says it did), but not within an escape, where it would read the text of an error
that was never set.

`HttpForm` is the reference: it has the whole body, splits it at `&` and `.`, and takes the
values. It shares nothing with the parser but the table of words and types.


## What the runs show

| run | instance | question |
|---|---|---|
| `packet_acks` | 5 sessions (the default limit) | does the index keep a retransmission going to exactly the sessions that did not acknowledge, in every order; does the packet go away with the last |
| `session_slots` | 4 sessions, 6 session ids, 3 request ids | are ids and indexes consistent after any sequence of operations; does no session go back to an earlier handshake |
| `server` | 2 sessions, 3 packets, 3 packet ids, 2 session ids | all of the server together: sessions, chains, queue, slots, handshakes, closing, and what `atem_assert` says of them |
| `server_live` | the same with 2 packets, no data | does a closing server get rid of its sessions, is a silent client forgotten |
| `cache_sync` | 2 clients, 3 parameters of 2 bytes in 2 packets, datagrams of one, of five and of failing commands, 4 packets a session | does a client know the cache, with what it was sent and has not processed; is no change made twice or by halves; does a client catch up that is not stranded |
| `cache_layout` | the commands with their real lengths, 1 to 254 sources | is the cache dumped whole, in packets that fit |
| `async` | 3 threads, 4 tasks | is no wakeup lost, no freed task touched, every task run once in order |
| `device` | 1 session, 2 unacknowledged packets, 3 datagrams in flight, 6 ids | does the device show what was reported, no more, no less, and connect again |
| `http` | 11 valid and 17 invalid bodies and 5 other requests, 2 stored configurations | is what is stored what the request says, wherever it was cut; is it answered; do connections end |
| `relay_server` | 2 sessions in chunks of 2, 4 packet ids, timers of 2, 3 and 4 ticks | do the table, the queues and the timers belong together; does the event loop wait for the nearest timer; is a silent client forgotten |
| `claim_*` | as small as shows it | what a comment says and the code does not do |

### Properties worth reading first

- `PacketsLinked` (AtemServer): queue, packets, slots, indexes and chains agree.
- `DebugAsserts`: everything `atem_assert.c` checks of sessions, chains, slots and the queue. Its
  part `AssertExhausted` is the assertion in `atem_packet_retransmit`: the code turns a
  packet that ran out into a closing request and asserts that it is the oldest of each of its
  sessions. Nothing local makes it so; it follows from the queue being in the order of
  sending and each packet having the same number of retransmits.
- `AcknowledgesOlder` and `AcknowledgesUpTo`: the two directions of what an
  acknowledgement does. The first holds, the second does not.
- `ClosedByHandshake`: no session disappears on its own.
- `InSync` (AtemCache): with the packets it was sent and has not processed, a client knows exactly the cache:
  it may be behind, never wrong. An update between a dump and its broadcast, or a relative change told as such, would break it.
- `ImplementsSharedParameters`: and each datagram took effect at most once, in order, as a whole.
- `CatchesUp`: a client does not stay behind, unless it is stranded on a packet that an acknowledgement took away.
- `Consistent` (RelayServer): the table of chunks, the two queues and the next timer agree; a
  timer that is waited for is never that of a packet that was freed.
- `NearestKept` (RelayServer): the event loop's next timer stays the nearest, with the one
  exception the code has (`Overlooks`): a restart of the drop timer leaves it the next while pings and a
  packet both wait, the packet no longer than the pings. `SilentForgotten` is what follows from it for clients.
- `TallyFollows` (TallyDevice): the tally on the device is the one in the
  session's packets up to the id the client received last.
- `Reconnects`: whatever happened before, a device that is not interrupted
  connects, from every combination of buffers and ids a session can leave behind.
- `StoresWhatWasSent` and `RejectsOnlyInvalid` (HttpServer): the result of a parser with 30
  states, for every way to cut a request, is that of the reference.
- `OneSignal` (Async): a list that is not empty has exactly one signal on its way, the invariant
  behind "only signal when the list was empty".

### Bounds

- *Two sessions in AtemServer.* Operations move at most the session itself, one at the
  border and the last one. The runs of SessionSlots with four sessions have all three
  distinct, its proofs any number; AtemServer adds packets shared by two sessions.
- *Three packets*: an accept packet or a chunk of one session, a ping, and another
  ping or the closing request. `RecvData` with two updates needs two at once.
- *Three ids*, one retransmit: chains reach around the ids; a packet
  that was sent again and one that ran out differ. `AcknowledgesOlder` is about half the
  id space, which for three ids is one id ahead and one behind.
- *Two session ids*: the counter comes around to an id still in use at once, where
  the assertion of `atem_session_create` stops the model, as it would the program.
- *Six packet ids for the device*: with at most two packets unacknowledged, a
  repeated packet is never half the ids away, as with 0x8000 ids and a real switcher.
- *Three datagrams in flight*: a repeated one behind an old one and the answer.
- *Four tasks, three threads*: one runs while another waits for the mutex and a third
  appends, with one address used again.
- *Two bytes with two values each* (`cache_sync`): numbers of one and of two bytes, a
  sum that carries and one that wraps. One of five commands in a datagram sets a parameter, a
  later one adds to it as if its numbers were wider; the others have no effect. A third datagram fails. An acknowledgement two
  ids ahead of a packet reaches it, one three ids ahead does not (`AckRange`; the code's is 0x3fff). *One datagram* in all sessions, *four packets* a
  session: two of the dump and two of the larger datagram.
- *The proxy's own commands* (`cache_layout`): the instance is the real one, without a bound.
- *Timers of 2, 3 and 4 ticks* (`relay_server`): in the order `timer.c` asserts, all different;
  *a chunk of two* is full, half full and empty; *one retransmit*; *four ids* for
  packets, of which two are unacknowledged when commands are sent (`QueueMax`). A session that has as
  many packets waiting as there are ids is not sent another one (`IdsLeft`), since packets are told apart by
  their ids; the code has 0x8000 of them. An expired timer is late by one
  tick at most (`PastMax`); how late does not matter to the code.
- *Requests*: each type of value, valid, too long, out of range and with too few parts;
  each key alone, repeated, last and followed by another; words that share a beginning; a header
  that begins like the content length. Every subset of positions is a way to cut them, without a
  bound. Strings of two characters are full as soon as they are interesting. Clients connect
  in two stored configurations, one of them an erased one (`Configs`); others are not looked
  at, since only the flash connects one connection to the next.

### Fairness

- AtemServer: `WF(Retransmit(p))` for each packet. `timeout_next` makes the event loop
  sleep until the head of the queue expires at the latest, and every round of the loop
  calls it, so a packet that stays at the head is dealt with. Nothing is assumed
  of clients.
- AtemCache: `WF` of a client taking its next packet while that is in its session's chain, since the server sends it
  again then, and not every copy is lost. There is none for a packet that was acknowledged (`Stranded`): the
  server sends it once.
- RelayServer: the event loop serves an expired timer, and time passes while none has. Both are
  stated by their consequences on `Waiting`, which is what weak fairness of `TimerEvent` and
  `Tick` says, as these are enabled exactly when the loop does not wait and when it does.
- TallyDevice: lwIP delivers what arrives and fires timers. The switcher answers.
  `SF(Repeat(s, 1))`: it repeats the oldest unacknowledged packet although the bound on
  datagrams in flight disables the action now and then.
- Async: threads are scheduled, `poll()` returns when there is a byte; `SF(LockList)`: a
  thread waiting for a mutex that is free again and again gets it. Without it
  the other threads could starve the background thread.
- HttpServer: segments end, the timer fires, deferred callbacks run, and the client's TCP takes
  and acknowledges what is sent in the end. Nothing is assumed of what the client sends.

### Findings

1. `claim_acknowledge` (`proxy/atem_session.c:584`): ids are subtracted without masking
   the difference, so an acknowledgement takes *newer* packets out of a chain as
   well. They are never retransmitted: a client that acknowledges the first packet of the cache's dump, and does not
   get the second, waits for it for as long as its session lasts (`Stranded` in AtemCache).
2. `claim_parses_whole_body` (`firmware/http.c:366`): the delimiter after a flag is counted
   twice. A segment that ends one character before the body does completes the request, and the
   last value is stored without its last character.

In the models, but not turned into runs:

- `packet_queue_tail` is not reset when the last packet leaves the queue after running out
  (`proxy/atem_packet.c:283`): a later close fails an assertion (`failed` is then
  `atem_packet_broadcast_close`), and so does reopening the server (`proxy/atem_server.c:43`);
- an accept packet overtaken by data starts the ids of a running session over
  (`core/atem.c:194`; `Overtakes`);
- a tally reported by a session that outlived a timeout stays lit when that session is lost
  (`firmware/atem_sock.c:227`; `Outlives`);
- the cache checks neither the camera of a command (`proxy/atem_cache.c:84`) nor how many numbers are added
  (`proxy/atem_cache.c:188`): commands write behind the cameras, or behind a parameter (`Fails` in CameraControl);
- the legacy proxy lets a client acknowledge its accept packet under the assigned id while its session opens
  (`proxy_server/server.c:720`); completing the handshake (`proxy_server/server.c:536`) or repeating its first
  packet (`proxy_server/server.c:462`) then follows a NULL pointer (`Fail` in RelayServer), and until its client closes it
  the session is not sent anything, so no retransmission runs out and it stays in the table;
- restarting the drop timer while pings and a packet both wait leaves it the next timer
  (`proxy_server/timer.c:142`), although the comment promises the nearest
  (`proxy_server/timer.c:204`): pings and retransmissions stall until it expires or another event
  sets the next timer, which data of the switcher, each datagram of which restarts it, can put off without limit (`Overlooks`, the exception in `NearestKept`, and the assumption of `SilentForgotten`).
  The drop timer need not be the next one before: completing a handshake can take away the packet that
  was, and restarts the drop timer in the same event (`proxy_server/server.c:525`), which a run with a
  resend time of one tick cannot show;
- a packet at the head of the resend queue that ends a chunk takes that mark with it when it is
  acknowledged, so that one round of retransmissions (`proxy_server/server.c:729`) ends elsewhere;
- the legacy proxy compares ids of packets as they are, also when they wrapped
  (`AcknowledgeLocalPacket`);
- closing the proxy while two sessions share a closing request fails an assertion
  (`proxy/atem_server.c:257`; `failed` is then `atem_server_flush`);
- data of a session in a handshake reaches the cache and fails an assertion when nobody is
  connected (`proxy/atem_server.c:184`; `failed` is `atem_cache_update`), although the
  documentation says such data should be ignored (`doc/atem_protocol.md:191`);
- an address that a segment ends in before its third dot is rejected
  (`firmware/http.c:300`; the exception `InAddress` in `RejectsOnlyInvalid`);
- `dest=` followed by another field is accepted and stored as 0, which is below `DEST_MIN`
  (`firmware/http.c:246`; `ValidValue` says so);
- the timer responds by what the union holds (`firmware/http.c:841`): within a string it sends the
  configuration page and resets the remaining length, so that the next segment is taken for
  the end of the body (`polled`); after a header that is not the content length, or within an
  escape, the client is never dropped (`Undropped`);
- a configuration that was erased and not written again is used as it is
  (`firmware/flash_esp8266_nonos.c:93`).

Also seen: `atem_assert.c` masks the id after the latest in one place and not in another (lines
119 and 128), so the second would fail when ids wrap (`DebugAsserts` masks both);
`iso_old` is dumped to clients but never updated; the header of a dumped packet has 0 for the
high byte of its id (`proxy/atem_cache.c:137`), which fewer than 256 chunks make right
(`DumpsWholeCache`); the counter of session ids does not skip ids in use
(`proxy/atem_session.c:271`; `failed` is then `atem_session_create`); a closing request that is
broadcast is retransmitted as often as data (`proxy/atem_packet.c:363`), while a session that is
dropped gets `ATEM_RESENDS_CLOSING`; `async_release` reports an error when a call succeeds
(`proxy/async.c:161`).


## What is proved

For all values of the constants, under the assumptions named in the modules
(`IdsAssumption`, `ServerAssumption`, `AsyncAssumption`, ...): sizes are positive, request ids and
session ids are disjoint, null is none of the objects, no timer or packet has the name of another, and memory is finite (`Tasks`, `Packets`). The last one
is only used for counting: the list of tasks and the packets that are left free have a length. AtemCacheAssumption
says that the chunks of a dump cover all parameters (what `CacheChunks` is about) and are no more than the packets a
session may be sent; of the commands that clients send it says nothing. The bounds (`RemoteIdsMax`, ...) are any numbers.

What loops and lists compute is proved by induction over the number of rounds. The induction theorems of
the library take an operator, which the installed provers cannot instantiate; `NatInductionSet`
is about sets of numbers instead, and follows from there being no infinite descent. The modules of proofs extend
components that have nothing in common, so each that needs it, or facts about remainders, has them at its
beginning. Loops are recursive functions over their rounds (`after[k]`), which exist by the same induction.

**PacketAcksProofs.** `IndexInv`: the index is a permutation of the slots, and its first
`sessions_remaining` entries are exactly the linked ones. It is inductive: the swap in
`Disassociated` exchanges two values of a permutation, and shortens the front by the one
that was taken out. From it: retransmissions go to the linked sessions, a packet is in
memory exactly while somebody is linked, and PacketAcks implements Unacknowledged (theorems
`IndexInvariant`, `TypeOKThm`, `RetransmitsToLinkedThm`, `FreedWhenUnlinkedThm`, `Implementation`).

**SessionTableProofs, SessionSlotsProofs.** No part of `TableConsistent` is inductive. The inductive
invariant (`Good` of a table, `TableInv` of SessionSlots)
says that the lookup table and the array are inverse to each other on both kinds of ids:
every session is registered under both of its ids, and every registered id is one of
the ids of the session it leads to. That no two sessions have an id in common
follows, and with it that moving a session only changes the entries of its own ids. The lemmas on the
operators come in two kinds, for sessions with any further fields: `...Good`, that the table stays consistent, and
`...View`, which session is then found under which id. `TypeOKThm` and `TableConsistentThm` follow from the first,
`HandshakesAdvanceThm`, an action property, from the second: seen by ids, no operation moves anything.

**AtemServerProofs.** All safety and action properties of the run `server`, for any
number of sessions, packets, ids and retransmits. The inductive invariant, `Inv`, is stated by
session ids and not by indexes, so that moving sessions leaves it alone:

- `Good`: the session table is consistent;
- `Memory`: the queue lists every packet in memory once, its tail is its last packet unless it is empty,
  and every packet is `PacketGood`: its index puts the slots that wait in front, and its slots are of different sessions;
- a packet waits for a session in a slot (`Waits`) exactly when the session's chain has that link (`Holds`): with it
  nothing that is freed is referred to, and nothing that is referred to is freed;
- `Chained`: a chain is `Ordered` as the queue is, unless a packet in it was sent again more often, and
  has each packet once; the chain of a connected session is `Numbered` with consecutive ids, the last one the
  session's latest; a session in a handshake is `Alone` with one packet, of the kind its handshake sends;
- `Flags`: while the server closes, only closing handshakes are left.

`Ordered` is what makes the packet that runs out the oldest of each of its sessions, the assertion in
`atem_packet_retransmit`, and with it that turning it into a closing request leaves no packet behind. Handlers
that break the invariant on their way (a session's chain is emptied before the session is released; the loop over the
receivers of a packet that ran out) have it but for a set of sessions, `Proper(s, X)`. Each operator of
AtemServer has a lemma that says what it does to `Proper`, loops by induction, and each action follows from those of the operators it
calls. `TypeOKThm`, `PacketsLinkedThm`, `DebugAssertsThm`, `ClosingToAllThm`, `AcknowledgesOlderThm` follow from
`ServerInvariant`; `ClosedByHandshakeThm` from it and from which ids each action forgets.

**AsyncProofs.** `Signalled` and `SignalledOnce`, whose conjunction is `OneSignal`, need each
other, and to know who holds the mutex: a list that is not empty has exactly one signal, which is
about to be written, in the pipe, or read and not acted upon; only the holder of the mutex is between
looking at the list and signalling; only the background thread makes the list empty, with the mutex
held and the signal read. `Invariant` is the inductive one, `TypeOKThm` and `OneSignalThm` follow.
For `ImplementsTaskQueueThm`, `Listed` says that the links from the head on visit some tasks in memory once
each and end at the tail, or behind it while the lock is held; appending and running change
the sequence of those tasks at its ends.

**AtemCacheProofs.** `InSync` is not inductive: a client processes the packet with the next id, which must be
the first that is underway. `Inv` says that the packets underway have consecutive ids up to the last one sent
and that the chain has packets that were sent only (`Numbered`), and that they start where the client is
(`Reached`); then either the last packet underway that holds a parameter, or
else the client's view, has the value in the cache (`Knows`). Acknowledgements do not touch what is underway; that
all of it arrives is not claimed, and false. `UpdateGood` is the loop over the commands of
a datagram; `UpdatedPayload` that a sum of numbers of one, two or four bytes leaves a payload, whatever the width
of the parameter's own.

`ImplementsSharedParametersThm` needs no other invariant, but that ids received are ids sent (`Counted`). It has
three parts. Numbers: `ElementBytes` and `AddedNumber` say that adding bytes with their carries is adding the
numbers they stand for, modulo the width (`DivModUnique`, `DivModProduct`). News: the packets underway
change at their ends only (`NewsPushed`, `NewsReceived`). The loop over the commands of a datagram: after each, the mapped cache and
what was broadcast are those of SharedParameters (`UpdateSteps`, `EffectSteps`). Each action then maps to `Join`, `Leave`, `Request`,
`TakeEffect`, `Tell`, or to a stutter: an acknowledgement changes nothing, nor does a command that fails, which is the last.

**TallyDeviceProofs.** All invariants of the run `device`, for any number of sessions, ids, packets that
are not acknowledged and datagrams on their way. Two assumptions are hypotheses of the theorems, since the
device does not promise more (see the findings): that no session outlives the timeout (`~ Outlives`), for all but
`TypeOKThm`, and that datagrams keep their order (`~ Overtakes`), for `TallyFollowsThm` only. The inductive
invariant, `Inv`, says what the timeout achieves: a request is alone (`Requesting`), or was rejected (`Rejecting`), or one session
at most follows from it (`OneAlive`, `Opening`, `Connecting`), and a device that is not connected has taken no data
(`Unheard`), so the first it takes is the packet with the version, which makes it connected. `LitOnlyConnectedThm` and
`SendsWholeBufferThm` follow. For `TallyFollowsThm`, `AllInOrder` gives what is on its way the numbers that ids would have if they did
not wrap: the session is acknowledged up to number *b*, the device took the first *n* packets of its chain (`Following`),
packets on their way have numbers of the chain or were acknowledged (`DataIn`), acknowledgements are between
*b* and *b + n* and in order (`AcksIn`), and none that accepts the session is behind data (`AcceptsIn`). No two of these
numbers are as far apart as there are ids, since fewer packets are unacknowledged (`DeviceAssumption`): so the packet with the
id the device expects is the next of the chain (`NextInChain`), and an acknowledged id is that of one packet (`InOrderAcknowledged`).

**RelayServerProofs.** All safety and action properties of the run `relay_server`, for any number and size of chunks,
any number of packet ids and retransmissions, and any intervals in the order `timer.c` asserts.
They are about behaviours in which a session never has as many packets waiting as there are ids (`IdsLeft`, a
bound of the model). `Consistent` lacks two things to be inductive, which `Inv` adds. The whole resend queue is in the order in which packets
expire (`Queued`): a packet that is sent (again) goes to the end with the longest time there is, and time passes for all
alike; with that its first packet is the one to wait for, and `nextResendTimer` is it. A packet is in the local queue
of its session, and nowhere else (`Owned`, `LocalOf`), so that closing a session takes exactly its packets from the resend queue.
Of what `Consistent` says, two parts carry the proof. A chunk in the table is not empty and its fill level is what it holds, modulo the number of sessions a chunk has (`ChunkGood`):
a fill level that comes down to zero is that of an empty chunk, since one that comes up to zero is full. A session that
is not connected has the packet of its handshake only, or, while it opens, none after an early acknowledgement (`Settled`);
that is why the handlers that take the head of its queue find one, or are those of `Fail`, after which nothing is said (`ServerInv`).
The operators of the model take the state of the server and return it, and each has a lemma about any such states; flushing,
broadcasts and rounds of retransmissions are loops, by induction. `NextStep` has one lemma for each event, and says both that
`Inv` is kept and that the nearest timer is (`Stepped`). `NewSessionIdFree` is the search for a free id: the limit on the sessions leaves
one among the ids there are, so the loop in `startHandshake` ends. `SessionChunks` is assumed not to be zero, since the first id must be one.

**Model-checked only.** Liveness and everything under fairness (`Closes`, `SilentForgotten`,
`EveryTaskRuns`, `CatchesUp`, `Reconnects`, ...), which the provers cannot reason about;
`HttpServer` (its parser folds over text) and `CacheChunks`. The invariants of the server, the cache and the legacy proxy are proved up to
what can fail (`failed`): the program stops there, or does what nobody can say.


## What is not modelled, and the plan

Not modelled on purpose: registers and buses, logging, option parsing, start-up
sequences, the run loop bindings, `relay.c` and `cache.c` of the legacy proxy, `research/`, build tools and
the HTML templates. Memory that runs out and sends that fail are not modelled in the proxies. Which
packet of the proxy expires when is abstracted to the order of its queue.

Planned, in this order:

1. **HttpServer**: several clients at once, a close that fails; the text of the page written
   in pieces (`http_write_value_string` starts a value with escapes over when its tail does not
   fit).
2. **RetransmitQueue**: the proxy's queue with timestamps: ordered by expiry, the time to sleep
   for, clocks that are set back. **SessionArray**: sizes computed in floating point hold
   every session.
3. **AtemLink**: a proxy client with `AtemServer`'s sessions on the other end, through a
   network that loses, repeats and reorders; abstract: both ends agree on a session.
   **AtemPosix**: `core/atem_posix.c` with the assertion on what it sends, and closing from the
   client (`atem_connection_close`).
4. **Dns**: the answer fits. What the firmware starts with after a write that was cut off.
5. **Async**: starting and releasing, with the server's descriptor in the poll set.

Theorems planned: `TypeOK` and `DumpsWholeCache` of CacheChunks for all
lengths; the invariants of HttpServer, for bodies of any length.
