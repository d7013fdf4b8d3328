# Qomicex Connector: formal models, checks and proofs

TLA+ models of the Rust crate `src/crates/qomicex-connector` (Minecraft rooms over
an EasyTier virtual network, the Scaffolding protocol over TCP). Paths below are
relative to `src/crates/qomicex-connector/src/` unless they start with `README`.

## 1. The system

A **host** opens a room: it joins an EasyTier network named by the room code, runs
a TCP server on a port it encodes in its EasyTier hostname
(`scaffolding-mc-server-<port>`), and keeps the list of players. **Guests** join
the same network, find that hostname among the peers, connect (directly or
through a port forward), send `c:player_ping` every 5 s and ask for the Minecraft
port and the list. The host drops a connection that has not pinged for 15 s.

| Component | State | Operations | What is hard | Correct when |
|---|---|---|---|---|
| `center/client_conn.rs` `handle_client`, `ClientRegistry` | four maps by client_id with a lock each: tokens, heartbeats, ip, machine | register, serve, record a ping, clean up; `disconnect_machine` | map by map against the heartbeat loop; failing writes | nothing is left behind; every served connection can be cut; the disconnect event names the machine |
| `heartbeat_timeout_loop` (same file) | none of its own | every 5 s: collect the clients older than 15 s, remove heartbeat and token, cancel | collected list is stale when used | silent clients go, live ones are not half removed |
| `center/tcp_server.rs` `TcpServer` | port, registry, token | start (bind, accept loop, tasks), stop | bind can fail after the port scan | stops when cancelled |
| `center/scaffolding_center.rs` `ScaffoldingCenter` | player list, `tcp_server` slot, server token, EasyTier | start, close, remove_player, disconnect_machine, hook, event consumer, notifications | server task takes the server out of the slot; start/close race | list agrees with connections; host always on it |
| `players_changed` watch channel | last list sent | `notify_players_changed`, subscribe | copy and send are two steps; send without receiver stores nothing | a subscriber ends with the current list |
| `util.rs` `CancellationToken` | a flag and a `Notify` | cancel, is_cancelled, cancelled | cancel between check and await | no lost wake-up |
| `protocols/mod.rs` | stateless handlers | ping, protocols, server_port, player_ping (with hook), profiles list | bodies without machine_id | status and machine of a ping |
| `guest/tcp_client.rs` `TcpClient` | a stream behind a mutex | connect, send, disconnect | timeouts with late or half-read answers, shared by heartbeat and application | a request gets its own response; calls end |
| `guest/scaffolding_guest.rs` `ScaffoldingGuest`, `core/heartbeat.rs` | room config, center, forwards, cached Minecraft address, heartbeat token, `connection_lost` | connect, retry, heartbeat, map_minecraft_port, leave | leave races the heartbeat; cached address of an earlier room | a lost connection is reported once it is lost |
| `client.rs` `ScaffoldingClient` | managed centers and guests, relay cache | create_room, join_room, close_all, resolve | calls overlap; every step can fail; tokens are shared | every open room can be closed; a failure leaves nothing behind and stops no other room |
| `relay/provider.rs`, `relay/nodes.rs` | none | fetch a node list, ask the http nodes in it, add defaults and additions | every request can fail | there are always nodes to connect to |
| `easytier/manager.rs` `EasyTierManager` | instance id | start (waits for an address), stop, nodes, patch | the wait may time out | no instance is leaked |
| `core/center_discovery.rs` | none | poll the peers 60 times, 500 ms apart | cancellation, other nodes with such names | finds the center that is there |
| `core/protocol_serializer.rs`, `core/protocol_negotiator.rs` | none | frames, negotiation | widths of length fields, partial delivery, ASCII against UTF-8 | both ends read what the other wrote |
| `models/room_code.rs` | none | generate, parse | the alphabet of one against the pattern of the other | a code leads to its room and no other |
| command line, scripts, data types | none | call the library, print | nothing | nothing |

They interact through: TCP requests and responses; tokens passed from the caller to
`start()`, `connect()` and each connection; an unbounded channel of disconnect
events from connection tasks to the consumer in `ScaffoldingCenter`; the shared
player list; watch channels to the application.

## 2. Modules and how they correspond to the code

**Players** is the list (`Vec<PlayerInfo>`) reduced to machine_id and kind, and the
three operations that write it: `Pinged` (scaffolding_center.rs:288),
`Disconnected` (309, for an event and for `remove_player`) and `HostJoined` (220).
Order and duplicates are kept, because the code acts on the first match.

**Center** (EXTENDS Players) composes the host: `start()`/`close()`, the server task,
the accept loop, one task per connection, the heartbeat loop, `disconnect_machine`
and the event consumer. An action is what a task does between two points where
another can run: an await, or a lock released. So each of the four maps is touched
in an action of its own, and `pc[c]` names the place in `handle_client`:

    free -> backlog -> spawned -> registering -> reading -> writing
    -> beating -> mapping -> reading ... -> drop_active -> drop_heartbeat
    -> drop_ip -> drop_machine -> free

| Variable | Code |
|---|---|
| `active_clients`, `last_heartbeat`, `client_ip`, `client_machine` | the maps of `ClientRegistry`; an Instant becomes "recent" or "expired" |
| `ct`, `conn_ct[c]` | the caller's token (shared by server and loop), and a connection's |
| `tcp_server`, `server_ct` | the slots of `ScaffoldingCenter` |
| `timed_out`, `victim` | the clients the loop has collected, and the one between its two removals |
| `kick`, `cutting` | the client `disconnect_machine` has found, and the one whose token it has removed and not yet cancelled; the slot's lock is held meanwhile |
| `events` | the disconnect events not yet consumed |
| `orphans` | history only: listed machines that no event will name, because a response could not be written or the connection reported another machine |

**Room** is what the host promises, without tasks, tokens, heartbeats and maps: who is
listed, how far each connection is (`away`, `here`, `going`), the machine it last
reported, the successful ping it is about to report (`asking`), and the departures not
dealt with. A guest leaves the list in two actions only, `SeeOff` (the oldest departure)
and `Remove` (remove_player). Center implements it (`KeepsRoom`) by a refinement mapping:
`Place(c)` and `Asking(c)` read off `pc[c]` and `request[c]` how far a connection is, and
the order of the list is dropped. The heartbeat loop, `close()`, `disconnect_machine` and
the clean-up of the other three maps are stutters of the room: they can end a connection
only through its own task.

**PlayersChanged** (EXTENDS Players) has the tasks that change the list, copy it and
send the copy, with the rules of tokio's watch channel. A connection's task does so for
each ping of its guest, while there is one (`connected`), under the standard ping
handler; the other tasks are `start()`, the event consumer and the application.
**Token** is the abstract cancellation token: a Boolean that stays set, and calls
that return only and eventually when it is. **CancellationToken** is util.rs with its
flag, its `Notify` and the order of check, creation, second check and await;
it implements Token by a refinement mapping. Center uses a token as Token's Boolean.
**TcpClient** is the guest's client behind its mutex. A stream has no request
identifiers, so requests and responses are their positions on the stream. A write
waits as long as the center does not read (`jammed`, `HeldUp`), and holds the mutex.

**Guest** is one `ScaffoldingGuest` with the EasyTier instances it starts, its
heartbeat tasks and its `connection_lost` channel. `stage` is where `connect()` or
`map_minecraft_port()` is, `leaving` where `leave()` is, `beat[i]` where the heartbeat
task of the i-th connection is. An instance, and whatever was reached through it (the
stream, the center, the cached Minecraft address), is its number: that is what tells
an address of this connection from one of the last. The constant `Liberties` says how
the application differs from `join_room` (client.rs:159), which calls `leave()` after a
`connect()` that fails and has no one else call it meanwhile: "retry" and "overlap"
drop these two. A request is one action here; TcpClient has its inside.

**Relay** is `resolve_relay_nodes()`: `step[c]` is where the call of task c is (`reading`
the cache, `fetching`, `retrying`, `saving`), `began` its `now`, `found` what it has read
or fetched. A list is the set of its nodes; the model adds the instant it was fetched
(`got`), which the program does not know, beside the one it is stamped with (`at`).
**Client** (EXTENDS Relay) is `ScaffoldingClient`: `call[c]` is where the call of a task
is, `mine` the room it has in hand, `batch` what `close_all()` has taken out of
`managed_centers` or `managed_guests`. A room is reduced to what a client can leave
behind: its EasyTier instance (`network`), its task, and the slot its token is in.

**Wire** is `core/protocol_serializer.rs` on bytes: `serialize_request`,
`serialize_response`, and for the reading side when each `read_exact` is satisfied
(`RequestReady`, `ResponseReady`) and what is then read. Texts are sequences of code
points, `utf8_bytes` and `ascii_bytes` what the code makes of them.
**Exchange** (EXTENDS Wire) is one connection: the guest's requests, two pipes that
deliver any number of bytes at a time, the center's handlers, negotiation, and calls
that give up at any byte. **Calls** is what such a connection promises, without bytes:
requests are answered in the order they were asked, each once, and a call returns what
it makes of the first answer no call before it has read. Exchange implements it by a
refinement mapping (`AnswersInOrder`), in which the n-th answer is a function of the
n-th request.
**RoomCode** has `generate`, the checksum, the pattern and `parse`. **Joining** (EXTENDS
Exchange and RoomCode) composes what a guest goes through: a text is typed and parsed,
the network it stands for shows its nodes, `discover()` scans them, the center it finds
is connected to, and the connection is Exchange's.
**Heartbeat** counts time: the guest's sleep of 5 s and read timeout of 15 s, the
center's checks every 5 s and its limit of 15 s, and bounds on the network's and the
ends' delays. A beat locks the tcp mutex twice (scaffolding_guest.rs:659 and 680), each
time behind the calls that are there (`ahead`, `held`): a center that is gone keeps each
of them there for its read timeout.

**MCCenter**, **MCPlayersChanged**, **MCClient**, **MCJoining** hold the instances for
TLC. **CenterProofs** (with Players), **CancellationTokenProofs**, **TcpClientProofs**,
**GuestProofs**, **ClientProofs**, **WireProofs**, **JoiningProofs** (with Exchange and
RoomCode) and **HeartbeatProofs** hold the proofs.
Operators marked "Mutant" are plausible bugs, each used to see that a property can fail.

## 3. What is checked

| Run | Bounds | Shows |
|---|---|---|
| center_safety | 2 connections of one machine, symmetric; no application calls; 1 event queued before a connect | A reconnect against the heartbeat loop, bind failures and broken connections: RegistryClean, TasksCancellable, RegisteredWatched, GuestsAccounted, TypeOK |
| center_calls | 1 connection that may send two machines (one the host's), no machine, or garbage; a hook that does not list pings without machine; close, disconnect_machine, remove_player | ListWellFormed, HostOnList, TasksCancellable, and the refinement KeepsRoom |
| center_live | 1 connection that pings, asks for other things or is silent; close and cancel; FairSpec | BrokenLeaves, ExpiredDropped, WindsDown |
| token | 2 waiters, 2 cancellers | NoLostWakeup, ReturnsOnlyCancelled, and the refinement KeepsPromise with its liveness |
| changed | 2 connections and one other task, a guest's machine and the host's | Settles |
| tcp_calls | 2 callers, 3 requests on a stream | OffByAbandoned, CallsEnd |
| client | 2 tasks; two rooms with 2 tokens in every combination of create, join and close_all; three calls over the node service with 3 instants and a TTL of 2; an empty override | NothingForgotten, CloseAllCovers, OnlyClosingCancels, CloseAllCloses; ServedFresh, ListUsable; TypeOK |
| join | 2 rooms, 7 texts typed, 2 ports, 4 other nodes' states, 2 attempts; custom keys with two colons, with a non-ASCII character, without colon; 3 requests | ReachesTheRoom, NoneOverlooked; CenterInStep, OwnAnswer, NegotiatedServed; JoinTypeOK; the refinement AnswersInOrder |
| heartbeat | the code's own times in seconds; setup 4 s, wait 2 s, 4 s each way; 2 other calls at the mutex | LiveKept, SilenceEnds |
| guest | 2 connections, 2 tokens, 2 attempts over the forward, no liberties, FairSpec | Stoppable, LeftClean, TypeOK; CallsReturn, LossReported, LeaveSilences |

**Why the bounds are enough.** The properties of Center are about one client_id or
one machine. Two connections are what it takes for an old connection's cleanup and
event to meet a new one of the same machine; every other interaction of two
connections goes through a machine or the loop, which treats clients one at a time.
`MaxEvents` bounds the events that may be queued when a client connects; every
running task may still add its own, so an old event can meet a new connection. The
proofs in section 5 cover every number of clients, machines and events.
Three requests on a stream leave room for one that is abandoned, one read in its
place and one after it. Two callers are the heartbeat task and the application.

Two rooms and two tasks are what it takes for calls to overlap and to share a token;
three calls for a slow call to write the relay cache after a faster one, and a third to
read it. Three requests on a connection are the negotiation, one that may be given up
and one that meets its leftovers; the lengths of keys and bodies are small, and the
proofs of Wire and Joining cover every length and every number of requests. Two attempts of `discover()` stand for 60: an attempt
depends on none before it.
In Heartbeat the delays are the largest for which the assumption holds at 15 s: setup +
5 s + wait + forth = 15 s. `Wait` holds while the center is there to answer the other
calls; once it is gone they are bounded by their read timeouts alone. With two of them and
1 s for the EasyTier manager the guest may take 5 + 2 * 2 * 15 + 1 + 15 = 81 s to
notice, with none 21 s; TLC reaches the 81.

**CHECK_DEADLOCK FALSE** is set where the system really may stop: Center (a room whose
start failed, or that has wound down), Client (all calls are over), Joining (no center
was found) and Heartbeat (both ends have given up).

### Fairness

* Center: weak fairness of the server task, accepting, each connection task
  (`Task(c)`), the heartbeat loop and the event consumer: all are tasks of the tokio
  runtime and are never starved there. Weak fairness of `Silence(c)`: time passes, so
  a heartbeat that is not refreshed gets older than 15 s. A write may be held up for
  ever by a client that does not read (`HeldUp`), unless its connection breaks. Nothing is
  assumed of clients, of the application, of start() or of close().
* CancellationToken: a task inside `cancelled()` and a `cancel()` that has
  begun go on.
* PlayersChanged: a notification that was begun is finished, and a guest that is
  connected pings (weak fairness of `Pings` of each connection): it does so every 5 s
  (core/heartbeat.rs:34), and one that stops is cut. No guest has to come or to stay;
  Settles says what it says for a room in which one stays, because the announcement
  of a ping is what repairs an outdated value.
* TcpClient: tokio's mutex is fair, so a waiter gets it if it is free again and again
  (strong fairness of `Acquire`); the holder proceeds, when it reads at the latest by the
  15 s timeout (weak fairness of `Proceed`), and a write goes on if there is room again
  and again (strong fairness of `Write`). The center need neither answer nor read:
  CallsEnd supposes that no write is held up for ever, and TLC finds it violated
  without that.
* Guest: calls and heartbeat tasks go on, because everything they wait for has a time
  limit (30 s to start, 30 s to discover, 3 s to connect, 15 s for an answer). Strong
  fairness of `BeatStops`: the 5 s sleep begins anew in each round of the loop, so a
  token that is cancelled already is noticed before it ends; a token cancelled as the
  sleep ends may be missed for one round.
* Client: calls go on (each wait has a limit: 10 s a request to the node service, 30 s to
  start and to discover; no lock of the client is held over an await), and a task
  whose token is cancelled notices it. Nobody has to call anything.

## 4. Where the code and its documentation disagree

Each is a run in which TLC finds what a comment or document of the repository says
to be violated.

* **center_kick / DisconnectFindsLive.** `disconnect_machine` looks for the server in
  a slot that the server task empties for as long as it runs
  (scaffolding_center.rs:192), so it returns false for every live connection.
* **guest_overlap / NoStrayHeartbeat.** `start_heartbeat` spawns the task and then stores
  its token; a `leave()` in between finds the slot empty, disconnects and stops
  EasyTier, and the heartbeat goes on (scaffolding_guest.rs:702).

Also seen while modelling, without a run of their own:

* A guest is listed before the response to its ping is written and registered after; if
  the write fails, nothing removes it (client_conn.rs:143). `orphans` holds these, and
  GuestsAccounted shows (in the run for one machine, in the proof for any) that they, and the machines of a connection that goes on to
  report another, are the only players left behind.
* The notification of the host's joining finds no receiver, because an application can
  subscribe only after start() has returned (scaffolding_center.rs:221). Settles shows
  that the pings of a guest repair it. In a room without guests nothing does: a
  subscriber has the empty list there, while `get_players` has the host.
* `write_all` and `flush` of a request are outside the read timeout and under the tcp
  mutex (tcp_client.rs:80-87): a center that does not read, over a connection that stays,
  holds up the caller and all who wait behind it, heartbeat and `leave()` included. It
  takes requests enough to fill the buffers.
* A dead center is noticed only when the calls ahead of the beat have timed out, 15 s
  each, and they may queue before each of its two locks (scaffolding_guest.rs:659 and 680).
* A `start()` of EasyTier that times out keeps its instance, and a second one overwrites
  its id (easytier/manager.rs:80). `networks` keeps both; join_room leaves in between.
* The token of a heartbeat that has failed stays in `heartbeat_ct` (scaffolding_guest.rs:82
  says that `Some` means a running one), and a repeated `connection_lost` wakes the
  receiver again (guest/translation_log.md:102 says not).
* A task that waits for its client to read looks at neither token (client_conn.rs:143), where
  tcp_server.rs:135 says that a cancelled server's connection tasks all end. WindsDown
  shows that nothing else is kept from ending.
* Only a successful ping makes a heartbeat entry (client_conn.rs:147), and the heartbeat
  loop looks at entries only (196), so a client whose pings are all rejected is never
  cut, where protocols/mod.rs:130 promises the 15 s window.
* A read that times out leaves the stream in place (tcp_client.rs:88), so the late answer
  is taken for the next request's; when part of it had been read, the next call reads its
  rest as if it were a frame. OffByAbandoned says by how much responses are off, and
  that pieces are mixed only then. The comment at tcp_client.rs:54 says one response is
  read for one request.
* The cached Minecraft address survives `leave()` and `connect()` (scaffolding_guest.rs:415),
  so the next room's `map_minecraft_port` returns the last one's. So does the negotiated
  list, if the next center refuses `c:protocols` (334).
* client.rs:82-83 says that a failed refresh still returns the cached list. The node
  service falls back to the default nodes first (provider.rs:115), which are never
  empty: they overwrite the cache for 300 s, and the lines 106-111 only matter to an
  override that is empty, whose cache is empty too.
* nodes.rs:16 says that an override is used if it is not empty; an empty one is used too,
  and gives a room without relay nodes. ListUsable says so.
* A `start()` that fails leaves the server task, and perhaps an EasyTier instance, running
  with no one to close it (client.rs:150); `join_room` leaves in the same place.
  NothingForgotten says that this is the only such case.
* A key that is not ASCII is announced and negotiated in UTF-8, but a request for it is
  written with "?" and answered as unknown: NegotiatedServed excepts it. A key of 256
  bytes or more would shift what follows it in the stream: the assumption Fits of the
  theorems of Wire.
* `discover()` with a token that is cancelled already makes one attempt and may succeed
  (center_discovery.rs:63), where line 53 says that it returns at once.
* A ping answered with 255 counts as a success for the guest (scaffolding_guest.rs:312,
  688); `c:player_easytier_id` is announced and has no handler; `parse` does not look at
  the checksum that `generate` takes care of.

## 5. What is proved

By TLAPS, for every value of the constants that satisfies the named assumptions. Most
only say that special values are different and give bounds and settings their types
(`CenterAssumption`, `TcpClientAssumption`, `GuestAssumption`, `RelayAssumption`,
`ClientAssumption`, `RoomCodeAssumption`). The others say something of the program:

| Assumption | Says | Because |
|---|---|---|
| `MachineAssumption` | the host's machine is one, the empty string is none | a ping without machine_id gives the empty string (protocols/mod.rs:189), which the event consumer takes for none (scaffolding_center.rs:183); the host has an id |
| `WireAssumption` | a character that is not ASCII takes two bytes | a bound of the model: a longer one differs from it only in its length |
| `ExchangeAssumption` | what is written fits its length fields (`Fits`): keys are shorter than 256 bytes, announcements than 2^32; ports are u16 | the serializer casts lengths without a check (protocol_serializer.rs), so this is up to the application; section 4 says what a longer key would do |
| `KeysAssumption` | keys contain no "\0"; a custom key is not a standard one | "\0" separates the keys of an announcement; a center with a standard custom key refuses to start (scaffolding_center.rs:139), the guest's own keys are up to the application |
| `JoiningAssumption` | a port of a center is above 1024; no other node of the room's network has a center's host name and port | the port scan (scaffolding_center.rs:127), and EasyTier lets in only who knows the code. `discover()` takes the first such node, so with two centers there is nothing to prove |
| `HeartbeatAssumption` | as long as the center is there, the delays fit the two timeouts | below |

* **Players.** `PingedKeeps`, `HostJoinedKeeps`, `DisconnectedKeeps`: the three
  operations keep the list well formed and say exactly who is on it afterwards. They
  rest on `PositionIsFirst` (the least index exists, from `LeastNat`) and
  `RemoveAtShifts`.
* **TypeCorrect** from TypeInv = TypeOK /\ RequestOK. RequestOK (a task at writing,
  beating or mapping has a request of the right kind) is needed because RecordMachine
  stores the request as a machine.
* **RegistryIsClean, TasksStayCancellable, RegisteredStayWatched** from RegistryInv =
  EntriesBounded /\ TokenKept /\ BeatKept. None of the three is inductive alone: an
  entry absent at the end of a task is absent because it is absent from each place of
  the cleanup on, which EntriesBounded states place by place; that a missing token
  means a cancelled one, or one that `disconnect_machine` has removed and is about to
  cancel, has to be kept through registration (TokenKept), and that a missing heartbeat
  means a cut under way through mapping (BeatKept). OneKick adds that there is at
  most one client that `disconnect_machine` has in hand.
* **ListStaysWellFormed, HostStaysOnList** from ListInv, which adds that the host is
  listed exactly when `starting = "done"`.
* **GuestsStayAccounted** from GhostInv = GuestsAccounted /\ ListedByHook. ListedByHook
  (only machines the hook lists are on the list) is needed where a failing response
  makes an orphan of the machine only if its ping was listed.
* **CenterKeepsRoom**: Center implements Room, one lemma for each kind of step (a step
  the room does not notice, one that moves one connection, one that changes what it is
  asking) and one case for each action. It rests on
  TypeInv, ListInv and (in CenterProofs) RoomInv: only the host's machine is listed as the
  host, so that a departure of another machine takes off a guest and nobody else; and a
  task about to register a machine has had a successful ping of it, so that a machine is
  only ever reported after `asking`. The list must be well formed for the step of a
  departure: `Disconnected` acts on the first match, and with two entries of a guest
  one would stay.
* **WakeupNotLost, NoSpuriousReturn, ImplementsToken** from TokenInv, which adds that
  the waiters are notified only after the flag is set. ImplementsToken is the safety
  part of the refinement.
* **ClientTypeCorrect, CacheServesFresh, NodesAlwaysUsable, OnlyFailedStartForgotten,
  CloseAllIsComplete, OnlyClosingARoomCancels** for any callers, tokens, rooms and lists.
  The cache is fresh because a list is stamped when its call began, never later than
  it was fetched: the invariant is that `at <= got` for every list, wherever it is. For
  the rooms the invariant says, place by place of a call, what its room's state, task,
  slot and network are and that no room is in two hands; CloseAllCovers follows
  because a room in `seen` is closed, still in `batch` or a list, or in another's hands.
* **ResponseReadsBack, RequestReadsBack, RequestKeyReadsBack**: from a frame that fits
  its length fields the same response is read, and the same request in ASCII, whatever
  follows; if its namespace has a colon the reader splits the key elsewhere, but key and
  body are the same. **NoResponseTooSoon, NoRequestTooSoon**: no shorter part of a frame
  satisfies the reader. They rest on `to_be_bytes` and `from_be_bytes` being inverse
  below 2^32. **Utf8Injective**: comparing bytes is comparing texts.
* **SplitJoin**: the announcement is read back as the list it was made from.
  **NegotiateIsCommon**: what is negotiated is what both sides have, in the guest's order.
* **ReadsWhatWasWritten, ReturnsOwnAnswer, ServesWhatIsNegotiated** for any number and
  length of requests, any keys and any cutting of the stream, from Inv = TypeInv /\
  StreamInv /\ CallInv /\ OwnAnswer /\ NegotiatedServed. The properties are about
  positions (the n-th request, the n-th answer) and the program knows only bytes:
  StreamInv says that what the center has read and what is on its way are together
  exactly the frames of the requests it has not answered, and likewise back. Each
  partial read keeps this, and with NoRequestTooSoon it gives that what is
  complete is the next frame. CallInv says which request a waiting call wrote, since its
  answer is judged by that. A call that gave up on a half-read answer
  ends this for the way back (`stage = "lost"`), never for the way to the center.
* **ConnectionImplementsCalls** from the same invariant, one lemma for each action of
  Calls; a delivery of bytes is a stutter.
* **NetworkIsText**: texts that lead to the same network are the same text.
  **CodeIsReadable**: whatever bytes `generate` draws, the pattern of `parse` accepts what
  it writes, its last character, chosen for the checksum, included.
* **JoiningTypes, CodeReachesTheRoom** and, as an action property,
  **DiscoveryOverlooksNone** from JoinInv = Inv /\ RoomInv /\ WayInv: nodes are
  seen only in the network of the text typed, and that is the room's only if the text is.
  **JoiningIsAnExchange** carries over what holds of a connection (**JoinedReadsInStep,
  JoinedReturnsOwnAnswer, JoinedServesNegotiated, JoinedImplementsCalls**).

  Proofs about the lists and texts of this part argue from the least index at which
  something fails (`Least` in WireProofs), in place of an induction rule; `Recursion` says that the
  recursive functions of the model have a value. Where a definition is a fold or a
  recursive function its values are then known index by index (`MarksIncrease`, `Utf8Ends`,
  `JoinSteps`, `ThoseKeys`).
* **LiveIsKept, SilenceIsEnded** for all times under HeartbeatAssumption: the first
  heartbeat is at most Setup old when the loop begins, setup, sleep, wait and one way fit
  into the timeout, and a round trip into the read timeout. The invariant bounds `age` and
  `quiet` by where the loop is, and the time spent at the mutex by the calls that
  are no longer ahead. Nothing bounds the calls of others but `Others` and their read
  timeout when the center is gone, and the second theorem holds for every number of them.
* **OffByAbandonedHolds** from TcpInv = TypeOK /\ Exclusive /\ Counted /\ TornByGivingUp: only the holder
  of the mutex is in a call, and each request of the stream has been answered,
  abandoned or is the one being waited for; a stream is torn only by a call that gave up.
* **GuestTypeCorrect** whatever the application calls when; **HeartbeatsStoppable** and
  **LeavesSilent** (after `leave()` no stream is left and every heartbeat is cancelled) if no
  connect() overlaps a leave() (`NoOverlap`), even if a failed connect() is called again
  without leaving; **LeavesClean** if it is left first, as join_room does (`JoinRoom`).
  The invariant is TypeOK /\ Counted /\ ConnectAlone /\ SlotRuns /\ LeaveHolds /\
  BeatsHaveToken /\ Stoppable. SlotRuns is what replaces the care of join_room: a token
  is in the slot only while an instance runs, and a connect() that finds one running does
  nothing, so that one which goes on stores its token in an empty slot and forgets no
  other. LeaveHolds says that what leave() has done stays done until the next connect().
  LeavesClean needs OneNetwork too. TLC shows in guest_overlap that the first
  assumption is needed. LeavesClean needs the second because a start that times out
  keeps its instance (section 4): a connect() called again forgets it.

Only model-checked: everything temporal under fairness (BrokenLeaves, ExpiredDropped,
WindsDown, Settles, CallsEnd, CallsReturn, LossReported, LeaveSilences, CloseAllCloses,
the liveness half of KeepsPromise), which the prover does not reason about. Every
invariant and action property of a passing run is stated by a theorem.

## 6. What the models leave out

* Names, vendors and other display data of players; logging; formatting.
* In Center a client has one unread request at a time, and a client_id names one
  connection at a time: the peer's port being reused before the old task has cleaned
  up is not modelled.
* Removing the machine and sending the disconnect event are one action (`Depart`):
  nothing between the two waits, and no other task's step depends on their order.
* The list lock: the code gives up after 10000 attempts without waiting. The critical
  sections never wait either, so the model lets every attempt succeed.
* A second `start()` of the same center, which the client never makes.
* In Guest and Exchange a request that is not written because the center does not read;
  TcpClient has that. In PlayersChanged a ping hook that announces nothing.
* In Guest the negotiated list, `get_player_list`, and EasyTier's failure to delete an
  instance, which `stop()` logs and ignores. JSON bodies everywhere.
* In Exchange one connection of one guest, and standard keys whose names are shortened to
  a character; in Joining failures between discovery and connection, which Guest has.
* In Heartbeat a guest's pings are accepted (one that is rejected is in section 4), requests
  fit into the send buffer, and no answer to an abandoned call arrives (both are in TcpClient).
* In Client what goes on inside a room (Center, Guest); the order of a relay list, the
  parsing of its JSON and its sorting by region (provider.rs:190): data without control.
* Network interfaces (`resolve_bind_ip`) are input and output; the command line makes one
  call of Client's at a time; scripts and data types have no behaviour.

## 7. Order of the work

What the host promises came first (Players, Center, PlayersChanged, CancellationToken),
then the guest (TcpClient, Guest), then what composes them (Client with Relay, Joining
with Exchange and RoomCode) and the parts that are data or time (Wire, Heartbeat).
The abstract room came last, when what it rests on was proved. What could follow: the
reuse of a client_id before its clean-up is over, and the bounded list lock.
