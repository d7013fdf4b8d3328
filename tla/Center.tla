------------------------------ MODULE Center ------------------------------
(***************************************************************************)
(* The host side of a room: the TCP server, its connection tasks, the      *)
(* heartbeat loop, the disconnect-event consumer and start() / close() of  *)
(* ScaffoldingCenter.                                                      *)
(*                                                                         *)
(* An action is the code one task runs between two points where another    *)
(* task can be scheduled: an await, or a lock taken and released.  The     *)
(* four maps of ClientRegistry have a lock each, so a task that touches    *)
(* two of them does so in two actions.                                     *)
(*                                                                         *)
(* A member of Conn is a client_id (the peer's "ip:port").  It names one   *)
(* connection at a time and is free again when its task has ended.  The    *)
(* watch channel that every change of the list is announced on is only     *)
(* read outside the center; module PlayersChanged models it.               *)
(***************************************************************************)
EXTENDS Players

CONSTANTS
    Conn,           \* client identifiers
    None,           \* no request, no machine, no connection
    Absent,         \* a ping whose body has no machine_id key
    Other,          \* a request answered without touching any state
    Malformed,      \* bytes that deserialize_request_async rejects
    Sends,          \* the requests each client may send
    Verdict,        \* what the injected player_ping hook decides per machine
    Calls,          \* the calls the application makes once the room is open
    MaxEvents       \* bound: no client connects while more events are queued

PingBody == Id \cup {Absent}
Request  == PingBody \cup {Other, Malformed}

ASSUME CenterAssumption ==
    /\ None \notin Request \cup Conn
    /\ {Absent, Other, Malformed} \cap Id = {}
    /\ Absent # Other /\ Absent # Malformed /\ Other # Malformed
    /\ Sends \in [Conn -> SUBSET Request]
    /\ Verdict \in [Id -> {"list", "accept", "reject"}]
    /\ Calls \subseteq {"close", "cancel", "disconnect", "remove"}
    /\ MaxEvents \in Nat

VARIABLES
    \* ScaffoldingCenter
    players,        \* the player list
    starting,       \* progress of start()
    closing,        \* progress of close()
    tcp_server,     \* the Option<TcpServer> slot: "none", "fresh", "stopped"
    server_ct,      \* whether the slot of the server's token is filled
    ct,             \* the caller's token, passed to start(): cancelled?
    server,         \* progress of the spawned server task
    \* ClientRegistry
    active_clients, \* connections whose token can be found here
    last_heartbeat, \* "none", "recent" or "expired" (more than 15 s old)
    client_ip,      \* connections with a source address
    client_machine, \* the machine_id each connection reported, or None
    \* handle_client, one task per connection
    pc,             \* where the task is
    conn_ct,        \* the connection's token: cancelled?
    request,        \* the request being handled
    \* the TCP connections
    open,           \* neither peer nor network has broken the connection
    inbox,          \* a request the task has not read yet
    \* heartbeat_timeout_loop
    sweeper,        \* "off", "running" or "ended"
    timed_out,      \* the clients this round still has to cut
    victim,         \* the client whose heartbeat record was just removed
    \* disconnect_machine, and the disconnect events
    kick,           \* the connection disconnect_machine has found
    cutting,        \* the one whose token it has taken out and not cancelled yet
    events,         \* the unbounded channel of disconnect events
    \* history
    orphans         \* listed machines that no disconnect event will name

centerVars   == <<starting, closing, tcp_server, server_ct, server>>
registryVars == <<active_clients, last_heartbeat, client_ip, client_machine>>
taskVars     == <<pc, conn_ct, request>>
linkVars     == <<open, inbox>>
sweepVars    == <<sweeper, timed_out, victim>>
kickVars     == <<kick, cutting>>
listVars     == <<players, events, orphans>>

vars == <<centerVars, ct, registryVars, taskVars, linkVars, sweepVars, kickVars,
          listVars>>

-----------------------------------------------------------------------------
\* parse_player_info: a missing machine_id reads as the empty string.
IdOf(body) == IF body = Absent THEN NoMachine ELSE body

\* The answer to r is a player_ping response with status 0.
PingSucceeds(r) == r \in PingBody /\ Verdict[IdOf(r)] # "reject"

\* The handler puts the machine on the list (no hook, or the hook delegates).
PingLists(r) == r \in PingBody /\ Verdict[IdOf(r)] = "list"

\* Mutant: the loop selects on the token of the connection only.
StoppingAlone(c) == conn_ct[c]

\* Either token the loop of handle_client selects on is cancelled.
Stopping(c) == ct \/ conn_ct[c]

\* machine is on the list, and once its connection c is gone no event removes it.
Orphaned(machine) ==
    IF GuestListed(players, machine) THEN orphans \cup {machine} ELSE orphans

StillListed(list) == {m \in orphans : GuestListed(list, m)}

-----------------------------------------------------------------------------
TypeOK ==
    /\ players \in Seq(Entry)
    /\ starting \in {"idle", "slotted", "network", "failed", "done"}
    /\ closing \in {"idle", "cancel"}
    /\ tcp_server \in {"none", "fresh", "stopped"}
    /\ server_ct \in BOOLEAN
    /\ ct \in BOOLEAN
    /\ server \in {"unborn", "spawned", "binding", "listening", "putback",
                   "ended"}
    /\ active_clients \in SUBSET Conn
    /\ last_heartbeat \in [Conn -> {"none", "recent", "expired"}]
    /\ client_ip \in SUBSET Conn
    /\ client_machine \in [Conn -> Id \cup {None}]
    /\ pc \in [Conn -> {"free", "backlog", "spawned", "registering",
                        "reading", "writing", "beating", "mapping",
                        "drop_active", "drop_heartbeat", "drop_ip",
                        "drop_machine"}]
    /\ conn_ct \in [Conn -> BOOLEAN]
    /\ request \in [Conn -> Request \cup {None}]
    /\ open \in [Conn -> BOOLEAN]
    /\ inbox \in [Conn -> Request \cup {None}]
    /\ sweeper \in {"off", "running", "ended"}
    /\ timed_out \in SUBSET Conn
    /\ victim \in Conn \cup {None}
    /\ kick \in Conn \cup {None} /\ cutting \in Conn \cup {None}
    /\ events \in Seq(Id)
    /\ orphans \in SUBSET Id

Init ==
    /\ players = <<>>
    /\ starting = "idle" /\ closing = "idle"
    /\ tcp_server = "none" /\ server_ct = FALSE /\ ct = FALSE
    /\ server = "unborn"
    /\ active_clients = {}
    /\ last_heartbeat = [c \in Conn |-> "none"]
    /\ client_ip = {}
    /\ client_machine = [c \in Conn |-> None]
    /\ pc = [c \in Conn |-> "free"]
    /\ conn_ct = [c \in Conn |-> FALSE]
    /\ request = [c \in Conn |-> None]
    /\ open = [c \in Conn |-> FALSE]
    /\ inbox = [c \in Conn |-> None]
    /\ sweeper = "off" /\ timed_out = {} /\ victim = None
    /\ kick = None /\ cutting = None
    /\ events = <<>>
    /\ orphans = {}

-----------------------------------------------------------------------------
(* start(), close() and the spawned server task.                           *)

\* disconnect_machine holds the lock of the tcp_server slot till it is done.
SlotFree == kick = None /\ cutting = None

StartServer ==
    /\ starting = "idle" /\ SlotFree
    /\ starting' = "slotted"
    /\ tcp_server' = "fresh"
    /\ UNCHANGED <<closing, server_ct, server, ct, registryVars, taskVars,
                   linkVars, sweepVars, kickVars, listVars>>

SpawnServer ==
    /\ starting = "slotted"
    /\ starting' = "network"
    /\ server_ct' = TRUE
    /\ server' = "spawned"
    /\ UNCHANGED <<closing, tcp_server, ct, registryVars, taskVars, linkVars,
                   sweepVars, kickVars, listVars>>

\* easy_tier.start() fails and start() returns its error at once.
NetworkFails ==
    /\ starting = "network"
    /\ starting' = "failed"
    /\ UNCHANGED <<closing, tcp_server, server_ct, server, ct, registryVars,
                   taskVars, linkVars, sweepVars, kickVars, listVars>>

HostJoins ==
    /\ starting = "network"
    /\ starting' = "done"
    /\ players' = HostJoined(players)
    /\ UNCHANGED <<closing, tcp_server, server_ct, server, ct, registryVars,
                   taskVars, linkVars, sweepVars, kickVars, events, orphans>>

\* The server task takes the server out of the slot, if close() has not.
TakeServer ==
    /\ server = "spawned" /\ SlotFree
    /\ server' = IF tcp_server = "none" THEN "ended" ELSE "binding"
    /\ tcp_server' = "none"
    /\ UNCHANGED <<starting, closing, server_ct, ct, registryVars, taskVars,
                   linkVars, sweepVars, kickVars, listVars>>

Bind ==
    /\ server = "binding"
    /\ server' = "listening"
    /\ sweeper' = "running"
    /\ UNCHANGED <<starting, closing, tcp_server, server_ct, ct, registryVars,
                   taskVars, linkVars, timed_out, victim, kickVars, listVars>>

\* The port was taken since the scan: the error is logged, and stop() cancels
\* the token start() was given.
BindFails ==
    /\ server = "binding"
    /\ server' = "putback"
    /\ ct' = TRUE
    /\ UNCHANGED <<starting, closing, tcp_server, server_ct, registryVars,
                   taskVars, linkVars, sweepVars, kickVars, listVars>>

\* The accept loop ends; stop() drops the listener and its backlog with it.
StopServer ==
    /\ server = "listening" /\ ct
    /\ server' = "putback"
    /\ pc' = [c \in Conn |-> IF pc[c] = "backlog" THEN "free" ELSE pc[c]]
    /\ open' = [c \in Conn |-> open[c] /\ pc[c] # "backlog"]
    /\ inbox' = [c \in Conn |-> IF pc[c] = "backlog" THEN None ELSE inbox[c]]
    /\ UNCHANGED <<starting, closing, tcp_server, server_ct, ct, registryVars,
                   conn_ct, request, sweepVars, kickVars, listVars>>

PutBack ==
    /\ server = "putback" /\ SlotFree
    /\ server' = "ended"
    /\ tcp_server' = "stopped"
    /\ UNCHANGED <<starting, closing, server_ct, ct, registryVars, taskVars,
                   linkVars, sweepVars, kickVars, listVars>>

\* close() stops whatever server it finds in the slot.  A fresh server holds a
\* token of its own, a stopped one the caller's.
CloseServer ==
    /\ "close" \in Calls
    /\ closing = "idle" /\ starting # "idle" /\ SlotFree
    /\ closing' = "cancel"
    /\ tcp_server' = "none"
    /\ ct' = (ct \/ tcp_server = "stopped")
    /\ UNCHANGED <<starting, server_ct, server, registryVars, taskVars,
                   linkVars, sweepVars, kickVars, listVars>>

CloseCancels ==
    /\ closing = "cancel"
    /\ closing' = "idle"
    /\ ct' = (ct \/ server_ct)
    /\ server_ct' = FALSE
    /\ UNCHANGED <<starting, tcp_server, server, registryVars, taskVars,
                   linkVars, sweepVars, kickVars, listVars>>

\* The token belongs to the caller, who may cancel it or share it.
CallerCancels ==
    /\ "cancel" \in Calls /\ ~ct
    /\ ct' = TRUE
    /\ UNCHANGED <<centerVars, registryVars, taskVars, linkVars, sweepVars,
                   kickVars, listVars>>

-----------------------------------------------------------------------------
(* The clients and the network between them and the host.                  *)

Connect(c) ==
    /\ pc[c] = "free" /\ server = "listening" /\ Len(events) < MaxEvents
    /\ pc' = [pc EXCEPT ![c] = "backlog"]
    /\ open' = [open EXCEPT ![c] = TRUE]
    /\ UNCHANGED <<centerVars, ct, registryVars, conn_ct, request, inbox,
                   sweepVars, kickVars, listVars>>

Send(c, r) ==
    /\ open[c] /\ inbox[c] = None
    /\ r \in Sends[c]
    /\ inbox' = [inbox EXCEPT ![c] = r]
    /\ UNCHANGED <<centerVars, ct, registryVars, taskVars, open, sweepVars,
                   kickVars, listVars>>

\* The client leaves or crashes, or the network drops the connection.
Break(c) ==
    /\ open[c]
    /\ open' = [open EXCEPT ![c] = FALSE]
    /\ UNCHANGED <<centerVars, ct, registryVars, taskVars, inbox, sweepVars,
                   kickVars, listVars>>

-----------------------------------------------------------------------------
(* handle_client.                                                          *)

Goto(c, place) == pc' = [pc EXCEPT ![c] = place]

\* The connection gets a token of its own: if disconnect_machine still has that of
\* an earlier one in hand, nobody will notice its cancellation.
Accept(c) ==
    /\ server = "listening" /\ pc[c] = "backlog"
    /\ Goto(c, "spawned")
    /\ conn_ct' = [conn_ct EXCEPT ![c] = FALSE]
    /\ cutting' = IF cutting = c THEN None ELSE cutting
    /\ UNCHANGED <<centerVars, ct, registryVars, request, linkVars, sweepVars,
                   kick, listVars>>

RegisterToken(c) ==
    /\ pc[c] = "spawned"
    /\ Goto(c, "registering")
    /\ active_clients' = active_clients \cup {c}
    /\ UNCHANGED <<centerVars, ct, last_heartbeat, client_ip, client_machine,
                   conn_ct, request, linkVars, sweepVars, kickVars, listVars>>

RegisterIp(c) ==
    /\ pc[c] = "registering"
    /\ Goto(c, "reading")
    /\ client_ip' = client_ip \cup {c}
    /\ UNCHANGED <<centerVars, ct, active_clients, last_heartbeat,
                   client_machine, conn_ct, request, linkVars, sweepVars,
                   kickVars, listVars>>

\* The select is biased: a cancelled token wins over a request.
Cancelled(c) ==
    /\ pc[c] = "reading" /\ Stopping(c)
    /\ Goto(c, "drop_active")
    /\ UNCHANGED <<centerVars, ct, registryVars, conn_ct, request, linkVars,
                   sweepVars, kickVars, listVars>>

ReadFails(c) ==
    /\ pc[c] = "reading" /\ ~Stopping(c)
    /\ inbox[c] = Malformed \/ (inbox[c] = None /\ ~open[c])
    /\ Goto(c, "drop_active")
    /\ UNCHANGED <<centerVars, ct, registryVars, conn_ct, request, linkVars,
                   sweepVars, kickVars, listVars>>

\* A request is read and its handler runs; the handlers never wait.
Receive(c) ==
    /\ pc[c] = "reading" /\ ~Stopping(c)
    /\ inbox[c] \notin {None, Malformed}
    /\ Goto(c, "writing")
    /\ request' = [request EXCEPT ![c] = inbox[c]]
    /\ inbox' = [inbox EXCEPT ![c] = None]
    /\ players' = IF PingLists(inbox[c])
                  THEN Pinged(players, IdOf(inbox[c]))
                  ELSE players
    /\ UNCHANGED <<centerVars, ct, registryVars, conn_ct, open, sweepVars,
                   kickVars, events, orphans>>

Respond(c) ==
    /\ pc[c] = "writing"
    /\ Goto(c, IF PingSucceeds(request[c]) THEN "beating" ELSE "reading")
    /\ request' = [request EXCEPT ![c] = IF PingSucceeds(@) THEN @ ELSE None]
    /\ UNCHANGED <<centerVars, ct, registryVars, conn_ct, linkVars, sweepVars,
                   kickVars, listVars>>

\* The write fails: the task ends with the ping listed but not registered.
RespondFails(c) ==
    /\ pc[c] = "writing" /\ ~open[c]
    /\ Goto(c, "drop_active")
    /\ request' = [request EXCEPT ![c] = None]
    /\ orphans' = IF PingLists(request[c])
                     /\ client_machine[c] # IdOf(request[c])
                  THEN Orphaned(IdOf(request[c]))
                  ELSE orphans
    /\ UNCHANGED <<centerVars, ct, registryVars, conn_ct, linkVars, sweepVars,
                   kickVars, players, events>>

\* Mutant: the heartbeat of a ping refreshes an entry but never inserts one.
RefreshHeartbeat(c) ==
    /\ pc[c] = "beating"
    /\ last_heartbeat' =
           [last_heartbeat EXCEPT ![c] = IF @ = "none" THEN @ ELSE "recent"]
    /\ Goto(c, IF request[c] = Absent THEN "reading" ELSE "mapping")
    /\ request' = [request EXCEPT ![c] = IF @ = Absent THEN None ELSE @]
    /\ UNCHANGED <<centerVars, ct, active_clients, client_ip, client_machine,
                   conn_ct, linkVars, sweepVars, kickVars, listVars>>

RecordHeartbeat(c) ==
    /\ pc[c] = "beating"
    /\ last_heartbeat' = [last_heartbeat EXCEPT ![c] = "recent"]
    /\ Goto(c, IF request[c] = Absent THEN "reading" ELSE "mapping")
    /\ request' = [request EXCEPT ![c] = IF @ = Absent THEN None ELSE @]
    /\ UNCHANGED <<centerVars, ct, active_clients, client_ip, client_machine,
                   conn_ct, linkVars, sweepVars, kickVars, listVars>>

\* The connection's machine is overwritten by the one of the latest ping.
RecordMachine(c) ==
    /\ pc[c] = "mapping"
    /\ Goto(c, "reading")
    /\ request' = [request EXCEPT ![c] = None]
    /\ client_machine' = [client_machine EXCEPT ![c] = request[c]]
    /\ orphans' = IF client_machine[c] \notin {None, request[c]}
                  THEN Orphaned(client_machine[c])
                  ELSE orphans
    /\ UNCHANGED <<centerVars, ct, active_clients, last_heartbeat, client_ip,
                   conn_ct, linkVars, sweepVars, kickVars, players, events>>

DropToken(c) ==
    /\ pc[c] = "drop_active"
    /\ Goto(c, "drop_heartbeat")
    /\ active_clients' = active_clients \ {c}
    /\ UNCHANGED <<centerVars, ct, last_heartbeat, client_ip, client_machine,
                   conn_ct, request, linkVars, sweepVars, kickVars, listVars>>

\* Mutant: a task that was cut takes its heartbeat for removed by its cutter.
DropHeartbeatUnlessCut(c) ==
    /\ pc[c] = "drop_heartbeat"
    /\ Goto(c, "drop_ip")
    /\ last_heartbeat' =
           [last_heartbeat EXCEPT ![c] = IF conn_ct[c] THEN @ ELSE "none"]
    /\ UNCHANGED <<centerVars, ct, active_clients, client_ip, client_machine,
                   conn_ct, request, linkVars, sweepVars, kickVars, listVars>>

DropHeartbeat(c) ==
    /\ pc[c] = "drop_heartbeat"
    /\ Goto(c, "drop_ip")
    /\ last_heartbeat' = [last_heartbeat EXCEPT ![c] = "none"]
    /\ UNCHANGED <<centerVars, ct, active_clients, client_ip, client_machine,
                   conn_ct, request, linkVars, sweepVars, kickVars, listVars>>

DropIp(c) ==
    /\ pc[c] = "drop_ip"
    /\ Goto(c, "drop_machine")
    /\ client_ip' = client_ip \ {c}
    /\ UNCHANGED <<centerVars, ct, active_clients, last_heartbeat,
                   client_machine, conn_ct, request, linkVars, sweepVars,
                   kickVars, listVars>>

\* The last statements of the task: its event is sent and its socket closed.
\* Removing the machine and sending its event are one action, because nothing
\* between them waits and nothing that could come between them depends on the
\* order; Leave is what they do when the event names m, and Vanish without event.
Vanish(c) ==
    /\ pc[c] = "drop_machine"
    /\ Goto(c, "free")
    /\ client_machine' = [client_machine EXCEPT ![c] = None]
    /\ open' = [open EXCEPT ![c] = FALSE]
    /\ inbox' = [inbox EXCEPT ![c] = None]
    /\ UNCHANGED <<centerVars, ct, active_clients, last_heartbeat, client_ip,
                   conn_ct, request, sweepVars, kickVars, players, orphans>>

\* unwrap_or_default: a connection without machine reports the empty string.
Reported(c) ==
    IF client_machine[c] = None THEN NoMachine ELSE client_machine[c]

Leave(c, m) == Vanish(c) /\ events' = Append(events, m)

\* Mutant: the event of a connection without machine is not an empty string.
DepartUnchecked(c) == Leave(c, client_machine[c])

\* Mutant: no event names a machine, as in the C# original after a timeout.
DepartAnonymous(c) == Leave(c, NoMachine)

\* Mutant: nothing is announced once the server is being stopped.
DepartQuietly(c) ==
    IF ct THEN Vanish(c) /\ UNCHANGED events ELSE Leave(c, Reported(c))

Depart(c) == Leave(c, Reported(c))

-----------------------------------------------------------------------------
(* heartbeat_timeout_loop.                                                 *)

\* 15 seconds pass without a new ping on the connection.
Silence(c) ==
    /\ last_heartbeat[c] = "recent"
    /\ last_heartbeat' = [last_heartbeat EXCEPT ![c] = "expired"]
    /\ UNCHANGED <<centerVars, ct, active_clients, client_ip, client_machine,
                   taskVars, linkVars, sweepVars, kickVars, listVars>>

\* Every 5 seconds the clients that have timed out are collected.
Sweep ==
    /\ sweeper = "running" /\ timed_out = {} /\ victim = None
    /\ timed_out' = {c \in Conn : last_heartbeat[c] = "expired"}
    /\ timed_out' # {}
    /\ UNCHANGED <<centerVars, ct, registryVars, taskVars, linkVars, sweeper,
                   victim, kickVars, listVars>>

SweepHeartbeat(c) ==
    /\ victim = None /\ c \in timed_out
    /\ timed_out' = timed_out \ {c}
    /\ victim' = c
    /\ last_heartbeat' = [last_heartbeat EXCEPT ![c] = "none"]
    /\ UNCHANGED <<centerVars, ct, active_clients, client_ip, client_machine,
                   taskVars, linkVars, sweeper, kickVars, listVars>>

\* Mutant: the token is removed and dropped.
CutConnectionSilently(c) ==
    active_clients' = active_clients \ {c} /\ UNCHANGED conn_ct

\* active_clients.remove(c), and its token cancelled if it was there.
CutConnection(c) ==
    /\ active_clients' = active_clients \ {c}
    /\ conn_ct' = [conn_ct EXCEPT ![c] = @ \/ c \in active_clients]

\* Mutant: the loop also forgets the machine, as the C# original does.
SweepTokenAndMachine ==
    /\ victim # None
    /\ CutConnection(victim)
    /\ client_machine' = [client_machine EXCEPT ![victim] = None]
    /\ victim' = None
    /\ UNCHANGED <<centerVars, ct, last_heartbeat, client_ip, pc, request,
                   linkVars, sweeper, timed_out, kickVars, listVars>>

SweepToken ==
    /\ victim # None
    /\ CutConnection(victim)
    /\ victim' = None
    /\ UNCHANGED <<centerVars, ct, last_heartbeat, client_ip, client_machine,
                   pc, request, linkVars, sweeper, timed_out, kickVars, listVars>>

SweeperStops ==
    /\ sweeper = "running" /\ timed_out = {} /\ victim = None /\ ct
    /\ sweeper' = "ended"
    /\ UNCHANGED <<centerVars, ct, registryVars, taskVars, linkVars,
                   timed_out, victim, kickVars, listVars>>

-----------------------------------------------------------------------------
(* The calls an application makes, and the consumer of disconnect events.  *)

\* disconnect_machine finds nothing unless a server is in the slot.
CanDisconnect(m) ==
    /\ tcp_server # "none"
    /\ \E c \in Conn : client_machine[c] = m /\ c \in active_clients

DisconnectMachine(m) ==
    /\ "disconnect" \in Calls
    /\ tcp_server # "none" /\ SlotFree
    /\ \E c \in Conn : client_machine[c] = m /\ kick' = c
    /\ UNCHANGED <<centerVars, ct, registryVars, taskVars, linkVars,
                   sweepVars, cutting, listVars>>

\* Mutant: disconnect_machine reports the token it found but does not cancel it.
DisconnectTokenSilently ==
    /\ kick # None
    /\ active_clients' = active_clients \ {kick}
    /\ kick' = None
    /\ UNCHANGED <<centerVars, ct, last_heartbeat, client_ip, client_machine,
                   taskVars, linkVars, sweepVars, cutting, listVars>>

DisconnectToken ==
    /\ kick # None
    /\ active_clients' = active_clients \ {kick}
    /\ cutting' = IF kick \in active_clients THEN kick ELSE None
    /\ kick' = None
    /\ UNCHANGED <<centerVars, ct, last_heartbeat, client_ip, client_machine,
                   taskVars, linkVars, sweepVars, listVars>>

\* The lock of active_clients is released before the token is cancelled.
DisconnectCancels ==
    /\ cutting # None
    /\ conn_ct' = [conn_ct EXCEPT ![cutting] = TRUE]
    /\ cutting' = None
    /\ UNCHANGED <<centerVars, ct, registryVars, pc, request, linkVars,
                   sweepVars, kick, listVars>>

RemovePlayer(m) ==
    /\ "remove" \in Calls
    /\ players' = Disconnected(players, m)
    /\ orphans' = StillListed(players')
    /\ UNCHANGED <<centerVars, ct, registryVars, taskVars, linkVars,
                   sweepVars, kickVars, events>>

\* An empty event names no machine and removes nobody.
ClientDisconnected ==
    /\ events # <<>>
    /\ events' = Tail(events)
    /\ players' = IF Head(events) = NoMachine
                  THEN players
                  ELSE Disconnected(players, Head(events))
    /\ orphans' = StillListed(players')
    /\ UNCHANGED <<centerVars, ct, registryVars, taskVars, linkVars,
                   sweepVars, kickVars>>

-----------------------------------------------------------------------------
StartClose ==
    \/ StartServer \/ SpawnServer \/ NetworkFails \/ HostJoins
    \/ TakeServer \/ Bind \/ BindFails \/ StopServer \/ PutBack
    \/ CloseServer \/ CloseCancels

Task(c) ==
    \/ RegisterToken(c) \/ RegisterIp(c)
    \/ Cancelled(c) \/ ReadFails(c) \/ Receive(c)
    \/ Respond(c) \/ RespondFails(c)
    \/ RecordHeartbeat(c) \/ RecordMachine(c)
    \/ DropToken(c) \/ DropHeartbeat(c) \/ DropIp(c) \/ Depart(c)

Client(c) == Connect(c) \/ (\E r \in Request : Send(c, r)) \/ Break(c)

HeartbeatLoop ==
    \/ Sweep \/ (\E c \in Conn : SweepHeartbeat(c)) \/ SweepToken
    \/ SweeperStops

Application ==
    \/ CallerCancels
    \/ \E m \in Machine : DisconnectMachine(m) \/ RemovePlayer(m)
    \/ DisconnectToken \/ DisconnectCancels

Next ==
    \/ StartClose
    \/ \E c \in Conn : Client(c) \/ Accept(c) \/ Task(c) \/ Silence(c)
    \/ HeartbeatLoop
    \/ ClientDisconnected
    \/ Application

Spec == Init /\ [][Next]_vars

\* A response waits until its client makes room for it, and the task, which looks
\* at its tokens between requests only, waits with it.
HeldUp(c) == pc[c] = "writing" /\ open[c]

\* The runtime schedules every task that can run, accepts every connection and
\* lets time pass; disconnect_machine awaits nothing before it cancels.  Nothing obliges clients, to read what they are sent either,
\* the application or the caller.
Fairness ==
    /\ WF_vars(TakeServer) /\ WF_vars(Bind \/ BindFails)
    /\ WF_vars(StopServer) /\ WF_vars(PutBack)
    /\ \A c \in Conn :
        /\ WF_vars(Accept(c)) /\ WF_vars(Silence(c))
        /\ WF_vars(~HeldUp(c) /\ Task(c))
    /\ WF_vars(HeartbeatLoop)
    /\ WF_vars(ClientDisconnected) /\ WF_vars(DisconnectCancels)

FairSpec == Spec /\ Fairness

-----------------------------------------------------------------------------
InLoop(c) == pc[c] \in {"reading", "writing", "beating", "mapping"}

\* The registry holds nothing for a client_id without a task: a task that ends
\* leaves no entry in any of the four maps (the tail of handle_client), whatever
\* the heartbeat loop and disconnect_machine removed or inserted meanwhile.
RegistryClean ==
    \A c \in Conn : pc[c] \in {"free", "backlog", "spawned"} =>
        /\ c \notin active_clients
        /\ last_heartbeat[c] = "none"
        /\ c \notin client_ip
        /\ client_machine[c] = None

\* A task that serves requests can be stopped: its token is in active_clients,
\* or whoever removed it from there has cancelled it (client_conn.rs:205-207) or
\* is about to (client_conn.rs:64-68).
TasksCancellable ==
    \A c \in Conn : InLoop(c) => c \in active_clients \/ conn_ct[c] \/ cutting = c

\* A connection that registered a machine is watched by the heartbeat loop, or
\* the loop or disconnect_machine is about to cut it, or it has been cut.
RegisteredWatched ==
    \A c \in Conn : InLoop(c) /\ client_machine[c] # None =>
        last_heartbeat[c] # "none" \/ c \in {victim, cutting} \/ conn_ct[c]

\* Something in the center will still remove machine m: a connection that
\* registered it or is about to, or a queued disconnect event.
Accounted(m) ==
    \/ \E c \in Conn : client_machine[c] = m
    \/ \E c \in Conn : /\ pc[c] \in {"writing", "beating", "mapping"}
                       /\ request[c] = m
    \/ \E i \in DOMAIN events : events[i] = m

\* A guest on the list is accounted for, unless the response to its ping could
\* not be written or its connection went on to report another machine.  Nothing
\* else (order of cleanup, cancellation, the heartbeat loop, reconnects) leaves
\* a ghost player behind.
GuestsAccounted ==
    \A m \in Machine :
        GuestListed(players, m) => Accounted(m) \/ m \in orphans

\* Players are identified by machine_id: at most one entry each, except that a
\* guest may have taken the host's identifier before the host was pushed.
ListWellFormed == WellFormed(players)

\* The host is on the list exactly when start() has succeeded, once, whatever
\* clients report and whichever machine disconnects or is removed.
HostOnList ==
    /\ HostListed(players) <=> starting = "done"
    /\ \A i, j \in DOMAIN players :
        players[i].kind = "host" /\ players[j].kind = "host" => i = j

\* A machine whose registered connection breaks leaves the list (at least until
\* it pings again), however the event and the heartbeat loop interleave.
BrokenLeaves ==
    \A c \in Conn, m \in Machine :
        client_machine[c] = m /\ ~open[c] ~> ~GuestListed(players, m)

\* A connection whose heartbeat has expired is dropped or pings again, or its
\* client never reads its response.
ExpiredDropped ==
    \A c \in Conn :
        last_heartbeat[c] = "expired" ~>
            (pc[c] = "free" \/ last_heartbeat[c] = "recent" \/ []HeldUp(c))

\* Cancelling the token winds the center down for good: the server task, every
\* connection and the heartbeat loop end, and only orphans stay on the list.
\* What a client that does not read its responses can keep is its own
\* connection and the machine it has reported.
WindsDown ==
    ct ~> [](/\ \A c \in Conn : pc[c] = "free" \/ HeldUp(c)
             /\ server \notin {"binding", "listening", "putback"}
             /\ sweeper # "running"
             /\ \A m \in Machine : GuestListed(players, m) =>
                    \/ m \in orphans
                    \/ \E c \in Conn : HeldUp(c) /\ m \in {client_machine[c], request[c]})

-----------------------------------------------------------------------------
\* How far a connection is, to whoever is in the room.
Place(c) ==
    IF pc[c] \in {"free", "backlog"} THEN "away"
    ELSE IF pc[c] \in {"spawned", "registering"} \/ InLoop(c) THEN "here"
    ELSE "going"

\* The machine that a ping under way will be registered as.
Asking(c) ==
    IF /\ pc[c] \in {"writing", "beating", "mapping"}
       /\ request[c] \in Id /\ PingSucceeds(request[c])
    THEN request[c]
    ELSE None

Guests == {m \in Id : GuestListed(players, m)}

\* The room that the center keeps: who is on the list, not in which order, and
\* how far each connection is, not where its task, token and entries are.
Promise == INSTANCE Room WITH
    Welcome    <- {m \in Id : Verdict[m] # "reject"},
    Listable   <- {m \in Id : Verdict[m] = "list"},
    host       <- HostListed(players),
    guests     <- Guests,
    conn       <- [c \in Conn |-> Place(c)],
    machine    <- client_machine,
    asking     <- [c \in Conn |-> Asking(c)],
    departures <- events

\* Whatever the tasks, the heartbeat loop, close() and the application's calls do
\* in between, to the people in it the room is that of module Room: a guest goes
\* by its departure or by remove_player alone, each connection departs once, in
\* the name of its last machine, and the host stays.
KeepsRoom == Promise!RoomSpec

-----------------------------------------------------------------------------
\* scaffolding_center.rs:246: disconnect_machine cuts the connection of a
\* machine and tells whether it found one.
DisconnectFindsLive ==
    \A c \in Conn, m \in Machine :
        /\ pc[c] = "reading" /\ ~Stopping(c) /\ c \in active_clients
        /\ client_machine[c] = m
        => CanDisconnect(m)
=============================================================================
