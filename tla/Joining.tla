------------------------------ MODULE Joining -------------------------------
(***************************************************************************)
(* From a room code to a connection: the guest parses what was typed,      *)
(* joins the EasyTier network it stands for, looks for the center among    *)
(* its nodes (core/center_discovery.rs) and connects; then Exchange.       *)
(*                                                                         *)
(* EasyTier shows the nodes of the network it was told to join, as it      *)
(* comes to know them.  What fails between discovery and connection is in  *)
(* Guest.                                                                  *)
(***************************************************************************)
EXTENDS Exchange, RoomCode

CONSTANTS
    Draws,              \* what 8 random bytes may be
    Typings(_),         \* texts a guest may type for a code
    TcpPorts,           \* ports the center's scan may end with
    Strangers,          \* other nodes of the room's network
    HostIp,             \* 10.144.144.1
    MaxScans            \* attempts of discover(): 60

VARIABLES
    room,               \* the center's RoomCode
    tcp_port,           \* the port in its host name
    typed,              \* the text the guest typed
    code,               \* what it was parsed to
    phase,              \* "typing", "refused", "scanning", "waiting", "found",
                        \* "missing", "connected"
    nodes,              \* get_nodes()
    scans,              \* scans made
    ct,                 \* the token is cancelled
    found               \* the CenterDiscoveryResult

host == <<room, tcp_port>>
joinVars == <<host, typed, code, phase, nodes, scans, ct, found>>
allVars == <<joinVars, vars>>

-----------------------------------------------------------------------------
\* A node has an address and a host name, of which counts whether it reads
\* scaffolding-mc-server-<digits> and what number u32 makes of the digits, -1 if
\* none.
HostNode == [server |-> TRUE, number |-> tcp_port, virtual_ip |-> HostIp]

\* Mutant: the bound on the port is forgotten.
AnyServer(node) == node.server

\* Its host name matches and the port is one a center may have.
IsCenter(node) == node.server /\ node.number > 1024 /\ node.number <= 65535

\* Random bytes are bytes and texts are texts, as long as they may be; the port is
\* one that scan_tcp_port tries; no other node of the network is a center; and
\* discover() makes an attempt.
ASSUME JoiningAssumption ==
    /\ Draws \subseteq [1..8 -> 0..255]
    /\ \A d, e \in Draws : Typings(write(encode8(d), encode8(e))) \subseteq Seq(Nat)
    /\ \A p \in TcpPorts : p \in Nat /\ p > 1024 /\ p <= 65535
    /\ \A s \in Strangers : ~(s.server /\ s.number > 1024 /\ s.number <= 65535)
    /\ \A p \in TcpPorts : None # [virtual_ip |-> HostIp, port |-> p]
    /\ MaxScans \in Nat \ {0}

\* Mutant: only the first node is looked at.
first_node(list) ==
    IF list # <<>> /\ IsCenter(list[1])
    THEN [virtual_ip |-> list[1].virtual_ip, port |-> list[1].number]
    ELSE None

\* The first node that is a center, or None.
try_parse_center(list) ==
    IF \E i \in 1..Len(list) : IsCenter(list[i])
    THEN LET i == CHOOSE i \in 1..Len(list) :
                    IsCenter(list[i]) /\ \A j \in 1..(i - 1) : ~IsCenter(list[j])
         IN  [virtual_ip |-> list[i].virtual_ip, port |-> list[i].number]
    ELSE None

-----------------------------------------------------------------------------
JoinInit ==
    /\ Init
    /\ room \in generate(Draws) /\ tcp_port \in TcpPorts
    /\ typed = None /\ code = None
    /\ phase = "typing"
    /\ nodes = <<>> /\ scans = 0 /\ ct = FALSE /\ found = None

\* join_room() parses the code before anything is started.
Type ==
    /\ phase = "typing"
    /\ \E text \in Typings(room.raw) :
        /\ typed' = text
        /\ code' = parse(text)
        /\ phase' = IF parse(text) = Invalid THEN "refused" ELSE "scanning"
    /\ UNCHANGED <<host, nodes, scans, ct, found, vars>>

Discovering == phase \in {"scanning", "waiting"}

\* EasyTier learns of nodes, or loses them.
NodesChange ==
    /\ Discovering
    /\ nodes' \in
        IF network(code) = network(room)
        THEN {<<>>, <<HostNode>>} \cup {<<s>> : s \in Strangers}
                \cup {<<s, HostNode>> : s \in Strangers}
        ELSE {<<>>}
    /\ UNCHANGED <<host, typed, code, phase, scans, ct, found, vars>>

Cancel ==
    /\ Discovering /\ ~ct
    /\ ct' = TRUE
    /\ UNCHANGED <<host, typed, code, phase, nodes, scans, found, vars>>

\* One attempt, which does not look at the token.
Scan ==
    /\ phase = "scanning"
    /\ found' = try_parse_center(nodes)
    /\ scans' = scans + 1
    /\ phase' = IF found' = None THEN "waiting" ELSE "found"
    /\ UNCHANGED <<host, typed, code, nodes, ct, vars>>

\* 500 ms pass, after the last attempt too, or the token is cancelled.
WaitEnds ==
    /\ phase = "waiting"
    /\ \/ phase' = IF scans = MaxScans THEN "missing" ELSE "scanning"
       \/ ct /\ phase' = "missing"
    /\ UNCHANGED <<host, typed, code, nodes, scans, ct, found, vars>>

\* The address that was found is the one the center's server listens on.
Connect ==
    /\ phase = "found" /\ found = [virtual_ip |-> HostIp, port |-> tcp_port]
    /\ phase' = "connected"
    /\ nodes' = <<>> /\ scans' = 0 /\ ct' = FALSE    \* of no account from here
    /\ UNCHANGED <<host, typed, code, found, vars>>

JoinNext ==
    \/ Type \/ NodesChange \/ Cancel \/ Scan \/ WaitEnds \/ Connect
    \/ phase = "connected" /\ Next /\ UNCHANGED joinVars

JoinSpec == JoinInit /\ [][JoinNext]_allVars

-----------------------------------------------------------------------------
JoinTypeOK ==
    /\ TypeOK
    /\ phase \in {"typing", "refused", "scanning", "waiting", "found", "missing",
                  "connected"}
    /\ scans \in 0..MaxScans /\ ct \in BOOLEAN
    /\ room # Invalid

\* Whoever types the code of a room gets into its network and nobody else does,
\* and the center that is found there, if any, is that room's, at the port it
\* listens on: generate and the pattern against each other, and the port as it
\* goes through a host name.
ReachesTheRoom ==
    /\ typed = room.raw => phase # "refused"
    /\ phase \notin {"typing", "refused"} =>
            (network(code) = network(room) <=> typed = room.raw)
    /\ found # None => typed = room.raw /\ found = [virtual_ip |-> HostIp, port |-> tcp_port]

\* An attempt overlooks no center that the network shows, whichever nodes are
\* listed before it and even when the token is cancelled; and the guest reports
\* that there is none only when it has been cancelled or has made every attempt.
NoneOverlooked ==
    [][/\ phase = "scanning" /\ HostNode \in ToSet(nodes) /\ phase' # phase =>
            phase' = "found"
       /\ phase # "missing" /\ phase' = "missing" => ct \/ scans = MaxScans]_allVars
=============================================================================
