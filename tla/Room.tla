-------------------------------- MODULE Room --------------------------------
(***************************************************************************)
(* What the host of a room promises: a guest is on the list from a ping    *)
(* until its departure is dealt with or the application removes it, every  *)
(* connection departs once, in the name of the machine it last reported,   *)
(* and departures are dealt with in the order they happened.  Tasks,       *)
(* tokens, heartbeats, the maps of the registry and the order of the list  *)
(* are what module Center adds.                                            *)
(***************************************************************************)
EXTENDS Sequences

CONSTANTS
    Conn,           \* client identifiers
    Machine,        \* machine identifiers
    HostMachine,    \* the host's own
    NoMachine,      \* what a client that names no machine goes by
    None,           \* no machine, no ping
    Welcome,        \* machines whose ping is answered with success
    Listable        \* machines that a ping puts on the list

VARIABLES
    host,           \* is the host on the list?
    guests,         \* the machines listed as guests
    conn,           \* per connection: "away", "here", or "going"
    machine,        \* the machine each connection last reported, or None
    asking,         \* the successful ping a connection is to report, or None
    departures      \* the departures not dealt with yet, oldest first

roomVars == <<host, guests, conn, machine, asking, departures>>

RoomInit ==
    /\ host = FALSE /\ guests = {}
    /\ conn = [c \in Conn |-> "away"]
    /\ machine = [c \in Conn |-> None]
    /\ asking = [c \in Conn |-> None]
    /\ departures = <<>>

-----------------------------------------------------------------------------
\* The host is never its own guest, unless the guest came first.
List(m) ==
    guests' = IF m \in Listable /\ ~(host /\ m = HostMachine)
              THEN guests \cup {m}
              ELSE guests

HostJoins ==
    /\ ~host /\ host' = TRUE
    /\ UNCHANGED <<guests, conn, machine, asking, departures>>

Arrive(c) ==
    /\ conn[c] = "away"
    /\ conn' = [conn EXCEPT ![c] = "here"]
    /\ UNCHANGED <<host, guests, machine, asking, departures>>

Ping(c, m) ==
    /\ conn[c] = "here" /\ asking[c] = None
    /\ List(m)
    /\ asking' = [asking EXCEPT ![c] = m]
    /\ UNCHANGED <<host, conn, machine, departures>>

\* A ping that names no machine is listed under the empty name, never reported.
PingUnnamed(c) ==
    /\ conn[c] = "here" /\ asking[c] = None
    /\ List(NoMachine)
    /\ UNCHANGED <<host, conn, machine, asking, departures>>

Report(c) ==
    /\ conn[c] = "here" /\ asking[c] # None
    /\ machine' = [machine EXCEPT ![c] = asking[c]]
    /\ asking' = [asking EXCEPT ![c] = None]
    /\ UNCHANGED <<host, guests, conn, departures>>

\* The connection is served no longer; what it was about to report is lost.
Finish(c) ==
    /\ conn[c] = "here"
    /\ conn' = [conn EXCEPT ![c] = "going"]
    /\ asking' = [asking EXCEPT ![c] = None]
    /\ UNCHANGED <<host, guests, machine, departures>>

Depart(c) ==
    /\ conn[c] = "going"
    /\ conn' = [conn EXCEPT ![c] = "away"]
    /\ machine' = [machine EXCEPT ![c] = None]
    /\ departures' = Append(departures, IF machine[c] = None
                                        THEN NoMachine
                                        ELSE machine[c])
    /\ UNCHANGED <<host, guests, asking>>

\* Nobody is removed for a departure that names no machine, and no departure
\* removes the host.
SeeOff ==
    /\ departures # <<>>
    /\ departures' = Tail(departures)
    /\ guests' = guests \ ({Head(departures)} \ {NoMachine})
    /\ UNCHANGED <<host, conn, machine, asking>>

Remove(m) ==
    /\ guests' = guests \ {m}
    /\ UNCHANGED <<host, conn, machine, asking, departures>>

-----------------------------------------------------------------------------
RoomNext ==
    \/ HostJoins \/ SeeOff
    \/ \E m \in Machine : Remove(m)
    \/ \E c \in Conn :
          \/ Arrive(c) \/ PingUnnamed(c) \/ Report(c) \/ Finish(c) \/ Depart(c)
          \/ \E m \in Welcome : Ping(c, m)

RoomSpec == RoomInit /\ [][RoomNext]_roomVars
=============================================================================
