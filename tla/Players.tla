------------------------------ MODULE Players ------------------------------
(***************************************************************************)
(* The player list of the host (ScaffoldingCenter::players, a Vec of       *)
(* PlayerInfo) and the three operations that write it.                     *)
(*                                                                         *)
(* An entry keeps what identifies and protects a player: its machine_id    *)
(* and its kind.  The display data (name, vendor, easytier_id) that a ping *)
(* refreshes in place is left out.  The order of the Vec is kept, because  *)
(* every operation acts on the first entry with the given machine_id.      *)
(***************************************************************************)
EXTENDS Naturals, Sequences, SequencesExt

CONSTANTS
    Machine,        \* machine identifiers that are not the empty string
    HostMachine,    \* the host's own machine_id
    NoMachine       \* the empty string: what a ping without machine_id gives

ASSUME MachineAssumption ==
    /\ HostMachine \in Machine
    /\ NoMachine \notin Machine

Id == Machine \cup {NoMachine}

\* PlayerInfo and PlayerKind, reduced to identity and role.
Entry == [machine_id : Id, kind : {"host", "guest"}]

\* iter().find / iter().position by machine_id.
Known(list, id) == \E i \in DOMAIN list : list[i].machine_id = id

Position(list, id) ==
    CHOOSE i \in DOMAIN list :
        /\ list[i].machine_id = id
        /\ \A j \in 1..(i - 1) : list[j].machine_id # id

\* Mutant: a ping looks for its machine among the guests only.
PingedGuest(list, id) ==
    LET guest == [machine_id |-> id, kind |-> "guest"]
    IN  IF \E i \in DOMAIN list : list[i] = guest
        THEN list
        ELSE Append(list, guest)

\* on_player_ping_impl: a known machine is refreshed, another joins as a guest.
Pinged(list, id) ==
    IF Known(list, id)
    THEN list
    ELSE Append(list, [machine_id |-> id, kind |-> "guest"])

\* Mutant: whoever has the machine_id is removed, the host too.
DisconnectedAny(list, id) ==
    IF Known(list, id) THEN RemoveAt(list, Position(list, id)) ELSE list

\* on_client_disconnected_impl for a disconnect event that names a machine:
\* its first entry is removed, unless that entry is the host.
Disconnected(list, id) ==
    IF Known(list, id) /\ list[Position(list, id)].kind # "host"
    THEN RemoveAt(list, Position(list, id))
    ELSE list

\* The last step of start(): the host is pushed, whatever the list holds.
HostJoined(list) ==
    Append(list, [machine_id |-> HostMachine, kind |-> "host"])

-----------------------------------------------------------------------------
GuestListed(list, id) ==
    \E i \in DOMAIN list : list[i] = [machine_id |-> id, kind |-> "guest"]

HostListed(list) == \E i \in DOMAIN list : list[i].kind = "host"

\* Two entries share a machine_id only if a guest took the host's identifier
\* before the host was pushed: then the guest's entry precedes the host's.
WellFormed(list) ==
    \A i, j \in DOMAIN list :
        i < j /\ list[i].machine_id = list[j].machine_id
            => list[i].kind = "guest" /\ list[j].kind = "host"
=============================================================================
