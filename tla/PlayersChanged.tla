--------------------------- MODULE PlayersChanged ---------------------------
(***************************************************************************)
(* The watch channel on which every change of the player list is           *)
(* announced: players_changed_tx and notify_players_changed.               *)
(*                                                                         *)
(* Each caller (a connection task, the disconnect-event consumer, start(), *)
(* remove_player) changes the list, then copies it, then sends the copy:   *)
(* two critical sections and a send, with other callers in between.  A     *)
(* watch channel keeps the last value sent, but tokio's Sender::send       *)
(* stores nothing while there is no receiver.  What is lost that way, or   *)
(* sent out of order, only a later announcement puts right, and those that *)
(* do not need a change of the list are the pings of connected guests, of  *)
(* which on_player_ping_impl, the standard handler, announces every one.   *)
(***************************************************************************)
EXTENDS Players

CONSTANTS
    Connection,     \* tasks that change and announce it for a guest that pings
    Other,          \* start(), the disconnect-event consumer, the application
    PingId          \* the machine identifiers pings carry

ASSUME PlayersChangedAssumption ==
    /\ PingId \subseteq Id
    /\ Connection \cap Other = {}

Caller == Connection \cup Other

VARIABLES
    players,        \* the player list
    connected,      \* the connections whose guest is there, and pings
    step,           \* per caller: "idle", "read" or "send"
    snapshot,       \* per caller: the copy it is about to send
    watched,        \* the value in the watch channel
    subscribed      \* is there a receiver?

vars == <<players, connected, step, snapshot, watched, subscribed>>

TypeOK ==
    /\ players \in Seq(Entry) /\ watched \in Seq(Entry)
    /\ connected \subseteq Connection
    /\ step \in [Caller -> {"idle", "read", "send"}]
    /\ snapshot \in [Caller -> Seq(Entry)]
    /\ subscribed \in BOOLEAN

Init ==
    /\ players = <<>> /\ watched = <<>>
    /\ connected = {}
    /\ step = [n \in Caller |-> "idle"]
    /\ snapshot = [n \in Caller |-> <<>>]
    /\ subscribed = FALSE

-----------------------------------------------------------------------------
\* Caller n holds the write lock, and will notify whether or not list changed.
Update(n, list) ==
    /\ step[n] = "idle"
    /\ step' = [step EXCEPT ![n] = "read"]
    /\ players' = list
    /\ UNCHANGED <<connected, snapshot, watched, subscribed>>

Arrive(n) ==
    /\ n \notin connected
    /\ connected' = connected \cup {n}
    /\ UNCHANGED <<players, step, snapshot, watched, subscribed>>

\* A guest may leave as soon as its ping has been handled.
Leave(n) ==
    /\ n \in connected /\ step[n] = "idle"
    /\ connected' = connected \ {n}
    /\ UNCHANGED <<players, step, snapshot, watched, subscribed>>

\* Mutant: a ping that adds nobody announces nothing.
PingOfNewcomer(n, id) ==
    n \in connected /\ ~Known(players, id) /\ Update(n, Pinged(players, id))

Ping(n, id) == n \in connected /\ Update(n, Pinged(players, id))

\* A disconnect event, or remove_player; an event without a machine only notifies.
Disconnect(n, id) ==
    Update(n, IF id = NoMachine THEN players ELSE Disconnected(players, id))

HostJoins(n) == ~HostListed(players) /\ Update(n, HostJoined(players))

ReadList(n) ==
    /\ step[n] = "read"
    /\ step' = [step EXCEPT ![n] = "send"]
    /\ snapshot' = [snapshot EXCEPT ![n] = players]
    /\ UNCHANGED <<players, connected, watched, subscribed>>

SendList(n) ==
    /\ step[n] = "send"
    /\ step' = [step EXCEPT ![n] = "idle"]
    /\ snapshot' = [snapshot EXCEPT ![n] = <<>>]
    /\ watched' = IF subscribed THEN snapshot[n] ELSE watched
    /\ UNCHANGED <<players, connected, subscribed>>

\* players_changed_rx(), and the receiver being dropped.
Subscribe ==
    /\ ~subscribed /\ subscribed' = TRUE
    /\ UNCHANGED <<players, connected, step, snapshot, watched>>

Unsubscribe ==
    /\ subscribed /\ subscribed' = FALSE
    /\ UNCHANGED <<players, connected, step, snapshot, watched>>

Pings(n) == \E id \in PingId : Ping(n, id)

Next ==
    \/ \E n \in Connection : Arrive(n) \/ Leave(n) \/ Pings(n)
    \/ \E n \in Other :
        \/ HostJoins(n)
        \/ \E id \in PingId \cup {HostMachine} : Disconnect(n, id)
    \/ \E n \in Caller : ReadList(n) \/ SendList(n)
    \/ Subscribe \/ Unsubscribe

Spec == Init /\ [][Next]_vars

\* A notification that was begun is finished, and a guest that stays connected
\* pings: each sends c:player_ping every 5 seconds, and one that stops is cut.
\* Nobody has to stay, nor to come.
FairSpec ==
    /\ Spec
    /\ \A n \in Caller : WF_vars(ReadList(n)) /\ WF_vars(SendList(n))
    /\ \A n \in Connection : WF_vars(Pings(n))

-----------------------------------------------------------------------------
\* Concurrent notifications may leave an outdated list in the channel, and one
\* may be lost before the application subscribes, but not for ever: once the list
\* no longer changes, a receiver that stays subscribed ends up with the current
\* one if a guest stays, because every ping announces the list again.  Without a
\* guest nothing does (scaffolding_center.rs:221).
Settles ==
    (/\ <>[][UNCHANGED players]_players
     /\ <>[]subscribed
     /\ \E n \in Connection : <>[](n \in connected))
        => <>[](watched = players)
=============================================================================
