------------------------------- MODULE Relay -------------------------------
(***************************************************************************)
(* The relay nodes of a ScaffoldingClient: the list that create_room() and *)
(* join_room() resolve, its cache (client.rs) and the node service behind  *)
(* it (relay/provider.rs).                                                 *)
(*                                                                         *)
(* A call takes the time, reads the cache, fetches without a lock, and     *)
(* writes the cache: other calls come in between.  A list is the set of    *)
(* its nodes; with it the model keeps when it was fetched, which the       *)
(* program does not know.                                                  *)
(***************************************************************************)
EXTENDS Naturals

CONSTANTS
    Caller,         \* tasks that call the client
    Setting,        \* the client's options, override and additional, and the
                    \* bounds for a client that has them (horizon: last instant)
    NoList,         \* no override, no cached list
    Direct, Http,   \* what the service lists: nodes, and addresses that answer
                    \* with a node
    Default,        \* DEFAULT_NODES
    Ttl,            \* RELAY_NODE_CACHE_TTL
    MaxClock        \* bound: no horizon is later

Node == Direct \cup Http \cup Default
            \cup (UNION {s.additional : s \in Setting})
            \cup (UNION {s.override : s \in {x \in Setting : x.override # NoList}})

\* A list with the instant it is stamped with, and the one it was fetched at.
List == [at : 0..MaxClock, got : 0..MaxClock, nodes : SUBSET Node]

ASSUME RelayAssumption ==
    /\ Ttl \in Nat \ {0} /\ MaxClock \in Nat
    /\ Default # {} /\ NoList \notin List
    /\ \A s \in Setting : s.horizon \in 0..MaxClock

VARIABLES
    setting,        \* override_relay_nodes and additional_relay_nodes
    clock,          \* the present instant
    cache,          \* cached_relay_nodes
    step,           \* per caller, where resolve_relay_nodes() is
    began,          \* per caller: `now`, taken as the call begins
    found           \* per caller: the cached list as read, then the result

relayVars == <<setting, clock, cache, step, began, found>>

Steps == {"out", "reading", "fetching", "retrying", "saving", "got"}

RelayTypeOK ==
    /\ setting \in Setting
    /\ clock \in 0..MaxClock
    /\ cache \in List \cup {NoList}
    /\ step \in [Caller -> Steps]
    /\ began \in [Caller -> 0..MaxClock]
    /\ found \in [Caller -> List \cup {NoList}]

RelayInit ==
    /\ setting \in Setting
    /\ clock = 0 /\ cache = NoList
    /\ step = [c \in Caller |-> "out"]
    /\ began = [c \in Caller |-> 0]
    /\ found = [c \in Caller |-> NoList]

-----------------------------------------------------------------------------
Tick ==
    /\ clock < setting.horizon /\ clock' = clock + 1
    /\ UNCHANGED <<setting, cache, step, began, found>>

Resolve(c) ==
    /\ step[c] = "out"
    /\ step' = [step EXCEPT ![c] = "reading"]
    /\ began' = [began EXCEPT ![c] = clock]
    /\ UNCHANGED <<setting, clock, cache, found>>

\* Mutant: a list of any age is used.
UsableAtAnyAge(c) == cache # NoList

Usable(c) ==
    /\ cache # NoList
    /\ cache.nodes # {} /\ began[c] < cache.at + Ttl

ReadCache(c) ==
    /\ step[c] = "reading"
    /\ found' = [found EXCEPT ![c] = cache]
    /\ step' = [step EXCEPT ![c] = IF Usable(c) THEN "got" ELSE "fetching"]
    /\ UNCHANGED <<setting, clock, cache, began>>

Stamped(c, nodes) == [at |-> began[c], got |-> clock, nodes |-> nodes]

\* nodes::resolve() adds the additional nodes.  An empty list is not cached: the
\* call returns the list it read from the cache, if there was one.
Obtain(c, nodes) ==
    LET list == Stamped(c, nodes \cup setting.additional)
        none == list.nodes = {}
    IN  /\ step' = [step EXCEPT ![c] = IF none THEN "got" ELSE "saving"]
        /\ found' = [found EXCEPT ![c] = IF none /\ @ # NoList THEN @ ELSE list]
        /\ UNCHANGED <<setting, clock, cache, began>>

UseOverride(c) ==
    /\ step[c] = "fetching" /\ setting.override # NoList
    /\ Obtain(c, setting.override)

\* Mutant: a service that fails or lists nothing gives an empty list.
NoFallback(nodes) == nodes

OrDefault(nodes) == IF nodes = {} THEN Default ELSE nodes

\* The service answers with a list, perhaps an empty one.  Each http address in
\* it is asked, twice if need be, for its node, and skipped if it does not say.
Fetch(c) ==
    /\ step[c] \in {"fetching", "retrying"} /\ setting.override = NoList
    /\ \E listed \in {{}, Direct \cup Http} : \E mute \in SUBSET Http :
            Obtain(c, OrDefault(listed \ mute))

\* No connection, an error status, or a body that is no list: tried once more.
FetchFails(c) ==
    /\ setting.override = NoList
    /\ \/ /\ step[c] = "fetching"
          /\ step' = [step EXCEPT ![c] = "retrying"]
          /\ UNCHANGED <<setting, clock, cache, began, found>>
       \/ step[c] = "retrying" /\ Obtain(c, OrDefault({}))

Save(c) ==
    /\ step[c] = "saving"
    /\ cache' = found[c]
    /\ step' = [step EXCEPT ![c] = "got"]
    /\ UNCHANGED <<setting, clock, began, found>>

\* The room that is being made takes the list.
TakeList(c) ==
    /\ step[c] = "got"
    /\ step' = [step EXCEPT ![c] = "out"]
    /\ began' = [began EXCEPT ![c] = 0]
    /\ found' = [found EXCEPT ![c] = NoList]
    /\ UNCHANGED <<setting, clock, cache>>

Resolving(c) ==
    ReadCache(c) \/ UseOverride(c) \/ Fetch(c) \/ FetchFails(c) \/ Save(c)

-----------------------------------------------------------------------------
\* No call gets a list that was fetched a TTL or more before it began: whatever
\* the calls in between wrote, in whatever order, an incomplete list heals.
ServedFresh ==
    \A c \in Caller : step[c] = "got" => began[c] < found[c].got + Ttl

\* However the service fails there are nodes to connect to: its own, its default
\* ones, or the override, and always the additional ones.  Only an override that
\* is empty gives an empty list.
ListUsable ==
    \A c \in Caller : step[c] = "got" =>
        /\ setting.additional \subseteq found[c].nodes
        /\ IF setting.override = NoList
           THEN found[c].nodes \cap (Direct \cup Http \cup Default) # {}
           ELSE found[c].nodes = setting.override \cup setting.additional
=============================================================================
