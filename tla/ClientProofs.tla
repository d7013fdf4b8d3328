---------------------------- MODULE ClientProofs ----------------------------
(***************************************************************************)
(* Proofs about the relay list cache and the rooms of a ScaffoldingClient, *)
(* for any number of callers, rooms, tokens and nodes.                     *)
(***************************************************************************)
EXTENDS Client, TLAPS

\* Any step of the cache.
RelayStep ==
    \/ Tick
    \/ \E c \in Caller : Resolve(c) \/ Resolving(c) \/ TakeList(c)

\* A list worth saving: not empty, made from the client's options, and stamped
\* no later than it was fetched.
Good(list) ==
    /\ list.at <= list.got /\ list.got <= clock
    /\ list.nodes # {}
    /\ setting.additional \subseteq list.nodes
    /\ IF setting.override = NoList
       THEN list.nodes \cap (Direct \cup Http \cup Default) # {}
       ELSE list.nodes = setting.override \cup setting.additional

RelayInv ==
    /\ RelayTypeOK
    /\ cache # NoList => Good(cache)
    /\ \A c \in Caller :
        /\ step[c] # "out" => began[c] <= clock
        /\ step[c] \in {"fetching", "retrying"} /\ found[c] # NoList
                => Good(found[c])
        /\ step[c] = "saving" => /\ found[c] # NoList /\ Good(found[c])
                                 /\ began[c] <= found[c].got
        /\ step[c] = "got" => found[c] # NoList
    /\ ServedFresh /\ ListUsable

Sources == Direct \cup Http \cup Default

\* Where the list that a call obtains comes from.
FromSource(nodes) ==
    IF setting.override = NoList
    THEN nodes \subseteq Sources /\ nodes # {} ELSE nodes = setting.override

LEMMA RelayInitInv == RelayInit => RelayInv
<1> SUFFICES ASSUME RelayInit PROVE RelayInv
  OBVIOUS
<1>1. RelayTypeOK
  BY RelayAssumption DEF RelayInit, RelayTypeOK, Steps
<1> QED
  BY <1>1 DEF RelayInit, RelayInv, ServedFresh, ListUsable

\* What a call obtains is good, and is saved or, if it is empty, returned.
LEMMA ObtainKeeps ==
    ASSUME RelayInv, NEW c \in Caller, NEW nodes, step[c] \in {"fetching", "retrying"},
           FromSource(nodes), Obtain(c, nodes)
    PROVE  RelayInv'
<1> DEFINE list == Stamped(c, nodes \cup setting.additional)
<1> USE DEF RelayInv, RelayTypeOK
<1>1. /\ setting \in Setting /\ began[c] \in 0..MaxClock /\ clock \in 0..MaxClock
      /\ began[c] <= clock
  OBVIOUS
<1>2. nodes \cup setting.additional \in SUBSET Node
  BY <1>1 DEF FromSource, Sources, Node
<1>3. list \in List /\ list # NoList
  BY <1>1, <1>2, RelayAssumption DEF Stamped, List
<1>4. list.nodes # {} => Good(list)
  BY <1>1, <1>2, RelayAssumption DEF Stamped, Good, FromSource, Sources
<1>5. list.nodes = {} => /\ setting.override # NoList /\ setting.override = {}
                         /\ setting.additional = {}
  BY DEF Stamped, FromSource
<1>6. list.nodes = {} => found[c] = NoList
  BY <1>5 DEF Good
<1>7. /\ found' = [found EXCEPT ![c] = list]
      /\ step' = [step EXCEPT ![c] = IF list.nodes = {} THEN "got" ELSE "saving"]
      /\ UNCHANGED <<setting, clock, cache, began>>
  BY <1>6 DEF Obtain
<1>8. RelayTypeOK'
  BY <1>3, <1>7 DEF Steps
<1>9. /\ cache' # NoList => Good(cache)'
      /\ \A d \in Caller : d # c =>
            step'[d] = step[d] /\ found'[d] = found[d] /\ began'[d] = began[d]
      /\ found'[c] = list /\ began'[c] = began[c]
      /\ step'[c] = IF list.nodes = {} THEN "got" ELSE "saving"
  BY <1>7 DEF Good
<1>10. \A L : Good(L)' <=> Good(L)
  BY <1>7 DEF Good
<1>11. list.got = clock /\ list.nodes = nodes \cup setting.additional
  BY DEF Stamped
<1>12. ServedFresh'
  BY <1>1, <1>7, <1>9, <1>11, RelayAssumption DEF ServedFresh
<1>13. ListUsable'
  BY <1>5, <1>7, <1>9, <1>11 DEF ListUsable
<1>14. \A d \in Caller :
        /\ step'[d] # "out" => began'[d] <= clock'
        /\ step'[d] \in {"fetching", "retrying"} /\ found'[d] # NoList
                => Good(found[d])'
        /\ step'[d] = "saving" => /\ found'[d] # NoList /\ Good(found[d])'
                                  /\ began'[d] <= found'[d].got
        /\ step'[d] = "got" => found'[d] # NoList
  <2> SUFFICES ASSUME NEW d \in Caller
               PROVE  /\ step'[d] # "out" => began'[d] <= clock'
                      /\ step'[d] \in {"fetching", "retrying"} /\ found'[d] # NoList
                              => Good(found[d])'
                      /\ step'[d] = "saving" => /\ found'[d] # NoList /\ Good(found[d])'
                                  /\ began'[d] <= found'[d].got
                      /\ step'[d] = "got" => found'[d] # NoList
    OBVIOUS
  <2>1. CASE d = c
    BY <1>1, <1>3, <1>4, <1>7, <1>9, <1>11, <2>1 DEF Good
  <2>2. CASE d # c
    BY <1>7, <1>9, <2>2 DEF Good
  <2> QED
    BY <2>1, <2>2
<1> QED
  BY <1>8, <1>9, <1>12, <1>13, <1>14

LEMMA RelayStepKeeps == RelayInv /\ RelayStep => RelayInv'
<1> SUFFICES ASSUME RelayInv, RelayStep PROVE RelayInv'
  OBVIOUS
<1>1. CASE Tick
  <2> USE DEF RelayInv, RelayTypeOK
  <2>1. clock \in Nat /\ clock' = clock + 1 /\ clock' \in 0..MaxClock
    BY <1>1, RelayAssumption DEF Tick
  <2>2. UNCHANGED <<setting, cache, step, began, found>>
    BY <1>1 DEF Tick
  <2>3. RelayTypeOK'
    BY <2>1, <2>2 DEF Steps
  <2>4. \A L \in List : Good(L) => Good(L)'
    BY <2>1, <2>2, RelayAssumption DEF Good, List
  <2>5. cache' # NoList => Good(cache)'
    BY <2>2, <2>4 DEF Good
  <2>6. ServedFresh' /\ ListUsable'
    BY <2>2 DEF ServedFresh, ListUsable
  <2>7. \A d \in Caller : found[d] # NoList /\ Good(found[d]) => Good(found[d])'
    BY <2>2, <2>4 DEF Good
  <2>8. \A d \in Caller : began[d] <= clock => began[d] <= clock'
    BY <2>1, RelayAssumption
  <2> QED
    BY <2>2, <2>3, <2>5, <2>6, <2>7, <2>8
<1>2. ASSUME NEW c \in Caller, Resolve(c) \/ ReadCache(c) \/ Save(c) \/ TakeList(c)
      PROVE  RelayInv'
  <2> USE DEF RelayInv, RelayTypeOK
  <2>1. UNCHANGED <<setting, clock>>
    BY <1>2 DEF Resolve, ReadCache, Save, TakeList
  <2>2. \A L : Good(L)' <=> Good(L)
    BY <2>1 DEF Good
  <2>3. CASE Resolve(c)
    BY <2>1, <2>3, RelayAssumption DEF Resolve, Steps, ServedFresh, ListUsable, Good
  <2>4. CASE ReadCache(c)
    <3>1. RelayTypeOK'
      BY <2>4 DEF ReadCache, Steps
    <3>2. Usable(c) => cache \in List /\ Good(cache) /\ began[c] < cache.got + Ttl
      BY RelayAssumption DEF Usable, Good, List
    <3>3. ServedFresh' /\ ListUsable'
      BY <2>1, <2>4, <3>2 DEF ReadCache, ServedFresh, ListUsable, Good, Usable
    <3> QED
      BY <2>1, <2>4, <3>1, <3>2, <3>3 DEF ReadCache, Good, Usable
  <2>5. CASE Save(c)
    <3>1. RelayTypeOK'
      BY <2>5 DEF Save, Steps
    <3>2. /\ found[c] \in List /\ Good(found[c])
          /\ began[c] \in Nat /\ began[c] <= found[c].got
      BY <2>5, RelayAssumption DEF Save
    <3>3. began[c] < found[c].got + Ttl
      BY <3>2, RelayAssumption DEF List
    <3>4. ServedFresh' /\ ListUsable'
      BY <2>1, <2>5, <3>2, <3>3 DEF Save, ServedFresh, ListUsable, Good
    <3> QED
      BY <2>1, <2>5, <3>1, <3>2, <3>4 DEF Save, Good
  <2>6. CASE TakeList(c)
    BY <2>1, <2>6, RelayAssumption DEF TakeList, Steps, ServedFresh, ListUsable, Good
  <2> QED
    BY <1>2, <2>3, <2>4, <2>5, <2>6
<1>3. ASSUME NEW c \in Caller, UseOverride(c) PROVE RelayInv'
  <2>1. FromSource(setting.override)
    BY <1>3 DEF UseOverride, FromSource
  <2> QED
    BY <1>3, <2>1, ObtainKeeps DEF UseOverride
<1>4. ASSUME NEW c \in Caller, Fetch(c) PROVE RelayInv'
  <2>1. PICK listed \in {{}, Direct \cup Http}, mute \in SUBSET Http :
            Obtain(c, OrDefault(listed \ mute))
    BY <1>4 DEF Fetch
  <2>2. FromSource(OrDefault(listed \ mute))
    BY <1>4, RelayAssumption DEF Fetch, FromSource, OrDefault, Sources
  <2> QED
    BY <1>4, <2>1, <2>2, ObtainKeeps DEF Fetch
<1>5. ASSUME NEW c \in Caller, FetchFails(c) PROVE RelayInv'
  <2>1. CASE step[c] = "retrying" /\ Obtain(c, OrDefault({}))
    <3>1. FromSource(OrDefault({}))
      BY <1>5, RelayAssumption DEF FetchFails, FromSource, OrDefault, Sources
    <3> QED
      BY <2>1, <3>1, ObtainKeeps
  <2>2. CASE /\ step[c] = "fetching"
             /\ step' = [step EXCEPT ![c] = "retrying"]
             /\ UNCHANGED <<setting, clock, cache, began, found>>
    BY <2>2 DEF RelayInv, RelayTypeOK, Steps, ServedFresh, ListUsable, Good
  <2> QED
    BY <1>5, <2>1, <2>2 DEF FetchFails
<1> QED
  BY <1>1, <1>2, <1>3, <1>4, <1>5 DEF RelayStep, Resolving

-----------------------------------------------------------------------------
\* Rooms in the hands of a call, and rooms in which nothing runs.
Holds(c, r) == mine[c] = r \/ r \in batch[c]

Bare(r) == slot[r] = None /\ task[r] = FALSE /\ network[r] = FALSE

ClientTypes ==
    /\ call \in [Caller -> Calls]
    /\ mine \in [Caller -> Room \cup {None}]
    /\ batch \in [Caller -> SUBSET Room] /\ seen \in [Caller -> SUBSET Room]
    /\ managed_centers \in SUBSET Room /\ managed_guests \in SUBSET Room
    /\ kind \in [Room -> {"center", "guest"}]
    /\ state \in [Room -> {"unused", "opening", "open", "failed", "closing",
                           "closed"}]
    /\ token \in [Room -> Token \cup {None}]
    /\ slot \in [Room -> Token \cup {None}]
    /\ task \in [Room -> BOOLEAN] /\ network \in [Room -> BOOLEAN]
    /\ cancelled \in SUBSET Token

\* What is known of a room by the place its call has reached.
CallInv(c) ==
    /\ call[c] = "idle" => mine[c] = None /\ batch[c] = {}
    /\ call[c] \notin {"idle", "centers", "guests"}
            => mine[c] \in Room /\ batch[c] = {}
    /\ call[c] \in {"create", "start", "join", "connect"}
            => state[mine[c]] = "opening" /\ network[mine[c]] = FALSE
    /\ call[c] = "create" => kind[mine[c]] = "center" /\ Bare(mine[c])
    /\ call[c] = "start"
            => kind[mine[c]] = "center" /\ slot[mine[c]] = token[mine[c]]
    /\ call[c] \in {"join", "connect"}
            => kind[mine[c]] = "guest" /\ Bare(mine[c])
    /\ call[c] \in {"leave", "stop"}
            => /\ kind[mine[c]] = "guest" /\ state[mine[c]] = "failed"
               /\ slot[mine[c]] = None /\ task[mine[c]] = FALSE
    /\ call[c] = "push" => state[mine[c]] = "open"
    /\ call[c] \in {"centers", "guests"} /\ mine[c] # None
            => state[mine[c]] = "closing"

\* What is known of a room by its state.
RoomInv(r) ==
    /\ state[r] # "unused" => token[r] \in Token
    /\ state[r] = "unused" => ~InHand(r) /\ Bare(r)
    /\ state[r] \in {"opening", "open", "closing"} => InHand(r)
    /\ state[r] = "open" => slot[r] = token[r]
    /\ state[r] \in {"closing", "closed"} => token[r] \in cancelled
    /\ state[r] = "closed" => network[r] = FALSE
    /\ state[r] = "failed" /\ kind[r] = "guest"
            => task[r] = FALSE /\ (~InHand(r) => network[r] = FALSE)

\* A room is in one place only, and open where close_all() finds it.
Apart ==
    /\ \A c \in Caller : mine[c] \notin batch[c]
    /\ \A c \in Caller : \A r \in batch[c] : state[r] = "open"
    /\ \A c, d \in Caller : c # d =>
        \A r \in Room : ~(Holds(c, r) /\ Holds(d, r))
    /\ \A c \in Caller, r \in managed_centers \cup managed_guests : ~Holds(c, r)
    /\ \A r \in managed_centers : state[r] = "open" /\ kind[r] = "center"
    /\ \A r \in managed_guests : state[r] = "open" /\ kind[r] = "guest"

\* What close_all() found is closed, in a close_all()'s hands, or still listed.
SeenInv ==
    \A c \in Caller : call[c] \in {"centers", "guests"} => \A r \in seen[c] :
        \/ state[r] = "closed"
        \/ \E d \in Caller : Holds(d, r) /\ call[d] \in {"centers", "guests"}
        \/ call[c] = "centers" /\ r \in managed_guests

RoomsInv ==
    /\ ClientTypes
    /\ \A c \in Caller : CallInv(c)
    /\ \A r \in Room : RoomInv(r)
    /\ Apart /\ SeenInv

LEMMA RoomsInit == Init => RoomsInv
<1> SUFFICES ASSUME Init PROVE RoomsInv
  OBVIOUS
<1>1. ClientTypes
  BY DEF Init, ClientTypes, Calls
<1>2. \A c \in Caller : CallInv(c)
  BY DEF Init, CallInv
<1>3. \A r \in Room : RoomInv(r)
  BY ClientAssumption DEF Init, RoomInv, InHand, Bare, Room
<1>4. Apart /\ SeenInv
  BY ClientAssumption DEF Init, Apart, SeenInv, Holds, Room
<1> QED
  BY <1>1, <1>2, <1>3, <1>4 DEF RoomsInv

LEMMA NoneIsNoRoom == None \notin Room
BY ClientAssumption DEF Room

\* A call that opens or closes a room has it in hand alone.
LEMMA HasRoom ==
    ASSUME RoomsInv, NEW c \in Caller,
           \/ call[c] \notin {"idle", "centers", "guests"}
           \/ mine[c] # None
    PROVE  /\ mine[c] \in Room /\ mine[c] # None
           /\ mine[c] \notin managed_centers \cup managed_guests
           /\ \A d \in Caller : mine[c] \notin batch[d]
           /\ \A d \in Caller \ {c} : mine[d] # mine[c]
<1>1. mine[c] \in Room /\ mine[c] # None
  BY NoneIsNoRoom DEF RoomsInv, ClientTypes, CallInv
<1>2. \A d \in Caller \ {c} : ~Holds(d, mine[c])
  BY <1>1 DEF RoomsInv, Apart, Holds
<1> QED
  BY <1>1, <1>2 DEF RoomsInv, Apart, Holds

LEMMA BeginKeeps ==
    ASSUME RoomsInv, setting \in Setting, NEW c \in Caller, NEW t \in Token,
           CreateRoom(c, t) \/ JoinRoom(c, t)
    PROVE  RoomsInv'
<1>1. PICK what \in {"center", "guest"}, place \in {"create", "join"} :
        /\ place = (IF what = "center" THEN "create" ELSE "join")
        /\ Begin(c, what, place, t)
  BY DEF CreateRoom, JoinRoom
<1>2. PICK r \in setting.rooms :
        /\ state[r] = "unused"
        /\ mine' = [mine EXCEPT ![c] = r]
        /\ kind' = [kind EXCEPT ![r] = what]
        /\ state' = [state EXCEPT ![r] = "opening"]
        /\ token' = [token EXCEPT ![r] = t]
  BY <1>1 DEF Begin
<1>3. r \in Room /\ call[c] = "idle" /\ call' = [call EXCEPT ![c] = place]
  BY <1>1, ClientAssumption DEF Begin, Goto, Room
<1>4. UNCHANGED <<batch, seen, managed_centers, managed_guests, slot, task, network,
                  cancelled>>
  BY <1>1 DEF Begin, listVars
<1>5. ~InHand(r) /\ Bare(r) /\ r # None /\ t # None
  BY <1>2, <1>3, ClientAssumption DEF RoomsInv, RoomInv, Room
<1>6. mine[c] = None /\ batch[c] = {}
  BY <1>3 DEF RoomsInv, CallInv
<1>7. ClientTypes'
  BY <1>2, <1>3, <1>4 DEF RoomsInv, ClientTypes, Calls
<1>8. ASSUME NEW d \in Caller PROVE CallInv(d)'
  <2>1. CASE d = c
    BY <1>1, <1>2, <1>3, <1>4, <1>5, <1>6, <2>1 DEF RoomsInv, ClientTypes, CallInv, Bare
  <2>2. CASE d # c
    <3>1. CallInv(d) /\ mine[d] # r /\ mine[d] \in Room \cup {None}
      BY <1>5 DEF RoomsInv, ClientTypes, InHand
    <3>2. call'[d] = call[d] /\ mine'[d] = mine[d] /\ batch'[d] = batch[d]
      BY <1>2, <1>3, <1>4, <2>2 DEF RoomsInv, ClientTypes
    <3>3. call[d] \notin {"idle", "centers", "guests"} => mine[d] \in Room
      BY <3>1 DEF CallInv
    <3>4. mine[d] # None => /\ mine[d] \in Room /\ state'[mine[d]] = state[mine[d]]
                            /\ kind'[mine[d]] = kind[mine[d]]
                            /\ token'[mine[d]] = token[mine[d]]
      BY <1>2, <1>3, <3>1 DEF RoomsInv, ClientTypes
    <3> QED
      BY <1>4, <3>1, <3>2, <3>3, <3>4, ClientAssumption DEF CallInv, Bare, Room
  <2> QED
    BY <2>1, <2>2
<1>9. ASSUME NEW q \in Room PROVE RoomInv(q)'
  <2>1. CASE q = r
    BY <1>2, <1>3, <1>4, <1>5, <2>1 DEF RoomsInv, ClientTypes, RoomInv, InHand, Bare
  <2>2. CASE q # r
    <3>1. RoomInv(q) /\ (InHand(q)' <=> InHand(q))
      BY <1>2, <1>3, <1>4, <1>6, <2>2, ClientAssumption
      DEF RoomsInv, ClientTypes, InHand, Room
    <3>2. state'[q] = state[q] /\ kind'[q] = kind[q] /\ token'[q] = token[q]
      BY <1>2, <2>2 DEF RoomsInv, ClientTypes
    <3> QED
      BY <1>4, <3>1, <3>2 DEF RoomInv, Bare
  <2> QED
    BY <2>1, <2>2
<1>10. Apart'
  BY <1>2, <1>3, <1>4, <1>5, <1>6 DEF RoomsInv, ClientTypes, Apart, Holds, InHand
<1>11. SeenInv'
  BY <1>1, <1>2, <1>3, <1>4, <1>5, <1>6
  DEF RoomsInv, ClientTypes, SeenInv, Holds, InHand
<1> QED
  BY <1>7, <1>8, <1>9, <1>10, <1>11 DEF RoomsInv

LEMMA KeyConflictKeeps ==
    ASSUME RoomsInv, NEW c \in Caller, KeyConflict(c)
    PROVE  RoomsInv'
<1> USE DEF KeyConflict, Return, Goto, Calls, Bare, listVars
<1>1. ClientTypes'
  BY ClientAssumption DEF RoomsInv, ClientTypes, CallInv
<1>2. \A d \in Caller : CallInv(d)'
  BY ClientAssumption DEF RoomsInv, ClientTypes, CallInv, Apart, Holds
<1>3. ASSUME NEW q \in Room PROVE RoomInv(q)'
  <2> USE DEF RoomsInv, ClientTypes, CallInv, RoomInv, InHand, Apart, Holds
  <2>1. CASE q = mine[c]
    BY <2>1, ClientAssumption
  <2>2. CASE q # mine[c]
    <3>1. RoomInv(q)
      OBVIOUS
    <3>2. InHand(q)' <=> InHand(q)
      BY <2>2, NoneIsNoRoom, HasRoom
    <3> QED
      BY <2>2, <3>1, <3>2, ClientAssumption
  <2> QED
    BY <2>1, <2>2
<1>4. Apart'
  <2>1. mine[c] \in Room /\ mine[c] # None
    BY HasRoom
  <2>2. /\ \A d \in Caller, q \in Room : Holds(d, q)' => Holds(d, q)
        /\ \A d \in Caller : mine'[d] \in {mine[d], None}
    BY <2>1, ClientAssumption DEF RoomsInv, ClientTypes, Holds, Room
  <2>3. \A q \in Room : state'[q] # state[q] => q = mine[c]
    BY <2>1 DEF RoomsInv, ClientTypes
  <2>4. \A d \in Caller : mine[c] \notin batch[d]
    BY <2>1 DEF RoomsInv, ClientTypes, Apart, Holds
  <2>5. mine[c] \notin managed_centers \cup managed_guests
    BY <2>1 DEF RoomsInv, ClientTypes, Apart, Holds
  <2> QED
    BY <2>1, <2>2, <2>3, <2>4, <2>5, ClientAssumption
    DEF RoomsInv, ClientTypes, Apart, Room
<1>5. SeenInv'
  BY ClientAssumption DEF RoomsInv, ClientTypes, CallInv, Apart, SeenInv, Holds
<1> QED
  BY <1>1, <1>2, <1>3, <1>4, <1>5 DEF RoomsInv

LEMMA StartServerKeeps ==
    ASSUME RoomsInv, NEW c \in Caller, StartServer(c)
    PROVE  RoomsInv'
<1> USE DEF StartServer, Goto, Calls, Bare, listVars
<1>1. ClientTypes'
  BY ClientAssumption DEF RoomsInv, ClientTypes, CallInv
<1>2. \A d \in Caller : CallInv(d)'
  BY ClientAssumption DEF RoomsInv, ClientTypes, CallInv, Apart, Holds
<1>3. \A q \in Room : RoomInv(q)'
  BY ClientAssumption DEF RoomsInv, ClientTypes, CallInv, RoomInv, InHand, Apart, Holds
<1>4. Apart'
  BY ClientAssumption DEF RoomsInv, ClientTypes, CallInv, RoomInv, InHand, Apart, Holds
<1>5. SeenInv'
  BY ClientAssumption DEF RoomsInv, ClientTypes, CallInv, Apart, SeenInv, Holds
<1> QED
  BY <1>1, <1>2, <1>3, <1>4, <1>5 DEF RoomsInv

LEMMA StartFailsKeeps ==
    ASSUME RoomsInv, NEW c \in Caller, StartFails(c)
    PROVE  RoomsInv'
<1> USE DEF StartFails, Return, Goto, Calls, Bare, listVars
<1>1. ClientTypes'
  BY ClientAssumption DEF RoomsInv, ClientTypes, CallInv
<1>2. \A d \in Caller : CallInv(d)'
  BY ClientAssumption DEF RoomsInv, ClientTypes, CallInv, Apart, Holds
<1>3. ASSUME NEW q \in Room PROVE RoomInv(q)'
  <2> USE DEF RoomsInv, ClientTypes, CallInv, RoomInv, InHand, Apart, Holds
  <2>1. CASE q = mine[c]
    BY <2>1, ClientAssumption
  <2>2. CASE q # mine[c]
    <3>1. RoomInv(q)
      OBVIOUS
    <3>2. InHand(q)' <=> InHand(q)
      BY <2>2, NoneIsNoRoom, HasRoom
    <3> QED
      BY <2>2, <3>1, <3>2, ClientAssumption
  <2> QED
    BY <2>1, <2>2
<1>4. Apart'
  <2>1. mine[c] \in Room /\ mine[c] # None
    BY HasRoom
  <2>2. /\ \A d \in Caller, q \in Room : Holds(d, q)' => Holds(d, q)
        /\ \A d \in Caller : mine'[d] \in {mine[d], None}
    BY <2>1, ClientAssumption DEF RoomsInv, ClientTypes, Holds, Room
  <2>3. \A q \in Room : state'[q] # state[q] => q = mine[c]
    BY <2>1 DEF RoomsInv, ClientTypes
  <2>4. \A d \in Caller : mine[c] \notin batch[d]
    BY <2>1 DEF RoomsInv, ClientTypes, Apart, Holds
  <2>5. mine[c] \notin managed_centers \cup managed_guests
    BY <2>1 DEF RoomsInv, ClientTypes, Apart, Holds
  <2> QED
    BY <2>1, <2>2, <2>3, <2>4, <2>5, ClientAssumption
    DEF RoomsInv, ClientTypes, Apart, Room
<1>5. SeenInv'
  BY ClientAssumption DEF RoomsInv, ClientTypes, CallInv, Apart, SeenInv, Holds
<1> QED
  BY <1>1, <1>2, <1>3, <1>4, <1>5 DEF RoomsInv

LEMMA NetworkStartsKeeps ==
    ASSUME RoomsInv, NEW c \in Caller, NetworkStarts(c)
    PROVE  RoomsInv'
<1> USE DEF NetworkStarts, Goto, Calls, Bare, listVars
<1>1. ClientTypes'
  BY ClientAssumption DEF RoomsInv, ClientTypes, CallInv
<1>2. \A d \in Caller : CallInv(d)'
  BY ClientAssumption DEF RoomsInv, ClientTypes, CallInv, Apart, Holds
<1>3. \A q \in Room : RoomInv(q)'
  BY ClientAssumption DEF RoomsInv, ClientTypes, CallInv, RoomInv, InHand, Apart, Holds
<1>4. Apart'
  BY ClientAssumption DEF RoomsInv, ClientTypes, CallInv, RoomInv, InHand, Apart, Holds
<1>5. SeenInv'
  BY ClientAssumption DEF RoomsInv, ClientTypes, CallInv, Apart, SeenInv, Holds
<1> QED
  BY <1>1, <1>2, <1>3, <1>4, <1>5 DEF RoomsInv

LEMMA PushKeeps ==
    ASSUME RoomsInv, NEW c \in Caller, Push(c)
    PROVE  RoomsInv'
<1> USE DEF Push, Return, Goto, Calls, Bare, roomVars, listVars
<1>1. ClientTypes'
  BY ClientAssumption DEF RoomsInv, ClientTypes, CallInv
<1>2. \A d \in Caller : CallInv(d)'
  BY ClientAssumption DEF RoomsInv, ClientTypes, CallInv, Apart, Holds
<1>3. \A q \in Room : InHand(q)' <=> InHand(q)
  BY NoneIsNoRoom, HasRoom DEF RoomsInv, ClientTypes, InHand
<1>4. \A q \in Room : RoomInv(q)'
  BY <1>3 DEF RoomsInv, RoomInv
<1>5. ASSUME NEW room \in Room, room = mine[c] PROVE Apart'
  <2>1. /\ \A d \in Caller : room \notin batch[d]
        /\ \A d \in Caller \ {c} : mine[d] # room
    BY <1>5, HasRoom
  <2>2. mine' = [mine EXCEPT ![c] = None] /\ UNCHANGED <<batch, state, kind>>
    OBVIOUS
  <2>3. \A d \in Caller : mine'[d] = IF d = c THEN None ELSE mine[d]
    BY <2>2 DEF RoomsInv, ClientTypes
  <2>4. \A d \in Caller, q \in Room : Holds(d, q)' => Holds(d, q)
    BY <2>2, <2>3, NoneIsNoRoom DEF Holds
  <2>5. \A d \in Caller : ~Holds(d, room)'
    BY <2>1, <2>2, <2>3, NoneIsNoRoom DEF Holds
  <2>6. /\ state[room] = "open"
        /\ managed_centers' \cup managed_guests'
                = managed_centers \cup managed_guests \cup {room}
    BY <1>5 DEF RoomsInv, CallInv
  <2>7. \A q \in managed_centers' : state'[q] = "open" /\ kind'[q] = "center"
    BY <1>5, <2>2, <2>6 DEF RoomsInv, Apart
  <2>8. \A q \in managed_guests' : state'[q] = "open" /\ kind'[q] = "guest"
    BY <1>5, <2>2, <2>6 DEF RoomsInv, ClientTypes, Apart
  <2>9. \A d \in Caller : mine'[d] \notin batch'[d]
    BY <2>2, <2>3, NoneIsNoRoom DEF RoomsInv, ClientTypes, Apart
  <2>10. \A d \in Caller, q \in managed_centers' \cup managed_guests' : ~Holds(d, q)'
    BY <2>4, <2>5, <2>6 DEF RoomsInv, ClientTypes, Apart
  <2>11. \A d, e \in Caller : d # e =>
            \A q \in Room : ~(Holds(d, q)' /\ Holds(e, q)')
    BY <2>4 DEF RoomsInv, Apart
  <2>12. \A d \in Caller : \A q \in batch'[d] : state'[q] = "open"
    BY <2>2 DEF RoomsInv, Apart
  <2> QED
    BY <2>7, <2>8, <2>9, <2>10, <2>11, <2>12 DEF Apart
<1>6. SeenInv'
  BY ClientAssumption DEF RoomsInv, ClientTypes, CallInv, Apart, SeenInv, Holds
<1>7. mine[c] \in Room
  BY HasRoom
<1> QED
  BY <1>1, <1>2, <1>4, <1>5, <1>6, <1>7 DEF RoomsInv

LEMMA NewGuestKeeps ==
    ASSUME RoomsInv, NEW c \in Caller, NewGuest(c)
    PROVE  RoomsInv'
<1> USE DEF NewGuest, Goto, Calls, Bare, roomVars, listVars
<1>1. ClientTypes'
  BY ClientAssumption DEF RoomsInv, ClientTypes, CallInv
<1>2. \A d \in Caller : CallInv(d)'
  BY ClientAssumption DEF RoomsInv, ClientTypes, CallInv, Apart, Holds
<1>3. \A q \in Room : RoomInv(q)'
  BY ClientAssumption DEF RoomsInv, ClientTypes, CallInv, RoomInv, InHand, Apart, Holds
<1>4. Apart'
  BY ClientAssumption DEF RoomsInv, ClientTypes, CallInv, RoomInv, InHand, Apart, Holds
<1>5. SeenInv'
  BY ClientAssumption DEF RoomsInv, ClientTypes, CallInv, Apart, SeenInv, Holds
<1> QED
  BY <1>1, <1>2, <1>3, <1>4, <1>5 DEF RoomsInv

LEMMA ConnectFailsKeeps ==
    ASSUME RoomsInv, NEW c \in Caller, ConnectFails(c)
    PROVE  RoomsInv'
<1> USE DEF ConnectFails, LeaveFirst, Goto, Calls, Bare, listVars
<1>1. ClientTypes'
  BY ClientAssumption DEF RoomsInv, ClientTypes, CallInv
<1>2. \A d \in Caller : CallInv(d)'
  BY ClientAssumption DEF RoomsInv, ClientTypes, CallInv, Apart, Holds
<1>3. ASSUME NEW q \in Room PROVE RoomInv(q)'
  <2> USE DEF RoomsInv, ClientTypes, CallInv, RoomInv, InHand, Apart, Holds
  <2>1. CASE q = mine[c]
    BY <2>1, ClientAssumption
  <2>2. CASE q # mine[c]
    <3>1. RoomInv(q)
      OBVIOUS
    <3>2. InHand(q)' <=> InHand(q)
      BY <2>2, NoneIsNoRoom, HasRoom
    <3> QED
      BY <2>2, <3>1, <3>2, ClientAssumption
  <2> QED
    BY <2>1, <2>2
<1>4. Apart'
  <2>1. mine[c] \in Room /\ mine[c] # None
    BY HasRoom
  <2>2. /\ \A d \in Caller, q \in Room : Holds(d, q)' => Holds(d, q)
        /\ \A d \in Caller : mine'[d] \in {mine[d], None}
    BY <2>1, ClientAssumption DEF RoomsInv, ClientTypes, Holds, Room
  <2>3. \A q \in Room : state'[q] # state[q] => q = mine[c]
    BY <2>1 DEF RoomsInv, ClientTypes
  <2>4. \A d \in Caller : mine[c] \notin batch[d]
    BY <2>1 DEF RoomsInv, ClientTypes, Apart, Holds
  <2>5. mine[c] \notin managed_centers \cup managed_guests
    BY <2>1 DEF RoomsInv, ClientTypes, Apart, Holds
  <2> QED
    BY <2>1, <2>2, <2>3, <2>4, <2>5, ClientAssumption
    DEF RoomsInv, ClientTypes, Apart, Room
<1>5. SeenInv'
  BY ClientAssumption DEF RoomsInv, ClientTypes, CallInv, Apart, SeenInv, Holds
<1> QED
  BY <1>1, <1>2, <1>3, <1>4, <1>5 DEF RoomsInv

LEMMA ConnectedKeeps ==
    ASSUME RoomsInv, NEW c \in Caller, Connected(c)
    PROVE  RoomsInv'
<1> USE DEF Connected, Goto, Calls, Bare, listVars
<1>1. ClientTypes'
  BY ClientAssumption DEF RoomsInv, ClientTypes, CallInv
<1>2. \A d \in Caller : CallInv(d)'
  BY ClientAssumption DEF RoomsInv, ClientTypes, CallInv, Apart, Holds
<1>3. \A q \in Room : RoomInv(q)'
  BY ClientAssumption DEF RoomsInv, ClientTypes, CallInv, RoomInv, InHand, Apart, Holds
<1>4. Apart'
  BY ClientAssumption DEF RoomsInv, ClientTypes, CallInv, RoomInv, InHand, Apart, Holds
<1>5. SeenInv'
  BY ClientAssumption DEF RoomsInv, ClientTypes, CallInv, Apart, SeenInv, Holds
<1> QED
  BY <1>1, <1>2, <1>3, <1>4, <1>5 DEF RoomsInv

LEMMA LeaveKeeps ==
    ASSUME RoomsInv, NEW c \in Caller, Leave(c)
    PROVE  RoomsInv'
<1> USE DEF Leave, CancelSlot, Goto, Calls, Bare, listVars
<1>1. ClientTypes'
  BY ClientAssumption DEF RoomsInv, ClientTypes, CallInv
<1>2. \A d \in Caller : CallInv(d)'
  BY ClientAssumption DEF RoomsInv, ClientTypes, CallInv, Apart, Holds
<1>3. \A q \in Room : RoomInv(q)'
  BY ClientAssumption DEF RoomsInv, ClientTypes, CallInv, RoomInv, InHand, Apart, Holds
<1>4. Apart'
  BY ClientAssumption DEF RoomsInv, ClientTypes, CallInv, RoomInv, InHand, Apart, Holds
<1>5. SeenInv'
  BY ClientAssumption DEF RoomsInv, ClientTypes, CallInv, Apart, SeenInv, Holds
<1> QED
  BY <1>1, <1>2, <1>3, <1>4, <1>5 DEF RoomsInv

LEMMA LeaveStopsKeeps ==
    ASSUME RoomsInv, NEW c \in Caller, LeaveStops(c)
    PROVE  RoomsInv'
<1> USE DEF LeaveStops, Return, Goto, Calls, Bare, listVars
<1>1. ClientTypes'
  BY ClientAssumption DEF RoomsInv, ClientTypes, CallInv
<1>2. \A d \in Caller : CallInv(d)'
  BY ClientAssumption DEF RoomsInv, ClientTypes, CallInv, Apart, Holds
<1>3. ASSUME NEW q \in Room PROVE RoomInv(q)'
  <2> USE DEF RoomsInv, ClientTypes, CallInv, RoomInv, InHand, Apart, Holds
  <2>1. CASE q = mine[c]
    BY <2>1, ClientAssumption
  <2>2. CASE q # mine[c]
    <3>1. RoomInv(q)
      OBVIOUS
    <3>2. InHand(q)' <=> InHand(q)
      BY <2>2, NoneIsNoRoom, HasRoom
    <3> QED
      BY <2>2, <3>1, <3>2, ClientAssumption
  <2> QED
    BY <2>1, <2>2
<1>4. Apart'
  <2>1. mine[c] \in Room /\ mine[c] # None
    BY HasRoom
  <2>2. /\ \A d \in Caller, q \in Room : Holds(d, q)' => Holds(d, q)
        /\ \A d \in Caller : mine'[d] \in {mine[d], None}
    BY <2>1, ClientAssumption DEF RoomsInv, ClientTypes, Holds, Room
  <2>3. \A q \in Room : state'[q] # state[q] => q = mine[c]
    BY <2>1 DEF RoomsInv, ClientTypes
  <2>4. \A d \in Caller : mine[c] \notin batch[d]
    BY <2>1 DEF RoomsInv, ClientTypes, Apart, Holds
  <2>5. mine[c] \notin managed_centers \cup managed_guests
    BY <2>1 DEF RoomsInv, ClientTypes, Apart, Holds
  <2> QED
    BY <2>1, <2>2, <2>3, <2>4, <2>5, ClientAssumption
    DEF RoomsInv, ClientTypes, Apart, Room
<1>5. SeenInv'
  BY ClientAssumption DEF RoomsInv, ClientTypes, CallInv, Apart, SeenInv, Holds
<1> QED
  BY <1>1, <1>2, <1>3, <1>4, <1>5 DEF RoomsInv

LEMMA CloseAllKeeps ==
    ASSUME RoomsInv, NEW c \in Caller, CloseAll(c)
    PROVE  RoomsInv'
<1> USE DEF CloseAll, Goto, Calls, Bare, roomVars, listVars
<1>1. ClientTypes'
  BY ClientAssumption DEF RoomsInv, ClientTypes, CallInv
<1>2. \A d \in Caller : CallInv(d)'
  BY ClientAssumption DEF RoomsInv, ClientTypes, CallInv, Apart, Holds
<1>3. \A q \in Room : RoomInv(q)'
  BY ClientAssumption DEF RoomsInv, ClientTypes, CallInv, RoomInv, InHand, Apart, Holds
<1>4. Apart'
  BY ClientAssumption DEF RoomsInv, ClientTypes, CallInv, RoomInv, InHand, Apart, Holds
<1>5. SeenInv'
  BY ClientAssumption DEF RoomsInv, ClientTypes, CallInv, Apart, SeenInv, Holds
<1> QED
  BY <1>1, <1>2, <1>3, <1>4, <1>5 DEF RoomsInv

LEMMA CloseRoomKeeps ==
    ASSUME RoomsInv, NEW c \in Caller, NEW r \in Room, CloseRoom(c, r)
    PROVE  RoomsInv'
<1> USE DEF CloseRoom, CancelSlot, Calls, Bare, listVars
<1>1. ClientTypes'
  BY ClientAssumption DEF RoomsInv, ClientTypes, CallInv
<1>2. \A d \in Caller : CallInv(d)'
  BY ClientAssumption DEF RoomsInv, ClientTypes, CallInv, Apart, Holds
<1>3. ASSUME NEW q \in Room PROVE RoomInv(q)'
  <2> USE DEF RoomsInv, ClientTypes, RoomInv, InHand
  <2>1. state[r] = "open" /\ RoomInv(r)
    BY DEF Apart
  <2>2. InHand(q)' <=> InHand(q)
    BY NoneIsNoRoom
  <2>3. CASE q = r
    BY <2>1, <2>3, ClientAssumption
  <2>4. CASE q # r
    <3>1. RoomInv(q)
      OBVIOUS
    <3> QED
      BY <2>2, <2>4, <3>1
  <2> QED
    BY <2>3, <2>4
<1>4. Apart'
  <2>1. /\ \A d \in Caller \ {c} : ~Holds(d, r)
        /\ r \notin managed_centers \cup managed_guests
    BY DEF RoomsInv, ClientTypes, Apart, Holds
  <2>2. \A d \in Caller, q \in Room : Holds(d, q)' => Holds(d, q)
    BY DEF RoomsInv, ClientTypes, Holds
  <2>3. \A q \in Room : state'[q] # state[q] => q = r
    BY DEF RoomsInv, ClientTypes
  <2>4. \A d \in Caller : mine'[d] \notin batch'[d]
    BY DEF RoomsInv, ClientTypes, Apart
  <2>5. \A d \in Caller : r \notin batch'[d]
    BY <2>1 DEF RoomsInv, ClientTypes, Holds
  <2> QED
    BY <2>1, <2>2, <2>3, <2>4, <2>5 DEF RoomsInv, ClientTypes, Apart, Holds
<1>5. SeenInv'
  <2>1. \A d \in Caller, q \in Room : Holds(d, q) => Holds(d, q)'
    BY NoneIsNoRoom DEF RoomsInv, ClientTypes, Holds
  <2>2. \A q \in Room : state[q] = "closed" => state'[q] = "closed"
    BY DEF RoomsInv, ClientTypes, Apart
  <2> QED
    BY <2>1, <2>2 DEF RoomsInv, ClientTypes, SeenInv
<1> QED
  BY <1>1, <1>2, <1>3, <1>4, <1>5 DEF RoomsInv

LEMMA CloseStopsKeeps ==
    ASSUME RoomsInv, NEW c \in Caller, CloseStops(c)
    PROVE  RoomsInv'
<1> USE DEF CloseStops, Calls, Bare, listVars
<1>1. ClientTypes'
  BY ClientAssumption DEF RoomsInv, ClientTypes, CallInv
<1>2. \A d \in Caller : CallInv(d)'
  BY ClientAssumption DEF RoomsInv, ClientTypes, CallInv, Apart, Holds
<1>3. ASSUME NEW q \in Room PROVE RoomInv(q)'
  <2> USE DEF RoomsInv, ClientTypes, CallInv, RoomInv, InHand, Apart, Holds
  <2>1. CASE q = mine[c]
    BY <2>1, ClientAssumption
  <2>2. CASE q # mine[c]
    <3>1. RoomInv(q)
      OBVIOUS
    <3>2. InHand(q)' <=> InHand(q)
      BY <2>2, NoneIsNoRoom, HasRoom
    <3> QED
      BY <2>2, <3>1, <3>2, ClientAssumption
  <2> QED
    BY <2>1, <2>2
<1>4. Apart'
  <2>1. mine[c] \in Room /\ mine[c] # None
    BY HasRoom
  <2>2. /\ \A d \in Caller, q \in Room : Holds(d, q)' => Holds(d, q)
        /\ \A d \in Caller : mine'[d] \in {mine[d], None}
    BY <2>1, ClientAssumption DEF RoomsInv, ClientTypes, Holds, Room
  <2>3. \A q \in Room : state'[q] # state[q] => q = mine[c]
    BY <2>1 DEF RoomsInv, ClientTypes
  <2>4. \A d \in Caller : mine[c] \notin batch[d]
    BY <2>1 DEF RoomsInv, ClientTypes, Apart, Holds
  <2>5. mine[c] \notin managed_centers \cup managed_guests
    BY <2>1 DEF RoomsInv, ClientTypes, Apart, Holds
  <2> QED
    BY <2>1, <2>2, <2>3, <2>4, <2>5, ClientAssumption
    DEF RoomsInv, ClientTypes, Apart, Room
<1>5. SeenInv'
  BY ClientAssumption DEF RoomsInv, ClientTypes, CallInv, Apart, SeenInv, Holds
<1> QED
  BY <1>1, <1>2, <1>3, <1>4, <1>5 DEF RoomsInv

LEMMA TakeGuestsKeeps ==
    ASSUME RoomsInv, NEW c \in Caller, TakeGuests(c)
    PROVE  RoomsInv'
<1> USE DEF TakeGuests, MoveGuests, Goto, Calls, Bare, roomVars, listVars
<1>1. ClientTypes'
  BY ClientAssumption DEF RoomsInv, ClientTypes, CallInv
<1>2. \A d \in Caller : CallInv(d)'
  BY ClientAssumption DEF RoomsInv, ClientTypes, CallInv, Apart, Holds
<1>3. \A q \in Room : RoomInv(q)'
  BY ClientAssumption DEF RoomsInv, ClientTypes, CallInv, RoomInv, InHand, Apart, Holds
<1>4. Apart'
  BY ClientAssumption DEF RoomsInv, ClientTypes, CallInv, RoomInv, InHand, Apart, Holds
<1>5. SeenInv'
  BY ClientAssumption DEF RoomsInv, ClientTypes, CallInv, Apart, SeenInv, Holds
<1> QED
  BY <1>1, <1>2, <1>3, <1>4, <1>5 DEF RoomsInv

LEMMA CloseAllReturnsKeeps ==
    ASSUME RoomsInv, NEW c \in Caller, CloseAllReturns(c)
    PROVE  RoomsInv'
<1> USE DEF CloseAllReturns, Goto, Calls, Bare, roomVars, listVars
<1>1. ClientTypes'
  BY ClientAssumption DEF RoomsInv, ClientTypes, CallInv
<1>2. \A d \in Caller : CallInv(d)'
  BY ClientAssumption DEF RoomsInv, ClientTypes, CallInv, Apart, Holds
<1>3. \A q \in Room : RoomInv(q)'
  BY ClientAssumption DEF RoomsInv, ClientTypes, CallInv, RoomInv, InHand, Apart, Holds
<1>4. Apart'
  BY ClientAssumption DEF RoomsInv, ClientTypes, CallInv, RoomInv, InHand, Apart, Holds
<1>5. SeenInv'
  <2>1. \A q \in Room : ~Holds(c, q)
    BY NoneIsNoRoom DEF Holds
  <2>2. \A d \in Caller \ {c} : call'[d] = call[d] /\ seen'[d] = seen[d]
    BY DEF RoomsInv, ClientTypes
  <2>3. \A d \in Caller, q \in Room : Holds(d, q) => Holds(d, q)' /\ d # c
    BY <2>1 DEF Holds
  <2>4. call'[c] = "idle"
    BY DEF RoomsInv, ClientTypes
  <2> QED
    BY <2>2, <2>3, <2>4 DEF RoomsInv, ClientTypes, SeenInv
<1> QED
  BY <1>1, <1>2, <1>3, <1>4, <1>5 DEF RoomsInv

LEMMA TaskStopsKeeps ==
    ASSUME RoomsInv, NEW r \in Room, TaskStops(r)
    PROVE  RoomsInv'
<1> USE DEF TaskStops, Bare, callVars, listVars
<1>1. ClientTypes'
  BY DEF RoomsInv, ClientTypes
<1>2. ASSUME NEW c \in Caller PROVE CallInv(c)'
  <2>1. task[r] = TRUE /\ task'[r] = FALSE
    BY DEF RoomsInv, ClientTypes
  <2>2. \A q \in Room : q # r => task'[q] = task[q]
    BY DEF RoomsInv, ClientTypes
  <2>3. CallInv(c) /\ mine[c] \in Room \cup {None}
    BY DEF RoomsInv, ClientTypes
  <2> QED
    BY <2>1, <2>2, <2>3 DEF CallInv
<1>3. \A q \in Room : RoomInv(q)'
  BY DEF RoomsInv, ClientTypes, RoomInv, InHand
<1>4. Apart' /\ SeenInv'
  BY DEF RoomsInv, ClientTypes, Apart, SeenInv, Holds
<1> QED
  BY <1>1, <1>2, <1>3, <1>4 DEF RoomsInv

LEMMA CallerCancelsKeeps ==
    ASSUME RoomsInv, setting \in Setting, NEW t \in Token, CallerCancels(t)
    PROVE  RoomsInv'
<1> USE DEF CallerCancels, Bare, callVars, listVars, roomVars
<1>1. ClientTypes'
  BY ClientAssumption DEF RoomsInv, ClientTypes
<1>2. \A c \in Caller : CallInv(c)'
  BY DEF RoomsInv, CallInv
<1>3. \A q \in Room : RoomInv(q)'
  BY DEF RoomsInv, RoomInv, InHand
<1>4. Apart' /\ SeenInv'
  BY DEF RoomsInv, Apart, SeenInv, Holds
<1> QED
  BY <1>1, <1>2, <1>3, <1>4 DEF RoomsInv

LEMMA RoomsStutter ==
    ASSUME RoomsInv, UNCHANGED <<callVars, listVars, roomVars, cancelled>>
    PROVE  RoomsInv'
<1> USE DEF Bare, callVars, listVars, roomVars
<1>1. ClientTypes'
  BY DEF RoomsInv, ClientTypes
<1>2. \A c \in Caller : CallInv(c)'
  BY DEF RoomsInv, CallInv
<1>3. \A q \in Room : RoomInv(q)'
  BY DEF RoomsInv, RoomInv, InHand
<1>4. Apart' /\ SeenInv'
  BY DEF RoomsInv, Apart, SeenInv, Holds
<1> QED
  BY <1>1, <1>2, <1>3, <1>4 DEF RoomsInv

\* To the cache a step of the client is a step of the cache, or nothing.
LEMMA NextIsRelayStep == [Next]_vars => RelayStep \/ UNCHANGED relayVars
<1> SUFFICES ASSUME [Next]_vars PROVE RelayStep \/ UNCHANGED relayVars
  OBVIOUS
<1>1. ASSUME NEW c \in Caller, Proceed(c) PROVE RelayStep \/ UNCHANGED relayVars
  BY <1>1 DEF Proceed, ResolveNodes, KeyConflict, StartServer, StartFails,
     NetworkStarts, Push, NewGuest, ConnectFails, Connected, Leave, LeaveStops,
     CloseRoom, CloseStops, TakeGuests, CloseAllReturns, RelayStep
<1>2. ASSUME NEW c \in Caller, CloseAll(c) PROVE UNCHANGED relayVars
  BY <1>2 DEF CloseAll
<1>3. ASSUME NEW c \in Caller, NEW t \in Token, CreateRoom(c, t) \/ JoinRoom(c, t)
      PROVE  RelayStep
  BY <1>3 DEF CreateRoom, JoinRoom, Begin, RelayStep
<1>4. ASSUME NEW r \in Room, TaskStops(r) PROVE UNCHANGED relayVars
  BY <1>4 DEF TaskStops
<1>5. ASSUME NEW t \in Token, CallerCancels(t) PROVE UNCHANGED relayVars
  BY <1>5 DEF CallerCancels
<1>6. CASE TimePasses
  BY <1>6 DEF TimePasses, RelayStep
<1>7. CASE UNCHANGED vars
  BY <1>7 DEF vars
<1> QED
  BY <1>1, <1>2, <1>3, <1>4, <1>5, <1>6, <1>7 DEF Next

ClientInv == RelayInv /\ RoomsInv

LEMMA RelayStutter == RelayInv /\ UNCHANGED relayVars => RelayInv'
BY DEF RelayInv, relayVars, RelayTypeOK, Good, ServedFresh, ListUsable

LEMMA NextKeeps == ClientInv /\ [Next]_vars => ClientInv'
<1> SUFFICES ASSUME ClientInv, [Next]_vars PROVE ClientInv'
  OBVIOUS
<1> USE DEF ClientInv
<1>1. RelayInv'
  BY NextIsRelayStep, RelayStepKeeps, RelayStutter
<1>2. setting \in Setting
  BY DEF RelayInv, RelayTypeOK
<1>3. ASSUME NEW c \in Caller, Proceed(c) PROVE RoomsInv'
  <2>1. CASE ResolveNodes(c)
    BY <2>1, RoomsStutter DEF ResolveNodes
  <2>2. CASE KeyConflict(c) \/ StartServer(c) \/ StartFails(c) \/ NetworkStarts(c)
    BY <2>2, KeyConflictKeeps, StartServerKeeps, StartFailsKeeps, NetworkStartsKeeps
  <2>3. CASE Push(c) \/ NewGuest(c) \/ ConnectFails(c) \/ Connected(c)
    BY <2>3, PushKeeps, NewGuestKeeps, ConnectFailsKeeps, ConnectedKeeps
  <2>4. CASE Leave(c) \/ LeaveStops(c) \/ (\E r \in Room : CloseRoom(c, r))
    BY <2>4, LeaveKeeps, LeaveStopsKeeps, CloseRoomKeeps
  <2>5. CASE CloseStops(c) \/ TakeGuests(c) \/ CloseAllReturns(c)
    BY <2>5, CloseStopsKeeps, TakeGuestsKeeps, CloseAllReturnsKeeps
  <2> QED
    BY <1>3, <2>1, <2>2, <2>3, <2>4, <2>5 DEF Proceed
<1>4. ASSUME NEW c \in Caller, CloseAll(c) PROVE RoomsInv'
  BY <1>4, CloseAllKeeps
<1>5. ASSUME NEW c \in Caller, NEW t \in Token, CreateRoom(c, t) \/ JoinRoom(c, t)
      PROVE  RoomsInv'
  BY <1>2, <1>5, BeginKeeps
<1>6. ASSUME NEW r \in Room, TaskStops(r) PROVE RoomsInv'
  BY <1>6, TaskStopsKeeps
<1>7. ASSUME NEW t \in Token, CallerCancels(t) PROVE RoomsInv'
  BY <1>2, <1>7, CallerCancelsKeeps
<1>8. CASE TimePasses
  <2>1. RoomsInv /\ UNCHANGED <<callVars, listVars, roomVars, cancelled>>
    BY <1>8 DEF TimePasses
  <2> QED
    BY <1>1, <2>1, RoomsStutter
<1>9. CASE UNCHANGED vars
  <2>1. RoomsInv /\ UNCHANGED <<callVars, listVars, roomVars, cancelled>>
    BY <1>9 DEF vars
  <2> QED
    BY <1>1, <2>1, RoomsStutter
<1> QED
  BY <1>1, <1>3, <1>4, <1>5, <1>6, <1>7, <1>8, <1>9 DEF Next

LEMMA ClientInvariant == Spec => []ClientInv
<1>1. Init => ClientInv
  BY RelayInitInv, RoomsInit DEF Init, ClientInv
<1> QED
  BY <1>1, NextKeeps, PTL DEF Spec

-----------------------------------------------------------------------------
\* Whatever calls overlap, every variable of the client keeps its type.
THEOREM ClientTypeCorrect == Spec => []TypeOK
<1>1. ClientInv => TypeOK
  BY DEF ClientInv, RelayInv, RoomsInv, ClientTypes, TypeOK
<1> QED
  BY <1>1, ClientInvariant, PTL

\* However calls interleave between reading the cache and writing it, no call is
\* served a list that was fetched a TTL or more before it began.
THEOREM CacheServesFresh == Spec => []ServedFresh
<1>1. ClientInv => ServedFresh
  BY DEF ClientInv, RelayInv
<1> QED
  BY <1>1, ClientInvariant, PTL

\* However the node service fails, a call gets nodes to connect to.
THEOREM NodesAlwaysUsable == Spec => []ListUsable
<1>1. ClientInv => ListUsable
  BY DEF ClientInv, RelayInv
<1> QED
  BY <1>1, ClientInvariant, PTL

\* Only a start() that failed leaves anything running that the client forgets.
THEOREM OnlyFailedStartForgotten == Spec => []NothingForgotten
<1>1. ASSUME RoomsInv, NEW r \in Room, ~InHand(r)
      PROVE  /\ state[r] # "open"
             /\ network[r] \/ (task[r] /\ token[r] \notin cancelled)
                     => kind[r] = "center" /\ state[r] = "failed"
  <2>1. /\ RoomInv(r) /\ kind[r] \in {"center", "guest"}
        /\ state[r] \in {"unused", "opening", "open", "failed", "closing", "closed"}
    BY <1>1 DEF RoomsInv, ClientTypes
  <2> QED
    BY <1>1, <2>1 DEF RoomInv, Bare
<1>2. ClientInv => NothingForgotten
  BY <1>1 DEF ClientInv, NothingForgotten
<1> QED
  BY <1>2, ClientInvariant, PTL

\* When close_all() returns, what it found is closed, or in the hands of another
\* close_all().
THEOREM CloseAllIsComplete == Spec => CloseAllCovers
<1> DEFINE Covers(c) ==
        call[c] = "guests" /\ call'[c] = "idle" =>
            \A r \in seen[c] :
                \/ state[r] = "closed"
                \/ \E d \in Caller \ {c} : r \in batch[d] \/ mine[d] = r
<1>1. ASSUME ClientInv, NEW c \in Caller, call[c] = "guests", call'[c] = "idle",
             [Next]_vars
      PROVE  mine[c] = None /\ batch[c] = {}
  <2> USE DEF ClientInv, RoomsInv, ClientTypes
  <2>1. ASSUME NEW d \in Caller, Proceed(d) \/ CloseAll(d), d # c PROVE call'[c] = call[c]
    <3>1. (\E x : call' = [call EXCEPT ![d] = x]) \/ call' = call
      BY <2>1 DEF Proceed, CloseAll, ResolveNodes, KeyConflict, StartServer, StartFails,
         NetworkStarts, Push, NewGuest, ConnectFails, Connected, Leave, LeaveStops,
         CloseRoom, CloseStops, TakeGuests, CloseAllReturns, Goto, Return, LeaveFirst,
         callVars
    <3>2. call \in [Caller -> Calls]
      BY <1>1
    <3>3. (\E x : call' = [call EXCEPT ![d] = x]) => call'[c] = call[c]
      BY <2>1, <3>2
    <3> QED
      BY <3>1, <3>3
  <2>2. ASSUME NEW d \in Caller, NEW t \in Token, CreateRoom(d, t) \/ JoinRoom(d, t)
        PROVE  d # c /\ call'[c] = call[c]
    BY <1>1, <2>2 DEF CreateRoom, JoinRoom, Begin, Goto
  <2>3. ASSUME Proceed(c) \/ CloseAll(c) PROVE CloseAllReturns(c) \/ call'[c] = call[c]
    BY <1>1, <2>3 DEF Proceed, CloseAll, ResolveNodes, KeyConflict, StartServer,
       StartFails, NetworkStarts, Push, NewGuest, ConnectFails, Connected, Leave,
       LeaveStops, CloseRoom, CloseStops, TakeGuests, callVars
  <2>4. ASSUME NEW r \in Room, TaskStops(r) PROVE call'[c] = call[c]
    BY <2>4 DEF TaskStops, callVars
  <2>5. ASSUME NEW t \in Token, CallerCancels(t) PROVE call'[c] = call[c]
    BY <2>5 DEF CallerCancels, callVars
  <2>6. TimePasses \/ UNCHANGED vars => call'[c] = call[c]
    BY DEF TimePasses, vars, callVars
  <2>7. CloseAllReturns(c)
    BY <1>1, <2>1, <2>2, <2>3, <2>4, <2>5, <2>6 DEF Next
  <2> QED
    BY <2>7 DEF CloseAllReturns
<1>2. ASSUME ClientInv, [Next]_vars, NEW c \in Caller PROVE Covers(c)
  <2> SUFFICES ASSUME call[c] = "guests", call'[c] = "idle", NEW r \in seen[c]
               PROVE  \/ state[r] = "closed"
                      \/ \E d \in Caller \ {c} : r \in batch[d] \/ mine[d] = r
    OBVIOUS
  <2>1. mine[c] = None /\ batch[c] = {}
    BY <1>1, <1>2
  <2>2. r \in Room /\ r # None
    BY <1>2, NoneIsNoRoom DEF ClientInv, RoomsInv, ClientTypes
  <2> QED
    BY <1>2, <2>1, <2>2 DEF ClientInv, RoomsInv, SeenInv, Holds
<1>3. ClientInv /\ [Next]_vars => [\A c \in Caller : Covers(c)]_vars
  BY <1>2
<1> QED
  BY <1>3, ClientInvariant, PTL DEF Spec, CloseAllCovers

\* No call cancels a token but one that begins to close an open room that has it.
THEOREM OnlyClosingARoomCancels == Spec => OnlyClosingCancels
<1> DEFINE Closing ==
        \A t \in cancelled' \ cancelled : callVars' # callVars =>
            \E r \in Room :
                token[r] = t /\ state[r] = "open" /\ state'[r] = "closing"
<1>1. ASSUME ClientInv, [Next]_vars PROVE Closing
  <2> USE DEF ClientInv, RoomsInv, ClientTypes
  <2>1. ASSUME NEW c \in Caller, NEW r \in Room, CloseRoom(c, r) PROVE Closing
    BY <1>1, <2>1 DEF CloseRoom, CancelSlot, Apart, RoomInv
  <2>2. ASSUME NEW c \in Caller, Leave(c) PROVE cancelled' = cancelled
    BY <1>1, <2>2 DEF Leave, CancelSlot, CallInv
  <2>3. ASSUME NEW c \in Caller, Proceed(c), ~Leave(c), \A r \in Room : ~CloseRoom(c, r)
        PROVE  cancelled' = cancelled
    BY <2>3 DEF Proceed, ResolveNodes, KeyConflict, StartServer, StartFails,
       NetworkStarts, Push, NewGuest, ConnectFails, Connected, LeaveStops, CloseStops,
       TakeGuests, CloseAllReturns
  <2>4. ASSUME NEW c \in Caller, CloseAll(c) PROVE cancelled' = cancelled
    BY <2>4 DEF CloseAll
  <2>5. ASSUME NEW c \in Caller, NEW t \in Token, CreateRoom(c, t) \/ JoinRoom(c, t)
        PROVE  cancelled' = cancelled
    BY <2>5 DEF CreateRoom, JoinRoom, Begin
  <2>6. ASSUME NEW r \in Room, TaskStops(r) PROVE cancelled' = cancelled
    BY <2>6 DEF TaskStops
  <2>7. ASSUME NEW t \in Token, CallerCancels(t) PROVE callVars' = callVars
    BY <2>7 DEF CallerCancels, callVars
  <2>8. TimePasses \/ UNCHANGED vars => cancelled' = cancelled
    BY DEF TimePasses, vars
  <2> QED
    BY <1>1, <2>1, <2>2, <2>3, <2>4, <2>5, <2>6, <2>7, <2>8 DEF Next
<1>2. ClientInv /\ [Next]_vars => [Closing]_vars
  BY <1>1
<1> QED
  BY <1>2, ClientInvariant, PTL DEF Spec, OnlyClosingCancels
=============================================================================
