------------------------------- MODULE Client -------------------------------
(***************************************************************************)
(* ScaffoldingClient: create_room(), join_room() and close_all(), called   *)
(* by several tasks at once, and the rooms they open, fail to open and     *)
(* close.                                                                  *)
(*                                                                         *)
(* Of a room (a ScaffoldingCenter or a ScaffoldingGuest) the model keeps   *)
(* what a client can leave behind: its EasyTier instance and its task (the *)
(* center's server, the guest's heartbeat), which runs until its token is  *)
(* cancelled.  Modules Center and Guest have the rest.  A room is pushed   *)
(* once, so that the lists of rooms are sets.                              *)
(***************************************************************************)
EXTENDS Relay

CONSTANTS
    Token,          \* tokens the application passes, perhaps to several calls
    None,           \* no token, no room
    MaxRooms        \* bound: rooms made; setting.rooms bounds them further,
                    \* setting.calls the calls, setting.tokens the tokens they
                    \* get and setting.cancels those the application cancels

ASSUME ClientAssumption ==
    /\ MaxRooms \in Nat /\ None \notin Token \cup Nat
    /\ \A s \in Setting :
        /\ s.rooms \subseteq 1..MaxRooms
        /\ s.calls \subseteq {"create", "join", "close"} /\ s.tokens \subseteq Token
        /\ s.cancels \subseteq Token

Room == 1..MaxRooms

VARIABLES
    call,           \* per caller, where its call is
    mine,           \* per caller, the room it opens or closes
    batch,          \* per caller, the rooms close_all() has taken
    seen,           \* history: the rooms managed as its close_all() began
    managed_centers,
    managed_guests,
    kind,           \* of each room: "center" or "guest"
    state,          \* "unused", "opening", "open", "failed", "closing", "closed"
    token,          \* the token its task watches
    slot,           \* its server_ct or heartbeat_ct
    task,           \* does its task run?
    network,        \* does its EasyTier instance exist?
    cancelled       \* the tokens that are cancelled

callVars == <<call, mine, batch, seen>>
listVars == <<managed_centers, managed_guests>>
roomVars == <<kind, state, token, slot, task, network>>

vars == <<relayVars, callVars, listVars, roomVars, cancelled>>

Calls == {"idle", "create", "start", "join", "connect", "leave", "stop", "push",
          "centers", "guests"}

TypeOK ==
    /\ RelayTypeOK
    /\ call \in [Caller -> Calls]
    /\ mine \in [Caller -> Room \cup {None}]
    /\ batch \in [Caller -> SUBSET Room] /\ seen \in [Caller -> SUBSET Room]
    /\ managed_centers \in SUBSET Room /\ managed_guests \in SUBSET Room
    /\ kind \in [Room -> {"center", "guest"}]
    /\ state \in [Room -> {"unused", "opening", "open", "failed", "closing",
                           "closed"}]
    /\ token \in [Room -> Token \cup {None}]
    /\ slot \in [Room -> Token \cup {None}]
    /\ task \in [Room -> BOOLEAN] /\ network \in [Room -> BOOLEAN]
    /\ cancelled \in SUBSET Token

Init ==
    /\ RelayInit
    /\ call = [c \in Caller |-> "idle"]
    /\ mine = [c \in Caller |-> None]
    /\ batch = [c \in Caller |-> {}] /\ seen = [c \in Caller |-> {}]
    /\ managed_centers = {} /\ managed_guests = {}
    /\ kind = [r \in Room |-> "center"]
    /\ state = [r \in Room |-> "unused"]
    /\ token = [r \in Room |-> None] /\ slot = [r \in Room |-> None]
    /\ task = [r \in Room |-> FALSE] /\ network = [r \in Room |-> FALSE]
    /\ cancelled = {}

-----------------------------------------------------------------------------
(* What create_room() and join_room() share.                               *)

Goto(c, place) == call' = [call EXCEPT ![c] = place]

\* Both resolve the relay nodes first.  Rooms are numbered as calls begin.
Begin(c, what, place, t) ==
    /\ call[c] = "idle" /\ place \in setting.calls /\ t \in setting.tokens
    /\ Resolve(c)
    /\ Goto(c, place)
    /\ \E r \in setting.rooms :
        /\ state[r] = "unused" /\ \A q \in 1..(r - 1) : state[q] # "unused"
        /\ mine' = [mine EXCEPT ![c] = r]
        /\ kind' = [kind EXCEPT ![r] = what]
        /\ state' = [state EXCEPT ![r] = "opening"]
        /\ token' = [token EXCEPT ![r] = t]
    /\ UNCHANGED <<batch, seen, listVars, slot, task, network, cancelled>>

ResolveNodes(c) ==
    /\ call[c] \in {"create", "join"}
    /\ Resolving(c)
    /\ UNCHANGED <<callVars, listVars, roomVars, cancelled>>

\* The call returns.
Return(c) ==
    /\ Goto(c, "idle")
    /\ mine' = [mine EXCEPT ![c] = None]

-----------------------------------------------------------------------------
(* create_room().                                                          *)

CreateRoom(c, t) == Begin(c, "center", "create", t)

\* A custom protocol has the key of another: start() has not begun anything.
KeyConflict(c) ==
    /\ call[c] = "create"
    /\ TakeList(c)
    /\ state' = [state EXCEPT ![mine[c]] = "failed"]
    /\ Return(c)
    /\ UNCHANGED <<batch, seen, listVars, kind, token, slot, task, network,
                   cancelled>>

\* start() stores the token and spawns the server task, then starts EasyTier.
StartServer(c) ==
    /\ call[c] = "create"
    /\ TakeList(c)
    /\ slot' = [slot EXCEPT ![mine[c]] = token[mine[c]]]
    /\ task' = [task EXCEPT ![mine[c]] = TRUE]
    /\ Goto(c, "start")
    /\ UNCHANGED <<mine, batch, seen, listVars, kind, state, token, network,
                   cancelled>>

\* EasyTier's error is returned; of the instance there may be one.  The room is
\* dropped as it is: the server task goes on.
StartFails(c) ==
    /\ call[c] = "start"
    /\ \E b \in BOOLEAN : network' = [network EXCEPT ![mine[c]] = b]
    /\ state' = [state EXCEPT ![mine[c]] = "failed"]
    /\ Return(c)
    /\ UNCHANGED <<relayVars, batch, seen, listVars, kind, token, slot, task,
                   cancelled>>

NetworkStarts(c) ==
    /\ call[c] = "start"
    /\ network' = [network EXCEPT ![mine[c]] = TRUE]
    /\ state' = [state EXCEPT ![mine[c]] = "open"]
    /\ Goto(c, "push")
    /\ UNCHANGED <<relayVars, mine, batch, seen, listVars, kind, token,
                   slot, task, cancelled>>

Push(c) ==
    /\ call[c] = "push"
    /\ IF kind[mine[c]] = "center"
       THEN /\ managed_centers' = managed_centers \cup {mine[c]}
            /\ UNCHANGED managed_guests
       ELSE /\ managed_guests' = managed_guests \cup {mine[c]}
            /\ UNCHANGED managed_centers
    /\ Return(c)
    /\ UNCHANGED <<relayVars, batch, seen, roomVars, cancelled>>

-----------------------------------------------------------------------------
(* join_room().                                                            *)

JoinRoom(c, t) == Begin(c, "guest", "join", t)

NewGuest(c) ==
    /\ call[c] = "join"
    /\ TakeList(c)
    /\ Goto(c, "connect")
    /\ UNCHANGED <<mine, batch, seen, listVars, roomVars, cancelled>>

\* Mutant: the error is returned at once.
ReturnError(c) == Return(c)

LeaveFirst(c) == Goto(c, "leave") /\ UNCHANGED mine

\* Whatever connect() got to, its network may exist, its heartbeat does not.
ConnectFails(c) ==
    /\ call[c] = "connect"
    /\ \E b \in BOOLEAN : network' = [network EXCEPT ![mine[c]] = b]
    /\ state' = [state EXCEPT ![mine[c]] = "failed"]
    /\ LeaveFirst(c)
    /\ UNCHANGED <<relayVars, batch, seen, listVars, kind, token, slot, task,
                   cancelled>>

Connected(c) ==
    /\ call[c] = "connect"
    /\ network' = [network EXCEPT ![mine[c]] = TRUE]
    /\ task' = [task EXCEPT ![mine[c]] = TRUE]
    /\ slot' = [slot EXCEPT ![mine[c]] = token[mine[c]]]
    /\ state' = [state EXCEPT ![mine[c]] = "open"]
    /\ Goto(c, "push")
    /\ UNCHANGED <<relayVars, mine, batch, seen, listVars, kind, token,
                   cancelled>>

-----------------------------------------------------------------------------
(* Closing: ScaffoldingCenter::close() and ScaffoldingGuest::leave() both  *)
(* cancel the token in their slot, if any, and then stop EasyTier.         *)

\* Mutant: the token the room was given is cancelled, whether stored or not.
CancelGiven(r) ==
    /\ slot' = [slot EXCEPT ![r] = None]
    /\ cancelled' = cancelled \cup ({token[r]} \ {None})

\* Mutant: the token is dropped and not cancelled.
DropSlot(r) == slot' = [slot EXCEPT ![r] = None] /\ UNCHANGED cancelled

\* Mutant: what is in the slot is cancelled, token or none.
CancelAnything(r) ==
    /\ slot' = [slot EXCEPT ![r] = None]
    /\ cancelled' = cancelled \cup {slot[r]}

CancelSlot(r) ==
    /\ slot' = [slot EXCEPT ![r] = None]
    /\ cancelled' = cancelled \cup ({slot[r]} \ {None})

\* join_room() cleans up after a connect() that failed.
Leave(c) ==
    /\ call[c] = "leave"
    /\ CancelSlot(mine[c])
    /\ Goto(c, "stop")
    /\ UNCHANGED <<relayVars, mine, batch, seen, listVars, kind, state, token,
                   task, network>>

LeaveStops(c) ==
    /\ call[c] = "stop"
    /\ network' = [network EXCEPT ![mine[c]] = FALSE]
    /\ Return(c)
    /\ UNCHANGED <<relayVars, batch, seen, listVars, kind, state, token, slot,
                   task, cancelled>>

\* close_all() takes the centers, closes them, then takes the guests.
CloseAll(c) ==
    /\ call[c] = "idle" /\ "close" \in setting.calls
    /\ Goto(c, "centers")
    /\ batch' = [batch EXCEPT ![c] = managed_centers]
    /\ seen' = [seen EXCEPT ![c] = managed_centers \cup managed_guests]
    /\ managed_centers' = {}
    /\ UNCHANGED <<relayVars, mine, managed_guests, roomVars, cancelled>>

CloseRoom(c, r) ==
    /\ call[c] \in {"centers", "guests"} /\ mine[c] = None /\ r \in batch[c]
    /\ batch' = [batch EXCEPT ![c] = @ \ {r}]
    /\ mine' = [mine EXCEPT ![c] = r]
    /\ state' = [state EXCEPT ![r] = "closing"]
    /\ CancelSlot(r)
    /\ UNCHANGED <<relayVars, call, seen, listVars, kind, token, task, network>>

CloseStops(c) ==
    /\ call[c] \in {"centers", "guests"} /\ mine[c] # None
    /\ network' = [network EXCEPT ![mine[c]] = FALSE]
    /\ state' = [state EXCEPT ![mine[c]] = "closed"]
    /\ mine' = [mine EXCEPT ![c] = None]
    /\ UNCHANGED <<relayVars, call, batch, seen, listVars, kind, token, slot,
                   task, cancelled>>

\* Mutant: only the centers are closed, and the guests forgotten.
ForgetGuests(c) == managed_guests' = {} /\ UNCHANGED <<batch, managed_centers>>

MoveGuests(c) ==
    /\ batch' = [batch EXCEPT ![c] = managed_guests]
    /\ managed_guests' = {} /\ UNCHANGED managed_centers

TakeGuests(c) ==
    /\ call[c] = "centers" /\ mine[c] = None /\ batch[c] = {}
    /\ MoveGuests(c)
    /\ Goto(c, "guests")
    /\ UNCHANGED <<relayVars, mine, seen, roomVars, cancelled>>

CloseAllReturns(c) ==
    /\ call[c] = "guests" /\ mine[c] = None /\ batch[c] = {}
    /\ Goto(c, "idle")
    /\ seen' = [seen EXCEPT ![c] = {}]
    /\ UNCHANGED <<relayVars, mine, batch, listVars, roomVars, cancelled>>

-----------------------------------------------------------------------------
(* The surroundings.                                                       *)

\* The server or the heartbeat sees that its token is cancelled.
TaskStops(r) ==
    /\ task[r] /\ token[r] \in cancelled
    /\ task' = [task EXCEPT ![r] = FALSE]
    /\ UNCHANGED <<relayVars, callVars, listVars, kind, state, token, slot,
                   network, cancelled>>

CallerCancels(t) ==
    /\ t \in setting.cancels
    /\ cancelled' = cancelled \cup {t}
    /\ UNCHANGED <<relayVars, callVars, listVars, roomVars>>

TimePasses == Tick /\ UNCHANGED <<callVars, listVars, roomVars, cancelled>>

Proceed(c) ==
    \/ ResolveNodes(c)
    \/ KeyConflict(c) \/ StartServer(c) \/ StartFails(c) \/ NetworkStarts(c)
    \/ Push(c) \/ NewGuest(c) \/ ConnectFails(c) \/ Connected(c)
    \/ Leave(c) \/ LeaveStops(c)
    \/ (\E r \in Room : CloseRoom(c, r)) \/ CloseStops(c)
    \/ TakeGuests(c) \/ CloseAllReturns(c)

Next ==
    \/ \E c \in Caller : Proceed(c) \/ CloseAll(c)
    \/ \E c \in Caller, t \in Token : CreateRoom(c, t) \/ JoinRoom(c, t)
    \/ \E r \in Room : TaskStops(r)
    \/ \E t \in Token : CallerCancels(t)
    \/ TimePasses

Spec == Init /\ [][Next]_vars

\* A call goes on: what it waits for has a time limit (10 s a request, 30 s to
\* start or discover), and the lists' locks are never held over an await.
FairSpec ==
    /\ Spec
    /\ \A c \in Caller : WF_vars(Proceed(c))
    /\ \A r \in Room : WF_vars(TaskStops(r))

-----------------------------------------------------------------------------
\* A call has the room in hand, or close_all() can still find it.
InHand(r) ==
    \/ \E c \in Caller : mine[c] = r \/ r \in batch[c]
    \/ r \in managed_centers \cup managed_guests

\* No room that is open gets out of the client's hands, whatever calls overlap,
\* and of all that fails only a start() that failed leaves something running: a
\* join_room() that failed and a room that was closed have no EasyTier instance,
\* and their task has been told to stop.
NothingForgotten ==
    \A r \in Room : ~InHand(r) =>
        /\ state[r] # "open"
        /\ network[r] \/ (task[r] /\ token[r] \notin cancelled)
                => kind[r] = "center" /\ state[r] = "failed"

\* When close_all() returns, each room that was managed as it began is closed,
\* or another close_all() has taken it, and may still be at it.
CloseAllCovers ==
    [][\A c \in Caller : call[c] = "guests" /\ call'[c] = "idle" =>
        \A r \in seen[c] :
            \/ state[r] = "closed"
            \/ \E d \in Caller \ {c} : r \in batch[d] \/ mine[d] = r]_vars

\* A call cancels a token only as it begins to close an open room that has it:
\* a join_room() or create_room() that fails, and a room closed already, do not
\* stop the rooms that were given the same token.  (Closing an open one does.)
OnlyClosingCancels ==
    [][\A t \in cancelled' \ cancelled : callVars' # callVars =>
        \E r \in Room :
            token[r] = t /\ state[r] = "open" /\ state'[r] = "closing"]_vars

\* close_all() closes every room it finds, and their tasks end.
CloseAllCloses ==
    \A r \in Room :
        (\E c \in Caller : call[c] = "centers" /\ r \in seen[c])
            ~> state[r] = "closed" /\ ~task[r] /\ ~network[r]
=============================================================================
