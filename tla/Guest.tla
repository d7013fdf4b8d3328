------------------------------- MODULE Guest -------------------------------
(***************************************************************************)
(* One ScaffoldingGuest: connect() with its retries, the heartbeat tasks,  *)
(* map_minecraft_port(), leave() and the connection_lost channel.          *)
(*                                                                         *)
(* A request holds the tcp mutex from writing to the end of its read, so   *)
(* sending and its outcome are one action here; module TcpClient has what  *)
(* happens inside.  The n-th EasyTier instance is the number n, and so is  *)
(* what was reached through it: a stream, a center, an address.            *)
(***************************************************************************)
EXTENDS Naturals

CONSTANTS
    Token,          \* the tokens callers pass to connect()
    None,           \* no token
    Retries,        \* attempts over the port forward (10 in the code)
    MaxConnects,    \* bound: EasyTier instances started
    Liberties       \* what the application does that join_room does not:
                    \* "retry" a failed connect() without leave(), or
                    \* "overlap" a connect() with a leave()

ASSUME GuestAssumption ==
    /\ None \notin Token
    /\ Retries \in Nat \ {0} /\ MaxConnects \in Nat
    /\ Liberties \subseteq {"retry", "overlap"}

VARIABLES
    \* EasyTierManager
    easy_tier,      \* instance_id, 0 for None
    ready,          \* is that instance ready?
    networks,       \* the instances that exist
    started,        \* how many have been started
    \* ScaffoldingGuest
    stream,         \* the instance the TCP stream goes through, 0 for None
    alive,          \* neither end nor network has broken it
    center,         \* the instance the center was discovered on, 0 for None
    use_port_forward,
    minecraft,      \* the instance of the cached Minecraft address, 0 for None
    heartbeat_ct,   \* the slot of the heartbeat's token
    cancelled,      \* the tokens that are cancelled
    \* connect() or map_minecraft_port()
    stage,          \* where the call is
    token,          \* the token connect() was given
    tries,          \* 0: direct, n: n-th attempt over the port forward
    mapped,         \* what map_minecraft_port() returned since connect(), or 0
    \* leave()
    leaving,        \* where the call is
    left,           \* has leave() returned since the last connect() began?
    \* the heartbeat tasks, one per started instance
    beat,           \* "unborn", "sleeping", "sending" or "ended"
    beat_ct,        \* the token the task watches
    \* connection_lost_tx
    lost,           \* the value in the watch channel
    subscribed,     \* is there a receiver?
    unseen          \* is the receiver woken?

networkVars == <<easy_tier, ready, networks, started>>
streamVars  == <<stream, alive>>
roomVars    == <<center, use_port_forward, minecraft>>
callVars    == <<stage, token, tries, mapped>>
leaveVars   == <<leaving, left>>
beatVars    == <<beat, beat_ct>>
lostVars    == <<lost, subscribed, unseen>>

vars == <<networkVars, streamVars, roomVars, heartbeat_ct, cancelled, callVars,
          leaveVars, beatVars, lostVars>>

Instance == 1..MaxConnects

TypeOK ==
    /\ easy_tier \in 0..MaxConnects /\ ready \in BOOLEAN
    /\ networks \in SUBSET Instance /\ started \in 0..MaxConnects
    /\ stream \in 0..MaxConnects /\ alive \in BOOLEAN
    /\ center \in 0..MaxConnects /\ use_port_forward \in BOOLEAN
    /\ minecraft \in 0..MaxConnects
    /\ heartbeat_ct \in Token \cup {None} /\ cancelled \in SUBSET Token
    /\ stage \in {"idle", "starting", "discovering", "connecting", "pinging",
                  "negotiating", "forwarding", "spawning", "storing",
                  "asking", "placing"}
    /\ token \in Token \cup {None}
    /\ tries \in 0..Retries
    /\ mapped \in 0..MaxConnects
    /\ leaving \in {"no", "disconnect", "stop"} /\ left \in BOOLEAN
    /\ beat \in [Instance -> {"unborn", "sleeping", "sending", "ended"}]
    /\ beat_ct \in [Instance -> Token \cup {None}]
    /\ lost \in BOOLEAN /\ subscribed \in BOOLEAN /\ unseen \in BOOLEAN

Init ==
    /\ easy_tier = 0 /\ ready = FALSE /\ networks = {} /\ started = 0
    /\ stream = 0 /\ alive = FALSE
    /\ center = 0 /\ use_port_forward = FALSE /\ minecraft = 0
    /\ heartbeat_ct = None /\ cancelled = {}
    /\ stage = "idle" /\ token = None /\ tries = 0 /\ mapped = 0
    /\ leaving = "no" /\ left = TRUE
    /\ beat = [i \in Instance |-> "unborn"]
    /\ beat_ct = [i \in Instance |-> None]
    /\ lost = FALSE /\ subscribed = FALSE /\ unseen = FALSE

-----------------------------------------------------------------------------
(* connection_lost_tx.send(true): tokio stores nothing without a receiver, *)
(* and wakes a receiver whether or not the value changes.                  *)

Lose ==
    /\ lost' = (lost \/ subscribed)
    /\ unseen' = (unseen \/ subscribed)
    /\ UNCHANGED subscribed

\* connection_lost_rx(): what is in the channel counts as seen.
Subscribe ==
    /\ ~subscribed
    /\ subscribed' = TRUE /\ unseen' = FALSE
    /\ UNCHANGED <<networkVars, streamVars, roomVars, heartbeat_ct, cancelled,
                   callVars, leaveVars, beatVars, lost>>

Unsubscribe ==
    /\ subscribed
    /\ subscribed' = FALSE /\ unseen' = FALSE
    /\ UNCHANGED <<networkVars, streamVars, roomVars, heartbeat_ct, cancelled,
                   callVars, leaveVars, beatVars, lost>>

Observe ==
    /\ unseen
    /\ unseen' = FALSE
    /\ UNCHANGED <<networkVars, streamVars, roomVars, heartbeat_ct, cancelled,
                   callVars, leaveVars, beatVars, lost, subscribed>>

-----------------------------------------------------------------------------
(* connect().                                                              *)

\* join_room makes a guest for one connect(), and leaves when it fails.
BeginConnect(t) ==
    /\ stage = "idle" /\ leaving = "no"
    /\ left \/ "retry" \in Liberties
    /\ started < MaxConnects
    /\ stage' = "starting"
    /\ token' = t
    /\ tries' = 0 /\ mapped' = 0
    /\ left' = FALSE
    /\ UNCHANGED <<networkVars, streamVars, roomVars, heartbeat_ct, cancelled,
                   leaving, beatVars, lostVars>>

\* The call ends, with success or with an error.
Return == stage' = "idle" /\ UNCHANGED <<token, tries, mapped>>

Running == easy_tier # 0 /\ ready

\* start() forgets an instance that is not ready for the one it starts.  An
\* instance that is not ready in 30 s is an error, and stays.
StartNetwork ==
    /\ stage = "starting" /\ ~Running
    /\ started' = started + 1
    /\ easy_tier' = started + 1
    /\ networks' = networks \cup {started + 1}
    /\ \/ ready' = TRUE
          /\ stage' = "discovering"
          /\ UNCHANGED <<token, tries, mapped>>
       \/ ready' = FALSE /\ Return
    /\ UNCHANGED <<streamVars, roomVars, heartbeat_ct, cancelled, leaveVars,
                   beatVars, lostVars>>

\* An instance is running already, or none can be built from the configuration.
StartFails ==
    /\ stage = "starting"
    /\ Return
    /\ UNCHANGED <<networkVars, streamVars, roomVars, heartbeat_ct, cancelled,
                   leaveVars, beatVars, lostVars>>

BecomesReady ==
    /\ easy_tier # 0 /\ ~ready
    /\ ready' = TRUE
    /\ UNCHANGED <<easy_tier, networks, started, streamVars, roomVars,
                   heartbeat_ct, cancelled, callVars, leaveVars, beatVars,
                   lostVars>>

Discover ==
    /\ stage = "discovering" /\ easy_tier # 0
    /\ center' = easy_tier
    /\ stage' = "connecting"
    /\ UNCHANGED <<networkVars, streamVars, use_port_forward, minecraft,
                   heartbeat_ct, cancelled, token, tries, mapped, leaveVars,
                   beatVars, lostVars>>

\* 60 polls without a center, or the token is cancelled.
DiscoverFails ==
    /\ stage = "discovering"
    /\ Return
    /\ UNCHANGED <<networkVars, streamVars, roomVars, heartbeat_ct, cancelled,
                   leaveVars, beatVars, lostVars>>

\* Mutant: there is one attempt too many.
NextTryTooMany ==
    \/ tries = 0 /\ stage' = "forwarding" /\ UNCHANGED tries
    \/ tries \in 1..Retries /\ stage' = "connecting" /\ tries' = tries + 1
    \/ tries > Retries /\ stage' = "idle" /\ UNCHANGED tries

\* Mutant: an attempt over the port forward is not counted.
NextTryUncounted ==
    /\ stage' = IF tries = 0 THEN "forwarding" ELSE "connecting"
    /\ UNCHANGED tries

\* The direct attempt is followed by the port forward, the last of the
\* attempts over it by an error.
NextTry ==
    \/ tries = 0 /\ stage' = "forwarding" /\ UNCHANGED tries
    \/ tries \in 1..(Retries - 1) /\ stage' = "connecting" /\ tries' = tries + 1
    \/ tries = Retries /\ stage' = "idle" /\ UNCHANGED tries

\* An attempt that fails disconnects.
TryFails ==
    /\ stage \in {"connecting", "pinging", "negotiating"}
    /\ stage = "pinging" => stream # 0
    /\ stream' = 0 /\ alive' = FALSE
    /\ NextTry
    /\ UNCHANGED <<networkVars, roomVars, heartbeat_ct, cancelled, token,
                   mapped, leaveVars, beatVars, lostVars>>

\* Attempts over the port forward look at the token first.
TryCancelled ==
    /\ stage = "connecting" /\ tries > 0 /\ token \in cancelled
    /\ Return
    /\ UNCHANGED <<networkVars, streamVars, roomVars, heartbeat_ct, cancelled,
                   leaveVars, beatVars, lostVars>>

ConnectTcp ==
    /\ stage = "connecting" /\ easy_tier # 0
    /\ tries > 0 => token \notin cancelled
    /\ stream' = easy_tier /\ alive' = TRUE
    /\ stage' = "pinging"
    /\ UNCHANGED <<networkVars, roomVars, heartbeat_ct, cancelled, token,
                   tries, mapped, leaveVars, beatVars, lostVars>>

\* Without a stream send_player_ping reports the loss and succeeds.
SendPlayerPing ==
    /\ stage = "pinging"
    /\ stage' = "negotiating"
    /\ \/ stream # 0 /\ alive /\ UNCHANGED lostVars
       \/ stream = 0 /\ Lose
    /\ UNCHANGED <<networkVars, streamVars, roomVars, heartbeat_ct, cancelled,
                   token, tries, mapped, leaveVars, beatVars>>

NegotiateProtocols ==
    /\ stage = "negotiating" /\ stream # 0 /\ alive
    /\ stage' = "spawning"
    /\ use_port_forward' = (tries > 0)
    /\ UNCHANGED <<networkVars, streamVars, center, minecraft, heartbeat_ct,
                   cancelled, token, tries, mapped, leaveVars, beatVars,
                   lostVars>>

ForwardPort ==
    /\ stage = "forwarding" /\ easy_tier # 0
    /\ stage' = "connecting"
    /\ tries' = 1
    /\ UNCHANGED <<networkVars, streamVars, roomVars, heartbeat_ct, cancelled,
                   token, mapped, leaveVars, beatVars, lostVars>>

ForwardFails ==
    /\ stage = "forwarding"
    /\ Return
    /\ UNCHANGED <<networkVars, streamVars, roomVars, heartbeat_ct, cancelled,
                   leaveVars, beatVars, lostVars>>

SpawnHeartbeat ==
    /\ stage = "spawning"
    /\ stage' = "storing"
    /\ beat' = [beat EXCEPT ![started] = "sleeping"]
    /\ beat_ct' = [beat_ct EXCEPT ![started] = token]
    /\ UNCHANGED <<networkVars, streamVars, roomVars, heartbeat_ct, cancelled,
                   token, tries, mapped, leaveVars, lostVars>>

StoreToken ==
    /\ stage = "storing"
    /\ heartbeat_ct' = token
    /\ Return
    /\ UNCHANGED <<networkVars, streamVars, roomVars, cancelled, leaveVars,
                   beatVars, lostVars>>

-----------------------------------------------------------------------------
(* map_minecraft_port().                                                   *)

\* A cached address is returned without asking.
MapCached ==
    /\ stage = "idle" /\ center # 0 /\ minecraft # 0
    /\ mapped' = minecraft
    /\ UNCHANGED <<networkVars, streamVars, roomVars, heartbeat_ct, cancelled,
                   stage, token, tries, leaveVars, beatVars, lostVars>>

BeginMap ==
    /\ stage = "idle" /\ center # 0 /\ minecraft = 0
    /\ stage' = "asking"
    /\ UNCHANGED <<networkVars, streamVars, roomVars, heartbeat_ct, cancelled,
                   token, tries, mapped, leaveVars, beatVars, lostVars>>

GetServerPort ==
    /\ stage = "asking" /\ stream # 0 /\ alive
    /\ stage' = "placing"
    /\ UNCHANGED <<networkVars, streamVars, roomVars, heartbeat_ct, cancelled,
                   token, tries, mapped, leaveVars, beatVars, lostVars>>

\* The request fails, its answer is not a port, or the forward is refused.
MapFails ==
    /\ stage \in {"asking", "placing"}
    /\ stage = "placing" => use_port_forward
    /\ Return
    /\ UNCHANGED <<networkVars, streamVars, roomVars, heartbeat_ct, cancelled,
                   leaveVars, beatVars, lostVars>>

\* The center's own address, or a forward on the running instance.
Map ==
    /\ stage = "placing"
    /\ use_port_forward => easy_tier # 0
    /\ minecraft' = IF use_port_forward THEN easy_tier ELSE center
    /\ mapped' = minecraft'
    /\ stage' = "idle"
    /\ UNCHANGED <<networkVars, streamVars, center, use_port_forward,
                   heartbeat_ct, cancelled, token, tries, leaveVars, beatVars,
                   lostVars>>

-----------------------------------------------------------------------------
(* leave(), and the token's owner.                                         *)

\* Mutant: the slot is emptied and the token dropped.
TakeHeartbeatToken == heartbeat_ct' = None /\ UNCHANGED cancelled

\* stop_heartbeat(): the token is the caller's, and cancelled for all its uses.
CancelHeartbeat ==
    /\ heartbeat_ct' = None
    /\ cancelled' = cancelled \cup ({heartbeat_ct} \ {None})

StopHeartbeat ==
    /\ leaving = "no"
    /\ stage = "idle" \/ "overlap" \in Liberties
    /\ leaving' = "disconnect"
    /\ CancelHeartbeat
    /\ UNCHANGED <<networkVars, streamVars, roomVars, callVars, left,
                   beatVars, lostVars>>

Disconnect ==
    /\ leaving = "disconnect"
    /\ leaving' = "stop"
    /\ stream' = 0 /\ alive' = FALSE
    /\ UNCHANGED <<networkVars, roomVars, heartbeat_ct, cancelled, callVars,
                   left, beatVars, lostVars>>

\* Mutant: an instance that is not ready is not stopped.
StopReadyNetwork ==
    /\ leaving = "stop"
    /\ leaving' = "no" /\ left' = TRUE
    /\ networks' = IF ready THEN networks \ {easy_tier} ELSE networks
    /\ easy_tier' = 0 /\ ready' = FALSE
    /\ UNCHANGED <<started, streamVars, roomVars, heartbeat_ct, cancelled,
                   callVars, beatVars, lostVars>>

\* The instance is deleted; if EasyTier cannot, that is logged and forgotten,
\* which the model leaves out.
StopNetwork ==
    /\ leaving = "stop"
    /\ leaving' = "no" /\ left' = TRUE
    /\ networks' = networks \ {easy_tier}
    /\ easy_tier' = 0 /\ ready' = FALSE
    /\ UNCHANGED <<started, streamVars, roomVars, heartbeat_ct, cancelled,
                   callVars, beatVars, lostVars>>

CallerCancels(t) ==
    /\ cancelled' = cancelled \cup {t}
    /\ UNCHANGED <<networkVars, streamVars, roomVars, heartbeat_ct, callVars,
                   leaveVars, beatVars, lostVars>>

\* The center, its host or the network breaks the connection.
Break ==
    /\ alive
    /\ alive' = FALSE
    /\ UNCHANGED <<networkVars, stream, roomVars, heartbeat_ct, cancelled,
                   callVars, leaveVars, beatVars, lostVars>>

-----------------------------------------------------------------------------
(* HeartbeatService::run with the callback of start_heartbeat.             *)

BeatGoto(i, place) ==
    /\ beat' = [beat EXCEPT ![i] = place]
    /\ UNCHANGED <<networkVars, streamVars, roomVars, heartbeat_ct, cancelled,
                   callVars, leaveVars, beat_ct>>

\* Mutant: the loop does not select on the token.
BeatUncancelled(i) == FALSE /\ BeatGoto(i, "ended") /\ UNCHANGED lostVars

BeatStops(i) ==
    /\ beat[i] = "sleeping" /\ beat_ct[i] \in cancelled
    /\ BeatGoto(i, "ended") /\ UNCHANGED lostVars

\* After 5 s the callback looks for the stream, and later uses it.  Without one
\* it reports the loss but counts as a success.
BeatWakes(i) ==
    /\ beat[i] = "sleeping"
    /\ \/ stream = 0 /\ BeatGoto(i, "sleeping") /\ Lose
       \/ stream # 0 /\ BeatGoto(i, "sending") /\ UNCHANGED lostVars

BeatSent(i) ==
    /\ beat[i] = "sending" /\ stream # 0 /\ alive
    /\ BeatGoto(i, "sleeping") /\ UNCHANGED lostVars

\* Mutant: a failed heartbeat ends the task without on_failed.
BeatFailsQuietly(i) ==
    /\ beat[i] = "sending"
    /\ BeatGoto(i, "ended") /\ UNCHANGED lostVars

\* The stream is gone or broken, or the answer takes more than 15 s.
BeatFails(i) ==
    /\ beat[i] = "sending"
    /\ BeatGoto(i, "ended") /\ Lose

-----------------------------------------------------------------------------
Call ==
    \/ StartNetwork \/ StartFails \/ Discover \/ DiscoverFails
    \/ TryFails \/ TryCancelled \/ ConnectTcp \/ SendPlayerPing
    \/ NegotiateProtocols \/ ForwardPort \/ ForwardFails
    \/ SpawnHeartbeat \/ StoreToken
    \/ GetServerPort \/ MapFails \/ Map

Leave == Disconnect \/ StopNetwork

Heartbeat(i) == BeatStops(i) \/ BeatWakes(i) \/ BeatSent(i) \/ BeatFails(i)

Application ==
    \/ \E t \in Token : BeginConnect(t) \/ CallerCancels(t)
    \/ MapCached \/ BeginMap \/ StopHeartbeat
    \/ Subscribe \/ Unsubscribe \/ Observe

Next ==
    \/ Call \/ Leave
    \/ \E i \in Instance : Heartbeat(i)
    \/ Application
    \/ BecomesReady \/ Break

Spec == Init /\ [][Next]_vars

\* Calls and tasks go on, and each thing they wait for has a time limit: 30 s to
\* start and to discover, 3 s to connect, 15 s to be answered.  The sleep of a
\* heartbeat begins anew in each round, so a cancelled token is noticed first,
\* unless it is cancelled while the sleep ends.
FairSpec ==
    /\ Spec
    /\ WF_vars(Call) /\ WF_vars(Leave)
    /\ \A i \in Instance : WF_vars(Heartbeat(i)) /\ SF_vars(BeatStops(i))

-----------------------------------------------------------------------------
Beating(i) == beat[i] \in {"sleeping", "sending"}

\* No heartbeat gets out of the guest's hands: the slot that leave() empties has
\* the token of every heartbeat that has not been cancelled.
Stoppable ==
    \A i \in Instance : Beating(i) =>
        \/ beat_ct[i] \in cancelled
        \/ heartbeat_ct = beat_ct[i]
        \/ stage = "storing" /\ token = beat_ct[i]

\* leave() leaves nothing behind: no network, no stream, no heartbeat that has
\* not been told to stop, whatever connect() had got to and however it failed.
LeftClean ==
    left /\ stage = "idle" /\ leaving = "no" =>
        /\ networks = {}
        /\ stream = 0
        /\ \A i \in Instance : Beating(i) => beat_ct[i] \in cancelled

\* connect() and map_minecraft_port() return, however silent the center is.
CallsReturn == stage # "idle" ~> stage = "idle"

\* Who listens for it hears that the connection under a heartbeat has broken,
\* unless the heartbeat has been cancelled or there is a connection again.
LossReported ==
    \A i \in Instance :
        Beating(i) /\ stream # 0 /\ ~alive
            ~> unseen \/ ~subscribed \/ beat_ct[i] \in cancelled \/ alive

\* After leave() every heartbeat of the guest ends, in the middle of a request
\* or of a report that there is no stream.
LeaveSilences ==
    \A i \in Instance : Beating(i) /\ leaving = "disconnect" ~> beat[i] = "ended"

-----------------------------------------------------------------------------
\* guest/scaffolding_guest.rs:628: leave() stops the heartbeat: once both calls
\* have returned, a heartbeat that nothing has cancelled still has its network.
NoStrayHeartbeat ==
    networks = {} /\ stage = "idle" /\ leaving = "no" =>
        \A i \in Instance : Beating(i) => beat_ct[i] \in cancelled
=============================================================================
