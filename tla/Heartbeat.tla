----------------------------- MODULE Heartbeat ------------------------------
(***************************************************************************)
(* The heartbeat of one connection in time: the guest sends player_ping    *)
(* and then sleeps, the center notes when the last one came and looks      *)
(* every so often for those that are too old.                              *)
(*                                                                         *)
(* The guest sends under the tcp mutex, which other calls hold until they  *)
(* have their response, for up to a read timeout each when the center is   *)
(* gone.  A beat asks for that mutex twice, to look at the stream and to   *)
(* send, and each time may find them ahead of it.                          *)
(*                                                                         *)
(* Time is counted in whole units, and bounds on what the network and the  *)
(* two ends take are parameters.  The code's own values are 5 s for        *)
(* Interval and Period and 15 s for Timeout and ReadTimeout.  A request    *)
(* fits into the local send buffer, and no call was abandoned before: see  *)
(* TcpClient for writes that are held up and answers that come late.       *)
(***************************************************************************)
EXTENDS Integers

CONSTANTS
    Interval,       \* the guest's sleep between two heartbeats
    ReadTimeout,    \* how long it waits for a response
    Period,         \* the center's sleep between two checks
    Timeout,        \* the age at which a heartbeat is too old
    Setup,          \* from the first ping on the connection to the heartbeat task
    Others,         \* calls that may be ahead of one at the tcp mutex
    Prepare,        \* for the EasyTier manager, whose node the ping names
    Wait,           \* from waking to writing, if the center answers the others
    Forth, Back     \* of a request to the registry, of a response to its call

\* What the network has to offer.
ASSUME HeartbeatAssumption ==
    /\ Interval \in Nat /\ ReadTimeout \in Nat /\ Period \in Nat /\ Timeout \in Nat
    /\ Others \in Nat /\ Prepare \in Nat
    /\ Setup \in Nat /\ Wait \in Nat /\ Forth \in Nat /\ Back \in Nat
    /\ Back <= Setup
    /\ Setup + Interval + Wait + Forth <= Timeout
    /\ Forth + Back < ReadTimeout

VARIABLES
    linked,         \* both ends run and the network carries what they send
    stage,          \* of the guest's loop: "sleeping", "looking", "preparing",
                    \* "waiting", "sending", "answering"; "lost" after on_failed
    timer,          \* time since the sleep began, since it ended, or since the
                    \* request was written
    ahead,          \* calls ahead of the beat at the tcp mutex
    held,           \* time since the first of them wrote its request, or since
                    \* the beat began to prepare its own
    quiet,          \* time since the loop last had a response
    age,            \* of last_heartbeat
    check,          \* time since the center's last check
    cut             \* the center has cancelled the connection's token

queue == <<ahead, held>>

vars == <<linked, stage, timer, queue, quiet, age, check, cut>>

Init ==
    /\ linked = TRUE
    /\ stage = "sleeping" /\ timer = 0 /\ quiet = 0
    /\ ahead = 0 /\ held = 0
    /\ age \in 0..Setup /\ check \in 0..Period
    /\ cut = FALSE

-----------------------------------------------------------------------------
Queued == stage \in {"looking", "waiting"}

\* The sleep is over and the request is not yet written.
Asking == stage \in {"looking", "preparing", "waiting"}

\* What has to happen before more time passes: the mutex, which is fair, is taken
\* as soon as it is free, and a call that holds it ends when its read times out.
Due ==
    \/ stage = "sleeping" /\ timer = Interval
    \/ Queued /\ (ahead = 0 \/ held = ReadTimeout)
    \/ stage = "preparing" /\ held = Prepare
    \/ Asking /\ linked /\ timer = Wait
    \/ stage = "sending" /\ linked /\ timer = Forth
    \/ stage = "answering" /\ linked /\ age = Back
    \/ stage \in {"sending", "answering"} /\ timer = ReadTimeout
    \/ ~cut /\ check = Period

Tick ==
    /\ ~Due
    /\ ~(cut /\ stage = "lost")
    /\ timer' = IF stage = "lost" THEN timer ELSE timer + 1
    /\ held' = IF Asking THEN held + 1 ELSE held
    /\ quiet' = IF stage = "lost" THEN quiet ELSE quiet + 1
    /\ age' = IF cut THEN age ELSE age + 1
    /\ check' = IF cut THEN check ELSE check + 1
    /\ UNCHANGED <<linked, stage, ahead, cut>>

\* The beat asks for the mutex, and waits for the calls that are there.
Queues ==
    \E n \in 0..Others, t \in 0..ReadTimeout :
        /\ n = 0 => t = 0
        /\ ahead' = n /\ held' = t

Wake ==
    /\ stage = "sleeping" /\ timer = Interval
    /\ stage' = "looking" /\ timer' = 0
    /\ Queues
    /\ UNCHANGED <<linked, quiet, age, check, cut>>

\* The first call ahead returns, and the next one writes its request.
CallEnds ==
    /\ Queued /\ ahead > 0
    /\ ahead' = ahead - 1 /\ held' = 0
    /\ UNCHANGED <<linked, stage, timer, quiet, age, check, cut>>

\* There is a stream, and the mutex is released.
Look ==
    /\ stage = "looking" /\ ahead = 0
    /\ stage' = "preparing"
    /\ UNCHANGED <<linked, timer, queue, quiet, age, check, cut>>

\* The request is ready, and the mutex asked for again.
Prepared ==
    /\ stage = "preparing"
    /\ stage' = "waiting"
    /\ Queues
    /\ UNCHANGED <<linked, timer, quiet, age, check, cut>>

Write ==
    /\ stage = "waiting" /\ ahead = 0
    /\ stage' = "sending" /\ timer' = 0
    /\ UNCHANGED <<linked, queue, quiet, age, check, cut>>

\* The center has written its response and notes the time.
Record ==
    /\ stage = "sending" /\ linked /\ ~cut
    /\ stage' = "answering" /\ age' = 0
    /\ UNCHANGED <<linked, timer, queue, quiet, check, cut>>

Answered ==
    /\ stage = "answering" /\ linked
    /\ stage' = "sleeping" /\ timer' = 0 /\ quiet' = 0
    /\ UNCHANGED <<linked, queue, age, check, cut>>

\* The read times out, and on_failed announces the loss.
TimesOut ==
    /\ stage \in {"sending", "answering"} /\ timer = ReadTimeout
    /\ stage' = "lost"
    /\ UNCHANGED <<linked, timer, queue, quiet, age, check, cut>>

\* Mutants: an age is compared with >=, and with the wrong constant.
TooOldEarly == age >= Timeout
TooOldLate == age > Timeout + Period

TooOld == age > Timeout

Check ==
    /\ ~cut /\ check = Period
    /\ cut' = IF TooOld THEN TRUE ELSE cut
    /\ check' = 0
    /\ UNCHANGED <<linked, stage, timer, queue, quiet, age>>

\* The guest, the center or the network is gone without a word.
Break ==
    /\ linked
    /\ linked' = FALSE
    /\ UNCHANGED <<stage, timer, queue, quiet, age, check, cut>>

Next ==
    \/ Tick
    \/ Wake \/ CallEnds \/ Look \/ Prepared \/ Write \/ Record \/ Answered \/ TimesOut
    \/ Check \/ Break

Spec == Init /\ [][Next]_vars

-----------------------------------------------------------------------------
\* As long as both ends live and the network keeps its bounds, the center does
\* not cut the connection and the guest does not announce its loss: a sleep of
\* 5 s after every response and a round of up to 10 s stay within the 15 s of
\* heartbeat_timeout_loop, which are exceeded only by more.
LiveKept == linked => ~cut /\ stage # "lost"

\* Once an end is gone, the other is rid of it: the center within a timeout and
\* one more period of the last heartbeat, the guest within a sleep, the calls
\* that are twice ahead of a beat, each for a read timeout, and its own.
SilenceEnds ==
    /\ ~cut => age <= Timeout + Period
    /\ stage # "lost" =>
            quiet <= Interval + 2 * Others * ReadTimeout + Prepare + ReadTimeout
=============================================================================
