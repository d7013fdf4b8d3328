-------------------------- MODULE HeartbeatProofs ---------------------------
(***************************************************************************)
(* Proofs about Heartbeat, for every bound on the network that leaves the  *)
(* round of a heartbeat within the timeout, and for any number of calls    *)
(* that share the tcp mutex with it.                                       *)
(***************************************************************************)
EXTENDS Heartbeat, TLAPS

HeartbeatTypes ==
    /\ linked \in BOOLEAN /\ cut \in BOOLEAN
    /\ stage \in {"sleeping", "looking", "preparing", "waiting", "sending", "answering",
                  "lost"}
    /\ timer \in Nat /\ quiet \in Nat /\ age \in Nat /\ check \in Nat
    /\ ahead \in 0..Others /\ held \in Nat

\* How long n calls hold the mutex at most.
Calls(n) == n * ReadTimeout

\* How long the beat has been at the mutex at most, since it asked for it.
AtMutex == Calls(Others - ahead) + held

\* How long each stage of the guest's loop lasts, and how long the last response
\* is past in it.
GuestClock ==
    /\ stage = "sleeping" => timer <= Interval /\ quiet <= timer
    /\ Queued => held <= ReadTimeout /\ (ahead = 0 => held = 0)
    /\ stage = "looking" => timer <= AtMutex
    /\ stage = "preparing" => held <= Prepare /\ timer <= Calls(Others) + held
    /\ stage = "waiting" => timer <= Calls(Others) + Prepare + AtMutex
    /\ Asking => quiet <= Interval + timer
    /\ stage \in {"sending", "answering"} =>
            /\ timer <= ReadTimeout
            /\ quiet <= Interval + Calls(Others) + Prepare + Calls(Others) + timer

\* How old the last heartbeat is in each stage, while both ends are there.
LinkedClock ==
    linked =>
        /\ ~cut /\ stage # "lost"
        /\ stage = "sleeping" => age <= Setup + timer
        /\ Asking => timer <= Wait /\ age <= Setup + Interval + timer
        /\ stage = "sending" =>
                timer <= Forth /\ age <= Setup + Interval + Wait + timer
        /\ stage = "answering" => age <= Back /\ timer <= Forth + age

\* How old a heartbeat gets between two checks.
CenterClock == ~cut => check <= Period /\ age <= Timeout + check

HeartbeatInv == HeartbeatTypes /\ GuestClock /\ LinkedClock /\ CenterClock

LEMMA CallsAddUp ==
    ASSUME NEW m \in Nat, NEW n \in Nat
    PROVE  Calls(m) \in Nat /\ Calls(m + n) = Calls(m) + Calls(n)
<1>1. ASSUME NEW i \in Nat, NEW j \in Nat PROVE i * j \in Nat
  BY <1>1
<1>2. ASSUME NEW r \in Nat PROVE (m + n) * r = m * r + n * r
  BY <1>2
<1> QED
  BY <1>1, <1>2, HeartbeatAssumption DEF Calls

\* Whoever is at the mutex has been there for the calls that were ahead at most.
LEMMA MutexGot ==
    ASSUME HeartbeatTypes, held <= ReadTimeout, ahead = 0 => held = 0
    PROVE  AtMutex \in Nat /\ AtMutex <= Calls(Others)
<1> USE HeartbeatAssumption DEF HeartbeatTypes
<1>1. Others - ahead \in Nat /\ (Others - ahead) + ahead = Others /\ ahead \in Nat
  OBVIOUS
<1>2. Calls(Others) = Calls(Others - ahead) + Calls(ahead)
  BY <1>1, CallsAddUp
<1>3. held <= Calls(ahead)
  <2>1. CASE ahead = 0
    BY <2>1 DEF Calls
  <2>2. CASE ahead > 0
    <3>1. ahead - 1 \in Nat /\ 1 + (ahead - 1) = ahead
      BY <2>2
    <3>2. Calls(1) = ReadTimeout
      BY DEF Calls
    <3>3. Calls(ahead - 1) \in Nat /\ Calls(ahead) = Calls(1) + Calls(ahead - 1)
      BY <3>1, CallsAddUp
    <3> QED
      BY <3>2, <3>3
  <2> QED
    BY <2>1, <2>2
<1>4. Calls(Others - ahead) \in Nat /\ Calls(ahead) \in Nat
  BY <1>1, CallsAddUp
<1> QED
  BY <1>2, <1>3, <1>4 DEF AtMutex

LEMMA QueueBegins ==
    ASSUME Queues
    PROVE  /\ ahead' \in 0..Others /\ held' \in Nat /\ held' <= ReadTimeout
           /\ ahead' = 0 => held' = 0
           /\ Calls(Others - ahead') \in Nat
<1>1. /\ ahead' \in 0..Others /\ held' \in Nat /\ held' <= ReadTimeout
      /\ ahead' = 0 => held' = 0
  BY HeartbeatAssumption DEF Queues
<1>2. \A n \in 0..Others : Calls(Others - n) \in Nat
  <2> SUFFICES ASSUME NEW n \in 0..Others PROVE Calls(Others - n) \in Nat
    OBVIOUS
  <2>1. Others - n \in Nat
    BY HeartbeatAssumption
  <2> QED
    BY <2>1, CallsAddUp
<1> QED
  BY <1>1, <1>2, Zenon

LEMMA HeartbeatInit == Init => HeartbeatInv
<1> SUFFICES ASSUME Init PROVE HeartbeatInv
  OBVIOUS
<1>1. /\ linked \in BOOLEAN /\ cut = FALSE /\ stage = "sleeping"
      /\ timer = 0 /\ quiet = 0 /\ ahead = 0 /\ held = 0
  BY DEF Init
<1>2. /\ age \in Nat /\ age <= Setup /\ age <= Timeout
      /\ check \in Nat /\ check <= Period
  BY HeartbeatAssumption DEF Init
<1>3. HeartbeatTypes
  <2>1. linked \in BOOLEAN /\ cut \in BOOLEAN
    BY <1>1
  <2>2. /\ stage \in {"sleeping", "looking", "preparing", "waiting", "sending",
                      "answering", "lost"}
        /\ ahead \in 0..Others
    BY <1>1, HeartbeatAssumption
  <2>3. timer \in Nat /\ quiet \in Nat /\ held \in Nat
    BY <1>1
  <2> QED
    BY <1>2, <2>1, <2>2, <2>3, Zenon DEF HeartbeatTypes
<1>4. GuestClock
  BY <1>1, HeartbeatAssumption DEF GuestClock, Queued, Asking
<1>5. LinkedClock
  <2>1. age <= Setup + timer
    BY <1>1, <1>2, HeartbeatAssumption
  <2> QED
    BY <1>1, <2>1, Zenon DEF LinkedClock, Asking
<1>6. CenterClock
  BY <1>2, HeartbeatAssumption DEF CenterClock
<1> QED
  BY <1>3, <1>4, <1>5, <1>6 DEF HeartbeatInv

LEMMA HeartbeatStep == HeartbeatInv /\ [Next]_vars => HeartbeatInv'
<1> SUFFICES ASSUME HeartbeatInv, [Next]_vars PROVE HeartbeatInv'
  OBVIOUS
<1> USE HeartbeatAssumption
    DEF HeartbeatInv, HeartbeatTypes, GuestClock, LinkedClock, CenterClock,
        Queued, Asking, AtMutex
<1>1. /\ Calls(Others) \in Nat /\ Calls(Others - ahead) \in Nat
      /\ ahead = 0 => Calls(Others - ahead) = Calls(Others)
      /\ ahead > 0 => Calls(Others - (ahead - 1)) = Calls(Others - ahead) + ReadTimeout
  <2>1. /\ Others - ahead \in Nat
        /\ ahead = 0 => Others - ahead = Others
        /\ ahead > 0 => Others - (ahead - 1) = (Others - ahead) + 1
    OBVIOUS
  <2>2. Calls(1) = ReadTimeout
    BY DEF Calls
  <2>3. Calls((Others - ahead) + 1) = Calls(Others - ahead) + Calls(1)
    BY <2>1, CallsAddUp
  <2>4. Calls(Others) \in Nat /\ Calls(Others - ahead) \in Nat
    BY <2>1, CallsAddUp
  <2> QED
    BY <2>1, <2>2, <2>3, <2>4
<1>2. CASE Tick
  <2>1. linked' = linked /\ stage' = stage /\ cut' = cut
    BY <1>2 DEF Tick
  <2>2. HeartbeatTypes'
    BY <1>2, <2>1 DEF Tick
  <2>3. GuestClock'
    <3>1. ahead' = ahead /\ (stage # "lost" => timer' = timer + 1 /\ quiet' = quiet + 1)
      BY <1>2 DEF Tick
    <3>2. IF Asking THEN held' = held + 1 ELSE held' = held
      BY <1>2 DEF Tick
    <3>3. CASE Queued
      <4>1. ahead # 0 /\ held # ReadTimeout
        BY <1>2, <3>3 DEF Tick, Due
      <4> QED
        BY <1>1, <2>1, <3>1, <3>2, <3>3, <4>1
    <3>4. CASE stage = "preparing"
      <4>1. held # Prepare
        BY <1>2, <3>4 DEF Tick, Due
      <4> QED
        BY <1>1, <2>1, <3>1, <3>2, <3>4, <4>1
    <3>5. CASE ~Asking
      <4>1. stage = "sleeping" => timer # Interval
        BY <1>2 DEF Tick, Due
      <4>2. stage \in {"sending", "answering"} => timer # ReadTimeout
        BY <1>2 DEF Tick, Due
      <4> QED
        BY <1>1, <2>1, <3>1, <3>5, <4>1, <4>2
    <3> QED
      BY <3>3, <3>4, <3>5
  <2>4. LinkedClock'
    BY <1>2, <2>1 DEF Tick, Due
  <2>5. CenterClock'
    BY <1>2, <2>1 DEF Tick, Due
  <2> QED
    BY <2>2, <2>3, <2>4, <2>5
<1>3. CASE Wake
  BY <1>3, QueueBegins DEF Wake
<1>4. CASE CallEnds
  BY <1>1, <1>4 DEF CallEnds
<1>5. CASE Look
  BY <1>1, <1>5 DEF Look, queue
<1>6. CASE Prepared
  BY <1>1, <1>6, QueueBegins DEF Prepared
<1>7. CASE Write
  BY <1>7, <1>1 DEF Write, queue
<1>8. CASE Record
  BY <1>8 DEF Record, queue
<1>9. CASE Answered
  BY <1>9 DEF Answered, queue
<1>10. CASE TimesOut
  BY <1>10 DEF TimesOut, queue
<1>11. CASE Check
  <2>1. /\ linked' = linked /\ stage' = stage /\ timer' = timer
        /\ quiet' = quiet /\ age' = age /\ check' = 0
        /\ ahead' = ahead /\ held' = held
    BY <1>11 DEF Check, queue
  <2>2. cut' \in BOOLEAN
    BY <1>11 DEF Check
  <2>3. cut' <=> age > Timeout
    BY <1>11 DEF Check, TooOld
  <2>4. linked => age <= Timeout
    OBVIOUS
  <2> QED
    BY <2>1, <2>2, <2>3, <2>4
<1>12. CASE Break
  BY <1>12 DEF Break, queue
<1>13. CASE UNCHANGED vars
  BY <1>13 DEF vars, queue
<1> QED
  BY <1>2, <1>3, <1>4, <1>5, <1>6, <1>7, <1>8, <1>9, <1>10, <1>11, <1>12, <1>13
     DEF Next

\* A live guest is never cut and never announces a loss, whatever the bounds are
\* that the assumption admits: with the code's 5 s and 15 s, a round of 10 s.
THEOREM LiveIsKept == Spec => []LiveKept
<1>1. HeartbeatInv => LiveKept
  BY DEF HeartbeatInv, LinkedClock, LiveKept
<1> QED
  BY <1>1, HeartbeatInit, HeartbeatStep, PTL DEF Spec

\* Each end is rid of the other in bounded time, the guest however many calls the
\* dead center keeps ahead of its beat.
THEOREM SilenceIsEnded == Spec => []SilenceEnds
<1>1. HeartbeatInv => SilenceEnds
  <2> SUFFICES ASSUME HeartbeatInv PROVE SilenceEnds
    OBVIOUS
  <2> USE HeartbeatAssumption
  <2>1. ~cut => age <= Timeout + Period
    BY DEF HeartbeatInv, HeartbeatTypes, CenterClock
  <2>2. Calls(Others) \in Nat
    BY CallsAddUp
  <2>3. Queued => AtMutex \in Nat /\ AtMutex <= Calls(Others)
    BY MutexGot DEF HeartbeatInv, GuestClock
  <2>4. 2 * Others * ReadTimeout = Calls(Others) + Calls(Others)
    BY <2>2 DEF Calls
  <2>5. ASSUME stage # "lost"
        PROVE  quiet <= Interval + Calls(Others) + Prepare + Calls(Others) + ReadTimeout
    BY <2>2, <2>3, <2>5 DEF HeartbeatInv, HeartbeatTypes, GuestClock, Queued, Asking
  <2> QED
    BY <2>1, <2>2, <2>4, <2>5 DEF SilenceEnds, HeartbeatInv, HeartbeatTypes
<1> QED
  BY <1>1, HeartbeatInit, HeartbeatStep, PTL DEF Spec
=============================================================================
