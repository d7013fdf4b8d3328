----------------------------- MODULE TcpClient -----------------------------
(***************************************************************************)
(* The guest's connection to the center: TcpClient behind the tcp mutex of *)
(* ScaffoldingGuest.                                                       *)
(*                                                                         *)
(* A caller locks the mutex, writes its request, which takes as long as    *)
(* the center takes to read, and reads one response, for at most 15 s.     *)
(* The stream carries no request identifiers, so the k-th response read on *)
(* it is the answer to the k-th request written: requests and responses    *)
(* are their numbers on the current stream.  What a call leaves behind     *)
(* when it gives up (a timeout, or a caller that drops the future) stays   *)
(* in the stream, which no error of send() closes; when it gives up within *)
(* a response, the next call reads the rest as if it were the beginning.   *)
(***************************************************************************)
EXTENDS Naturals

CONSTANTS
    Caller,         \* heartbeat and application tasks that share the client
    None,           \* no holder, no outcome
    Failed,         \* the outcome of a call that returns an error
    Mixed,          \* of one that returns anything but one request's response
    MaxRequests     \* bound: requests written on one stream

ASSUME TcpClientAssumption ==
    /\ None \notin Caller
    /\ Mixed \notin [asked : Nat, got : Nat]
    /\ MaxRequests \in Nat

VARIABLES
    stream,         \* TcpClient::stream is Some
    alive,          \* neither end nor network has broken that connection
    jammed,         \* the center does not read, and no more can be written
    holder,         \* the caller that holds the mutex
    stage,          \* of each caller: "idle", "locking", "locked", "writing",
                    \* "reading"
    sent,           \* requests written on the stream
    answered,       \* responses that have arrived for them
    taken,          \* responses that have been read
    abandoned,      \* calls that gave up on their response, or read no whole one
    torn,           \* one of them gave up within a request or a response
    outcome         \* per caller, of its last call: the request it wrote and
                    \* the request whose response it got

wireVars == <<sent, answered, taken, abandoned, torn>>

vars == <<stream, alive, jammed, holder, stage, wireVars, outcome>>

TypeOK ==
    /\ stream \in BOOLEAN /\ alive \in BOOLEAN /\ jammed \in BOOLEAN
    /\ holder \in Caller \cup {None}
    /\ stage \in [Caller -> {"idle", "locking", "locked", "writing", "reading"}]
    /\ sent \in Nat /\ answered \in Nat /\ taken \in Nat /\ abandoned \in Nat
    /\ torn \in BOOLEAN
    /\ outcome \in [Caller -> [asked : Nat, got : Nat] \cup {None, Failed, Mixed}]

Init ==
    /\ stream = FALSE /\ alive = FALSE /\ jammed = FALSE
    /\ holder = None
    /\ stage = [p \in Caller |-> "idle"]
    /\ sent = 0 /\ answered = 0 /\ taken = 0 /\ abandoned = 0 /\ torn = FALSE
    /\ outcome = [p \in Caller |-> None]

-----------------------------------------------------------------------------
Lock(p) ==
    /\ stage[p] = "idle"
    /\ stage' = [stage EXCEPT ![p] = "locking"]
    /\ outcome' = [outcome EXCEPT ![p] = None]
    /\ UNCHANGED <<stream, alive, jammed, holder, wireVars>>

\* Mutant: the calls are not serialised.
AcquireAnyway(p) ==
    /\ stage[p] = "locking"
    /\ holder' = p
    /\ stage' = [stage EXCEPT ![p] = "locked"]
    /\ UNCHANGED <<stream, alive, jammed, wireVars, outcome>>

Acquire(p) ==
    /\ stage[p] = "locking" /\ holder = None
    /\ holder' = p
    /\ stage' = [stage EXCEPT ![p] = "locked"]
    /\ UNCHANGED <<stream, alive, jammed, wireVars, outcome>>

\* The call of p ends with outcome o and the mutex is released.
Return(p, o) ==
    /\ stage' = [stage EXCEPT ![p] = "idle"]
    /\ outcome' = [outcome EXCEPT ![p] = o]
    /\ holder' = None

Begin(p) ==
    /\ stage[p] = "locked" /\ stream /\ sent < MaxRequests
    /\ stage' = [stage EXCEPT ![p] = "writing"]
    /\ UNCHANGED <<stream, alive, jammed, holder, wireVars, outcome>>

\* The write of p waits for room, for which it has no timeout.
HeldUp(p) == stage[p] = "writing" /\ alive /\ jammed

\* A write to a broken connection may succeed, into the local buffer.
Write(p) ==
    /\ stage[p] = "writing" /\ ~HeldUp(p)
    /\ sent' = sent + 1
    /\ stage' = [stage EXCEPT ![p] = "reading"]
    /\ UNCHANGED <<stream, alive, jammed, holder, answered, taken, abandoned, torn,
                   outcome>>

\* Without a stream, or when the write fails, the call returns its error.
WriteFails(p) ==
    /\ (stage[p] = "locked" /\ ~stream) \/ (stage[p] = "writing" /\ ~alive)
    /\ Return(p, Failed)
    /\ UNCHANGED <<stream, alive, jammed, wireVars>>

Read(p) ==
    /\ stage[p] = "reading" /\ taken < answered /\ ~torn
    /\ taken' = taken + 1
    /\ Return(p, [asked |-> sent, got |-> taken + 1])
    /\ UNCHANGED <<stream, alive, jammed, sent, answered, abandoned, torn>>

\* The lengths that are read are not lengths: whether and when they are
\* satisfied is anyone's guess.
ReadMixed(p) ==
    /\ stage[p] = "reading" /\ torn
    /\ abandoned' = abandoned + 1
    /\ Return(p, Mixed)
    /\ UNCHANGED <<stream, alive, jammed, sent, answered, taken, torn>>

\* What has been read of a response is lost.
GivesUp(p) ==
    /\ Return(p, Failed)
    /\ abandoned' = abandoned + 1
    /\ torn' \in {torn, TRUE}
    /\ UNCHANGED <<stream, alive, jammed, sent, answered, taken>>

\* Mutant: the read has no timeout.
NeverTimesOut(p) == FALSE /\ GivesUp(p)

TimesOut(p) == stage[p] = "reading" /\ (taken = answered \/ torn) /\ GivesUp(p)

ReadFails(p) ==
    stage[p] = "reading" /\ (taken = answered \/ torn) /\ ~alive /\ GivesUp(p)

\* The center takes what follows a part of a request for its rest.
LeavesPart(p) ==
    /\ sent' = sent + 1 /\ abandoned' = abandoned + 1 /\ torn' = TRUE
    /\ UNCHANGED <<answered, taken>>

\* A caller that wraps the call in a select! may drop it while it waits.
Cancel(p) ==
    \/ /\ stage[p] = "writing"
       /\ Return(p, Failed)
       /\ UNCHANGED wireVars \/ LeavesPart(p)
       /\ UNCHANGED <<stream, alive, jammed>>
    \/ /\ stage[p] = "locking"
       /\ stage' = [stage EXCEPT ![p] = "idle"]
       /\ UNCHANGED <<stream, alive, jammed, holder, wireVars, outcome>>
    \/ stage[p] = "reading" /\ GivesUp(p)

\* A replaced or dropped stream takes what was in it along.
Reset(p, connected) ==
    /\ stage[p] = "locked"
    /\ stream' = connected /\ alive' = connected /\ jammed' = FALSE
    /\ sent' = 0 /\ answered' = 0 /\ taken' = 0 /\ abandoned' = 0 /\ torn' = FALSE
    /\ Return(p, None)

Connect(p) == Reset(p, TRUE)

\* The stream, if there is one, stays what it was.
ConnectFails(p) ==
    /\ stage[p] = "locked"
    /\ Return(p, Failed)
    /\ UNCHANGED <<stream, alive, jammed, wireVars>>

Disconnect(p) == Reset(p, FALSE)

\* The center answers the requests of a connection one by one, in order.
Answer ==
    /\ alive /\ answered < sent
    /\ answered' = answered + 1
    /\ UNCHANGED <<stream, alive, jammed, holder, stage, sent, taken, abandoned, torn, outcome>>

\* The buffers between the two fill up, and the center reads again.
Jam ==
    /\ alive
    /\ jammed' = ~jammed
    /\ UNCHANGED <<stream, alive, holder, stage, wireVars, outcome>>

Break ==
    /\ alive
    /\ alive' = FALSE
    /\ UNCHANGED <<stream, jammed, holder, stage, wireVars, outcome>>

-----------------------------------------------------------------------------
\* What the holder of the mutex does next.
Proceed(p) ==
    \/ Begin(p) \/ Write(p) \/ WriteFails(p)
    \/ Connect(p) \/ ConnectFails(p) \/ Disconnect(p)
    \/ Read(p) \/ ReadMixed(p) \/ ReadFails(p) \/ TimesOut(p)

Next ==
    \/ \E p \in Caller : Lock(p) \/ Acquire(p) \/ Proceed(p) \/ Cancel(p)
    \/ Answer \/ Jam \/ Break

Spec == Init /\ [][Next]_vars

\* The mutex is fair, so whoever waits for it gets it when it is free often
\* enough; a read ends with a response, an error or the timeout; a write goes on
\* whenever there is room, of which a request needs little.  Nothing obliges the
\* center to read or to answer.
FairSpec ==
    /\ Spec
    /\ \A p \in Caller :
        SF_vars(Acquire(p)) /\ WF_vars(Proceed(p)) /\ SF_vars(Write(p))

-----------------------------------------------------------------------------
\* A response is off by the number of calls that were abandoned on the stream,
\* no more and no less: without a timeout or a dropped call every request gets
\* its own response, whole, whoever shares the client; after one, none does until
\* the stream is replaced.
OffByAbandoned ==
    [][\A p \in Caller :
        outcome'[p] # outcome[p] /\ outcome'[p] \notin {None, Failed} =>
            IF outcome'[p] = Mixed THEN abandoned > 0
            ELSE outcome'[p].asked = outcome'[p].got + abandoned]_vars

\* Whoever calls gets an outcome, however many share the client and however
\* silent the center is, unless a center that stops reading holds up a write for
\* ever (tcp_client.rs:80-87): then nothing ends that call but dropping it, and
\* the mutex is held as long.
CallsEnd ==
    (\A p \in Caller : []<>~HeldUp(p)) =>
        \A p \in Caller : stage[p] # "idle" ~> stage[p] = "idle"
=============================================================================
