------------------------------- MODULE Calls -------------------------------
(***************************************************************************)
(* What a connection promises, without its bytes: the center answers the   *)
(* requests in the order they were written, each once, and a call returns  *)
(* what it makes of the first answer that no call before it has read.      *)
(* That is the answer to its own request unless a call gave up before.     *)
(***************************************************************************)
EXTENDS Naturals, Sequences

CONSTANTS
    Asks,               \* calls with the request each writes
    Reply(_, _),        \* the answer of a center that has this to a request
    Result(_, _),       \* what a call makes of an answer
    GivenUp(_),         \* what it returns when it has none
    Refusals,           \* what calls return that write no request
    None

VARIABLES
    has,                \* what the center has
    asked,              \* the requests
    answered, read,     \* how many the center has answered, how many answers were read
    call, returned,     \* the call that waits, what the last one returned
    spoilt              \* no call follows

callVars == <<has, asked, answered, read, call, returned, spoilt>>

CallsInit ==
    /\ asked = <<>> /\ answered = 0 /\ read = 0
    /\ call = None /\ returned = None /\ spoilt = FALSE

Ask ==
    /\ ~spoilt /\ call = None
    /\ \E ask \in Asks : call' = ask.call /\ asked' = Append(asked, ask.req)
    /\ returned' = None
    /\ UNCHANGED <<has, answered, read, spoilt>>

Refuse ==
    /\ ~spoilt /\ call = None
    /\ returned' \in Refusals
    /\ UNCHANGED <<has, asked, answered, read, call, spoilt>>

Answer ==
    /\ answered < Len(asked)
    /\ answered' = answered + 1
    /\ UNCHANGED <<has, asked, read, call, returned, spoilt>>

Return ==
    /\ call # None /\ read < answered
    /\ returned' = Result(call, Reply(has, asked[read + 1]))
    /\ read' = read + 1
    /\ call' = None
    /\ UNCHANGED <<has, asked, answered, spoilt>>

\* The connection is spoilt only if an answer may be on its way, or with the
\* first call.
GiveUp ==
    /\ call # None
    /\ returned' = GivenUp(call)
    /\ call' = None
    /\ \/ UNCHANGED spoilt
       \/ (read < answered \/ Len(asked) = 1) /\ spoilt' = TRUE
    /\ UNCHANGED <<has, asked, answered, read>>

CallsNext == Ask \/ Refuse \/ Answer \/ Return \/ GiveUp

CallsSpec == CallsInit /\ [][CallsNext]_callVars
=============================================================================
