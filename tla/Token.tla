------------------------------- MODULE Token -------------------------------
(***************************************************************************)
(* What a CancellationToken promises: once cancelled it stays cancelled,   *)
(* a call of cancelled() returns only then, and then it does return.       *)
(* Module Center uses a token as this single Boolean.                      *)
(***************************************************************************)
CONSTANT Waiter     \* the tasks that call cancelled()

VARIABLES
    cancelled,      \* has cancel() been called?
    call            \* per waiter: "out", "in" cancelled(), or "returned"

tokenVars == <<cancelled, call>>

TokenInit == cancelled = FALSE /\ call = [w \in Waiter |-> "out"]

Cancel == cancelled' = TRUE /\ UNCHANGED call

Enter(w) ==
    /\ call[w] # "in"
    /\ call' = [call EXCEPT ![w] = "in"]
    /\ UNCHANGED cancelled

Return(w) ==
    /\ call[w] = "in" /\ cancelled
    /\ call' = [call EXCEPT ![w] = "returned"]
    /\ UNCHANGED cancelled

\* Another branch of the caller's select! wins: the future is dropped.
Abandon(w) ==
    /\ call[w] = "in"
    /\ call' = [call EXCEPT ![w] = "out"]
    /\ UNCHANGED cancelled

TokenNext == Cancel \/ \E w \in Waiter : Enter(w) \/ Return(w) \/ Abandon(w)

TokenSpec ==
    /\ TokenInit /\ [][TokenNext]_tokenVars
    /\ \A w \in Waiter : WF_tokenVars(Return(w))
=============================================================================
