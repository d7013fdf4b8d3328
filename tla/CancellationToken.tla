------------------------- MODULE CancellationToken -------------------------
(***************************************************************************)
(* CancellationToken of util.rs: an atomic flag and a tokio Notify.        *)
(*                                                                         *)
(* cancel() stores the flag and then wakes the waiters; cancelled() checks *)
(* the flag, creates a Notified future, checks the flag again and awaits   *)
(* the future.  Each of these is an action, and any number of tasks run    *)
(* them concurrently.  notify_waiters() resolves exactly the Notified      *)
(* futures that exist when it is called, polled or not (tokio's contract). *)
(***************************************************************************)
CONSTANTS
    Waiter,         \* tasks that call cancelled()
    Canceller       \* tasks that call cancel()

VARIABLES
    cancelled,      \* the AtomicBool
    notified,       \* waiters whose Notified future has been resolved
    waiter,         \* progress of each call of cancelled()
    canceller       \* progress of each call of cancel()

vars == <<cancelled, notified, waiter, canceller>>

TypeOK ==
    /\ cancelled \in BOOLEAN
    /\ notified \in SUBSET Waiter
    /\ waiter \in [Waiter -> {"out", "check", "create", "recheck", "await",
                              "returned"}]
    /\ canceller \in [Canceller -> {"idle", "notify"}]

Init ==
    /\ cancelled = FALSE
    /\ notified = {}
    /\ waiter = [w \in Waiter |-> "out"]
    /\ canceller = [k \in Canceller |-> "idle"]

\* A waiter whose Notified future exists.
HasFuture(w) == waiter[w] \in {"recheck", "await"}

-----------------------------------------------------------------------------
\* Mutant: cancel() wakes the waiters before it stores the flag.
NotifyFirst(k) ==
    /\ canceller[k] = "idle"
    /\ canceller' = [canceller EXCEPT ![k] = "notify"]
    /\ notified' = notified \cup {w \in Waiter : HasFuture(w)}
    /\ UNCHANGED <<cancelled, waiter>>

Store(k) ==
    /\ canceller[k] = "idle"
    /\ canceller' = [canceller EXCEPT ![k] = "notify"]
    /\ cancelled' = TRUE
    /\ UNCHANGED <<notified, waiter>>

\* Mutant: notify_one() instead of notify_waiters().
NotifyOne(k) ==
    /\ canceller[k] = "notify"
    /\ canceller' = [canceller EXCEPT ![k] = "idle"]
    /\ IF \E w \in Waiter : HasFuture(w)
       THEN \E w \in Waiter : HasFuture(w) /\ notified' = notified \cup {w}
       ELSE UNCHANGED notified
    /\ UNCHANGED <<cancelled, waiter>>

NotifyWaiters(k) ==
    /\ canceller[k] = "notify"
    /\ canceller' = [canceller EXCEPT ![k] = "idle"]
    /\ notified' = notified \cup {w \in Waiter : HasFuture(w)}
    /\ UNCHANGED <<cancelled, waiter>>

Call(w) ==
    /\ waiter[w] \in {"out", "returned"}
    /\ waiter' = [waiter EXCEPT ![w] = "check"]
    /\ UNCHANGED <<cancelled, notified, canceller>>

Check(w) ==
    /\ waiter[w] = "check"
    /\ waiter' = [waiter EXCEPT ![w] = IF cancelled THEN "returned" ELSE "create"]
    /\ UNCHANGED <<cancelled, notified, canceller>>

Create(w) ==
    /\ waiter[w] = "create"
    /\ waiter' = [waiter EXCEPT ![w] = "recheck"]
    /\ notified' = notified \ {w}
    /\ UNCHANGED <<cancelled, canceller>>

\* Mutant: the flag is not checked again once the future exists.
NoRecheck(w) ==
    /\ waiter[w] = "recheck"
    /\ waiter' = [waiter EXCEPT ![w] = "await"]
    /\ UNCHANGED <<cancelled, notified, canceller>>

Recheck(w) ==
    /\ waiter[w] = "recheck"
    /\ waiter' = [waiter EXCEPT ![w] = IF cancelled THEN "returned" ELSE "await"]
    /\ UNCHANGED <<cancelled, notified, canceller>>

Await(w) ==
    /\ waiter[w] = "await" /\ w \in notified
    /\ waiter' = [waiter EXCEPT ![w] = "returned"]
    /\ UNCHANGED <<cancelled, notified, canceller>>

\* The select! around the call takes another branch and drops the future.
Drop(w) ==
    /\ waiter[w] = "await"
    /\ waiter' = [waiter EXCEPT ![w] = "out"]
    /\ UNCHANGED <<cancelled, notified, canceller>>

Wait(w) == Check(w) \/ Create(w) \/ Recheck(w) \/ Await(w)

Next ==
    \/ \E k \in Canceller : Store(k) \/ NotifyWaiters(k)
    \/ \E w \in Waiter : Call(w) \/ Wait(w) \/ Drop(w)

\* A call that has begun runs on, as far as it can; nobody has to begin one.
Fairness ==
    /\ \A k \in Canceller : WF_vars(NotifyWaiters(k))
    /\ \A w \in Waiter : WF_vars(Wait(w))

Spec == Init /\ [][Next]_vars

FairSpec == Spec /\ Fairness

-----------------------------------------------------------------------------
\* No wake-up is lost: a task that awaits a cancelled token has been notified,
\* or a call of cancel() is about to notify it.
NoLostWakeup ==
    \A w \in Waiter :
        waiter[w] = "await" /\ cancelled =>
            w \in notified \/ \E k \in Canceller : canceller[k] = "notify"

\* cancelled() returns only on a cancelled token: a resolved future means that
\* cancel() stored the flag first.
ReturnsOnlyCancelled ==
    \A w \in Waiter :
        waiter[w] = "returned" \/ (HasFuture(w) /\ w \in notified) => cancelled

\* The code keeps the promise of module Token.
Promise == INSTANCE Token WITH
    call <- [w \in Waiter |->
        IF waiter[w] \in {"out", "returned"} THEN waiter[w] ELSE "in"]

KeepsPromise == Promise!TokenSpec
=============================================================================
