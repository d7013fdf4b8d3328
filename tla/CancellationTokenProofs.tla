---------------------- MODULE CancellationTokenProofs ----------------------
(***************************************************************************)
(* Proofs about CancellationToken, for any number of waiters and of        *)
(* concurrent calls of cancel().                                           *)
(***************************************************************************)
EXTENDS CancellationToken, TLAPS

\* The properties are inductive once it is known that waiters are only notified
\* after the flag has been stored.
NotifiesAfterStore ==
    \A k \in Canceller : canceller[k] = "notify" => cancelled

TokenInv == TypeOK /\ NotifiesAfterStore /\ NoLostWakeup /\ ReturnsOnlyCancelled

LEMMA TokenInvInit == Init => TokenInv
BY DEF Init, TokenInv, TypeOK, NotifiesAfterStore, NoLostWakeup,
       ReturnsOnlyCancelled, HasFuture

LEMMA TokenInvStep == TokenInv /\ [Next]_vars => TokenInv'
<1> SUFFICES ASSUME TokenInv, [Next]_vars PROVE TokenInv'
  OBVIOUS
<1> USE DEF TokenInv, TypeOK, NotifiesAfterStore, NoLostWakeup,
            ReturnsOnlyCancelled, HasFuture
<1>1. ASSUME NEW k \in Canceller, Store(k) PROVE TokenInv'
  BY <1>1 DEF Store
<1>2. ASSUME NEW k \in Canceller, NotifyWaiters(k) PROVE TokenInv'
  <2>1. cancelled /\ cancelled' = cancelled /\ waiter' = waiter
    BY <1>2 DEF NotifyWaiters
  <2>2. TypeOK' /\ NotifiesAfterStore'
    BY <1>2, <2>1 DEF NotifyWaiters
  <2>3. NoLostWakeup'
    BY <1>2, <2>1 DEF NotifyWaiters
  <2>4. ReturnsOnlyCancelled'
    BY <2>1
  <2> QED
    BY <2>2, <2>3, <2>4
<1>3. ASSUME NEW w \in Waiter, Call(w) PROVE TokenInv'
  BY <1>3 DEF Call
<1>4. ASSUME NEW w \in Waiter, Check(w) PROVE TokenInv'
  BY <1>4 DEF Check
<1>5. ASSUME NEW w \in Waiter, Create(w) PROVE TokenInv'
  BY <1>5 DEF Create
<1>6. ASSUME NEW w \in Waiter, Recheck(w) PROVE TokenInv'
  BY <1>6 DEF Recheck
<1>7. ASSUME NEW w \in Waiter, Await(w) PROVE TokenInv'
  BY <1>7 DEF Await
<1>8. ASSUME NEW w \in Waiter, Drop(w) PROVE TokenInv'
  BY <1>8 DEF Drop
<1>9. CASE UNCHANGED vars
  BY <1>9 DEF vars
<1> QED
  BY <1>1, <1>2, <1>3, <1>4, <1>5, <1>6, <1>7, <1>8, <1>9 DEF Next, Wait

\* cancel() and cancelled() (util.rs:37-52) never lose a wake-up: a task that
\* awaits a cancelled token is notified, or some call of cancel() still will.
THEOREM WakeupNotLost == Spec => []NoLostWakeup
<1>1. Init => TokenInv
  BY TokenInvInit
<1>2. TokenInv /\ [Next]_vars => TokenInv'
  BY TokenInvStep
<1>3. TokenInv => NoLostWakeup
  BY DEF TokenInv
<1> QED
  BY <1>1, <1>2, <1>3, PTL DEF Spec

\* cancelled() (util.rs:43-52) never returns on a token nobody cancelled.
THEOREM NoSpuriousReturn == Spec => []ReturnsOnlyCancelled
<1>1. Init => TokenInv
  BY TokenInvInit
<1>2. TokenInv /\ [Next]_vars => TokenInv'
  BY TokenInvStep
<1>3. TokenInv => ReturnsOnlyCancelled
  BY DEF TokenInv
<1> QED
  BY <1>1, <1>2, <1>3, PTL DEF Spec

-----------------------------------------------------------------------------
\* The flag with its Notify behaves as the single Boolean of module Token: every
\* step of the code is a step of the abstract token or leaves it unchanged.
THEOREM ImplementsToken ==
    Spec => Promise!TokenInit /\ [][Promise!TokenNext]_Promise!tokenVars
<1>1. Init => Promise!TokenInit
  BY DEF Init, Promise!TokenInit
<1>2. TokenInv /\ [Next]_vars
        => [Promise!TokenNext]_Promise!tokenVars
  <2> SUFFICES ASSUME TokenInv, [Next]_vars
               PROVE  [Promise!TokenNext]_Promise!tokenVars
    OBVIOUS
  <2> USE DEF TokenInv, TypeOK, Promise!tokenVars
  <2>1. ASSUME NEW k \in Canceller, Store(k)
        PROVE  Promise!Cancel
    BY <2>1 DEF Store, Promise!Cancel
  <2>2. ASSUME NEW k \in Canceller, NotifyWaiters(k)
        PROVE  UNCHANGED Promise!tokenVars
    BY <2>2 DEF NotifyWaiters
  <2>3. ASSUME NEW w \in Waiter, Call(w)
        PROVE  Promise!Enter(w)
    BY <2>3 DEF Call, Promise!Enter
  <2>4. ASSUME NEW w \in Waiter, Check(w) \/ Create(w) \/ Recheck(w) \/ Await(w)
        PROVE  Promise!Return(w) \/ UNCHANGED Promise!tokenVars
    <3>1. CASE waiter'[w] = "returned"
      BY <2>4, <3>1 DEF Check, Create, Recheck, Await, Promise!Return,
                        ReturnsOnlyCancelled, HasFuture
    <3>2. CASE waiter'[w] # "returned"
      BY <2>4, <3>2 DEF Check, Create, Recheck, Await
    <3> QED
      BY <3>1, <3>2
  <2>5. ASSUME NEW w \in Waiter, Drop(w)
        PROVE  Promise!Abandon(w)
    BY <2>5 DEF Drop, Promise!Abandon
  <2>6. CASE UNCHANGED vars
    BY <2>6 DEF vars
  <2> QED
    BY <2>1, <2>2, <2>3, <2>4, <2>5, <2>6 DEF Next, Wait, Promise!TokenNext
<1>3. Init => TokenInv
  BY TokenInvInit
<1>4. TokenInv /\ [Next]_vars => TokenInv'
  BY TokenInvStep
<1> QED
  BY <1>1, <1>2, <1>3, <1>4, PTL DEF Spec
=============================================================================
