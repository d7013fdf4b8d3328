-------------------------- MODULE TcpClientProofs --------------------------
(***************************************************************************)
(* Proofs about TcpClient, for any number of callers and requests.         *)
(***************************************************************************)
EXTENDS TcpClient, TLAPS

\* The mutex: whoever is in the middle of a call is its holder.
Exclusive ==
    \A p \in Caller : stage[p] \in {"locked", "writing", "reading"} => holder = p

\* The request being waited for, if there is one.
Pending == IF \E p \in Caller : stage[p] = "reading" THEN 1 ELSE 0

\* Every request on the stream has had a response read for it, was given up or
\* is the one being waited for: the stream never loses count.
Counted == sent = taken + abandoned + Pending

\* A stream is torn by a call that gave up.
TornByGivingUp == torn => abandoned > 0

TcpInv == TypeOK /\ Exclusive /\ Counted /\ TornByGivingUp

LEMMA TcpInit == Init => TcpInv
<1> SUFFICES ASSUME Init PROVE TcpInv
  OBVIOUS
<1>1. Pending = 0 /\ Exclusive
  BY DEF Init, Pending, Exclusive
<1>2. TypeOK
  BY DEF Init, TypeOK
<1> QED
  BY <1>1, <1>2 DEF Init, TcpInv, Counted, TornByGivingUp

LEMMA TcpStep == TcpInv /\ [Next]_vars => TcpInv'
<1> SUFFICES ASSUME TcpInv, [Next]_vars PROVE TcpInv'
  OBVIOUS
<1> USE TcpClientAssumption
    DEF TcpInv, TypeOK, Exclusive, Counted, Pending, TornByGivingUp, wireVars
<1>1. ASSUME NEW p \in Caller, Lock(p) PROVE TcpInv'
  BY <1>1 DEF Lock
<1>2. ASSUME NEW p \in Caller, Acquire(p) PROVE TcpInv'
  BY <1>2 DEF Acquire
<1>3. ASSUME NEW p \in Caller, Write(p) PROVE TcpInv'
  BY <1>3 DEF Write
<1>12. ASSUME NEW p \in Caller, Begin(p) PROVE TcpInv'
  BY <1>12 DEF Begin
<1>4. ASSUME NEW p \in Caller, WriteFails(p) \/ ConnectFails(p) PROVE TcpInv'
  BY <1>4 DEF WriteFails, ConnectFails, Return
<1>5. ASSUME NEW p \in Caller, Connect(p) \/ Disconnect(p) PROVE TcpInv'
  <2>1. \A q \in Caller : stage'[q] \notin {"locked", "writing", "reading"}
    BY <1>5 DEF Connect, Disconnect, Reset, Return
  <2>2. stream' \in BOOLEAN /\ alive' \in BOOLEAN /\ jammed' \in BOOLEAN
    BY <1>5, Zenon DEF Connect, Disconnect, Reset
  <2>3. sent' = 0 /\ answered' = 0 /\ taken' = 0 /\ abandoned' = 0 /\ torn' = FALSE
    BY <1>5 DEF Connect, Disconnect, Reset
  <2>4. stage' = [stage EXCEPT ![p] = "idle"] /\ holder' = None
        /\ outcome' = [outcome EXCEPT ![p] = None]
    BY <1>5 DEF Connect, Disconnect, Reset, Return
  <2>5. torn' \in BOOLEAN /\ ~torn'
    BY <2>3
  <2>6. TypeOK'
    BY <2>2, <2>3, <2>4, <2>5
  <2>7. Exclusive'
    BY <2>1
  <2>8. Counted'
    BY <2>1, <2>3
  <2>9. TornByGivingUp'
    BY <2>5
  <2> QED
    BY <2>6, <2>7, <2>8, <2>9
<1>6. ASSUME NEW p \in Caller, Read(p) PROVE TcpInv'
  BY <1>6 DEF Read, Return
<1>7. ASSUME NEW p \in Caller, stage[p] = "reading", GivesUp(p) \/ ReadMixed(p)
      PROVE  TcpInv'
  <2>1. torn' \in BOOLEAN
    BY <1>7 DEF GivesUp, ReadMixed
  <2>2. UNCHANGED <<stream, alive, jammed, sent, answered, taken>> /\ abandoned' = abandoned + 1
    BY <1>7 DEF GivesUp, ReadMixed
  <2>3. /\ stage' = [stage EXCEPT ![p] = "idle"] /\ holder' = None
        /\ outcome' \in [Caller -> [asked : Nat, got : Nat] \cup {None, Failed, Mixed}]
    BY <1>7 DEF GivesUp, ReadMixed, Return
  <2>4. \A q \in Caller : stage'[q] \notin {"locked", "writing", "reading"}
    BY <1>7, <2>3
  <2>5. sent = taken + abandoned + 1
    BY <1>7
  <2> QED
    BY <2>1, <2>2, <2>3, <2>4, <2>5
<1>8. ASSUME NEW p \in Caller, Cancel(p) PROVE TcpInv'
  <2>1. CASE stage[p] = "writing"
    <3>1. /\ stage' = [stage EXCEPT ![p] = "idle"] /\ holder' = None
          /\ outcome' = [outcome EXCEPT ![p] = Failed]
          /\ UNCHANGED <<stream, alive, jammed, answered, taken>>
          /\ \/ UNCHANGED <<sent, abandoned, torn>>
             \/ sent' = sent + 1 /\ abandoned' = abandoned + 1 /\ torn' = TRUE
      BY <1>8, <2>1 DEF Cancel, Return, LeavesPart
    <3>2. \A q \in Caller : /\ stage[q] # "reading"
                            /\ stage'[q] \notin {"locked", "writing", "reading"}
      BY <2>1, <3>1
    <3>3. TypeOK'
      <4>1. torn' \in BOOLEAN
        BY <3>1, Zenon
      <4>2. sent' \in Nat /\ abandoned' \in Nat
        BY <3>1
      <4>3. /\ stage' \in [Caller -> {"idle", "locking", "locked", "writing", "reading"}]
            /\ outcome' \in [Caller -> [asked : Nat, got : Nat] \cup {None, Failed, Mixed}]
        BY <3>1
      <4> QED
        BY <3>1, <4>1, <4>2, <4>3
    <3>4. Exclusive'
      BY <3>2
    <3>5. Counted' /\ TornByGivingUp'
      BY <3>1, <3>2
    <3> QED
      BY <3>3, <3>4, <3>5
  <2>2. CASE stage[p] # "writing"
    BY <1>7, <1>8, <2>2 DEF Cancel
  <2> QED
    BY <2>1, <2>2
<1>9. CASE Answer
  BY <1>9 DEF Answer
<1>10. CASE Break \/ Jam
  <2>1. UNCHANGED <<stream, holder, stage, sent, answered, taken, abandoned, torn, outcome>>
    BY <1>10 DEF Break, Jam
  <2>2. alive' \in BOOLEAN /\ jammed' \in BOOLEAN
    BY <1>10, Zenon DEF Break, Jam
  <2> QED
    BY <2>1, <2>2
<1>11. CASE UNCHANGED vars
  BY <1>11 DEF vars
<1> QED
  BY <1>1, <1>2, <1>3, <1>4, <1>5, <1>6, <1>7, <1>8, <1>9, <1>10, <1>11,
     <1>12 DEF Next, Proceed, ReadFails, TimesOut, ReadMixed

\* A response is off by exactly the number of calls abandoned on the stream, and
\* one in pieces is read only after such a call.
THEOREM OffByAbandonedHolds == Spec => OffByAbandoned
<1> DEFINE Right(p) ==
             IF outcome'[p] = Mixed THEN abandoned > 0
             ELSE outcome'[p].asked = outcome'[p].got + abandoned
           Off(p) ==
             outcome'[p] # outcome[p] /\ outcome'[p] \notin {None, Failed} => Right(p)
<1>1. TcpInv /\ [Next]_vars => [\A p \in Caller : Off(p)]_vars
  <2> SUFFICES ASSUME TcpInv, [Next]_vars, NEW p \in Caller,
                      outcome'[p] # outcome[p], outcome'[p] \notin {None, Failed}
               PROVE  Right(p)
    OBVIOUS
  <2> USE DEF TcpInv, TypeOK, wireVars
  <2>1. ASSUME NEW q \in Caller, Read(q)
        PROVE  Right(p)
    <3>1. sent = taken + abandoned + 1
      BY <2>1 DEF Read, Counted, Pending
    <3>2. p = q /\ outcome'[p] = [asked |-> sent, got |-> taken + 1]
      BY <2>1 DEF Read, Return
    <3>3. outcome'[p] # Mixed
      BY <3>2, TcpClientAssumption
    <3> QED
      BY <3>1, <3>2, <3>3
  <2>2. ASSUME NEW q \in Caller, ReadMixed(q)
        PROVE  Right(p)
    <3>1. p = q /\ outcome'[p] = Mixed /\ torn
      BY <2>2 DEF ReadMixed, Return
    <3> QED
      BY <3>1 DEF TornByGivingUp
  <2>3. ASSUME NEW q \in Caller, ~Read(q), ~ReadMixed(q),
               Lock(q) \/ Acquire(q) \/ Proceed(q) \/ Cancel(q)
        PROVE  FALSE
    BY <2>3 DEF Lock, Acquire, Proceed, Begin, Write, WriteFails, Connect, ConnectFails,
       Disconnect, Reset, ReadFails, TimesOut, Cancel, GivesUp, LeavesPart, Return
  <2>4. ~(Answer \/ Jam \/ Break \/ UNCHANGED vars)
    BY DEF Answer, Jam, Break, vars
  <2> QED
    BY <2>1, <2>2, <2>3, <2>4 DEF Next
<1> QED
  BY <1>1, TcpInit, TcpStep, PTL DEF Spec, OffByAbandoned
=============================================================================
