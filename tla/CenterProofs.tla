---------------------------- MODULE CenterProofs ----------------------------
(***************************************************************************)
(* Proofs about Center, for any number of connections, machines and queued *)
(* events, any hook and any mix of official and third-party clients.       *)
(***************************************************************************)
EXTENDS Center, SequenceTheorems, WellFoundedInduction, TLAPS

-----------------------------------------------------------------------------
(* The player list.                                                        *)

OneHost(list) ==
    \A i, j \in DOMAIN list :
        list[i].kind = "host" /\ list[j].kind = "host" => i = j

\* A non-empty set of naturals has a least member.
LEMMA LeastNat ==
    ASSUME NEW S \in SUBSET Nat, S # {}
    PROVE  \E m \in S : \A k \in S : m <= k
<1> DEFINE R == OpToRel(<, Nat)
<1>1. IsWellFoundedOn(R, Nat)
  BY NatLessThanWellFounded
<1>2. \A j, k \in Nat : <<j, k>> \in R <=> j < k
  BY DEF OpToRel
<1> HIDE DEF R
<1>3. PICK m \in S : \A k \in S : <<k, m>> \notin R
  BY <1>1, WFMin
<1>4. ASSUME NEW k \in S PROVE m <= k
  <2>1. k \in Nat /\ m \in Nat
    OBVIOUS
  <2>2. ~(k < m)
    BY <1>2, <1>3, <2>1
  <2> QED
    BY <2>1, <2>2
<1> QED
  BY <1>3, <1>4

-----------------------------------------------------------------------------
\* A known machine has a first entry.
LEMMA PositionIsFirst ==
    ASSUME NEW list \in Seq(Entry), NEW id, Known(list, id)
    PROVE  /\ Position(list, id) \in 1..Len(list)
           /\ list[Position(list, id)].machine_id = id
           /\ \A j \in 1..(Position(list, id) - 1) : list[j].machine_id # id
<1> DEFINE S == {i \in DOMAIN list : list[i].machine_id = id}
<1>1. DOMAIN list = 1..Len(list) /\ Len(list) \in Nat
  BY LenProperties
<1>2. S \in SUBSET Nat /\ S # {}
  BY <1>1 DEF Known
<1>3. PICK m \in S : \A k \in S : m <= k
  BY <1>2, LeastNat
<1>4. \A j \in 1..(m - 1) : list[j].machine_id # id
  BY <1>1, <1>3
<1> QED
  BY <1>1, <1>3, <1>4 DEF Position

\* RemoveAt shifts the entries behind the removed one.
LEMMA RemoveAtShifts ==
    ASSUME NEW S, NEW list \in Seq(S), NEW p \in 1..Len(list)
    PROVE  /\ RemoveAt(list, p) \in Seq(S)
           /\ Len(RemoveAt(list, p)) = Len(list) - 1
           /\ \A i \in 1..(Len(list) - 1) :
                RemoveAt(list, p)[i] = IF i < p THEN list[i] ELSE list[i + 1]
<1> DEFINE front == SubSeq(list, 1, p - 1)
           back  == SubSeq(list, p + 1, Len(list))
<1>1. Len(list) \in Nat /\ \A i \in 1..Len(list) : list[i] \in S
  BY LenProperties
<1>2. /\ front \in Seq(S) /\ Len(front) = p - 1
      /\ \A i \in 1..(p - 1) : front[i] = list[i]
  <2>1. \A i \in 1..(p - 1) : list[i] \in S
    BY <1>1
  <2> QED
    BY <2>1, <1>1, SubSeqProperties
<1>3. /\ back \in Seq(S) /\ Len(back) = Len(list) - p
      /\ \A i \in 1..(Len(list) - p) : back[i] = list[p + i]
  <2>1. \A i \in (p + 1)..Len(list) : list[i] \in S
    BY <1>1
  <2> QED
    BY <2>1, <1>1, SubSeqProperties
<1> HIDE DEF front, back
<1>4. /\ front \o back \in Seq(S)
      /\ Len(front \o back) = Len(list) - 1
      /\ \A i \in 1..(Len(list) - 1) : (front \o back)[i] =
            IF i <= p - 1 THEN front[i] ELSE back[i - (p - 1)]
  <2>1. /\ front \o back \in Seq(S)
        /\ Len(front \o back) = Len(front) + Len(back)
        /\ \A i \in 1..(Len(front) + Len(back)) : (front \o back)[i] =
              IF i <= Len(front) THEN front[i] ELSE back[i - Len(front)]
    BY <1>2, <1>3, ConcatProperties
  <2>2. Len(front) = p - 1 /\ Len(front) + Len(back) = Len(list) - 1
    BY <1>1, <1>2, <1>3
  <2> QED
    BY <2>1, <2>2
<1>5. RemoveAt(list, p) = front \o back
  BY DEF RemoveAt, front, back
<1> QED
  BY <1>1, <1>2, <1>3, <1>4, <1>5

-----------------------------------------------------------------------------
\* What the proofs need to know of an appended entry.
LEMMA AppendEntry ==
    ASSUME NEW list \in Seq(Entry), NEW e \in Entry
    PROVE  /\ Append(list, e) \in Seq(Entry)
           /\ DOMAIN Append(list, e) = 1..(Len(list) + 1)
           /\ DOMAIN list = 1..Len(list) /\ Len(list) \in Nat
           /\ \A i \in 1..Len(list) : Append(list, e)[i] = list[i]
           /\ Append(list, e)[Len(list) + 1] = e
BY AppendProperties, LenProperties

\* A ping keeps the list well formed and touches neither the host nor any
\* machine but its own.
LEMMA PingedKeeps ==
    ASSUME NEW list \in Seq(Entry), NEW id \in Id
    PROVE  /\ Pinged(list, id) \in Seq(Entry)
           /\ WellFormed(list) => WellFormed(Pinged(list, id))
           /\ OneHost(list) => OneHost(Pinged(list, id))
           /\ HostListed(Pinged(list, id)) <=> HostListed(list)
           /\ \A m : GuestListed(list, m) => GuestListed(Pinged(list, id), m)
           /\ \A m : GuestListed(Pinged(list, id), m)
                        => m = id \/ GuestListed(list, m)
<1> DEFINE e == [machine_id |-> id, kind |-> "guest"]
<1>1. CASE Known(list, id)
  BY <1>1 DEF Pinged
<1>2. CASE ~Known(list, id)
  <2>1. e \in Entry
    BY DEF Entry
  <2> HIDE DEF e
  <2>2. /\ Pinged(list, id) = Append(list, e)
        /\ Pinged(list, id) \in Seq(Entry)
        /\ DOMAIN Pinged(list, id) = 1..(Len(list) + 1)
        /\ DOMAIN list = 1..Len(list) /\ Len(list) \in Nat
        /\ \A i \in 1..Len(list) : Pinged(list, id)[i] = list[i]
        /\ Pinged(list, id)[Len(list) + 1] = e
    BY <1>2, <2>1, AppendEntry DEF Pinged, e
  <2>3. e.kind = "guest" /\ e.machine_id = id
    BY DEF e
  <2>4. \A i \in DOMAIN list : list[i].machine_id # id
    BY <1>2 DEF Known
  <2>5. WellFormed(list) => WellFormed(Pinged(list, id))
    BY <2>2, <2>3, <2>4 DEF WellFormed
  <2>6. OneHost(list) => OneHost(Pinged(list, id))
    BY <2>2, <2>3 DEF OneHost
  <2>7. HostListed(Pinged(list, id)) <=> HostListed(list)
    BY <2>2, <2>3 DEF HostListed
  <2>8. \A m : GuestListed(list, m) => GuestListed(Pinged(list, id), m)
    BY <2>2 DEF GuestListed
  <2>9. \A m : GuestListed(Pinged(list, id), m)
                  => m = id \/ GuestListed(list, m)
    BY <2>2, <2>3 DEF GuestListed
  <2> QED
    BY <2>2, <2>5, <2>6, <2>7, <2>8, <2>9
<1> QED
  BY <1>1, <1>2

\* Pushing the host yields a list of players, whatever the list was.
LEMMA HostJoinedInSeq ==
    ASSUME NEW list \in Seq(Entry)
    PROVE  HostJoined(list) \in Seq(Entry)
<1>1. [machine_id |-> HostMachine, kind |-> "host"] \in Entry
  BY MachineAssumption DEF Entry, Id
<1> QED
  BY <1>1, AppendEntry DEF HostJoined

\* The host's entry keeps the list well formed when it is the only one.
LEMMA HostJoinedKeeps ==
    ASSUME NEW list \in Seq(Entry), WellFormed(list), ~HostListed(list)
    PROVE  /\ HostJoined(list) \in Seq(Entry)
           /\ WellFormed(HostJoined(list))
           /\ OneHost(HostJoined(list))
           /\ HostListed(HostJoined(list))
           /\ \A m : GuestListed(HostJoined(list), m) <=> GuestListed(list, m)
<1> DEFINE e == [machine_id |-> HostMachine, kind |-> "host"]
<1>1. e \in Entry
  BY MachineAssumption DEF Entry, Id
<1> HIDE DEF e
<1>2. /\ HostJoined(list) = Append(list, e)
      /\ HostJoined(list) \in Seq(Entry)
      /\ DOMAIN HostJoined(list) = 1..(Len(list) + 1)
      /\ DOMAIN list = 1..Len(list) /\ Len(list) \in Nat
      /\ \A i \in 1..Len(list) : HostJoined(list)[i] = list[i]
      /\ HostJoined(list)[Len(list) + 1] = e
  BY <1>1, AppendEntry DEF HostJoined, e
<1>3. e.kind = "host" /\ e.machine_id = HostMachine
  BY DEF e
<1>4. \A i \in DOMAIN list : list[i].kind = "guest"
  <2>1. \A i \in DOMAIN list : list[i] \in Entry
    BY <1>2, ElementOfSeq
  <2> QED
    BY <2>1 DEF Entry, HostListed
<1>5. WellFormed(HostJoined(list))
  BY <1>2, <1>3, <1>4 DEF WellFormed
<1>6. OneHost(HostJoined(list))
  BY <1>2, <1>3, <1>4 DEF OneHost
<1>7. HostListed(HostJoined(list))
  BY <1>2, <1>3 DEF HostListed
<1>8. \A m : GuestListed(HostJoined(list), m) <=> GuestListed(list, m)
  <2>1. ASSUME NEW m, GuestListed(HostJoined(list), m)
        PROVE  GuestListed(list, m)
    BY <2>1, <1>2, <1>3 DEF GuestListed
  <2>2. ASSUME NEW m, GuestListed(list, m)
        PROVE  GuestListed(HostJoined(list), m)
    BY <2>2, <1>2 DEF GuestListed
  <2> QED
    BY <2>1, <2>2
<1> QED
  BY <1>2, <1>5, <1>6, <1>7, <1>8

\* Removing a machine yields a list of players, whatever the list was.
LEMMA DisconnectedInSeq ==
    ASSUME NEW list \in Seq(Entry), NEW id
    PROVE  Disconnected(list, id) \in Seq(Entry)
<1>1. CASE Known(list, id) /\ list[Position(list, id)].kind # "host"
  BY <1>1, PositionIsFirst, RemoveAtShifts DEF Disconnected
<1>2. CASE ~(Known(list, id) /\ list[Position(list, id)].kind # "host")
  BY <1>2 DEF Disconnected
<1> QED
  BY <1>1, <1>2

\* A disconnect event removes the guest it names from a well-formed list; the
\* host and the order of the others stay.
LEMMA DisconnectedKeeps ==
    ASSUME NEW list \in Seq(Entry), NEW id \in Id, WellFormed(list)
    PROVE  /\ Disconnected(list, id) \in Seq(Entry)
           /\ WellFormed(Disconnected(list, id))
           /\ OneHost(list) => OneHost(Disconnected(list, id))
           /\ HostListed(Disconnected(list, id)) <=> HostListed(list)
           /\ ~GuestListed(Disconnected(list, id), id)
           /\ \A m : GuestListed(Disconnected(list, id), m)
                        => GuestListed(list, m)
<1> DEFINE p == Position(list, id)
           short == Disconnected(list, id)
<1>0. DOMAIN list = 1..Len(list) /\ Len(list) \in Nat
      /\ \A i \in 1..Len(list) : list[i] \in Entry
  BY LenProperties, ElementOfSeq
<1>1. CASE ~Known(list, id)
  BY <1>1 DEF Disconnected, Known, GuestListed
<1>2. CASE Known(list, id) /\ list[p].kind = "host"
  <2>1. /\ p \in 1..Len(list) /\ list[p].machine_id = id
        /\ \A j \in 1..(p - 1) : list[j].machine_id # id
    BY <1>2, PositionIsFirst
  <2> HIDE DEF p
  <2>2. ASSUME NEW j \in 1..Len(list), list[j].machine_id = id PROVE j = p
    BY <1>0, <1>2, <2>1, <2>2 DEF WellFormed
  <2>3. ~GuestListed(list, id)
    BY <1>0, <1>2, <2>1, <2>2 DEF GuestListed
  <2>4. short = list
    BY <1>2 DEF Disconnected, p
  <2> QED
    BY <2>3, <2>4
<1>3. CASE Known(list, id) /\ list[p].kind # "host"
  <2>1. /\ p \in 1..Len(list) /\ list[p].machine_id = id
        /\ \A j \in 1..(p - 1) : list[j].machine_id # id
    BY <1>3, PositionIsFirst
  <2>2. short = RemoveAt(list, p)
    BY <1>3 DEF Disconnected
  <2> HIDE DEF p, short
  <2>3. /\ short \in Seq(Entry)
        /\ DOMAIN short = 1..(Len(list) - 1)
        /\ \A i \in 1..(Len(list) - 1) :
             short[i] = IF i < p THEN list[i] ELSE list[i + 1]
    <3>1. short \in Seq(Entry) /\ Len(short) = Len(list) - 1
      BY <2>1, <2>2, RemoveAtShifts
    <3>2. DOMAIN short = 1..Len(short)
      BY <3>1, LenProperties
    <3> QED
      BY <2>1, <2>2, <3>1, <3>2, RemoveAtShifts
  <2>4. list[p].kind = "guest"
    BY <1>0, <1>3, <2>1 DEF Entry
  <2> DEFINE from(i) == IF i < p THEN i ELSE i + 1
  <2>5. \A i \in DOMAIN short :
            /\ from(i) \in DOMAIN list /\ short[i] = list[from(i)]
            /\ from(i) # p
            /\ \A j \in DOMAIN short : i < j <=> from(i) < from(j)
    BY <1>0, <2>1, <2>3
  <2>6. \A k \in DOMAIN list : k # p => \E i \in DOMAIN short : short[i] = list[k]
    <3>1. ASSUME NEW k \in DOMAIN list, k # p
          PROVE  \E i \in DOMAIN short : short[i] = list[k]
      <4>1. CASE k < p
        BY <4>1, <1>0, <2>1, <2>3
      <4>2. CASE k > p
        <5>1. k - 1 \in DOMAIN short /\ short[k - 1] = list[k]
          BY <4>2, <1>0, <2>1, <2>3
        <5> QED
          BY <5>1
      <4> QED
        BY <1>0, <2>1, <3>1, <4>1, <4>2
    <3> QED
      BY <3>1
  <2>7. \A i, j \in DOMAIN short : from(i) = from(j) => i = j
    BY <1>0, <2>1, <2>3
  <2> HIDE DEF from
  <2>8. WellFormed(short)
    BY <2>5 DEF WellFormed
  <2>9. OneHost(list) => OneHost(short)
    BY <2>5, <2>7 DEF OneHost
  <2>10. HostListed(short) <=> HostListed(list)
    BY <2>4, <2>5, <2>6 DEF HostListed
  <2>11. ~GuestListed(short, id)
    <3> SUFFICES ASSUME NEW i \in DOMAIN short,
                        short[i].machine_id = id, short[i].kind = "guest"
                 PROVE  FALSE
      BY DEF GuestListed
    <3>1. /\ from(i) \in DOMAIN list /\ from(i) # p
          /\ list[from(i)].machine_id = id /\ list[from(i)].kind = "guest"
      BY <2>5
    <3>2. ~(from(i) < p) /\ from(i) \in Nat
      BY <3>1, <1>0, <2>1
    <3>3. p < from(i)
      BY <3>1, <3>2, <2>1
    <3> QED
      BY <3>1, <3>3, <1>0, <2>1 DEF WellFormed
  <2>12. \A m : GuestListed(short, m) => GuestListed(list, m)
    BY <2>5 DEF GuestListed
  <2> QED
    BY <2>3, <2>8, <2>9, <2>10, <2>11, <2>12 DEF short
<1> QED
  BY <1>1, <1>2, <1>3

-----------------------------------------------------------------------------
(* The center.                                                             *)

\* Types are inductive together with what a task knows of its request: after a
\* successful response it is a ping, and after the heartbeat is recorded the ping
\* has a machine_id.
RequestOK ==
    \A c \in Conn :
        /\ pc[c] = "beating" => PingSucceeds(request[c])
        /\ pc[c] = "mapping" => request[c] \in Id

TypeInv == TypeOK /\ RequestOK

LEMMA TypeInit == Init => TypeInv
<1> SUFFICES ASSUME Init PROVE TypeInv
  OBVIOUS
<1>1. players \in Seq(Entry) /\ events \in Seq(Id)
  BY EmptySeq DEF Init
<1> QED
  BY <1>1 DEF Init, TypeInv, TypeOK, RequestOK

LEMMA TypeStep == TypeInv /\ [Next]_vars => TypeInv'
<1> SUFFICES ASSUME TypeInv, [Next]_vars PROVE TypeInv'
  OBVIOUS
<1> USE CenterAssumption
    DEF TypeInv, TypeOK, RequestOK, PingSucceeds, vars, centerVars,
        registryVars, taskVars, linkVars, sweepVars, kickVars, listVars, Request,
        PingBody
<1>1. CASE StartServer
  BY <1>1 DEF StartServer
<1>2. CASE SpawnServer
  BY <1>2 DEF SpawnServer
<1>3. CASE NetworkFails
  BY <1>3 DEF NetworkFails
<1>4. CASE HostJoins
  <2>1. players' \in Seq(Entry)
    BY <1>4, HostJoinedInSeq DEF HostJoins
  <2> QED
    BY <1>4, <2>1 DEF HostJoins
<1>5. CASE TakeServer
  BY <1>5 DEF TakeServer
<1>6. CASE Bind
  BY <1>6 DEF Bind
<1>7. CASE BindFails
  BY <1>7 DEF BindFails
<1>8. CASE StopServer
  BY <1>8 DEF StopServer
<1>9. CASE PutBack
  BY <1>9 DEF PutBack
<1>10. CASE CloseServer
  BY <1>10 DEF CloseServer
<1>11. CASE CloseCancels
  <2>1. ct' \in BOOLEAN /\ server_ct' \in BOOLEAN
    BY <1>11 DEF CloseCancels
  <2> QED
    BY <1>11, <2>1 DEF CloseCancels
<1>12. CASE CallerCancels
  BY <1>12 DEF CallerCancels
<1>13. ASSUME NEW c \in Conn, NEW r \in Request, Send(c, r) PROVE TypeInv'
  BY <1>13 DEF Send
<1>14. ASSUME NEW c \in Conn, Connect(c) PROVE TypeInv'
  BY <1>14 DEF Connect
<1>15. ASSUME NEW c \in Conn, Break(c) PROVE TypeInv'
  BY <1>15 DEF Break
<1>16. ASSUME NEW c \in Conn, Accept(c) PROVE TypeInv'
  BY <1>16 DEF Accept, Goto
<1>17. ASSUME NEW c \in Conn, RegisterToken(c) PROVE TypeInv'
  BY <1>17 DEF RegisterToken, Goto
<1>18. ASSUME NEW c \in Conn, RegisterIp(c) PROVE TypeInv'
  BY <1>18 DEF RegisterIp, Goto
<1>19. ASSUME NEW c \in Conn, Cancelled(c) PROVE TypeInv'
  BY <1>19 DEF Cancelled, Goto
<1>20. ASSUME NEW c \in Conn, ReadFails(c) PROVE TypeInv'
  BY <1>20 DEF ReadFails, Goto
<1>21. ASSUME NEW c \in Conn, Receive(c) PROVE TypeInv'
  <2>1. players' \in Seq(Entry)
    <3>1. CASE PingLists(inbox[c])
      <4>1. IdOf(inbox[c]) \in Id
        BY <3>1 DEF PingLists, IdOf, Id
      <4> QED
        BY <1>21, <3>1, <4>1, PingedKeeps DEF Receive
    <3>2. CASE ~PingLists(inbox[c])
      BY <1>21, <3>2 DEF Receive
    <3> QED
      BY <3>1, <3>2
  <2>2. inbox[c] \in Request
    BY <1>21 DEF Receive
  <2> QED
    BY <1>21, <2>1, <2>2 DEF Receive, Goto
<1>22. ASSUME NEW c \in Conn, Respond(c) PROVE TypeInv'
  <2>1. PingSucceeds(request[c]) => request'[c] = request[c]
    BY <1>22 DEF Respond
  <2> QED
    BY <1>22, <2>1 DEF Respond, Goto
<1>23. ASSUME NEW c \in Conn, RespondFails(c) PROVE TypeInv'
  <2>1. orphans' \in SUBSET Id
    BY <1>23 DEF RespondFails, PingLists, IdOf, Orphaned, Id
  <2> QED
    BY <1>23, <2>1 DEF RespondFails, Goto
<1>24. ASSUME NEW c \in Conn, RecordHeartbeat(c) PROVE TypeInv'
  <2>1. request[c] # Absent => request[c] \in Id
    BY <1>24 DEF RecordHeartbeat, PingSucceeds
  <2> QED
    BY <1>24, <2>1 DEF RecordHeartbeat, Goto
<1>25. ASSUME NEW c \in Conn, RecordMachine(c) PROVE TypeInv'
  <2>1. request[c] \in Id
    BY <1>25 DEF RecordMachine
  <2>2. orphans' \in SUBSET Id
    BY <1>25 DEF RecordMachine, Orphaned
  <2> QED
    BY <1>25, <2>1, <2>2 DEF RecordMachine, Goto
<1>26. ASSUME NEW c \in Conn, DropToken(c) PROVE TypeInv'
  BY <1>26 DEF DropToken, Goto
<1>27. ASSUME NEW c \in Conn, DropHeartbeat(c) PROVE TypeInv'
  BY <1>27 DEF DropHeartbeat, Goto
<1>28. ASSUME NEW c \in Conn, DropIp(c) PROVE TypeInv'
  BY <1>28 DEF DropIp, Goto
<1>29. ASSUME NEW c \in Conn, Depart(c) PROVE TypeInv'
  <2>1. events' \in Seq(Id)
    BY <1>29, AppendProperties DEF Depart, Leave, Reported, Id
  <2> QED
    BY <1>29, <2>1 DEF Depart, Leave, Vanish, Goto
<1>30. ASSUME NEW c \in Conn, Silence(c) PROVE TypeInv'
  BY <1>30 DEF Silence
<1>31. ASSUME NEW c \in Conn, SweepHeartbeat(c) PROVE TypeInv'
  BY <1>31 DEF SweepHeartbeat
<1>32. CASE Sweep
  BY <1>32 DEF Sweep
<1>33. CASE SweepToken
  BY <1>33 DEF SweepToken, CutConnection
<1>34. CASE SweeperStops
  BY <1>34 DEF SweeperStops
<1>35. CASE DisconnectToken
  BY <1>35 DEF DisconnectToken
<1>36. CASE ClientDisconnected
  <2>1. players' \in Seq(Entry)
    BY <1>36, DisconnectedInSeq DEF ClientDisconnected
  <2>2. events' \in Seq(Id)
    BY <1>36, HeadTailProperties DEF ClientDisconnected
  <2>3. orphans' \in SUBSET Id
    BY <1>36 DEF ClientDisconnected, StillListed
  <2> QED
    BY <1>36, <2>1, <2>2, <2>3 DEF ClientDisconnected
<1>37. ASSUME NEW m \in Machine, DisconnectMachine(m) PROVE TypeInv'
  BY <1>37 DEF DisconnectMachine
<1>38. ASSUME NEW m \in Machine, RemovePlayer(m) PROVE TypeInv'
  <2>1. players' \in Seq(Entry)
    BY <1>38, DisconnectedInSeq DEF RemovePlayer
  <2>2. orphans' \in SUBSET Id
    BY <1>38 DEF RemovePlayer, StillListed
  <2> QED
    BY <1>38, <2>1, <2>2 DEF RemovePlayer
<1>39. CASE UNCHANGED vars
  BY <1>39
<1>40. CASE DisconnectCancels
  BY <1>40 DEF DisconnectCancels
<1> QED
  BY <1>1, <1>2, <1>3, <1>4, <1>5, <1>6, <1>7, <1>8, <1>9, <1>10,
     <1>11, <1>12, <1>13, <1>14, <1>15, <1>16, <1>17, <1>18, <1>19,
     <1>20, <1>21, <1>22, <1>23, <1>24, <1>25, <1>26, <1>27, <1>28,
     <1>29, <1>30, <1>31, <1>32, <1>33, <1>34, <1>35, <1>36, <1>37,
     <1>38, <1>39, <1>40
  DEF Next, StartClose, Task, Client, HeartbeatLoop, Application

\* No step of the center leaves a variable outside its type.
THEOREM TypeCorrect == Spec => []TypeOK
<1>1. TypeInv => TypeOK
  BY DEF TypeInv
<1> QED
  BY <1>1, TypeInit, TypeStep, PTL DEF Spec

-----------------------------------------------------------------------------
(* The registry.  Each map gets its entry for a client_id in one action of *)
(* the task and loses it in another, so the program counter bounds what    *)
(* can be there; a token that is missing in the loop has been cancelled.   *)

EntriesBounded ==
    \A c \in Conn :
        /\ c \in active_clients =>
             InLoop(c) \/ pc[c] \in {"registering", "drop_active"}
        /\ last_heartbeat[c] # "none" =>
             InLoop(c) \/ pc[c] \in {"drop_active", "drop_heartbeat"}
        /\ c \in client_ip =>
             InLoop(c) \/ pc[c] \in {"drop_active", "drop_heartbeat", "drop_ip"}
        /\ client_machine[c] # None =>
             InLoop(c) \/ pc[c] \in {"drop_active", "drop_heartbeat", "drop_ip",
                                     "drop_machine"}

TokenKept ==
    \A c \in Conn :
        InLoop(c) \/ pc[c] = "registering" =>
            c \in active_clients \/ conn_ct[c] \/ cutting = c

\* Before its machine is recorded the heartbeat already is.
BeatKept ==
    \A c \in Conn :
        (InLoop(c) /\ client_machine[c] # None) \/ pc[c] = "mapping" =>
            last_heartbeat[c] # "none" \/ c \in {victim, cutting} \/ conn_ct[c]

\* disconnect_machine holds the slot: it deals with one connection at a time.
OneKick == kick = None \/ cutting = None

RegistryInv == EntriesBounded /\ TokenKept /\ BeatKept /\ OneKick

LEMMA RegistryInit == Init => RegistryInv
BY CenterAssumption
   DEF Init, RegistryInv, EntriesBounded, TokenKept, BeatKept, OneKick, InLoop

\* The loop cancels the token it removes, and no other.
LEMMA SweepCancels ==
    ASSUME TypeInv, SweepToken, NEW c \in Conn
    PROVE  conn_ct'[c] <=> conn_ct[c] \/ (c = victim /\ c \in active_clients)
<1>1. conn_ct' = [conn_ct EXCEPT ![victim] = conn_ct[victim] \/ victim \in active_clients]
      /\ conn_ct \in [Conn -> BOOLEAN]
  BY DEF SweepToken, CutConnection, TypeInv, TypeOK
<1>2. CASE c = victim
  BY <1>1, <1>2, Zenon
<1>3. CASE c # victim
  BY <1>1, <1>3, Zenon
<1> QED
  BY <1>2, <1>3

LEMMA RegistryStep == TypeInv /\ RegistryInv /\ [Next]_vars => RegistryInv'
<1> SUFFICES ASSUME TypeInv, RegistryInv, [Next]_vars PROVE RegistryInv'
  OBVIOUS
<1> USE CenterAssumption
    DEF TypeInv, TypeOK, RegistryInv, EntriesBounded, TokenKept, BeatKept, OneKick,
        SlotFree, InLoop, vars, centerVars, registryVars, taskVars, linkVars, sweepVars,
        kickVars, listVars
<1>1. CASE StartServer
  BY <1>1 DEF StartServer
<1>2. CASE SpawnServer
  BY <1>2 DEF SpawnServer
<1>3. CASE NetworkFails
  BY <1>3 DEF NetworkFails
<1>4. CASE HostJoins
  BY <1>4 DEF HostJoins
<1>5. CASE TakeServer
  BY <1>5 DEF TakeServer
<1>6. CASE Bind
  BY <1>6 DEF Bind
<1>7. CASE BindFails
  BY <1>7 DEF BindFails
<1>8. CASE StopServer
  BY <1>8 DEF StopServer
<1>9. CASE PutBack
  BY <1>9 DEF PutBack
<1>10. CASE CloseServer
  BY <1>10 DEF CloseServer
<1>11. CASE CloseCancels
  BY <1>11 DEF CloseCancels
<1>12. CASE CallerCancels
  BY <1>12 DEF CallerCancels
<1>13. ASSUME NEW c \in Conn, NEW r \in Request, Send(c, r) PROVE RegistryInv'
  BY <1>13 DEF Send
<1>14. ASSUME NEW c \in Conn, Connect(c) PROVE RegistryInv'
  BY <1>14 DEF Connect
<1>15. ASSUME NEW c \in Conn, Break(c) PROVE RegistryInv'
  BY <1>15 DEF Break
<1>16. ASSUME NEW c \in Conn, Accept(c) PROVE RegistryInv'
  BY <1>16 DEF Accept, Goto
<1>17. ASSUME NEW c \in Conn, RegisterToken(c) PROVE RegistryInv'
  BY <1>17 DEF RegisterToken, Goto
<1>18. ASSUME NEW c \in Conn, RegisterIp(c) PROVE RegistryInv'
  <2>1. EntriesBounded'
    BY <1>18 DEF RegisterIp, Goto
  <2>2. TokenKept'
    BY <1>18 DEF RegisterIp, Goto
  <2>3. BeatKept' /\ OneKick'
    BY <1>18 DEF RegisterIp, Goto
  <2> QED
    BY <2>1, <2>2, <2>3
<1>19. ASSUME NEW c \in Conn, Cancelled(c) PROVE RegistryInv'
  BY <1>19 DEF Cancelled, Goto
<1>20. ASSUME NEW c \in Conn, ReadFails(c) PROVE RegistryInv'
  BY <1>20 DEF ReadFails, Goto
<1>21. ASSUME NEW c \in Conn, Receive(c) PROVE RegistryInv'
  BY <1>21 DEF Receive, Goto
<1>22. ASSUME NEW c \in Conn, Respond(c) PROVE RegistryInv'
  BY <1>22 DEF Respond, Goto
<1>23. ASSUME NEW c \in Conn, RespondFails(c) PROVE RegistryInv'
  BY <1>23 DEF RespondFails, Goto
<1>24. ASSUME NEW c \in Conn, RecordHeartbeat(c) PROVE RegistryInv'
  BY <1>24 DEF RecordHeartbeat, Goto
<1>25. ASSUME NEW c \in Conn, RecordMachine(c) PROVE RegistryInv'
  BY <1>25 DEF RecordMachine, Goto
<1>26. ASSUME NEW c \in Conn, DropToken(c) PROVE RegistryInv'
  BY <1>26 DEF DropToken, Goto
<1>27. ASSUME NEW c \in Conn, DropHeartbeat(c) PROVE RegistryInv'
  BY <1>27 DEF DropHeartbeat, Goto
<1>28. ASSUME NEW c \in Conn, DropIp(c) PROVE RegistryInv'
  BY <1>28 DEF DropIp, Goto
<1>29. ASSUME NEW c \in Conn, Depart(c) PROVE RegistryInv'
  BY <1>29 DEF Depart, Leave, Vanish, Reported, Goto
<1>30. ASSUME NEW c \in Conn, Silence(c) PROVE RegistryInv'
  BY <1>30 DEF Silence
<1>31. ASSUME NEW c \in Conn, SweepHeartbeat(c) PROVE RegistryInv'
  BY <1>31 DEF SweepHeartbeat
<1>32. CASE Sweep
  BY <1>32 DEF Sweep
<1>33. CASE SweepToken
  <2>1. /\ victim \in Conn /\ active_clients' = active_clients \ {victim}
        /\ pc' = pc /\ victim' = None /\ kick' = kick /\ cutting' = cutting
    BY <1>33 DEF SweepToken, CutConnection
  <2>2. /\ last_heartbeat' = last_heartbeat /\ client_ip' = client_ip
        /\ client_machine' = client_machine
    BY <1>33 DEF SweepToken
  <2>3. ASSUME NEW c \in Conn
        PROVE  conn_ct'[c] <=> conn_ct[c] \/ (c = victim /\ c \in active_clients)
    BY <1>33, SweepCancels
  <2>4. EntriesBounded'
    BY <2>1, <2>2
  <2>5. TokenKept'
    <3> SUFFICES ASSUME NEW c \in Conn, InLoop(c) \/ pc[c] = "registering"
                 PROVE  c \in active_clients' \/ conn_ct'[c] \/ cutting = c
      BY <2>1
    <3>1. c \in active_clients \/ conn_ct[c] \/ cutting = c
      OBVIOUS
    <3> QED
      BY <2>1, <2>3, <3>1
  <2>6. BeatKept'
    <3> SUFFICES ASSUME NEW c \in Conn,
                        (InLoop(c) /\ client_machine[c] # None) \/ pc[c] = "mapping"
                 PROVE  last_heartbeat[c] # "none" \/ cutting = c \/ conn_ct'[c]
      BY <2>1, <2>2
    <3>1. last_heartbeat[c] # "none" \/ c \in {victim, cutting} \/ conn_ct[c]
      OBVIOUS
    <3>2. c \in active_clients \/ conn_ct[c] \/ cutting = c
      OBVIOUS
    <3> QED
      BY <2>1, <2>3, <3>1, <3>2
  <2>7. OneKick'
    BY <2>1
  <2> QED
    BY <2>4, <2>5, <2>6, <2>7
<1>34. CASE SweeperStops
  BY <1>34 DEF SweeperStops
<1>35. CASE DisconnectToken
  <2>1. /\ kick \in Conn /\ cutting = None /\ kick' = None
        /\ active_clients' = active_clients \ {kick}
        /\ cutting' = IF kick \in active_clients THEN kick ELSE None
        /\ UNCHANGED <<pc, conn_ct, last_heartbeat, client_ip, client_machine, victim>>
    BY <1>35 DEF DisconnectToken
  <2>2. EntriesBounded' /\ OneKick'
    BY <2>1
  <2>3. TokenKept'
    BY <2>1
  <2>4. BeatKept'
    BY <2>1
  <2> QED
    BY <2>2, <2>3, <2>4
<1>40. CASE DisconnectCancels
  <2>1. /\ cutting \in Conn /\ cutting' = None /\ conn_ct'[cutting]
        /\ \A c \in Conn : conn_ct[c] => conn_ct'[c]
        /\ UNCHANGED <<pc, active_clients, last_heartbeat, client_ip, client_machine, victim>>
    BY <1>40 DEF DisconnectCancels
  <2>2. EntriesBounded' /\ OneKick'
    BY <2>1
  <2>3. TokenKept'
    BY <2>1
  <2>4. BeatKept'
    BY <2>1
  <2> QED
    BY <2>2, <2>3, <2>4
<1>36. CASE ClientDisconnected
  BY <1>36 DEF ClientDisconnected
<1>37. ASSUME NEW m \in Machine, DisconnectMachine(m) PROVE RegistryInv'
  BY <1>37 DEF DisconnectMachine
<1>38. ASSUME NEW m \in Machine, RemovePlayer(m) PROVE RegistryInv'
  BY <1>38 DEF RemovePlayer
<1>39. CASE UNCHANGED vars
  BY <1>39
<1> QED
  BY <1>1, <1>2, <1>3, <1>4, <1>5, <1>6, <1>7, <1>8, <1>9, <1>10,
     <1>11, <1>12, <1>13, <1>14, <1>15, <1>16, <1>17, <1>18, <1>19,
     <1>20, <1>21, <1>22, <1>23, <1>24, <1>25, <1>26, <1>27, <1>28,
     <1>29, <1>30, <1>31, <1>32, <1>33, <1>34, <1>35, <1>36, <1>37,
     <1>38, <1>39, <1>40
  DEF Next, StartClose, Task, Client, HeartbeatLoop, Application

\* The registry, for the types and the registry invariant together.
LEMMA RegistryAlways == Spec => [](TypeInv /\ RegistryInv)
BY TypeInit, TypeStep, RegistryInit, RegistryStep, PTL DEF Spec

\* A connection task that has ended leaves nothing in any map of ClientRegistry.
THEOREM RegistryIsClean == Spec => []RegistryClean
<1>1. RegistryInv => RegistryClean
  BY DEF RegistryInv, EntriesBounded, InLoop, RegistryClean
<1> QED
  BY <1>1, RegistryAlways, PTL

\* A task in its loop can be stopped through the registry or is being stopped.
THEOREM TasksStayCancellable == Spec => []TasksCancellable
<1>1. RegistryInv => TasksCancellable
  BY DEF RegistryInv, TokenKept, TasksCancellable
<1> QED
  BY <1>1, RegistryAlways, PTL

\* A connection with a registered machine is under the 15 s rule, or is being cut.
THEOREM RegisteredStayWatched == Spec => []RegisteredWatched
<1>1. RegistryInv => RegisteredWatched
  BY DEF RegistryInv, BeatKept, RegisteredWatched
<1> QED
  BY <1>1, RegistryAlways, PTL

-----------------------------------------------------------------------------
(* The player list.                                                        *)

ListInv ==
    /\ WellFormed(players) /\ OneHost(players)
    /\ HostListed(players) <=> starting = "done"

LEMMA ListInit == Init => ListInv
BY DEF Init, ListInv, WellFormed, OneHost, HostListed

\* What the other steps have in common: they leave the list to itself.
LEMMA ListWriters ==
    [Next]_vars =>
        \/ HostJoins \/ ClientDisconnected
        \/ \E c \in Conn : Receive(c)
        \/ \E m \in Machine : RemovePlayer(m)
        \/ players' = players /\ (starting' = "done" <=> starting = "done")
<1> SUFFICES ASSUME [Next]_vars,
                    ~HostJoins, ~ClientDisconnected,
                    ~\E c \in Conn : Receive(c),
                    ~\E m \in Machine : RemovePlayer(m)
             PROVE  players' = players /\ (starting' = "done" <=> starting = "done")
  OBVIOUS
<1> USE DEF vars, centerVars, listVars
<1>1. CASE StartClose
  BY <1>1 DEF StartClose, StartServer, SpawnServer, NetworkFails, TakeServer,
     Bind, BindFails, StopServer, PutBack, CloseServer, CloseCancels
<1>2. ASSUME NEW c \in Conn, Client(c) \/ Accept(c) \/ Silence(c)
      PROVE  players' = players /\ starting' = starting
  BY <1>2 DEF Client, Connect, Send, Break, Accept, Silence
<1>3. ASSUME NEW c \in Conn, Task(c)
      PROVE  players' = players /\ starting' = starting
  BY <1>3 DEF Task, RegisterToken, RegisterIp, Cancelled, ReadFails, Respond,
     RespondFails, RecordHeartbeat, RecordMachine, DropToken, DropHeartbeat,
     DropIp, Depart, Leave, Vanish
<1>4. CASE HeartbeatLoop
  BY <1>4 DEF HeartbeatLoop, Sweep, SweepHeartbeat, SweepToken, SweeperStops
<1>5. CASE Application
  BY <1>5 DEF Application, CallerCancels, DisconnectMachine, DisconnectToken,
     DisconnectCancels
<1>6. CASE UNCHANGED vars
  BY <1>6
<1> QED
  BY <1>1, <1>2, <1>3, <1>4, <1>5, <1>6 DEF Next

\* The machine a ping puts on the list, and the one an event takes off, are Ids.
LEMMA PingNamesId ==
    ASSUME NEW r \in Request, PingLists(r)
    PROVE  IdOf(r) \in Id
BY DEF PingLists, IdOf, PingBody, Id

LEMMA EventNamesId ==
    ASSUME TypeInv, ClientDisconnected
    PROVE  Head(events) \in Id
BY HeadTailProperties DEF TypeInv, TypeOK, ClientDisconnected

LEMMA ListStep == TypeInv /\ ListInv /\ [Next]_vars => ListInv'
<1> SUFFICES ASSUME TypeInv, ListInv, [Next]_vars PROVE ListInv'
  OBVIOUS
<1>0. players \in Seq(Entry)
  BY DEF TypeInv, TypeOK
<1>1. CASE HostJoins
  <2>1. ~HostListed(players) /\ starting' = "done"
        /\ players' = HostJoined(players)
    BY <1>1 DEF HostJoins, ListInv
  <2> QED
    BY <1>0, <2>1, HostJoinedKeeps DEF ListInv
<1>2. CASE ClientDisconnected
  <2>1. starting' = starting
    BY <1>2 DEF ClientDisconnected, centerVars
  <2>2. CASE players' = players
    BY <2>1, <2>2 DEF ListInv
  <2>3. CASE players' = Disconnected(players, Head(events))
    BY <1>0, <1>2, <2>1, <2>3, EventNamesId, DisconnectedKeeps DEF ListInv
  <2> QED
    BY <1>2, <2>2, <2>3 DEF ClientDisconnected
<1>3. ASSUME NEW c \in Conn, Receive(c) PROVE ListInv'
  <2>1. starting' = starting /\ inbox[c] \in Request
    BY <1>3 DEF Receive, centerVars, TypeInv, TypeOK
  <2>2. CASE PingLists(inbox[c])
    <3>1. players' = Pinged(players, IdOf(inbox[c]))
      BY <1>3, <2>2 DEF Receive
    <3> QED
      BY <1>0, <2>1, <2>2, <3>1, PingNamesId, PingedKeeps DEF ListInv
  <2>3. CASE ~PingLists(inbox[c])
    BY <1>3, <2>1, <2>3 DEF Receive, ListInv
  <2> QED
    BY <2>2, <2>3
<1>4. ASSUME NEW m \in Machine, RemovePlayer(m) PROVE ListInv'
  <2>1. starting' = starting /\ players' = Disconnected(players, m) /\ m \in Id
    BY <1>4 DEF RemovePlayer, centerVars, Id
  <2> QED
    BY <1>0, <2>1, DisconnectedKeeps DEF ListInv
<1>5. CASE players' = players /\ (starting' = "done" <=> starting = "done")
  BY <1>5 DEF ListInv
<1> QED
  BY <1>1, <1>2, <1>3, <1>4, <1>5, ListWriters

LEMMA ListAlways == Spec => [](TypeInv /\ ListInv)
BY TypeInit, TypeStep, ListInit, ListStep, PTL DEF Spec

\* No machine_id is on the list twice, the host's excepted as stated.
THEOREM ListStaysWellFormed == Spec => []ListWellFormed
<1>1. ListInv => ListWellFormed
  BY DEF ListInv, ListWellFormed
<1> QED
  BY <1>1, ListAlways, PTL

\* The host is on the list, once, from the end of start() on: no client, event
\* or call of remove_player takes it off.
THEOREM HostStaysOnList == Spec => []HostOnList
<1>1. ListInv => HostOnList
  BY DEF ListInv, OneHost, HostOnList
<1> QED
  BY <1>1, ListAlways, PTL

-----------------------------------------------------------------------------
(* Ghost players.  A listed guest is accounted for by a registered machine, *)
(* by a ping under way or by a queued event; the actions that end one of    *)
(* these either start the next or record an orphan.                         *)

\* Only machines the hook lets the handler list are listed.
ListedByHook ==
    \A m \in Machine : GuestListed(players, m) => Verdict[m] = "list"

GhostInv == GuestsAccounted /\ ListedByHook

LEMMA GhostInit == Init => GhostInv
BY DEF Init, GhostInv, GuestsAccounted, ListedByHook, GuestListed

Answering(c) == pc[c] \in {"writing", "beating", "mapping"}

\* A step that ends no ping, queues or takes no event, and unregisters nobody
\* keeps every guest accounted for.
LEMMA GhostQuiet ==
    ASSUME GhostInv,
           players' = players, events' = events, orphans' = orphans,
           client_machine' = client_machine,
           \A c \in Conn : Answering(c) =>
               pc'[c] \in {"writing", "beating", "mapping"}
               /\ request'[c] = request[c]
    PROVE  GhostInv'
BY DEF GhostInv, GuestsAccounted, ListedByHook, Accounted, Answering

\* A step that takes guests off the list, and an event that names one of those
\* taken off or nobody, keep the others accounted for.
LEMMA GhostRemoval ==
    ASSUME GhostInv,
           \A m \in Machine : GuestListed(players', m) =>
               /\ GuestListed(players, m)
               /\ \A i \in DOMAIN events : events[i] = m =>
                     \E j \in DOMAIN events' : events'[j] = m,
           \A m \in Machine :
               GuestListed(players', m) /\ m \in orphans => m \in orphans',
           UNCHANGED <<client_machine, pc, request>>
    PROVE  GhostInv'
BY DEF GhostInv, GuestsAccounted, ListedByHook, Accounted

LEMMA GhostStep ==
    TypeInv /\ ListInv /\ GhostInv /\ [Next]_vars => GhostInv'
<1> SUFFICES ASSUME TypeInv, ListInv, GhostInv, [Next]_vars PROVE GhostInv'
  OBVIOUS
<1>0. players \in Seq(Entry)
  BY DEF TypeInv, TypeOK
<1> USE DEF vars, centerVars, registryVars, taskVars, linkVars, sweepVars,
            listVars
<1>1. CASE HostJoins
  <2>1. \A m : GuestListed(players', m) <=> GuestListed(players, m)
    BY <1>0, <1>1, HostJoinedKeeps DEF HostJoins, ListInv
  <2> QED
    BY <1>1, <2>1, GhostRemoval DEF HostJoins
<1>2. CASE StartClose /\ ~HostJoins
  BY <1>2, GhostQuiet DEF StartClose, StartServer, SpawnServer, NetworkFails,
     TakeServer, Bind, BindFails, StopServer, PutBack, CloseServer,
     CloseCancels, Answering, TypeInv, TypeOK
<1>3. ASSUME NEW c \in Conn, Client(c) \/ Accept(c) \/ Silence(c)
      PROVE  GhostInv'
  BY <1>3, GhostQuiet DEF Client, Connect, Send, Break, Accept, Silence, Goto,
     Answering, TypeInv, TypeOK
<1>4. ASSUME NEW c \in Conn,
             \/ RegisterToken(c) \/ RegisterIp(c) \/ Cancelled(c) \/ ReadFails(c)
             \/ DropToken(c) \/ DropHeartbeat(c) \/ DropIp(c)
      PROVE  GhostInv'
  BY <1>4, GhostQuiet DEF RegisterToken, RegisterIp, Cancelled, ReadFails,
     DropToken, DropHeartbeat, DropIp, Goto, Answering, TypeInv, TypeOK
<1>5. ASSUME NEW c \in Conn, Receive(c) PROVE GhostInv'
  <2>1. inbox[c] \in Request /\ pc[c] = "reading"
    BY <1>5 DEF Receive, TypeInv, TypeOK
  <2>2. CASE ~PingLists(inbox[c])
    BY <1>5, <2>1, <2>2 DEF Receive, Goto, GhostInv, GuestsAccounted,
       ListedByHook, Accounted, TypeInv, TypeOK
  <2>3. CASE PingLists(inbox[c])
    <3>1. players' = Pinged(players, IdOf(inbox[c]))
      BY <1>5, <2>3 DEF Receive
    <3>2. \A m : GuestListed(players', m)
                    => m = IdOf(inbox[c]) \/ GuestListed(players, m)
      BY <1>0, <2>1, <2>3, <3>1, PingNamesId, PingedKeeps
    <3>3. ASSUME NEW m \in Machine, m = IdOf(inbox[c])
          PROVE  m = inbox[c] /\ Verdict[m] = "list"
      BY <2>3, <3>3, MachineAssumption DEF IdOf, PingLists
    <3> QED
      BY <1>5, <2>1, <3>2, <3>3 DEF Receive, Goto, GhostInv, GuestsAccounted,
         ListedByHook, Accounted, TypeInv, TypeOK
  <2> QED
    BY <2>2, <2>3
<1>6. ASSUME NEW c \in Conn, Respond(c) PROVE GhostInv'
  <2>1. ASSUME NEW m \in Machine, GuestListed(players, m), request[c] = m
        PROVE  PingSucceeds(request[c])
    BY <2>1, CenterAssumption
       DEF PingSucceeds, PingBody, IdOf, GhostInv, ListedByHook, Id
  <2> QED
    BY <1>6, <2>1
       DEF Respond, Goto, GhostInv, GuestsAccounted, ListedByHook, Accounted,
           TypeInv, TypeOK
<1>7. ASSUME NEW c \in Conn, RespondFails(c) PROVE GhostInv'
  <2>1. ASSUME NEW m \in Machine, GuestListed(players, m), request[c] = m
        PROVE  PingLists(request[c]) /\ IdOf(request[c]) = m
    BY <2>1, CenterAssumption
       DEF PingLists, PingBody, IdOf, GhostInv, ListedByHook, Id
  <2>2. orphans \subseteq orphans'
    BY <1>7 DEF RespondFails, Orphaned
  <2>3. ASSUME NEW m \in Machine, GuestListed(players, m), request[c] = m
        PROVE  client_machine[c] = m \/ m \in orphans'
    BY <1>7, <2>1, <2>3 DEF RespondFails, Orphaned
  <2> QED
    BY <1>7, <2>2, <2>3
       DEF RespondFails, Goto, GhostInv, GuestsAccounted, ListedByHook,
           Accounted, TypeInv, TypeOK
<1>8. ASSUME NEW c \in Conn, RecordHeartbeat(c) PROVE GhostInv'
  BY <1>8, CenterAssumption
     DEF RecordHeartbeat, Goto, GhostInv, GuestsAccounted, ListedByHook,
         Accounted, TypeInv, TypeOK, Id
<1>9. ASSUME NEW c \in Conn, RecordMachine(c) PROVE GhostInv'
  <2>1. orphans \subseteq orphans'
    BY <1>9 DEF RecordMachine, Orphaned
  <2>2. ASSUME NEW m \in Machine, GuestListed(players, m), client_machine[c] = m
        PROVE  request[c] = m \/ m \in orphans'
    BY <1>9, <2>2, CenterAssumption
       DEF RecordMachine, Orphaned, Request, PingBody, Id
  <2> QED
    BY <1>9, <2>1, <2>2
       DEF RecordMachine, Goto, GhostInv, GuestsAccounted, ListedByHook,
           Accounted, TypeInv, TypeOK
<1>10. ASSUME NEW c \in Conn, Depart(c) PROVE GhostInv'
  <2>1. /\ Reported(c) \in Id /\ events \in Seq(Id)
        /\ events' = Append(events, Reported(c))
    BY <1>10 DEF Depart, Leave, Reported, TypeInv, TypeOK, Id
  <2>2. ASSUME NEW m \in Machine PROVE client_machine[c] = m => Reported(c) = m
    BY CenterAssumption DEF Reported, Request, PingBody, Id
  <2>3. /\ DOMAIN events' = 1..(Len(events) + 1) /\ Len(events) \in Nat
        /\ DOMAIN events = 1..Len(events)
        /\ \A i \in 1..Len(events) : events'[i] = events[i]
        /\ events'[Len(events) + 1] = Reported(c)
    BY <2>1, AppendProperties, LenProperties
  <2>4. ASSUME NEW m \in Machine, Accounted(m) PROVE Accounted(m)'
    <3>1. CASE client_machine[c] = m
      BY <2>2, <2>3, <3>1 DEF Accounted
    <3>2. CASE \E i \in DOMAIN events : events[i] = m
      BY <2>3, <3>2 DEF Accounted
    <3>3. CASE client_machine[c] # m /\ ~\E i \in DOMAIN events : events[i] = m
      BY <1>10, <2>4, <3>3 DEF Accounted, Depart, Leave, Vanish, Goto, TypeInv, TypeOK
    <3> QED
      BY <3>1, <3>2, <3>3
  <2> QED
    BY <1>10, <2>4 DEF Depart, Leave, Vanish, GhostInv, GuestsAccounted, ListedByHook
<1>11. CASE HeartbeatLoop
  BY <1>11, GhostQuiet DEF HeartbeatLoop, Sweep, SweepHeartbeat, SweepToken,
     CutConnection, SweeperStops, Answering
<1>12. CASE CallerCancels \/ DisconnectToken \/ DisconnectCancels
              \/ \E m \in Machine : DisconnectMachine(m)
  BY <1>12, GhostQuiet
     DEF CallerCancels, DisconnectMachine, DisconnectToken, DisconnectCancels, Answering
<1>13. ASSUME NEW m \in Machine, RemovePlayer(m) PROVE GhostInv'
  <2>1. players' = Disconnected(players, m) /\ m \in Id
    BY <1>13 DEF RemovePlayer, Id
  <2>2. \A n : GuestListed(players', n) => GuestListed(players, n)
    BY <1>0, <2>1, DisconnectedKeeps DEF ListInv
  <2> QED
    BY <1>13, <2>2, GhostRemoval DEF RemovePlayer, StillListed
<1>14. CASE ClientDisconnected
  <2>1. events \in Seq(Id) /\ events # <<>> /\ events' = Tail(events)
    BY <1>14 DEF ClientDisconnected, TypeInv, TypeOK
  <2>2. \A n \in Machine : GuestListed(players', n) =>
            GuestListed(players, n) /\ Head(events) # n
    <3>1. CASE Head(events) = NoMachine
      BY <1>14, <3>1, MachineAssumption DEF ClientDisconnected
    <3>2. CASE Head(events) # NoMachine
      BY <1>0, <1>14, <3>2, EventNamesId, DisconnectedKeeps
         DEF ClientDisconnected, ListInv
    <3> QED
      BY <3>1, <3>2
  <2>3. ASSUME NEW n, n # Head(events), NEW i \in DOMAIN events, events[i] = n
        PROVE  \E j \in DOMAIN events' : events'[j] = n
    <3>1. /\ Len(events) \in Nat /\ DOMAIN events = 1..Len(events)
          /\ Len(events') = Len(events) - 1 /\ DOMAIN events' = 1..(Len(events) - 1)
          /\ \A j \in 1..(Len(events) - 1) : events'[j] = events[j + 1]
          /\ Head(events) = events[1]
      BY <2>1, LenProperties, HeadTailProperties
    <3>2. i # 1 /\ i - 1 \in DOMAIN events' /\ events'[i - 1] = n
      BY <2>3, <3>1
    <3> QED
      BY <3>2
  <2> QED
    BY <1>14, <2>2, <2>3, GhostRemoval DEF ClientDisconnected, StillListed
<1>15. CASE UNCHANGED vars
  BY <1>15, GhostQuiet DEF Answering
<1> QED
  BY <1>1, <1>2, <1>3, <1>4, <1>5, <1>6, <1>7, <1>8, <1>9, <1>10, <1>11, <1>12,
     <1>13, <1>14, <1>15 DEF Next, Task, Application

\* A guest on the list is never forgotten, except after a response that could not
\* be written or a connection that reported a second machine.
THEOREM GuestsStayAccounted == Spec => []GuestsAccounted
<1>1. GhostInv => GuestsAccounted
  BY DEF GhostInv
<1> QED
  BY <1>1, TypeInit, TypeStep, ListInit, ListStep, GhostInit, GhostStep, PTL
     DEF Spec
-----------------------------------------------------------------------------
(* The center keeps the room it promises.                                  *)

\* The removed entry is the only one that goes.
LEMMA RemoveAtOthers ==
    ASSUME NEW S, NEW list \in Seq(S), NEW p \in 1..Len(list)
    PROVE  /\ \A i \in DOMAIN RemoveAt(list, p) :
                \E k \in DOMAIN list : RemoveAt(list, p)[i] = list[k]
           /\ \A k \in DOMAIN list : k # p =>
                \E i \in DOMAIN RemoveAt(list, p) : RemoveAt(list, p)[i] = list[k]
<1> DEFINE short == RemoveAt(list, p)
<1>1. /\ Len(list) \in Nat /\ DOMAIN list = 1..Len(list)
      /\ DOMAIN short = 1..(Len(list) - 1)
      /\ \A i \in 1..(Len(list) - 1) : short[i] = IF i < p THEN list[i] ELSE list[i + 1]
  BY RemoveAtShifts, LenProperties
<1> HIDE DEF short
<1>2. ASSUME NEW i \in DOMAIN short PROVE \E k \in DOMAIN list : short[i] = list[k]
  <2>1. i \in DOMAIN list /\ i + 1 \in DOMAIN list
    BY <1>1
  <2> QED
    BY <1>1, <2>1
<1>3. ASSUME NEW k \in DOMAIN list, k # p
      PROVE  \E i \in DOMAIN short : short[i] = list[k]
  <2>1. CASE k < p
    <3>1. k \in DOMAIN short
      BY <1>1, <2>1
    <3> QED
      BY <1>1, <2>1, <3>1
  <2>2. CASE ~(k < p)
    <3>1. k - 1 \in DOMAIN short /\ ~(k - 1 < p) /\ (k - 1) + 1 = k
      BY <1>1, <1>3, <2>2
    <3> QED
      BY <1>1, <3>1
  <2> QED
    BY <2>1, <2>2
<1> QED
  BY <1>2, <1>3 DEF short

\* Nobody but the host has the kind of the host.
HostNamed(list) ==
    \A i \in DOMAIN list : list[i].kind = "host" => list[i].machine_id = HostMachine

\* A ping lists its machine as a guest, unless the host is listed under that name.
LEMMA PingedGuests ==
    ASSUME NEW list \in Seq(Entry), NEW id \in Id, HostNamed(list)
    PROVE  /\ HostNamed(Pinged(list, id))
           /\ \A m : GuestListed(Pinged(list, id), m) <=>
                \/ GuestListed(list, m)
                \/ m = id /\ ~(HostListed(list) /\ id = HostMachine)
<1> DEFINE e == [machine_id |-> id, kind |-> "guest"]
<1>1. CASE Known(list, id)
  <2>1. Pinged(list, id) = list
    BY <1>1 DEF Pinged
  <2>2. PICK i \in DOMAIN list : list[i].machine_id = id
    BY <1>1 DEF Known
  <2>3. list[i] = [machine_id |-> list[i].machine_id, kind |-> list[i].kind]
        /\ list[i].kind \in {"host", "guest"}
    <3>1. list[i] \in Entry
      BY ElementOfSeq, LenProperties
    <3> QED
      BY <3>1 DEF Entry
  <2>4. GuestListed(list, id) \/ (HostListed(list) /\ id = HostMachine)
    <3>1. CASE list[i].kind = "host"
      BY <2>2, <3>1 DEF HostNamed, HostListed
    <3>2. CASE list[i].kind = "guest"
      BY <2>2, <2>3, <3>2 DEF GuestListed
    <3> QED
      BY <2>3, <3>1, <3>2
  <2> QED
    BY <2>1, <2>4
<1>2. CASE ~Known(list, id)
  <2>1. e \in Entry /\ e.kind = "guest"
    BY DEF Entry
  <2>2. Pinged(list, id) = Append(list, e)
    BY <1>2 DEF Pinged
  <2>3. ~(HostListed(list) /\ id = HostMachine)
    BY <1>2 DEF Known, HostListed, HostNamed
  <2> HIDE DEF e
  <2>4. HostNamed(Pinged(list, id))
    BY <2>1, <2>2, AppendEntry DEF HostNamed
  <2>5. GuestListed(Pinged(list, id), id)
    BY <2>1, <2>2, AppendEntry DEF GuestListed, e
  <2> QED
    BY <2>3, <2>4, <2>5, PingedKeeps
<1> QED
  BY <1>1, <1>2

\* A departure that is dealt with takes the guest it names, and nobody else.
LEMMA DisconnectedGuests ==
    ASSUME NEW list \in Seq(Entry), NEW id \in Id, WellFormed(list), HostNamed(list)
    PROVE  /\ HostNamed(Disconnected(list, id))
           /\ \A m : GuestListed(Disconnected(list, id), m)
                        <=> GuestListed(list, m) /\ m # id
<1> DEFINE p == Position(list, id)
           short == Disconnected(list, id)
<1>1. \A m : GuestListed(short, m) => GuestListed(list, m) /\ m # id
  BY DisconnectedKeeps
<1>2. CASE short = list
  BY <1>1, <1>2
<1>3. CASE short # list
  <2>1. Known(list, id) /\ short = RemoveAt(list, p)
    BY <1>3 DEF Disconnected
  <2>2. p \in 1..Len(list) /\ list[p].machine_id = id
    BY <2>1, PositionIsFirst
  <2> HIDE DEF p, short
  <2>3. /\ \A i \in DOMAIN short : \E k \in DOMAIN list : short[i] = list[k]
        /\ \A k \in DOMAIN list : k # p => \E i \in DOMAIN short : short[i] = list[k]
    BY <2>1, <2>2, RemoveAtOthers
  <2>4. HostNamed(short)
    BY <2>3 DEF HostNamed
  <2>5. ASSUME NEW m, GuestListed(list, m), m # id PROVE GuestListed(short, m)
    <3>1. PICK k \in DOMAIN list : list[k] = [machine_id |-> m, kind |-> "guest"]
      BY <2>5 DEF GuestListed
    <3>2. k # p
      BY <2>2, <2>5, <3>1
    <3>3. PICK i \in DOMAIN short : short[i] = list[k]
      BY <2>3, <3>2
    <3> QED
      BY <3>1, <3>3 DEF GuestListed
  <2> QED
    BY <1>1, <2>4, <2>5 DEF short
<1> QED
  BY <1>2, <1>3

\* The host's entry bears the host's name.
LEMMA HostJoinedNamed ==
    ASSUME NEW list \in Seq(Entry), HostNamed(list)
    PROVE  HostNamed(HostJoined(list))
<1> DEFINE e == [machine_id |-> HostMachine, kind |-> "host"]
<1>1. e \in Entry /\ e.machine_id = HostMachine
  BY MachineAssumption DEF Entry, Id
<1> HIDE DEF e
<1>2. HostNamed(Append(list, e))
  BY <1>1, AppendEntry DEF HostNamed
<1> QED
  BY <1>2 DEF HostJoined, e

-----------------------------------------------------------------------------
\* A machine is registered after a successful ping only, and the host is listed
\* under its own name: with the types and the shape of the list, what the steps
\* of the center need to be steps of the room.
RoomInv ==
    /\ HostNamed(players)
    /\ \A c \in Conn : pc[c] = "mapping" => PingSucceeds(request[c])

LEMMA RoomInvInit == Init => RoomInv
BY DEF Init, RoomInv, HostNamed

LEMMA HostNamedStep == TypeInv /\ ListInv /\ RoomInv /\ [Next]_vars => HostNamed(players)'
<1> SUFFICES ASSUME TypeInv, ListInv, RoomInv, [Next]_vars PROVE HostNamed(players)'
  OBVIOUS
<1>0. players \in Seq(Entry) /\ HostNamed(players) /\ WellFormed(players)
  BY DEF TypeInv, TypeOK, ListInv, RoomInv
<1>1. CASE HostJoins
  BY <1>0, <1>1, HostJoinedNamed DEF HostJoins
<1>2. CASE ClientDisconnected
  <2>1. players' = players \/ players' = Disconnected(players, Head(events))
    BY <1>2 DEF ClientDisconnected
  <2> QED
    BY <1>0, <1>2, <2>1, EventNamesId, DisconnectedGuests
<1>3. ASSUME NEW c \in Conn, Receive(c) PROVE HostNamed(players)'
  <2>1. inbox[c] \in Request
    BY <1>3 DEF Receive, TypeInv, TypeOK
  <2>2. CASE PingLists(inbox[c])
    BY <1>0, <1>3, <2>1, <2>2, PingNamesId, PingedGuests DEF Receive
  <2>3. CASE ~PingLists(inbox[c])
    BY <1>0, <1>3, <2>3 DEF Receive
  <2> QED
    BY <2>2, <2>3
<1>4. ASSUME NEW m \in Machine, RemovePlayer(m) PROVE HostNamed(players)'
  BY <1>0, <1>4, DisconnectedGuests DEF RemovePlayer, Id
<1>5. CASE players' = players
  BY <1>0, <1>5
<1> QED
  BY <1>1, <1>2, <1>3, <1>4, <1>5, ListWriters

LEMMA RoomInvStep == TypeInv /\ ListInv /\ RoomInv /\ [Next]_vars => RoomInv'
<1> SUFFICES ASSUME TypeInv, ListInv, RoomInv, [Next]_vars,
                    NEW c \in Conn, pc'[c] = "mapping"
             PROVE  PingSucceeds(request'[c])
  BY HostNamedStep DEF RoomInv
<1>1. DOMAIN pc = Conn /\ DOMAIN request = Conn
  BY DEF TypeInv, TypeOK
<1>2. CASE pc[c] = "mapping" /\ request'[c] = request[c]
  BY <1>2 DEF RoomInv
<1>3. ASSUME NEW d \in Conn, Task(d)
      PROVE  \/ RecordHeartbeat(c) /\ d = c
             \/ pc[c] = "mapping" /\ request'[c] = request[c]
  BY <1>1, <1>3 DEF Task, RegisterToken, RegisterIp, Cancelled, ReadFails, Receive,
     Respond, RespondFails, RecordHeartbeat, RecordMachine, DropToken, DropHeartbeat,
     DropIp, Depart, Leave, Vanish, Goto
<1>4. CASE RecordHeartbeat(c)
  BY <1>1, <1>4 DEF RecordHeartbeat, Goto, TypeInv, RequestOK
<1>5. ASSUME NEW d \in Conn, Client(d) \/ Accept(d) \/ Silence(d)
      PROVE  pc[c] = "mapping" /\ request'[c] = request[c]
  BY <1>1, <1>5 DEF Client, Connect, Send, Break, Accept, Silence, Goto, taskVars
<1>6. ASSUME StartClose \/ HeartbeatLoop \/ ClientDisconnected \/ Application
             \/ UNCHANGED vars
      PROVE  pc[c] = "mapping" /\ request'[c] = request[c]
  BY <1>1, <1>6 DEF StartClose, StartServer, SpawnServer, NetworkFails, HostJoins,
     TakeServer, Bind, BindFails, StopServer, PutBack, CloseServer, CloseCancels,
     HeartbeatLoop, Sweep, SweepHeartbeat, SweepToken, SweeperStops,
     ClientDisconnected, Application, CallerCancels, DisconnectMachine,
     RemovePlayer, DisconnectToken, DisconnectCancels, vars, taskVars
<1> QED
  BY <1>2, <1>3, <1>4, <1>5, <1>6 DEF Next

-----------------------------------------------------------------------------
\* Steps nobody in the room notices.
LEMMA Unnoticed ==
    ASSUME players' = players, events' = events, client_machine' = client_machine,
           \A d \in Conn : Place(d)' = Place(d) /\ Asking(d)' = Asking(d)
    PROVE  UNCHANGED Promise!roomVars
BY DEF Promise!roomVars, Guests

\* A change of one connection's place, and of its ping.
LEMMA OneMoves ==
    ASSUME NEW c \in Conn, NEW place, Place(c)' = place,
           \A d \in Conn \ {c} : Place(d)' = Place(d)
    PROVE  [d \in Conn |-> Place(d)]' = [[d \in Conn |-> Place(d)] EXCEPT ![c] = place]
OBVIOUS

LEMMA OneAsks ==
    ASSUME NEW c \in Conn, NEW ping, Asking(c)' = ping,
           \A d \in Conn \ {c} : Asking(d)' = Asking(d)
    PROVE  [d \in Conn |-> Asking(d)]' = [[d \in Conn |-> Asking(d)] EXCEPT ![c] = ping]
OBVIOUS

\* Only the connection that moves changes its place or its ping.
LEMMA OthersStay ==
    ASSUME NEW c \in Conn, TypeInv,
           \A d \in Conn \ {c} : pc'[d] = pc[d] /\ request'[d] = request[d]
    PROVE  \A d \in Conn \ {c} : Place(d)' = Place(d) /\ Asking(d)' = Asking(d)
BY DEF Place, Asking, InLoop

\* A ping of m lists it in the room as in the center.
LEMMA PingListsGuest ==
    ASSUME TypeInv, ListInv, RoomInv, NEW m \in Id,
           players' = IF Verdict[m] = "list" THEN Pinged(players, m) ELSE players
    PROVE  Promise!List(m) /\ HostListed(players)' = HostListed(players)
<1>0. players \in Seq(Entry) /\ HostNamed(players)
  BY DEF TypeInv, TypeOK, RoomInv
<1>1. CASE Verdict[m] = "list"
  <2>1. /\ HostListed(players') <=> HostListed(players)
        /\ \A q : GuestListed(players', q) <=>
                \/ GuestListed(players, q)
                \/ q = m /\ ~(HostListed(players) /\ m = HostMachine)
    BY <1>0, <1>1, PingedKeeps, PingedGuests
  <2>2. Guests' = IF HostListed(players) /\ m = HostMachine THEN Guests
                  ELSE Guests \cup {m}
    BY <2>1 DEF Guests
  <2>3. HostListed(players)' = HostListed(players)
    BY <2>1 DEF HostListed
  <2> QED
    BY <1>1, <2>2, <2>3 DEF Promise!List
<1>2. CASE Verdict[m] # "list"
  BY <1>2 DEF Promise!List, Guests
<1> QED
  BY <1>1, <1>2

\* A departure of m that is dealt with takes it off the room's list.
LEMMA TakesGuest ==
    ASSUME TypeInv, ListInv, RoomInv, NEW m \in Id, players' = Disconnected(players, m)
    PROVE  Guests' = Guests \ {m} /\ HostListed(players)' = HostListed(players)
<1>0. players \in Seq(Entry) /\ HostNamed(players) /\ WellFormed(players)
  BY DEF TypeInv, TypeOK, RoomInv, ListInv
<1>1. /\ HostListed(players') <=> HostListed(players)
      /\ \A q : GuestListed(players', q) <=> GuestListed(players, q) /\ q # m
  BY <1>0, DisconnectedKeeps, DisconnectedGuests
<1>2. Guests' = Guests \ {m}
  BY <1>1 DEF Guests
<1> QED
  BY <1>1, <1>2 DEF HostListed

\* A step of the center is a step of the room, or nobody in the room notices.
LEMMA RoomStep ==
    TypeInv /\ ListInv /\ RoomInv /\ [Next]_vars
        => [Promise!RoomNext]_Promise!roomVars
<1> SUFFICES ASSUME TypeInv, ListInv, RoomInv, [Next]_vars
             PROVE  Promise!RoomNext \/ UNCHANGED Promise!roomVars
  OBVIOUS
<1> USE DEF centerVars, registryVars, taskVars, linkVars, sweepVars, listVars
<1>0. /\ players \in Seq(Entry) /\ WellFormed(players) /\ HostNamed(players)
      /\ DOMAIN pc = Conn /\ DOMAIN request = Conn
      /\ None \notin Request /\ Id \subseteq Request
  BY CenterAssumption DEF TypeInv, TypeOK, ListInv, RoomInv, Request, PingBody
<1>1. CASE HostJoins
  <2>1. ~HostListed(players) /\ players' = HostJoined(players)
    BY <1>1 DEF HostJoins, ListInv
  <2>2. HostListed(players') /\ \A m : GuestListed(players', m) <=> GuestListed(players, m)
    BY <1>0, <2>1, HostJoinedKeeps
  <2>3. Guests' = Guests
    BY <2>2 DEF Guests
  <2>4. Promise!HostJoins
    BY <1>1, <2>1, <2>2, <2>3 DEF HostJoins, Promise!HostJoins, Place, Asking, InLoop
  <2> QED
    BY <2>4 DEF Promise!RoomNext
<1>2. CASE StartClose /\ ~HostJoins
  <2>1. \A d \in Conn : /\ pc'[d] = pc[d] \/ (pc[d] = "backlog" /\ pc'[d] = "free")
                        /\ request'[d] = request[d]
    BY <1>0, <1>2 DEF StartClose, StartServer, SpawnServer, NetworkFails, TakeServer,
       Bind, BindFails, StopServer, PutBack, CloseServer, CloseCancels
  <2>2. players' = players /\ events' = events /\ client_machine' = client_machine
    BY <1>2 DEF StartClose, StartServer, SpawnServer, NetworkFails, TakeServer,
       Bind, BindFails, StopServer, PutBack, CloseServer, CloseCancels
  <2>3. \A d \in Conn : Place(d)' = Place(d) /\ Asking(d)' = Asking(d)
    BY <2>1 DEF Place, Asking, InLoop
  <2> QED
    BY <2>2, <2>3, Unnoticed
<1>3. ASSUME NEW c \in Conn, Client(c) \/ Silence(c)
      PROVE  UNCHANGED Promise!roomVars
  <2>1. \A d \in Conn : /\ pc'[d] = pc[d] \/ (pc[d] = "free" /\ pc'[d] = "backlog")
                        /\ request'[d] = request[d]
    BY <1>0, <1>3 DEF Client, Connect, Send, Break, Silence
  <2>2. players' = players /\ events' = events /\ client_machine' = client_machine
    BY <1>3 DEF Client, Connect, Send, Break, Silence
  <2>3. \A d \in Conn : Place(d)' = Place(d) /\ Asking(d)' = Asking(d)
    BY <2>1 DEF Place, Asking, InLoop
  <2> QED
    BY <2>2, <2>3, Unnoticed
<1>4. ASSUME NEW c \in Conn, Accept(c) PROVE Promise!RoomNext
  <2>1. /\ pc[c] = "backlog" /\ pc'[c] = "spawned" /\ request' = request
        /\ \A d \in Conn \ {c} : pc'[d] = pc[d]
    BY <1>0, <1>4 DEF Accept, Goto
  <2>2. /\ Place(c) = "away" /\ Place(c)' = "here"
        /\ \A d \in Conn : Asking(d)' = Asking(d)
        /\ \A d \in Conn \ {c} : Place(d)' = Place(d)
    BY <2>1, OthersStay DEF Place, Asking
  <2>3. Promise!Arrive(c)
    BY <1>4, <2>2, OneMoves DEF Accept, Promise!Arrive, Guests
  <2> QED
    BY <2>3 DEF Promise!RoomNext
<1>5. ASSUME NEW c \in Conn, Receive(c)
      PROVE  Promise!RoomNext \/ UNCHANGED Promise!roomVars
  <2> DEFINE r == inbox[c]
  <2>1. /\ pc[c] = "reading" /\ pc'[c] = "writing" /\ request'[c] = r
        /\ \A d \in Conn \ {c} : pc'[d] = pc[d] /\ request'[d] = request[d]
        /\ events' = events /\ client_machine' = client_machine
    BY <1>0, <1>5 DEF Receive, Goto
  <2>2. /\ r \in Request /\ r # Malformed
        /\ players' = IF PingLists(r) THEN Pinged(players, IdOf(r)) ELSE players
    BY <1>5 DEF Receive, TypeInv, TypeOK
  <2> HIDE DEF r
  <2>3. /\ Place(c) = "here" /\ Place(c)' = "here" /\ Asking(c) = None
        /\ \A d \in Conn \ {c} : Place(d)' = Place(d) /\ Asking(d)' = Asking(d)
    BY <2>1, OthersStay DEF Place, Asking, InLoop
  <2>4. [d \in Conn |-> Place(d)]' = [d \in Conn |-> Place(d)]
    BY <2>3
  <2>5. CASE r \in Id /\ Verdict[r] # "reject"
    <3>1. IdOf(r) = r /\ PingSucceeds(r) /\ (PingLists(r) <=> Verdict[r] = "list")
      BY <2>5, CenterAssumption DEF IdOf, PingSucceeds, PingLists, PingBody
    <3>2. Asking(c)' = r
      BY <2>1, <2>5, <3>1 DEF Asking, PingSucceeds
    <3>3. Promise!List(r) /\ HostListed(players)' = HostListed(players)
      BY <2>2, <2>5, <3>1, PingListsGuest
    <3>4. Promise!Ping(c, r)
      BY <2>1, <2>3, <2>4, <3>2, <3>3, OneAsks DEF Promise!Ping
    <3> QED
      BY <2>5, <3>4 DEF Promise!RoomNext
  <2>6. CASE r = Absent
    <3>1. IdOf(r) = NoMachine /\ (PingLists(r) <=> Verdict[NoMachine] = "list")
          /\ NoMachine \in Id /\ r \notin Id
      BY <2>6, CenterAssumption DEF IdOf, PingLists, PingBody, Id
    <3>2. Asking(c)' = None
      BY <2>1, <3>1 DEF Asking
    <3>3. Promise!List(NoMachine) /\ HostListed(players)' = HostListed(players)
      BY <2>2, <3>1, PingListsGuest
    <3>4. [d \in Conn |-> Asking(d)]' = [d \in Conn |-> Asking(d)]
      BY <2>3, <3>2
    <3>5. Promise!PingUnnamed(c)
      BY <2>1, <2>3, <2>4, <3>3, <3>4 DEF Promise!PingUnnamed
    <3> QED
      BY <3>5 DEF Promise!RoomNext
  <2>7. CASE r = Other \/ (r \in Id /\ Verdict[r] = "reject")
    <3>1. ~PingLists(r) /\ ~PingSucceeds(r)
      BY <2>7, CenterAssumption DEF PingLists, PingSucceeds, IdOf, PingBody
    <3>2. Asking(c)' = None
      BY <2>1, <3>1 DEF Asking, PingSucceeds
    <3> QED
      BY <2>1, <2>2, <2>3, <3>1, <3>2, Unnoticed
  <2> QED
    BY <2>2, <2>5, <2>6, <2>7 DEF Request, PingBody
<1>6. ASSUME NEW c \in Conn, RecordMachine(c) PROVE Promise!RoomNext
  <2>1. /\ pc[c] = "mapping" /\ pc'[c] = "reading"
        /\ \A d \in Conn \ {c} : pc'[d] = pc[d] /\ request'[d] = request[d]
        /\ client_machine' = [client_machine EXCEPT ![c] = request[c]]
        /\ events' = events /\ players' = players
    BY <1>0, <1>6 DEF RecordMachine, Goto
  <2>2. request[c] \in Id /\ PingSucceeds(request[c])
    BY <2>1 DEF TypeInv, RequestOK, RoomInv
  <2>3. /\ Place(c) = "here" /\ Place(c)' = "here"
        /\ Asking(c) = request[c] /\ Asking(c)' = None /\ Asking(c) # None
        /\ \A d \in Conn \ {c} : Place(d)' = Place(d) /\ Asking(d)' = Asking(d)
    BY <1>0, <2>1, <2>2, OthersStay DEF Place, Asking, InLoop
  <2>4. [d \in Conn |-> Place(d)]' = [d \in Conn |-> Place(d)]
    BY <2>3
  <2>5. Promise!Report(c)
    BY <2>1, <2>3, <2>4, OneAsks DEF Promise!Report, Guests
  <2> QED
    BY <2>5 DEF Promise!RoomNext
<1>7. ASSUME NEW c \in Conn, Cancelled(c) \/ ReadFails(c) \/ RespondFails(c)
      PROVE  Promise!RoomNext
  <2>1. /\ pc[c] \in {"reading", "writing"} /\ pc'[c] = "drop_active"
        /\ \A d \in Conn \ {c} : pc'[d] = pc[d] /\ request'[d] = request[d]
        /\ players' = players /\ events' = events /\ client_machine' = client_machine
    BY <1>0, <1>7 DEF Cancelled, ReadFails, RespondFails, Goto
  <2>2. /\ Place(c) = "here" /\ Place(c)' = "going" /\ Asking(c)' = None
        /\ \A d \in Conn \ {c} : Place(d)' = Place(d) /\ Asking(d)' = Asking(d)
    BY <2>1, OthersStay DEF Place, Asking, InLoop
  <2>3. Promise!Finish(c)
    BY <2>1, <2>2, OneMoves, OneAsks DEF Promise!Finish, Guests
  <2> QED
    BY <2>3 DEF Promise!RoomNext
<1>8. ASSUME NEW c \in Conn, Depart(c) PROVE Promise!RoomNext
  <2>1. /\ pc[c] = "drop_machine" /\ pc'[c] = "free"
        /\ \A d \in Conn \ {c} : pc'[d] = pc[d]
        /\ request' = request /\ players' = players
        /\ client_machine' = [client_machine EXCEPT ![c] = None]
        /\ events' = Append(events, Reported(c))
    BY <1>0, <1>8 DEF Depart, Leave, Vanish, Goto
  <2>2. /\ Place(c) = "going" /\ Place(c)' = "away" /\ Asking(c)' = Asking(c)
        /\ \A d \in Conn \ {c} : Place(d)' = Place(d) /\ Asking(d)' = Asking(d)
    BY <2>1, OthersStay DEF Place, Asking, InLoop
  <2>3. [d \in Conn |-> Asking(d)]' = [d \in Conn |-> Asking(d)]
    BY <2>2
  <2>4. Promise!Depart(c)
    BY <2>1, <2>2, <2>3, OneMoves DEF Promise!Depart, Guests, Reported
  <2> QED
    BY <2>4 DEF Promise!RoomNext
<1>9. ASSUME NEW c \in Conn,
             \/ RegisterToken(c) \/ RegisterIp(c) \/ Respond(c) \/ RecordHeartbeat(c)
             \/ DropToken(c) \/ DropHeartbeat(c) \/ DropIp(c)
      PROVE  UNCHANGED Promise!roomVars
  <2>1. /\ \A d \in Conn \ {c} : pc'[d] = pc[d] /\ request'[d] = request[d]
        /\ players' = players /\ events' = events /\ client_machine' = client_machine
    BY <1>0, <1>9 DEF RegisterToken, RegisterIp, Respond, RecordHeartbeat, DropToken,
       DropHeartbeat, DropIp, Goto
  <2>2. Place(c)' = Place(c)
    BY <1>0, <1>9 DEF RegisterToken, RegisterIp, Respond, RecordHeartbeat, DropToken,
       DropHeartbeat, DropIp, Goto, Place, InLoop
  <2>3. Asking(c)' = Asking(c)
    <3>1. CASE Respond(c)
      BY <1>0, <3>1 DEF Respond, Goto, Asking
    <3>2. CASE RecordHeartbeat(c)
      BY <1>0, <3>2, CenterAssumption DEF RecordHeartbeat, Goto, Asking
    <3>3. CASE ~Respond(c) /\ ~RecordHeartbeat(c)
      BY <1>0, <1>9, <3>3 DEF RegisterToken, RegisterIp, DropToken, DropHeartbeat,
         DropIp, Goto, Asking
    <3> QED
      BY <3>1, <3>2, <3>3
  <2> QED
    BY <2>1, <2>2, <2>3, OthersStay, Unnoticed
<1>10. ASSUME ClientDisconnected PROVE Promise!RoomNext
  <2>1. /\ events # <<>> /\ events' = Tail(events)
        /\ client_machine' = client_machine /\ pc' = pc /\ request' = request
        /\ players' = IF Head(events) = NoMachine THEN players
                      ELSE Disconnected(players, Head(events))
    BY <1>10 DEF ClientDisconnected
  <2>2. \A d \in Conn : Place(d)' = Place(d) /\ Asking(d)' = Asking(d)
    BY <2>1 DEF Place, Asking, InLoop
  <2>3. /\ Guests' = Guests \ ({Head(events)} \ {NoMachine})
        /\ HostListed(players)' = HostListed(players)
    <3>1. CASE Head(events) = NoMachine
      BY <2>1, <3>1 DEF Guests
    <3>2. CASE Head(events) # NoMachine
      BY <1>10, <2>1, <3>2, EventNamesId, TakesGuest
    <3> QED
      BY <3>1, <3>2
  <2>4. Promise!SeeOff
    BY <2>1, <2>2, <2>3 DEF Promise!SeeOff
  <2> QED
    BY <2>4 DEF Promise!RoomNext
<1>11. ASSUME NEW m \in Machine, RemovePlayer(m) PROVE Promise!RoomNext
  <2>1. /\ players' = Disconnected(players, m) /\ events' = events
        /\ client_machine' = client_machine /\ pc' = pc /\ request' = request
    BY <1>11 DEF RemovePlayer
  <2>2. \A d \in Conn : Place(d)' = Place(d) /\ Asking(d)' = Asking(d)
    BY <2>1 DEF Place, Asking, InLoop
  <2>3. Guests' = Guests \ {m} /\ HostListed(players)' = HostListed(players)
    BY <2>1, TakesGuest DEF Id
  <2>4. Promise!Remove(m)
    BY <2>1, <2>2, <2>3 DEF Promise!Remove
  <2> QED
    BY <2>4 DEF Promise!RoomNext
<1>12. CASE \/ HeartbeatLoop \/ CallerCancels \/ UNCHANGED vars
            \/ DisconnectToken \/ DisconnectCancels
            \/ \E m \in Machine : DisconnectMachine(m)
  <2>1. /\ players' = players /\ events' = events /\ client_machine' = client_machine
        /\ pc' = pc /\ request' = request
    BY <1>12 DEF HeartbeatLoop, Sweep, SweepHeartbeat, SweepToken, SweeperStops,
       CallerCancels, DisconnectToken, DisconnectCancels, DisconnectMachine, vars
  <2>2. \A d \in Conn : Place(d)' = Place(d) /\ Asking(d)' = Asking(d)
    BY <2>1 DEF Place, Asking, InLoop
  <2> QED
    BY <2>1, <2>2, Unnoticed
<1> QED
  BY <1>1, <1>2, <1>3, <1>4, <1>5, <1>6, <1>7, <1>8, <1>9, <1>10, <1>11, <1>12
  DEF Next, Task, Application

\* To the people in it the room of ScaffoldingCenter is that of module Room: no
\* interleaving of connection tasks, heartbeat loop, event consumer (the loop of
\* start()), close() and application calls shows.
THEOREM CenterKeepsRoom == Spec => KeepsRoom
<1>1. Init => Promise!RoomInit
  <2> SUFFICES ASSUME Init PROVE Promise!RoomInit
    OBVIOUS
  <2>1. HostListed(players) = FALSE /\ Guests = {}
    BY DEF Init, HostListed, Guests, GuestListed
  <2>2. \A c \in Conn : Place(c) = "away" /\ Asking(c) = None
    BY DEF Init, Place, Asking
  <2> QED
    BY <2>1, <2>2 DEF Init, Promise!RoomInit
<1>2. Init => TypeInv /\ ListInv /\ RoomInv
  BY TypeInit, ListInit, RoomInvInit
<1>3. TypeInv /\ ListInv /\ RoomInv /\ [Next]_vars => TypeInv' /\ ListInv' /\ RoomInv'
  BY TypeStep, ListStep, RoomInvStep
<1>4. TypeInv /\ ListInv /\ RoomInv /\ [Next]_vars => [Promise!RoomNext]_Promise!roomVars
  BY RoomStep
<1> QED
  BY <1>1, <1>2, <1>3, <1>4, PTL DEF Spec, KeepsRoom, Promise!RoomSpec
=============================================================================
