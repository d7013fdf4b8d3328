---------------------------- MODULE GuestProofs ----------------------------
(***************************************************************************)
(* Proofs about Guest, for any number of tokens, retries and connections.  *)
(* Each theorem says how much of join_room's care for a guest it needs.    *)
(***************************************************************************)
EXTENDS Guest, TLAPS

\* Where a connect() may be, and where a map_minecraft_port().
InConnect ==
    stage \in {"starting", "discovering", "connecting", "pinging",
               "negotiating", "forwarding", "spawning", "storing"}

\* An instance has been started once connect() is past the start.
Counted ==
    /\ stage = "starting" => started < MaxConnects
    /\ InConnect /\ stage # "starting" => started # 0

\* connect() has the guest to itself.
ConnectAlone == InConnect => ~left /\ leaving = "no" /\ token \in Token

\* A token is in the slot only as long as the instance runs, so that a connect()
\* which gets past the start of its own finds the slot empty.
SlotRuns ==
    /\ heartbeat_ct # None => Running
    /\ InConnect /\ stage # "starting" => heartbeat_ct = None /\ Running

\* What leave() has done so far is not undone before it returns, or later.
LeaveHolds ==
    /\ leaving # "no" \/ left => ~InConnect
    /\ leaving # "no" => heartbeat_ct = None
    /\ leaving = "stop" => stream = 0
    /\ left => heartbeat_ct = None /\ stream = 0 /\ easy_tier = 0

BeatsHaveToken == \A i \in Instance : Beating(i) => beat_ct[i] \in Token

GuestInv ==
    TypeOK /\ Counted /\ ConnectAlone /\ SlotRuns /\ LeaveHolds /\ BeatsHaveToken /\ Stoppable

\* EasyTierManager knows the only instance there is.
OneNetwork ==
    /\ networks \subseteq {easy_tier} \ {0}
    /\ stage = "starting" => easy_tier = 0

\* The application calls leave() after a connect() has returned, or not at all.
NoOverlap == "overlap" \notin Liberties

\* It leaves, too, before it connects again.
JoinRoom == Liberties = {}

\* The types of the flags, and of everything else.
Flags ==
    /\ ready \in BOOLEAN /\ alive \in BOOLEAN /\ use_port_forward \in BOOLEAN
    /\ left \in BOOLEAN
    /\ lost \in BOOLEAN /\ subscribed \in BOOLEAN /\ unseen \in BOOLEAN

Types ==
    /\ easy_tier \in 0..MaxConnects
    /\ networks \in SUBSET Instance /\ started \in 0..MaxConnects
    /\ stream \in 0..MaxConnects /\ center \in 0..MaxConnects
    /\ minecraft \in 0..MaxConnects
    /\ heartbeat_ct \in Token \cup {None} /\ cancelled \in SUBSET Token
    /\ stage \in {"idle", "starting", "discovering", "connecting", "pinging",
                  "negotiating", "forwarding", "spawning", "storing",
                  "asking", "placing"}
    /\ token \in Token \cup {None}
    /\ tries \in 0..Retries
    /\ mapped \in 0..MaxConnects
    /\ leaving \in {"no", "disconnect", "stop"}
    /\ beat \in [Instance -> {"unborn", "sleeping", "sending", "ended"}]
    /\ beat_ct \in [Instance -> Token \cup {None}]

\* Both make up TypeOK.
LEMMA TypeParts == TypeOK <=> Flags /\ Types
BY DEF TypeOK, Flags, Types

\* A new guest: all of it holds.
LEMMA GuestInit == Init => GuestInv /\ OneNetwork
<1> SUFFICES ASSUME Init PROVE GuestInv /\ OneNetwork
  OBVIOUS
<1>1. TypeOK
  <2>1. Flags
    BY Zenon DEF Init, Flags
  <2>2. Types
    BY GuestAssumption DEF Init, Types, Instance, GuestAssumption
  <2> QED
    BY <2>1, <2>2, TypeParts
<1>2. Counted /\ ConnectAlone /\ SlotRuns /\ LeaveHolds /\ OneNetwork
  BY DEF Init, Counted, ConnectAlone, SlotRuns, LeaveHolds, OneNetwork, InConnect
<1>3. BeatsHaveToken /\ Stoppable
  BY DEF Init, BeatsHaveToken, Stoppable, Beating
<1> QED
  BY <1>1, <1>2, <1>3 DEF GuestInv

\* No step makes a flag anything else.
LEMMA FlagsStep == Flags /\ [Next]_vars => Flags'
<1> SUFFICES ASSUME Flags, [Next]_vars PROVE Flags'
  OBVIOUS
<1> USE DEF Flags, networkVars, streamVars, roomVars, callVars, leaveVars, lostVars
<1>1. ASSUME StartNetwork PROVE Flags'
  BY <1>1, Zenon DEF StartNetwork, Running, Return
<1>2. ASSUME StartFails PROVE Flags'
  BY <1>2, Zenon DEF StartFails, Return
<1>3. ASSUME Discover PROVE Flags'
  BY <1>3, Zenon DEF Discover
<1>4. ASSUME DiscoverFails PROVE Flags'
  BY <1>4, Zenon DEF DiscoverFails, Return
<1>5. ASSUME TryFails PROVE Flags'
  BY <1>5, Zenon DEF TryFails, NextTry
<1>6. ASSUME TryCancelled PROVE Flags'
  BY <1>6, Zenon DEF TryCancelled, Return
<1>7. ASSUME ConnectTcp PROVE Flags'
  BY <1>7, Zenon DEF ConnectTcp
<1>8. ASSUME SendPlayerPing PROVE Flags'
  BY <1>8, Zenon DEF SendPlayerPing, Lose
<1>9. ASSUME NegotiateProtocols PROVE Flags'
  <2>1. (tries > 0) = TRUE \/ (tries > 0) = FALSE
    OBVIOUS
  <2>2. use_port_forward' \in BOOLEAN
    BY <1>9, <2>1, Zenon DEF NegotiateProtocols
  <2> QED
    BY <1>9, <2>2, Zenon DEF NegotiateProtocols
<1>10. ASSUME ForwardPort PROVE Flags'
  BY <1>10, Zenon DEF ForwardPort
<1>11. ASSUME ForwardFails PROVE Flags'
  BY <1>11, Zenon DEF ForwardFails, Return
<1>12. ASSUME SpawnHeartbeat PROVE Flags'
  BY <1>12, Zenon DEF SpawnHeartbeat
<1>13. ASSUME StoreToken PROVE Flags'
  BY <1>13, Zenon DEF StoreToken, Return
<1>14. ASSUME GetServerPort PROVE Flags'
  BY <1>14, Zenon DEF GetServerPort
<1>15. ASSUME MapFails PROVE Flags'
  BY <1>15, Zenon DEF MapFails, Return
<1>16. ASSUME Map PROVE Flags'
  BY <1>16, Zenon DEF Map
<1>17. ASSUME Disconnect PROVE Flags'
  BY <1>17, Zenon DEF Disconnect
<1>18. ASSUME StopNetwork PROVE Flags'
  BY <1>18, Zenon DEF StopNetwork
<1>19. ASSUME NEW i \in Instance, BeatStops(i) PROVE Flags'
  BY <1>19, Zenon DEF BeatStops, BeatGoto
<1>20. ASSUME NEW i \in Instance, BeatWakes(i) PROVE Flags'
  BY <1>20, Zenon DEF BeatWakes, BeatGoto, Lose
<1>21. ASSUME NEW i \in Instance, BeatSent(i) PROVE Flags'
  BY <1>21, Zenon DEF BeatSent, BeatGoto
<1>22. ASSUME NEW i \in Instance, BeatFails(i) PROVE Flags'
  BY <1>22, Zenon DEF BeatFails, BeatGoto, Lose
<1>23. ASSUME NEW t \in Token, BeginConnect(t) PROVE Flags'
  BY <1>23, Zenon DEF BeginConnect
<1>24. ASSUME NEW t \in Token, CallerCancels(t) PROVE Flags'
  BY <1>24, Zenon DEF CallerCancels
<1>25. ASSUME MapCached PROVE Flags'
  BY <1>25, Zenon DEF MapCached
<1>26. ASSUME BeginMap PROVE Flags'
  BY <1>26, Zenon DEF BeginMap
<1>27. ASSUME StopHeartbeat PROVE Flags'
  BY <1>27, Zenon DEF StopHeartbeat, CancelHeartbeat
<1>28. ASSUME Subscribe PROVE Flags'
  BY <1>28, Zenon DEF Subscribe
<1>29. ASSUME Unsubscribe PROVE Flags'
  BY <1>29, Zenon DEF Unsubscribe
<1>30. ASSUME Observe PROVE Flags'
  BY <1>30, Zenon DEF Observe
<1>31. ASSUME BecomesReady PROVE Flags'
  BY <1>31, Zenon DEF BecomesReady
<1>32. ASSUME Break PROVE Flags'
  BY <1>32, Zenon DEF Break
<1>33. ASSUME UNCHANGED vars PROVE Flags'
  BY <1>33, Zenon DEF vars
<1> QED
  BY <1>1, <1>2, <1>3, <1>4, <1>5, <1>6, <1>7, <1>8,
     <1>9, <1>10, <1>11, <1>12, <1>13, <1>14, <1>15, <1>16,
     <1>17, <1>18, <1>19, <1>20, <1>21, <1>22, <1>23, <1>24,
     <1>25, <1>26, <1>27, <1>28, <1>29, <1>30, <1>31, <1>32,
     <1>33
     DEF Next, Call, Leave, Heartbeat, Application

\* Nor takes another variable out of its type, whatever the application does.
LEMMA TypesStep == TypeOK /\ Counted /\ [Next]_vars => Types'
<1> SUFFICES ASSUME TypeOK, Counted, [Next]_vars PROVE Types'
  OBVIOUS
<1> USE TypeParts, GuestAssumption
    DEF Types, Counted, InConnect, Instance, networkVars, streamVars, roomVars,
        callVars, leaveVars, beatVars
<1>1. ASSUME StartNetwork PROVE Types'
  BY <1>1 DEF StartNetwork, Running, Return
<1>2. ASSUME StartFails PROVE Types'
  BY <1>2 DEF StartFails, Return
<1>3. ASSUME Discover PROVE Types'
  BY <1>3 DEF Discover
<1>4. ASSUME DiscoverFails PROVE Types'
  BY <1>4 DEF DiscoverFails, Return
<1>5. ASSUME TryFails PROVE Types'
  BY <1>5 DEF TryFails, NextTry
<1>6. ASSUME TryCancelled PROVE Types'
  BY <1>6 DEF TryCancelled, Return
<1>7. ASSUME ConnectTcp PROVE Types'
  BY <1>7 DEF ConnectTcp
<1>8. ASSUME SendPlayerPing PROVE Types'
  BY <1>8 DEF SendPlayerPing, Lose
<1>9. ASSUME NegotiateProtocols PROVE Types'
  BY <1>9 DEF NegotiateProtocols
<1>10. ASSUME ForwardPort PROVE Types'
  BY <1>10 DEF ForwardPort
<1>11. ASSUME ForwardFails PROVE Types'
  BY <1>11 DEF ForwardFails, Return
<1>12. ASSUME SpawnHeartbeat PROVE Types'
  BY <1>12 DEF SpawnHeartbeat
<1>13. ASSUME StoreToken PROVE Types'
  BY <1>13 DEF StoreToken, Return
<1>14. ASSUME GetServerPort PROVE Types'
  BY <1>14 DEF GetServerPort
<1>15. ASSUME MapFails PROVE Types'
  BY <1>15 DEF MapFails, Return
<1>16. ASSUME Map PROVE Types'
  BY <1>16 DEF Map
<1>17. ASSUME Disconnect PROVE Types'
  BY <1>17 DEF Disconnect
<1>18. ASSUME StopNetwork PROVE Types'
  BY <1>18 DEF StopNetwork
<1>19. ASSUME NEW i \in Instance, BeatStops(i) PROVE Types'
  BY <1>19 DEF BeatStops, BeatGoto
<1>20. ASSUME NEW i \in Instance, BeatWakes(i) PROVE Types'
  BY <1>20 DEF BeatWakes, BeatGoto, Lose
<1>21. ASSUME NEW i \in Instance, BeatSent(i) PROVE Types'
  BY <1>21 DEF BeatSent, BeatGoto
<1>22. ASSUME NEW i \in Instance, BeatFails(i) PROVE Types'
  BY <1>22 DEF BeatFails, BeatGoto, Lose
<1>23. ASSUME NEW t \in Token, BeginConnect(t) PROVE Types'
  BY <1>23 DEF BeginConnect
<1>24. ASSUME NEW t \in Token, CallerCancels(t) PROVE Types'
  BY <1>24 DEF CallerCancels
<1>25. ASSUME MapCached PROVE Types'
  BY <1>25 DEF MapCached
<1>26. ASSUME BeginMap PROVE Types'
  BY <1>26 DEF BeginMap
<1>27. ASSUME StopHeartbeat PROVE Types'
  BY <1>27 DEF StopHeartbeat, CancelHeartbeat
<1>28. ASSUME Subscribe PROVE Types'
  BY <1>28 DEF Subscribe
<1>29. ASSUME Unsubscribe PROVE Types'
  BY <1>29 DEF Unsubscribe
<1>30. ASSUME Observe PROVE Types'
  BY <1>30 DEF Observe
<1>31. ASSUME BecomesReady PROVE Types'
  BY <1>31 DEF BecomesReady
<1>32. ASSUME Break PROVE Types'
  BY <1>32 DEF Break
<1>33. ASSUME UNCHANGED vars PROVE Types'
  BY <1>33 DEF vars
<1> QED
  BY <1>1, <1>2, <1>3, <1>4, <1>5, <1>6, <1>7, <1>8,
     <1>9, <1>10, <1>11, <1>12, <1>13, <1>14, <1>15, <1>16,
     <1>17, <1>18, <1>19, <1>20, <1>21, <1>22, <1>23, <1>24,
     <1>25, <1>26, <1>27, <1>28, <1>29, <1>30, <1>31, <1>32,
     <1>33
     DEF Next, Call, Leave, Heartbeat, Application

\* The count of instances goes with the calls, whatever the application does.
LEMMA CountStep == TypeOK /\ Counted /\ [Next]_vars => Counted'
<1> SUFFICES ASSUME TypeOK, Counted, [Next]_vars PROVE Counted'
  OBVIOUS
<1> USE TypeParts, GuestAssumption DEF Types, Counted, InConnect, networkVars, callVars
<1>1. CASE StartNetwork
  BY <1>1 DEF StartNetwork, Return
<1>2. CASE \E t \in Token : BeginConnect(t)
  BY <1>2 DEF BeginConnect
<1>3. CASE Discover \/ TryFails \/ ConnectTcp \/ SendPlayerPing \/ NegotiateProtocols
           \/ ForwardPort \/ SpawnHeartbeat
  BY <1>3 DEF Discover, TryFails, NextTry, ConnectTcp, SendPlayerPing, NegotiateProtocols,
     ForwardPort, SpawnHeartbeat
<1>4. CASE StartFails \/ DiscoverFails \/ TryCancelled \/ ForwardFails \/ StoreToken
           \/ GetServerPort \/ MapFails \/ Map \/ MapCached \/ BeginMap
  BY <1>4 DEF StartFails, DiscoverFails, TryCancelled, ForwardFails, StoreToken, GetServerPort,
     MapFails, Map, MapCached, BeginMap, Return
<1>5. CASE Leave \/ StopHeartbeat \/ Subscribe \/ Unsubscribe \/ Observe \/ BecomesReady \/ Break
           \/ \E t \in Token : CallerCancels(t)
  BY <1>5 DEF Leave, Disconnect, StopNetwork, StopHeartbeat, Subscribe, Unsubscribe, Observe,
     BecomesReady, Break, CallerCancels
<1>6. CASE \E i \in Instance : Heartbeat(i)
  BY <1>6 DEF Heartbeat, BeatStops, BeatWakes, BeatSent, BeatFails, BeatGoto
<1>7. CASE UNCHANGED vars
  BY <1>7 DEF vars
<1> QED
  BY <1>1, <1>2, <1>3, <1>4, <1>5, <1>6, <1>7 DEF Next, Call, Application

\* connect() and leave() keep out of each other's way.
LEMMA CallsStep == NoOverlap /\ GuestInv /\ [Next]_vars => (ConnectAlone /\ SlotRuns /\ LeaveHolds)'
<1> SUFFICES ASSUME NoOverlap, GuestInv, [Next]_vars PROVE (ConnectAlone /\ SlotRuns /\ LeaveHolds)'
  OBVIOUS
<1> USE TypeParts, GuestAssumption
    DEF GuestInv, Types, Counted, ConnectAlone, SlotRuns, LeaveHolds, InConnect, Instance, Running,
        networkVars, streamVars, callVars, leaveVars
<1>1. ASSUME StartNetwork PROVE (ConnectAlone /\ SlotRuns /\ LeaveHolds)'
  BY <1>1 DEF StartNetwork, Running, Return
<1>2. ASSUME StartFails PROVE (ConnectAlone /\ SlotRuns /\ LeaveHolds)'
  BY <1>2 DEF StartFails, Return
<1>3. ASSUME Discover PROVE (ConnectAlone /\ SlotRuns /\ LeaveHolds)'
  BY <1>3 DEF Discover
<1>4. ASSUME DiscoverFails PROVE (ConnectAlone /\ SlotRuns /\ LeaveHolds)'
  BY <1>4 DEF DiscoverFails, Return
<1>5. ASSUME TryFails PROVE (ConnectAlone /\ SlotRuns /\ LeaveHolds)'
  BY <1>5 DEF TryFails, NextTry
<1>6. ASSUME TryCancelled PROVE (ConnectAlone /\ SlotRuns /\ LeaveHolds)'
  BY <1>6 DEF TryCancelled, Return
<1>7. ASSUME ConnectTcp PROVE (ConnectAlone /\ SlotRuns /\ LeaveHolds)'
  BY <1>7 DEF ConnectTcp
<1>8. ASSUME SendPlayerPing PROVE (ConnectAlone /\ SlotRuns /\ LeaveHolds)'
  BY <1>8 DEF SendPlayerPing, Lose
<1>9. ASSUME NegotiateProtocols PROVE (ConnectAlone /\ SlotRuns /\ LeaveHolds)'
  BY <1>9 DEF NegotiateProtocols
<1>10. ASSUME ForwardPort PROVE (ConnectAlone /\ SlotRuns /\ LeaveHolds)'
  BY <1>10 DEF ForwardPort
<1>11. ASSUME ForwardFails PROVE (ConnectAlone /\ SlotRuns /\ LeaveHolds)'
  BY <1>11 DEF ForwardFails, Return
<1>12. ASSUME SpawnHeartbeat PROVE (ConnectAlone /\ SlotRuns /\ LeaveHolds)'
  BY <1>12 DEF SpawnHeartbeat
<1>13. ASSUME StoreToken PROVE (ConnectAlone /\ SlotRuns /\ LeaveHolds)'
  BY <1>13 DEF StoreToken, Return
<1>14. ASSUME GetServerPort PROVE (ConnectAlone /\ SlotRuns /\ LeaveHolds)'
  BY <1>14 DEF GetServerPort
<1>15. ASSUME MapFails PROVE (ConnectAlone /\ SlotRuns /\ LeaveHolds)'
  BY <1>15 DEF MapFails, Return
<1>16. ASSUME Map PROVE (ConnectAlone /\ SlotRuns /\ LeaveHolds)'
  BY <1>16 DEF Map
<1>17. ASSUME Disconnect PROVE (ConnectAlone /\ SlotRuns /\ LeaveHolds)'
  BY <1>17 DEF Disconnect
<1>18. ASSUME StopNetwork PROVE (ConnectAlone /\ SlotRuns /\ LeaveHolds)'
  BY <1>18 DEF StopNetwork
<1>19. ASSUME NEW i \in Instance, BeatStops(i) PROVE (ConnectAlone /\ SlotRuns /\ LeaveHolds)'
  BY <1>19 DEF BeatStops, BeatGoto
<1>20. ASSUME NEW i \in Instance, BeatWakes(i) PROVE (ConnectAlone /\ SlotRuns /\ LeaveHolds)'
  BY <1>20 DEF BeatWakes, BeatGoto, Lose
<1>21. ASSUME NEW i \in Instance, BeatSent(i) PROVE (ConnectAlone /\ SlotRuns /\ LeaveHolds)'
  BY <1>21 DEF BeatSent, BeatGoto
<1>22. ASSUME NEW i \in Instance, BeatFails(i) PROVE (ConnectAlone /\ SlotRuns /\ LeaveHolds)'
  BY <1>22 DEF BeatFails, BeatGoto, Lose
<1>23. ASSUME NEW t \in Token, BeginConnect(t) PROVE (ConnectAlone /\ SlotRuns /\ LeaveHolds)'
  BY <1>23 DEF BeginConnect
<1>24. ASSUME NEW t \in Token, CallerCancels(t) PROVE (ConnectAlone /\ SlotRuns /\ LeaveHolds)'
  BY <1>24 DEF CallerCancels
<1>25. ASSUME MapCached PROVE (ConnectAlone /\ SlotRuns /\ LeaveHolds)'
  BY <1>25 DEF MapCached
<1>26. ASSUME BeginMap PROVE (ConnectAlone /\ SlotRuns /\ LeaveHolds)'
  BY <1>26 DEF BeginMap
<1>27. ASSUME StopHeartbeat PROVE (ConnectAlone /\ SlotRuns /\ LeaveHolds)'
  BY <1>27 DEF StopHeartbeat, CancelHeartbeat, NoOverlap
<1>28. ASSUME Subscribe PROVE (ConnectAlone /\ SlotRuns /\ LeaveHolds)'
  BY <1>28 DEF Subscribe
<1>29. ASSUME Unsubscribe PROVE (ConnectAlone /\ SlotRuns /\ LeaveHolds)'
  BY <1>29 DEF Unsubscribe
<1>30. ASSUME Observe PROVE (ConnectAlone /\ SlotRuns /\ LeaveHolds)'
  BY <1>30 DEF Observe
<1>31. ASSUME BecomesReady PROVE (ConnectAlone /\ SlotRuns /\ LeaveHolds)'
  BY <1>31 DEF BecomesReady
<1>32. ASSUME Break PROVE (ConnectAlone /\ SlotRuns /\ LeaveHolds)'
  BY <1>32 DEF Break
<1>33. ASSUME UNCHANGED vars PROVE (ConnectAlone /\ SlotRuns /\ LeaveHolds)'
  BY <1>33 DEF vars
<1> QED
  BY <1>1, <1>2, <1>3, <1>4, <1>5, <1>6, <1>7, <1>8,
     <1>9, <1>10, <1>11, <1>12, <1>13, <1>14, <1>15, <1>16,
     <1>17, <1>18, <1>19, <1>20, <1>21, <1>22, <1>23, <1>24,
     <1>25, <1>26, <1>27, <1>28, <1>29, <1>30, <1>31, <1>32,
     <1>33
     DEF Next, Call, Leave, Heartbeat, Application

\* Every heartbeat can be reached.
LEMMA BeatsStep == NoOverlap /\ GuestInv /\ [Next]_vars => (BeatsHaveToken /\ Stoppable)'
<1> SUFFICES ASSUME NoOverlap, GuestInv, [Next]_vars PROVE (BeatsHaveToken /\ Stoppable)'
  OBVIOUS
<1> USE TypeParts, GuestAssumption
    DEF GuestInv, Types, Counted, ConnectAlone, SlotRuns, LeaveHolds, BeatsHaveToken, Running,
        Stoppable, Beating, InConnect, callVars, beatVars
<1>1. ASSUME StartNetwork PROVE (BeatsHaveToken /\ Stoppable)'
  BY <1>1 DEF StartNetwork, Running, Return
<1>2. ASSUME StartFails PROVE (BeatsHaveToken /\ Stoppable)'
  BY <1>2 DEF StartFails, Return
<1>3. ASSUME Discover PROVE (BeatsHaveToken /\ Stoppable)'
  BY <1>3 DEF Discover
<1>4. ASSUME DiscoverFails PROVE (BeatsHaveToken /\ Stoppable)'
  BY <1>4 DEF DiscoverFails, Return
<1>5. ASSUME TryFails PROVE (BeatsHaveToken /\ Stoppable)'
  BY <1>5 DEF TryFails, NextTry
<1>6. ASSUME TryCancelled PROVE (BeatsHaveToken /\ Stoppable)'
  BY <1>6 DEF TryCancelled, Return
<1>7. ASSUME ConnectTcp PROVE (BeatsHaveToken /\ Stoppable)'
  BY <1>7 DEF ConnectTcp
<1>8. ASSUME SendPlayerPing PROVE (BeatsHaveToken /\ Stoppable)'
  BY <1>8 DEF SendPlayerPing, Lose
<1>9. ASSUME NegotiateProtocols PROVE (BeatsHaveToken /\ Stoppable)'
  BY <1>9 DEF NegotiateProtocols
<1>10. ASSUME ForwardPort PROVE (BeatsHaveToken /\ Stoppable)'
  BY <1>10 DEF ForwardPort
<1>11. ASSUME ForwardFails PROVE (BeatsHaveToken /\ Stoppable)'
  BY <1>11 DEF ForwardFails, Return
<1>12. ASSUME SpawnHeartbeat PROVE (BeatsHaveToken /\ Stoppable)'
  BY <1>12 DEF SpawnHeartbeat
<1>13. ASSUME StoreToken PROVE (BeatsHaveToken /\ Stoppable)'
  BY <1>13 DEF StoreToken, Return
<1>14. ASSUME GetServerPort PROVE (BeatsHaveToken /\ Stoppable)'
  BY <1>14 DEF GetServerPort
<1>15. ASSUME MapFails PROVE (BeatsHaveToken /\ Stoppable)'
  BY <1>15 DEF MapFails, Return
<1>16. ASSUME Map PROVE (BeatsHaveToken /\ Stoppable)'
  BY <1>16 DEF Map
<1>17. ASSUME Disconnect PROVE (BeatsHaveToken /\ Stoppable)'
  BY <1>17 DEF Disconnect
<1>18. ASSUME StopNetwork PROVE (BeatsHaveToken /\ Stoppable)'
  BY <1>18 DEF StopNetwork
<1>19. ASSUME NEW i \in Instance, BeatStops(i) PROVE (BeatsHaveToken /\ Stoppable)'
  BY <1>19 DEF BeatStops, BeatGoto
<1>20. ASSUME NEW i \in Instance, BeatWakes(i) PROVE (BeatsHaveToken /\ Stoppable)'
  BY <1>20 DEF BeatWakes, BeatGoto, Lose
<1>21. ASSUME NEW i \in Instance, BeatSent(i) PROVE (BeatsHaveToken /\ Stoppable)'
  BY <1>21 DEF BeatSent, BeatGoto
<1>22. ASSUME NEW i \in Instance, BeatFails(i) PROVE (BeatsHaveToken /\ Stoppable)'
  BY <1>22 DEF BeatFails, BeatGoto, Lose
<1>23. ASSUME NEW t \in Token, BeginConnect(t) PROVE (BeatsHaveToken /\ Stoppable)'
  BY <1>23 DEF BeginConnect
<1>24. ASSUME NEW t \in Token, CallerCancels(t) PROVE (BeatsHaveToken /\ Stoppable)'
  BY <1>24 DEF CallerCancels
<1>25. ASSUME MapCached PROVE (BeatsHaveToken /\ Stoppable)'
  BY <1>25 DEF MapCached
<1>26. ASSUME BeginMap PROVE (BeatsHaveToken /\ Stoppable)'
  BY <1>26 DEF BeginMap
<1>27. ASSUME StopHeartbeat PROVE (BeatsHaveToken /\ Stoppable)'
  BY <1>27 DEF StopHeartbeat, CancelHeartbeat, NoOverlap
<1>28. ASSUME Subscribe PROVE (BeatsHaveToken /\ Stoppable)'
  BY <1>28 DEF Subscribe
<1>29. ASSUME Unsubscribe PROVE (BeatsHaveToken /\ Stoppable)'
  BY <1>29 DEF Unsubscribe
<1>30. ASSUME Observe PROVE (BeatsHaveToken /\ Stoppable)'
  BY <1>30 DEF Observe
<1>31. ASSUME BecomesReady PROVE (BeatsHaveToken /\ Stoppable)'
  BY <1>31 DEF BecomesReady
<1>32. ASSUME Break PROVE (BeatsHaveToken /\ Stoppable)'
  BY <1>32 DEF Break
<1>33. ASSUME UNCHANGED vars PROVE (BeatsHaveToken /\ Stoppable)'
  BY <1>33 DEF vars
<1> QED
  BY <1>1, <1>2, <1>3, <1>4, <1>5, <1>6, <1>7, <1>8,
     <1>9, <1>10, <1>11, <1>12, <1>13, <1>14, <1>15, <1>16,
     <1>17, <1>18, <1>19, <1>20, <1>21, <1>22, <1>23, <1>24,
     <1>25, <1>26, <1>27, <1>28, <1>29, <1>30, <1>31, <1>32,
     <1>33
     DEF Next, Call, Leave, Heartbeat, Application

\* There is never a second instance, if each connect() that fails is left.
LEMMA NetworkStep == JoinRoom /\ GuestInv /\ OneNetwork /\ [Next]_vars => OneNetwork'
<1> SUFFICES ASSUME JoinRoom, GuestInv, OneNetwork, [Next]_vars PROVE OneNetwork'
  OBVIOUS
<1> USE TypeParts DEF GuestInv, Types, OneNetwork, networkVars, callVars
<1>1. CASE StartNetwork
  BY <1>1 DEF StartNetwork, Return
<1>2. CASE \E t \in Token : BeginConnect(t)
  BY <1>2 DEF BeginConnect, JoinRoom, LeaveHolds
<1>3. CASE Discover \/ TryFails \/ ConnectTcp \/ SendPlayerPing \/ NegotiateProtocols
           \/ ForwardPort \/ SpawnHeartbeat
  BY <1>3 DEF Discover, TryFails, NextTry, ConnectTcp, SendPlayerPing, NegotiateProtocols,
     ForwardPort, SpawnHeartbeat
<1>4. CASE StartFails \/ DiscoverFails \/ TryCancelled \/ ForwardFails \/ StoreToken
           \/ GetServerPort \/ MapFails \/ Map \/ MapCached \/ BeginMap
  BY <1>4 DEF StartFails, DiscoverFails, TryCancelled, ForwardFails, StoreToken, GetServerPort,
     MapFails, Map, MapCached, BeginMap, Return
<1>5. CASE StopNetwork
  BY <1>5 DEF StopNetwork
<1>6. CASE Disconnect \/ StopHeartbeat \/ Subscribe \/ Unsubscribe \/ Observe \/ BecomesReady
           \/ Break \/ \E t \in Token : CallerCancels(t)
  BY <1>6 DEF Disconnect, StopHeartbeat, Subscribe, Unsubscribe, Observe, BecomesReady, Break,
     CallerCancels
<1>7. CASE \E i \in Instance : Heartbeat(i)
  BY <1>7 DEF Heartbeat, BeatStops, BeatWakes, BeatSent, BeatFails, BeatGoto
<1>8. CASE UNCHANGED vars
  BY <1>8 DEF vars
<1> QED
  BY <1>1, <1>2, <1>3, <1>4, <1>5, <1>6, <1>7, <1>8 DEF Next, Call, Leave, Application

-----------------------------------------------------------------------------
\* No step of the guest takes a variable out of its type, for any number of
\* tokens, retries and connections and whatever the application calls when.
THEOREM GuestTypeCorrect == Spec => []TypeOK
<1>1. Init => TypeOK /\ Counted
  BY GuestInit DEF GuestInv
<1>2. TypeOK /\ Counted /\ [Next]_vars => (TypeOK /\ Counted)'
  <2> SUFFICES ASSUME TypeOK, Counted, [Next]_vars PROVE TypeOK' /\ Counted'
    OBVIOUS
  <2>1. Flags' /\ Types'
    BY FlagsStep, TypesStep, TypeParts
  <2>2. TypeOK'
    BY <2>1 DEF TypeOK, Flags, Types
  <2> QED
    BY <2>2, CountStep
<1> QED
  BY <1>1, <1>2, PTL DEF Spec

\* Every step of a guest keeps what leave() relies on.
LEMMA GuestStep == NoOverlap /\ GuestInv /\ [Next]_vars => GuestInv'
<1> SUFFICES ASSUME NoOverlap, GuestInv, [Next]_vars PROVE GuestInv'
  OBVIOUS
<1>1. TypeOK /\ Counted
  BY DEF GuestInv
<1>2. Flags' /\ Types' /\ Counted'
  BY <1>1, FlagsStep, TypesStep, CountStep, TypeParts
<1>3. TypeOK'
  BY <1>2 DEF TypeOK, Flags, Types
<1> QED
  BY <1>2, <1>3, CallsStep, BeatsStep DEF GuestInv

\* So it holds always.
LEMMA GuestAlways == NoOverlap => (Spec => []GuestInv)
<1> SUFFICES ASSUME NoOverlap PROVE Spec => []GuestInv
  OBVIOUS
<1>1. Init => GuestInv
  BY GuestInit
<1>2. GuestInv /\ [Next]_vars => GuestInv'
  BY GuestStep
<1> QED
  BY <1>1, <1>2, PTL DEF Spec

\* leave() reaches every heartbeat of the guest that has not been cancelled, even
\* if connect() is called again and again without it.
THEOREM HeartbeatsStoppable == NoOverlap => (Spec => []Stoppable)
<1>1. GuestInv => Stoppable
  BY DEF GuestInv
<1> QED
  BY <1>1, GuestAlways, PTL

\* After leave() the slot is empty, so every heartbeat has been cancelled.
LEMMA LeftSilent ==
    ASSUME GuestInv, left, stage = "idle"
    PROVE  stream = 0 /\ \A i \in Instance : Beating(i) => beat_ct[i] \in cancelled
<1>1. heartbeat_ct = None /\ stream = 0
  BY DEF GuestInv, LeaveHolds
<1> QED
  BY <1>1, GuestAssumption DEF GuestInv, Stoppable, BeatsHaveToken

\* leave() leaves no stream and no heartbeat that will go on, even if connect()
\* was called again without it: only the networks of those may be left behind.
THEOREM LeavesSilent ==
    NoOverlap => (Spec => [](left /\ stage = "idle" =>
        stream = 0 /\ \A i \in Instance : Beating(i) => beat_ct[i] \in cancelled))
<1>1. GuestInv => (left /\ stage = "idle" =>
        stream = 0 /\ \A i \in Instance : Beating(i) => beat_ct[i] \in cancelled)
  BY LeftSilent
<1> QED
  BY <1>1, GuestAlways, PTL

\* leave() leaves no network, no stream and no heartbeat that will go on, if each
\* connect() that fails is left before the next.
THEOREM LeavesClean == JoinRoom => (Spec => []LeftClean)
<1> SUFFICES ASSUME JoinRoom PROVE Spec => []LeftClean
  OBVIOUS
<1>1. NoOverlap
  BY DEF JoinRoom, NoOverlap
<1>2. Init => GuestInv /\ OneNetwork
  BY GuestInit
<1>3. GuestInv /\ OneNetwork /\ [Next]_vars => (GuestInv /\ OneNetwork)'
  BY <1>1, GuestStep, NetworkStep
<1>4. GuestInv /\ OneNetwork => LeftClean
  <2> SUFFICES ASSUME GuestInv, OneNetwork, left, stage = "idle"
               PROVE  /\ networks = {}
                      /\ stream = 0
                      /\ \A i \in Instance : Beating(i) => beat_ct[i] \in cancelled
    BY DEF LeftClean
  <2>1. networks = {}
    BY DEF GuestInv, LeaveHolds, OneNetwork
  <2> QED
    BY <2>1, LeftSilent
<1> QED
  BY <1>2, <1>3, <1>4, PTL DEF Spec
=============================================================================
