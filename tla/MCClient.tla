------------------------------ MODULE MCClient ------------------------------
(* Instances of Client for TLC. *)
EXTENDS Client, TLC

CONSTANTS direct, http, default, own, extra

CONSTANTS t1, t2

\* Two rooms opened and closed by calls that overlap, with the same token or
\* with different ones.
TwoRooms == [rooms |-> 1..2, calls |-> {"create", "join", "close"},
             tokens |-> {t1, t2}, cancels |-> {t1},
             horizon |-> 0]

\* One call.
OneRoom == [rooms |-> 1..1, calls |-> {"create"}, tokens |-> {t1},
            cancels |-> {}, horizon |-> 0]

\* Three calls that resolve the relay nodes.
ThreeCalls == [rooms |-> 1..3, calls |-> {"join"}, tokens |-> {t1},
               cancels |-> {}, horizon |-> MaxClock]

Client(override, additional, bounds) ==
    [override |-> override, additional |-> additional] @@ bounds

\* The node service; an override with an additional node; an empty override.
Settings == {Client(NoList, {}, ThreeCalls),
             Client({own}, {extra}, TwoRooms), Client({}, {}, OneRoom)}

Directs == {direct}
Https == {http}
Defaults == {default}
=============================================================================
