----------------------------- MODULE MCCenter -----------------------------
(* Instances of Center for TLC. *)
EXTENDS Center

CONSTANTS c1, c2, host, alice

\* An official guest reports one machine; here it reconnects as c2.
OneMachineEach == (c1 :> {alice}) @@ (c2 :> {alice})

\* A guest that asks for other things too, perhaps without a ping.
OneGuest == c1 :> {alice, Other}

\* A third-party client: several machines on a connection (one of them the
\* host's), pings without a machine, garbage.
ThirdParty == c1 :> {alice, host, Absent, Malformed}

\* Both clients may send the same, so their names do not matter.
Clients == Permutations({c1, c2})

\* Without a hook every machine is listed.
NoHook == [id \in Id |-> "list"]

\* A hook that answers pings without a machine but does not list them.
Tolerant == [id \in Id |-> IF id = NoMachine THEN "accept" ELSE "list"]
=============================================================================
