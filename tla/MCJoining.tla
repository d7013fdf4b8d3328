------------------------------ MODULE MCJoining -----------------------------
(* A small instance of Joining and Exchange.                               *)
EXTENDS Joining

\* Custom keys: with two colons, with a character that is not ASCII, without
\* a colon.
Two == <<10, Colon, 11, Colon, 12>>
Accented == <<13, Colon, 233>>
Bare == <<14>>

MCForeign == {233}
MCSupported == {<<>>, <<Accented, Two>>, <<Bare>>}
MCMinecraft == {25565}
MCCustomKeys == <<Two, Accented, Bare>>

\* A key with a colon in its namespace, one that nobody has and is not ASCII, a
\* standard one with a body.
MCRawRequest ==
    {[namespace |-> <<10, Colon, 11>>, request_type |-> <<12>>, body |-> <<7, 8>>],
     [namespace |-> <<233>>, request_type |-> <<>>, body |-> <<>>],
     Std(ServerPort, <<9>>)}

-----------------------------------------------------------------------------
\* Random bytes: two whose checksum passes, one beyond 34; one that fails.
MCDraws ==
    {<<17, 10, 33, 19, 20, 18, 1, 37>>, <<20, 255, 1, 2, 3, 4, 5, 6>>,
     <<1, 0, 0, 0, 0, 0, 0, 0>>}

lower(c) == IF c \in 65..90 THEN c + 32 ELSE c

\* The code, in small letters, with a character after it or one too few, with
\* its halves exchanged, with a letter that codes do not have, with another
\* character, which no checksum catches.
MCTypings(raw) ==
    {raw, [i \in 1..Len(raw) |-> lower(raw[i])], Append(raw, 10), SubSeq(raw, 1, 20),
     Prefix \o SubSeq(raw, 13, 21) \o <<Dash>> \o SubSeq(raw, 3, 11),
     [raw EXCEPT ![4] = 73],
     [raw EXCEPT ![21] = IF @ = 76 THEN 77 ELSE 76]}

MCTcpPorts == {1025, 65534}
MCStrangers ==
    {[server |-> FALSE, number |-> 0, virtual_ip |-> "guest"],
     [server |-> TRUE, number |-> 1024, virtual_ip |-> "low"],
     [server |-> TRUE, number |-> -1, virtual_ip |-> "huge"]}
=============================================================================
