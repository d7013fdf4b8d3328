------------------------------ MODULE Exchange ------------------------------
(***************************************************************************)
(* One connection between a guest and the center, in bytes: the requests   *)
(* of ScaffoldingGuest, the frames of the serializer in two pipes that     *)
(* deliver any number of bytes at a time, and the protocol handlers of the *)
(* center.                                                                 *)
(*                                                                         *)
(* The tcp mutex lets one request at a time on the connection (TcpClient). *)
(* Requests whose body is JSON (player_ping, the player list) are in       *)
(* Center; here the standard keys c:<name> have names of one character.    *)
(***************************************************************************)
EXTENDS Wire, SequencesExt

CONSTANTS
    Supported,          \* custom protocols a center may have: a set of lists of keys
    Minecraft,          \* ports a center may announce
    CustomKeys,         \* the guest's custom_protocol_keys, a sequence
    RawRequest,         \* requests the application sends itself, of the keys in this module
    None,               \* no call, nothing returned yet
    NotNegotiated,      \* the error of a key the center does not have
    MaxCalls            \* bound: requests written on the connection

Ping == <<99, Colon, 1>>
Protocols == <<99, Colon, 2>>
ServerPort == <<99, Colon, 3>>

\* The last three: player_ping, player_profiles_list and player_easytier_id,
\* which is announced and has no handler.
Standard == <<Ping, Protocols, ServerPort, <<99, Colon, 4>>, <<99, Colon, 5>>, <<99, Colon, 6>>>>

VARIABLES
    custom,             \* the center's custom protocol keys
    port,               \* its Minecraft port
    negotiated,         \* ScaffoldingGuest::negotiated
    call,               \* the call that waits for its response
    returned,           \* what the last call returned
    up, inbox,          \* bytes on the way to the center, bytes its task has read
    down, taken,        \* bytes on the way to the guest, bytes its call has read
    wrote,              \* the requests written
    served, got,        \* how many the center answered, how many responses were read
    stage               \* "open"; "lost": the call gave up within a response;
                        \* "closed": by the center

center == <<custom, port>>
pipes == <<up, inbox, down, taken>>
vars == <<center, negotiated, call, returned, pipes, wrote, served, got, stage>>

-----------------------------------------------------------------------------
(* Keys and their lists.                                                   *)

Nul == 0

\* Keys joined by "\0".
join(keys) ==
    LET upto[i \in 0..Len(keys)] ==
            IF i = 0 THEN <<>>
            ELSE upto[i - 1] \o (IF i = 1 THEN <<>> ELSE <<Nul>>) \o utf8_bytes(keys[i])
    IN  upto[Len(keys)]

\* The parts between the "\0".
split(bytes) ==
    LET cuts == {0, Len(bytes) + 1} \cup {i \in 1..Len(bytes) : bytes[i] = Nul}
        parts == {p \in cuts \X cuts :
                    p[1] < p[2] /\ \A c \in cuts : ~(p[1] < c /\ c < p[2])}
    IN  {SubSeq(bytes, p[1] + 1, p[2] - 1) : p \in parts}

my == Standard \o CustomKeys

\* The keys that are in a set, in their order.
Those(keys, set) ==
    LET upto[i \in 0..Len(keys)] ==
            IF i = 0 THEN <<>>
            ELSE IF keys[i] \in set THEN Append(upto[i - 1], keys[i])
            ELSE upto[i - 1]
    IN  upto[Len(keys)]

\* Mutant: in the center's order, which is the order of the announcement.
negotiate_theirs(keys, offered) ==
    Those(Standard \o custom, {k \in ToSet(keys) : utf8_bytes(k) \in offered})

\* Those of keys that are in center: texts are equal when their bytes are.
negotiate(keys, offered) ==
    Those(keys, {k \in ToSet(keys) : utf8_bytes(k) \in offered})

\* What the serializer can carry: lengths fit their fields.  Error is no request
\* and no response, a port is a u16.
ASSUME ExchangeAssumption ==
    /\ \A p \in Minecraft : p \in Nat /\ p < 65536
    /\ CustomKeys \in Seq(Text) /\ Supported \subseteq Seq(Text)
    /\ \A key \in ToSet(CustomKeys) : Len(key) < 256
    /\ RawRequest \subseteq Request /\ \A req \in RawRequest : Fits(req)
    /\ FitsWord(Len(join(my)))
    /\ \A keys \in Supported : FitsWord(Len(join(Standard \o keys)))
    /\ Error \notin Request \cup Response

NoNul(key) == \A i \in 1..Len(key) : key[i] # Nul

\* Keys contain no "\0", a custom key is not a standard one (a center that has
\* one refuses to start), and an error is no answer.
ASSUME KeysAssumption ==
    /\ \A keys \in Supported \cup {CustomKeys} :
        /\ \A key \in ToSet(keys) : NoNul(key)
        /\ ToSet(keys) \cap ToSet(Standard) = {}
    /\ Error # NotNegotiated /\ Error \notin Seq(Byte) /\ NotNegotiated \notin Seq(Byte)

-----------------------------------------------------------------------------
(* The center.                                                             *)

OkWith(body) == [status |-> 0, body |-> body]
Refusal(body) == [status |-> 255, body |-> body]

\* Mutant: the byte order of the machine.
u16_native(n) == <<n % 256, n \div 256>>

u16_bytes(n) == <<n \div 256, n % 256>>

\* What a center with these custom keys and this port answers; a custom handler
\* answers with its own key.
Handle(keys, minecraft, key, body) ==
    CASE key = Ping -> OkWith(body)
      [] key = Protocols -> OkWith(join(Standard \o keys))
      [] key = ServerPort -> OkWith(u16_bytes(minecraft))
      [] key \in ToSet(keys) -> OkWith(utf8_bytes(key))
      [] OTHER -> Refusal(utf8_bytes(key))

\* What handle_client answers to the request as it is read.
Answer(req) == Handle(custom, port, Key(req), req.body)

-----------------------------------------------------------------------------
Init ==
    /\ custom \in Supported /\ port \in Minecraft
    /\ negotiated = <<>>
    /\ call = None /\ returned = None
    /\ up = <<>> /\ inbox = <<>> /\ down = <<>> /\ taken = <<>>
    /\ wrote = <<>> /\ served = 0 /\ got = 0
    /\ stage = "open"

\* send() writes the whole request; c is what waits for the response.
Send(c, req) ==
    /\ stage = "open" /\ call = None /\ Len(wrote) < MaxCalls
    /\ call' = c
    /\ up' = up \o serialize_request(req)
    /\ wrote' = Append(wrote, req)
    /\ returned' = None
    /\ UNCHANGED <<center, negotiated, inbox, down, taken, served, got, stage>>

Std(key, body) ==
    [namespace |-> SubSeq(key, 1, 1), request_type |-> SubSeq(key, 3, 3), body |-> body]

\* The first request but player_ping on every connection.
negotiate_protocols == wrote = <<>> /\ Send([op |-> "protocols"], Std(Protocols, join(my)))

\* The application has its guest when the connection is negotiated.
Connected == negotiated # <<>>

ping == Connected /\ Send([op |-> "ping"], Std(Ping, <<66>>))

get_server_port == Connected /\ Send([op |-> "server_port"], Std(ServerPort, <<>>))

send_raw ==
    Connected /\ \E req \in RawRequest : Send([op |-> "raw"], req)

\* A call that returns r without a request.
Refused(r) ==
    /\ stage = "open" /\ call = None
    /\ returned' = r
    /\ UNCHANGED <<center, negotiated, call, pipes, wrote, served, got, stage>>

\* split_key and the request of send_json.
JsonRequest(key) ==
    [namespace |-> split_type_str(key)[1], request_type |-> split_type_str(key)[2],
     body |-> <<>>]

ensure_negotiated(key) == \E i \in 1..Len(negotiated) : negotiated[i] = key

send_json ==
    /\ Connected
    /\ \E key \in ToSet(CustomKeys) :
        IF ~ensure_negotiated(key) THEN Refused([op |-> "json", of |-> key, value |-> NotNegotiated])
        ELSE IF ~HasColon(key) THEN Refused([op |-> "json", of |-> key, value |-> Error])
        ELSE Send([op |-> "json", of |-> key], JsonRequest(key))

-----------------------------------------------------------------------------
(* The pipes, and the two ends reading what they wait for, no more.        *)

Deliver ==
    \/ \E k \in 1..Len(up) :
        /\ stage = "open"
        /\ \A j \in 0..(k - 1) : ~RequestReady(inbox \o SubSeq(up, 1, j))
        /\ inbox' = inbox \o SubSeq(up, 1, k)
        /\ up' = SubSeq(up, k + 1, Len(up))
        /\ UNCHANGED <<center, negotiated, call, returned, down, taken, wrote, served, got, stage>>
    \/ \E k \in 1..Len(down) :
        /\ stage # "lost" /\ call # None
        /\ \A j \in 0..(k - 1) : ~ResponseReady(taken \o SubSeq(down, 1, j))
        /\ taken' = taken \o SubSeq(down, 1, k)
        /\ down' = SubSeq(down, k + 1, Len(down))
        /\ UNCHANGED <<center, negotiated, call, returned, up, inbox, wrote, served, got, stage>>

\* Mutant: a request of an unknown key is not answered.
ServeKnown ==
    LET req == parse_request(inbox)
    IN  /\ stage = "open" /\ RequestReady(inbox) /\ req # Error
        /\ inbox' = <<>> /\ served' = served + 1
        /\ down' = IF Answer(req).status = 0 THEN down \o serialize_response(Answer(req)) ELSE down
        /\ UNCHANGED <<center, negotiated, call, returned, up, taken, wrote, got, stage>>

\* The center handles the request it has read; one it cannot read ends the
\* connection.
Serve ==
    LET req == parse_request(inbox)
    IN  /\ stage = "open" /\ RequestReady(inbox)
        /\ inbox' = <<>>
        /\ IF req = Error
           THEN stage' = "closed" /\ UNCHANGED <<down, served>>
           ELSE /\ down' = down \o serialize_response(Answer(req))
                /\ served' = served + 1
                /\ UNCHANGED stage
        /\ UNCHANGED <<center, negotiated, call, returned, up, taken, wrote, got>>

\* Call c returns value.
Outcome(c, value) ==
    IF c.op = "json" THEN [op |-> "json", of |-> c.of, value |-> value]
    ELSE [op |-> c.op, value |-> value]

\* What it returns for a response.
Result(c, resp) ==
    LET ok == resp.status = 0
        value ==
            CASE c.op = "ping" -> ok
              [] c.op = "server_port" ->
                    IF ok /\ Len(resp.body) = 2 THEN resp.body[1] * 256 + resp.body[2]
                    ELSE Error
              [] c.op = "json" -> IF ok THEN resp.body ELSE Error
              [] OTHER -> resp
    IN  Outcome(c, value)

Return ==
    LET resp == parse_response(taken)
    IN  /\ call # None /\ ResponseReady(taken)
        /\ negotiated' =
                IF call.op = "protocols" /\ resp.status = 0
                THEN negotiate(my, split(resp.body)) ELSE negotiated
        /\ returned' = Result(call, resp)
        /\ taken' = <<>> /\ got' = got + 1
        /\ call' = None
        /\ UNCHANGED <<center, up, inbox, down, wrote, served, stage>>

\* Mutant: the timeout covers the writing of the request.
GiveUpWriting ==
    /\ stage # "lost" /\ call # None
    /\ call' = None /\ taken' = <<>> /\ up' = <<>>
    /\ returned' = Outcome(call, Error)
    /\ stage' = IF taken = <<>> /\ Connected THEN stage ELSE "lost"
    /\ UNCHANGED <<center, negotiated, inbox, down, wrote, served, got>>

\* The call times out or its caller drops it.  What it has read of a response
\* is gone, and what follows is read from its middle; a connection that is not
\* negotiated is given up.
GiveUp ==
    /\ stage # "lost" /\ call # None
    /\ call' = None /\ taken' = <<>>
    /\ returned' = Outcome(call, Error)
    /\ stage' = IF taken = <<>> /\ Connected THEN stage ELSE "lost"
    /\ UNCHANGED <<center, negotiated, up, inbox, down, wrote, served, got>>

Next ==
    \/ negotiate_protocols \/ ping \/ get_server_port \/ send_raw \/ send_json
    \/ Deliver \/ Serve \/ Return \/ GiveUp

Spec == Init /\ [][Next]_vars

-----------------------------------------------------------------------------
(* What the connection promises.                                           *)

\* The calls of the guest with the requests they write, and those it refuses.
Asks ==
    {[call |-> [op |-> "protocols"], req |-> Std(Protocols, join(my))],
     [call |-> [op |-> "ping"], req |-> Std(Ping, <<66>>)],
     [call |-> [op |-> "server_port"], req |-> Std(ServerPort, <<>>)]}
    \cup {[call |-> [op |-> "raw"], req |-> req] : req \in RawRequest}
    \cup {[call |-> [op |-> "json", of |-> key], req |-> JsonRequest(key)] :
            key \in {k \in ToSet(CustomKeys) : HasColon(k)}}

Refusals ==
    {[op |-> "json", of |-> key, value |-> e] :
        key \in ToSet(CustomKeys), e \in {NotNegotiated, Error}}

\* The answer to a request as it was written.
Reply(has, req) == Handle(has[1], has[2], ascii_bytes(Key(req)), req.body)

GivenUp(c) == Outcome(c, Error)

Promise == INSTANCE Calls WITH
    has <- center, asked <- wrote, answered <- served, read <- got,
    spoilt <- stage # "open"

\* Serializer, pipes, handlers and requests together are calls that are answered
\* in order: no byte is lost, read twice or taken for another frame's, wherever
\* the stream is cut and whichever calls give up.
AnswersInOrder == Promise!CallsSpec

TypeOK ==
    /\ custom \in Supported /\ port \in Minecraft
    /\ \A i \in 1..Len(negotiated) : negotiated[i] \in ToSet(my)
    /\ call # None => call.op \in {"protocols", "ping", "server_port", "raw", "json"}
    /\ \A p \in {up, inbox, down, taken} : \A i \in 1..Len(p) : p[i] \in Byte
    /\ served \in 0..Len(wrote) /\ got \in 0..served
    /\ stage \in {"open", "lost", "closed"}

\* However the bytes are cut on the way, and whatever calls gave up before, the
\* center reads the requests the guest wrote, each once and in order, and never
\* has to end the connection: deserialize_request_async against
\* serialize_request, on a stream that is never torn on this side.
CenterInStep ==
    /\ stage # "closed"
    /\ RequestReady(inbox) =>
        LET read == parse_request(inbox)
            sent == wrote[served + 1]
        IN  Key(read) = ascii_bytes(Key(sent)) /\ read.body = sent.body

\* What a call returns when none before it gave up is the center's answer to
\* the request it wrote: the port is the Minecraft port of the room, a custom
\* protocol's answer comes from its handler.
OwnAnswer ==
    got = Len(wrote) /\ returned # None =>
        CASE returned.op = "ping" -> returned.value
          [] returned.op = "server_port" -> returned.value = port
          [] returned.op = "raw" ->
                LET sent == wrote[got]
                IN  returned.value.body =
                        CASE Key(sent) = Ping -> sent.body
                          [] Key(sent) = Protocols -> join(Standard \o custom)
                          [] Key(sent) = ServerPort -> u16_bytes(port)
                          [] OTHER -> utf8_bytes(ascii_bytes(Key(sent)))
          [] OTHER -> TRUE

\* The guest's list is what it and the center of this connection have in
\* common, in the guest's order; a call is refused without asking exactly when
\* the center does not announce its key; and a key that is announced, is ASCII
\* and has a colon is answered by its handler, unless a call gave up.  A key that
\* is not ASCII is negotiated but not served under its own name: the center
\* announces it in UTF-8 and reads it in requests with "?".
NegotiatedServed ==
    /\ Connected =>
        negotiated = Those(my, ToSet(my) \cap ToSet(Standard \o custom))
    /\ returned # None /\ returned.op = "json" =>
        /\ returned.value = NotNegotiated <=> returned.of \notin ToSet(custom)
        /\ got = Len(wrote) /\ returned.value = Error =>
                ~HasColon(returned.of) \/ ascii_bytes(returned.of) # returned.of
        /\ got = Len(wrote) /\ returned.value \notin {NotNegotiated, Error} =>
                returned.value = utf8_bytes(ascii_bytes(returned.of))
=============================================================================
