-------------------------------- MODULE Wire --------------------------------
(***************************************************************************)
(* The frames of core/protocol_serializer.rs, as bytes: how requests and   *)
(* responses are written, and how they are read from a stream that may     *)
(* have delivered any part of them.                                        *)
(*                                                                         *)
(* A character is its code point; of those that are not ASCII, the ones    *)
(* that UTF-8 writes in two bytes stand for all.                           *)
(***************************************************************************)
EXTENDS Naturals, Sequences

CONSTANTS
    Foreign,            \* characters that are not ASCII, by their code points
    Error               \* no request, or no response

Byte == 0..255
Ascii == 0..127
Colon == 58
Question == 63
Text == Seq(Ascii \cup Foreign)

Request == [namespace : Text, request_type : Text, body : Seq(Byte)]
Response == [status : Byte, body : Seq(Byte)]

ASSUME WireAssumption == Foreign \subseteq 128..2047

-----------------------------------------------------------------------------
(* Writing.                                                                *)

\* A text as String holds it: the bytes of each character, one after the other.
utf8_bytes(s) ==
    LET ends[i \in 0..Len(s)] ==
            IF i = 0 THEN 0 ELSE ends[i - 1] + IF s[i] \in Ascii THEN 1 ELSE 2
        at(j) == CHOOSE i \in 1..Len(s) : ends[i - 1] < j /\ j <= ends[i]
        byte(c, last) ==
            IF c \in Ascii THEN c ELSE IF last THEN 128 + (c % 64) ELSE 192 + (c \div 64)
    IN  [j \in 1..ends[Len(s)] |-> byte(s[at(j)], j = ends[at(j)])]

ascii_bytes(s) == [i \in 1..Len(s) |-> IF s[i] \in Ascii THEN s[i] ELSE Question]

\* A length as u32, most significant byte first.
to_be_bytes(n) ==
    <<(n \div (256 * 256 * 256)) % 256, (n \div (256 * 256)) % 256,
      (n \div 256) % 256, n % 256>>

Key(req) == req.namespace \o <<Colon>> \o req.request_type

\* One byte holds the length of a type modulo 2^8, four that of a body modulo 2^32.
serialize_request(req) ==
    LET type == ascii_bytes(Key(req))
    IN  <<Len(type) % 256>> \o type \o to_be_bytes(Len(req.body)) \o req.body

serialize_response(resp) ==
    <<resp.status>> \o to_be_bytes(Len(resp.body)) \o resp.body

-----------------------------------------------------------------------------
(* Reading: from the start of what has arrived.                            *)

from_be_bytes(bytes, at) ==
    ((bytes[at] * 256 + bytes[at + 1]) * 256 + bytes[at + 2]) * 256 + bytes[at + 3]

RequestSize(bytes) == 5 + bytes[1] + from_be_bytes(bytes, 2 + bytes[1])

\* Each read_exact has what it waits for.
RequestReady(bytes) ==
    /\ Len(bytes) >= 1
    /\ Len(bytes) >= 5 + bytes[1]
    /\ Len(bytes) >= RequestSize(bytes)

split_type_str(type) ==
    LET at == CHOOSE i \in 1..Len(type) :
                type[i] = Colon /\ \A j \in 1..(i - 1) : type[j] # Colon
    IN  <<SubSeq(type, 1, at - 1), SubSeq(type, at + 1, Len(type))>>

HasColon(type) == \E i \in 1..Len(type) : type[i] = Colon

parse_request(bytes) ==
    LET type == SubSeq(bytes, 2, 1 + bytes[1])
    IN  IF RequestReady(bytes) /\ HasColon(type)
        THEN [namespace |-> split_type_str(type)[1],
              request_type |-> split_type_str(type)[2],
              body |-> SubSeq(bytes, 6 + bytes[1], RequestSize(bytes))]
        ELSE Error

ResponseSize(bytes) == 5 + from_be_bytes(bytes, 2)

ResponseReady(bytes) == Len(bytes) >= 5 /\ Len(bytes) >= ResponseSize(bytes)

parse_response(bytes) ==
    IF ResponseReady(bytes)
    THEN [status |-> bytes[1], body |-> SubSeq(bytes, 6, ResponseSize(bytes))]
    ELSE Error

-----------------------------------------------------------------------------
(* What frames are for.                                                    *)

\* A length below 2^32.
FitsWord(n) == n \div (256 * 256 * 256) < 256

\* Its lengths fit their fields.
Fits(req) ==
    Len(Key(req)) < 256 /\ FitsWord(Len(req.body))

\* A request as it is read: in ASCII.
AsRead(req) ==
    [namespace |-> ascii_bytes(req.namespace),
     request_type |-> ascii_bytes(req.request_type), body |-> req.body]
=============================================================================
