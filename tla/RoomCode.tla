------------------------------ MODULE RoomCode ------------------------------
(***************************************************************************)
(* models/room_code.rs: how a room code is drawn, written and read, and    *)
(* the EasyTier network it stands for.  A character is its ASCII code.     *)
(***************************************************************************)
EXTENDS Integers, Sequences

CONSTANT Invalid        \* RoomCodeInvalid

ASSUME RoomCodeAssumption ==
    Invalid \notin [raw : Seq(Nat), network_name_part : Seq(Nat), secret_part : Seq(Nat)]

\* CHARS: the digits, and the capital letters without I and O.
Chars ==
    [i \in 0..33 |-> IF i < 10 THEN 48 + i
                     ELSE IF i < 18 THEN 55 + i
                     ELSE IF i < 23 THEN 56 + i
                     ELSE 57 + i]

\* Mutant: the character class of the pattern leaves out L instead of I.
PatternCharWithoutL == (65..75) \cup (77..78) \cup (80..90) \cup (48..57)

PatternChar == (65..72) \cup (74..78) \cup (80..90) \cup (48..57)

Dash == 45
Prefix == <<85, 47>>

encode8(bytes) == [i \in 1..8 |-> Chars[bytes[i] % 34]]

\* Digits, alternately added and taken away, to a multiple of 7.
validate_checksum(part) ==
    LET digit(c) == CHOOSE d \in 0..33 : Chars[d] = c
        upto[i \in 0..Len(part)] ==
            IF i = 0 THEN 0
            ELSE upto[i - 1] + IF i % 2 = 1 THEN digit(part[i]) ELSE -digit(part[i])
    IN  /\ \A i \in 1..Len(part) : \E d \in 0..33 : Chars[d] = part[i]
        /\ upto[Len(part)] % 7 = 0

Group(text, g) == SubSeq(text, 5 * g - 2, 5 * g + 1)

\* The pattern: four groups of four characters after the prefix.
Matches(text) ==
    /\ Len(text) = 21 /\ SubSeq(text, 1, 2) = Prefix
    /\ \A g \in 1..4 : \A i \in 1..4 : Group(text, g)[i] \in PatternChar
    /\ \A g \in 1..3 : text[5 * g + 2] = Dash

\* The checksum is not looked at.
parse(text) ==
    IF Matches(text)
    THEN [raw |-> text,
          network_name_part |-> Group(text, 1) \o <<Dash>> \o Group(text, 2),
          secret_part |-> Group(text, 3) \o <<Dash>> \o Group(text, 4)]
    ELSE Invalid

write(part1, part2) ==
    Prefix \o SubSeq(part1, 1, 4) \o <<Dash>> \o SubSeq(part1, 5, 8) \o <<Dash>>
        \o SubSeq(part2, 1, 4) \o <<Dash>> \o SubSeq(part2, 5, 8)

\* What generate() may return when its random bytes come from draws.
generate(draws) ==
    LET parts == {p \in {encode8(d) : d \in draws} : validate_checksum(p)}
    IN  {parse(write(p, q)) : p \in parts, q \in parts}

\* The name and the secret that decide which EasyTier network is joined.
network(code) == <<code.network_name_part, code.secret_part>>
=============================================================================
