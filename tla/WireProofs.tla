----------------------------- MODULE WireProofs -----------------------------
(***************************************************************************)
(* Proofs about the frames, for every text and every body.                 *)
(***************************************************************************)
EXTENDS Wire, SequenceTheorems, WellFoundedInduction, TLAPS

\* Four bytes hold a length below 2^32.
LEMMA LengthBytes ==
    ASSUME NEW n \in Nat
    PROVE  /\ to_be_bytes(n) \in Seq(Byte) /\ Len(to_be_bytes(n)) = 4
           /\ FitsWord(n) => n = from_be_bytes(to_be_bytes(n), 1)
<1> DEFINE b1 == (n \div (256 * 256 * 256)) % 256
           b2 == (n \div (256 * 256)) % 256
           b3 == (n \div 256) % 256
           b4 == n % 256
<1>1. b1 \in Byte /\ b2 \in Byte /\ b3 \in Byte /\ b4 \in Byte
  BY DEF Byte
<1>2. FitsWord(n) => n = ((b1 * 256 + b2) * 256 + b3) * 256 + b4
  BY DEF FitsWord
<1>3. to_be_bytes(n) = <<b1, b2, b3, b4>>
  BY DEF to_be_bytes
<1> HIDE DEF b1, b2, b3, b4
<1> QED
  BY <1>1, <1>2, <1>3 DEF from_be_bytes

\* Replacing what is not ASCII keeps the number of characters.
LEMMA AsciiBytes ==
    ASSUME NEW s \in Text
    PROVE  /\ ascii_bytes(s) \in Seq(Byte) /\ Len(ascii_bytes(s)) = Len(s)
           /\ \A i \in 1..Len(s) :
                ascii_bytes(s)[i] = IF s[i] \in Ascii THEN s[i] ELSE Question
BY DEF ascii_bytes, Text, Byte, Ascii, Question

\* Bytes written in three pieces are the same however they are put together.
LEMMA BytesAssociative ==
    ASSUME NEW x \in Seq(Byte), NEW y \in Seq(Byte), NEW z \in Seq(Byte)
    PROVE  (x \o y) \o z = x \o (y \o z)
BY ConcatAssociative

\* A part in the middle of what follows each other can be taken out again.
LEMMA MiddlePart ==
    ASSUME NEW S, NEW a \in Seq(S), NEW b \in Seq(S), NEW c \in Seq(S)
    PROVE  /\ a \o b \o c \in Seq(S)
           /\ Len(a \o b \o c) = Len(a) + Len(b) + Len(c)
           /\ SubSeq(a \o b \o c, Len(a) + 1, Len(a) + Len(b)) = b
           /\ \A i \in 1..Len(a) : (a \o b \o c)[i] = a[i]
           /\ \A i \in 1..Len(b) : (a \o b \o c)[Len(a) + i] = b[i]
           /\ \A i \in 1..Len(c) : (a \o b \o c)[Len(a) + Len(b) + i] = c[i]
<1> DEFINE all == a \o b \o c
           part == SubSeq(all, Len(a) + 1, Len(a) + Len(b))
<1>1. /\ a \o b \in Seq(S) /\ Len(a \o b) = Len(a) + Len(b)
      /\ \A i \in 1..(Len(a) + Len(b)) :
            (a \o b)[i] = IF i <= Len(a) THEN a[i] ELSE b[i - Len(a)]
  BY ConcatProperties
<1>2. /\ all \in Seq(S) /\ Len(all) = Len(a \o b) + Len(c)
      /\ \A i \in 1..(Len(a \o b) + Len(c)) :
            all[i] = IF i <= Len(a \o b) THEN (a \o b)[i] ELSE c[i - Len(a \o b)]
  BY <1>1, ConcatProperties
<1>3. Len(a) \in Nat /\ Len(b) \in Nat /\ Len(c) \in Nat
  BY LenProperties
<1> HIDE DEF all
<1>4. \A i \in 1..Len(b) : all[Len(a) + i] = b[i]
  BY <1>1, <1>2, <1>3
<1>5. \A i \in 1..Len(a) : all[i] = a[i]
  BY <1>1, <1>2, <1>3
<1>6. /\ part \in Seq(S) /\ Len(part) = Len(b)
      /\ \A i \in 1..Len(b) : part[i] = all[Len(a) + i]
  <2>1. \A i \in (Len(a) + 1)..(Len(a) + Len(b)) : all[i] \in S
    BY <1>1, <1>2, <1>3, ElementOfSeq
  <2> QED
    BY <1>3, <2>1, SubSeqProperties
<1>7. part = b
  BY <1>3, <1>4, <1>6, SeqEqual
<1>8. ASSUME NEW i \in 1..Len(c) PROVE all[Len(a) + Len(b) + i] = c[i]
  <2> DEFINE m == Len(a) + Len(b)
             l == Len(c)
  <2>1. m = Len(a \o b) /\ m \in Nat /\ l \in Nat
    BY <1>1, <1>3
  <2>2. all[m + i] = IF m + i <= m THEN (a \o b)[m + i] ELSE c[(m + i) - m]
    <3>1. \A k \in 1..(m + l) : all[k] = IF k <= m THEN (a \o b)[k] ELSE c[k - m]
      BY <1>2, <2>1
    <3> HIDE DEF m, l
    <3>2. m + i \in 1..(m + l)
      <4>1. i \in 1..l
        BY DEF l
      <4> QED
        BY <2>1, <4>1
    <3> QED
      BY <3>1, <3>2
  <2> HIDE DEF m
  <2>3. ~(m + i <= m) /\ (m + i) - m = i
    BY <2>1
  <2> QED
    BY <2>2, <2>3 DEF m
<1> QED
  BY <1>1, <1>2, <1>3, <1>4, <1>5, <1>7, <1>8 DEF all

\* Reading the length of a frame part anywhere in a stream.
LEMMA LengthInside ==
    ASSUME NEW n \in Nat, FitsWord(n), NEW a \in Seq(Byte), NEW c \in Seq(Byte)
    PROVE  from_be_bytes(a \o to_be_bytes(n) \o c, Len(a) + 1) = n
<1> DEFINE be == to_be_bytes(n)
           all == a \o be \o c
<1>1. be \in Seq(Byte) /\ Len(be) = 4 /\ n = from_be_bytes(be, 1)
  BY LengthBytes
<1> HIDE DEF be
<1>2. \A i \in 1..Len(be) : all[Len(a) + i] = be[i]
  <2>1. be \in Seq(Byte)
    BY <1>1
  <2> QED
    BY <2>1, MiddlePart
<1>3. Len(a) \in Nat
  BY LenProperties
<1>4. /\ all[Len(a) + 1] = be[1] /\ all[Len(a) + 1 + 1] = be[2]
      /\ all[Len(a) + 1 + 2] = be[3] /\ all[Len(a) + 1 + 3] = be[4]
  <2>1. 1 + 1 = 2 /\ 1 + 2 = 3 /\ 1 + 3 = 4
    OBVIOUS
  <2>2. Len(a) + 1 + 1 = Len(a) + 2 /\ Len(a) + 1 + 2 = Len(a) + 3
        /\ Len(a) + 1 + 3 = Len(a) + 4
    BY <1>3
  <2> HIDE DEF all
  <2> QED
    BY <1>1, <1>2, <2>2
<1> HIDE DEF all
<1>5. from_be_bytes(all, Len(a) + 1) = from_be_bytes(be, 1)
  BY <1>4 DEF from_be_bytes
<1> QED
  BY <1>1, <1>5 DEF all, be

\* The type that a request is read with, and where it is split.
LEMMA TypeSplits ==
    ASSUME NEW req \in Request, \A i \in 1..Len(req.namespace) : req.namespace[i] # Colon
    PROVE  LET type == ascii_bytes(Key(req))
           IN  /\ type \in Seq(Byte) /\ Len(type) = Len(Key(req)) /\ HasColon(type)
               /\ split_type_str(type)
                    = <<ascii_bytes(req.namespace), ascii_bytes(req.request_type)>>
<1> DEFINE ns == req.namespace
           rt == req.request_type
           type == ascii_bytes(Key(req))
           at == Len(ns) + 1
<1>1. ns \in Text /\ rt \in Text /\ <<Colon>> \in Text /\ Len(<<Colon>>) = 1
  BY DEF Request, Text, Colon, Ascii
<1>2. /\ Key(req) \in Text /\ Len(Key(req)) = Len(ns) + 1 + Len(rt)
      /\ \A i \in 1..Len(ns) : Key(req)[i] = ns[i]
      /\ Key(req)[at] = Colon
      /\ \A i \in 1..Len(rt) : Key(req)[at + i] = rt[i]
  <2> DEFINE colon == <<Colon>>
             key == ns \o colon \o rt
  <2>1. colon \in Text /\ Len(colon) = 1 /\ colon[1] = Colon /\ Key(req) = key
    BY <1>1 DEF Key
  <2> HIDE DEF ns, rt, colon
  <2>2. /\ key \in Text /\ Len(key) = Len(ns) + Len(colon) + Len(rt)
        /\ \A i \in 1..Len(ns) : key[i] = ns[i]
        /\ \A i \in 1..Len(colon) : key[Len(ns) + i] = colon[i]
        /\ \A i \in 1..Len(rt) : key[Len(ns) + Len(colon) + i] = rt[i]
    <3>1. ns \in Seq(Ascii \cup Foreign) /\ colon \in Seq(Ascii \cup Foreign)
          /\ rt \in Seq(Ascii \cup Foreign)
      BY <1>1, <2>1 DEF Text
    <3> HIDE DEF Text
    <3> QED
      BY <3>1, MiddlePart DEF Text
  <2> HIDE DEF key
  <2> QED
    BY <2>1, <2>2
<1>3. Len(ns) \in Nat /\ Len(rt) \in Nat
  BY <1>1, LenProperties DEF Text
<1>4. /\ type \in Seq(Byte) /\ Len(type) = Len(Key(req))
      /\ \A i \in 1..Len(type) :
            type[i] = IF Key(req)[i] \in Ascii THEN Key(req)[i] ELSE Question
  BY <1>2, AsciiBytes
<1>5. /\ ascii_bytes(ns) \in Seq(Byte) /\ Len(ascii_bytes(ns)) = Len(ns)
      /\ \A i \in 1..Len(ns) :
            ascii_bytes(ns)[i] = IF ns[i] \in Ascii THEN ns[i] ELSE Question
      /\ ascii_bytes(rt) \in Seq(Byte) /\ Len(ascii_bytes(rt)) = Len(rt)
      /\ \A i \in 1..Len(rt) :
            ascii_bytes(rt)[i] = IF rt[i] \in Ascii THEN rt[i] ELSE Question
  BY <1>1, AsciiBytes
<1>noColon. \A i \in 1..Len(ns) : ns[i] # Colon
  OBVIOUS
<1> HIDE DEF type, ns, rt
<1>6. type[at] = Colon /\ at \in 1..Len(type)
  BY <1>2, <1>3, <1>4 DEF Colon, Ascii
<1>7. \A i \in 1..Len(ns) : type[i] # Colon /\ type[i] = ascii_bytes(ns)[i]
  BY <1>noColon, <1>2, <1>3, <1>4, <1>5 DEF Colon, Question
<1>8. \A i \in 1..Len(rt) : type[at + i] = ascii_bytes(rt)[i]
  BY <1>2, <1>3, <1>4, <1>5
<1>9. (CHOOSE i \in 1..Len(type) :
            type[i] = Colon /\ \A j \in 1..(i - 1) : type[j] # Colon) = at
  <2> DEFINE first == CHOOSE i \in 1..Len(type) :
                        type[i] = Colon /\ \A j \in 1..(i - 1) : type[j] # Colon
  <2>1. /\ first \in 1..Len(type) /\ type[first] = Colon
        /\ \A j \in 1..(first - 1) : type[j] # Colon
    <3>1. at \in 1..Len(type) /\ type[at] = Colon
          /\ \A j \in 1..(at - 1) : type[j] # Colon
      BY <1>3, <1>6, <1>7
    <3> QED
      BY <3>1
  <2> HIDE DEF first
  <2>2. ~(first < at)
    BY <1>3, <1>7, <2>1
  <2>3. ~(at < first)
    BY <1>3, <1>6, <2>1
  <2>4. first \in Int /\ at \in Int
    BY <1>3, <2>1
  <2>5. first = at
    BY <2>2, <2>3, <2>4
  <2> QED
    BY <2>5 DEF first
<1>10. SubSeq(type, 1, at - 1) = ascii_bytes(ns)
  <2>1. \A i \in 1..(at - 1) : type[i] \in Byte
    BY <1>3, <1>4, <1>6, ElementOfSeq
  <2>2. /\ SubSeq(type, 1, at - 1) \in Seq(Byte) /\ Len(SubSeq(type, 1, at - 1)) = Len(ns)
        /\ \A i \in 1..Len(ns) : SubSeq(type, 1, at - 1)[i] = type[i]
    BY <1>3, <2>1, SubSeqProperties
  <2> QED
    BY <1>5, <1>7, <2>2, SeqEqual
<1>11. SubSeq(type, at + 1, Len(type)) = ascii_bytes(rt)
  <2> DEFINE tail == SubSeq(type, at + 1, Len(type))
  <2>1. Len(type) = at + Len(rt)
    BY <1>2, <1>4
  <2>2. \A i \in (at + 1)..Len(type) : type[i] \in Byte
    BY <1>3, <1>4, <2>1, ElementOfSeq
  <2>3. /\ tail \in Seq(Byte) /\ Len(tail) = Len(rt)
        /\ \A i \in 1..Len(rt) : tail[i] = type[at + i]
    BY <1>3, <2>1, <2>2, SubSeqProperties
  <2> HIDE DEF tail
  <2>4. tail = ascii_bytes(rt)
    BY <1>5, <1>8, <2>3, SeqEqual
  <2> QED
    BY <2>4 DEF tail
<1> QED
  BY <1>4, <1>6, <1>9, <1>10, <1>11 DEF HasColon, split_type_str, type, ns, rt

-----------------------------------------------------------------------------
\* The bytes of a response, one part after the other.
LEMMA ResponseParts ==
    ASSUME NEW resp \in Response, FitsWord(Len(resp.body)), NEW rest \in Seq(Byte)
    PROVE  LET frame == serialize_response(resp)
               bytes == frame \o rest
           IN  /\ frame \in Seq(Byte) /\ Len(frame) = 5 + Len(resp.body)
               /\ bytes \in Seq(Byte) /\ Len(bytes) = Len(frame) + Len(rest)
               /\ bytes[1] = resp.status
               /\ from_be_bytes(bytes, 2) = Len(resp.body)
               /\ SubSeq(bytes, 6, 5 + Len(resp.body)) = resp.body
<1> DEFINE body == resp.body
           head == <<resp.status>>
           be == to_be_bytes(Len(body))
           frame == serialize_response(resp)
           bytes == frame \o rest
<1>1. /\ body \in Seq(Byte) /\ resp.status \in Byte
      /\ head \in Seq(Byte) /\ Len(head) = 1 /\ head[1] = resp.status
  BY DEF Response
<1>2. Len(body) \in Nat /\ Len(rest) \in Nat
  BY <1>1, LenProperties
<1>3. be \in Seq(Byte) /\ Len(be) = 4
  BY <1>2, LengthBytes
<1>4. frame = head \o be \o body
  BY DEF serialize_response
<1>5. from_be_bytes(head \o be \o (body \o rest), Len(head) + 1) = Len(body)
  <2>1. body \o rest \in Seq(Byte)
    BY <1>1, ConcatProperties
  <2> HIDE DEF head
  <2> QED
    BY <1>1, <1>2, <2>1, LengthInside
<1> HIDE DEF body, head, be
<1>6. /\ head \o be \in Seq(Byte) /\ Len(head \o be) = 5
      /\ (head \o be)[1] = head[1]
  <2>1. /\ head \o be \in Seq(Byte) /\ Len(head \o be) = Len(head) + Len(be)
        /\ \A i \in 1..(Len(head) + Len(be)) :
            (head \o be)[i] = IF i <= Len(head) THEN head[i] ELSE be[i - Len(head)]
    BY <1>1, <1>3, ConcatProperties
  <2> QED
    BY <1>1, <1>3, <2>1
<1>7. /\ frame \in Seq(Byte) /\ Len(frame) = 5 + Len(body)
  BY <1>1, <1>4, <1>6, ConcatProperties
<1>8. bytes = (head \o be) \o body \o rest
  BY <1>4
<1> DEFINE front == head \o be
           all == front \o body \o rest
<1>begins. front \in Seq(Byte)
  BY <1>6
<1> HIDE DEF front
<1>9. bytes = head \o be \o (body \o rest)
  <2> HIDE DEF frame, bytes
  <2>1. front \o body \o rest = front \o (body \o rest)
    <3>1. body \in Seq(Byte) /\ front \in Seq(Byte) /\ rest \in Seq(Byte)
      BY <1>1, <1>begins
    <3> QED
      BY <3>1, BytesAssociative, Zenon
  <2> QED
    BY <1>8, <2>1 DEF front
<1>10. /\ all \in Seq(Byte) /\ Len(all) = Len(front) + Len(body) + Len(rest)
       /\ SubSeq(all, Len(front) + 1, Len(front) + Len(body)) = body
       /\ \A i \in 1..Len(front) : all[i] = front[i]
  BY <1>1, <1>begins, MiddlePart
<1> HIDE DEF all, frame, bytes
<1>11. bytes = all
  BY <1>8 DEF all, front, bytes
<1>12. Len(front) = 5 /\ front[1] = resp.status /\ Len(head) + 1 = 2
  BY <1>1, <1>6 DEF front
<1>13. from_be_bytes(bytes, 2) = Len(body)
  BY <1>5, <1>9, <1>12
<1>14. bytes[1] = resp.status
  BY <1>10, <1>11, <1>12
<1>15. SubSeq(bytes, 6, 5 + Len(body)) = body
  BY <1>10, <1>11, <1>12
<1>16. bytes \in Seq(Byte) /\ Len(bytes) = Len(frame) + Len(rest)
  BY <1>2, <1>7, <1>10, <1>11, <1>12
<1> QED
  BY <1>7, <1>13, <1>14, <1>15, <1>16 DEF body, frame, bytes

\* A response arrives as it was sent, whatever follows it on the stream: the
\* host's serialize_response and the guest's deserialize_response_async agree.
THEOREM ResponseReadsBack ==
    ASSUME NEW resp \in Response, FitsWord(Len(resp.body)), NEW rest \in Seq(Byte)
    PROVE  LET frame == serialize_response(resp)
               bytes == frame \o rest
           IN  /\ ResponseReady(bytes) /\ ResponseSize(bytes) = Len(frame)
               /\ parse_response(bytes) = resp
<1> DEFINE body == resp.body
           frame == serialize_response(resp)
           bytes == frame \o rest
<1>1. /\ body \in Seq(Byte) /\ resp = [status |-> resp.status, body |-> body]
  BY DEF Response
<1>2. Len(body) \in Nat /\ Len(rest) \in Nat
  BY <1>1, LenProperties
<1>3. /\ Len(frame) = 5 + Len(body) /\ Len(bytes) = Len(frame) + Len(rest)
      /\ bytes[1] = resp.status /\ from_be_bytes(bytes, 2) = Len(body)
      /\ SubSeq(bytes, 6, 5 + Len(body)) = body
  BY ResponseParts
<1> HIDE DEF body, frame, bytes
<1>4. ResponseSize(bytes) = 5 + Len(body) /\ ResponseReady(bytes)
  BY <1>2, <1>3 DEF ResponseSize, ResponseReady
<1>5. parse_response(bytes) = resp
  BY <1>1, <1>3, <1>4 DEF parse_response
<1> QED
  BY <1>3, <1>4, <1>5 DEF bytes, frame

\* No part of a response passes for one: the guest waits for the rest.
THEOREM NoResponseTooSoon ==
    ASSUME NEW resp \in Response, FitsWord(Len(resp.body)),
           NEW k \in 0..(Len(serialize_response(resp)) - 1)
    PROVE  ~ResponseReady(SubSeq(serialize_response(resp), 1, k))
<1> DEFINE frame == serialize_response(resp)
           short == SubSeq(frame, 1, k)
           none == <<>>
<1>1. none \in Seq(Byte) /\ Len(none) = 0
  OBVIOUS
<1>2. /\ frame \in Seq(Byte) /\ Len(frame) = 5 + Len(resp.body)
      /\ from_be_bytes(frame \o none, 2) = Len(resp.body)
  BY <1>1, ResponseParts
<1>3. frame \o none = frame
  BY <1>2, ConcatEmptySeq
<1>4. Len(resp.body) \in Nat
  BY DEF Response
<1>5. \A i \in 1..k : frame[i] \in Byte
  BY <1>2, <1>4, ElementOfSeq
<1> HIDE DEF frame
<1>6. /\ short \in Seq(Byte) /\ Len(short) = k /\ \A i \in 1..k : short[i] = frame[i]
  BY <1>2, <1>4, <1>5, SubSeqProperties DEF frame
<1> HIDE DEF short
<1>7. k >= 5 => from_be_bytes(short, 2) = from_be_bytes(frame, 2)
  BY <1>6 DEF from_be_bytes
<1>8. k \in Nat /\ k < Len(frame)
  BY <1>2, <1>4 DEF frame
<1> QED
  BY <1>2, <1>3, <1>4, <1>6, <1>7, <1>8
     DEF ResponseReady, ResponseSize, short, frame

-----------------------------------------------------------------------------
\* The bytes of a request, one part after the other.
LEMMA RequestParts ==
    ASSUME NEW req \in Request, Fits(req), NEW rest \in Seq(Byte)
    PROVE  LET type == ascii_bytes(Key(req))
               frame == serialize_request(req)
               bytes == frame \o rest
           IN  /\ type \in Seq(Byte)
               /\ frame \in Seq(Byte) /\ Len(frame) = 5 + Len(type) + Len(req.body)
               /\ bytes \in Seq(Byte) /\ Len(bytes) = Len(frame) + Len(rest)
               /\ bytes[1] = Len(type)
               /\ SubSeq(bytes, 2, 1 + Len(type)) = type
               /\ from_be_bytes(bytes, 2 + Len(type)) = Len(req.body)
               /\ SubSeq(bytes, 6 + Len(type), 5 + Len(type) + Len(req.body)) = req.body
<1> DEFINE body == req.body
           type == ascii_bytes(Key(req))
           head == <<Len(type) % 256>>
           be == to_be_bytes(Len(body))
           frame == serialize_request(req)
           bytes == frame \o rest
<1>1. body \in Seq(Byte)
  BY DEF Request
<1>2. Len(body) \in Nat /\ Len(rest) \in Nat
  BY <1>1, LenProperties
<1>3. be \in Seq(Byte) /\ Len(be) = 4
  BY <1>2, LengthBytes
<1>4. type \in Seq(Byte) /\ Len(type) \in Nat /\ Len(type) < 256
  <2>1. Key(req) \in Text
    <3>1. req.namespace \in Text /\ req.request_type \in Text /\ <<Colon>> \in Text
      BY DEF Request, Text, Colon, Ascii
    <3> QED
      BY <3>1, ConcatProperties DEF Key, Text
  <2>2. type \in Seq(Byte) /\ Len(type) = Len(Key(req))
    BY <2>1, AsciiBytes
  <2> QED
    BY <2>2, LenProperties DEF Fits
<1> HIDE DEF type
<1>5. head \in Seq(Byte) /\ Len(head) = 1 /\ head[1] = Len(type)
  <2> HIDE DEF body, be, frame, bytes
  <2>1. Len(type) % 256 = Len(type) /\ Len(type) \in Byte
    <3> DEFINE n == Len(type)
    <3>1. n \in Nat /\ n < 256
      BY <1>4
    <3> HIDE DEF head, n
    <3>2. n % 256 = n /\ n \in Byte
      BY <3>1 DEF Byte
    <3> QED
      BY <3>2 DEF n
  <2> QED
    BY <2>1
<1>6. frame = head \o type \o be \o body
  BY DEF serialize_request, type
<1>7. FitsWord(Len(body))
  BY DEF Fits
<1> HIDE DEF body, head, be, frame, bytes
<1>8. head \o type \in Seq(Byte) /\ Len(head \o type) = 1 + Len(type)
  <2>1. head \in Seq(Byte) /\ type \in Seq(Byte)
    BY <1>4, <1>5
  <2>2. head \o type \in Seq(Byte) /\ Len(head \o type) = Len(head) + Len(type)
    BY <2>1, ConcatProperties
  <2> QED
    BY <1>5, <2>2
<1> DEFINE front == head \o type
<1>9. body \o rest \in Seq(Byte) /\ front \in Seq(Byte)
  BY <1>1, <1>8, ConcatProperties
<1> HIDE DEF front
<1>10. front \o be \in Seq(Byte) /\ Len(front \o be) = 5 + Len(type)
  <2>1. front \o be \in Seq(Byte) /\ Len(front \o be) = Len(front) + Len(be)
    BY <1>3, <1>9, ConcatProperties
  <2>2. Len(front) = 1 + Len(type)
    BY <1>8 DEF front
  <2> QED
    BY <1>3, <1>4, <2>1, <2>2
<1> DEFINE header == front \o be
<1>11. header \in Seq(Byte)
  BY <1>10
<1>12. bytes = header \o body \o rest
  BY <1>6 DEF bytes, front
<1> HIDE DEF header
<1>13. header \o body \o rest = header \o (body \o rest)
  BY <1>1, <1>11, BytesAssociative, Zenon
<1>14. bytes = front \o be \o (body \o rest)
  BY <1>12, <1>13 DEF header
<1> DEFINE after == be \o (body \o rest)
<1>15. after \in Seq(Byte)
  BY <1>3, <1>9, ConcatProperties
<1>16. front \o be \o (body \o rest) = front \o after
  <2> DEFINE tail == body \o rest
  <2>1. tail \in Seq(Byte)
    BY <1>9
  <2> HIDE DEF tail
  <2>2. front \in Seq(Byte) /\ be \in Seq(Byte)
    BY <1>3, <1>9
  <2>3. (front \o be) \o tail = front \o (be \o tail)
    BY <2>1, <2>2, BytesAssociative
  <2> QED
    BY <2>3 DEF tail
<1> HIDE DEF after
<1>17. bytes = head \o type \o after
  BY <1>14, <1>16 DEF front
<1>18. /\ SubSeq(bytes, Len(head) + 1, Len(head) + Len(type)) = type
       /\ \A i \in 1..Len(head) : bytes[i] = head[i]
  <2>1. head \in Seq(Byte) /\ type \in Seq(Byte)
    BY <1>4, <1>5
  <2> HIDE DEF header
  <2> QED
    BY <2>1, <1>15, <1>17, MiddlePart
<1>19. bytes[1] = Len(type) /\ SubSeq(bytes, 2, 1 + Len(type)) = type
  BY <1>4, <1>5, <1>18
<1>20. /\ bytes \in Seq(Byte) /\ Len(bytes) = Len(header) + Len(body) + Len(rest)
       /\ SubSeq(bytes, Len(header) + 1, Len(header) + Len(body)) = body
  BY <1>1, <1>11, <1>12, MiddlePart
<1>21. Len(header) = 5 + Len(type)
  BY <1>10 DEF header
<1>22. SubSeq(bytes, 6 + Len(type), 5 + Len(type) + Len(body)) = body
  BY <1>4, <1>20, <1>21
<1>23. frame \in Seq(Byte) /\ Len(frame) = 5 + Len(type) + Len(body)
  <2>1. frame = header \o body
    BY <1>6 DEF header, front
  <2> QED
    BY <1>1, <1>11, <1>21, <2>1, ConcatProperties
<1>24. Len(bytes) = Len(frame) + Len(rest)
  BY <1>2, <1>4, <1>20, <1>21, <1>23
<1>25. from_be_bytes(bytes, 2 + Len(type)) = Len(body)
  <2>1. from_be_bytes(front \o be \o (body \o rest), Len(front) + 1) = Len(body)
    BY <1>2, <1>7, <1>9, LengthInside DEF be
  <2>2. Len(front) + 1 = 2 + Len(type)
    BY <1>4, <1>8 DEF front
  <2> QED
    BY <1>14, <2>1, <2>2
<1> QED
  BY <1>4, <1>19, <1>20, <1>22, <1>23, <1>24, <1>25 DEF type, body, frame, bytes

\* A request whose lengths fit their fields arrives as it was sent, in ASCII:
\* the guest's serialize_request and the host's deserialize_request_async agree,
\* whatever follows the request on the stream.
THEOREM RequestReadsBack ==
    ASSUME NEW req \in Request, Fits(req), NEW rest \in Seq(Byte),
           \A i \in 1..Len(req.namespace) : req.namespace[i] # Colon
    PROVE  LET frame == serialize_request(req)
               bytes == frame \o rest
           IN  /\ RequestReady(bytes) /\ RequestSize(bytes) = Len(frame)
               /\ parse_request(bytes) = AsRead(req)
<1> DEFINE body == req.body
           type == ascii_bytes(Key(req))
           frame == serialize_request(req)
           bytes == frame \o rest
<1>1. Len(body) \in Nat /\ Len(rest) \in Nat
  BY LenProperties DEF Request
<1>2. /\ type \in Seq(Byte) /\ HasColon(type)
      /\ split_type_str(type)
            = <<ascii_bytes(req.namespace), ascii_bytes(req.request_type)>>
  BY TypeSplits
<1>3. Len(type) \in Nat
  BY <1>2, LenProperties
<1>4. /\ Len(frame) = 5 + Len(type) + Len(body) /\ Len(bytes) = Len(frame) + Len(rest)
      /\ bytes[1] = Len(type) /\ SubSeq(bytes, 2, 1 + Len(type)) = type
      /\ from_be_bytes(bytes, 2 + Len(type)) = Len(body)
      /\ SubSeq(bytes, 6 + Len(type), 5 + Len(type) + Len(body)) = body
  BY RequestParts
<1> HIDE DEF body, type, frame, bytes
<1>5. RequestSize(bytes) = 5 + Len(type) + Len(body)
  BY <1>4 DEF RequestSize
<1>6. RequestReady(bytes)
  BY <1>1, <1>3, <1>4, <1>5 DEF RequestReady
<1>7. parse_request(bytes) =
        [namespace |-> ascii_bytes(req.namespace),
         request_type |-> ascii_bytes(req.request_type), body |-> body]
  <2>1. /\ SubSeq(bytes, 2, 1 + bytes[1]) = type
        /\ SubSeq(bytes, 6 + bytes[1], RequestSize(bytes)) = body
    BY <1>4, <1>5
  <2>2. /\ split_type_str(type)[1] = ascii_bytes(req.namespace)
        /\ split_type_str(type)[2] = ascii_bytes(req.request_type)
    BY <1>2
  <2>3. HasColon(type)
    BY <1>2
  <2> QED
    BY <1>6, <2>1, <2>2, <2>3, Zenon DEF parse_request
<1> QED
  BY <1>4, <1>5, <1>6, <1>7 DEF AsRead, bytes, frame, body

\* No part of a request passes for one: the host waits for the rest.
THEOREM NoRequestTooSoon ==
    ASSUME NEW req \in Request, Fits(req),
           NEW k \in 0..(Len(serialize_request(req)) - 1)
    PROVE  ~RequestReady(SubSeq(serialize_request(req), 1, k))
<1> DEFINE type == ascii_bytes(Key(req))
           frame == serialize_request(req)
           short == SubSeq(frame, 1, k)
           none == <<>>
<1>1. none \in Seq(Byte) /\ Len(none) = 0
  OBVIOUS
<1>2. /\ type \in Seq(Byte)
      /\ frame \in Seq(Byte) /\ Len(frame) = 5 + Len(type) + Len(req.body)
  BY <1>1, RequestParts
<1>3. /\ frame[1] = Len(type)
      /\ from_be_bytes(frame, 2 + Len(type)) = Len(req.body)
  <2>1. /\ (frame \o none)[1] = Len(type)
        /\ from_be_bytes(frame \o none, 2 + Len(type)) = Len(req.body)
    BY <1>1, RequestParts
  <2>2. frame \o none = frame
    BY <1>2, ConcatEmptySeq
  <2> QED
    BY <2>1, <2>2
<1>4. Len(req.body) \in Nat /\ Len(type) \in Nat
  BY <1>2, LenProperties DEF Request
<1>range. k \in 0..(Len(frame) - 1)
  OBVIOUS
<1> HIDE DEF frame, type, short, none
<1>9. k \in Nat /\ k < Len(frame)
  <2>1. Len(frame) \in Nat
    BY <1>2, LenProperties
  <2> QED
    BY <1>range, <2>1
<1>5. \A i \in 1..k : frame[i] \in Byte
  <2>1. frame \in Seq(Byte)
    BY <1>2
  <2>2. \A i \in 1..k : i \in 1..Len(frame)
    <3>1. Len(frame) \in Nat
      BY <1>2, LenProperties
    <3> QED
      BY <1>9, <3>1
  <2> QED
    BY <2>1, <2>2, ElementOfSeq
<1>6. /\ short \in Seq(Byte) /\ Len(short) = k /\ \A i \in 1..k : short[i] = frame[i]
  BY <1>5, <1>9, SubSeqProperties DEF short
<1>7. k >= 1 => short[1] = Len(type)
  BY <1>3, <1>6, <1>9
<1>8. k >= 5 + Len(type) =>
        from_be_bytes(short, 2 + Len(type)) = from_be_bytes(frame, 2 + Len(type))
  BY <1>4, <1>6 DEF from_be_bytes
<1>10. Len(frame) = 5 + Len(type) + Len(req.body)
  BY <1>2
<1>11. SUFFICES ASSUME RequestReady(short) PROVE FALSE
  BY DEF short, frame
<1>12. k >= 1 /\ k >= 5 + short[1] /\ k >= RequestSize(short)
  BY <1>6, <1>11 DEF RequestReady
<1>13. RequestSize(short) = 5 + Len(type) + Len(req.body)
  <2>1. short[1] = Len(type)
    BY <1>7, <1>12
  <2>2. from_be_bytes(short, 2 + Len(type)) = Len(req.body)
    BY <1>3, <1>8, <1>12, <2>1
  <2> QED
    BY <2>1, <2>2 DEF RequestSize
<1>14. RequestSize(short) = Len(frame)
  BY <1>10, <1>13, Zenon
<1>15. k >= Len(frame) /\ Len(frame) \in Nat
  BY <1>2, <1>12, <1>14, LenProperties
<1> QED
  BY <1>9, <1>15

-----------------------------------------------------------------------------
(* Recursive definitions and marks on a line.                              *)

\* A non-empty set of naturals has a least member: what the proofs about texts
\* and lists use in place of an induction rule.
LEMMA Least ==
    ASSUME NEW S \in SUBSET Nat, S # {}
    PROVE  \E m \in S : \A k \in S : m <= k
<1> DEFINE R == OpToRel(<, Nat)
<1>1. IsWellFoundedOn(R, Nat)
  BY NatLessThanWellFounded
<1>2. \A j, k \in Nat : <<j, k>> \in R <=> j < k
  BY DEF OpToRel
<1> HIDE DEF R
<1>3. PICK m \in S : \A k \in S : <<k, m>> \notin R
  BY <1>1, WFMin
<1>4. ASSUME NEW k \in S PROVE m <= k
  <2>1. k \in Nat /\ m \in Nat
    OBVIOUS
  <2>2. ~(k < m)
    BY <1>2, <1>3, <2>1
  <2> QED
    BY <2>1, <2>2
<1> QED
  BY <1>3, <1>4

\* The values of a recursive definition over 0..n that takes each from the one
\* before it.
Solves(f, S, a, n, g) ==
    f \in [0..n -> S] /\ f[0] = a /\ \A i \in 1..n : f[i] = g[<<i, f[i - 1]>>]

\* Such a definition has a solution.
LEMMA Recursion ==
    ASSUME NEW S, NEW a \in S, NEW n \in Nat, NEW g \in [(1..n) \X S -> S]
    PROVE  \E f : Solves(f, S, a, n, g)
<1> USE DEF Solves
<1> DEFINE Bad == {m \in 0..n : ~\E f : Solves(f, S, a, m, g)}
<1>1. SUFFICES Bad = {}
  <2>1. n \in 0..n
    OBVIOUS
  <2>2. \E f : Solves(f, S, a, n, g)
    BY <1>1, <2>1
  <2> QED
    BY <2>2
<1>2. SUFFICES ASSUME Bad # {} PROVE FALSE
  OBVIOUS
<1>3. PICK m \in Bad : \A k \in Bad : m <= k
  <2>1. Bad \in SUBSET Nat
    OBVIOUS
  <2> HIDE DEF Bad
  <2> QED
    BY <1>2, <2>1, Least
<1>4. m # 0
  <2>1. Solves([i \in 0..0 |-> a], S, a, 0, g)
    OBVIOUS
  <2> QED
    BY <2>1
<1>5. m - 1 \in 0..n /\ m - 1 \notin Bad /\ m \in 1..n
  BY <1>3, <1>4
<1>6. PICK f : Solves(f, S, a, m - 1, g)
  BY <1>5
<1> DEFINE h == [i \in 0..m |-> IF i < m THEN f[i] ELSE g[<<m, f[m - 1]>>]]
<1>7. f[m - 1] \in S /\ g[<<m, f[m - 1]>>] \in S
  BY <1>5, <1>6
<1>8. h \in [0..m -> S] /\ h[0] = a /\ h[m] = g[<<m, f[m - 1]>>]
      /\ \A i \in 0..(m - 1) : h[i] = f[i]
  BY <1>5, <1>6, <1>7
<1> HIDE DEF h
<1>9. ASSUME NEW i \in 1..m PROVE h[i] = g[<<i, h[i - 1]>>]
  <2>1. h[i - 1] = f[i - 1]
    BY <1>5, <1>8
  <2>2. CASE i = m
    BY <1>8, <2>1, <2>2
  <2>3. CASE i # m
    <3>1. i \in 1..(m - 1) /\ i \in 0..(m - 1)
      BY <1>5, <2>3
    <3> QED
      BY <1>6, <1>8, <2>1, <3>1
  <2> QED
    BY <2>2, <2>3
<1>10. Solves(h, S, a, m, g)
  BY <1>8, <1>9
<1> QED
  BY <1>3, <1>10

\* Of an increasing sequence of marks a smaller one stands before a greater.
LEMMA MarksIncrease ==
    ASSUME NEW n \in Nat, NEW e \in [0..n -> Nat], \A i \in 1..n : e[i - 1] < e[i]
    PROVE  \A i, j \in 0..n : i < j => e[i] < e[j]
<1> DEFINE Bad == {j \in 0..n : \E i \in 0..n : i < j /\ ~(e[i] < e[j])}
<1>1. SUFFICES ASSUME Bad # {} PROVE FALSE
  OBVIOUS
<1>2. PICK j \in Bad : \A k \in Bad : j <= k
  <2>1. Bad \in SUBSET Nat
    OBVIOUS
  <2> HIDE DEF Bad
  <2> QED
    BY <1>1, <2>1, Least
<1>3. PICK i \in 0..n : i < j /\ ~(e[i] < e[j])
  BY <1>2
<1>4. j \in 1..n /\ j - 1 \in 0..n /\ e[j - 1] < e[j]
  BY <1>2, <1>3
<1>5. i < j - 1
  <2>1. i # j - 1
    BY <1>3, <1>4
  <2>2. i \in Int /\ j \in Int
    BY <1>3, <1>4
  <2> QED
    BY <1>3, <2>1, <2>2
<1>6. j - 1 \notin Bad
  BY <1>2, <1>4
<1>7. e[i] < e[j - 1]
  BY <1>3, <1>4, <1>5, <1>6
<1>8. e[i] \in Nat /\ e[j - 1] \in Nat /\ e[j] \in Nat
  <2>1. i \in 0..n /\ j - 1 \in 0..n /\ j \in 0..n
    BY <1>3, <1>4
  <2> QED
    BY <2>1
<1> QED
  BY <1>3, <1>4, <1>7, <1>8

\* Every place lies behind one mark and not behind the next, and behind no other.
LEMMA MarkOf ==
    ASSUME NEW n \in Nat, NEW e \in [0..n -> Nat], e[0] = 0,
           \A i \in 1..n : e[i - 1] < e[i], NEW j \in 1..e[n]
    PROVE  \E i \in 1..n : /\ e[i - 1] < j /\ j <= e[i]
                           /\ \A k \in 1..n : e[k - 1] < j /\ j <= e[k] => k = i
<1> DEFINE After == {i \in 0..n : j <= e[i]}
<1>1. n \in After
  <2>1. n \in 0..n /\ e[n] \in Nat
    OBVIOUS
  <2>2. j <= e[n]
    BY <2>1
  <2> QED
    BY <2>1, <2>2
<1>2. PICK i \in After : \A k \in After : i <= k
  <2>1. After \in SUBSET Nat
    OBVIOUS
  <2>2. After # {}
    BY <1>1
  <2> HIDE DEF After
  <2> QED
    BY <2>1, <2>2, Least
<1>3. i \in 1..n /\ i - 1 \in 0..n /\ i - 1 \notin After
  BY <1>2
<1>4. e[i - 1] < j /\ j <= e[i]
  BY <1>2, <1>3
<1>5. ASSUME NEW k \in 1..n, e[k - 1] < j, j <= e[k] PROVE k = i
  <2>1. k \in After /\ i <= k
    BY <1>2, <1>5
  <2>2. CASE i < k
    <3>1. e[i] <= e[k - 1]
      <4>1. CASE i = k - 1
        BY <1>3, <4>1
      <4>2. CASE i # k - 1
        <5>1. i < k - 1 /\ i \in 0..n /\ k - 1 \in 0..n
          BY <1>3, <2>2, <4>2
        <5>2. e[i] < e[k - 1]
          BY <5>1, MarksIncrease
        <5> QED
          BY <5>1, <5>2
      <4> QED
        BY <4>1, <4>2
    <3>2. e[i] \in Nat /\ e[k - 1] \in Nat
      BY <1>3
    <3> QED
      BY <1>4, <1>5, <3>1, <3>2
  <2> QED
    BY <1>3, <2>1, <2>2
<1> QED
  BY <1>3, <1>4, <1>5

-----------------------------------------------------------------------------
(* Texts in UTF-8.                                                         *)

\* The equation of ends in utf8_bytes has a solution.
LEMMA Utf8Ends ==
    ASSUME NEW s \in Text
    PROVE  \E ends \in [0..Len(s) -> Nat] :
              ends = [i \in 0..Len(s) |->
                        IF i = 0 THEN 0
                        ELSE ends[i - 1] + IF s[i] \in Ascii THEN 1 ELSE 2]
<1> DEFINE n == Len(s)
           g == [p \in (1..n) \X Nat |-> p[2] + IF s[p[1]] \in Ascii THEN 1 ELSE 2]
<1>1. n \in Nat
  BY LenProperties DEF Text
<1>2. g \in [(1..n) \X Nat -> Nat]
  OBVIOUS
<1>3. \A i \in 1..n, k \in Nat : g[<<i, k>>] = k + IF s[i] \in Ascii THEN 1 ELSE 2
  OBVIOUS
<1> HIDE DEF g, n
<1>4. PICK f \in [0..n -> Nat] : f[0] = 0 /\ \A i \in 1..n : f[i] = g[<<i, f[i - 1]>>]
  <2>1. 0 \in Nat
    OBVIOUS
  <2>2. \E f : Solves(f, Nat, 0, n, g)
    BY <1>1, <1>2, <2>1, Recursion
  <2> QED
    BY <2>2 DEF Solves
<1> DEFINE h == [i \in 0..n |->
                    IF i = 0 THEN 0 ELSE f[i - 1] + IF s[i] \in Ascii THEN 1 ELSE 2]
<1>5. ASSUME NEW i \in 0..n PROVE f[i] = h[i]
  <2>1. CASE i = 0
    BY <1>4, <2>1
  <2>2. CASE i # 0
    <3>1. i \in 1..n /\ f[i - 1] \in Nat
      BY <1>1, <2>2
    <3> QED
      BY <1>3, <1>4, <2>2, <3>1
  <2> QED
    BY <2>1, <2>2
<1>6. f = h
  BY <1>5
<1> QED
  BY <1>6 DEF n

\* A text in UTF-8: where each character ends, and its bytes.
LEMMA Utf8Bytes ==
    ASSUME NEW s \in Text
    PROVE  \E e \in [0..Len(s) -> Nat] :
              /\ e[0] = 0
              /\ \A i \in 1..Len(s) : e[i] = e[i - 1] + IF s[i] \in Ascii THEN 1 ELSE 2
              /\ utf8_bytes(s) \in Seq(Byte) /\ Len(utf8_bytes(s)) = e[Len(s)]
              /\ \A i \in 1..Len(s) :
                    IF s[i] \in Ascii THEN utf8_bytes(s)[e[i - 1] + 1] = s[i]
                    ELSE /\ utf8_bytes(s)[e[i - 1] + 1] = 192 + (s[i] \div 64)
                         /\ utf8_bytes(s)[e[i - 1] + 2] = 128 + (s[i] % 64)
              /\ \A j \in 1..e[Len(s)] : \E i \in 1..Len(s) :
                    \/ j = e[i - 1] + 1
                    \/ s[i] \notin Ascii /\ j = e[i - 1] + 2
<1> DEFINE n == Len(s)
           Is(f) == f = [i \in 0..Len(s) |->
                            IF i = 0 THEN 0
                            ELSE f[i - 1] + IF s[i] \in Ascii THEN 1 ELSE 2]
           e == CHOOSE f : Is(f)
           At(j) == CHOOSE i \in 1..Len(s) : e[i - 1] < j /\ j <= e[i]
           B(c, last) == IF c \in Ascii THEN c
                         ELSE IF last THEN 128 + (c % 64) ELSE 192 + (c \div 64)
           u == utf8_bytes(s)
<1>len. n \in Nat
  BY LenProperties DEF Text
<1>1. n \in Nat /\ \A i \in 1..n : s[i] \in 0..2047
  <2>1. \A i \in 1..n : s[i] \in Ascii \cup Foreign
    BY ElementOfSeq DEF Text
  <2>2. Ascii \cup Foreign \subseteq 0..2047
    BY WireAssumption DEF Ascii
  <2> HIDE DEF n
  <2> QED
    BY <1>len, <2>1, <2>2
<1>chars. \A i \in 1..n : s[i] \in 0..2047
  BY <1>1
<1>2. \E f \in [0..n -> Nat] : Is(f)
  BY Utf8Ends
<1>3. Is(e)
  BY <1>2
<1>4. u = [j \in 1..e[n] |-> B(s[At(j)], j = e[At(j)])]
  BY DEF utf8_bytes
<1>5. e \in [0..n -> Nat]
  <2>1. PICK f \in [0..n -> Nat] : Is(f)
    BY <1>2
  <2> DEFINE Bad == {i \in 0..n : e[i] # f[i]}
  <2>2. ASSUME Bad # {} PROVE FALSE
    <3>1. PICK i \in Bad : \A k \in Bad : i <= k
      <4>1. Bad \in SUBSET Nat
        OBVIOUS
      <4> HIDE DEF Bad
      <4> QED
        BY <2>2, <4>1, Least
    <3>2. CASE i = 0
      BY <1>3, <2>1, <3>1, <3>2
    <3>3. CASE i # 0
      <4>1. i - 1 \in 0..n /\ e[i - 1] = f[i - 1]
        BY <1>1, <3>1, <3>3
      <4> HIDE DEF e
      <4>2. /\ e[i] = e[i - 1] + (IF s[i] \in Ascii THEN 1 ELSE 2)
            /\ f[i] = f[i - 1] + (IF s[i] \in Ascii THEN 1 ELSE 2)
        BY <1>3, <2>1, <3>1, <3>3
      <4> QED
        BY <3>1, <4>1, <4>2
    <3> QED
      BY <3>2, <3>3
  <2>3. \A i \in 0..n : e[i] = f[i]
    BY <2>2
  <2> HIDE DEF e
  <2>4. DOMAIN e = 0..n /\ e = [i \in 0..n |-> e[i]]
    BY <1>3
  <2> QED
    BY <2>1, <2>3, <2>4
<1> HIDE DEF e
<1>6. e[0] = 0
  BY <1>1, <1>3
<1>7. ASSUME NEW i \in 1..n
      PROVE  e[i] = e[i - 1] + IF s[i] \in Ascii THEN 1 ELSE 2
  BY <1>1, <1>3, <1>7
<1>8. \A i \in 1..n : e[i - 1] < e[i] /\ e[i - 1] \in Nat /\ e[i] \in Nat
  <2> SUFFICES ASSUME NEW i \in 1..n
               PROVE  e[i - 1] < e[i] /\ e[i - 1] \in Nat /\ e[i] \in Nat
    OBVIOUS
  <2>1. i - 1 \in 0..n /\ i \in 0..n
    BY <1>1
  <2> HIDE DEF n
  <2>2. e[i - 1] \in Nat /\ e[i] \in Nat
    BY <1>5, <2>1, Zenon
  <2>3. e[i] = e[i - 1] + IF s[i] \in Ascii THEN 1 ELSE 2
    BY <1>7, Zenon
  <2> QED
    BY <2>2, <2>3
<1>up. \A i \in 1..n : e[i - 1] < e[i]
  BY <1>8
<1>9. ASSUME NEW j \in 1..e[n]
      PROVE  At(j) \in 1..n /\ e[At(j) - 1] < j /\ j <= e[At(j)]
  <2> HIDE DEF n
  <2>1. \E i \in 1..n : e[i - 1] < j /\ j <= e[i]
    <3>1. \E i \in 1..n : /\ e[i - 1] < j /\ j <= e[i]
                          /\ \A k \in 1..n : e[k - 1] < j /\ j <= e[k] => k = i
      BY <1>len, <1>5, <1>6, <1>up, MarkOf, Zenon
    <3> QED
      BY <3>1
  <2> QED
    BY <2>1 DEF n
<1>10. ASSUME NEW j \in 1..e[n], NEW i \in 1..n, e[i - 1] < j, j <= e[i]
       PROVE  At(j) = i
  <2>1. PICK k \in 1..n : \A l \in 1..n : e[l - 1] < j /\ j <= e[l] => l = k
    <3> HIDE DEF n
    <3>1. \E m \in 1..n : /\ e[m - 1] < j /\ j <= e[m]
                          /\ \A k \in 1..n : e[k - 1] < j /\ j <= e[k] => k = m
      BY <1>len, <1>5, <1>6, <1>up, MarkOf, Zenon
    <3> QED
      BY <3>1
  <2> HIDE DEF At
  <2> QED
    BY <1>9, <1>10, <2>1
<1> HIDE DEF At
<1>11. \A i \in 1..n : e[i] <= e[n]
  <2> HIDE DEF n
  <2>1. \A i, j \in 0..n : i < j => e[i] < e[j]
    BY <1>len, <1>5, <1>up, MarksIncrease, Zenon
  <2> QED
    BY <1>1, <1>5, <2>1
<1> HIDE DEF B
<1>13. u \in Seq(Byte) /\ Len(u) = e[n] /\ \A j \in 1..e[n] : u[j] = B(s[At(j)], j = e[At(j)])
  <2>1. e[n] \in Nat
    BY <1>1, <1>5
  <2>2. \A j \in 1..e[n] : B(s[At(j)], j = e[At(j)]) \in Byte
    <3> SUFFICES ASSUME NEW j \in 1..e[n] PROVE B(s[At(j)], j = e[At(j)]) \in Byte
      OBVIOUS
    <3>1. PICK i \in 1..n : i = At(j)
      BY <1>9
    <3>2. s[i] \in 0..2047
      BY <1>chars
    <3>3. B(s[i], j = e[i]) \in Byte
      <4> DEFINE c == s[i]
                 last == j = e[i]
      <4>1. c \in 0..2047
        BY <3>2
      <4> HIDE DEF c, last
      <4>2. B(c, last) \in Byte
        BY <4>1 DEF B, Ascii, Byte
      <4> QED
        BY <4>2 DEF c, last
    <3> QED
      BY <3>1, <3>3
  <2> HIDE DEF u
  <2>3. u \in [1..e[n] -> Byte]
    BY <1>4, <2>2
  <2>4. u \in Seq(Byte)
    BY <2>1, <2>3, SeqDef
  <2>5. Len(u) = e[n]
    <3>1. DOMAIN u = 1..Len(u) /\ Len(u) \in Nat
      BY <2>4, LenProperties
    <3> QED
      BY <2>1, <2>3, <3>1
  <2> QED
    BY <1>4, <2>4, <2>5
<1> HIDE DEF u
<1>14. ASSUME NEW i \in 1..n
       PROVE  /\ s[i] \in Ascii => u[e[i - 1] + 1] = s[i]
              /\ s[i] \notin Ascii => /\ u[e[i - 1] + 1] = 192 + (s[i] \div 64)
                                      /\ u[e[i - 1] + 2] = 128 + (s[i] % 64)
  <2> DEFINE a == e[i - 1]
  <2>1. a \in Nat /\ e[i] \in Nat /\ e[n] \in Nat /\ e[i] <= e[n]
        /\ e[i] = a + IF s[i] \in Ascii THEN 1 ELSE 2
    BY <1>1, <1>5, <1>7, <1>8, <1>11
  <2> HIDE DEF a
  <2>2. ASSUME NEW j \in Nat, a < j, j <= e[i] PROVE u[j] = B(s[i], j = e[i])
    <3>1. j \in 1..e[n]
      BY <2>1, <2>2
    <3>2. At(j) = i
      BY <1>10, <2>2, <3>1 DEF a
    <3> QED
      BY <1>13, <3>1, <3>2
  <2>3. CASE s[i] \in Ascii
    <3>1. u[a + 1] = B(s[i], a + 1 = e[i])
      BY <2>1, <2>2, <2>3
    <3> QED
      BY <2>3, <3>1 DEF B, a
  <2>4. CASE s[i] \notin Ascii
    <3>1. u[a + 1] = B(s[i], a + 1 = e[i]) /\ u[a + 2] = B(s[i], a + 2 = e[i])
      BY <2>1, <2>2, <2>4
    <3>2. (a + 1 = e[i]) = FALSE /\ (a + 2 = e[i]) = TRUE
      BY <2>1, <2>4
    <3> QED
      BY <2>4, <3>1, <3>2 DEF B, a
  <2> QED
    BY <2>3, <2>4
<1>15. ASSUME NEW j \in 1..e[n]
       PROVE  \E i \in 1..n : \/ j = e[i - 1] + 1
                              \/ s[i] \notin Ascii /\ j = e[i - 1] + 2
  <2> DEFINE i == At(j)
  <2>1. i \in 1..n /\ e[i - 1] < j /\ j <= e[i] /\ e[n] \in Nat
    BY <1>1, <1>5, <1>9
  <2> HIDE DEF i
  <2>2. /\ e[i - 1] \in Nat /\ e[i] = e[i - 1] + IF s[i] \in Ascii THEN 1 ELSE 2
    BY <1>7, <1>8, <2>1
  <2>3. j = e[i - 1] + 1 \/ (s[i] \notin Ascii /\ j = e[i - 1] + 2)
    BY <2>1, <2>2
  <2> QED
    BY <2>1, <2>3
<1>16. /\ e \in [0..Len(s) -> Nat] /\ e[0] = 0
       /\ \A i \in 1..Len(s) : e[i] = e[i - 1] + IF s[i] \in Ascii THEN 1 ELSE 2
       /\ utf8_bytes(s) \in Seq(Byte) /\ Len(utf8_bytes(s)) = e[Len(s)]
  BY <1>5, <1>6, <1>7, <1>13 DEF n, u
<1>17. \A i \in 1..Len(s) :
          IF s[i] \in Ascii THEN utf8_bytes(s)[e[i - 1] + 1] = s[i]
          ELSE /\ utf8_bytes(s)[e[i - 1] + 1] = 192 + (s[i] \div 64)
               /\ utf8_bytes(s)[e[i - 1] + 2] = 128 + (s[i] % 64)
  BY <1>14 DEF n, u
<1>18. \A j \in 1..e[Len(s)] : \E i \in 1..Len(s) :
          \/ j = e[i - 1] + 1
          \/ s[i] \notin Ascii /\ j = e[i - 1] + 2
  BY <1>15 DEF n
<1> HIDE DEF n, u
<1> QED
  BY <1>16, <1>17, <1>18, Zenon

\* A character takes one byte or two, and one if it is ASCII.
Character(c) == c \in 0..2047 /\ (c \in Ascii <=> c < 128)

\* The characters of a text.
LEMMA Characters ==
    ASSUME NEW s \in Text
    PROVE  Len(s) \in Nat /\ \A i \in 1..Len(s) : Character(s[i])
<1>1. Len(s) \in Nat
  BY LenProperties DEF Text
<1>2. \A i \in 1..Len(s) : s[i] \in Ascii \cup Foreign
  BY ElementOfSeq DEF Text
<1>3. ASSUME NEW c \in Ascii \cup Foreign PROVE Character(c)
  <2>1. c \in 0..127 \/ c \in 128..2047
    BY WireAssumption DEF Ascii
  <2> QED
    BY <2>1 DEF Ascii, Character
<1> QED
  BY <1>1, <1>2, <1>3

\* A text in UTF-8 has at most two bytes for a character.
LEMMA Utf8Length ==
    ASSUME NEW s \in Text
    PROVE  Len(utf8_bytes(s)) \in Nat /\ Len(utf8_bytes(s)) <= 2 * Len(s)
<1> DEFINE n == Len(s)
<1>1. n \in Nat
  BY LenProperties DEF Text
<1>2. PICK e \in [0..n -> Nat] :
         /\ e[0] = 0
         /\ \A i \in 1..n : e[i] = e[i - 1] + IF s[i] \in Ascii THEN 1 ELSE 2
         /\ Len(utf8_bytes(s)) = e[n]
  BY Utf8Bytes
<1> HIDE DEF n
<1> DEFINE Bad == {i \in 0..n : ~(e[i] <= 2 * i)}
<1>3. ASSUME Bad # {} PROVE FALSE
  <2>1. PICK i \in Bad : \A k \in Bad : i <= k
    <3>1. Bad \in SUBSET Nat
      OBVIOUS
    <3> HIDE DEF Bad
    <3> QED
      BY <1>3, <3>1, Least
  <2>2. i \in 1..n /\ i - 1 \in 0..n /\ i - 1 \notin Bad
    BY <1>1, <1>2, <2>1
  <2>3. e[i - 1] \in Nat /\ e[i] \in Nat /\ e[i - 1] <= 2 * (i - 1)
    BY <1>2, <2>2
  <2>4. e[i] = e[i - 1] + IF s[i] \in Ascii THEN 1 ELSE 2
    BY <1>2, <2>2
  <2> QED
    BY <2>1, <2>2, <2>3, <2>4
<1>4. n \in 0..n /\ n \notin Bad /\ e[n] \in Nat
  BY <1>1, <1>3
<1> QED
  BY <1>2, <1>4 DEF n

\* Only the character 0 is written with a zero byte.
LEMMA Utf8NoNul ==
    ASSUME NEW s \in Text
    PROVE  (\A i \in 1..Len(s) : s[i] # 0)
                => \A j \in 1..Len(utf8_bytes(s)) : utf8_bytes(s)[j] # 0
<1> DEFINE n == Len(s)
           u == utf8_bytes(s)
<1>1. n \in Nat /\ \A i \in 1..n : Character(s[i])
  BY Characters
<1>2. PICK e \in [0..n -> Nat] :
         /\ Len(u) = e[n]
         /\ \A i \in 1..n :
               IF s[i] \in Ascii THEN u[e[i - 1] + 1] = s[i]
               ELSE /\ u[e[i - 1] + 1] = 192 + (s[i] \div 64)
                    /\ u[e[i - 1] + 2] = 128 + (s[i] % 64)
         /\ \A j \in 1..e[n] : \E i \in 1..n :
               \/ j = e[i - 1] + 1
               \/ s[i] \notin Ascii /\ j = e[i - 1] + 2
  BY Utf8Bytes
<1> HIDE DEF n, u
<1>3. SUFFICES ASSUME \A i \in 1..n : s[i] # 0, NEW j \in 1..e[n] PROVE u[j] # 0
  BY <1>2 DEF n, u
<1>4. PICK i \in 1..n : \/ j = e[i - 1] + 1
                        \/ s[i] \notin Ascii /\ j = e[i - 1] + 2
  BY <1>2
<1>5. s[i] \in 0..2047 /\ s[i] # 0
  BY <1>1, <1>3 DEF Character
<1>6. CASE s[i] \in Ascii
  BY <1>2, <1>4, <1>5, <1>6
<1>7. CASE s[i] \notin Ascii
  <2> DEFINE c == s[i]
  <2>1. c \in 0..2047
    BY <1>5
  <2> HIDE DEF c
  <2>2. 192 + (c \div 64) # 0 /\ 128 + (c % 64) # 0
    BY <2>1
  <2> QED
    BY <1>2, <1>4, <1>7, <2>2 DEF c
<1> QED
  BY <1>6, <1>7

\* The bytes u hold the characters of s, the i-th from behind e[i - 1] on.
Written(s, u, e) ==
    /\ e \in [0..Len(s) -> Nat] /\ e[0] = 0 /\ Len(u) = e[Len(s)]
    /\ \A i \in 1..Len(s) : e[i] = e[i - 1] + IF s[i] \in Ascii THEN 1 ELSE 2
    /\ \A i \in 1..Len(s) :
          IF s[i] \in Ascii THEN u[e[i - 1] + 1] = s[i]
          ELSE /\ u[e[i - 1] + 1] = 192 + (s[i] \div 64)
               /\ u[e[i - 1] + 2] = 128 + (s[i] % 64)

\* So do the bytes of a text.
LEMMA Utf8Written == ASSUME NEW s \in Text PROVE \E e : Written(s, utf8_bytes(s), e)
<1>1. PICK e \in [0..Len(s) -> Nat] :
         /\ e[0] = 0
         /\ \A i \in 1..Len(s) : e[i] = e[i - 1] + IF s[i] \in Ascii THEN 1 ELSE 2
         /\ utf8_bytes(s) \in Seq(Byte) /\ Len(utf8_bytes(s)) = e[Len(s)]
         /\ \A i \in 1..Len(s) :
               IF s[i] \in Ascii THEN utf8_bytes(s)[e[i - 1] + 1] = s[i]
               ELSE /\ utf8_bytes(s)[e[i - 1] + 1] = 192 + (s[i] \div 64)
                    /\ utf8_bytes(s)[e[i - 1] + 2] = 128 + (s[i] % 64)
         /\ \A j \in 1..e[Len(s)] : \E i \in 1..Len(s) :
               \/ j = e[i - 1] + 1
               \/ s[i] \notin Ascii /\ j = e[i - 1] + 2
  BY Utf8Bytes, Zenon
<1>2. Written(s, utf8_bytes(s), e)
  BY <1>1, Zenon DEF Written
<1> QED
  BY <1>2

\* Texts with the same bytes are the same: a key can be compared in UTF-8.
THEOREM Utf8Injective ==
    ASSUME NEW s \in Text, NEW t \in Text, utf8_bytes(s) = utf8_bytes(t)
    PROVE  s = t
<1> DEFINE n == Len(s)
           m == Len(t)
           u == utf8_bytes(s)
<1>1. n \in Nat /\ m \in Nat
  BY LenProperties DEF Text
<1>2. (\A i \in 1..n : Character(s[i])) /\ (\A i \in 1..m : Character(t[i]))
  BY Characters
<1>e. PICK e : Written(s, u, e)
  BY Utf8Written
<1>d. PICK d : Written(t, u, d)
  BY Utf8Written
<1>3. /\ e \in [0..n -> Nat] /\ e[0] = 0 /\ Len(u) = e[n]
      /\ \A i \in 1..n : e[i] = e[i - 1] + IF s[i] \in Ascii THEN 1 ELSE 2
      /\ \A i \in 1..n :
            IF s[i] \in Ascii THEN u[e[i - 1] + 1] = s[i]
            ELSE /\ u[e[i - 1] + 1] = 192 + (s[i] \div 64)
                 /\ u[e[i - 1] + 2] = 128 + (s[i] % 64)
  <2> HIDE DEF u
  <2> QED
    BY <1>e, Zenon DEF Written
<1>4. /\ d \in [0..m -> Nat] /\ d[0] = 0 /\ Len(u) = d[m]
      /\ \A i \in 1..m : d[i] = d[i - 1] + IF t[i] \in Ascii THEN 1 ELSE 2
      /\ \A i \in 1..m :
            IF t[i] \in Ascii THEN u[d[i - 1] + 1] = t[i]
            ELSE /\ u[d[i - 1] + 1] = 192 + (t[i] \div 64)
                 /\ u[d[i - 1] + 2] = 128 + (t[i] % 64)
  <2> HIDE DEF u
  <2> QED
    BY <1>d, Zenon DEF Written
<1> HIDE DEF n, m, u
<1>5. ASSUME NEW i \in 1..n, i \in 1..m, e[i - 1] = d[i - 1]
      PROVE  s[i] = t[i] /\ e[i] = d[i]
  <2> DEFINE b == u[e[i - 1] + 1]
             b2 == u[e[i - 1] + 2]
             c == s[i]
             x == t[i]
  <2>1. /\ c \in 0..2047 /\ (c \in Ascii <=> c < 128)
        /\ x \in 0..2047 /\ (x \in Ascii <=> x < 128)
    <3>1. Character(c) /\ Character(x)
      BY <1>2, <1>5
    <3> HIDE DEF c, x
    <3> QED
      BY <3>1 DEF Character
  <2>2. /\ c \in Ascii => b = c
        /\ c \notin Ascii => b = 192 + (c \div 64) /\ b2 = 128 + (c % 64)
    BY <1>3
  <2>3. /\ x \in Ascii => b = x
        /\ x \notin Ascii => b = 192 + (x \div 64) /\ b2 = 128 + (x % 64)
    BY <1>4, <1>5
  <2>4. /\ e[i] = e[i - 1] + IF c \in Ascii THEN 1 ELSE 2
        /\ d[i] = d[i - 1] + IF x \in Ascii THEN 1 ELSE 2
    BY <1>3, <1>4, <1>5
  <2> HIDE DEF b, b2, c, x
  <2>5. c \in Ascii <=> x \in Ascii
    <3>1. c \notin Ascii => b >= 192
      BY <2>1, <2>2
    <3>2. x \notin Ascii => b >= 192
      BY <2>1, <2>3
    <3>3. (c \in Ascii => b = c /\ b < 128) /\ (x \in Ascii => b = x /\ b < 128)
      BY <2>1, <2>2, <2>3
    <3>4. ~(b >= 192 /\ b < 128)
      BY <2>1, <2>2
    <3> QED
      BY <3>1, <3>2, <3>3, <3>4
  <2>6. c = x
    <3>1. CASE c \in Ascii
      BY <2>2, <2>3, <2>5, <3>1
    <3>2. CASE c \notin Ascii
      <4>1. c \div 64 \in Int /\ x \div 64 \in Int /\ c % 64 \in Int /\ x % 64 \in Int
        BY <2>1
      <4>2. c \div 64 = x \div 64 /\ c % 64 = x % 64
        BY <2>2, <2>3, <2>5, <3>2, <4>1
      <4> QED
        BY <2>1, <4>2
    <3> QED
      BY <3>1, <3>2
  <2>7. e[i] = d[i]
    BY <1>5, <2>4, <2>5
  <2> QED
    BY <2>6, <2>7 DEF c, x
<1> DEFINE Bad == {i \in 0..n : i <= m /\ ~(e[i] = d[i] /\ (i # 0 => s[i] = t[i]))}
<1>6. ASSUME Bad # {} PROVE FALSE
  <2>1. PICK i \in Bad : \A k \in Bad : i <= k
    <3>1. Bad \in SUBSET Nat
      OBVIOUS
    <3> HIDE DEF Bad
    <3> QED
      BY <1>6, <3>1, Least
  <2>2. i # 0
    BY <1>3, <1>4, <2>1
  <2>3. i \in 1..n /\ i \in 1..m /\ i - 1 \in 0..n /\ i - 1 <= m /\ i - 1 \notin Bad
    BY <1>1, <2>1, <2>2
  <2>4. e[i - 1] = d[i - 1]
    BY <2>3
  <2> QED
    BY <1>5, <2>1, <2>3, <2>4
<1>7. \A i \in 0..n : i <= m => e[i] = d[i] /\ (i # 0 => s[i] = t[i])
  BY <1>6
<1>8. \A i, j \in 0..n : i < j => e[i] < e[j]
  <2>1. \A i \in 1..n : e[i - 1] < e[i]
    <3> SUFFICES ASSUME NEW i \in 1..n PROVE e[i - 1] < e[i]
      OBVIOUS
    <3>1. e[i - 1] \in Nat /\ e[i] = e[i - 1] + IF s[i] \in Ascii THEN 1 ELSE 2
      BY <1>1, <1>3
    <3> QED
      BY <3>1
  <2>2. n \in Nat
    BY <1>1
  <2> QED
    BY <1>3, <2>1, <2>2, MarksIncrease, Zenon
<1>9. \A i, j \in 0..m : i < j => d[i] < d[j]
  <2>1. \A i \in 1..m : d[i - 1] < d[i]
    <3> SUFFICES ASSUME NEW i \in 1..m PROVE d[i - 1] < d[i]
      OBVIOUS
    <3>1. d[i - 1] \in Nat /\ d[i] = d[i - 1] + IF t[i] \in Ascii THEN 1 ELSE 2
      BY <1>1, <1>4
    <3> QED
      BY <3>1
  <2>2. m \in Nat
    BY <1>1
  <2> QED
    BY <1>4, <2>1, <2>2, MarksIncrease, Zenon
<1>10. e[n] = d[m] /\ e[n] \in Nat /\ d[m] \in Nat
  BY <1>1, <1>3, <1>4
<1>11. n = m
  <2>1. CASE n < m
    <3>1. e[n] = d[n] /\ n \in 0..m /\ m \in 0..m
      BY <1>1, <1>7, <2>1
    <3>2. d[n] < d[m] /\ d[n] \in Nat
      BY <1>4, <1>9, <2>1, <3>1
    <3> QED
      BY <1>10, <3>1, <3>2
  <2>2. CASE m < n
    <3>1. e[m] = d[m] /\ m \in 0..n /\ n \in 0..n
      BY <1>1, <1>7, <2>2
    <3>2. e[m] < e[n] /\ e[m] \in Nat
      BY <1>3, <1>8, <2>2, <3>1
    <3> QED
      BY <1>10, <3>1, <3>2
  <2> QED
    BY <1>1, <2>1, <2>2
<1>12. \A i \in 1..n : s[i] = t[i]
  BY <1>1, <1>7, <1>11
<1> QED
  <2>1. s \in Seq(Ascii \cup Foreign) /\ t \in Seq(Ascii \cup Foreign)
    BY DEF Text
  <2>2. Len(s) = Len(t) /\ \A i \in 1..Len(s) : s[i] = t[i]
    BY <1>11, <1>12 DEF n, m
  <2> QED
    BY <2>1, <2>2, SeqEqual, Zenon

-----------------------------------------------------------------------------
(* Requests and responses as they are read.                                *)

\* Splitting a type at its first colon loses only the colon.
LEMMA SplitAtColon ==
    ASSUME NEW S, NEW type \in Seq(S), HasColon(type)
    PROVE  /\ split_type_str(type)[1] \in Seq(S) /\ split_type_str(type)[2] \in Seq(S)
           /\ split_type_str(type)[1] \o <<Colon>> \o split_type_str(type)[2] = type
<1> DEFINE n == Len(type)
           First(i) == type[i] = Colon /\ \A j \in 1..(i - 1) : type[j] # Colon
           at == CHOOSE i \in 1..Len(type) : First(i)
           Colons == {i \in 1..n : type[i] = Colon}
<1>1. n \in Nat
  BY LenProperties
<1>2. \E i \in 1..n : First(i)
  <2>1. PICK i \in Colons : \A k \in Colons : i <= k
    <3>1. Colons \in SUBSET Nat
      OBVIOUS
    <3>2. Colons # {}
      BY DEF HasColon
    <3> HIDE DEF Colons
    <3> QED
      BY <3>1, <3>2, Least
  <2>2. \A j \in 1..(i - 1) : type[j] # Colon
    BY <1>1, <2>1
  <2> QED
    BY <2>1, <2>2
<1>3. at \in 1..n /\ type[at] = Colon
  BY <1>2
<1>4. split_type_str(type) = <<SubSeq(type, 1, at - 1), SubSeq(type, at + 1, n)>>
  BY DEF split_type_str
<1> HIDE DEF at
<1> DEFINE front == SubSeq(type, 1, at - 1)
           back == SubSeq(type, at + 1, Len(type))
<1>5. split_type_str(type)[1] = front /\ split_type_str(type)[2] = back
  <2>1. split_type_str(type) = <<front, back>>
    BY <1>4
  <2> HIDE DEF front, back
  <2> QED
    BY <2>1
<1>6. front \in Seq(S) /\ back \in Seq(S)
  <2>1. \A i \in 1..n : type[i] \in S
    BY ElementOfSeq
  <2>2. \A i \in 1..(at - 1) : type[i] \in S
    BY <1>1, <1>3, <2>1
  <2>3. \A i \in (at + 1)..Len(type) : type[i] \in S
    BY <1>1, <1>3, <2>1
  <2>4. at - 1 \in Int /\ at + 1 \in Int /\ Len(type) \in Int
    BY <1>1, <1>3
  <2>5. front \in Seq(S)
    BY <2>2, <2>4, SubSeqProperties
  <2>6. back \in Seq(S)
    BY <2>3, <2>4, SubSeqProperties
  <2> QED
    BY <2>5, <2>6
<1>7. SubSeq(type, 1, at) = front \o <<Colon>>
  <2>1. 1 \in 1..Len(type) /\ at \in 1..Len(type)
    BY <1>1, <1>3
  <2>2. SubSeq(type, 1, at) = SubSeq(type, 1, at - 1) \o <<type[at]>>
    BY <2>1, SubSeqRecursiveSecond
  <2> QED
    BY <1>3, <2>2
<1>8. SubSeq(type, 1, at) \o back = type
  <2>1. /\ 1 \in 1..(Len(type) + 1) /\ at \in (1 - 1)..Len(type) /\ Len(type) \in at..Len(type)
    BY <1>1, <1>3
  <2>2. SubSeq(type, 1, at) \o SubSeq(type, at + 1, Len(type)) = SubSeq(type, 1, Len(type))
    BY <2>1, ConcatAdjacentSubSeq
  <2>3. SubSeq(type, 1, Len(type)) = type
    BY SubSeqFull
  <2> QED
    BY <2>2, <2>3
<1> QED
  BY <1>5, <1>6, <1>7, <1>8

\* A request is read with the key and the body it was written with, in ASCII and
\* whatever follows it, even when its namespace has a colon and the reader
\* splits the key elsewhere than the writer did.
THEOREM RequestKeyReadsBack ==
    ASSUME NEW req \in Request, Fits(req), NEW rest \in Seq(Byte)
    PROVE  LET frame == serialize_request(req)
               bytes == frame \o rest
           IN  /\ RequestReady(bytes) /\ RequestSize(bytes) = Len(frame)
               /\ parse_request(bytes) \in Request
               /\ Key(parse_request(bytes)) = ascii_bytes(Key(req))
               /\ parse_request(bytes).body = req.body
<1> DEFINE body == req.body
           type == ascii_bytes(Key(req))
           frame == serialize_request(req)
           bytes == frame \o rest
<1>1. body \in Seq(Byte) /\ Len(body) \in Nat /\ Len(rest) \in Nat
  BY LenProperties DEF Request
<1>2. Key(req) \in Text /\ \E i \in 1..Len(Key(req)) : Key(req)[i] = Colon
  <2> DEFINE ns == req.namespace
             rt == req.request_type
             colon == <<Colon>>
             S == Ascii \cup Foreign
  <2>1. ns \in Seq(S) /\ rt \in Seq(S) /\ colon \in Seq(S) /\ Len(colon) = 1 /\ colon[1] = Colon
    BY DEF Request, Text, Colon, Ascii
  <2>2. Key(req) = ns \o colon \o rt
    BY DEF Key
  <2>3. Len(ns) \in Nat /\ Len(rt) \in Nat
    BY <2>1, LenProperties
  <2> HIDE DEF ns, rt, colon, S
  <2>4. /\ ns \o colon \o rt \in Seq(S)
        /\ Len(ns \o colon \o rt) = Len(ns) + Len(colon) + Len(rt)
        /\ \A i \in 1..Len(colon) : (ns \o colon \o rt)[Len(ns) + i] = colon[i]
    <3>1. ns \in Seq(S)
      BY <2>1
    <3>2. colon \in Seq(S)
      BY <2>1
    <3>3. rt \in Seq(S)
      BY <2>1
    <3> QED
      BY <3>1, <3>2, <3>3, MiddlePart
  <2>5. Len(ns) + 1 \in 1..Len(Key(req)) /\ Key(req)[Len(ns) + 1] = Colon
    BY <2>1, <2>2, <2>3, <2>4
  <2> QED
    BY <2>2, <2>4, <2>5 DEF S, Text
<1>3. /\ type \in Seq(Byte) /\ type \in Text /\ Len(type) \in Nat /\ HasColon(type)
  <2> DEFINE key == Key(req)
  <2>1. key \in Text /\ \E i \in 1..Len(key) : key[i] = Colon
    BY <1>2
  <2> HIDE DEF key
  <2>2. /\ ascii_bytes(key) \in Seq(Byte) /\ Len(ascii_bytes(key)) = Len(key)
        /\ \A i \in 1..Len(key) :
              ascii_bytes(key)[i] = IF key[i] \in Ascii THEN key[i] ELSE Question
    BY <2>1, AsciiBytes
  <2>3. Colon \in Ascii /\ Question \in Ascii
    BY DEF Colon, Question, Ascii
  <2>4. HasColon(ascii_bytes(key))
    BY <2>1, <2>2, <2>3 DEF HasColon
  <2>5. Len(ascii_bytes(key)) \in Nat
    BY <2>2, LenProperties
  <2>6. ascii_bytes(key) \in Text
    <3> DEFINE t == ascii_bytes(key)
    <3>1. \A i \in 1..Len(t) : t[i] \in Ascii \cup Foreign
      BY <2>2, <2>3
    <3>2. t \in [1..Len(t) -> Ascii \cup Foreign]
      <4>1. t \in [1..Len(t) -> Byte]
        BY <2>2, LenProperties
      <4> HIDE DEF t
      <4> QED
        BY <3>1, <4>1
    <3> QED
      BY <2>5, <3>2, SeqDef DEF Text
  <2> QED
    BY <2>2, <2>4, <2>5, <2>6 DEF key
<1>4. /\ Len(frame) = 5 + Len(type) + Len(body) /\ Len(bytes) = Len(frame) + Len(rest)
      /\ bytes[1] = Len(type) /\ SubSeq(bytes, 2, 1 + Len(type)) = type
      /\ from_be_bytes(bytes, 2 + Len(type)) = Len(body)
      /\ SubSeq(bytes, 6 + Len(type), 5 + Len(type) + Len(body)) = body
  BY RequestParts
<1> HIDE DEF body, type, frame, bytes
<1>5. RequestSize(bytes) = 5 + Len(type) + Len(body)
  BY <1>4 DEF RequestSize
<1>6. RequestReady(bytes)
  BY <1>1, <1>3, <1>4, <1>5 DEF RequestReady
<1> DEFINE read == [namespace |-> split_type_str(type)[1],
                    request_type |-> split_type_str(type)[2], body |-> body]
<1>7. parse_request(bytes) = read
  <2>1. /\ SubSeq(bytes, 2, 1 + bytes[1]) = type
        /\ SubSeq(bytes, 6 + bytes[1], RequestSize(bytes)) = body
    BY <1>4, <1>5
  <2>2. HasColon(type)
    BY <1>3
  <2> QED
    BY <1>6, <2>1, <2>2, Zenon DEF parse_request
<1>8. /\ split_type_str(type)[1] \in Text /\ split_type_str(type)[2] \in Text
      /\ split_type_str(type)[1] \o <<Colon>> \o split_type_str(type)[2] = type
  BY <1>3, SplitAtColon DEF Text
<1>9. read \in Request /\ Key(read) = type /\ read.body = body
  BY <1>1, <1>8 DEF Request, Key
<1> QED
  BY <1>4, <1>5, <1>6, <1>7, <1>9 DEF bytes, frame, type, body

\* A text as it is read is a text again, of ASCII characters.
LEMMA AsciiText ==
    ASSUME NEW s \in Text
    PROVE  ascii_bytes(s) \in Text
<1> DEFINE t == ascii_bytes(s)
<1>1. /\ t \in Seq(Byte) /\ Len(t) = Len(s)
      /\ \A i \in 1..Len(s) : t[i] = IF s[i] \in Ascii THEN s[i] ELSE Question
  BY AsciiBytes
<1> HIDE DEF t
<1>2. Len(t) \in Nat /\ t \in [1..Len(t) -> Byte]
  BY <1>1, LenProperties
<1>3. \A i \in 1..Len(t) : t[i] \in Ascii \cup Foreign
  <2>1. Question \in Ascii
    BY DEF Ascii, Question
  <2> QED
    BY <1>1, <2>1
<1>4. t \in [1..Len(t) -> Ascii \cup Foreign]
  BY <1>2, <1>3
<1>5. t \in Text
  BY <1>2, <1>4, SeqDef DEF Text
<1> QED
  BY <1>5 DEF t

\* What is read as a text without "?" is that text: no other is taken for a
\* standard key.
LEMMA ReadAsIs ==
    ASSUME NEW s \in Text, NEW k \in Text, \A i \in 1..Len(k) : k[i] \in Ascii,
           \A i \in 1..Len(k) : k[i] # Question
    PROVE  ascii_bytes(s) = k <=> s = k
<1>1. /\ ascii_bytes(s) \in Seq(Byte) /\ Len(ascii_bytes(s)) = Len(s)
      /\ \A i \in 1..Len(s) : ascii_bytes(s)[i] = IF s[i] \in Ascii THEN s[i] ELSE Question
  BY AsciiBytes
<1>2. ASSUME ascii_bytes(s) = k PROVE s = k
  <2>1. Len(s) = Len(k)
    BY <1>1, <1>2
  <2>2. \A i \in 1..Len(s) : s[i] = k[i]
    BY <1>1, <1>2, <2>1
  <2> QED
    BY <2>1, <2>2, SeqEqual DEF Text
<1>3. ASSUME s = k PROVE ascii_bytes(s) = k
  <2>1. \A i \in 1..Len(s) : ascii_bytes(s)[i] = k[i]
    BY <1>1, <1>3
  <2>2. ascii_bytes(s) \in Text /\ Len(ascii_bytes(s)) = Len(k)
    BY <1>1, <1>3, AsciiText
  <2> QED
    BY <1>1, <1>3, <2>1, <2>2, SeqEqual DEF Text
<1> QED
  BY <1>2, <1>3

\* A request as the center reads it.
Read(req) == parse_request(serialize_request(req))

\* The center reads a whole request as a request of the same key, in ASCII, and
\* the same body.
LEMMA ReadFacts ==
    ASSUME NEW req \in Request, Fits(req)
    PROVE  /\ serialize_request(req) \in Seq(Byte) /\ serialize_request(req) # <<>>
           /\ RequestReady(serialize_request(req))
           /\ Read(req) \in Request /\ Key(req) \in Text
           /\ Key(Read(req)) = ascii_bytes(Key(req)) /\ Read(req).body = req.body
<1> DEFINE none == <<>>
           frame == serialize_request(req)
<1>1. none \in Seq(Byte)
  BY EmptySeq
<1> HIDE DEF none
<1>2. /\ frame \in Seq(Byte) /\ Len(frame) = 5 + Len(ascii_bytes(Key(req))) + Len(req.body)
      /\ ascii_bytes(Key(req)) \in Seq(Byte)
  BY <1>1, RequestParts
<1>3. req.body \in Seq(Byte)
  BY DEF Request
<1>4. Len(frame) # 0
  <2> DEFINE a == Len(ascii_bytes(Key(req)))
             b == Len(req.body)
  <2>1. a \in Nat /\ b \in Nat
    BY <1>2, <1>3, LenProperties
  <2>2. Len(frame) = 5 + a + b
    BY <1>2
  <2> HIDE DEF a, b, frame
  <2> QED
    BY <2>1, <2>2
<1>5. /\ RequestReady(frame \o none)
      /\ parse_request(frame \o none) \in Request
      /\ Key(parse_request(frame \o none)) = ascii_bytes(Key(req))
      /\ parse_request(frame \o none).body = req.body
  BY <1>1, RequestKeyReadsBack
<1> HIDE DEF frame
<1>6. frame \o none = frame
  BY <1>2, ConcatEmptySeq DEF none
<1>7. frame # <<>>
  BY <1>4, EmptySeq
<1>8. Key(req) \in Text
  <2>1. req.namespace \in Text /\ req.request_type \in Text /\ <<Colon>> \in Text
    BY DEF Request, Text, Colon, Ascii
  <2> QED
    BY <2>1, ConcatProperties DEF Key, Text
<1> QED
  BY <1>2, <1>5, <1>6, <1>7, <1>8 DEF Read, frame

\* A response is read whole and unchanged.
LEMMA ResponseFacts ==
    ASSUME NEW resp \in Response, FitsWord(Len(resp.body))
    PROVE  /\ serialize_response(resp) \in Seq(Byte) /\ serialize_response(resp) # <<>>
           /\ ResponseReady(serialize_response(resp))
           /\ parse_response(serialize_response(resp)) = resp
<1> DEFINE none == <<>>
           frame == serialize_response(resp)
<1>1. none \in Seq(Byte)
  BY EmptySeq
<1> HIDE DEF none
<1>2. frame \in Seq(Byte) /\ Len(frame) = 5 + Len(resp.body)
  BY <1>1, ResponseParts
<1>3. resp.body \in Seq(Byte)
  BY DEF Response
<1>4. Len(frame) # 0
  BY <1>2, <1>3, LenProperties
<1>5. ResponseReady(frame \o none) /\ parse_response(frame \o none) = resp
  BY <1>1, ResponseReadsBack
<1> HIDE DEF frame
<1>6. frame \o none = frame
  BY <1>2, ConcatEmptySeq DEF none
<1>7. frame # <<>>
  BY <1>4, EmptySeq
<1> QED
  BY <1>2, <1>5, <1>6, <1>7 DEF frame

\* A length below 2^24 fits.
LEMMA SmallFits ==
    ASSUME NEW n \in Nat, n < 16777216
    PROVE  FitsWord(n)
BY DEF FitsWord

-----------------------------------------------------------------------------
(* Streams of frames.                                                      *)

\* The bytes are frame[a + 1], ..., frame[b], one after the other.
Framed(bytes, frame, a, b) ==
    /\ bytes \in Seq(Byte)
    /\ \E end \in [a..b -> 0..Len(bytes)] :
          /\ end[a] = 0 /\ end[b] = Len(bytes)
          /\ \A i, j \in a..b : i <= j => end[i] <= end[j]
          /\ \A i \in (a + 1)..b :
                /\ frame[i] \in Seq(Byte) /\ end[i] = end[i - 1] + Len(frame[i])
                /\ \A j \in 1..Len(frame[i]) : bytes[end[i - 1] + j] = frame[i][j]

\* A place in a part that starts after p and ends within the total.
LEMMA Inside ==
    ASSUME NEW p \in Nat, NEW n \in Nat, NEW j \in 1..n, NEW q \in Nat,
           NEW total \in Nat, q = p + n, q <= total
    PROVE  p + j \in 1..total
OBVIOUS

\* The parts of a concatenation, each from its first byte.
LEMMA ConcatParts ==
    ASSUME NEW S, NEW x \in Seq(S), NEW y \in Seq(S)
    PROVE  /\ \A i \in 1..Len(x) : (x \o y)[i] = x[i]
           /\ \A i \in 1..Len(y) : (x \o y)[Len(x) + i] = y[i]
<1> DEFINE all == x \o y
<1>1. Len(x) \in Nat /\ Len(y) \in Nat
  BY LenProperties
<1>2. \A i \in 1..(Len(x) + Len(y)) :
          all[i] = IF i <= Len(x) THEN x[i] ELSE y[i - Len(x)]
  BY ConcatProperties
<1> HIDE DEF all
<1>3. ASSUME NEW i \in 1..Len(x) PROVE all[i] = x[i]
  <2>1. i \in 1..(Len(x) + Len(y)) /\ i <= Len(x)
    BY <1>1
  <2> QED
    BY <2>1, <1>2
<1>4. ASSUME NEW i \in 1..Len(y) PROVE all[Len(x) + i] = y[i]
  <2>1. /\ Len(x) + i \in 1..(Len(x) + Len(y)) /\ ~(Len(x) + i <= Len(x))
        /\ (Len(x) + i) - Len(x) = i
    BY <1>1
  <2> QED
    BY <2>1, <1>2
<1> QED
  BY <1>3, <1>4 DEF all

\* Nothing is the stream of no frames, and only nothing is.
LEMMA FramedNone ==
    ASSUME NEW a \in Nat, NEW frame
    PROVE  /\ Framed(<<>>, frame, a, a)
           /\ \A bytes : Framed(bytes, frame, a, a) => bytes = <<>>
<1>1. Framed(<<>>, frame, a, a)
  <2> DEFINE end == [i \in a..a |-> 0]
  <2>1. <<>> \in Seq(Byte) /\ Len(<<>>) = 0
    BY EmptySeq
  <2>2. end \in [a..a -> 0..0] /\ end[a] = 0 /\ (a + 1)..a = {}
    OBVIOUS
  <2>3. \A i, j \in a..a : i <= j => end[i] <= end[j]
    BY <2>2
  <2> HIDE DEF end
  <2> QED
    BY <2>1, <2>2, <2>3 DEF Framed
<1>2. ASSUME NEW bytes, Framed(bytes, frame, a, a) PROVE bytes = <<>>
  <2>1. bytes \in Seq(Byte) /\ Len(bytes) = 0
    BY <1>2 DEF Framed
  <2> QED
    BY <2>1, EmptySeq
<1> QED
  BY <1>1, <1>2

\* A stream depends on no other frame than those it is made of.
LEMMA FramedSame ==
    ASSUME NEW a, NEW b, NEW frame, NEW frame2, NEW bytes, Framed(bytes, frame, a, b),
           \A i \in (a + 1)..b : frame2[i] = frame[i]
    PROVE  Framed(bytes, frame2, a, b)
<1>1. bytes \in Seq(Byte)
  BY DEF Framed
<1>2. PICK end \in [a..b -> 0..Len(bytes)] :
          /\ end[a] = 0 /\ end[b] = Len(bytes)
          /\ \A i, j \in a..b : i <= j => end[i] <= end[j]
          /\ \A i \in (a + 1)..b :
                /\ frame[i] \in Seq(Byte) /\ end[i] = end[i - 1] + Len(frame[i])
                /\ \A j \in 1..Len(frame[i]) : bytes[end[i - 1] + j] = frame[i][j]
  BY DEF Framed
<1>3. \A i \in (a + 1)..b :
                /\ frame2[i] \in Seq(Byte) /\ end[i] = end[i - 1] + Len(frame2[i])
                /\ \A j \in 1..Len(frame2[i]) : bytes[end[i - 1] + j] = frame2[i][j]
  BY <1>2
<1> QED
  BY <1>1, <1>2, <1>3 DEF Framed

\* Writing a frame at the end of a stream gives the stream with one frame more.
LEMMA FramedAppend ==
    ASSUME NEW a \in Nat, NEW b \in Nat, a <= b, NEW frame, NEW bytes,
           Framed(bytes, frame, a, b), frame[b + 1] \in Seq(Byte)
    PROVE  Framed(bytes \o frame[b + 1], frame, a, b + 1)
<1> DEFINE f == frame[b + 1]
           all == bytes \o f
<1>1. bytes \in Seq(Byte) /\ Len(bytes) \in Nat /\ f \in Seq(Byte) /\ Len(f) \in Nat
  BY LenProperties DEF Framed
<1>2. PICK end \in [a..b -> 0..Len(bytes)] :
          /\ end[a] = 0 /\ end[b] = Len(bytes)
          /\ \A i, j \in a..b : i <= j => end[i] <= end[j]
          /\ \A i \in (a + 1)..b :
                /\ frame[i] \in Seq(Byte) /\ end[i] = end[i - 1] + Len(frame[i])
                /\ \A j \in 1..Len(frame[i]) : bytes[end[i - 1] + j] = frame[i][j]
  BY DEF Framed
<1> DEFINE end2 == [i \in a..(b + 1) |-> IF i <= b THEN end[i] ELSE Len(all)]
<1>3. /\ all \in Seq(Byte) /\ Len(all) = Len(bytes) + Len(f)
      /\ \A j \in 1..(Len(bytes) + Len(f)) :
            all[j] = IF j <= Len(bytes) THEN bytes[j] ELSE f[j - Len(bytes)]
  BY <1>1, ConcatProperties
<1>parts. /\ \A p \in 1..Len(bytes) : all[p] = bytes[p]
          /\ \A j \in 1..Len(f) : all[Len(bytes) + j] = f[j]
  BY <1>1, ConcatParts
<1> HIDE DEF all
<1>4. /\ end2 \in [a..(b + 1) -> 0..Len(all)]
      /\ end2[a] = 0 /\ end2[b + 1] = Len(all)
      /\ \A i \in a..b : end2[i] = end[i]
  BY <1>1, <1>2, <1>3
<1>5. \A i, j \in a..(b + 1) : i <= j => end2[i] <= end2[j]
  BY <1>1, <1>2, <1>3
<1> HIDE DEF end2
<1>6. ASSUME NEW i \in (a + 1)..b, NEW j \in 1..Len(frame[i])
      PROVE  all[end[i - 1] + j] = frame[i][j]
  <2>1. i - 1 \in a..b /\ i \in a..b /\ frame[i] \in Seq(Byte) /\ Len(frame[i]) \in Nat
    <3>1. i - 1 \in a..b /\ i \in a..b
      OBVIOUS
    <3>2. frame[i] \in Seq(Byte)
      BY <1>2
    <3>3. Len(frame[i]) \in Nat
      BY <3>2, LenProperties
    <3> QED
      BY <3>1, <3>2, <3>3, Zenon
  <2>2. /\ end[i - 1] \in 0..Len(bytes) /\ end[i] \in 0..Len(bytes)
        /\ end[i] = end[i - 1] + Len(frame[i])
    BY <1>2, <2>1, Zenon
  <2>3. /\ end[i - 1] \in Nat /\ end[i] \in Nat /\ end[i] <= Len(bytes)
    BY <1>1, <2>2
  <2>4. end[i - 1] + j \in 1..Len(bytes)
    BY <1>1, <2>1, <2>2, <2>3, Inside
  <2>5. all[end[i - 1] + j] = bytes[end[i - 1] + j]
    BY <1>parts, <2>4, Zenon
  <2> QED
    BY <1>2, <2>5, Zenon
<1>7. ASSUME NEW j \in 1..Len(f) PROVE all[end[b] + j] = f[j]
  BY <1>2, <1>parts, Zenon
<1>8. ASSUME NEW i \in (a + 1)..(b + 1)
      PROVE  /\ frame[i] \in Seq(Byte) /\ end2[i] = end2[i - 1] + Len(frame[i])
             /\ \A j \in 1..Len(frame[i]) : all[end2[i - 1] + j] = frame[i][j]
  <2>1. CASE i = b + 1
    <3>1. end2[i - 1] = end[b] /\ end[b] = Len(bytes) /\ end2[i] = Len(all)
      BY <1>2, <1>4, <2>1
    <3> QED
      BY <1>1, <1>3, <1>7, <2>1, <3>1
  <2>2. CASE i # b + 1
    <3>1. i \in (a + 1)..b /\ i \in a..b /\ i - 1 \in a..b
      BY <2>2
    <3>2. end2[i] = end[i] /\ end2[i - 1] = end[i - 1]
      BY <1>4, <3>1, Zenon
    <3>3. frame[i] \in Seq(Byte) /\ end[i] = end[i - 1] + Len(frame[i])
      BY <1>2, <3>1, Zenon
    <3>4. \A j \in 1..Len(frame[i]) : all[end[i - 1] + j] = frame[i][j]
      BY <1>6, <3>1, Zenon
    <3> QED
      BY <3>2, <3>3, <3>4, Zenon
  <2> QED
    BY <2>1, <2>2
<1>9. Framed(all, frame, a, b + 1)
  BY <1>3, <1>4, <1>5, <1>8 DEF Framed
<1> QED
  BY <1>9 DEF all

\* A place in a part, seen from behind a part that comes before it.
LEMMA Shifted ==
    ASSUME NEW p \in Nat, NEW n \in Nat, NEW j \in 1..n, NEW before \in Nat,
           NEW total \in Nat, before <= p, p + n <= total
    PROVE  /\ (p - before) + j \in 1..(total - before)
           /\ before + ((p - before) + j) = p + j
OBVIOUS

\* A stream of some frames starts with the first, and the rest is the stream of
\* the others.
LEMMA FramedFirst ==
    ASSUME NEW a \in Nat, NEW b \in Nat, a < b, NEW frame, NEW bytes,
           Framed(bytes, frame, a, b)
    PROVE  /\ frame[a + 1] \in Seq(Byte)
           /\ \E rest \in Seq(Byte) :
                bytes = frame[a + 1] \o rest /\ Framed(rest, frame, a + 1, b)
<1> DEFINE f == frame[a + 1]
<1>1. bytes \in Seq(Byte) /\ Len(bytes) \in Nat
  BY LenProperties DEF Framed
<1>2. PICK end \in [a..b -> 0..Len(bytes)] :
          /\ end[a] = 0 /\ end[b] = Len(bytes)
          /\ \A i, j \in a..b : i <= j => end[i] <= end[j]
          /\ \A i \in (a + 1)..b :
                /\ frame[i] \in Seq(Byte) /\ end[i] = end[i - 1] + Len(frame[i])
                /\ \A j \in 1..Len(frame[i]) : bytes[end[i - 1] + j] = frame[i][j]
  BY DEF Framed
<1>3. /\ f \in Seq(Byte) /\ Len(f) \in Nat
      /\ end[a + 1] = Len(f) /\ Len(f) <= Len(bytes)
      /\ \A j \in 1..Len(f) : bytes[j] = f[j]
  <2>1. a + 1 \in (a + 1)..b /\ a + 1 \in a..b /\ (a + 1) - 1 = a
    OBVIOUS
  <2>2. f \in Seq(Byte) /\ Len(f) \in Nat
    BY <1>2, <2>1, LenProperties
  <2>3. end[a + 1] = end[a] + Len(f) /\ end[a + 1] \in 0..Len(bytes)
    BY <1>2, <2>1
  <2>4. \A j \in 1..Len(f) : bytes[end[a] + j] = f[j]
    BY <1>2, <2>1
  <2> QED
    BY <1>1, <1>2, <2>2, <2>3, <2>4
<1> HIDE DEF f
<1> DEFINE rest == SubSeq(bytes, Len(f) + 1, Len(bytes))
           end2 == [i \in (a + 1)..b |-> end[i] - Len(f)]
<1>4. /\ rest \in Seq(Byte) /\ Len(rest) = Len(bytes) - Len(f)
      /\ \A j \in 1..(Len(bytes) - Len(f)) : rest[j] = bytes[Len(f) + j]
  <2>1. Len(f) + 1 \in 1..(Len(bytes) + 1)
    BY <1>1, <1>3
  <2> QED
    BY <1>1, <1>3, <2>1, SubSeqProperties
<1> HIDE DEF rest
<1>5. bytes = f \o rest
  <2>1. /\ f \o rest \in Seq(Byte) /\ Len(f \o rest) = Len(f) + Len(rest)
        /\ \A j \in 1..(Len(f) + Len(rest)) :
              (f \o rest)[j] = IF j <= Len(f) THEN f[j] ELSE rest[j - Len(f)]
    BY <1>3, <1>4, ConcatProperties
  <2>2. Len(f \o rest) = Len(bytes)
    BY <1>1, <1>3, <1>4, <2>1
  <2>3. ASSUME NEW j \in 1..Len(bytes) PROVE bytes[j] = (f \o rest)[j]
    <3>1. CASE j <= Len(f)
      <4>1. j \in 1..Len(f) /\ j \in 1..(Len(f) + Len(rest))
        BY <1>1, <1>3, <1>4, <3>1
      <4> QED
        BY <1>3, <2>1, <3>1, <4>1
    <3>2. CASE ~(j <= Len(f))
      <4>1. /\ j - Len(f) \in 1..(Len(bytes) - Len(f)) /\ Len(f) + (j - Len(f)) = j
            /\ j \in 1..(Len(f) + Len(rest))
        BY <1>1, <1>3, <1>4, <3>2
      <4>2. rest[j - Len(f)] = bytes[j]
        BY <1>4, <4>1
      <4> QED
        BY <2>1, <3>2, <4>1, <4>2
    <3> QED
      BY <3>1, <3>2
  <2> QED
    BY <1>1, <2>1, <2>2, <2>3, SeqEqual
<1>6. /\ end2 \in [(a + 1)..b -> 0..Len(rest)]
      /\ end2[a + 1] = 0 /\ end2[b] = Len(rest)
      /\ \A i, j \in (a + 1)..b : i <= j => end2[i] <= end2[j]
  <2>1. \A i \in (a + 1)..b : Len(f) <= end[i] /\ end[i] \in 0..Len(bytes)
    BY <1>2, <1>3
  <2>2. ASSUME NEW i \in (a + 1)..b
        PROVE  end2[i] = end[i] - Len(f) /\ end2[i] \in 0..Len(rest)
    <3>1. end2[i] = end[i] - Len(f)
      OBVIOUS
    <3>2. end[i] \in 0..Len(bytes) /\ Len(f) <= end[i] /\ Len(rest) = Len(bytes) - Len(f)
      BY <1>4, <2>1
    <3> HIDE DEF end2, rest
    <3> QED
      BY <1>1, <1>3, <3>1, <3>2
  <2>3. end2 \in [(a + 1)..b -> 0..Len(rest)]
    BY <2>2
  <2>4. a + 1 \in (a + 1)..b /\ b \in (a + 1)..b
    OBVIOUS
  <2> HIDE DEF end2, rest
  <2>5. end2[a + 1] = 0 /\ end2[b] = Len(rest)
    <3>1. end2[a + 1] = end[a + 1] - Len(f) /\ end2[b] = end[b] - Len(f)
      BY <2>2, <2>4
    <3> QED
      BY <1>1, <1>2, <1>3, <1>4, <3>1
  <2>6. ASSUME NEW i \in (a + 1)..b, NEW j \in (a + 1)..b, i <= j
        PROVE  end2[i] <= end2[j]
    <3>1. i \in a..b /\ j \in a..b
      OBVIOUS
    <3>2. end[i] <= end[j] /\ end[i] \in Nat /\ end[j] \in Nat
      BY <1>2, <2>1, <2>6, <3>1
    <3>3. end2[i] = end[i] - Len(f) /\ end2[j] = end[j] - Len(f)
      BY <2>2
    <3> QED
      BY <1>3, <3>2, <3>3
  <2> QED
    BY <2>3, <2>5, <2>6
<1>7. ASSUME NEW i \in (a + 2)..b
      PROVE  /\ frame[i] \in Seq(Byte) /\ end2[i] = end2[i - 1] + Len(frame[i])
             /\ \A j \in 1..Len(frame[i]) : rest[end2[i - 1] + j] = frame[i][j]
  <2>1. /\ i \in (a + 1)..b /\ i \in a..b /\ i - 1 \in (a + 1)..b /\ i - 1 \in a..b
    OBVIOUS
  <2>2. frame[i] \in Seq(Byte) /\ Len(frame[i]) \in Nat
    BY <1>2, <2>1, LenProperties
  <2>3. end[i] = end[i - 1] + Len(frame[i]) /\ end[i] <= Len(bytes) /\ end[i] \in Nat
        /\ end[i - 1] \in Nat /\ Len(f) <= end[i - 1]
    BY <1>1, <1>2, <1>3, <2>1
  <2>4. end2[i] = end[i] - Len(f) /\ end2[i - 1] = end[i - 1] - Len(f)
    BY <2>1
  <2> HIDE DEF end2
  <2>5. ASSUME NEW j \in 1..Len(frame[i])
        PROVE  rest[end2[i - 1] + j] = frame[i][j]
    <3> DEFINE p == end[i - 1]
               n == Len(frame[i])
    <3>0. /\ p \in Nat /\ n \in Nat /\ Len(f) <= p /\ p + n <= Len(bytes) /\ j \in 1..n
          /\ end2[i - 1] = p - Len(f)
      BY <2>2, <2>3, <2>4
    <3> HIDE DEF p, n
    <3>1. /\ end2[i - 1] + j \in 1..(Len(bytes) - Len(f))
          /\ Len(f) + (end2[i - 1] + j) = p + j
      <4>1. /\ (p - Len(f)) + j \in 1..(Len(bytes) - Len(f))
            /\ Len(f) + ((p - Len(f)) + j) = p + j
        <5>1. Len(bytes) \in Nat /\ Len(f) \in Nat
          BY <1>1, <1>3
        <5> QED
          <6> DEFINE k == Len(f)
                     t == Len(bytes)
          <6>1. k \in Nat /\ t \in Nat /\ k <= p /\ p + n <= t
            BY <3>0, <5>1, Zenon
          <6> HIDE DEF k, t
          <6>2. (p - k) + j \in 1..(t - k) /\ k + ((p - k) + j) = p + j
            BY <3>0, <6>1, Shifted
          <6> QED
            BY <6>2 DEF k, t
      <4> QED
        BY <3>0, <4>1, Zenon
    <3>2. Len(f) + (end2[i - 1] + j) = end[i - 1] + j
      BY <3>1 DEF p
    <3>3. rest[end2[i - 1] + j] = bytes[end[i - 1] + j]
      BY <1>4, <3>1, <3>2
    <3> QED
      BY <1>2, <2>1, <3>3
  <2>6. end2[i] = end2[i - 1] + Len(frame[i])
    <3>1. \A p, k, n \in Nat : (p + n) - k = (p - k) + n
      OBVIOUS
    <3>2. (end[i - 1] + Len(frame[i])) - Len(f) = (end[i - 1] - Len(f)) + Len(frame[i])
      <4>1. end[i - 1] \in Nat /\ Len(frame[i]) \in Nat /\ Len(f) \in Nat
        BY <1>3, <2>2, <2>3
      <4> QED
        BY <3>1, <4>1, Zenon
    <3> QED
      BY <2>3, <2>4, <3>2, Zenon
  <2> QED
    BY <2>2, <2>5, <2>6
<1> HIDE DEF end2
<1>8. Framed(rest, frame, a + 1, b)
  <2>1. (a + 1) + 1 = a + 2
    OBVIOUS
  <2>2. \A i \in ((a + 1) + 1)..b :
             /\ frame[i] \in Seq(Byte) /\ end2[i] = end2[i - 1] + Len(frame[i])
             /\ \A j \in 1..Len(frame[i]) : rest[end2[i - 1] + j] = frame[i][j]
    BY <1>7, <2>1
  <2> QED
    BY <1>4, <1>6, <2>2, Zenon DEF Framed
<1> QED
  BY <1>3, <1>4, <1>5, <1>8 DEF f

\* Moving bytes from the front of what is on the way to the end of what has
\* arrived changes nothing in both together.
LEMMA Moved ==
    ASSUME NEW x \in Seq(Byte), NEW y \in Seq(Byte), NEW k \in 0..Len(y)
    PROVE  /\ x \o SubSeq(y, 1, k) \in Seq(Byte) /\ SubSeq(y, k + 1, Len(y)) \in Seq(Byte)
           /\ Len(x \o SubSeq(y, 1, k)) = Len(x) + k
           /\ (x \o SubSeq(y, 1, k)) \o SubSeq(y, k + 1, Len(y)) = x \o y
<1> DEFINE m == SubSeq(y, 1, k)
           r == SubSeq(y, k + 1, Len(y))
<1>1. Len(x) \in Nat /\ Len(y) \in Nat /\ k \in Nat /\ k <= Len(y)
  BY LenProperties
<1>2. m \in Seq(Byte) /\ Len(m) = k /\ \A i \in 1..k : m[i] = y[i]
  BY <1>1, SubSeqProperties
<1>3. r \in Seq(Byte) /\ Len(r) = Len(y) - k /\ \A i \in 1..(Len(y) - k) : r[i] = y[k + i]
  <2>1. k + 1 \in Int /\ \A i \in (k + 1)..Len(y) : y[i] \in Byte
    BY <1>1
  <2> QED
    BY <1>1, <2>1, SubSeqProperties
<1>4. /\ x \o y \in Seq(Byte) /\ Len(x \o y) = Len(x) + Len(y)
      /\ \A i \in 1..(Len(x) + Len(y)) :
            (x \o y)[i] = IF i <= Len(x) THEN x[i] ELSE y[i - Len(x)]
  BY ConcatProperties
<1> HIDE DEF m, r
<1>5. /\ x \o m \in Seq(Byte) /\ Len(x \o m) = Len(x) + k
      /\ \A i \in 1..(Len(x) + k) : (x \o m)[i] = IF i <= Len(x) THEN x[i] ELSE m[i - Len(x)]
  BY <1>2, ConcatProperties
<1> DEFINE a == x \o m
<1>6. /\ a \o r \in Seq(Byte) /\ Len(a \o r) = Len(a) + Len(r)
      /\ \A i \in 1..(Len(a) + Len(r)) :
            (a \o r)[i] = IF i <= Len(a) THEN a[i] ELSE r[i - Len(a)]
  BY <1>3, <1>5, ConcatProperties
<1> HIDE DEF a
<1>7. Len(a) = Len(x) + k /\ Len(a \o r) = Len(x \o y)
  BY <1>1, <1>3, <1>4, <1>5, <1>6 DEF a
<1>8. ASSUME NEW i \in 1..Len(a \o r) PROVE (a \o r)[i] = (x \o y)[i]
  <2>1. i \in 1..(Len(x) + Len(y)) /\ i \in 1..(Len(a) + Len(r))
    BY <1>4, <1>6, <1>7
  <2>2. CASE i <= Len(x)
    <3>1. i <= Len(a) /\ i \in 1..(Len(x) + k)
      BY <1>1, <1>7, <2>1, <2>2
    <3>2. (a \o r)[i] = a[i] /\ a[i] = x[i]
      BY <1>5, <1>6, <2>1, <2>2, <3>1 DEF a
    <3> QED
      BY <1>4, <2>1, <2>2, <3>2
  <2>3. CASE ~(i <= Len(x)) /\ i <= Len(a)
    <3>1. i \in 1..(Len(x) + k) /\ i - Len(x) \in 1..k
      BY <1>1, <1>7, <2>1, <2>3
    <3>2. (a \o r)[i] = a[i] /\ a[i] = m[i - Len(x)]
      BY <1>5, <1>6, <2>1, <2>3, <3>1 DEF a
    <3> QED
      BY <1>2, <1>4, <2>1, <2>3, <3>1, <3>2
  <2>4. CASE ~(i <= Len(a))
    <3>1. i - Len(a) \in 1..(Len(y) - k) /\ k + (i - Len(a)) = i - Len(x) /\ ~(i <= Len(x))
      BY <1>1, <1>3, <1>7, <2>1, <2>4
    <3>2. (a \o r)[i] = r[i - Len(a)] /\ r[i - Len(a)] = y[i - Len(x)]
      BY <1>3, <1>6, <2>1, <2>4, <3>1
    <3> QED
      BY <1>4, <2>1, <3>1, <3>2
  <2>5. Len(x) <= Len(a)
    BY <1>1, <1>7
  <2> QED
    BY <1>1, <1>7, <2>1, <2>2, <2>3, <2>4
<1>9. a \o r = x \o y
  BY <1>4, <1>6, <1>7, <1>8, SeqEqual
<1> QED
  BY <1>1, <1>2, <1>3, <1>5, <1>9 DEF a, m, r

\* bytes start with frame f.
StartWith(bytes, f) == \E rest \in Seq(Byte) : bytes = f \o rest

\* Of a stream that starts with frame f, what has arrived is the start of f as
\* long as it is no longer than f.
LEMMA ArrivedIsStart ==
    ASSUME NEW x \in Seq(Byte), NEW y \in Seq(Byte), NEW f \in Seq(Byte),
           StartWith(x \o y, f), Len(x) <= Len(f)
    PROVE  x = SubSeq(f, 1, Len(x))
<1>1. PICK rest \in Seq(Byte) : x \o y = f \o rest
  BY DEF StartWith
<1>2. Len(x) \in Nat /\ Len(y) \in Nat /\ Len(f) \in Nat /\ Len(rest) \in Nat
  BY LenProperties
<1>3. \A i \in 1..(Len(x) + Len(y)) :
            (x \o y)[i] = IF i <= Len(x) THEN x[i] ELSE y[i - Len(x)]
  BY ConcatProperties
<1>4. \A i \in 1..(Len(f) + Len(rest)) :
            (f \o rest)[i] = IF i <= Len(f) THEN f[i] ELSE rest[i - Len(f)]
  BY ConcatProperties
<1>5. ASSUME NEW i \in 1..Len(x) PROVE x[i] = f[i]
  <2>1. i \in 1..(Len(x) + Len(y)) /\ i \in 1..(Len(f) + Len(rest)) /\ i <= Len(x) /\ i <= Len(f)
    BY <1>2
  <2>2. (x \o y)[i] = x[i]
    BY <1>3, <2>1
  <2>3. (f \o rest)[i] = f[i]
    BY <1>4, <2>1
  <2> QED
    BY <1>1, <2>2, <2>3
<1>6. /\ SubSeq(f, 1, Len(x)) \in Seq(Byte) /\ Len(SubSeq(f, 1, Len(x))) = Len(x)
      /\ \A i \in 1..Len(x) : SubSeq(f, 1, Len(x))[i] = f[i]
  BY <1>2, SubSeqProperties
<1> QED
  BY <1>5, <1>6, SeqEqual

\* What follows the same start is the same.
LEMMA SameRest ==
    ASSUME NEW f \in Seq(Byte), NEW y \in Seq(Byte), NEW rest \in Seq(Byte),
           f \o y = f \o rest
    PROVE  y = rest
<1>1. Len(f) \in Nat /\ Len(y) \in Nat /\ Len(rest) \in Nat
  BY LenProperties
<1>2. /\ Len(f \o y) = Len(f) + Len(y)
      /\ \A i \in 1..(Len(f) + Len(y)) :
            (f \o y)[i] = IF i <= Len(f) THEN f[i] ELSE y[i - Len(f)]
  BY ConcatProperties
<1>3. /\ Len(f \o rest) = Len(f) + Len(rest)
      /\ \A i \in 1..(Len(f) + Len(rest)) :
            (f \o rest)[i] = IF i <= Len(f) THEN f[i] ELSE rest[i - Len(f)]
  BY ConcatProperties
<1>4. Len(y) = Len(rest)
  BY <1>1, <1>2, <1>3
<1>5. ASSUME NEW i \in 1..Len(y) PROVE y[i] = rest[i]
  <2>1. /\ Len(f) + i \in 1..(Len(f) + Len(y)) /\ Len(f) + i \in 1..(Len(f) + Len(rest))
        /\ ~(Len(f) + i <= Len(f)) /\ (Len(f) + i) - Len(f) = i
    BY <1>1, <1>4
  <2>2. (f \o y)[Len(f) + i] = y[i]
    BY <1>2, <2>1
  <2>3. (f \o rest)[Len(f) + i] = rest[i]
    BY <1>3, <2>1
  <2> QED
    BY <2>2, <2>3
<1> QED
  BY <1>4, <1>5, SeqEqual

\* One who stops reading when a frame is complete never has read beyond it:
\* read_exact against the frames of a stream.
LEMMA NeverBeyond ==
    ASSUME NEW x \in Seq(Byte), NEW y \in Seq(Byte), NEW f \in Seq(Byte),
           StartWith(x \o y, f), Len(x) <= Len(f), NEW k \in 0..Len(y),
           \A j \in 0..(k - 1) : x \o SubSeq(y, 1, j) # f
    PROVE  Len(x) + k <= Len(f)
<1>1. Len(x) \in Nat /\ Len(y) \in Nat /\ Len(f) \in Nat /\ k \in Nat /\ k <= Len(y)
  BY LenProperties
<1>2. SUFFICES ASSUME ~(Len(x) + k <= Len(f)) PROVE FALSE
  OBVIOUS
<1> DEFINE j == Len(f) - Len(x)
<1>3. j \in 0..(k - 1) /\ j \in 0..Len(y) /\ Len(x) + j = Len(f)
  BY <1>1, <1>2
<1> HIDE DEF j
<1> DEFINE m == x \o SubSeq(y, 1, j)
           r == SubSeq(y, j + 1, Len(y))
<1>4. m \in Seq(Byte) /\ r \in Seq(Byte) /\ Len(m) = Len(x) + j /\ m \o r = x \o y
  BY <1>3, Moved
<1> HIDE DEF m, r
<1>5. StartWith(m \o r, f)
  BY <1>4
<1>6. Len(m) = Len(f)
  BY <1>3, <1>4
<1>7. Len(m) <= Len(f)
  BY <1>1, <1>6
<1>8. m = SubSeq(f, 1, Len(m))
  BY <1>4, <1>5, <1>7, ArrivedIsStart
<1>9. SubSeq(f, 1, Len(f)) = f
  BY SubSeqFull
<1> QED
  BY <1>3, <1>6, <1>8, <1>9 DEF m

\* What follows the first frame of a stream is the stream of the others.
LEMMA FramedRest ==
    ASSUME NEW a \in Nat, NEW b \in Nat, a < b, NEW frame, NEW rest \in Seq(Byte),
           frame[a + 1] \in Seq(Byte), Framed(frame[a + 1] \o rest, frame, a, b)
    PROVE  Framed(rest, frame, a + 1, b)
<1>1. PICK r \in Seq(Byte) :
         frame[a + 1] \o rest = frame[a + 1] \o r /\ Framed(r, frame, a + 1, b)
  BY FramedFirst
<1>2. rest = r
  BY <1>1, SameRest
<1> QED
  BY <1>1, <1>2

\* A stream of at least one frame starts with the first.
LEMMA FramedStart ==
    ASSUME NEW a \in Nat, NEW b \in Nat, a < b, NEW frame, NEW bytes,
           Framed(bytes, frame, a, b)
    PROVE  frame[a + 1] \in Seq(Byte) /\ StartWith(bytes, frame[a + 1])
<1>1. /\ frame[a + 1] \in Seq(Byte)
      /\ \E rest \in Seq(Byte) :
           bytes = frame[a + 1] \o rest /\ Framed(rest, frame, a + 1, b)
  BY FramedFirst
<1> QED
  BY <1>1, Zenon DEF StartWith

\* More bytes arrive for one who waits for frame a + 1 and has not all of it.
LEMMA Arrives ==
    ASSUME NEW a \in Nat, NEW b \in Nat, a <= b, NEW frame,
           NEW x \in Seq(Byte), NEW y \in Seq(Byte), Framed(x \o y, frame, a, b),
           x # <<>> => a < b /\ Len(x) <= Len(frame[a + 1]),
           NEW k \in 1..Len(y),
           a < b => \A j \in 0..(k - 1) : x \o SubSeq(y, 1, j) # frame[a + 1]
    PROVE  /\ x \o SubSeq(y, 1, k) \in Seq(Byte) /\ SubSeq(y, k + 1, Len(y)) \in Seq(Byte)
           /\ Framed((x \o SubSeq(y, 1, k)) \o SubSeq(y, k + 1, Len(y)), frame, a, b)
           /\ a < b /\ Len(x \o SubSeq(y, 1, k)) <= Len(frame[a + 1])
<1>1. Len(x) \in Nat /\ Len(y) \in Nat /\ k \in 0..Len(y)
  BY LenProperties
<1>2. /\ x \o SubSeq(y, 1, k) \in Seq(Byte) /\ SubSeq(y, k + 1, Len(y)) \in Seq(Byte)
      /\ Len(x \o SubSeq(y, 1, k)) = Len(x) + k
      /\ (x \o SubSeq(y, 1, k)) \o SubSeq(y, k + 1, Len(y)) = x \o y
  BY <1>1, Moved
<1>3. a < b
  <2>1. SUFFICES ASSUME a = b PROVE FALSE
    OBVIOUS
  <2>2. Framed(x \o y, frame, a, a)
    BY <2>1
  <2>3. x \o y = <<>>
    BY <2>2, FramedNone
  <2>4. Len(x \o y) = Len(x) + Len(y)
    BY ConcatProperties
  <2>5. Len(x) + Len(y) = 0
    BY <2>3, <2>4, EmptySeq
  <2> QED
    BY <1>1, <2>5
<1>4. frame[a + 1] \in Seq(Byte) /\ StartWith(x \o y, frame[a + 1])
  BY <1>3, FramedStart
<1>5. Len(x) <= Len(frame[a + 1])
  <2>1. Len(frame[a + 1]) \in Nat
    BY <1>4, LenProperties
  <2>2. x = <<>> => Len(x) = 0
    BY EmptySeq
  <2> QED
    BY <2>1, <2>2
<1>6. Len(x) + k <= Len(frame[a + 1])
  <2> DEFINE f == frame[a + 1]
  <2>1. f \in Seq(Byte) /\ StartWith(x \o y, f) /\ Len(x) <= Len(f)
    BY <1>4, <1>5
  <2>2. \A j \in 0..(k - 1) : x \o SubSeq(y, 1, j) # f
    BY <1>3
  <2> HIDE DEF f
  <2>3. Len(x) + k <= Len(f)
    BY <1>1, <2>1, <2>2, NeverBeyond
  <2> QED
    BY <2>3 DEF f
<1> QED
  BY <1>2, <1>3, <1>6

\* Who has read no more than frame a + 1, and no less, has read that frame, and
\* what follows are the others.
LEMMA ReadsWhole ==
    ASSUME NEW a \in Nat, NEW b \in Nat, a < b, NEW frame,
           NEW x \in Seq(Byte), NEW y \in Seq(Byte), Framed(x \o y, frame, a, b),
           Len(x) <= Len(frame[a + 1]),
           \A k \in 0..(Len(frame[a + 1]) - 1) : x # SubSeq(frame[a + 1], 1, k)
    PROVE  x = frame[a + 1] /\ Framed(y, frame, a + 1, b)
<1> DEFINE f == frame[a + 1]
<1>1. f \in Seq(Byte) /\ StartWith(x \o y, f) /\ Len(x) <= Len(f)
  BY FramedStart
<1>2. Len(x) \in Nat /\ Len(f) \in Nat
  BY <1>1, LenProperties
<1>3. \A k \in 0..(Len(f) - 1) : x # SubSeq(f, 1, k)
  OBVIOUS
<1> HIDE DEF f
<1>4. x = SubSeq(f, 1, Len(x))
  BY <1>1, ArrivedIsStart
<1>5. Len(x) = Len(f)
  <2>1. Len(x) \notin 0..(Len(f) - 1)
    BY <1>3, <1>4, Zenon
  <2>2. Len(x) <= Len(f)
    BY <1>1
  <2> QED
    BY <1>2, <2>1, <2>2
<1>6. x = f
  BY <1>1, <1>4, <1>5, SubSeqFull
<1>7. Framed(y, frame, a + 1, b)
  BY <1>1, <1>6, FramedRest DEF f
<1> QED
  BY <1>6, <1>7 DEF f
=============================================================================
