--------------------------- MODULE JoiningProofs ---------------------------
(***************************************************************************)
(* What Exchange and Joining promise, for any keys, ports, codes and       *)
(* requests, any number of calls, and whatever pieces the bytes arrive in. *)
(***************************************************************************)
EXTENDS Joining, WireProofs

-----------------------------------------------------------------------------
(* Lists of keys, joined and split.                                        *)

\* The equation of upto in join: each key follows what is there, behind a "\0"
\* unless it is the first.
LEMMA JoinSteps ==
    ASSUME NEW keys \in Seq(Text)
    PROVE  \E f \in [0..Len(keys) -> Seq(Byte)] :
              /\ f[0] = <<>> /\ join(keys) = f[Len(keys)]
              /\ \A i \in 1..Len(keys) :
                    f[i] = f[i - 1] \o (IF i = 1 THEN <<>> ELSE <<Nul>>) \o utf8_bytes(keys[i])
<1> DEFINE n == Len(keys)
           sep(i) == IF i = 1 THEN <<>> ELSE <<Nul>>
           part(i) == sep(i) \o utf8_bytes(keys[i])
           g == [p \in (1..n) \X Seq(Byte) |-> p[2] \o sep(p[1]) \o utf8_bytes(keys[p[1]])]
           Is(f) == f = [i \in 0..Len(keys) |->
                            IF i = 0 THEN <<>>
                            ELSE f[i - 1] \o (IF i = 1 THEN <<>> ELSE <<Nul>>)
                                    \o utf8_bytes(keys[i])]
           upto == CHOOSE f : Is(f)
<1>1. n \in Nat
  BY LenProperties
<1>2. \A i \in 1..n : utf8_bytes(keys[i]) \in Seq(Byte) /\ sep(i) \in Seq(Byte)
  <2> SUFFICES ASSUME NEW i \in 1..n
               PROVE  utf8_bytes(keys[i]) \in Seq(Byte) /\ sep(i) \in Seq(Byte)
    OBVIOUS
  <2>1. keys[i] \in Text
    BY ElementOfSeq
  <2>2. utf8_bytes(keys[i]) \in Seq(Byte)
    <3> DEFINE k == keys[i]
    <3>1. k \in Text
      BY <2>1
    <3> HIDE DEF k
    <3>2. utf8_bytes(k) \in Seq(Byte)
      BY <3>1, Utf8Bytes
    <3> QED
      BY <3>2 DEF k
  <2>3. sep(i) \in Seq(Byte)
    <3>1. <<>> \in Seq(Byte)
      BY EmptySeq
    <3>2. Nul \in Byte
      BY DEF Nul, Byte
    <3> QED
      BY <3>1, <3>2
  <2> QED
    BY <2>2, <2>3
<1>3. ASSUME NEW i \in 1..n, NEW b \in Seq(Byte)
      PROVE  b \o sep(i) \o utf8_bytes(keys[i]) \in Seq(Byte)
  <2> HIDE DEF sep
  <2>1. b \o sep(i) \in Seq(Byte)
    BY <1>2, ConcatProperties
  <2> QED
    BY <1>2, <2>1, ConcatProperties
<1> HIDE DEF sep
<1>4. g \in [(1..n) \X Seq(Byte) -> Seq(Byte)]
  BY <1>3
<1>5. \A i \in 1..n, b \in Seq(Byte) : g[<<i, b>>] = b \o sep(i) \o utf8_bytes(keys[i])
  OBVIOUS
<1>6. \E f : Solves(f, Seq(Byte), <<>>, n, g)
  <2>1. <<>> \in Seq(Byte)
    BY EmptySeq
  <2> HIDE DEF g, n
  <2> QED
    BY <1>1, <1>4, <2>1, Recursion
<1>7. PICK f \in [0..n -> Seq(Byte)] :
         /\ f[0] = <<>>
         /\ \A i \in 1..n : f[i] = f[i - 1] \o sep(i) \o utf8_bytes(keys[i])
  <2> HIDE DEF g, n
  <2>1. PICK f : Solves(f, Seq(Byte), <<>>, n, g)
    BY <1>6
  <2>2. f \in [0..n -> Seq(Byte)] /\ f[0] = <<>> /\ \A i \in 1..n : f[i] = g[<<i, f[i - 1]>>]
    BY <2>1 DEF Solves
  <2>3. ASSUME NEW i \in 1..n PROVE f[i] = f[i - 1] \o sep(i) \o utf8_bytes(keys[i])
    <3>1. f[i - 1] \in Seq(Byte)
      BY <1>1, <2>2
    <3> QED
      BY <1>5, <2>2, <3>1
  <2> QED
    BY <2>2, <2>3
<1>8. Is(f)
  <2> DEFINE h == [i \in 0..n |-> IF i = 0 THEN <<>>
                                  ELSE f[i - 1] \o sep(i) \o utf8_bytes(keys[i])]
  <2>1. ASSUME NEW i \in 0..n PROVE f[i] = h[i]
    <3>1. CASE i = 0
      BY <1>7, <3>1
    <3>2. CASE i # 0
      <4>1. i \in 1..n
        BY <1>1, <3>2
      <4> QED
        BY <1>7, <3>2, <4>1
    <3> QED
      BY <3>1, <3>2
  <2>2. f = [i \in 0..n |-> f[i]] /\ h = [i \in 0..n |-> h[i]]
    BY <1>7
  <2> HIDE DEF h
  <2>3. f = h
    BY <2>1, <2>2
  <2> QED
    BY <2>3 DEF sep, h
<1>9. Is(upto)
  BY <1>8
<1>10. join(keys) = upto[n]
  BY DEF join
<1> HIDE DEF upto
<1>11. /\ upto[0] = <<>>
       /\ \A i \in 1..n : upto[i] = upto[i - 1] \o sep(i) \o utf8_bytes(keys[i])
  BY <1>1, <1>9 DEF sep
<1> DEFINE Bad == {i \in 0..n : upto[i] # f[i]}
<1>12. ASSUME Bad # {} PROVE FALSE
  <2>1. PICK i \in Bad : \A k \in Bad : i <= k
    <3>1. Bad \in SUBSET Nat
      OBVIOUS
    <3> HIDE DEF Bad
    <3> QED
      BY <1>12, <3>1, Least
  <2>2. i \in 1..n
    BY <1>1, <1>7, <1>11, <2>1
  <2>3. i - 1 \in 0..n /\ i - 1 \notin Bad
    BY <1>1, <2>1, <2>2
  <2> QED
    BY <1>7, <1>11, <2>1, <2>2, <2>3
<1>13. upto[n] = f[n]
  BY <1>1, <1>12
<1> QED
  BY <1>7, <1>10, <1>13 DEF sep

\* The bytes from p + 1 on that equal a part, cut out, are the part.
LEMMA PartAt ==
    ASSUME NEW S, NEW b \in Seq(S), NEW p \in Nat, NEW part \in Seq(S),
           p + Len(part) <= Len(b),
           \A j \in 1..Len(part) : b[p + j] = part[j]
    PROVE  SubSeq(b, p + 1, p + Len(part)) = part
<1> DEFINE n == Len(part)
           s == SubSeq(b, p + 1, p + n)
<1>1. n \in Nat /\ Len(b) \in Nat
  BY LenProperties
<1>2. \A j \in 1..n : b[p + j] = part[j]
  OBVIOUS
<1>3. p + n <= Len(b)
  OBVIOUS
<1> HIDE DEF n
<1>4. ASSUME NEW i \in (p + 1)..(p + n) PROVE b[i] \in S
  <2>1. i \in 1..Len(b)
    BY <1>1, <1>3
  <2> QED
    BY <2>1, ElementOfSeq
<1>5. /\ s \in Seq(S)
      /\ Len(s) = IF p + 1 <= p + n THEN (p + n) - (p + 1) + 1 ELSE 0
      /\ \A i \in 1..((p + n) - (p + 1) + 1) : s[i] = b[(p + 1) + i - 1]
  <2>1. p + 1 \in Int /\ p + n \in Int
    BY <1>1
  <2> QED
    BY <1>4, <2>1, SubSeqProperties
<1> HIDE DEF s
<1>6. Len(s) = n
  BY <1>1, <1>5
<1>7. ASSUME NEW i \in 1..n PROVE s[i] = part[i]
  <2>1. i \in 1..((p + n) - (p + 1) + 1) /\ (p + 1) + i - 1 = p + i
    BY <1>1
  <2> QED
    BY <1>2, <1>5, <2>1
<1>8. s = part
  BY <1>5, <1>6, <1>7, SeqEqual DEF n
<1> QED
  BY <1>8 DEF s, n

\* A place before what follows it is one of what ends there.
LEMMA Before ==
    ASSUME NEW x \in Nat, 1 <= x, NEW y, NEW m \in Nat, NEW l \in Nat,
           y = x + 1 + m, y = l + 1
    PROVE  x \in 1..l
OBVIOUS

\* Where the keys of a list stand in their joined bytes: c[i] is the place of the
\* "\0" after the i-th, or one past the end.
LEMMA JoinLayout ==
    ASSUME NEW keys \in Seq(Text), Len(keys) # 0
    PROVE  /\ join(keys) \in Seq(Byte)
           /\ \E c \in [0..Len(keys) -> Nat] :
                /\ c[0] = 0 /\ c[Len(keys)] = Len(join(keys)) + 1
                /\ \A i \in 1..Len(keys) :
                      /\ c[i] = c[i - 1] + 1 + Len(utf8_bytes(keys[i]))
                      /\ \A j \in 1..Len(utf8_bytes(keys[i])) :
                            join(keys)[c[i - 1] + j] = utf8_bytes(keys[i])[j]
                      /\ i < Len(keys) => join(keys)[c[i]] = Nul
<1> DEFINE n == Len(keys)
           P(i) == utf8_bytes(keys[i])
           sep(i) == IF i = 1 THEN <<>> ELSE <<Nul>>
<1>1. n \in Nat /\ n # 0
  BY LenProperties
<1>2. PICK f \in [0..n -> Seq(Byte)] :
         /\ f[0] = <<>> /\ join(keys) = f[n]
         /\ \A i \in 1..n : f[i] = f[i - 1] \o sep(i) \o P(i)
  BY JoinSteps
<1>3. ASSUME NEW i \in 1..n
      PROVE  P(i) \in Seq(Byte) /\ Len(P(i)) \in Nat
  <2> DEFINE k == keys[i]
  <2>1. k \in Text
    BY ElementOfSeq
  <2> HIDE DEF k
  <2>2. utf8_bytes(k) \in Seq(Byte)
    BY <2>1, Utf8Bytes
  <2>3. Len(utf8_bytes(k)) \in Nat
    BY <2>2, LenProperties
  <2> QED
    BY <2>2, <2>3 DEF k
<1> HIDE DEF P, n
<1> DEFINE c == [i \in 0..n |-> IF i = 0 THEN 0 ELSE Len(f[i]) + 1]
<1>4. \A i \in 0..n : f[i] \in Seq(Byte) /\ Len(f[i]) \in Nat
  BY <1>2, LenProperties
<1>5. ASSUME NEW i \in 1..n
      PROVE  /\ c[i] = c[i - 1] + 1 + Len(P(i))
             /\ \A j \in 1..Len(P(i)) : f[i][c[i - 1] + j] = P(i)[j]
             /\ \A j \in 1..Len(f[i - 1]) : f[i][j] = f[i - 1][j]
             /\ i # 1 => f[i][c[i - 1]] = Nul
             /\ Len(f[i - 1]) <= Len(f[i])
  <2> DEFINE a == f[i - 1]
             s == sep(i)
             p == P(i)
  <2>1. i - 1 \in 0..n /\ i \in 0..n
    BY <1>1
  <2>2. a \in Seq(Byte) /\ Len(a) \in Nat /\ p \in Seq(Byte) /\ Len(p) \in Nat
    BY <1>3, <1>4, <2>1
  <2>3. /\ s \in Seq(Byte)
        /\ i = 1 => s = <<>> /\ Len(s) = 0 /\ a = <<>> /\ Len(a) = 0
        /\ i # 1 => Len(s) = 1 /\ s[1] = Nul
    <3>1. <<>> \in Seq(Byte) /\ Nul \in Byte
      BY EmptySeq DEF Nul, Byte
    <3> QED
      BY <1>2, <3>1
  <2>4. c[i] = Len(f[i]) + 1 /\ c[i - 1] = IF i = 1 THEN 0 ELSE Len(a) + 1
    BY <2>1
  <2>5. f[i] = a \o s \o p
    BY <1>2
  <2> HIDE DEF a, s, p, c
  <2>6. /\ Len(a \o s \o p) = Len(a) + Len(s) + Len(p)
        /\ \A j \in 1..Len(a) : (a \o s \o p)[j] = a[j]
        /\ \A j \in 1..Len(s) : (a \o s \o p)[Len(a) + j] = s[j]
        /\ \A j \in 1..Len(p) : (a \o s \o p)[Len(a) + Len(s) + j] = p[j]
    BY <2>2, <2>3, MiddlePart
  <2>7. /\ Len(f[i]) = Len(a) + Len(s) + Len(p)
        /\ \A j \in 1..Len(a) : f[i][j] = a[j]
        /\ \A j \in 1..Len(s) : f[i][Len(a) + j] = s[j]
        /\ \A j \in 1..Len(p) : f[i][Len(a) + Len(s) + j] = p[j]
    BY <2>5, <2>6
  <2>8. CASE i = 1
    <3>1. Len(s) = 0 /\ Len(a) = 0 /\ c[i - 1] = 0
      BY <2>3, <2>4, <2>8
    <3>2. c[i] = c[i - 1] + 1 + Len(p)
      BY <2>2, <2>4, <2>7, <3>1
    <3>3. \A j \in 1..Len(p) : f[i][c[i - 1] + j] = p[j]
      BY <2>2, <2>7, <3>1
    <3> QED
      BY <2>2, <2>7, <2>8, <3>1, <3>2, <3>3 DEF a, p
  <2>9. CASE i # 1
    <3>1. Len(s) = 1 /\ s[1] = Nul /\ c[i - 1] = Len(a) + 1
      BY <2>3, <2>4, <2>9
    <3>2. c[i] = c[i - 1] + 1 + Len(p)
      BY <2>2, <2>4, <2>7, <3>1
    <3>3. \A j \in 1..Len(p) : f[i][c[i - 1] + j] = p[j]
      BY <2>2, <2>7, <3>1
    <3>4. f[i][c[i - 1]] = Nul
      BY <2>2, <2>7, <3>1
    <3> QED
      BY <2>2, <2>7, <2>9, <3>1, <3>2, <3>3, <3>4 DEF a, p
  <2> QED
    BY <2>8, <2>9
<1>6. c \in [0..n -> Nat] /\ c[0] = 0 /\ c[n] = Len(f[n]) + 1 /\ n \in 0..n
      /\ \A i \in 1..n : c[i] = Len(f[i]) + 1
  BY <1>1, <1>4
<1> HIDE DEF c
<1>7. \A i \in 1..n : c[i] = c[i - 1] + 1 + Len(P(i))
  BY <1>5
<1>8. \A i \in 1..n : c[i - 1] \in Nat /\ Len(P(i)) \in Nat
  BY <1>1, <1>3, <1>6
<1> DEFINE Agree(m) == \A i \in 0..m : \A j \in 1..Len(f[i]) : f[m][j] = f[i][j]
           Bad == {m \in 0..n : ~Agree(m)}
<1>9. ASSUME Bad # {} PROVE FALSE
  <2>1. PICK m \in Bad : \A k \in Bad : m <= k
    <3>1. Bad \in SUBSET Nat
      OBVIOUS
    <3> HIDE DEF Bad
    <3> QED
      BY <1>9, <3>1, Least
  <2>2. PICK i \in 0..m : ~\A j \in 1..Len(f[i]) : f[m][j] = f[i][j]
    BY <2>1
  <2>3. PICK j \in 1..Len(f[i]) : f[m][j] # f[i][j]
    BY <2>2
  <2>4. i # m
    BY <2>3
  <2>5. m \in 1..n /\ i \in 0..(m - 1) /\ m - 1 \in 0..n
    BY <1>1, <2>1, <2>2, <2>4
  <2>6. m - 1 \notin Bad
    BY <2>1, <2>5
  <2>7. Agree(m - 1)
    BY <2>5, <2>6
  <2>8. f[m - 1][j] = f[i][j]
    BY <2>3, <2>5, <2>7
  <2>9. Len(f[i]) <= Len(f[m - 1])
    <3>1. \A k, l \in 0..n : k < l => c[k] < c[l]
      <4>1. \A k \in 1..n : c[k - 1] < c[k]
        <5> SUFFICES ASSUME NEW k \in 1..n PROVE c[k - 1] < c[k]
          OBVIOUS
        <5>1. c[k] = c[k - 1] + 1 + Len(P(k)) /\ c[k - 1] \in Nat /\ Len(P(k)) \in Nat
          BY <1>7, <1>8
        <5> QED
          BY <5>1
      <4>2. n \in Nat /\ c \in [0..n -> Nat]
        BY <1>1, <1>6
      <4>3. n \in Nat
        BY <1>1
      <4>4. c \in [0..n -> Nat]
        BY <1>6
      <4> QED
        BY <4>1, <4>3, <4>4, MarksIncrease, Zenon
    <3>2. CASE i = m - 1
      BY <1>4, <2>5, <3>2
    <3>3. CASE i # m - 1
      <4>1. i < m - 1 /\ i \in 0..n
        BY <1>1, <2>5, <3>3
      <4>2. c[i] < c[m - 1]
        BY <2>5, <3>1, <4>1
      <4>3. CASE i = 0
        <5>1. Len(f[i]) = 0
          BY <1>2, <4>3
        <5> QED
          BY <1>4, <2>5, <5>1
      <4>4. CASE i # 0
        <5>1. c[i] = Len(f[i]) + 1 /\ c[m - 1] = Len(f[m - 1]) + 1
          BY <1>6, <2>5, <4>1, <4>4
        <5> QED
          BY <1>4, <2>5, <4>1, <4>2, <5>1
      <4> QED
        BY <4>3, <4>4
    <3> QED
      BY <3>2, <3>3
  <2>10. j \in 1..Len(f[m - 1])
    BY <1>4, <2>3, <2>5, <2>9
  <2>11. f[m][j] = f[m - 1][j]
    BY <1>5, <2>5, <2>10
  <2> QED
    BY <2>3, <2>8, <2>11
<1>10. ASSUME NEW i \in 0..n, NEW j \in 1..Len(f[i]) PROVE f[n][j] = f[i][j]
  <2>1. n \in 0..n /\ i <= n
    BY <1>1
  <2> QED
    BY <1>9, <2>1
<1>11. ASSUME NEW i \in 1..n
      PROVE  /\ \A j \in 1..Len(P(i)) : f[n][c[i - 1] + j] = P(i)[j]
             /\ i < n => f[n][c[i]] = Nul
  <2>1. /\ c[i] = c[i - 1] + 1 + Len(P(i)) /\ c[i] = Len(f[i]) + 1
        /\ c[i - 1] \in Nat /\ Len(P(i)) \in Nat /\ i \in 0..n
    <3>1. i \in 0..n
      BY <1>1
    <3>2. c[i] = c[i - 1] + 1 + Len(P(i))
      BY <1>7
    <3>3. c[i] = Len(f[i]) + 1
      BY <1>6
    <3>4. c[i - 1] \in Nat /\ Len(P(i)) \in Nat
      BY <1>8
    <3> QED
      BY <3>1, <3>2, <3>3, <3>4
  <2>2. ASSUME NEW j \in 1..Len(P(i)) PROVE f[n][c[i - 1] + j] = P(i)[j]
    <3>1. c[i - 1] + j \in 1..Len(f[i])
      BY <2>1
    <3>2. f[n][c[i - 1] + j] = f[i][c[i - 1] + j]
      BY <1>10, <2>1, <3>1
    <3> QED
      BY <1>5, <3>2
  <2>3. ASSUME i < n PROVE f[n][c[i]] = Nul
    <3>1. i + 1 \in 1..n /\ i + 1 \in 0..n /\ i + 1 # 1 /\ (i + 1) - 1 = i
      BY <1>1, <2>3
    <3>2. f[i + 1][c[i]] = Nul
      BY <1>5, <3>1
    <3>3. c[i + 1] = c[i] + 1 + Len(P(i + 1)) /\ Len(P(i + 1)) \in Nat
          /\ c[i + 1] = Len(f[i + 1]) + 1
      BY <1>3, <1>5, <1>6, <3>1
    <3>4. c[i] \in 1..Len(f[i + 1])
      <4>1. c[i] \in Nat /\ 1 <= c[i]
        BY <2>1
      <4>2. f[i + 1] \in Seq(Byte) /\ Len(f[i + 1]) \in Nat
        BY <3>1, LenProperties
      <4> HIDE DEF c
      <4> QED
        BY <3>3, <4>1, <4>2, Before, Zenon
    <3> QED
      BY <1>10, <3>1, <3>2, <3>4
  <2> QED
    BY <2>2, <2>3
<1>12. join(keys) \in Seq(Byte)
  BY <1>2, <1>4, <1>6
<1>13. /\ c[n] = Len(join(keys)) + 1
       /\ \A i \in 1..n :
             /\ c[i] = c[i - 1] + 1 + Len(P(i))
             /\ \A j \in 1..Len(P(i)) : join(keys)[c[i - 1] + j] = P(i)[j]
             /\ i < n => join(keys)[c[i]] = Nul
  BY <1>2, <1>6, <1>11, <1>7
<1> QED
  BY <1>6, <1>12, <1>13, Zenon DEF n, P

\* Splitting at "\0" gives the keys that were joined, in UTF-8, and nothing else:
\* ProtocolsHandler's join and the guest's split agree.
THEOREM SplitJoin ==
    ASSUME NEW keys \in Seq(Text), Len(keys) # 0, \A i \in 1..Len(keys) : NoNul(keys[i])
    PROVE  split(join(keys)) = {utf8_bytes(keys[i]) : i \in 1..Len(keys)}
<1> DEFINE n == Len(keys)
           b == join(keys)
           P(i) == utf8_bytes(keys[i])
           cuts == {0, Len(b) + 1} \cup {i \in 1..Len(b) : b[i] = Nul}
           pairs == {p \in cuts \X cuts :
                        p[1] < p[2] /\ \A c \in cuts : ~(p[1] < c /\ c < p[2])}
<1>1. n \in Nat /\ n # 0 /\ n \in 0..n
  BY LenProperties
<1>2. b \in Seq(Byte)
  BY JoinLayout
<1>3. PICK c \in [0..n -> Nat] :
         /\ c[0] = 0 /\ c[n] = Len(b) + 1
         /\ \A i \in 1..n :
               /\ c[i] = c[i - 1] + 1 + Len(P(i))
               /\ \A j \in 1..Len(P(i)) : b[c[i - 1] + j] = P(i)[j]
               /\ i < n => b[c[i]] = Nul
  BY JoinLayout
<1>4. ASSUME NEW i \in 1..n
      PROVE  /\ P(i) \in Seq(Byte) /\ Len(P(i)) \in Nat
             /\ \A j \in 1..Len(P(i)) : P(i)[j] # Nul
  <2> DEFINE k == keys[i]
  <2>1. k \in Text /\ NoNul(k)
    BY ElementOfSeq
  <2> HIDE DEF k
  <2>2. utf8_bytes(k) \in Seq(Byte)
    BY <2>1, Utf8Bytes
  <2>3. Len(utf8_bytes(k)) \in Nat
    BY <2>2, LenProperties
  <2>4. \A j \in 1..Len(utf8_bytes(k)) : utf8_bytes(k)[j] # Nul
    BY <2>1, Utf8NoNul DEF NoNul, Nul
  <2> QED
    BY <2>2, <2>3, <2>4 DEF k
<1>5. split(b) = {SubSeq(b, p[1] + 1, p[2] - 1) : p \in pairs}
  BY DEF split
<1> HIDE DEF n, b, P
<1>6. Len(b) \in Nat
  BY <1>2, LenProperties
<1>7. \A i \in 1..n : c[i - 1] \in Nat /\ c[i] \in Nat /\ Len(P(i)) \in Nat
  <2>1. \A i \in 1..n : i - 1 \in 0..n /\ i \in 0..n
    BY <1>1
  <2> QED
    BY <1>3, <1>4, <2>1, Zenon
<1>8. \A i \in 1..n : c[i - 1] < c[i]
  BY <1>3, <1>7
<1>9. \A i, j \in 0..n : i < j => c[i] < c[j]
  <2>1. n \in Nat
    BY <1>1
  <2>2. c \in [0..n -> Nat]
    BY <1>3
  <2> QED
    BY <1>8, <2>1, <2>2, MarksIncrease, Zenon
<1>10. \A x : x \in cuts <=> \E i \in 0..n : x = c[i]
  <2>1. ASSUME NEW i \in 0..n PROVE c[i] \in cuts
    <3>1. CASE i = 0
      BY <1>3, <3>1
    <3>2. CASE i = n
      BY <1>3, <3>2
    <3>3. CASE i # 0 /\ i # n
      <4>1. i \in 1..n /\ i < n /\ 0 \in 0..n
        BY <1>1, <3>3
      <4>2. c[0] < c[i] /\ c[i] < c[n] /\ c[i] \in Nat
        <5>1. 0 \in 0..n /\ i \in 0..n /\ n \in 0..n /\ 0 < i /\ i < n
          BY <1>1, <4>1
        <5>2. c[0] < c[i] /\ c[i] < c[n]
          BY <1>9, <5>1
        <5>3. c[i] \in Nat
          BY <1>3, <5>1
        <5> QED
          BY <5>2, <5>3
      <4>3. c[i] \in 1..Len(b)
        BY <1>3, <1>6, <4>2
      <4> QED
        BY <1>3, <4>1, <4>3
    <3> QED
      BY <3>1, <3>2, <3>3
  <2>2. ASSUME NEW x \in 1..Len(b), b[x] = Nul PROVE \E i \in 0..n : x = c[i]
    <3>1. x \in 1..c[n]
      BY <1>3, <1>6
    <3>2. \E i \in 1..n : /\ c[i - 1] < x /\ x <= c[i]
                          /\ \A k \in 1..n : c[k - 1] < x /\ x <= c[k] => k = i
      <4>1. n \in Nat
        BY <1>1
      <4>2. c \in [0..n -> Nat] /\ c[0] = 0
        BY <1>3
      <4>3. c \in [0..n -> Nat]
        BY <4>2
      <4>4. c[0] = 0
        BY <4>2
      <4> QED
        BY <1>8, <3>1, <4>1, <4>3, <4>4, MarkOf, Zenon
    <3>3. PICK i \in 1..n : c[i - 1] < x /\ x <= c[i]
      BY <3>2
    <3>4. CASE x = c[i]
      BY <1>1, <3>3, <3>4
    <3>5. CASE x # c[i]
      <4> DEFINE j == x - c[i - 1]
      <4>1. j \in 1..Len(P(i)) /\ x = c[i - 1] + j
        <5> DEFINE k == c[i - 1]
                   m == Len(P(i))
        <5>1. k \in Nat /\ m \in Nat /\ c[i] = k + 1 + m /\ k < x /\ x <= c[i] /\ x # c[i]
          BY <1>3, <1>7, <3>3, <3>5, Zenon
        <5> HIDE DEF k, m
        <5>2. x - k \in 1..m /\ x = k + (x - k)
          BY <5>1
        <5> QED
          BY <5>2 DEF k, m
      <4> HIDE DEF j
      <4>2. b[x] = P(i)[j]
        BY <1>3, <4>1
      <4> QED
        BY <1>4, <2>2, <4>1, <4>2
    <3> QED
      BY <3>4, <3>5
  <2>3. 0 \in 0..n /\ c[0] = 0 /\ c[n] = Len(b) + 1
    BY <1>1, <1>3
  <2> QED
    BY <1>1, <2>1, <2>2, <2>3
<1>11. ASSUME NEW i \in 1..n
       PROVE  SubSeq(b, c[i - 1] + 1, c[i] - 1) = P(i)
  <2> DEFINE p == P(i)
             k == c[i - 1]
  <2>1. /\ k \in Nat /\ c[i] \in Nat /\ Len(p) \in Nat
        /\ c[i] = k + 1 + Len(p)
    BY <1>3, <1>7
  <2>2. c[i] <= Len(b) + 1
    <3>1. CASE i = n
      BY <1>3, <1>6, <3>1
    <3>2. CASE i # n
      <4>1. i < n /\ i \in 0..n /\ n \in 0..n
        BY <1>1, <3>2
      <4>2. c[i] < c[n]
        BY <1>9, <4>1
      <4> QED
        BY <1>3, <1>6, <2>1, <4>2
    <3> QED
      BY <3>1, <3>2
  <2>3. p \in Seq(Byte) /\ \A j \in 1..Len(p) : b[k + j] = p[j]
    BY <1>3, <1>4, Zenon
  <2> HIDE DEF p, k
  <2>4. k + Len(p) <= Len(b) /\ c[i] - 1 = k + Len(p)
    BY <1>6, <2>1, <2>2
  <2>5. SubSeq(b, k + 1, k + Len(p)) = p
    BY <1>2, <2>1, <2>3, <2>4, PartAt
  <2> QED
    BY <2>4, <2>5, Zenon DEF p, k
<1> DEFINE Part(p) == SubSeq(b, p[1] + 1, p[2] - 1)
<1>12. ASSUME NEW i \in 1..n PROVE P(i) \in {Part(p) : p \in pairs}
  <2> DEFINE p == <<c[i - 1], c[i]>>
  <2>1. p[1] = c[i - 1] /\ p[2] = c[i]
    OBVIOUS
  <2>2. c[i - 1] \in cuts /\ c[i] \in cuts
    <3>1. i - 1 \in 0..n /\ i \in 0..n
      BY <1>1
    <3> HIDE DEF cuts
    <3> QED
      BY <1>10, <3>1
  <2>3. ASSUME NEW x \in cuts, c[i - 1] < x, x < c[i] PROVE FALSE
    <3>1. PICK k \in 0..n : x = c[k]
      <4> HIDE DEF cuts
      <4> QED
        BY <1>10
    <3>2. i - 1 \in 0..n /\ i \in 0..n /\ k \in Int /\ i \in Int
      BY <1>1
    <3>3. c[i - 1] \in Nat /\ c[i] \in Nat /\ c[k] \in Nat
      BY <1>3, <3>2
    <3>4. ~(k < i - 1) /\ k # i - 1
      BY <1>9, <2>3, <3>1, <3>2, <3>3
    <3>5. ~(i < k) /\ k # i
      BY <1>9, <2>3, <3>1, <3>2, <3>3
    <3> QED
      BY <3>2, <3>4, <3>5
  <2>4. p \in pairs
    <3> HIDE DEF cuts
    <3> QED
      BY <1>8, <2>1, <2>2, <2>3
  <2>5. Part(p) = P(i)
    BY <1>11, <2>1
  <2> QED
    BY <2>4, <2>5
<1>13. ASSUME NEW p \in pairs PROVE \E i \in 1..n : Part(p) = P(i)
  <2> HIDE DEF cuts
  <2>1. p[1] \in cuts /\ p[2] \in cuts /\ p[1] < p[2] /\ \A x \in cuts : ~(p[1] < x /\ x < p[2])
    OBVIOUS
  <2>2. PICK i \in 0..n : p[1] = c[i]
    BY <1>10, <2>1
  <2>3. PICK k \in 0..n : p[2] = c[k]
    BY <1>10, <2>1
  <2>4. c[i] < c[k] /\ c[i] \in Nat /\ c[k] \in Nat
    BY <1>3, <2>1, <2>2, <2>3
  <2>5. i < k
    <3>1. ~(k < i)
      BY <1>9, <2>4
    <3>2. i # k
      BY <2>4
    <3> QED
      BY <3>1, <3>2
  <2>6. k = i + 1
    <3> SUFFICES ASSUME k # i + 1 PROVE FALSE
      OBVIOUS
    <3>1. i < i + 1 /\ i + 1 < k /\ i + 1 \in 0..n
      BY <1>1, <2>5
    <3>2. c[i] < c[i + 1] /\ c[i + 1] < c[k]
      BY <1>9, <3>1
    <3>3. c[i + 1] \in cuts
      BY <1>10, <3>1
    <3> QED
      BY <2>1, <2>2, <2>3, <3>2, <3>3
  <2>7. k \in 1..n /\ k - 1 = i
    BY <1>1, <2>6
  <2>8. Part(p) = P(k)
    BY <1>11, <2>2, <2>3, <2>7
  <2> QED
    BY <2>7, <2>8
<1>14. {Part(p) : p \in pairs} = {P(i) : i \in 1..n}
  <2> HIDE DEF Part, pairs
  <2> QED
    BY <1>12, <1>13
<1> QED
  BY <1>5, <1>14 DEF n, b, P

\* Those keeps exactly the members of the list that are in the set.
LEMMA ThoseKeys ==
    ASSUME NEW S, NEW keys \in Seq(S), NEW T
    PROVE  Those(keys, T) \in Seq(S) /\ ToSet(Those(keys, T)) = ToSet(keys) \cap T
<1> DEFINE n == Len(keys)
           g == [p \in (1..n) \X Seq(S) |->
                    IF keys[p[1]] \in T THEN Append(p[2], keys[p[1]]) ELSE p[2]]
           Is(f) == f = [i \in 0..Len(keys) |->
                            IF i = 0 THEN <<>>
                            ELSE IF keys[i] \in T THEN Append(f[i - 1], keys[i])
                            ELSE f[i - 1]]
           upto == CHOOSE f : Is(f)
<1>1. n \in Nat
  BY LenProperties
<1>2. \A i \in 1..n : keys[i] \in S
  BY ElementOfSeq
<1>3. ASSUME NEW i \in 1..n, NEW b \in Seq(S)
      PROVE  (IF keys[i] \in T THEN Append(b, keys[i]) ELSE b) \in Seq(S)
  <2>1. keys[i] \in S
    BY <1>2
  <2> QED
    BY <2>1, AppendProperties
<1>4. g \in [(1..n) \X Seq(S) -> Seq(S)]
  BY <1>3
<1>5. \A i \in 1..n, b \in Seq(S) :
        g[<<i, b>>] = IF keys[i] \in T THEN Append(b, keys[i]) ELSE b
  OBVIOUS
<1> HIDE DEF g
<1>6. PICK f \in [0..n -> Seq(S)] :
         /\ f[0] = <<>>
         /\ \A i \in 1..n :
               f[i] = IF keys[i] \in T THEN Append(f[i - 1], keys[i]) ELSE f[i - 1]
  <2> HIDE DEF n
  <2>1. <<>> \in Seq(S)
    BY EmptySeq
  <2>2. PICK f : Solves(f, Seq(S), <<>>, n, g)
    BY <1>1, <1>4, <2>1, Recursion
  <2>3. f \in [0..n -> Seq(S)] /\ f[0] = <<>> /\ \A i \in 1..n : f[i] = g[<<i, f[i - 1]>>]
    BY <2>2 DEF Solves
  <2>4. ASSUME NEW i \in 1..n
        PROVE  f[i] = IF keys[i] \in T THEN Append(f[i - 1], keys[i]) ELSE f[i - 1]
    <3>1. f[i - 1] \in Seq(S)
      BY <1>1, <2>3
    <3> QED
      BY <1>5, <2>3, <3>1
  <2> QED
    BY <2>3, <2>4
<1>7. Is(f)
  <2> DEFINE h == [i \in 0..n |->
                      IF i = 0 THEN <<>>
                      ELSE IF keys[i] \in T THEN Append(f[i - 1], keys[i])
                      ELSE f[i - 1]]
  <2>1. ASSUME NEW i \in 0..n PROVE f[i] = h[i]
    <3>1. CASE i = 0
      BY <1>6, <3>1
    <3>2. CASE i # 0
      <4>1. i \in 1..n
        BY <1>1, <3>2
      <4> QED
        BY <1>6, <3>2, <4>1
    <3> QED
      BY <3>1, <3>2
  <2>2. f = h
    BY <2>1
  <2> QED
    BY <2>2
<1>8. Is(upto)
  BY <1>7
<1>9. Those(keys, T) = upto[n]
  BY DEF Those
<1> HIDE DEF upto
<1>10. /\ upto[0] = <<>>
       /\ \A i \in 1..n :
             upto[i] = IF keys[i] \in T THEN Append(upto[i - 1], keys[i]) ELSE upto[i - 1]
  <2>1. upto[0] = <<>>
    BY <1>1, <1>8
  <2>2. ASSUME NEW i \in 1..n
        PROVE  upto[i] = IF keys[i] \in T THEN Append(upto[i - 1], keys[i])
                         ELSE upto[i - 1]
    <3>1. i \in 0..n /\ i # 0
      BY <1>1
    <3> QED
      BY <1>8, <3>1, Zenon
  <2> QED
    BY <2>1, <2>2
<1> HIDE DEF n
<1> DEFINE Elems(s, x) == \E j \in 1..Len(s) : s[j] = x
           Good(i) == /\ upto[i] \in Seq(S)
                      /\ \A x : Elems(upto[i], x) <=> x \in T /\ \E j \in 1..i : keys[j] = x
           Bad == {i \in 0..n : ~Good(i)}
<1>11. Good(0)
  <2>1. upto[0] \in Seq(S) /\ Len(upto[0]) = 0
    BY <1>10, EmptySeq
  <2> QED
    BY <2>1
<1>12. ASSUME NEW i \in 1..n, Good(i - 1) PROVE Good(i)
  <2> DEFINE a == upto[i - 1]
             k == keys[i]
  <2>1. a \in Seq(S) /\ k \in S /\ Len(a) \in Nat
    <3>1. upto[i - 1] \in Seq(S)
      BY <1>12
    <3> QED
      BY <1>2, <3>1, LenProperties
  <2>2. \A x : Elems(a, x) <=> x \in T /\ \E j \in 1..(i - 1) : keys[j] = x
    BY <1>12
  <2>3. \A x : (\E j \in 1..i : keys[j] = x) <=> (\E j \in 1..(i - 1) : keys[j] = x) \/ x = k
    BY <1>1
  <2>4. upto[i] = IF k \in T THEN Append(a, k) ELSE a
    BY <1>10
  <2> HIDE DEF a, k
  <2>5. CASE k \notin T
    <3>1. upto[i] = a
      BY <2>4, <2>5
    <3> HIDE DEF Elems
    <3> QED
      BY <2>1, <2>2, <2>3, <2>5, <3>1
  <2>6. CASE k \in T
    <3>1. /\ Append(a, k) \in Seq(S) /\ Len(Append(a, k)) = Len(a) + 1
          /\ \A j \in 1..Len(a) : Append(a, k)[j] = a[j]
          /\ Append(a, k)[Len(a) + 1] = k
      BY <2>1, AppendProperties
    <3>2. \A x : Elems(Append(a, k), x) <=> Elems(a, x) \/ x = k
      BY <2>1, <3>1
    <3>3. upto[i] = Append(a, k)
      BY <2>4, <2>6
    <3> HIDE DEF Elems
    <3> QED
      BY <2>2, <2>3, <2>6, <3>1, <3>2, <3>3
  <2> QED
    BY <2>5, <2>6
<1> HIDE DEF Good
<1>13. ASSUME Bad # {} PROVE FALSE
  <2>1. PICK i \in Bad : \A k \in Bad : i <= k
    <3>1. Bad \in SUBSET Nat
      OBVIOUS
    <3> HIDE DEF Bad
    <3> QED
      BY <1>13, <3>1, Least
  <2>2. i \in 1..n
    BY <1>1, <1>11, <2>1
  <2>3. i - 1 \in 0..n /\ i - 1 \notin Bad
    BY <1>1, <2>1, <2>2
  <2>4. Good(i - 1)
    BY <2>3
  <2>5. Good(i)
    BY <1>12, <2>2, <2>4
  <2> QED
    BY <2>1, <2>5
<1>14. Good(n)
  <2>1. n \in 0..n
    BY <1>1
  <2>2. Bad = {}
    BY <1>13
  <2> QED
    BY <2>1, <2>2
<1> DEFINE those == Those(keys, T)
<1>15. /\ those \in Seq(S)
       /\ \A x : (\E i \in 1..Len(those) : those[i] = x)
                        <=> x \in T /\ \E i \in 1..Len(keys) : keys[i] = x
  BY <1>9, <1>14 DEF Good, n
<1> HIDE DEF those
<1>16. DOMAIN those = 1..Len(those) /\ DOMAIN keys = 1..Len(keys)
  BY <1>15, LenProperties
<1>17. ToSet(those) = ToSet(keys) \cap T
  BY <1>15, <1>16 DEF ToSet
<1> QED
  BY <1>15, <1>17 DEF those

\* The keys that the center's announcement and the guest's list have in common
\* are found by their bytes: negotiate on what came over the connection gives
\* what comparing the texts would.
THEOREM NegotiateIsCommon ==
    ASSUME NEW keys \in Seq(Text), NEW theirs \in Seq(Text), Len(theirs) # 0,
           \A i \in 1..Len(theirs) : NoNul(theirs[i])
    PROVE  negotiate(keys, split(join(theirs))) = Those(keys, ToSet(keys) \cap ToSet(theirs))
<1>1. split(join(theirs)) = {utf8_bytes(theirs[i]) : i \in 1..Len(theirs)}
  BY SplitJoin
<1>2. \A k \in ToSet(keys) : k \in Text
  <2>1. DOMAIN keys = 1..Len(keys)
    BY LenProperties
  <2> QED
    BY <2>1, ElementOfSeq DEF ToSet
<1>3. \A i \in 1..Len(theirs) : theirs[i] \in Text
  BY ElementOfSeq
<1>4. \A k : k \in ToSet(theirs) <=> \E i \in 1..Len(theirs) : k = theirs[i]
  <2>1. DOMAIN theirs = 1..Len(theirs)
    BY LenProperties
  <2> QED
    BY <2>1 DEF ToSet
<1>5. ASSUME NEW k \in ToSet(keys)
      PROVE  utf8_bytes(k) \in split(join(theirs)) <=> k \in ToSet(theirs)
  <2>1. k \in Text
    BY <1>2
  <2>2. ASSUME NEW i \in 1..Len(theirs), utf8_bytes(k) = utf8_bytes(theirs[i])
        PROVE  k = theirs[i]
    <3> DEFINE t == theirs[i]
    <3>1. t \in Text /\ utf8_bytes(k) = utf8_bytes(t)
      BY <1>3, <2>2
    <3> HIDE DEF t
    <3>2. k = t
      BY <2>1, <3>1, Utf8Injective
    <3> QED
      BY <3>2 DEF t
  <2> QED
    BY <1>1, <1>4, <2>2
<1>6. {k \in ToSet(keys) : utf8_bytes(k) \in split(join(theirs))}
            = ToSet(keys) \cap ToSet(theirs)
  BY <1>5
<1> QED
  BY <1>6, Zenon DEF negotiate

-----------------------------------------------------------------------------
(* The standard keys and what the center answers.                          *)

\* The standard keys are texts.
LEMMA StandardKeys ==
    /\ Standard \in Seq(Text) /\ Len(Standard) = 6
    /\ \A s \in Text : \A k \in {Ping, Protocols, ServerPort} : ascii_bytes(s) = k <=> s = k
    /\ {Ping, Protocols, ServerPort} \subseteq ToSet(Standard) \cap Text
    /\ Ping # Protocols /\ Ping # ServerPort /\ Protocols # ServerPort
<1>1. \A x \in 0..127 : <<99, Colon, x>> \in Text
  BY DEF Text, Ascii, Colon
<1>2. Standard \in Seq(Text) /\ Len(Standard) = 6
  <2> DEFINE k(x) == <<99, Colon, x>>
  <2>1. Standard = <<k(1), k(2), k(3), k(4), k(5), k(6)>>
    BY DEF Standard, Ping, Protocols, ServerPort
  <2>2. k(1) \in Text /\ k(2) \in Text /\ k(3) \in Text /\ k(4) \in Text /\ k(5) \in Text /\ k(6) \in Text
    BY <1>1
  <2> HIDE DEF k
  <2> QED
    BY <2>1, <2>2
<1>3. ASSUME NEW s \in Text, NEW x \in 1..3
      PROVE  ascii_bytes(s) = <<99, Colon, x>> <=> s = <<99, Colon, x>>
  <2> DEFINE k == <<99, Colon, x>>
  <2>1. k \in Text
    <3>1. x \in 0..127
      OBVIOUS
    <3> QED
      BY <1>1, <3>1, Zenon
  <2>2. Len(k) = 3 /\ \A i \in 1..3 : k[i] \in Ascii /\ k[i] # Question
    BY DEF Ascii, Colon, Question
  <2> HIDE DEF k
  <2>3. ascii_bytes(s) = k <=> s = k
    BY <2>1, <2>2, ReadAsIs
  <2> QED
    BY <2>3 DEF k
<1>4. \A s \in Text : \A k \in {Ping, Protocols, ServerPort} : ascii_bytes(s) = k <=> s = k
  BY <1>3 DEF Ping, Protocols, ServerPort
<1>5. {Ping, Protocols, ServerPort} \subseteq Text
  BY <1>1 DEF Ping, Protocols, ServerPort
<1>6. {Ping, Protocols, ServerPort} \subseteq ToSet(Standard)
  <2>1. Standard[1] = Ping /\ Standard[2] = Protocols /\ Standard[3] = ServerPort
    BY DEF Standard
  <2> QED
    BY <1>2, <2>1 DEF ToSet
<1>7. Ping # Protocols /\ Ping # ServerPort /\ Protocols # ServerPort
  BY DEF Ping, Protocols, ServerPort
<1> QED
  BY <1>2, <1>4, <1>5, <1>6, <1>7

\* A port as u16 in two bytes, most significant first.
LEMMA PortBytes ==
    ASSUME NEW p \in Nat, p < 65536
    PROVE  /\ u16_bytes(p) \in Seq(Byte) /\ Len(u16_bytes(p)) = 2
           /\ u16_bytes(p)[1] * 256 + u16_bytes(p)[2] = p
<1>1. p \div 256 \in 0..255 /\ p % 256 \in 0..255 /\ p = (p \div 256) * 256 + (p % 256)
  <2>1. p \div 256 \in 0..255
    OBVIOUS
  <2>2. p % 256 \in 0..255
    OBVIOUS
  <2>3. p = (p \div 256) * 256 + (p % 256)
    OBVIOUS
  <2> QED
    BY <2>1, <2>2, <2>3
<1> QED
  BY <1>1 DEF u16_bytes, Byte

\* What the center answers is a response that its serializer can carry.
LEMMA AnswerFits ==
    ASSUME NEW req \in Request, Fits(req), custom \in Supported, port \in Minecraft
    PROVE  Answer(Read(req)) \in Response /\ FitsWord(Len(Answer(Read(req)).body))
<1> DEFINE read == Read(req)
           key == Key(read)
<1>1. read \in Request /\ read.body = req.body /\ key = ascii_bytes(Key(req)) /\ Key(req) \in Text
  BY ReadFacts
<1>2. key \in Text /\ Len(key) < 256 /\ Len(key) \in Nat
  <2>1. Len(ascii_bytes(Key(req))) = Len(Key(req)) /\ ascii_bytes(Key(req)) \in Seq(Byte)
    BY <1>1, AsciiBytes
  <2>2. Len(key) \in Nat /\ Len(key) = Len(Key(req))
    BY <1>1, <2>1, LenProperties
  <2>3. key \in Text
    BY <1>1, AsciiText
  <2> QED
    BY <2>2, <2>3 DEF Fits
<1>3. req.body \in Seq(Byte) /\ FitsWord(Len(req.body))
  BY DEF Request, Fits
<1>4. join(Standard \o custom) \in Seq(Byte) /\ FitsWord(Len(join(Standard \o custom)))
  <2>1. custom \in Seq(Text) /\ Standard \in Seq(Text) /\ Len(Standard) = 6
    <3>1. Supported \subseteq Seq(Text)
      BY ExchangeAssumption
    <3> QED
      BY <3>1, StandardKeys
  <2>2. Standard \o custom \in Seq(Text) /\ Len(Standard \o custom) = 6 + Len(custom) /\ Len(custom) \in Nat
    <3>1. Len(custom) \in Nat
      BY <2>1, LenProperties
    <3>2. Standard \o custom \in Seq(Text) /\ Len(Standard \o custom) = Len(Standard) + Len(custom)
      BY <2>1, ConcatProperties
    <3> QED
      BY <2>1, <3>1, <3>2
  <2>3. Len(Standard \o custom) # 0
    BY <2>2
  <2>4. join(Standard \o custom) \in Seq(Byte)
    BY <2>2, <2>3, JoinLayout
  <2> QED
    BY <2>4, ExchangeAssumption
<1>5. u16_bytes(port) \in Seq(Byte) /\ FitsWord(Len(u16_bytes(port)))
  <2>1. port \in Nat /\ port < 65536
    BY ExchangeAssumption
  <2>2. u16_bytes(port) \in Seq(Byte) /\ Len(u16_bytes(port)) = 2
    BY <2>1, PortBytes
  <2> QED
    BY <2>2, SmallFits
<1>6. utf8_bytes(key) \in Seq(Byte) /\ FitsWord(Len(utf8_bytes(key)))
  <2>1. utf8_bytes(key) \in Seq(Byte)
    BY <1>2, Utf8Bytes
  <2>2. Len(utf8_bytes(key)) \in Nat /\ Len(utf8_bytes(key)) <= 2 * Len(key)
    BY <1>2, Utf8Length
  <2>3. Len(utf8_bytes(key)) < 16777216
    BY <1>2, <2>2
  <2> QED
    BY <2>1, <2>2, <2>3, SmallFits
<1>7. \A body : body \in Seq(Byte) =>
        /\ OkWith(body) \in Response /\ OkWith(body).body = body
        /\ Refusal(body) \in Response /\ Refusal(body).body = body
  BY DEF OkWith, Refusal, Response, Byte
<1>8. \/ Answer(read) = OkWith(req.body)
      \/ Answer(read) = OkWith(join(Standard \o custom))
      \/ Answer(read) = OkWith(u16_bytes(port))
      \/ Answer(read) = OkWith(utf8_bytes(key))
      \/ Answer(read) = Refusal(utf8_bytes(key))
  BY <1>1 DEF Answer, Handle
<1> QED
  BY <1>3, <1>4, <1>5, <1>6, <1>7, <1>8

-----------------------------------------------------------------------------
(* The inductive invariant of a connection.                                *)

\* The frames of requests.
Frames(reqs) == [i \in 1..Len(reqs) |-> serialize_request(reqs[i])]

\* The frames of the center's answers.
Replies == [i \in 1..served |-> serialize_response(Answer(Read(wrote[i])))]

\* Types, and that no frame the center cannot read ever reached it.
TypeInv ==
    /\ custom \in Supported /\ port \in Minecraft
    /\ negotiated \in Seq(ToSet(my))
    /\ wrote \in Seq(Request) /\ \A i \in 1..Len(wrote) : Fits(wrote[i])
    /\ up \in Seq(Byte) /\ inbox \in Seq(Byte) /\ down \in Seq(Byte) /\ taken \in Seq(Byte)
    /\ served \in 0..Len(wrote) /\ got \in 0..served
    /\ stage \in {"open", "lost"}

\* What is on the way to the center is what it has not answered, from the start
\* of a frame on; what is on the way to the guest is what it has not read.
StreamInv ==
    /\ Framed(inbox \o up, Frames(wrote), served, Len(wrote))
    /\ inbox # <<>> =>
            served < Len(wrote) /\ Len(inbox) <= Len(Frames(wrote)[served + 1])
    /\ stage = "open" =>
        /\ Framed(taken \o down, Replies, got, served)
        /\ taken # <<>> => got < served /\ Len(taken) <= Len(Replies[got + 1])

\* Call c is one that wrote req.
Wrote(c, req) ==
    \/ c.op = "protocols" /\ Len(wrote) = 1 /\ req = Std(Protocols, join(my))
    \/ c.op = "ping" /\ req = Std(Ping, <<66>>)
    \/ c.op = "server_port" /\ req = Std(ServerPort, <<>>)
    \/ c.op = "raw" /\ req \in RawRequest
    \/ /\ c.op = "json" /\ c.of \in ToSet(CustomKeys) /\ ensure_negotiated(c.of)
       /\ HasColon(c.of) /\ req = JsonRequest(c.of)

\* A call waits for the response to the last request.
CallInv ==
    call # None =>
        /\ stage = "open" /\ got < Len(wrote) /\ Wrote(call, wrote[Len(wrote)])
        /\ Len(wrote) = 1 \/ Connected

\* What the center has read whole is the request it has to answer next.
LEMMA CenterReads ==
    ASSUME TypeInv, StreamInv, RequestReady(inbox)
    PROVE  /\ served < Len(wrote)
           /\ wrote[served + 1] \in Request /\ Fits(wrote[served + 1])
           /\ inbox = serialize_request(wrote[served + 1])
           /\ Framed(up, Frames(wrote), served + 1, Len(wrote))
<1>1. /\ served \in Nat /\ Len(wrote) \in Nat /\ wrote \in Seq(Request)
      /\ inbox \in Seq(Byte) /\ up \in Seq(Byte)
  BY LenProperties DEF TypeInv
<1>2. inbox # <<>>
  BY EmptySeq DEF RequestReady
<1>3. served < Len(wrote) /\ Len(inbox) <= Len(Frames(wrote)[served + 1])
  BY <1>2 DEF StreamInv
<1>4. served + 1 \in 1..Len(wrote)
  BY <1>1, <1>3
<1> DEFINE req == wrote[served + 1]
           f == serialize_request(req)
<1>5. req \in Request /\ Fits(req)
  BY <1>1, <1>4, ElementOfSeq DEF TypeInv
<1>6. Frames(wrote)[served + 1] = f
  BY <1>4 DEF Frames
<1> HIDE DEF req
<1>7. \A k \in 0..(Len(f) - 1) : inbox # SubSeq(f, 1, k)
  BY <1>5, NoRequestTooSoon
<1>8. Framed(inbox \o up, Frames(wrote), served, Len(wrote))
  BY DEF StreamInv
<1> HIDE DEF f
<1>9. /\ inbox = Frames(wrote)[served + 1]
      /\ Framed(up, Frames(wrote), served + 1, Len(wrote))
  BY <1>1, <1>3, <1>6, <1>7, <1>8, ReadsWhole
<1> QED
  BY <1>3, <1>5, <1>6, <1>9 DEF f, req

\* What the guest has read whole is the answer to the request after those whose
\* answers it has read.
LEMMA GuestReads ==
    ASSUME TypeInv, StreamInv, stage = "open", ResponseReady(taken)
    PROVE  /\ got < served
           /\ wrote[got + 1] \in Request /\ Fits(wrote[got + 1])
           /\ parse_response(taken) = Answer(Read(wrote[got + 1]))
           /\ Framed(down, Replies, got + 1, served)
<1>1. /\ served \in Nat /\ got \in Nat /\ got <= served /\ Len(wrote) \in Nat /\ served <= Len(wrote)
      /\ wrote \in Seq(Request) /\ taken \in Seq(Byte) /\ down \in Seq(Byte)
  BY LenProperties DEF TypeInv
<1>2. taken # <<>>
  BY EmptySeq DEF ResponseReady
<1>3. got < served /\ Len(taken) <= Len(Replies[got + 1])
  BY <1>2 DEF StreamInv
<1>4. got + 1 \in 1..Len(wrote) /\ got + 1 \in 1..served
  BY <1>1, <1>3
<1> DEFINE req == wrote[got + 1]
           resp == Answer(Read(req))
           f == serialize_response(resp)
<1>5. req \in Request /\ Fits(req)
  BY <1>1, <1>4, ElementOfSeq DEF TypeInv
<1>6. Replies[got + 1] = f
  BY <1>4 DEF Replies
<1> HIDE DEF req
<1>7. resp \in Response /\ FitsWord(Len(resp.body))
  BY <1>5, AnswerFits DEF TypeInv
<1> HIDE DEF resp
<1>8. \A k \in 0..(Len(f) - 1) : taken # SubSeq(f, 1, k)
  BY <1>7, NoResponseTooSoon
<1>9. parse_response(f) = resp
  BY <1>7, ResponseFacts
<1>10. Framed(taken \o down, Replies, got, served)
  BY DEF StreamInv
<1> HIDE DEF f
<1>11. taken = Replies[got + 1] /\ Framed(down, Replies, got + 1, served)
  BY <1>1, <1>3, <1>6, <1>8, <1>10, ReadsWhole
<1> QED
  BY <1>3, <1>5, <1>6, <1>9, <1>11 DEF resp, req

\* From the streams alone: the center never has to end the connection, and reads
\* what was written.
LEMMA ReadsInStep ==
    ASSUME TypeInv, StreamInv
    PROVE  CenterInStep
<1>1. stage # "closed"
  BY DEF TypeInv
<1>2. ASSUME RequestReady(inbox)
      PROVE  LET read == parse_request(inbox)
                 sent == wrote[served + 1]
             IN  Key(read) = ascii_bytes(Key(sent)) /\ read.body = sent.body
  <2> DEFINE sent == wrote[served + 1]
  <2>1. sent \in Request /\ Fits(sent) /\ inbox = serialize_request(sent)
    BY <1>2, CenterReads
  <2> HIDE DEF sent
  <2>2. Key(Read(sent)) = ascii_bytes(Key(sent)) /\ Read(sent).body = sent.body
    BY <2>1, ReadFacts
  <2> QED
    BY <2>1, <2>2 DEF Read, sent
<1> QED
  BY <1>1, <1>2 DEF CenterInStep

\* What every step of a connection keeps.  The properties alone are not inductive:
\* that a response answers the call that reads it is a matter of what is still on
\* the way in both directions, frame by frame.
Inv == TypeInv /\ StreamInv /\ CallInv /\ OwnAnswer /\ NegotiatedServed

\* A connection starts with nothing on the way.
LEMMA InvInit == Init => Inv
<1> SUFFICES ASSUME Init PROVE Inv
  OBVIOUS
<1>1. /\ custom \in Supported /\ port \in Minecraft /\ negotiated = <<>> /\ call = None
      /\ returned = None /\ up = <<>> /\ inbox = <<>> /\ down = <<>> /\ taken = <<>>
      /\ wrote = <<>> /\ served = 0 /\ got = 0 /\ stage = "open"
  BY DEF Init
<1>2. \A S : <<>> \in Seq(S) /\ Len(<<>>) = 0
  BY EmptySeq
<1>3. <<>> \o <<>> = <<>>
  <2>1. <<>> \in Seq(Byte)
    BY EmptySeq
  <2> QED
    BY <2>1, ConcatEmptySeq
<1>4. TypeInv
  BY <1>1, <1>2 DEF TypeInv
<1>5. StreamInv
  <2>1. Framed(<<>>, Frames(wrote), 0, 0) /\ Framed(<<>>, Replies, 0, 0)
    BY FramedNone
  <2> QED
    BY <1>1, <1>2, <1>3, <2>1 DEF StreamInv
<1>6. CallInv /\ OwnAnswer /\ NegotiatedServed
  BY <1>1 DEF CallInv, OwnAnswer, NegotiatedServed, Connected
<1> QED
  BY <1>4, <1>5, <1>6 DEF Inv

\* The answers already given do not change.
LEMMA RepliesStay ==
    ASSUME TypeInv, UNCHANGED center, served' \in Nat, served <= served',
           \A i \in 1..served : wrote'[i] = wrote[i]
    PROVE  \A i \in 1..served : Replies'[i] = Replies[i]
<1>1. served \in Nat
  BY LenProperties DEF TypeInv
<1>2. ASSUME NEW i \in 1..served PROVE Replies'[i] = Replies[i]
  <2>1. i \in 1..served'
    BY <1>1
  <2>2. wrote'[i] = wrote[i] /\ custom' = custom /\ port' = port
    BY DEF center
  <2>3. Answer(Read(wrote[i]))' = Answer(Read(wrote[i]))
    BY <2>2 DEF Answer
  <2>4. Replies[i] = serialize_response(Answer(Read(wrote[i])))
    BY DEF Replies
  <2>5. Replies'[i] = serialize_response(Answer(Read(wrote[i]))')
    BY <2>1 DEF Replies
  <2> QED
    BY <2>3, <2>4, <2>5
<1> QED
  BY <1>2

\* A request is written behind those on the way.
LEMMA SendStep ==
    ASSUME Inv, NEW c, NEW req \in Request, Fits(req), Send(c, req)
    PROVE  /\ TypeInv' /\ StreamInv' /\ OwnAnswer' /\ NegotiatedServed'
           /\ Len(wrote') = Len(wrote) + 1 /\ wrote'[Len(wrote')] = req
           /\ call' = c /\ stage' = "open" /\ got' < Len(wrote')
<1>1. /\ stage = "open" /\ call = None /\ call' = c
      /\ up' = up \o serialize_request(req) /\ wrote' = Append(wrote, req)
      /\ returned' = None
      /\ UNCHANGED <<custom, port, negotiated, inbox, down, taken, served, got, stage>>
  BY DEF Send, center
<1>2. /\ served \in Nat /\ got \in Nat /\ got <= served /\ Len(wrote) \in Nat
      /\ served <= Len(wrote) /\ wrote \in Seq(Request)
      /\ inbox \in Seq(Byte) /\ up \in Seq(Byte)
      /\ \A i \in 1..Len(wrote) : Fits(wrote[i])
  BY LenProperties DEF Inv, TypeInv
<1>3. serialize_request(req) \in Seq(Byte) /\ up' \in Seq(Byte)
  <2>1. serialize_request(req) \in Seq(Byte)
    BY ReadFacts
  <2> HIDE DEF serialize_request
  <2> QED
    BY <1>1, <1>2, <2>1, ConcatProperties
<1>4. /\ wrote' \in Seq(Request) /\ Len(wrote') = Len(wrote) + 1
      /\ wrote'[Len(wrote) + 1] = req
      /\ \A i \in 1..Len(wrote) : wrote'[i] = wrote[i]
  BY <1>1, <1>2, AppendProperties
<1>5. TypeInv'
  <2>1. \A i \in 1..Len(wrote') : Fits(wrote'[i])
    <3>1. \A i \in 1..Len(wrote') : i \in 1..Len(wrote) \/ i = Len(wrote) + 1
      BY <1>2, <1>4
    <3> QED
      BY <1>2, <1>4, <3>1
  <2>2. served' \in 0..Len(wrote') /\ got' \in 0..served'
    BY <1>1, <1>2, <1>4
  <2> QED
    BY <1>1, <1>3, <1>4, <2>1, <2>2 DEF Inv, TypeInv
<1>6. \A i \in 1..Len(wrote) : Frames(wrote')[i] = Frames(wrote)[i]
  <2>1. \A i \in 1..Len(wrote) : i \in 1..Len(wrote')
    BY <1>2, <1>4
  <2> QED
    BY <1>4, <2>1 DEF Frames
<1>7. Frames(wrote')[Len(wrote) + 1] = serialize_request(req)
  <2>1. Len(wrote) + 1 \in 1..Len(wrote')
    BY <1>2, <1>4
  <2> QED
    BY <1>4, <2>1 DEF Frames
<1>8. Framed(inbox' \o up', Frames(wrote'), served', Len(wrote'))
  <2> DEFINE f == serialize_request(req)
  <2>1. f \in Seq(Byte)
    BY <1>3
  <2> HIDE DEF f
  <2>2. Framed(inbox \o up, Frames(wrote), served, Len(wrote))
    BY DEF Inv, StreamInv
  <2>3. \A i \in (served + 1)..Len(wrote) : Frames(wrote')[i] = Frames(wrote)[i]
    BY <1>2, <1>6
  <2>4. Framed(inbox \o up, Frames(wrote'), served, Len(wrote))
    BY <2>2, <2>3, FramedSame
  <2>5. Frames(wrote')[Len(wrote) + 1] = f
    BY <1>7 DEF f
  <2>6. Framed((inbox \o up) \o f, Frames(wrote'), served, Len(wrote) + 1)
    BY <1>2, <2>1, <2>4, <2>5, FramedAppend
  <2>7. (inbox \o up) \o f = inbox \o (up \o f)
    BY <1>2, <2>1, BytesAssociative, Zenon
  <2>8. inbox' \o up' = inbox \o (up \o f)
    BY <1>1 DEF f
  <2> QED
    BY <1>1, <1>4, <2>6, <2>7, <2>8
<1>9. inbox' # <<>> =>
        served' < Len(wrote') /\ Len(inbox') <= Len(Frames(wrote')[served' + 1])
  <2>1. SUFFICES ASSUME inbox # <<>>
                 PROVE  served < Len(wrote') /\ Len(inbox) <= Len(Frames(wrote')[served + 1])
    BY <1>1
  <2>2. served < Len(wrote) /\ Len(inbox) <= Len(Frames(wrote)[served + 1])
    BY <2>1 DEF Inv, StreamInv
  <2>3. served + 1 \in 1..Len(wrote) /\ served < Len(wrote')
    BY <1>2, <1>4, <2>2
  <2> QED
    BY <1>6, <2>2, <2>3
<1>10. Framed(taken' \o down', Replies', got', served')
       /\ (taken' # <<>> => got' < served' /\ Len(taken') <= Len(Replies'[got' + 1]))
  <2>1. \A i \in 1..served : Replies'[i] = Replies[i]
    <3>1. \A i \in 1..served : i \in 1..Len(wrote)
      BY <1>2
    <3>2. \A i \in 1..served : wrote'[i] = wrote[i]
      BY <1>4, <3>1
    <3>3. TypeInv /\ UNCHANGED center /\ served' \in Nat /\ served <= served'
      BY <1>1, <1>2 DEF Inv, center
    <3> QED
      BY <3>2, <3>3, RepliesStay
  <2>2. \A i \in (got + 1)..served : Replies'[i] = Replies[i]
    BY <1>2, <2>1
  <2>3. Framed(taken \o down, Replies, got, served)
    BY <1>1 DEF Inv, StreamInv
  <2>4. Framed(taken \o down, Replies', got, served)
    BY <2>2, <2>3, FramedSame
  <2>5. ASSUME taken # <<>> PROVE got < served /\ Len(taken) <= Len(Replies'[got + 1])
    <3>1. got < served /\ Len(taken) <= Len(Replies[got + 1])
      BY <1>1, <2>5 DEF Inv, StreamInv
    <3>2. got + 1 \in 1..served
      BY <1>2, <3>1
    <3> QED
      BY <2>1, <3>1, <3>2
  <2> QED
    BY <1>1, <2>4, <2>5
<1>11. StreamInv'
  BY <1>8, <1>9, <1>10 DEF StreamInv
<1>12. OwnAnswer'
  BY <1>1 DEF OwnAnswer
<1>13. NegotiatedServed'
  BY <1>1 DEF Inv, NegotiatedServed, Connected
<1> QED
  BY <1>1, <1>2, <1>4, <1>5, <1>11, <1>12, <1>13

-----------------------------------------------------------------------------
(* Requests are written.                                                   *)

\* The requests of the standard protocols.
LEMMA StdRequest ==
    ASSUME NEW x \in 0..127, NEW body \in Seq(Byte), FitsWord(Len(body))
    PROVE  /\ Std(<<99, Colon, x>>, body) \in Request /\ Fits(Std(<<99, Colon, x>>, body))
           /\ Key(Std(<<99, Colon, x>>, body)) = <<99, Colon, x>>
           /\ Std(<<99, Colon, x>>, body).body = body
<1> DEFINE key == <<99, Colon, x>>
           req == Std(key, body)
<1>1. SubSeq(key, 1, 1) = <<99>> /\ SubSeq(key, 3, 3) = <<x>>
  <2> DEFINE S == 0..127
             one == <<99>>
             three == <<x>>
  <2>1. key \in Seq(S) /\ Len(key) = 3 /\ key[1] = 99 /\ key[3] = x
    <3>1. 99 \in S /\ Colon \in S /\ x \in S
      BY DEF Colon
    <3> HIDE DEF S
    <3> QED
      BY <3>1
  <2>2. \A i \in 1..3 : key[i] \in S
    BY <2>1, ElementOfSeq
  <2>3. one \in Seq(S) /\ Len(one) = 1 /\ one[1] = 99
    OBVIOUS
  <2>4. three \in Seq(S) /\ Len(three) = 1 /\ three[1] = x
    OBVIOUS
  <2> HIDE DEF key, S, one, three
  <2>5. SubSeq(key, 1, 1) \in Seq(S) /\ Len(SubSeq(key, 1, 1)) = 1 /\ SubSeq(key, 1, 1)[1] = key[1]
    BY <2>2, SubSeqProperties
  <2>6. SubSeq(key, 3, 3) \in Seq(S) /\ Len(SubSeq(key, 3, 3)) = 1 /\ SubSeq(key, 3, 3)[1] = key[3]
    BY <2>2, SubSeqProperties
  <2>7. SubSeq(key, 1, 1) = one
    BY <2>1, <2>3, <2>5, SeqEqual
  <2>8. SubSeq(key, 3, 3) = three
    BY <2>1, <2>4, <2>6, SeqEqual
  <2> QED
    BY <2>7, <2>8 DEF one, three
<1>2. req = [namespace |-> <<99>>, request_type |-> <<x>>, body |-> body]
  BY <1>1 DEF Std
<1>3. <<99>> \in Text /\ <<x>> \in Text
  BY DEF Text, Ascii
<1>4. req \in Request /\ req.body = body
  BY <1>2, <1>3 DEF Request
<1>5. Key(req) = key
  <2>1. req.namespace = <<99>> /\ req.request_type = <<x>>
    BY <1>2
  <2> HIDE DEF req
  <2>2. Key(req) = <<99>> \o <<Colon>> \o <<x>>
    BY <2>1 DEF Key
  <2>3. <<99>> \o <<Colon>> \o <<x>> = key
    <3> DEFINE S == 0..127
               p == <<99>>
               q == <<Colon>>
               r == <<x>>
    <3>1. /\ p \in Seq(S) /\ q \in Seq(S) /\ r \in Seq(S)
          /\ Len(p) = 1 /\ Len(q) = 1 /\ Len(r) = 1
          /\ p[1] = key[1] /\ q[1] = key[2] /\ r[1] = key[3]
      <4>1. 99 \in S /\ Colon \in S /\ x \in S
        BY DEF Colon
      <4> HIDE DEF S
      <4>2. p \in Seq(S) /\ q \in Seq(S) /\ r \in Seq(S)
        BY <4>1
      <4>3. Len(p) = 1 /\ Len(q) = 1 /\ Len(r) = 1
        OBVIOUS
      <4>4. p[1] = key[1] /\ q[1] = key[2] /\ r[1] = key[3]
        OBVIOUS
      <4> QED
        BY <4>2, <4>3, <4>4
    <3>2. key \in Seq(S) /\ Len(key) = 3
      <4>1. 99 \in S /\ Colon \in S /\ x \in S
        BY DEF Colon
      <4> HIDE DEF S
      <4> QED
        BY <4>1
    <3> HIDE DEF p, q, r, key, S
    <3>3. p \o q \in Seq(S) /\ Len(p \o q) = 2 /\ (p \o q)[1] = key[1] /\ (p \o q)[2] = key[2]
      <4>1. /\ p \o q \in Seq(S) /\ Len(p \o q) = Len(p) + Len(q)
            /\ \A i \in 1..(Len(p) + Len(q)) :
                    (p \o q)[i] = IF i <= Len(p) THEN p[i] ELSE q[i - Len(p)]
        BY <3>1, ConcatProperties
      <4> QED
        BY <3>1, <4>1
    <3> DEFINE pq == p \o q
    <3> HIDE DEF pq
    <3>4. pq \in Seq(S) /\ Len(pq) = 2 /\ pq[1] = key[1] /\ pq[2] = key[2]
      BY <3>3 DEF pq
    <3>5. /\ pq \o r \in Seq(S) /\ Len(pq \o r) = 3
          /\ (pq \o r)[1] = key[1] /\ (pq \o r)[2] = key[2] /\ (pq \o r)[3] = key[3]
      <4>1. /\ pq \o r \in Seq(S) /\ Len(pq \o r) = Len(pq) + Len(r)
            /\ \A i \in 1..(Len(pq) + Len(r)) :
                  (pq \o r)[i] = IF i <= Len(pq) THEN pq[i] ELSE r[i - Len(pq)]
        BY <3>1, <3>4, ConcatProperties, Zenon
      <4>2. /\ pq \o r \in Seq(S) /\ Len(pq \o r) = 3
            /\ \A i \in 1..3 : (pq \o r)[i] = IF i <= 2 THEN pq[i] ELSE r[i - 2]
        BY <3>1, <3>4, <4>1
      <4> QED
        BY <3>1, <3>4, <4>2
    <3>6. \A i \in 1..3 : (pq \o r)[i] = key[i]
      BY <3>5
    <3>7. pq \o r = key
      BY <3>2, <3>5, <3>6, SeqEqual
    <3> QED
      BY <3>7 DEF pq, p, q, r
  <2> QED
    BY <2>2, <2>3
<1>6. Len(key) < 256
  OBVIOUS
<1> HIDE DEF key, req
<1>7. Fits(req)
  BY <1>4, <1>5, <1>6 DEF Fits
<1> QED
  BY <1>4, <1>5, <1>7 DEF key, req

\* The bodies of those the guest sends.
LEMMA StdBodies ==
    /\ join(my) \in Seq(Byte) /\ FitsWord(Len(join(my)))
    /\ <<66>> \in Seq(Byte) /\ FitsWord(Len(<<66>>))
    /\ <<>> \in Seq(Byte) /\ FitsWord(Len(<<>>))
<1>1. my \in Seq(Text) /\ Len(my) # 0
  <2>1. CustomKeys \in Seq(Text)
    BY ExchangeAssumption
  <2>2. Standard \in Seq(Text) /\ Len(Standard) = 6
    BY StandardKeys
  <2>3. Len(CustomKeys) \in Nat
    BY <2>1, LenProperties
  <2>4. Standard \o CustomKeys \in Seq(Text) /\ Len(Standard \o CustomKeys) = 6 + Len(CustomKeys)
    <3> DEFINE t == Standard
    <3>1. t \in Seq(Text) /\ Len(t) = 6
      BY <2>2
    <3> HIDE DEF t
    <3>2. t \o CustomKeys \in Seq(Text) /\ Len(t \o CustomKeys) = Len(t) + Len(CustomKeys)
      BY <2>1, <3>1, ConcatProperties, Zenon
    <3> QED
      BY <3>1, <3>2 DEF t
  <2> QED
    BY <2>3, <2>4 DEF my
<1>2. join(my) \in Seq(Byte)
  BY <1>1, JoinLayout
<1>3. FitsWord(Len(join(my)))
  BY ExchangeAssumption
<1>4. <<66>> \in Seq(Byte) /\ Len(<<66>>) = 1 /\ FitsWord(1) /\ FitsWord(0)
  BY SmallFits DEF Byte
<1>5. <<>> \in Seq(Byte) /\ Len(<<>>) = 0
  BY EmptySeq
<1> QED
  BY <1>2, <1>3, <1>4, <1>5

\* The requests of the guest's own calls are what they should be.
LEMMA OwnRequests ==
    /\ /\ Std(Protocols, join(my)) \in Request /\ Fits(Std(Protocols, join(my)))
       /\ Key(Std(Protocols, join(my))) = Protocols
    /\ /\ Std(Ping, <<66>>) \in Request /\ Fits(Std(Ping, <<66>>))
       /\ Key(Std(Ping, <<66>>)) = Ping
    /\ /\ Std(ServerPort, <<>>) \in Request /\ Fits(Std(ServerPort, <<>>))
       /\ Key(Std(ServerPort, <<>>)) = ServerPort
<1> DEFINE k(x) == <<99, Colon, x>>
           none == <<>>
           one == <<66>>
           mine == join(my)
<1>1. Ping = k(1) /\ Protocols = k(2) /\ ServerPort = k(3)
  BY DEF Ping, Protocols, ServerPort
<1>2. \A x \in 0..127 : \A body \in Seq(Byte) : FitsWord(Len(body)) =>
        /\ Std(k(x), body) \in Request /\ Fits(Std(k(x), body)) /\ Key(Std(k(x), body)) = k(x)
  BY StdRequest
<1>3. /\ mine \in Seq(Byte) /\ FitsWord(Len(mine)) /\ one \in Seq(Byte) /\ FitsWord(Len(one))
      /\ none \in Seq(Byte) /\ FitsWord(Len(none))
  BY StdBodies
<1>4. 1 \in 0..127 /\ 2 \in 0..127 /\ 3 \in 0..127
  OBVIOUS
<1> HIDE DEF k, none, one, mine
<1>5. Std(k(2), mine) \in Request /\ Fits(Std(k(2), mine)) /\ Key(Std(k(2), mine)) = k(2)
  BY <1>2, <1>3, <1>4
<1>6. Std(k(1), one) \in Request /\ Fits(Std(k(1), one)) /\ Key(Std(k(1), one)) = k(1)
  BY <1>2, <1>3, <1>4
<1>7. Std(k(3), none) \in Request /\ Fits(Std(k(3), none)) /\ Key(Std(k(3), none)) = k(3)
  BY <1>2, <1>3, <1>4
<1> QED
  BY <1>1, <1>5, <1>6, <1>7 DEF none, one, mine

\* The request of a custom key.
LEMMA JsonFits ==
    ASSUME NEW key \in ToSet(CustomKeys), HasColon(key)
    PROVE  /\ JsonRequest(key) \in Request /\ Fits(JsonRequest(key))
           /\ Key(JsonRequest(key)) = key
<1>1. key \in Text /\ Len(key) < 256
  <2>1. CustomKeys \in Seq(Text) /\ \A k \in ToSet(CustomKeys) : Len(k) < 256
    BY ExchangeAssumption
  <2>2. PICK i \in DOMAIN CustomKeys : key = CustomKeys[i]
    BY DEF ToSet
  <2>3. i \in 1..Len(CustomKeys)
    BY <2>1, <2>2, LenProperties
  <2> QED
    BY <2>1, <2>2, <2>3, ElementOfSeq
<1>2. /\ split_type_str(key)[1] \in Text /\ split_type_str(key)[2] \in Text
      /\ split_type_str(key)[1] \o <<Colon>> \o split_type_str(key)[2] = key
  BY <1>1, SplitAtColon DEF Text
<1>3. <<>> \in Seq(Byte) /\ FitsWord(Len(<<>>))
  BY StdBodies
<1> DEFINE req == JsonRequest(key)
<1>4. req = [namespace |-> split_type_str(key)[1], request_type |-> split_type_str(key)[2],
             body |-> <<>>]
  BY DEF JsonRequest
<1>5. req \in Request /\ req.body = <<>>
  BY <1>2, <1>3, <1>4 DEF Request
<1>6. Key(req) = key
  <2>1. req.namespace = split_type_str(key)[1] /\ req.request_type = split_type_str(key)[2]
    BY <1>4
  <2> HIDE DEF req
  <2>2. Key(req) = split_type_str(key)[1] \o <<Colon>> \o split_type_str(key)[2]
    BY <2>1 DEF Key
  <2> QED
    BY <1>2, <2>2
<1>7. Fits(req)
  BY <1>1, <1>3, <1>5, <1>6 DEF Fits
<1> QED
  BY <1>5, <1>6, <1>7

\* Each call writes a request the serializer can carry.
LEMMA SendsStep ==
    ASSUME Inv,
           negotiate_protocols \/ ping \/ get_server_port \/ send_raw
    PROVE  Inv'
<1>1. CASE negotiate_protocols
  <2> DEFINE c == [op |-> "protocols"]
             req == Std(Protocols, join(my))
  <2>1. Send(c, req) /\ wrote = <<>>
    BY <1>1 DEF negotiate_protocols
  <2>2. req \in Request /\ Fits(req)
    BY OwnRequests
  <2>3. c.op = "protocols"
    OBVIOUS
  <2> HIDE DEF c, req
  <2>4. /\ TypeInv' /\ StreamInv' /\ OwnAnswer' /\ NegotiatedServed'
        /\ Len(wrote') = Len(wrote) + 1 /\ wrote'[Len(wrote')] = req
        /\ call' = c /\ stage' = "open" /\ got' < Len(wrote')
    BY <2>1, <2>2, SendStep
  <2>5. Len(wrote') = 1
    <3>1. Len(wrote) = 0
      BY <2>1, EmptySeq
    <3> QED
      BY <2>4, <3>1
  <2>6. CallInv'
    BY <2>3, <2>4, <2>5 DEF CallInv, Wrote, req
  <2> QED
    BY <2>4, <2>6 DEF Inv
<1>2. CASE ping
  <2> DEFINE c == [op |-> "ping"]
             req == Std(Ping, <<66>>)
  <2>1. Send(c, req)
    BY <1>2 DEF ping
  <2>2. req \in Request /\ Fits(req)
    BY OwnRequests
  <2>3. c.op = "ping"
    OBVIOUS
  <2> HIDE DEF c, req
  <2>4. /\ TypeInv' /\ StreamInv' /\ OwnAnswer' /\ NegotiatedServed'
        /\ Len(wrote') = Len(wrote) + 1 /\ wrote'[Len(wrote')] = req
        /\ call' = c /\ stage' = "open" /\ got' < Len(wrote')
    BY <2>1, <2>2, SendStep
  <2>5. Connected'
    BY <1>2, <2>1 DEF ping, Send, Connected
  <2>6. CallInv'
    BY <2>3, <2>4, <2>5 DEF CallInv, Wrote, req
  <2> QED
    BY <2>4, <2>6 DEF Inv
<1>3. CASE get_server_port
  <2> DEFINE c == [op |-> "server_port"]
             req == Std(ServerPort, <<>>)
  <2>1. Send(c, req)
    BY <1>3 DEF get_server_port
  <2>2. req \in Request /\ Fits(req)
    BY OwnRequests
  <2>3. c.op = "server_port"
    OBVIOUS
  <2> HIDE DEF c, req
  <2>4. /\ TypeInv' /\ StreamInv' /\ OwnAnswer' /\ NegotiatedServed'
        /\ Len(wrote') = Len(wrote) + 1 /\ wrote'[Len(wrote')] = req
        /\ call' = c /\ stage' = "open" /\ got' < Len(wrote')
    BY <2>1, <2>2, SendStep
  <2>5. Connected'
    BY <1>3, <2>1 DEF get_server_port, Send, Connected
  <2>6. CallInv'
    BY <2>3, <2>4, <2>5 DEF CallInv, Wrote, req
  <2> QED
    BY <2>4, <2>6 DEF Inv
<1>4. CASE send_raw
  <2> DEFINE c == [op |-> "raw"]
  <2>1. PICK req \in RawRequest : Send(c, req)
    BY <1>4 DEF send_raw
  <2>2. req \in Request /\ Fits(req)
    BY ExchangeAssumption
  <2>3. c.op = "raw"
    OBVIOUS
  <2> HIDE DEF c
  <2>4. /\ TypeInv' /\ StreamInv' /\ OwnAnswer' /\ NegotiatedServed'
        /\ Len(wrote') = Len(wrote) + 1 /\ wrote'[Len(wrote')] = req
        /\ call' = c /\ stage' = "open" /\ got' < Len(wrote')
    BY <2>1, <2>2, SendStep
  <2>5. Connected'
    BY <1>4, <2>1 DEF send_raw, Send, Connected
  <2>6. CallInv'
    BY <2>3, <2>4, <2>5 DEF CallInv, Wrote
  <2> QED
    BY <2>4, <2>6 DEF Inv
<1> QED
  BY <1>1, <1>2, <1>3, <1>4

\* The keys that are negotiated, and those of the center that the guest has too.
LEMMA CustomNegotiated ==
    ASSUME Inv, Connected, NEW key \in ToSet(CustomKeys)
    PROVE  ensure_negotiated(key) <=> key \in ToSet(custom)
<1>1. negotiated = Those(my, ToSet(my) \cap ToSet(Standard \o custom))
  BY DEF Inv, NegotiatedServed
<1>2. custom \in Seq(Text) /\ CustomKeys \in Seq(Text) /\ Standard \in Seq(Text) /\ my \in Seq(Text)
  <2>1. custom \in Seq(Text) /\ CustomKeys \in Seq(Text)
    BY ExchangeAssumption DEF Inv, TypeInv
  <2>2. Standard \in Seq(Text)
    BY StandardKeys
  <2> HIDE DEF Standard
  <2>3. Standard \o CustomKeys \in Seq(Text)
    BY <2>1, <2>2, ConcatProperties
  <2> QED
    BY <2>1, <2>2, <2>3 DEF my
<1>3. \A s \in Seq(Text) : \A k : k \in ToSet(s) <=> \E i \in 1..Len(s) : s[i] = k
  BY LenProperties DEF ToSet
<1>4. \A s, t \in Seq(Text) : ToSet(s \o t) = ToSet(s) \cup ToSet(t)
  <2> SUFFICES ASSUME NEW s \in Seq(Text), NEW t \in Seq(Text)
               PROVE  ToSet(s \o t) = ToSet(s) \cup ToSet(t)
    OBVIOUS
  <2>1. /\ s \o t \in Seq(Text) /\ Len(s \o t) = Len(s) + Len(t)
        /\ \A i \in 1..(Len(s) + Len(t)) :
              (s \o t)[i] = IF i <= Len(s) THEN s[i] ELSE t[i - Len(s)]
    BY ConcatProperties
  <2>2. Len(s) \in Nat /\ Len(t) \in Nat
    BY LenProperties
  <2>3. ASSUME NEW k \in ToSet(s \o t) PROVE k \in ToSet(s) \cup ToSet(t)
    <3>1. PICK i \in 1..(Len(s) + Len(t)) : (s \o t)[i] = k
      BY <1>3, <2>1
    <3>2. CASE i <= Len(s)
      BY <1>3, <2>1, <2>2, <3>1, <3>2
    <3>3. CASE ~(i <= Len(s))
      <4>1. i - Len(s) \in 1..Len(t) /\ t[i - Len(s)] = k
        BY <2>1, <2>2, <3>1, <3>3
      <4> QED
        BY <1>3, <4>1
    <3> QED
      BY <3>2, <3>3
  <2>4. ASSUME NEW k \in ToSet(s) PROVE k \in ToSet(s \o t)
    <3>1. PICK i \in 1..Len(s) : s[i] = k
      BY <1>3
    <3>2. i \in 1..(Len(s) + Len(t)) /\ (s \o t)[i] = k
      BY <2>1, <2>2, <3>1
    <3> QED
      BY <1>3, <2>1, <3>2
  <2>5. ASSUME NEW k \in ToSet(t) PROVE k \in ToSet(s \o t)
    <3>1. PICK i \in 1..Len(t) : t[i] = k
      BY <1>3
    <3>2. Len(s) + i \in 1..(Len(s) + Len(t)) /\ ~(Len(s) + i <= Len(s)) /\ (Len(s) + i) - Len(s) = i
      BY <2>2
    <3>3. (s \o t)[Len(s) + i] = k
      BY <2>1, <3>1, <3>2
    <3> QED
      BY <1>3, <2>1, <3>2, <3>3
  <2> QED
    BY <2>3, <2>4, <2>5
<1>5. key \in ToSet(my) /\ key \notin ToSet(Standard)
  <2>1. ToSet(CustomKeys) \cap ToSet(Standard) = {}
    BY KeysAssumption
  <2>2. ToSet(my) = ToSet(Standard) \cup ToSet(CustomKeys)
    <3> HIDE DEF Standard
    <3> QED
      BY <1>2, <1>4 DEF my
  <2> QED
    BY <2>1, <2>2
<1>6. ToSet(Standard \o custom) = ToSet(Standard) \cup ToSet(custom)
  BY <1>2, <1>4
<1> DEFINE T == ToSet(my) \cap ToSet(Standard \o custom)
<1>7. ToSet(Those(my, T)) = ToSet(my) \cap T
  <2> HIDE DEF T
  <2>1. my \in Seq(Text)
    BY <1>2
  <2> QED
    BY <2>1, ThoseKeys
<1>8. ensure_negotiated(key) <=> key \in ToSet(negotiated)
  <2>1. DOMAIN negotiated = 1..Len(negotiated)
    BY LenProperties DEF Inv, TypeInv
  <2> QED
    BY <2>1 DEF ensure_negotiated, ToSet
<1> QED
  BY <1>1, <1>5, <1>6, <1>7, <1>8

\* A custom protocol's call is refused, or writes its request.
LEMMA JsonStep ==
    ASSUME Inv, send_json
    PROVE  Inv'
<1>1. PICK key \in ToSet(CustomKeys) :
        IF ~ensure_negotiated(key) THEN Refused([op |-> "json", of |-> key, value |-> NotNegotiated])
        ELSE IF ~HasColon(key) THEN Refused([op |-> "json", of |-> key, value |-> Error])
        ELSE Send([op |-> "json", of |-> key], JsonRequest(key))
  BY DEF send_json
<1>2. Connected
  BY DEF send_json
<1>3. ensure_negotiated(key) <=> key \in ToSet(custom)
  BY <1>2, CustomNegotiated
<1>4. Error # NotNegotiated
  BY KeysAssumption
<1>5. ASSUME NEW e \in {NotNegotiated, Error}, Refused([op |-> "json", of |-> key, value |-> e]),
             e = NotNegotiated <=> key \notin ToSet(custom),
             e = Error => ~HasColon(key)
      PROVE  Inv'
  <2> DEFINE r == [op |-> "json", of |-> key, value |-> e]
  <2>1. r.op = "json" /\ r.of = key /\ r.value = e
    OBVIOUS
  <2>2. /\ returned' = r
        /\ UNCHANGED <<custom, port, negotiated, call, up, inbox, down, taken, wrote, served, got, stage>>
    BY <1>5 DEF Refused, center, pipes
  <2> HIDE DEF r
  <2>3. TypeInv'
    BY <2>2 DEF Inv, TypeInv
  <2>4. StreamInv'
    <3>1. Replies' = Replies
      BY <2>2 DEF Replies, Answer
    <3> QED
      BY <2>2, <3>1 DEF Inv, StreamInv
  <2>5. CallInv'
    BY <2>2 DEF Inv, CallInv, Wrote, ensure_negotiated, Connected
  <2>6. OwnAnswer'
    BY <2>1, <2>2 DEF OwnAnswer
  <2>7. NegotiatedServed'
    <3>1. (Connected =>
              negotiated = Those(my, ToSet(my) \cap ToSet(Standard \o custom)))'
      BY <2>2 DEF Inv, NegotiatedServed, Connected
    <3>2. e \in {NotNegotiated, Error}
      OBVIOUS
    <3> QED
      BY <1>4, <1>5, <2>1, <2>2, <3>1, <3>2 DEF NegotiatedServed
  <2> QED
    BY <2>3, <2>4, <2>5, <2>6, <2>7 DEF Inv
<1>6. CASE ~ensure_negotiated(key)
  <2>1. Refused([op |-> "json", of |-> key, value |-> NotNegotiated])
    BY <1>1, <1>6
  <2> QED
    BY <1>3, <1>4, <1>5, <1>6, <2>1
<1>7. CASE ensure_negotiated(key) /\ ~HasColon(key)
  <2>1. Refused([op |-> "json", of |-> key, value |-> Error])
    BY <1>1, <1>7
  <2> QED
    BY <1>3, <1>4, <1>5, <1>7, <2>1
<1>8. CASE ensure_negotiated(key) /\ HasColon(key)
  <2> DEFINE c == [op |-> "json", of |-> key]
             req == JsonRequest(key)
  <2>1. Send(c, req)
    BY <1>1, <1>8
  <2>2. req \in Request /\ Fits(req)
    BY <1>8, JsonFits
  <2>3. c.op = "json" /\ c.of = key
    OBVIOUS
  <2> HIDE DEF c, req
  <2>4. /\ TypeInv' /\ StreamInv' /\ OwnAnswer' /\ NegotiatedServed'
        /\ Len(wrote') = Len(wrote) + 1 /\ wrote'[Len(wrote')] = req
        /\ call' = c /\ stage' = "open" /\ got' < Len(wrote')
    BY <2>1, <2>2, SendStep
  <2>5. negotiated' = negotiated /\ Connected'
    BY <1>2, <2>1 DEF Send, Connected
  <2>6. CallInv'
    BY <1>8, <2>3, <2>4, <2>5 DEF CallInv, Wrote, ensure_negotiated, req
  <2> QED
    BY <2>4, <2>6 DEF Inv
<1> QED
  BY <1>6, <1>7, <1>8

\* Nothing changes.
LEMMA StutterStep ==
    ASSUME Inv, UNCHANGED vars
    PROVE  Inv'
<1>1. UNCHANGED <<custom, port, negotiated, call, returned, up, inbox, down, taken, wrote, served,
                  got, stage>>
  BY DEF vars, center, pipes
<1>2. Replies' = Replies
  BY <1>1 DEF Replies, Answer
<1> QED
  BY <1>1, <1>2 DEF Inv, TypeInv, StreamInv, CallInv, Wrote, ensure_negotiated, OwnAnswer,
     NegotiatedServed, Connected

\* A call gives up; what is on its way stays there.
LEMMA GiveUpStep ==
    ASSUME Inv, GiveUp
    PROVE  Inv'
<1>1. /\ stage # "lost" /\ call # None /\ call' = None /\ taken' = <<>>
      /\ returned' = Outcome(call, Error)
      /\ stage' = IF taken = <<>> /\ Connected THEN stage ELSE "lost"
      /\ UNCHANGED <<custom, port, negotiated, up, inbox, down, wrote, served, got>>
  BY DEF GiveUp, center
<1>2. Replies' = Replies
  BY <1>1 DEF Replies, Answer
<1>3. stage = "open" /\ got < Len(wrote) /\ Wrote(call, wrote[Len(wrote)])
  BY <1>1 DEF Inv, CallInv
<1>4. TypeInv'
  <2>1. <<>> \in Seq(Byte)
    BY EmptySeq
  <2> QED
    BY <1>1, <2>1 DEF Inv, TypeInv
<1>5. StreamInv'
  <2>1. stage' = "open" => stage = "open" /\ taken = <<>>
    BY <1>1, <1>3
  <2> QED
    BY <1>1, <1>2, <2>1 DEF Inv, StreamInv
<1>6. CallInv'
  BY <1>1 DEF CallInv
<1>7. got' # Len(wrote')
  BY <1>1, <1>3 DEF Inv, TypeInv
<1>8. OwnAnswer'
  BY <1>7 DEF OwnAnswer
<1>9. NegotiatedServed'
  <2>1. (Connected =>
            negotiated = Those(my, ToSet(my) \cap ToSet(Standard \o custom)))'
    BY <1>1 DEF Inv, NegotiatedServed, Connected
  <2>2. ASSUME returned'.op = "json"
        PROVE  returned'.value = NotNegotiated <=> returned'.of \notin ToSet(custom)'
    <3>1. call.op = "json"
      BY <1>1, <2>2 DEF Outcome
    <3>2. call.of \in ToSet(CustomKeys) /\ ensure_negotiated(call.of)
      BY <1>3, <3>1 DEF Wrote
    <3>3. Connected
      BY <3>2, EmptySeq DEF ensure_negotiated, Connected
    <3>4. call.of \in ToSet(custom)
      BY <3>2, <3>3, CustomNegotiated
    <3>5. returned' = [op |-> "json", of |-> call.of, value |-> Error]
      BY <1>1, <3>1 DEF Outcome
    <3>6. returned'.of = call.of /\ returned'.value = Error
      BY <3>5
    <3> QED
      BY <1>1, <3>4, <3>6, KeysAssumption
  <2> QED
    BY <1>7, <2>1, <2>2 DEF NegotiatedServed
<1> QED
  BY <1>4, <1>5, <1>6, <1>8, <1>9 DEF Inv

-----------------------------------------------------------------------------
(* Bytes arrive and the center answers.                                    *)

\* Bytes arrive at either end, which reads no further than it waits for.
LEMMA DeliverStep ==
    ASSUME Inv, Deliver
    PROVE  Inv'
<1>1. /\ TypeInv /\ StreamInv
      /\ served \in Nat /\ got \in Nat /\ got <= served /\ Len(wrote) \in Nat /\ served <= Len(wrote)
      /\ wrote \in Seq(Request) /\ inbox \in Seq(Byte) /\ up \in Seq(Byte)
      /\ taken \in Seq(Byte) /\ down \in Seq(Byte)
  BY LenProperties DEF Inv, TypeInv
<1>2. ASSUME NEW k \in 1..Len(up), stage = "open",
             \A j \in 0..(k - 1) : ~RequestReady(inbox \o SubSeq(up, 1, j)),
             inbox' = inbox \o SubSeq(up, 1, k), up' = SubSeq(up, k + 1, Len(up)),
             UNCHANGED <<center, negotiated, call, returned, down, taken, wrote, served, got, stage>>
      PROVE  Inv'
  <2>1. UNCHANGED <<custom, port, negotiated, call, returned, down, taken, wrote, served, got, stage>>
    BY <1>2 DEF center
  <2>2. Framed(inbox \o up, Frames(wrote), served, Len(wrote))
    BY <1>1 DEF StreamInv
  <2>3. inbox # <<>> => served < Len(wrote) /\ Len(inbox) <= Len(Frames(wrote)[served + 1])
    BY <1>1 DEF StreamInv
  <2>4. ASSUME served < Len(wrote), NEW j \in 0..(k - 1)
        PROVE  inbox \o SubSeq(up, 1, j) # Frames(wrote)[served + 1]
    <3> DEFINE req == wrote[served + 1]
    <3>1. served + 1 \in 1..Len(wrote)
      BY <1>1, <2>4
    <3>2. req \in Request /\ Fits(req)
      BY <1>1, <3>1, ElementOfSeq DEF TypeInv
    <3>3. Frames(wrote)[served + 1] = serialize_request(req)
      BY <3>1 DEF Frames
    <3> HIDE DEF req
    <3>4. RequestReady(serialize_request(req))
      BY <3>2, ReadFacts
    <3> QED
      BY <1>2, <3>3, <3>4
  <2> DEFINE x == inbox \o SubSeq(up, 1, k)
             y == SubSeq(up, k + 1, Len(up))
  <2>5. /\ x \in Seq(Byte) /\ y \in Seq(Byte)
        /\ Framed(x \o y, Frames(wrote), served, Len(wrote))
        /\ served < Len(wrote) /\ Len(x) <= Len(Frames(wrote)[served + 1])
    BY <1>1, <2>2, <2>3, <2>4, Arrives
  <2>6. inbox' = x /\ up' = y
    BY <1>2
  <2> HIDE DEF x, y
  <2>7. TypeInv'
    BY <1>1, <2>1, <2>5, <2>6 DEF TypeInv
  <2>8. StreamInv'
    <3>1. Replies' = Replies
      BY <2>1 DEF Replies, Answer
    <3> QED
      BY <1>1, <2>1, <2>5, <2>6, <3>1 DEF StreamInv
  <2>9. CallInv' /\ OwnAnswer' /\ NegotiatedServed'
    BY <2>1 DEF Inv, CallInv, Wrote, ensure_negotiated, OwnAnswer, NegotiatedServed, Connected
  <2> QED
    BY <2>7, <2>8, <2>9 DEF Inv
<1>3. ASSUME NEW k \in 1..Len(down), stage # "lost", call # None,
             \A j \in 0..(k - 1) : ~ResponseReady(taken \o SubSeq(down, 1, j)),
             taken' = taken \o SubSeq(down, 1, k), down' = SubSeq(down, k + 1, Len(down)),
             UNCHANGED <<center, negotiated, call, returned, up, inbox, wrote, served, got, stage>>
      PROVE  Inv'
  <2>1. /\ UNCHANGED <<custom, port, negotiated, call, returned, up, inbox, wrote, served, got, stage>>
        /\ stage = "open"
    BY <1>1, <1>3 DEF center, TypeInv
  <2>2. Framed(taken \o down, Replies, got, served)
    BY <1>1, <2>1 DEF StreamInv
  <2>3. taken # <<>> => got < served /\ Len(taken) <= Len(Replies[got + 1])
    BY <1>1, <2>1 DEF StreamInv
  <2>4. ASSUME got < served, NEW j \in 0..(k - 1)
        PROVE  taken \o SubSeq(down, 1, j) # Replies[got + 1]
    <3> DEFINE req == wrote[got + 1]
               resp == Answer(Read(req))
    <3>1. got + 1 \in 1..Len(wrote) /\ got + 1 \in 1..served
      BY <1>1, <2>4
    <3>2. req \in Request /\ Fits(req)
      BY <1>1, <3>1, ElementOfSeq DEF TypeInv
    <3>3. Replies[got + 1] = serialize_response(resp)
      BY <3>1 DEF Replies
    <3> HIDE DEF req
    <3>4. resp \in Response /\ FitsWord(Len(resp.body))
      BY <1>1, <3>2, AnswerFits DEF TypeInv
    <3> HIDE DEF resp
    <3>5. ResponseReady(serialize_response(resp))
      BY <3>4, ResponseFacts
    <3> QED
      BY <1>3, <3>3, <3>5
  <2> DEFINE x == taken \o SubSeq(down, 1, k)
             y == SubSeq(down, k + 1, Len(down))
  <2>5. /\ x \in Seq(Byte) /\ y \in Seq(Byte)
        /\ Framed(x \o y, Replies, got, served)
        /\ got < served /\ Len(x) <= Len(Replies[got + 1])
    BY <1>1, <2>2, <2>3, <2>4, Arrives
  <2>6. taken' = x /\ down' = y
    BY <1>3
  <2> HIDE DEF x, y
  <2>7. TypeInv'
    BY <1>1, <2>1, <2>5, <2>6 DEF TypeInv
  <2>8. StreamInv'
    <3>1. Replies' = Replies
      BY <2>1 DEF Replies, Answer
    <3> QED
      BY <1>1, <2>1, <2>5, <2>6, <3>1 DEF StreamInv
  <2>9. CallInv' /\ OwnAnswer' /\ NegotiatedServed'
    BY <2>1 DEF Inv, CallInv, Wrote, ensure_negotiated, OwnAnswer, NegotiatedServed, Connected
  <2> QED
    BY <2>7, <2>8, <2>9 DEF Inv
<1> QED
  BY <1>2, <1>3 DEF Deliver

\* The center answers the request it has read.
LEMMA ServeStep ==
    ASSUME Inv, Serve
    PROVE  Inv'
<1>1. /\ TypeInv /\ StreamInv
      /\ served \in Nat /\ got \in Nat /\ got <= served /\ Len(wrote) \in Nat /\ served <= Len(wrote)
      /\ wrote \in Seq(Request) /\ inbox \in Seq(Byte) /\ up \in Seq(Byte)
      /\ taken \in Seq(Byte) /\ down \in Seq(Byte)
  BY LenProperties DEF Inv, TypeInv
<1>2. stage = "open" /\ RequestReady(inbox) /\ inbox' = <<>>
  BY DEF Serve
<1> DEFINE req == wrote[served + 1]
           read == parse_request(inbox)
           resp == Answer(Read(req))
           f == serialize_response(resp)
<1>3. /\ served < Len(wrote) /\ req \in Request /\ Fits(req)
      /\ inbox = serialize_request(req)
      /\ Framed(up, Frames(wrote), served + 1, Len(wrote))
  BY <1>1, <1>2, CenterReads
<1>4. read = Read(req)
  BY <1>3 DEF Read
<1> HIDE DEF req
<1>5. Read(req) \in Request
  BY <1>3, ReadFacts
<1>6. read # Error
  BY <1>4, <1>5, ExchangeAssumption
<1>7. /\ down' = down \o f /\ served' = served + 1
      /\ UNCHANGED <<custom, port, negotiated, call, returned, up, taken, wrote, got, stage>>
  BY <1>4, <1>6 DEF Serve, center
<1> HIDE DEF read
<1>8. resp \in Response /\ FitsWord(Len(resp.body))
  BY <1>1, <1>3, AnswerFits DEF TypeInv
<1> HIDE DEF resp
<1>9. f \in Seq(Byte)
  BY <1>8, ResponseFacts
<1> HIDE DEF f
<1>10. TypeInv'
  <2>1. down \o f \in Seq(Byte) /\ <<>> \in Seq(Byte)
    BY <1>1, <1>9, ConcatProperties, EmptySeq
  <2>2. served' \in 0..Len(wrote') /\ got' \in 0..served'
    BY <1>1, <1>3, <1>7
  <2> QED
    BY <1>1, <1>2, <1>7, <2>1, <2>2 DEF TypeInv
<1>11. \A i \in 1..served : Replies'[i] = Replies[i]
  <2>1. TypeInv /\ UNCHANGED center /\ served' \in Nat /\ served <= served'
        /\ \A i \in 1..served : wrote'[i] = wrote[i]
    BY <1>1, <1>7 DEF center
  <2> QED
    BY <2>1, RepliesStay
<1>12. Replies'[served + 1] = f
  <2>1. PICK n : n = served + 1
    OBVIOUS
  <2>2. n \in 1..served' /\ wrote' = wrote
    BY <1>1, <1>7, <2>1
  <2>3. Replies'[n] = serialize_response(Answer(Read(wrote[n]))')
    BY <2>2 DEF Replies
  <2>4. Answer(Read(wrote[n]))' = Answer(Read(wrote[n]))
    BY <1>7 DEF Answer
  <2>5. req = wrote[n]
    BY <2>1 DEF req
  <2> QED
    BY <2>1, <2>3, <2>4, <2>5 DEF f, resp
<1>13. StreamInv'
  <2>1. Framed(inbox' \o up', Frames(wrote'), served', Len(wrote'))
    <3>1. inbox' \o up' = up
      BY <1>1, <1>2, <1>7, ConcatEmptySeq
    <3> QED
      BY <1>3, <1>7, <3>1
  <2>2. Framed(taken \o down, Replies, got, served)
    BY <1>1, <1>2 DEF StreamInv
  <2>3. \A i \in (got + 1)..served : Replies'[i] = Replies[i]
    BY <1>1, <1>11
  <2>4. Framed(taken \o down, Replies', got, served)
    BY <2>2, <2>3, FramedSame
  <2>5. Framed((taken \o down) \o f, Replies', got, served + 1)
    BY <1>1, <1>9, <1>12, <2>4, FramedAppend
  <2>6. (taken \o down) \o f = taken \o (down \o f)
    <3>1. taken \in Seq(Byte) /\ down \in Seq(Byte) /\ f \in Seq(Byte)
      BY <1>1, <1>9
    <3> QED
      BY <3>1, BytesAssociative, Zenon
  <2>7. Framed(taken' \o down', Replies', got', served')
    BY <1>7, <2>5, <2>6
  <2>8. ASSUME taken # <<>> PROVE got < served' /\ Len(taken) <= Len(Replies'[got + 1])
    <3>1. got < served /\ Len(taken) <= Len(Replies[got + 1])
      BY <1>1, <1>2, <2>8 DEF StreamInv
    <3>2. got + 1 \in 1..served /\ got < served'
      BY <1>1, <1>7, <3>1
    <3> QED
      BY <1>11, <3>1, <3>2
  <2> QED
    BY <1>2, <1>7, <2>1, <2>7, <2>8 DEF StreamInv
<1>14. CallInv' /\ OwnAnswer' /\ NegotiatedServed'
  BY <1>7 DEF Inv, CallInv, Wrote, ensure_negotiated, OwnAnswer, NegotiatedServed, Connected
<1> QED
  BY <1>10, <1>13, <1>14 DEF Inv

-----------------------------------------------------------------------------
(* A call returns.                                                         *)

\* What the center answers to each request.
LEMMA AnswerTo ==
    ASSUME NEW sent \in Request, Fits(sent), custom \in Supported
    PROVE  LET key == Key(sent)
               resp == Answer(Read(sent))
               echo == utf8_bytes(ascii_bytes(key))
           IN  /\ key = Ping => resp = OkWith(sent.body)
               /\ key = Protocols => resp = OkWith(join(Standard \o custom))
               /\ key = ServerPort => resp = OkWith(u16_bytes(port))
               /\ key \notin {Ping, Protocols, ServerPort} =>
                    /\ resp \in {OkWith(echo), Refusal(echo)}
                    /\ ascii_bytes(key) \in ToSet(custom) => resp = OkWith(echo)
<1> DEFINE key == Key(sent)
           read == Read(sent)
           k == Key(read)
<1>1. key \in Text /\ k = ascii_bytes(key) /\ read.body = sent.body
  BY ReadFacts
<1>2. /\ k = Ping <=> key = Ping
      /\ k = Protocols <=> key = Protocols
      /\ k = ServerPort <=> key = ServerPort
  BY <1>1, StandardKeys
<1>3. Ping # Protocols /\ Ping # ServerPort /\ Protocols # ServerPort
  BY StandardKeys
<1>4. k \in ToSet(custom) => k # Ping /\ k # Protocols /\ k # ServerPort
  <2>1. ToSet(custom) \cap ToSet(Standard) = {}
    BY KeysAssumption
  <2>2. {Ping, Protocols, ServerPort} \subseteq ToSet(Standard)
    BY StandardKeys
  <2> QED
    BY <2>1, <2>2
<1>5. Answer(read) = CASE k = Ping -> OkWith(read.body)
                       [] k = Protocols -> OkWith(join(Standard \o custom))
                       [] k = ServerPort -> OkWith(u16_bytes(port))
                       [] k \in ToSet(custom) -> OkWith(utf8_bytes(k))
                       [] OTHER -> Refusal(utf8_bytes(k))
  BY DEF Answer, Handle
<1> HIDE DEF key, k, read
<1>6. ASSUME key = Ping PROVE Answer(read) = OkWith(sent.body)
  <2>1. k = Ping
    BY <1>2, <1>6
  <2>2. Answer(read) = OkWith(read.body)
    BY <1>4, <1>3, <1>5, <2>1
  <2> QED
    BY <1>1, <2>2
<1>7. ASSUME key = Protocols PROVE Answer(read) = OkWith(join(Standard \o custom))
  <2>1. k # Ping /\ k = Protocols
    BY <1>2, <1>3, <1>7
  <2> QED
    BY <1>4, <1>3, <1>5, <2>1
<1>8. ASSUME key = ServerPort PROVE Answer(read) = OkWith(u16_bytes(port))
  <2>1. k # Ping /\ k # Protocols /\ k = ServerPort
    BY <1>2, <1>3, <1>8
  <2> QED
    BY <1>4, <1>3, <1>5, <2>1
<1>9. key \notin {Ping, Protocols, ServerPort} =>
        /\ Answer(read) \in {OkWith(utf8_bytes(k)), Refusal(utf8_bytes(k))}
        /\ k \in ToSet(custom) => Answer(read) = OkWith(utf8_bytes(k))
  BY <1>2, <1>5
<1> QED
  BY <1>1, <1>6, <1>7, <1>8, <1>9 DEF key, read

\* What a call makes of a response.
LEMMA ResultIs ==
    ASSUME NEW resp
    PROVE  /\ call.op \notin {"ping", "server_port", "json"} =>
                Result(call, resp) = [op |-> call.op, value |-> resp]
           /\ call.op = "ping" => Result(call, resp) = [op |-> "ping", value |-> (resp.status = 0)]
           /\ call.op = "server_port" /\ resp.status = 0 /\ Len(resp.body) = 2 =>
                Result(call, resp) = [op |-> "server_port", value |-> resp.body[1] * 256 + resp.body[2]]
           /\ call.op = "json" /\ resp.status = 0 =>
                Result(call, resp) = [op |-> "json", of |-> call.of, value |-> resp.body]
           /\ call.op = "json" /\ resp.status # 0 =>
                Result(call, resp) = [op |-> "json", of |-> call.of, value |-> Error]
BY DEF Result, Outcome

\* The list of the guest's keys is a sequence of them.
LEMMA MyKeys ==
    /\ my \in Seq(Text) /\ my \in Seq(ToSet(my))
    /\ \A T : Those(my, T) \in Seq(ToSet(my))
<1>1. my \in Seq(Text)
  <2>1. CustomKeys \in Seq(Text)
    BY ExchangeAssumption
  <2>2. Standard \in Seq(Text)
    BY StandardKeys
  <2> HIDE DEF Standard
  <2>3. Standard \o CustomKeys \in Seq(Text)
    BY <2>1, <2>2, ConcatProperties
  <2> QED
    BY <2>3 DEF my
<1> DEFINE S == ToSet(my)
<1>2. my \in Seq(S)
  <2>1. Len(my) \in Nat /\ my \in [1..Len(my) -> Text] /\ DOMAIN my = 1..Len(my)
    BY <1>1, LenProperties
  <2>2. \A i \in 1..Len(my) : my[i] \in S
    BY <2>1 DEF ToSet
  <2> HIDE DEF S
  <2>3. my \in [1..Len(my) -> S]
    BY <2>1, <2>2
  <2> QED
    BY <2>1, <2>3, SeqDef
<1>3. ASSUME NEW T PROVE Those(my, T) \in Seq(S)
  <2> HIDE DEF S
  <2> QED
    BY <1>2, ThoseKeys
<1> QED
  BY <1>1, <1>2, <1>3

\* What is negotiated with the center's announcement.
LEMMA Announced ==
    ASSUME custom \in Supported
    PROVE  negotiate(my, split(join(Standard \o custom)))
                = Those(my, ToSet(my) \cap ToSet(Standard \o custom))
<1> DEFINE theirs == Standard \o custom
<1>1. custom \in Seq(Text) /\ Len(custom) \in Nat
  <2>1. custom \in Seq(Text)
    BY ExchangeAssumption
  <2> QED
    BY <2>1, LenProperties
<1>2. \A i \in 1..Len(custom) : NoNul(custom[i])
  <2>1. \A key \in ToSet(custom) : NoNul(key)
    BY KeysAssumption
  <2>2. DOMAIN custom = 1..Len(custom)
    BY <1>1, LenProperties
  <2>3. \A i \in 1..Len(custom) : custom[i] \in ToSet(custom)
    BY <2>2 DEF ToSet
  <2> QED
    BY <2>1, <2>3
<1>3. \A i \in 1..6 : NoNul(Standard[i])
  <2>1. ASSUME NEW x \in 1..6 PROVE NoNul(<<99, Colon, x>>)
    BY DEF NoNul, Nul, Colon
  <2>2. \A i \in 1..6 : Standard[i] = <<99, Colon, i>>
    BY DEF Standard, Ping, Protocols, ServerPort
  <2> QED
    BY <2>1, <2>2
<1>4. Standard \in Seq(Text) /\ Len(Standard) = 6
  BY StandardKeys
<1> DEFINE s == Standard
<1>5. s \in Seq(Text) /\ Len(s) = 6 /\ \A i \in 1..6 : NoNul(s[i])
  BY <1>3, <1>4
<1> HIDE DEF s
<1>6. /\ s \o custom \in Seq(Text) /\ Len(s \o custom) = 6 + Len(custom)
      /\ \A i \in 1..(6 + Len(custom)) :
            (s \o custom)[i] = IF i <= 6 THEN s[i] ELSE custom[i - 6]
  <2>1. /\ s \o custom \in Seq(Text) /\ Len(s \o custom) = Len(s) + Len(custom)
        /\ \A i \in 1..(Len(s) + Len(custom)) :
              (s \o custom)[i] = IF i <= Len(s) THEN s[i] ELSE custom[i - Len(s)]
    BY <1>1, <1>5, ConcatProperties, Zenon
  <2> QED
    BY <1>5, <2>1
<1>7. ASSUME NEW i \in 1..Len(s \o custom) PROVE NoNul((s \o custom)[i])
  <2>1. CASE i <= 6
    BY <1>1, <1>5, <1>6, <2>1
  <2>2. CASE ~(i <= 6)
    <3>1. i - 6 \in 1..Len(custom) /\ (s \o custom)[i] = custom[i - 6]
      BY <1>1, <1>6, <2>2
    <3> QED
      BY <1>2, <3>1
  <2> QED
    BY <2>1, <2>2
<1>8. theirs \in Seq(Text) /\ Len(theirs) # 0 /\ \A i \in 1..Len(theirs) : NoNul(theirs[i])
  BY <1>1, <1>6, <1>7 DEF s
<1>9. my \in Seq(Text)
  BY MyKeys
<1> HIDE DEF theirs
<1>10. negotiate(my, split(join(theirs))) = Those(my, ToSet(my) \cap ToSet(theirs))
  BY <1>8, <1>9, NegotiateIsCommon
<1> QED
  BY <1>10 DEF theirs

\* A call returns with the response it has read.
LEMMA ReturnStep ==
    ASSUME Inv, Return
    PROVE  Inv'
<1>1. /\ TypeInv /\ StreamInv
      /\ served \in Nat /\ got \in Nat /\ got <= served /\ Len(wrote) \in Nat /\ served <= Len(wrote)
      /\ wrote \in Seq(Request) /\ down \in Seq(Byte) /\ custom \in Supported /\ port \in Minecraft
  BY LenProperties DEF Inv, TypeInv
<1>2. call # None /\ ResponseReady(taken)
  BY DEF Return
<1>3. stage = "open" /\ got < Len(wrote) /\ Wrote(call, wrote[Len(wrote)])
  BY <1>2 DEF Inv, CallInv
<1> DEFINE resp == parse_response(taken)
           sent == wrote[got + 1]
           key == Key(sent)
<1>4. /\ got < served /\ sent \in Request /\ Fits(sent) /\ resp = Answer(Read(sent))
      /\ Framed(down, Replies, got + 1, served)
  BY <1>1, <1>2, <1>3, GuestReads
<1>5. /\ negotiated' = IF call.op = "protocols" /\ resp.status = 0
                       THEN negotiate(my, split(resp.body)) ELSE negotiated
      /\ returned' = Result(call, resp)
      /\ taken' = <<>> /\ got' = got + 1 /\ call' = None
      /\ UNCHANGED <<custom, port, up, inbox, down, wrote, served, stage>>
  BY DEF Return, center
<1>6. got + 1 = Len(wrote) => sent = wrote[Len(wrote)]
  OBVIOUS
<1> DEFINE echo == utf8_bytes(ascii_bytes(key))
<1>7. /\ key = Ping => resp = OkWith(sent.body)
      /\ key = Protocols => resp = OkWith(join(Standard \o custom))
      /\ key = ServerPort => resp = OkWith(u16_bytes(port))
      /\ key \notin {Ping, Protocols, ServerPort} =>
           /\ resp \in {OkWith(echo), Refusal(echo)}
           /\ ascii_bytes(key) \in ToSet(custom) => resp = OkWith(echo)
  BY <1>1, <1>4, AnswerTo
<1>8. \A body : /\ OkWith(body).status = 0 /\ OkWith(body).body = body
                /\ Refusal(body).status = 255 /\ Refusal(body).body = body
  BY DEF OkWith, Refusal
<1> HIDE DEF resp, sent, echo, key
<1>9. call.op = "protocols" =>
        negotiated' = Those(my, ToSet(my) \cap ToSet(Standard \o custom))
  <2> SUFFICES ASSUME call.op = "protocols"
               PROVE  negotiated' = Those(my, ToSet(my) \cap ToSet(Standard \o custom))
    OBVIOUS
  <2>1. Len(wrote) = 1 /\ wrote[Len(wrote)] = Std(Protocols, join(my))
    BY <1>3 DEF Wrote
  <2>2. got + 1 = Len(wrote)
    BY <1>1, <1>4, <2>1
  <2>3. sent = Std(Protocols, join(my))
    BY <1>6, <2>1, <2>2
  <2>4. key = Protocols
    BY <2>3, OwnRequests DEF key
  <2>5. resp = OkWith(join(Standard \o custom))
    BY <1>7, <2>4
  <2>6. resp.status = 0 /\ resp.body = join(Standard \o custom)
    BY <1>8, <2>5
  <2>7. negotiated' = negotiate(my, split(join(Standard \o custom)))
    BY <1>5, <2>6
  <2> QED
    BY <1>1, <2>7, Announced
<1>10. call.op # "protocols" => negotiated' = negotiated
  BY <1>5
<1>11. TypeInv'
  <2>1. negotiated' \in Seq(ToSet(my))
    BY <1>1, <1>9, <1>10, MyKeys DEF TypeInv
  <2>2. served' \in 0..Len(wrote') /\ got' \in 0..served'
    BY <1>1, <1>4, <1>5
  <2>3. <<>> \in Seq(Byte)
    BY EmptySeq
  <2> QED
    BY <1>1, <1>5, <2>1, <2>2, <2>3 DEF TypeInv
<1>12. StreamInv'
  <2>1. Replies' = Replies
    BY <1>5 DEF Replies, Answer
  <2>2. taken' \o down' = down
    BY <1>1, <1>5, ConcatEmptySeq
  <2>3. Framed(taken' \o down', Replies', got', served')
    BY <1>4, <1>5, <2>1, <2>2
  <2>4. inbox' = inbox /\ up' = up /\ wrote' = wrote /\ served' = served /\ taken' = <<>>
    BY <1>5
  <2> QED
    BY <1>1, <2>3, <2>4 DEF StreamInv
<1>13. CallInv'
  BY <1>5 DEF CallInv
<1>14. OwnAnswer'
  <2>1. SUFFICES ASSUME got + 1 = Len(wrote)
                 PROVE  OwnAnswer'
    BY <1>5 DEF OwnAnswer
  <2>2. Wrote(call, sent)
    BY <1>3, <1>6, <2>1
  <2>3. CASE call.op = "ping"
    <3>1. key = Ping
      BY <2>2, <2>3, OwnRequests DEF Wrote, key
    <3>2. resp.status = 0
      BY <1>7, <1>8, <3>1
    <3>3. returned' = [op |-> "ping", value |-> TRUE]
      BY <1>5, <2>3, <3>2, ResultIs
    <3> QED
      BY <3>3 DEF OwnAnswer
  <2>4. CASE call.op = "server_port"
    <3>1. key = ServerPort
      BY <2>2, <2>4, OwnRequests DEF Wrote, key
    <3>2. resp.status = 0 /\ resp.body = u16_bytes(port)
      BY <1>7, <1>8, <3>1
    <3>3. Len(u16_bytes(port)) = 2 /\ u16_bytes(port)[1] * 256 + u16_bytes(port)[2] = port
      BY <1>1, PortBytes, ExchangeAssumption
    <3>4. returned' = [op |-> "server_port", value |-> port]
      BY <1>5, <2>4, <3>2, <3>3, ResultIs
    <3> QED
      BY <1>5, <3>4 DEF OwnAnswer
  <2>5. CASE call.op = "raw"
    <3>1. returned' = [op |-> "raw", value |-> resp]
      BY <1>5, <2>5, ResultIs
    <3>2. resp.body = CASE key = Ping -> sent.body
                        [] key = Protocols -> join(Standard \o custom)
                        [] key = ServerPort -> u16_bytes(port)
                        [] OTHER -> echo
      <4>1. Ping # Protocols /\ Ping # ServerPort /\ Protocols # ServerPort
        BY StandardKeys
      <4> QED
        BY <1>7, <1>8, <4>1
    <3>3. wrote'[got'] = sent
      BY <1>5 DEF sent
    <3>4. join(Standard \o custom)' = join(Standard \o custom) /\ u16_bytes(port)' = u16_bytes(port)
      BY <1>5
    <3> QED
      BY <3>1, <3>2, <3>3, <3>4 DEF OwnAnswer, key, echo
  <2>6. CASE call.op \in {"protocols", "json"}
    <3>1. returned'.op = call.op
      BY <1>5, <2>6 DEF Result, Outcome
    <3> QED
      BY <2>6, <3>1 DEF OwnAnswer
  <2> QED
    BY <2>2, <2>3, <2>4, <2>5, <2>6 DEF Wrote
<1>15. NegotiatedServed'
  <2>1. (Connected =>
            negotiated = Those(my, ToSet(my) \cap ToSet(Standard \o custom)))'
    BY <1>5, <1>9, <1>10 DEF Inv, NegotiatedServed, Connected
  <2>2. ASSUME returned'.op = "json"
        PROVE  /\ returned'.value = NotNegotiated <=> returned'.of \notin ToSet(custom)'
               /\ got' = Len(wrote') /\ returned'.value = Error =>
                        ~HasColon(returned'.of) \/ ascii_bytes(returned'.of) # returned'.of
               /\ got' = Len(wrote') /\ returned'.value \notin {NotNegotiated, Error} =>
                        returned'.value = utf8_bytes(ascii_bytes(returned'.of))
    <3>1. call.op = "json"
      <4>1. returned'.op = call.op
        BY <1>3, <1>5, ResultIs DEF Wrote, Result, Outcome
      <4> QED
        BY <2>2, <4>1
    <3> DEFINE of == call.of
    <3>2. /\ of \in ToSet(CustomKeys) /\ ensure_negotiated(of) /\ HasColon(of)
          /\ wrote[Len(wrote)] = JsonRequest(of)
      BY <1>3, <3>1 DEF Wrote
    <3> HIDE DEF of
    <3>3. Connected
      BY <3>2, EmptySeq DEF ensure_negotiated, Connected
    <3>4. of \in ToSet(custom)
      BY <3>2, <3>3, CustomNegotiated
    <3>5. resp \in Response
      BY <1>1, <1>4, AnswerFits
    <3>6. resp.body \in Seq(Byte)
      BY <3>5 DEF Response
    <3>7. /\ returned'.of = of
          /\ resp.status = 0 => returned'.value = resp.body
          /\ resp.status # 0 => returned'.value = Error
      BY <1>5, <3>1, ResultIs DEF of
    <3>8. returned'.value # NotNegotiated
      BY <3>6, <3>7, KeysAssumption
    <3>9. ASSUME got + 1 = Len(wrote)
          PROVE  /\ ascii_bytes(of) = of => returned'.value = utf8_bytes(ascii_bytes(of))
                 /\ returned'.value # Error => returned'.value = utf8_bytes(ascii_bytes(of))
      <4>1. key = of
        <5>1. sent = JsonRequest(of)
          BY <1>6, <3>2, <3>9
        <5> QED
          BY <3>2, <5>1, JsonFits DEF key
      <4>2. of \notin {Ping, Protocols, ServerPort}
        <5>1. ToSet(CustomKeys) \cap ToSet(Standard) = {}
          BY KeysAssumption
        <5>2. {Ping, Protocols, ServerPort} \subseteq ToSet(Standard)
          BY StandardKeys
        <5> QED
          BY <3>2, <5>1, <5>2
      <4>3. /\ resp \in {OkWith(echo), Refusal(echo)}
            /\ ascii_bytes(of) \in ToSet(custom) => resp = OkWith(echo)
            /\ echo = utf8_bytes(ascii_bytes(of))
        BY <1>7, <4>1, <4>2 DEF echo
      <4> QED
        BY <1>8, <3>4, <3>7, <4>3
    <3>10. returned'.value = Error => got + 1 # Len(wrote) \/ ascii_bytes(of) # of
      <4>1. SUFFICES ASSUME returned'.value = Error, got + 1 = Len(wrote), ascii_bytes(of) = of
                     PROVE  FALSE
        OBVIOUS
      <4>2. returned'.value = utf8_bytes(of)
        BY <3>9, <4>1
      <4>3. utf8_bytes(of) \in Seq(Byte)
        <5>1. of \in Text
          <6>1. CustomKeys \in Seq(Text)
            BY ExchangeAssumption
          <6>2. PICK i \in DOMAIN CustomKeys : of = CustomKeys[i]
            BY <3>2 DEF ToSet
          <6>3. i \in 1..Len(CustomKeys)
            BY <6>1, <6>2, LenProperties
          <6> QED
            BY <6>1, <6>2, <6>3, ElementOfSeq
        <5> QED
          BY <5>1, Utf8Bytes
      <4> QED
        BY <4>1, <4>2, <4>3, KeysAssumption
    <3> QED
      BY <1>5, <3>4, <3>7, <3>8, <3>9, <3>10
  <2> QED
    BY <2>1, <2>2 DEF NegotiatedServed
<1> QED
  BY <1>11, <1>12, <1>13, <1>14, <1>15 DEF Inv

-----------------------------------------------------------------------------
(* The theorems of a connection.                                           *)

\* Every step of a connection keeps all of it.
LEMMA InvStep == Inv /\ [Next]_vars => Inv'
<1> SUFFICES ASSUME Inv, [Next]_vars PROVE Inv'
  OBVIOUS
<1>1. CASE negotiate_protocols \/ ping \/ get_server_port \/ send_raw
  BY <1>1, SendsStep
<1>2. CASE send_json
  BY <1>2, JsonStep
<1>3. CASE Deliver
  BY <1>3, DeliverStep
<1>4. CASE Serve
  BY <1>4, ServeStep
<1>5. CASE Return
  BY <1>5, ReturnStep
<1>6. CASE GiveUp
  BY <1>6, GiveUpStep
<1>7. CASE UNCHANGED vars
  BY <1>7, StutterStep
<1> QED
  BY <1>1, <1>2, <1>3, <1>4, <1>5, <1>6, <1>7 DEF Next

\* So all of it holds at all times.
LEMMA ExchangeInvariant == Spec => []Inv
BY InvInit, InvStep, PTL DEF Spec

\* Whatever pieces the bytes arrive in and whichever calls give up, handle_client
\* reads the requests that the guest wrote, each once and in order, and never one
\* it cannot read: deserialize_request_async against serialize_request.
THEOREM ReadsWhatWasWritten == Spec => []CenterInStep
<1>1. Inv => CenterInStep
  BY ReadsInStep DEF Inv
<1> QED
  BY <1>1, ExchangeInvariant, PTL

\* As long as no call gave up, send_request returns the center's answer to the
\* request it wrote and not that to another.
THEOREM ReturnsOwnAnswer == Spec => []OwnAnswer
<1>1. Inv => OwnAnswer
  BY DEF Inv
<1> QED
  BY <1>1, ExchangeInvariant, PTL

\* negotiate_protocols finds exactly what both have, ensure_negotiated refuses
\* exactly the custom keys the center does not have, and those it lets through
\* that are ASCII and have a colon are answered by their handlers.
THEOREM ServesWhatIsNegotiated == Spec => []NegotiatedServed
<1>1. Inv => NegotiatedServed
  BY DEF Inv
<1> QED
  BY <1>1, ExchangeInvariant, PTL

-----------------------------------------------------------------------------
(* A connection implements the calls of module Calls.                      *)

\* A request is written: the call asks.
LEMMA SendAsks ==
    ASSUME Inv, NEW ask \in Asks, Send(ask.call, ask.req)
    PROVE  Promise!Ask
<1>1. /\ stage = "open" /\ call = None /\ call' = ask.call /\ wrote' = Append(wrote, ask.req)
      /\ returned' = None /\ center' = center /\ UNCHANGED <<served, got, stage>>
  BY DEF Send
<1> QED
  BY <1>1 DEF Promise!Ask

\* Each call of the guest is one that asks, or is refused without asking.
LEMMA CallsAsk ==
    ASSUME Inv, negotiate_protocols \/ ping \/ get_server_port \/ send_raw \/ send_json
    PROVE  Promise!Ask \/ Promise!Refuse
<1>1. \A ask \in Asks : Send(ask.call, ask.req) => Promise!Ask
  BY SendAsks
<1>2. \A c, req : [call |-> c, req |-> req] \in Asks /\ Send(c, req) => Promise!Ask
  <2> SUFFICES ASSUME NEW c, NEW req, [call |-> c, req |-> req] \in Asks, Send(c, req)
               PROVE  Promise!Ask
    OBVIOUS
  <2> DEFINE ask == [call |-> c, req |-> req]
  <2>1. ask.call = c /\ ask.req = req /\ ask \in Asks
    OBVIOUS
  <2> HIDE DEF ask
  <2>2. Send(ask.call, ask.req)
    BY <2>1
  <2> QED
    BY <1>1, <2>1, <2>2
<1>3. CASE negotiate_protocols
  <2>1. Send([op |-> "protocols"], Std(Protocols, join(my)))
    BY <1>3 DEF negotiate_protocols
  <2>2. [call |-> [op |-> "protocols"], req |-> Std(Protocols, join(my))] \in Asks
    BY DEF Asks
  <2> QED
    BY <1>2, <2>1, <2>2
<1>4. CASE ping
  <2>1. Send([op |-> "ping"], Std(Ping, <<66>>))
    BY <1>4 DEF ping
  <2>2. [call |-> [op |-> "ping"], req |-> Std(Ping, <<66>>)] \in Asks
    BY DEF Asks
  <2> QED
    BY <1>2, <2>1, <2>2
<1>5. CASE get_server_port
  <2>1. Send([op |-> "server_port"], Std(ServerPort, <<>>))
    BY <1>5 DEF get_server_port
  <2>2. [call |-> [op |-> "server_port"], req |-> Std(ServerPort, <<>>)] \in Asks
    BY DEF Asks
  <2> QED
    BY <1>2, <2>1, <2>2
<1>6. CASE send_raw
  <2>1. PICK req \in RawRequest : Send([op |-> "raw"], req)
    BY <1>6 DEF send_raw
  <2>2. [call |-> [op |-> "raw"], req |-> req] \in Asks
    BY DEF Asks
  <2> QED
    BY <1>2, <2>1, <2>2
<1>7. CASE send_json
  <2>1. PICK key \in ToSet(CustomKeys) :
          IF ~ensure_negotiated(key) THEN Refused([op |-> "json", of |-> key, value |-> NotNegotiated])
          ELSE IF ~HasColon(key) THEN Refused([op |-> "json", of |-> key, value |-> Error])
          ELSE Send([op |-> "json", of |-> key], JsonRequest(key))
    BY <1>7 DEF send_json
  <2>2. \A r : r \in Refusals /\ Refused(r) => Promise!Refuse
    BY DEF Refused, pipes, Promise!Refuse
  <2>3. \A e \in {NotNegotiated, Error} : [op |-> "json", of |-> key, value |-> e] \in Refusals
    BY DEF Refusals
  <2>4. HasColon(key) => [call |-> [op |-> "json", of |-> key], req |-> JsonRequest(key)] \in Asks
    BY DEF Asks
  <2>5. CASE ~ensure_negotiated(key) \/ ~HasColon(key)
    BY <2>1, <2>2, <2>3, <2>5
  <2>6. CASE ensure_negotiated(key) /\ HasColon(key)
    BY <1>2, <2>1, <2>4, <2>6
  <2> QED
    BY <2>5, <2>6
<1> QED
  BY <1>3, <1>4, <1>5, <1>6, <1>7

\* The center's answer is one it owes.
LEMMA ServeAnswers ==
    ASSUME Inv, Serve
    PROVE  Promise!Answer
<1>1. TypeInv /\ StreamInv /\ stage = "open" /\ RequestReady(inbox)
  BY DEF Inv, Serve
<1>2. served < Len(wrote) /\ wrote[served + 1] \in Request /\ Fits(wrote[served + 1])
      /\ inbox = serialize_request(wrote[served + 1])
  BY <1>1, CenterReads
<1>3. parse_request(inbox) # Error
  <2>1. Read(wrote[served + 1]) \in Request
    BY <1>2, ReadFacts
  <2> QED
    BY <1>2, <2>1, ExchangeAssumption DEF Read
<1>4. /\ served' = served + 1
      /\ center' = center /\ UNCHANGED <<call, returned, wrote, got, stage>>
  BY <1>3 DEF Serve
<1> QED
  BY <1>2, <1>4 DEF Promise!Answer

\* What is read for a call is the answer to the first request whose answer was not.
LEMMA ReturnReturns ==
    ASSUME Inv, Return
    PROVE  Promise!Return
<1>1. TypeInv /\ StreamInv /\ CallInv /\ call # None /\ ResponseReady(taken)
  BY DEF Inv, Return
<1>2. stage = "open"
  BY <1>1 DEF CallInv
<1> DEFINE sent == wrote[got + 1]
<1>3. /\ got < served /\ sent \in Request /\ Fits(sent)
      /\ parse_response(taken) = Answer(Read(sent))
  BY <1>1, <1>2, GuestReads
<1>4. Answer(Read(sent)) = Reply(center, sent)
  <2> HIDE DEF sent
  <2>1. Key(Read(sent)) = ascii_bytes(Key(sent)) /\ Read(sent).body = sent.body
    BY <1>3, ReadFacts
  <2>2. center[1] = custom /\ center[2] = port
    BY DEF center
  <2> QED
    BY <2>1, <2>2 DEF Answer, Reply
<1>5. /\ returned' = Result(call, parse_response(taken)) /\ got' = got + 1 /\ call' = None
      /\ center' = center /\ UNCHANGED <<wrote, served, stage>>
  BY DEF Return
<1> QED
  BY <1>1, <1>3, <1>4, <1>5 DEF Promise!Return

\* A call gives up within an answer only if the center has answered, and the
\* connection is given up with it only then or when it was not negotiated.
LEMMA GiveUpGivesUp ==
    ASSUME Inv, GiveUp
    PROVE  Promise!GiveUp
<1>1. TypeInv /\ StreamInv /\ CallInv /\ call # None
  BY DEF Inv, GiveUp
<1>2. stage = "open" /\ (Len(wrote) = 1 \/ Connected)
  BY <1>1 DEF CallInv
<1>3. taken # <<>> => got < served
  BY <1>1, <1>2 DEF StreamInv
<1>4. /\ returned' = GivenUp(call) /\ call' = None
      /\ stage' = IF taken = <<>> /\ Connected THEN stage ELSE "lost"
      /\ center' = center /\ UNCHANGED <<wrote, served, got>>
  BY DEF GiveUp, GivenUp
<1>5. CASE taken = <<>> /\ Connected
  BY <1>1, <1>4, <1>5 DEF Promise!GiveUp
<1>6. CASE ~(taken = <<>> /\ Connected)
  <2>1. stage' = "lost" /\ (got < served \/ Len(wrote) = 1)
    BY <1>2, <1>3, <1>4, <1>6
  <2> QED
    BY <1>1, <1>4, <2>1 DEF Promise!GiveUp
<1> QED
  BY <1>5, <1>6

\* The frames of the serializer, the pipes and the handlers together are calls
\* answered in the order they were asked: a step on the connection is a step of
\* Calls or leaves it unchanged.
THEOREM ConnectionImplementsCalls == Spec => AnswersInOrder
<1>1. Init => Promise!CallsInit
  BY DEF Init, Promise!CallsInit
<1>2. Inv /\ [Next]_vars => [Promise!CallsNext]_Promise!callVars
  <2> SUFFICES ASSUME Inv, [Next]_vars PROVE [Promise!CallsNext]_Promise!callVars
    OBVIOUS
  <2>1. CASE negotiate_protocols \/ ping \/ get_server_port \/ send_raw \/ send_json
    BY <2>1, CallsAsk DEF Promise!CallsNext
  <2>2. CASE Deliver
    BY <2>2 DEF Deliver, Promise!callVars
  <2>3. CASE Serve
    BY <2>3, ServeAnswers DEF Promise!CallsNext
  <2>4. CASE Return
    BY <2>4, ReturnReturns DEF Promise!CallsNext
  <2>5. CASE GiveUp
    BY <2>5, GiveUpGivesUp DEF Promise!CallsNext
  <2>6. CASE UNCHANGED vars
    BY <2>6 DEF vars, Promise!callVars
  <2> QED
    BY <2>1, <2>2, <2>3, <2>4, <2>5, <2>6 DEF Next
<1> QED
  BY <1>1, <1>2, ExchangeInvariant, PTL DEF Spec, AnswersInOrder, Promise!CallsSpec

-----------------------------------------------------------------------------
(* Room codes.                                                             *)

\* encode_8 gives eight characters that the pattern of room codes allows.
LEMMA Encoded ==
    ASSUME NEW d \in [1..8 -> 0..255]
    PROVE  /\ encode8(d) \in Seq(Nat) /\ Len(encode8(d)) = 8
           /\ \A i \in 1..8 : encode8(d)[i] \in PatternChar
<1>1. ASSUME NEW i \in 1..8 PROVE encode8(d)[i] \in PatternChar
  <2> DEFINE k == d[i] % 34
  <2>1. k \in 0..33
    <3>1. d[i] \in Int
      OBVIOUS
    <3>2. \A x \in Int : x % 34 \in 0..33
      OBVIOUS
    <3> QED
      BY <3>1, <3>2, Zenon
  <2>2. encode8(d)[i] = Chars[k]
    BY DEF encode8
  <2> HIDE DEF k
  <2>3. Chars[k] \in PatternChar
    BY <2>1 DEF Chars, PatternChar
  <2> QED
    BY <2>2, <2>3
<1>2. \A x \in PatternChar : x \in Nat
  BY DEF PatternChar
<1>3. encode8(d) \in [1..8 -> Nat]
  BY <1>1, <1>2 DEF encode8
<1> DEFINE e == encode8(d)
<1> HIDE DEF encode8
<1>4. PICK n \in Nat : n = 8
  OBVIOUS
<1>5. e \in [1..n -> Nat] /\ DOMAIN e = 1..n
  BY <1>3, <1>4
<1> HIDE DEF e
<1>6. e \in Seq(Nat)
  BY <1>5, SeqDef
<1>7. Len(e) = n
  <2>1. Len(e) \in Nat /\ DOMAIN e = 1..Len(e)
    BY <1>6, LenProperties
  <2> QED
    BY <1>5, <2>1
<1> QED
  BY <1>1, <1>4, <1>6, <1>7 DEF e

\* The characters of a group.
LEMMA Groups ==
    ASSUME NEW text \in Seq(Nat), Len(text) = 21, NEW g \in 1..4
    PROVE  /\ Group(text, g) \in Seq(Nat) /\ Len(Group(text, g)) = 4
           /\ \A i \in 1..4 : Group(text, g)[i] = text[5 * g - 3 + i]
<1> DEFINE lo == 5 * g - 2
           hi == 5 * g + 1
<1>1. lo \in 1..18 /\ hi = lo + 3
  OBVIOUS
<1>2. 5 * g - 3 = lo - 1
  OBVIOUS
<1>3. Group(text, g) = SubSeq(text, lo, hi)
  BY DEF Group
<1> HIDE DEF lo, hi
<1>4. ASSUME NEW j \in lo..hi PROVE text[j] \in Nat
  <2>1. j \in 1..Len(text)
    BY <1>1
  <2> QED
    BY <2>1, ElementOfSeq
<1>5. /\ SubSeq(text, lo, hi) \in Seq(Nat)
      /\ Len(SubSeq(text, lo, hi)) = IF lo <= hi THEN hi - lo + 1 ELSE 0
      /\ \A i \in 1..(hi - lo + 1) : SubSeq(text, lo, hi)[i] = text[lo + i - 1]
  BY <1>1, <1>4, SubSeqProperties
<1>6. Len(SubSeq(text, lo, hi)) = 4
  BY <1>1, <1>5
<1>7. ASSUME NEW i \in 1..4 PROVE SubSeq(text, lo, hi)[i] = text[5 * g - 3 + i]
  <2>1. i \in 1..(hi - lo + 1) /\ lo + i - 1 = (lo - 1) + i
    BY <1>1
  <2> QED
    BY <1>2, <1>5, <2>1
<1> QED
  BY <1>3, <1>5, <1>6, <1>7

\* A code and the text it was read from stand for each other: two texts that
\* the pattern accepts and that lead to the same network are the same text.
THEOREM NetworkIsText ==
    ASSUME NEW a \in Seq(Nat), NEW b \in Seq(Nat), Matches(a), Matches(b),
           network(parse(a)) = network(parse(b))
    PROVE  a = b
<1>1. Len(a) = 21 /\ Len(b) = 21
  BY DEF Matches
<1>2. /\ Group(a, 1) \o <<Dash>> \o Group(a, 2) = Group(b, 1) \o <<Dash>> \o Group(b, 2)
      /\ Group(a, 3) \o <<Dash>> \o Group(a, 4) = Group(b, 3) \o <<Dash>> \o Group(b, 4)
  BY DEF network, parse
<1>3. \A g \in 1..4 : /\ Group(a, g) \in Seq(Nat) /\ Len(Group(a, g)) = 4
                        /\ Group(b, g) \in Seq(Nat) /\ Len(Group(b, g)) = 4
  BY <1>1, Groups
<1> DEFINE x == <<Dash>>
           N == Nat
<1>4. x \in Seq(N)
  BY DEF Dash
<1>5. Len(x) = 1
  OBVIOUS
<1>6. /\ Group(a, 1) \o x \o Group(a, 2) = Group(b, 1) \o x \o Group(b, 2)
       /\ Group(a, 3) \o x \o Group(a, 4) = Group(b, 3) \o x \o Group(b, 4)
  BY <1>2
<1> HIDE DEF x, N
<1>7. \A g \in 1..4 : \A i \in 1..4 : Group(a, g)[i] = Group(b, g)[i]
  <2>1. \A i \in 1..4 : Group(a, 1)[i] = Group(b, 1)[i] /\ Group(a, 2)[i] = Group(b, 2)[i]
    <3> DEFINE p == Group(a, 1)
               q == Group(a, 2)
               r == Group(b, 1)
               s == Group(b, 2)
               left == p \o x \o q
               right == r \o x \o s
    <3>1. p \in Seq(N) /\ q \in Seq(N) /\ r \in Seq(N) /\ s \in Seq(N)
      BY <1>3 DEF N
    <3>2. left = right
      BY <1>6
    <3>3. Len(p) = 4 /\ Len(q) = 4 /\ Len(r) = 4 /\ Len(s) = 4
      BY <1>3
    <3> HIDE DEF p, q, r, s
    <3>4. /\ \A i \in 1..Len(p) : left[i] = p[i]
          /\ \A i \in 1..Len(q) : left[Len(p) + Len(x) + i] = q[i]
      BY <1>4, <3>1, MiddlePart
    <3>5. /\ \A i \in 1..Len(r) : right[i] = r[i]
          /\ \A i \in 1..Len(s) : right[Len(r) + Len(x) + i] = s[i]
      BY <1>4, <3>1, MiddlePart
    <3> HIDE DEF left, right
    <3>6. \A i \in 1..4 : p[i] = r[i] /\ q[i] = s[i]
      BY <1>5, <3>2, <3>3, <3>4, <3>5
    <3> QED
      BY <3>6 DEF p, q, r, s
  <2>2. \A i \in 1..4 : Group(a, 3)[i] = Group(b, 3)[i] /\ Group(a, 4)[i] = Group(b, 4)[i]
    <3> DEFINE p == Group(a, 3)
               q == Group(a, 4)
               r == Group(b, 3)
               s == Group(b, 4)
               left == p \o x \o q
               right == r \o x \o s
    <3>1. p \in Seq(N) /\ q \in Seq(N) /\ r \in Seq(N) /\ s \in Seq(N)
      BY <1>3 DEF N
    <3>2. left = right
      BY <1>6
    <3>3. Len(p) = 4 /\ Len(q) = 4 /\ Len(r) = 4 /\ Len(s) = 4
      BY <1>3
    <3> HIDE DEF p, q, r, s
    <3>4. /\ \A i \in 1..Len(p) : left[i] = p[i]
          /\ \A i \in 1..Len(q) : left[Len(p) + Len(x) + i] = q[i]
      BY <1>4, <3>1, MiddlePart
    <3>5. /\ \A i \in 1..Len(r) : right[i] = r[i]
          /\ \A i \in 1..Len(s) : right[Len(r) + Len(x) + i] = s[i]
      BY <1>4, <3>1, MiddlePart
    <3> HIDE DEF left, right
    <3>6. \A i \in 1..4 : p[i] = r[i] /\ q[i] = s[i]
      BY <1>5, <3>2, <3>3, <3>4, <3>5
    <3> QED
      BY <3>6 DEF p, q, r, s
  <2> QED
    BY <2>1, <2>2
<1>8. ASSUME NEW g \in 1..4, NEW i \in 1..4 PROVE a[5 * g - 3 + i] = b[5 * g - 3 + i]
  <2>1. \A j \in 1..4 : Group(a, g)[j] = a[5 * g - 3 + j]
    BY <1>1, Groups
  <2>2. \A j \in 1..4 : Group(b, g)[j] = b[5 * g - 3 + j]
    BY <1>1, Groups
  <2> QED
    BY <1>7, <2>1, <2>2
<1>9. \A g \in 1..3 : a[5 * g + 2] = b[5 * g + 2]
  BY DEF Matches
<1>10. a[1] = b[1] /\ a[2] = b[2]
  <2>1. SubSeq(a, 1, 2) = SubSeq(b, 1, 2)
    BY DEF Matches
  <2>2. \A j \in 1..2 : a[j] \in Nat /\ b[j] \in Nat
    <3>1. \A j \in 1..2 : j \in 1..Len(a) /\ j \in 1..Len(b)
      BY <1>1
    <3> QED
      BY <3>1, ElementOfSeq
  <2>3. /\ \A i \in 1..(2 - 1 + 1) : SubSeq(a, 1, 2)[i] = a[1 + i - 1]
        /\ \A i \in 1..(2 - 1 + 1) : SubSeq(b, 1, 2)[i] = b[1 + i - 1]
    BY <2>2, SubSeqProperties
  <2>4. SubSeq(a, 1, 2)[1] = a[1] /\ SubSeq(a, 1, 2)[2] = a[2]
    BY <2>3
  <2>5. SubSeq(b, 1, 2)[1] = b[1] /\ SubSeq(b, 1, 2)[2] = b[2]
    BY <2>3
  <2> QED
    BY <2>1, <2>4, <2>5
<1>11. ASSUME NEW j \in 1..21 PROVE a[j] = b[j]
  <2>1. CASE j \in 1..2
    BY <1>10, <2>1
  <2>2. CASE j \in {7, 12, 17}
    <3>1. \E g \in 1..3 : j = 5 * g + 2
      BY <2>2
    <3> QED
      BY <1>9, <3>1
  <2>3. CASE j \notin 1..2 /\ j \notin {7, 12, 17}
    <3>1. \E g \in 1..4 : \E i \in 1..4 : j = 5 * g - 3 + i
      <4>1. CASE j \in 3..6
        <5>1. j - 2 \in 1..4 /\ j = 5 * 1 - 3 + (j - 2)
          BY <4>1
        <5> QED
          BY <5>1
      <4>2. CASE j \in 8..11
        <5>1. j - 7 \in 1..4 /\ j = 5 * 2 - 3 + (j - 7)
          BY <4>2
        <5> QED
          BY <5>1
      <4>3. CASE j \in 13..16
        <5>1. j - 12 \in 1..4 /\ j = 5 * 3 - 3 + (j - 12)
          BY <4>3
        <5> QED
          BY <5>1
      <4>4. CASE j \in 18..21
        <5>1. j - 17 \in 1..4 /\ j = 5 * 4 - 3 + (j - 17)
          BY <4>4
        <5> QED
          BY <5>1
      <4> QED
        BY <2>3, <4>1, <4>2, <4>3, <4>4
    <3> QED
      BY <1>8, <3>1
  <2> QED
    BY <2>1, <2>2, <2>3
<1> QED
  BY <1>1, <1>11, SeqEqual

\* The character that the pattern allows at a place of a code, and the start of a
\* text that has such characters at its first n places.
Allowed(j, c) ==
    IF j = 1 THEN c = 85
    ELSE IF j = 2 THEN c = 47
    ELSE IF j \in {7, 12, 17} THEN c = Dash
    ELSE c \in PatternChar

Begins(text, n) == text \in Seq(Nat) /\ Len(text) = n /\ \A j \in 1..n : Allowed(j, text[j])

\* A text with as many characters more as follow, if they are allowed there.
LEMMA BeginsLonger ==
    ASSUME NEW n \in Nat, NEW text, Begins(text, n), NEW part \in Seq(Nat), NEW m \in Nat,
           Len(part) = m, \A i \in 1..m : Allowed(n + i, part[i])
    PROVE  Begins(text \o part, n + m)
<1> DEFINE N == Nat
           all == text \o part
<1>1. text \in Seq(N) /\ part \in Seq(N)
  BY DEF Begins
<1> HIDE DEF N
<1>2. /\ all \in Seq(N) /\ Len(all) = Len(text) + Len(part)
      /\ \A i \in 1..(Len(text) + Len(part)) :
            all[i] = IF i <= Len(text) THEN text[i] ELSE part[i - Len(text)]
  BY <1>1, ConcatProperties
<1> HIDE DEF all
<1>3. Len(text) = n /\ \A j \in 1..n : Allowed(j, text[j])
  BY DEF Begins
<1>4. ASSUME NEW j \in 1..(n + m) PROVE Allowed(j, all[j])
  <2>1. CASE j <= n
    <3>1. all[j] = text[j] /\ j \in 1..n
      BY <1>2, <1>3, <2>1
    <3> QED
      BY <1>3, <3>1
  <2>2. CASE ~(j <= n)
    <3>1. all[j] = part[j - n] /\ j - n \in 1..m /\ n + (j - n) = j
      BY <1>2, <1>3, <2>2
    <3>2. Allowed(n + (j - n), part[j - n])
      BY <3>1
    <3> QED
      BY <3>1, <3>2
  <2> QED
    BY <2>1, <2>2
<1> QED
  BY <1>2, <1>3, <1>4 DEF Begins, all, N

\* Half of an encoded part.
LEMMA Quarter ==
    ASSUME NEW d \in [1..8 -> 0..255], NEW k \in {1, 5}
    PROVE  /\ SubSeq(encode8(d), k, k + 3) \in Seq(Nat)
           /\ Len(SubSeq(encode8(d), k, k + 3)) = 4
           /\ \A i \in 1..4 : SubSeq(encode8(d), k, k + 3)[i] \in PatternChar
<1> DEFINE e == encode8(d)
           l == k + 3
<1>1. \A i \in 1..8 : e[i] \in PatternChar /\ e[i] \in Nat
  <2>1. \A i \in 1..8 : e[i] \in PatternChar
    BY Encoded
  <2>2. \A x \in PatternChar : x \in Nat
    BY DEF PatternChar
  <2> QED
    BY <2>1, <2>2
<1>2. \A i \in k..l : i \in 1..8
  OBVIOUS
<1>3. k \in Int /\ l \in Int /\ k <= l /\ l - k + 1 = 4
  OBVIOUS
<1>4. \A i \in 1..4 : k + i - 1 \in 1..8
  OBVIOUS
<1> HIDE DEF e, l
<1>5. \A i \in k..l : e[i] \in Nat
  BY <1>1, <1>2
<1>6. /\ SubSeq(e, k, l) \in Seq(Nat)
      /\ Len(SubSeq(e, k, l)) = IF k <= l THEN l - k + 1 ELSE 0
      /\ \A i \in 1..(l - k + 1) : SubSeq(e, k, l)[i] = e[k + i - 1]
  BY <1>3, <1>5, SubSeqProperties
<1>7. \A i \in 1..4 : SubSeq(e, k, l)[i] \in PatternChar
  BY <1>1, <1>3, <1>4, <1>6
<1> QED
  BY <1>3, <1>6, <1>7 DEF e, l

\* What generate() writes is a text that its own pattern accepts.
THEOREM CodeIsReadable ==
    ASSUME NEW d \in [1..8 -> 0..255], NEW e \in [1..8 -> 0..255]
    PROVE  /\ write(encode8(d), encode8(e)) \in Seq(Nat)
           /\ Matches(write(encode8(d), encode8(e)))
<1> DEFINE a == SubSeq(encode8(d), 1, 4)
           b == SubSeq(encode8(d), 5, 8)
           c == SubSeq(encode8(e), 1, 4)
           f == SubSeq(encode8(e), 5, 8)
           dash == <<Dash>>
           text == write(encode8(d), encode8(e))
           Four(q) == /\ q \in Seq(Nat) /\ Len(q) = 4
                      /\ \A i \in 1..4 : q[i] \in PatternChar
<1>1. Four(a) /\ Four(c)
  <2>1. 1 \in {1, 5} /\ 1 + 3 = 4
    OBVIOUS
  <2> QED
    BY <2>1, Quarter
<1>2. Four(b) /\ Four(f)
  <2>1. 5 \in {1, 5} /\ 5 + 3 = 8
    OBVIOUS
  <2> QED
    BY <2>1, Quarter
<1>3. dash \in Seq(Nat) /\ Len(dash) = 1 /\ dash[1] = Dash
  BY DEF Dash
<1>4. Begins(Prefix, 2)
  BY DEF Begins, Allowed, Prefix
<1>5. text = Prefix \o a \o dash \o b \o dash \o c \o dash \o f
  BY DEF write
<1> HIDE DEF a, b, c, f, dash, text
<1>6. ASSUME NEW p, NEW n \in {2, 7, 12, 17}, Begins(p, n), NEW q, Four(q)
      PROVE  Begins(p \o q, n + 4)
  <2>1. \A i \in 1..4 : Allowed(n + i, q[i])
    BY <1>6 DEF Allowed
  <2> QED
    BY <1>6, <2>1, BeginsLonger
<1>7. ASSUME NEW p, NEW n \in {6, 11, 16}, Begins(p, n)
      PROVE  Begins(p \o dash, n + 1)
  <2>1. ASSUME NEW i \in 1..1 PROVE Allowed(n + i, dash[i])
    <3>1. n + i \in {7, 12, 17} /\ n + i # 1 /\ n + i # 2 /\ dash[i] = Dash
      BY <1>3
    <3> QED
      BY <3>1, Zenon DEF Allowed
  <2> QED
    BY <1>3, <1>7, <2>1, BeginsLonger
<1> HIDE DEF Four
<1>8. ASSUME NEW p, Begins(p, 2), NEW q, Four(q) PROVE Begins(p \o q, 6)
  <2>1. 2 + 4 = 6
    OBVIOUS
  <2> QED
    BY <1>6, <1>8, <2>1, Zenon
<1>9. ASSUME NEW p, Begins(p, 7), NEW q, Four(q) PROVE Begins(p \o q, 11)
  <2>1. 7 + 4 = 11
    OBVIOUS
  <2> QED
    BY <1>6, <1>9, <2>1, Zenon
<1>10. ASSUME NEW p, Begins(p, 12), NEW q, Four(q) PROVE Begins(p \o q, 16)
  <2>1. 12 + 4 = 16
    OBVIOUS
  <2> QED
    BY <1>6, <1>10, <2>1, Zenon
<1>11. ASSUME NEW p, Begins(p, 17), NEW q, Four(q) PROVE Begins(p \o q, 21)
  <2>1. 17 + 4 = 21
    OBVIOUS
  <2> QED
    BY <1>6, <1>11, <2>1, Zenon
<1>12. \A p : /\ Begins(p, 6) => Begins(p \o dash, 7)
              /\ Begins(p, 11) => Begins(p \o dash, 12)
              /\ Begins(p, 16) => Begins(p \o dash, 17)
  <2>1. 6 + 1 = 7 /\ 11 + 1 = 12 /\ 16 + 1 = 17
    OBVIOUS
  <2> QED
    BY <1>7, <2>1, Zenon
<1> HIDE DEF dash
<1>13. Begins(Prefix \o a \o dash \o b \o dash \o c \o dash, 17)
  <2>1. Begins(Prefix \o a, 6)
    BY <1>1, <1>4, <1>8, Zenon
  <2>2. Begins(Prefix \o a \o dash, 7)
    BY <1>12, <2>1, Zenon
  <2>3. Begins(Prefix \o a \o dash \o b, 11)
    BY <1>2, <1>9, <2>2, Zenon
  <2>4. Begins(Prefix \o a \o dash \o b \o dash, 12)
    BY <1>12, <2>3, Zenon
  <2>5. Begins(Prefix \o a \o dash \o b \o dash \o c, 16)
    BY <1>1, <1>10, <2>4, Zenon
  <2> QED
    BY <1>12, <2>5, Zenon
<1>14. Begins(text, 21)
  <2> DEFINE p == Prefix \o a \o dash \o b \o dash \o c \o dash
  <2>1. text = p \o f /\ Begins(p, 17) /\ Four(f)
    BY <1>2, <1>5, <1>13, Zenon
  <2> HIDE DEF p
  <2> QED
    BY <1>11, <2>1, Zenon
<1>15. text \in Seq(Nat) /\ Len(text) = 21 /\ \A j \in 1..21 : Allowed(j, text[j])
  BY <1>14, Zenon DEF Begins
<1>16. SubSeq(text, 1, 2) = Prefix
  <2>1. ASSUME NEW i \in 1..2 PROVE text[i] \in Nat
    <3>1. i \in 1..Len(text)
      BY <1>15
    <3> QED
      BY <1>15, <3>1, ElementOfSeq
  <2>2. /\ SubSeq(text, 1, 2) \in Seq(Nat)
        /\ Len(SubSeq(text, 1, 2)) = IF 1 <= 2 THEN 2 - 1 + 1 ELSE 0
        /\ \A i \in 1..(2 - 1 + 1) : SubSeq(text, 1, 2)[i] = text[1 + i - 1]
    BY <2>1, SubSeqProperties
  <2>3. Len(SubSeq(text, 1, 2)) = 2 /\ \A i \in 1..2 : SubSeq(text, 1, 2)[i] = text[i]
    BY <2>2
  <2>4. text[1] = 85 /\ text[2] = 47
    BY <1>15 DEF Allowed
  <2>5. Prefix \in Seq(Nat) /\ Len(Prefix) = 2 /\ Prefix[1] = 85 /\ Prefix[2] = 47
    BY DEF Prefix
  <2>6. \A i \in 1..2 : SubSeq(text, 1, 2)[i] = Prefix[i]
    BY <2>3, <2>4, <2>5
  <2> HIDE DEF Prefix
  <2> QED
    BY <2>2, <2>3, <2>5, <2>6, SeqEqual
<1>17. ASSUME NEW g \in 1..4, NEW i \in 1..4 PROVE Group(text, g)[i] \in PatternChar
  <2>1. Group(text, g)[i] = text[5 * g - 3 + i]
    BY <1>15, Groups
  <2> DEFINE j == 5 * g - 3 + i
  <2>2. j \in 1..21 /\ j # 1 /\ j # 2 /\ j \notin {7, 12, 17}
    OBVIOUS
  <2>3. Group(text, g)[i] = text[j]
    BY <2>1
  <2> HIDE DEF j
  <2>4. Allowed(j, text[j])
    BY <1>15, <2>2
  <2>5. text[j] \in PatternChar
    BY <2>2, <2>4 DEF Allowed
  <2> QED
    BY <2>3, <2>5
<1>18. ASSUME NEW g \in 1..3 PROVE text[5 * g + 2] = Dash
  <2> DEFINE j == 5 * g + 2
  <2>1. j \in 1..21 /\ j # 1 /\ j # 2 /\ j \in {7, 12, 17}
    OBVIOUS
  <2> HIDE DEF j
  <2>2. Allowed(j, text[j])
    BY <1>15, <2>1
  <2>3. text[j] = Dash
    BY <2>1, <2>2 DEF Allowed
  <2> QED
    BY <2>3 DEF j
<1>19. Matches(text)
  BY <1>15, <1>16, <1>17, <1>18 DEF Matches
<1> QED
  BY <1>15, <1>19 DEF text

-----------------------------------------------------------------------------
(* The way from a code to a connection.                                    *)

\* A text that the pattern accepts is read to a code, another is refused.
LEMMA ReadOrRefused ==
    ASSUME NEW text \in Seq(Nat)
    PROVE  /\ parse(text) = Invalid <=> ~Matches(text)
           /\ Matches(text) => parse(text).raw = text
<1> DEFINE N == Nat
           dash == <<Dash>>
           first == Group(text, 1) \o dash \o Group(text, 2)
           second == Group(text, 3) \o dash \o Group(text, 4)
<1>1. ASSUME Matches(text)
      PROVE  parse(text) # Invalid
  <2>1. Len(text) = 21
    BY <1>1 DEF Matches
  <2>2. \A g \in 1..4 : Group(text, g) \in Seq(N)
    BY <2>1, Groups
  <2>3. dash \in Seq(N)
    BY DEF Dash
  <2> DEFINE a == Group(text, 1)
             b == Group(text, 2)
             c == Group(text, 3)
             d == Group(text, 4)
  <2>4. a \in Seq(N) /\ b \in Seq(N) /\ c \in Seq(N) /\ d \in Seq(N)
    BY <2>2
  <2> HIDE DEF a, b, c, d, dash, N
  <2>5. a \o dash \o b \in Seq(N) /\ c \o dash \o d \in Seq(N)
    BY <2>3, <2>4, MiddlePart
  <2>6. first \in Seq(Nat) /\ second \in Seq(Nat)
    BY <2>5 DEF a, b, c, d, N
  <2>7. parse(text) = [raw |-> text, network_name_part |-> first, secret_part |-> second]
    BY <1>1 DEF parse, dash
  <2> HIDE DEF first, second
  <2> QED
    BY <2>6, <2>7, RoomCodeAssumption
<1> QED
  BY <1>1 DEF parse

\* The room never changes and its code is one that generate() returns.
RoomInv ==
    /\ tcp_port \in TcpPorts
    /\ \E d, e \in Draws : room = parse(write(encode8(d), encode8(e)))

\* What is typed is one of the texts for the room's code and is what the code was
\* read from; other nodes than the center are no centers; and nodes are seen only
\* in the room's network.
WayInv ==
    /\ phase \in {"typing", "refused", "scanning", "waiting", "found", "missing",
                  "connected"}
    /\ ct \in BOOLEAN /\ scans \in 0..MaxScans
    /\ phase \in {"typing", "scanning"} => scans < MaxScans
    /\ phase \in {"typing", "refused"} => found = None
    /\ phase = "typing" => nodes = <<>>
    /\ phase # "typing" =>
        /\ typed \in Typings(room.raw) /\ code = parse(typed)
        /\ phase = "refused" <=> code = Invalid
    /\ nodes \in Seq(Strangers \cup {HostNode})
    /\ nodes # <<>> => network(code) = network(room)
    /\ found # None =>
        typed = room.raw /\ found = [virtual_ip |-> HostIp, port |-> tcp_port]

\* What every step from the code to the end of the connection keeps.
JoinInv == Inv /\ RoomInv /\ WayInv

\* The room's own text is one the pattern accepts.
LEMMA RoomFacts ==
    ASSUME RoomInv
    PROVE  /\ room.raw \in Seq(Nat) /\ Matches(room.raw) /\ room = parse(room.raw)
           /\ Typings(room.raw) \subseteq Seq(Nat)
<1>1. PICK d \in Draws, e \in Draws : room = parse(write(encode8(d), encode8(e)))
  BY DEF RoomInv
<1> DEFINE text == write(encode8(d), encode8(e))
<1>2. d \in [1..8 -> 0..255] /\ e \in [1..8 -> 0..255] /\ Typings(text) \subseteq Seq(Nat)
  BY JoiningAssumption
<1>3. text \in Seq(Nat) /\ Matches(text)
  BY <1>2, CodeIsReadable
<1> HIDE DEF text
<1>4. parse(text).raw = text /\ room = parse(text)
  BY <1>1, <1>3, ReadOrRefused DEF text
<1> QED
  BY <1>2, <1>3, <1>4

\* A code in the room's network was read from the room's own text.
LEMMA TypedIsRaw ==
    ASSUME RoomInv, typed \in Typings(room.raw), parse(typed) # Invalid,
           network(parse(typed)) = network(room)
    PROVE  typed = room.raw
<1>1. /\ room.raw \in Seq(Nat) /\ Matches(room.raw) /\ room = parse(room.raw)
      /\ typed \in Seq(Nat)
  BY RoomFacts
<1>2. Matches(typed)
  BY <1>1, ReadOrRefused
<1> QED
  BY <1>1, <1>2, NetworkIsText

\* The scan finds the center's node if it is there, and nothing else.
LEMMA ScanFinds ==
    ASSUME RoomInv, nodes \in Seq(Strangers \cup {HostNode})
    PROVE  try_parse_center(nodes) =
                IF \E i \in 1..Len(nodes) : nodes[i] = HostNode
                THEN [virtual_ip |-> HostIp, port |-> tcp_port] ELSE None
<1>1. IsCenter(HostNode)
  <2>1. tcp_port \in Nat /\ tcp_port > 1024 /\ tcp_port <= 65535
    BY JoiningAssumption DEF RoomInv
  <2> QED
    BY <2>1 DEF IsCenter, HostNode
<1>2. \A i \in 1..Len(nodes) : IsCenter(nodes[i]) <=> nodes[i] = HostNode
  <2>1. \A i \in 1..Len(nodes) : nodes[i] \in Strangers \cup {HostNode}
    BY ElementOfSeq
  <2>2. \A s \in Strangers : ~IsCenter(s)
    BY JoiningAssumption DEF IsCenter
  <2> QED
    BY <1>1, <2>1, <2>2
<1> DEFINE First(i) == IsCenter(nodes[i]) /\ \A j \in 1..(i - 1) : ~IsCenter(nodes[j])
<1>3. ASSUME \E i \in 1..Len(nodes) : nodes[i] = HostNode
      PROVE  try_parse_center(nodes) = [virtual_ip |-> HostIp, port |-> tcp_port]
  <2> DEFINE S == {i \in 1..Len(nodes) : IsCenter(nodes[i])}
  <2>1. S \in SUBSET Nat /\ S # {}
    BY <1>2, <1>3
  <2> HIDE DEF S
  <2>2. PICK m \in S : \A k \in S : m <= k
    BY <2>1, Least
  <2>3. m \in 1..Len(nodes) /\ First(m)
    <3>1. m \in 1..Len(nodes) /\ IsCenter(nodes[m])
      BY <2>2 DEF S
    <3>2. ASSUME NEW j \in 1..(m - 1) PROVE ~IsCenter(nodes[j])
      <4>1. j \in 1..Len(nodes) /\ ~(m <= j)
        BY <3>1
      <4> QED
        BY <2>2, <4>1 DEF S
    <3> QED
      BY <3>1, <3>2
  <2> DEFINE i == CHOOSE i \in 1..Len(nodes) : First(i)
  <2>4. i \in 1..Len(nodes) /\ First(i)
    <3> HIDE DEF First
    <3> QED
      BY <2>3
  <2>5. \E k \in 1..Len(nodes) : IsCenter(nodes[k])
    BY <2>3
  <2>6. try_parse_center(nodes)
            = [virtual_ip |-> nodes[i].virtual_ip, port |-> nodes[i].number]
    BY <2>5 DEF try_parse_center
  <2> HIDE DEF i
  <2>7. nodes[i] = HostNode
    BY <1>2, <2>4
  <2> QED
    BY <2>6, <2>7 DEF HostNode
<1>4. ASSUME ~\E i \in 1..Len(nodes) : nodes[i] = HostNode
      PROVE  try_parse_center(nodes) = None
  BY <1>2, <1>4 DEF try_parse_center
<1> QED
  BY <1>3, <1>4

\* At the start nothing is typed.
LEMMA JoinInvInit == JoinInit => JoinInv
<1> SUFFICES ASSUME JoinInit PROVE JoinInv
  OBVIOUS
<1>1. Inv
  BY InvInit DEF JoinInit
<1>2. RoomInv
  <2>1. room \in generate(Draws) /\ tcp_port \in TcpPorts
    BY DEF JoinInit
  <2>2. \E d, e \in Draws : room = parse(write(encode8(d), encode8(e)))
    BY <2>1 DEF generate
  <2> QED
    BY <2>1, <2>2 DEF RoomInv
<1>3. WayInv
  <2>1. /\ phase = "typing" /\ nodes = <<>> /\ scans = 0 /\ ct = FALSE /\ found = None
    BY DEF JoinInit
  <2>2. <<>> \in Seq(Strangers \cup {HostNode})
    BY EmptySeq
  <2>3. 0 < MaxScans /\ 0 \in 0..MaxScans
    BY JoiningAssumption
  <2> QED
    BY <2>1, <2>2, <2>3 DEF WayInv
<1> QED
  BY <1>1, <1>2, <1>3 DEF JoinInv

\* Outside the connection nothing of it changes, and the center's room never does.
LEMMA HostStays ==
    ASSUME RoomInv, UNCHANGED host
    PROVE  RoomInv' /\ room' = room /\ tcp_port' = tcp_port /\ HostNode' = HostNode
BY DEF RoomInv, host, HostNode

\* A text is typed and parsed.
LEMMA TypeStep == ASSUME RoomInv, WayInv, Type PROVE WayInv'
<1>1. /\ UNCHANGED host /\ UNCHANGED <<nodes, scans, ct, found>> /\ phase = "typing"
  BY DEF Type
<1>2. room' = room /\ tcp_port' = tcp_port /\ HostNode' = HostNode
  BY <1>1, HostStays
<1>3. PICK text \in Typings(room.raw) :
        /\ typed' = text /\ code' = parse(text)
        /\ phase' = IF parse(text) = Invalid THEN "refused" ELSE "scanning"
  BY DEF Type
<1>4. phase' \in {"refused", "scanning"} /\ (phase' = "refused" <=> code' = Invalid)
  BY <1>3
<1>5. nodes = <<>> /\ found = None /\ scans < MaxScans
  BY <1>1 DEF WayInv
<1> HIDE DEF Type
<1> QED
  BY <1>1, <1>2, <1>3, <1>4, <1>5 DEF WayInv

\* The nodes of the network that was joined become known.
LEMMA NodesStep == ASSUME RoomInv, WayInv, NodesChange PROVE WayInv'
<1>1. /\ UNCHANGED host /\ UNCHANGED <<typed, code, phase, scans, ct, found>> /\ Discovering
  BY DEF NodesChange
<1>2. room' = room /\ tcp_port' = tcp_port /\ HostNode' = HostNode
  BY <1>1, HostStays
<1>3. nodes' \in Seq(Strangers \cup {HostNode}) /\ (nodes' # <<>> => network(code) = network(room))
  <2>1. nodes' \in IF network(code) = network(room)
            THEN {<<>>, <<HostNode>>} \cup {<<s>> : s \in Strangers}
                    \cup {<<s, HostNode>> : s \in Strangers}
            ELSE {<<>>}
    BY DEF NodesChange
  <2> DEFINE S == Strangers \cup {HostNode}
  <2>2. HostNode \in S /\ \A s \in Strangers : s \in S
    OBVIOUS
  <2> HIDE DEF S
  <2>3. /\ <<>> \in Seq(S) /\ <<HostNode>> \in Seq(S)
        /\ \A s \in Strangers : <<s>> \in Seq(S) /\ <<s, HostNode>> \in Seq(S)
    BY <2>2
  <2>4. nodes' \in Seq(S) /\ (nodes' # <<>> => network(code) = network(room))
    BY <2>1, <2>3
  <2> QED
    BY <2>4 DEF S
<1>4. phase # "typing" /\ phase # "refused"
  BY <1>1 DEF Discovering
<1> QED
  BY <1>1, <1>2, <1>3, <1>4 DEF WayInv

\* The token is cancelled.
LEMMA CancelStep == ASSUME RoomInv, WayInv, Cancel PROVE WayInv'
<1>1. /\ UNCHANGED host /\ UNCHANGED <<typed, code, phase, nodes, scans, found>> /\ ct' = TRUE
  BY DEF Cancel
<1>2. room' = room /\ tcp_port' = tcp_port /\ HostNode' = HostNode
  BY <1>1, HostStays
<1> QED
  BY <1>1, <1>2 DEF WayInv

\* A scan, which finds the room's center or nothing.
LEMMA ScanStep == ASSUME RoomInv, WayInv, Scan PROVE WayInv'
<1>1. /\ UNCHANGED host /\ UNCHANGED <<typed, code, nodes, ct>> /\ phase = "scanning"
      /\ found' = try_parse_center(nodes) /\ scans' = scans + 1
      /\ phase' = IF found' = None THEN "waiting" ELSE "found"
  BY DEF Scan
<1>2. room' = room /\ tcp_port' = tcp_port /\ HostNode' = HostNode
  BY <1>1, HostStays
<1>3. /\ nodes \in Seq(Strangers \cup {HostNode})
      /\ nodes # <<>> => network(code) = network(room)
      /\ typed \in Typings(room.raw) /\ code = parse(typed) /\ code # Invalid
      /\ scans \in 0..MaxScans /\ scans < MaxScans /\ ct \in BOOLEAN
  BY <1>1 DEF WayInv
<1>4. found' = IF \E i \in 1..Len(nodes) : nodes[i] = HostNode
                THEN [virtual_ip |-> HostIp, port |-> tcp_port] ELSE None
  BY <1>1, <1>3, ScanFinds
<1>5. ASSUME found' # None
      PROVE  typed = room.raw /\ found' = [virtual_ip |-> HostIp, port |-> tcp_port]
  <2>1. PICK i \in 1..Len(nodes) : nodes[i] = HostNode
    BY <1>4, <1>5
  <2>2. nodes # <<>>
    BY <2>1
  <2>3. network(parse(typed)) = network(room) /\ parse(typed) # Invalid
    BY <1>3, <2>2
  <2>4. typed = room.raw
    BY <1>3, <2>3, TypedIsRaw
  <2> QED
    BY <1>4, <1>5, <2>4
<1>6. scans' \in 0..MaxScans
  BY <1>1, <1>3, JoiningAssumption
<1>7. phase' \in {"waiting", "found"}
  BY <1>1
<1> QED
  BY <1>1, <1>2, <1>3, <1>5, <1>6, <1>7 DEF WayInv

\* The wait between two scans ends.
LEMMA WaitStep == ASSUME RoomInv, WayInv, WaitEnds PROVE WayInv'
<1>1. /\ UNCHANGED host /\ UNCHANGED <<typed, code, nodes, scans, ct, found>> /\ phase = "waiting"
      /\ phase' = "missing" \/ (phase' = "scanning" /\ scans # MaxScans)
  BY DEF WaitEnds
<1>2. room' = room /\ tcp_port' = tcp_port /\ HostNode' = HostNode
  BY <1>1, HostStays
<1>3. phase' = "scanning" => scans < MaxScans
  BY <1>1, JoiningAssumption DEF WayInv
<1> QED
  BY <1>1, <1>2, <1>3 DEF WayInv

\* The guest connects to what it found.
LEMMA ConnectStep == ASSUME RoomInv, WayInv, Connect PROVE WayInv'
<1>1. /\ UNCHANGED host /\ UNCHANGED <<typed, code, found>> /\ phase = "found"
      /\ phase' = "connected" /\ nodes' = <<>> /\ scans' = 0 /\ ct' = FALSE
  BY DEF Connect
<1>2. room' = room /\ tcp_port' = tcp_port /\ HostNode' = HostNode
  BY <1>1, HostStays
<1>3. <<>> \in Seq(Strangers \cup {HostNode})
  BY EmptySeq
<1>4. 0 \in 0..MaxScans
  BY JoiningAssumption
<1> QED
  BY <1>1, <1>2, <1>3, <1>4 DEF WayInv

\* The steps before the connection leave it alone.
LEMMA BeforeConnection ==
    Type \/ NodesChange \/ Cancel \/ Scan \/ WaitEnds \/ Connect => UNCHANGED vars /\ UNCHANGED host
BY Zenon DEF Type, NodesChange, Cancel, Scan, WaitEnds, Connect

\* Every step keeps all of it.
LEMMA JoinInvStep == JoinInv /\ [JoinNext]_allVars => JoinInv'
<1> SUFFICES ASSUME JoinInv, [JoinNext]_allVars PROVE JoinInv'
  OBVIOUS
<1> USE DEF JoinInv
<1>1. ASSUME UNCHANGED vars PROVE Inv'
  BY <1>1, InvStep
<1>2. ASSUME Type \/ NodesChange \/ Cancel \/ Scan \/ WaitEnds \/ Connect PROVE JoinInv'
  <2>1. UNCHANGED vars /\ UNCHANGED host
    BY <1>2, BeforeConnection
  <2>2. WayInv'
    BY <1>2, TypeStep, NodesStep, CancelStep, ScanStep, WaitStep, ConnectStep
  <2> QED
    BY <1>1, <2>1, <2>2, HostStays
<1>3. ASSUME UNCHANGED joinVars PROVE RoomInv' /\ WayInv'
  <2>1. UNCHANGED host /\ UNCHANGED <<typed, code, phase, nodes, scans, ct, found>>
    BY <1>3 DEF joinVars
  <2>2. room' = room /\ tcp_port' = tcp_port /\ HostNode' = HostNode /\ RoomInv'
    BY <2>1, HostStays
  <2> QED
    BY <2>1, <2>2 DEF WayInv
<1>4. ASSUME Next, UNCHANGED joinVars PROVE JoinInv'
  <2>1. Inv'
    BY <1>4, InvStep
  <2> QED
    BY <1>3, <1>4, <2>1
<1>5. ASSUME UNCHANGED allVars PROVE JoinInv'
  <2>1. UNCHANGED vars /\ UNCHANGED joinVars
    BY <1>5 DEF allVars
  <2> QED
    BY <1>1, <1>3, <2>1
<1> QED
  BY <1>2, <1>4, <1>5 DEF JoinNext

\* So it holds at all times.
LEMMA JoinInvariant == JoinSpec => []JoinInv
BY JoinInvInit, JoinInvStep, PTL DEF JoinSpec

-----------------------------------------------------------------------------
(* The theorems of joining.                                                *)

\* The invariant of a connection has its types.
LEMMA ConnectionTypes == ASSUME Inv PROVE TypeOK
<1>1. custom \in Supported /\ port \in Minecraft /\ served \in 0..Len(wrote) /\ got \in 0..served
  BY DEF Inv, TypeInv
<1>2. \A i \in 1..Len(negotiated) : negotiated[i] \in ToSet(my)
  <2>1. negotiated \in Seq(ToSet(my))
    BY DEF Inv, TypeInv
  <2> QED
    BY <2>1, ElementOfSeq
<1>3. call # None => call.op \in {"protocols", "ping", "server_port", "raw", "json"}
  <2>1. call # None => Wrote(call, wrote[Len(wrote)])
    BY DEF Inv, CallInv
  <2> QED
    BY <2>1 DEF Wrote
<1>4. \A p \in {up, inbox, down, taken} : \A i \in 1..Len(p) : p[i] \in Byte
  <2>1. \A p \in {up, inbox, down, taken} : p \in Seq(Byte)
    BY DEF Inv, TypeInv
  <2> QED
    BY <2>1, ElementOfSeq
<1>5. stage \in {"open", "lost", "closed"}
  BY DEF Inv, TypeInv
<1> QED
  BY <1>1, <1>2, <1>3, <1>4, <1>5 DEF TypeOK

\* Every variable of a guest's way from a code to a connection, and of the
\* connection, keeps its type.
THEOREM JoiningTypes == JoinSpec => []JoinTypeOK
<1>1. ASSUME JoinInv PROVE JoinTypeOK
  <2>1. TypeOK
    BY <1>1, ConnectionTypes DEF JoinInv
  <2>2. room # Invalid
    <3>1. room = parse(room.raw) /\ room.raw \in Seq(Nat) /\ Matches(room.raw)
      BY <1>1, RoomFacts DEF JoinInv
    <3> QED
      BY <3>1, ReadOrRefused
  <2> QED
    BY <1>1, <2>1, <2>2 DEF JoinInv, WayInv, JoinTypeOK
<1>2. JoinInv => JoinTypeOK
  BY <1>1
<1> QED
  BY <1>2, JoinInvariant, PTL

\* Whoever types the code of a room reaches its network, nobody else does, and
\* the center found there is the room's: RoomCode's generate and parse,
\* center_discovery's reading of the host name.
THEOREM CodeReachesTheRoom == JoinSpec => []ReachesTheRoom
<1>1. ASSUME JoinInv PROVE ReachesTheRoom
  <2>1. RoomInv /\ WayInv
    BY <1>1 DEF JoinInv
  <2>2. room.raw \in Seq(Nat) /\ Matches(room.raw) /\ room = parse(room.raw)
    BY <2>1, RoomFacts
  <2>3. typed = room.raw => phase # "refused"
    <3>1. phase = "refused" => code = Invalid /\ code = parse(typed)
      BY <2>1 DEF WayInv
    <3>2. parse(room.raw) # Invalid
      BY <2>2, ReadOrRefused
    <3> QED
      BY <3>1, <3>2
  <2>4. ASSUME phase \notin {"typing", "refused"}
        PROVE  network(code) = network(room) <=> typed = room.raw
    <3>1. typed \in Typings(room.raw) /\ code = parse(typed) /\ code # Invalid
      BY <2>1, <2>4 DEF WayInv
    <3>2. network(code) = network(room) => typed = room.raw
      BY <2>1, <3>1, TypedIsRaw
    <3>3. typed = room.raw => code = room
      BY <2>2, <3>1
    <3> QED
      BY <3>2, <3>3
  <2>5. found # None =>
            typed = room.raw /\ found = [virtual_ip |-> HostIp, port |-> tcp_port]
    BY <2>1 DEF WayInv
  <2> QED
    BY <2>3, <2>4, <2>5 DEF ReachesTheRoom
<1>2. JoinInv => ReachesTheRoom
  BY <1>1
<1> QED
  BY <1>2, JoinInvariant, PTL

\* An attempt of discover() overlooks no center among the nodes of the network,
\* and the guest gives up only when it is cancelled or after every attempt.
THEOREM DiscoveryOverlooksNone == JoinSpec => NoneOverlooked
<1> DEFINE Overlooks ==
        /\ phase = "scanning" /\ HostNode \in ToSet(nodes) /\ phase' # phase =>
                phase' = "found"
        /\ phase # "missing" /\ phase' = "missing" => ct \/ scans = MaxScans
<1>1. ASSUME JoinInv, JoinNext PROVE Overlooks
  <2>1. CASE Type
    BY <2>1 DEF Type
  <2>2. CASE NodesChange \/ Cancel
    BY <2>2 DEF NodesChange, Cancel
  <2>3. CASE Scan
    <3>1. /\ phase = "scanning" /\ found' = try_parse_center(nodes)
          /\ phase' = IF found' = None THEN "waiting" ELSE "found"
      BY <2>3 DEF Scan
    <3>2. RoomInv /\ nodes \in Seq(Strangers \cup {HostNode})
      BY <1>1 DEF JoinInv, WayInv
    <3>3. ASSUME HostNode \in ToSet(nodes) PROVE phase' = "found"
      <4>1. \E i \in 1..Len(nodes) : nodes[i] = HostNode
        <5>1. DOMAIN nodes = 1..Len(nodes)
          BY <3>2, LenProperties
        <5> QED
          BY <3>3, <5>1 DEF ToSet
      <4>2. found' = [virtual_ip |-> HostIp, port |-> tcp_port]
        BY <3>1, <3>2, <4>1, ScanFinds
      <4>3. found' # None
        BY <3>2, <4>2, JoiningAssumption DEF RoomInv
      <4> QED
        BY <3>1, <4>3
    <3> QED
      BY <3>1, <3>3
  <2>4. CASE WaitEnds
    BY <2>4 DEF WaitEnds
  <2>5. CASE Connect
    BY <2>5 DEF Connect
  <2>6. CASE UNCHANGED joinVars
    BY <2>6 DEF joinVars
  <2> QED
    BY <1>1, <2>1, <2>2, <2>3, <2>4, <2>5, <2>6 DEF JoinNext
<1>2. JoinInv /\ [JoinNext]_allVars => [Overlooks]_allVars
  <2> HIDE DEF Overlooks
  <2> QED
    BY <1>1
<1>3. JoinSpec => [][Overlooks]_allVars
  <2> HIDE DEF Overlooks
  <2> QED
    BY <1>2, JoinInvariant, PTL DEF JoinSpec
<1> QED
  BY <1>3 DEF NoneOverlooked

\* What happens before the guest is connected does not touch the connection:
\* the whole of it is a connection that Exchange describes.
THEOREM JoiningIsAnExchange == JoinSpec => Spec
<1>1. JoinInit => Init
  BY DEF JoinInit
<1>2. [JoinNext]_allVars => [Next]_vars
  <2> SUFFICES ASSUME [JoinNext]_allVars PROVE [Next]_vars
    OBVIOUS
  <2>1. CASE Type \/ NodesChange \/ Cancel \/ Scan \/ WaitEnds \/ Connect
    BY <2>1, BeforeConnection
  <2>2. CASE UNCHANGED allVars
    BY <2>2 DEF allVars
  <2> QED
    BY <2>1, <2>2 DEF JoinNext
<1> QED
  BY <1>1, <1>2, PTL DEF JoinSpec, Spec

\* So the center reads the requests of a guest that joined, each once and in order, ...
THEOREM JoinedReadsInStep == JoinSpec => []CenterInStep
BY JoiningIsAnExchange, ReadsWhatWasWritten, PTL

\* ... the guest's calls return the center's answers to them, ...
THEOREM JoinedReturnsOwnAnswer == JoinSpec => []OwnAnswer
BY JoiningIsAnExchange, ReturnsOwnAnswer, PTL

\* ... and what it may ask for is what it and the center have in common.
THEOREM JoinedServesNegotiated == JoinSpec => []NegotiatedServed
BY JoiningIsAnExchange, ServesWhatIsNegotiated, PTL

\* The guest that joined has a connection that keeps its promise.
THEOREM JoinedImplementsCalls == JoinSpec => AnswersInOrder
BY JoiningIsAnExchange, ConnectionImplementsCalls, PTL
=============================================================================
