---------------------------- MODULE SerialProofs ----------------------------
(***************************************************************************)
(* What one side packs the other side unpacks: for every PCB whose numbers *)
(* fit in 16 bits.                                                         *)
(***************************************************************************)
EXTENDS Serial, MlistProofs

----------------------------------------------------------------------------
(* Pieces of a buffer.                                                     *)

Numeros == -(2^15)..(2^15 - 1)
Octetos == 0..255

\* The bytes b are in the buffer behind the first t.
Esta(buf, t, b) == \A k \in 1..Len(b) : buf[t + k] = b[k]

LEMMA Powers == 2^8 = 256 /\ 2^15 = 32768 /\ 2^16 = 65536
OBVIOUS

LEMMA WholeNumbers == \A i \in Numeros : i \in Int
BY DEF Numeros

LEMMA PieceOfPiece ==
  ASSUME NEW buf, NEW t \in Nat, NEW b, NEW s \in Nat, NEW c,
         Len(b) \in Nat, Len(c) \in Nat, s + Len(c) <= Len(b),
         Esta(buf, t, b), Esta(b, s, c)
  PROVE  Esta(buf, t + s, c)
<1> SUFFICES ASSUME NEW k \in 1..Len(c) PROVE buf[(t + s) + k] = c[k]
  BY DEF Esta
<1>1. s + k \in 1..Len(b) /\ t + (s + k) = (t + s) + k
  OBVIOUS
<1>2. buf[t + (s + k)] = b[s + k]
  BY <1>1 DEF Esta
<1>3. b[s + k] = c[k]
  BY DEF Esta
<1> QED BY <1>1, <1>2, <1>3

LEMMA PiecesOfConcat ==
  ASSUME NEW S, NEW a \in Seq(S), NEW b \in Seq(S), NEW buf, NEW t \in Nat,
         Esta(buf, t, a \o b)
  PROVE  Esta(buf, t, a) /\ Esta(buf, t + Len(a), b)
<1>1. /\ Len(a) \in Nat /\ Len(b) \in Nat /\ Len(a \o b) = Len(a) + Len(b)
      /\ \A i \in 1..(Len(a) + Len(b)) : (a \o b)[i] = IF i <= Len(a) THEN a[i] ELSE b[i - Len(a)]
  BY ConcatProperties, LenProperties
<1>2. ASSUME NEW k \in 1..Len(a) PROVE buf[t + k] = a[k]
  <2>1. k \in 1..(Len(a) + Len(b)) /\ k <= Len(a)
    BY <1>1
  <2> QED BY <1>1, <2>1 DEF Esta
<1>3. ASSUME NEW k \in 1..Len(b) PROVE buf[(t + Len(a)) + k] = b[k]
  <2>1. /\ Len(a) + k \in 1..(Len(a) + Len(b)) /\ ~(Len(a) + k <= Len(a))
        /\ (Len(a) + k) - Len(a) = k /\ t + (Len(a) + k) = (t + Len(a)) + k
    BY <1>1
  <2>2. buf[t + (Len(a) + k)] = (a \o b)[Len(a) + k]
    BY <1>1, <2>1 DEF Esta
  <2>3. (a \o b)[Len(a) + k] = b[k]
    BY <1>1, <2>1
  <2> QED BY <2>1, <2>2, <2>3
<1> QED BY <1>2, <1>3 DEF Esta

LEMMA WholeBuffer == ASSUME NEW b PROVE Esta(b, 0, b)
<1> SUFFICES ASSUME NEW k \in 1..Len(b) PROVE b[0 + k] = b[k]
  BY DEF Esta
<1> QED OBVIOUS

----------------------------------------------------------------------------
(* The format "h".                                                         *)

LEMMA SixteenBits ==
  ASSUME NEW x \in Int
  PROVE  x % 65536 \in Int /\ 0 <= x % 65536 /\ x % 65536 < 65536
OBVIOUS

LEMMA Bytes ==
  ASSUME NEW i \in Int, 0 <= i, i < 65536
  PROVE  i \div 256 \in Octetos /\ i % 256 \in Octetos
<1>1. i \div 256 \in Int /\ 0 <= i \div 256 /\ i \div 256 < 256
  OBVIOUS
<1>2. i % 256 \in Int /\ 0 <= i % 256 /\ i % 256 < 256
  OBVIOUS
<1> QED BY <1>1, <1>2 DEF Octetos

LEMMA PackedH ==
  ASSUME NEW ns \in Seq(Numeros)
  PROVE  /\ EmpacaH(ns) \in Seq(Octetos) /\ Len(EmpacaH(ns)) = 2 * Len(ns)
         /\ \A j \in 1..Len(ns) :
              /\ EmpacaH(ns)[2 * j - 1] = (ns[j] % 65536) \div 256
              /\ EmpacaH(ns)[2 * j] = (ns[j] % 65536) % 256
<1> DEFINE n == Len(ns)
           E(k) == LET i == ns[(k + 1) \div 2] % 2^16 IN IF k % 2 = 1 THEN i \div 2^8 ELSE i % 2^8
<1>1. n \in Nat /\ \A j \in 1..n : ns[j] \in Int
  <2>1. n \in Nat /\ \A j \in 1..n : ns[j] \in Numeros
    BY LenProperties, ElementOfSeq
  <2>2. \A i \in Numeros : i \in Int
    BY WholeNumbers
  <2> QED BY <2>1, <2>2
<1>2. EmpacaH(ns) = [k \in 1..(2 * n) |-> E(k)]
  BY DEF EmpacaH
<1>3. ASSUME NEW k \in 1..(2 * n) PROVE E(k) \in Octetos
  <2>1. (k + 1) \div 2 \in 1..n
    BY <1>1
  <2>2. ns[(k + 1) \div 2] \in Int
    BY <1>1, <2>1
  <2>3. PICK i : i = ns[(k + 1) \div 2] % 65536
    OBVIOUS
  <2>4. i \in Int /\ 0 <= i /\ i < 65536
    BY <2>2, <2>3, SixteenBits
  <2>5. i \div 256 \in Octetos /\ i % 256 \in Octetos
    BY <2>4, Bytes
  <2> QED BY <2>3, <2>5, Powers
<1>4. ASSUME NEW j \in 1..n
      PROVE  E(2 * j - 1) = (ns[j] % 65536) \div 256 /\ E(2 * j) = (ns[j] % 65536) % 256
  <2>1. /\ ((2 * j - 1) + 1) \div 2 = j /\ (2 * j - 1) % 2 = 1
        /\ (2 * j + 1) \div 2 = j /\ (2 * j) % 2 = 0
    BY <1>1
  <2> QED BY <2>1, Powers
<1> HIDE DEF E
<1>5. EmpacaH(ns) \in [1..(2 * n) -> Octetos] /\ 2 * n \in Nat
  BY <1>1, <1>2, <1>3
<1>6. EmpacaH(ns) \in Seq(Octetos) /\ Len(EmpacaH(ns)) = 2 * n
  BY <1>5, SeqDef, LenProperties
<1>7. \A j \in 1..n : 2 * j - 1 \in 1..(2 * n) /\ 2 * j \in 1..(2 * n)
  BY <1>1
<1> QED BY <1>2, <1>4, <1>6, <1>7

LEMMA LengthH ==
  ASSUME NEW ns \in Seq(Numeros)
  PROVE  EmpacaH(ns) \in Seq(Octetos) /\ Len(EmpacaH(ns)) = 2 * Len(ns)
BY PackedH

LEMMA TwoBytes ==
  ASSUME NEW x \in Numeros, NEW y, y = ((x % 65536) \div 256) * 256 + ((x % 65536) % 256)
  PROVE  /\ x >= 0 => y = x
         /\ (IF y < 32768 THEN y ELSE y - 65536) = x
<1>1. PICK u \in Int : u = x % 65536 /\ u >= 0 /\ u < 65536
  BY DEF Numeros
<1>2. ((u \div 256) * 256) + (u % 256) = u
  BY <1>1
<1>3. u = IF x >= 0 THEN x ELSE x + 65536
  BY <1>1, Powers DEF Numeros
<1> QED BY <1>1, <1>2, <1>3, Powers DEF Numeros

\* What is written with "h" is read with "h".
LEMMA ReadH ==
  ASSUME NEW ns \in Seq(Numeros), NEW buf, NEW t \in Nat, Esta(buf, t, EmpacaH(ns)),
         NEW j \in 1..Len(ns), NEW d, d = t + 2 * (j - 1)
  PROVE  LeeH(buf, d) = ns[j] /\ (ns[j] >= 0 => LeeSinSigno(buf, d) = ns[j])
<1>1. Len(ns) \in Nat /\ ns[j] \in Numeros
  BY LenProperties, ElementOfSeq
<1>2. /\ 2 * j - 1 \in 1..(2 * Len(ns)) /\ 2 * j \in 1..(2 * Len(ns))
      /\ d + 1 = t + (2 * j - 1) /\ d + 2 = t + 2 * j
  BY <1>1
<1>3. /\ buf[d + 1] = (ns[j] % 65536) \div 256
      /\ buf[d + 2] = (ns[j] % 65536) % 256
  BY <1>2, PackedH DEF Esta
<1>4. LeeSinSigno(buf, d) = ((ns[j] % 65536) \div 256) * 256 + ((ns[j] % 65536) % 256)
  BY <1>3, Powers DEF LeeSinSigno
<1> HIDE DEF LeeSinSigno
<1> DEFINE y == LeeSinSigno(buf, d)
<1>5. LeeH(buf, d) = IF y < 32768 THEN y ELSE y - 65536
  BY Powers DEF LeeH
<1>6. y = ((ns[j] % 65536) \div 256) * 256 + ((ns[j] % 65536) % 256)
  BY <1>4
<1> HIDE DEF y
<1>7. /\ ns[j] >= 0 => y = ns[j]
      /\ (IF y < 32768 THEN y ELSE y - 65536) = ns[j]
  BY <1>1, <1>6, TwoBytes
<1> QED BY <1>5, <1>7 DEF y

LEMMA ReadFirst ==
  ASSUME NEW ns \in Seq(Numeros), NEW buf, NEW t \in Nat, Esta(buf, t, EmpacaH(ns)), Len(ns) > 0
  PROVE  LeeH(buf, t) = ns[1] /\ (ns[1] >= 0 => LeeSinSigno(buf, t) = ns[1])
<1> DEFINE j == 1
<1>1. Len(ns) \in Nat
  BY LenProperties
<1>2. j \in 1..Len(ns) /\ t = t + 2 * (j - 1)
  BY <1>1
<1> HIDE DEF j
<1>3. LeeH(buf, t) = ns[j] /\ (ns[j] >= 0 => LeeSinSigno(buf, t) = ns[j])
  BY <1>2, ReadH
<1> QED BY <1>3 DEF j

LEMMA ReadsH ==
  ASSUME NEW ns \in Seq(Numeros), NEW buf, NEW t \in Nat, Esta(buf, t, EmpacaH(ns))
  PROVE  \A j \in 1..Len(ns) : LeeH(buf, t + 2 * (j - 1)) = ns[j]
<1> TAKE j \in 1..Len(ns)
<1> DEFINE d == t + 2 * (j - 1)
<1> HIDE DEF d
<1>1. d = t + 2 * (j - 1)
  BY DEF d
<1>2. LeeH(buf, d) = ns[j]
  BY <1>1, ReadH
<1> QED BY <1>2 DEF d

----------------------------------------------------------------------------
(* Pieces one behind the other.                                            *)

\* A set that has the first number and, with one, the next, has all of them.
LEMMA OneByOne ==
  ASSUME NEW a \in Nat, NEW n \in Nat, NEW P, a <= n => a \in P,
         \A m \in a..(n - 1) : m \in P => m + 1 \in P
  PROVE  \A m \in a..n : m \in P
<1> SUFFICES ASSUME NEW m \in a..n, m \notin P PROVE FALSE
  OBVIOUS
<1> DEFINE T == {x \in a..n : x \notin P}
<1>1. T \in SUBSET Nat /\ m \in T
  OBVIOUS
<1>2. PICK x \in T : \A y \in T : x <= y
  <2> HIDE DEF T
  <2> QED BY <1>1, LeastNatural
<1>3. x \in a..n /\ x \notin P /\ x # a
  OBVIOUS
<1>4. x - 1 \in a..(n - 1) /\ x - 1 \notin T /\ (x - 1) + 1 = x
  BY <1>2, <1>3
<1>5. x - 1 \in P
  BY <1>4
<1> QED BY <1>3, <1>4, <1>5

LEMMA MoreBehind ==
  ASSUME NEW a \in Nat, NEW b \in Nat, NEW c \in Nat, NEW d, d = b + c
  PROVE  (a <= b => a <= d) /\ d \in Nat
OBVIOUS

LEMMA Chained ==
  ASSUME NEW S, NEW n \in Nat \ {0}, NEW ss \in [1..n -> Seq(S)], NEW f, f[1] = ss[1],
         \A i \in 1..(n - 1) : f[i + 1] = f[i] \o ss[i + 1]
  PROVE  /\ \A i \in 1..n : f[i] \in Seq(S) /\ Len(f[i]) \in Nat
         /\ \A i \in 1..(n - 1) : Len(f[i + 1]) = Len(f[i]) + Len(ss[i + 1])
         /\ \A i \in 1..n : Len(f[i]) <= Len(f[n])
         /\ Esta(f[n], 0, ss[1])
         /\ \A i \in 1..(n - 1) : Esta(f[n], Len(f[i]), ss[i + 1])
<1>1. \A i \in 1..n : f[i] \in Seq(S)
  <2> DEFINE P == {i \in 1..n : f[i] \in Seq(S)}
  <2>1. 1 \in P
    OBVIOUS
  <2>2. ASSUME NEW m \in 1..(n - 1), m \in P PROVE m + 1 \in P
    <3>1. m + 1 \in 1..n
      OBVIOUS
    <3>2. f[m] \in Seq(S) /\ ss[m + 1] \in Seq(S)
      BY <2>2, <3>1
    <3>3. f[m + 1] = f[m] \o ss[m + 1]
      OBVIOUS
    <3>4. f[m + 1] \in Seq(S)
      BY <3>2, <3>3, ConcatProperties
    <3> QED BY <3>1, <3>4
  <2> HIDE DEF P
  <2>3. \A m \in 1..n : m \in P
    BY <2>1, <2>2, OneByOne
  <2> QED BY <2>3 DEF P
<1>2. \A i \in 1..n : Len(f[i]) \in Nat /\ Len(ss[i]) \in Nat /\ ss[i] \in Seq(S)
  BY <1>1, LenProperties
<1>3. ASSUME NEW i \in 1..(n - 1)
      PROVE  /\ i \in 1..n /\ i + 1 \in 1..n
             /\ Len(f[i + 1]) = Len(f[i]) + Len(ss[i + 1])
             /\ Esta(f[i + 1], 0, f[i]) /\ Esta(f[i + 1], Len(f[i]), ss[i + 1])
  <2>i. i \in 1..n /\ i + 1 \in 1..n
    OBVIOUS
  <2>f. f[i + 1] = f[i] \o ss[i + 1]
    OBVIOUS
  <2>0. i \in 1..n /\ i + 1 \in 1..n /\ f[i + 1] = f[i] \o ss[i + 1]
    BY <2>i, <2>f
  <2>1. f[i] \in Seq(S) /\ ss[i + 1] \in Seq(S) /\ Len(f[i]) \in Nat
    BY <1>1, <1>2, <2>0
  <2>2. Len(f[i + 1]) = Len(f[i]) + Len(ss[i + 1])
    BY <2>0, <2>1, ConcatProperties
  <2>3. Esta(f[i + 1], 0, f[i] \o ss[i + 1])
    BY <2>0, WholeBuffer
  <2>4. Esta(f[i + 1], 0, f[i]) /\ Esta(f[i + 1], 0 + Len(f[i]), ss[i + 1])
    BY <2>1, <2>3, PiecesOfConcat
  <2>5. 0 + Len(f[i]) = Len(f[i])
    BY <2>1
  <2> QED BY <2>0, <2>2, <2>4, <2>5
<1>4. ASSUME NEW k \in 1..n PROVE Len(f[k]) <= Len(f[n]) /\ Esta(f[n], 0, f[k])
  <2> DEFINE P == {j \in k..n : Len(f[k]) <= Len(f[j]) /\ Esta(f[j], 0, f[k])}
  <2>1. k \in P
    BY <1>2, WholeBuffer
  <2>2. ASSUME NEW m \in k..(n - 1), m \in P PROVE m + 1 \in P
    <3>1. m \in 1..(n - 1) /\ m \in 1..n /\ m + 1 \in k..n
      OBVIOUS
    <3>2. /\ Len(f[k]) \in Nat /\ Len(f[m]) \in Nat /\ Len(f[m + 1]) = Len(f[m]) + Len(ss[m + 1])
          /\ Len(ss[m + 1]) \in Nat /\ Esta(f[m + 1], 0, f[m])
      BY <1>2, <1>3, <3>1
    <3>3. Len(f[k]) <= Len(f[m]) /\ Esta(f[m], 0, f[k])
      BY <2>2
    <3>4. Esta(f[m + 1], 0 + 0, f[k])
      <4>1. 0 \in Nat /\ 0 + Len(f[k]) <= Len(f[m])
        BY <3>2, <3>3
      <4> QED BY <3>2, <3>3, <4>1, PieceOfPiece
    <3>5. Len(f[k]) <= Len(f[m + 1])
      BY <3>2, <3>3, MoreBehind
    <3> QED BY <3>1, <3>4, <3>5
  <2>3. k \in Nat /\ n \in Nat /\ n \in k..n
    OBVIOUS
  <2> HIDE DEF P
  <2>4. \A m \in k..n : m \in P
    BY <2>1, <2>2, <2>3, OneByOne
  <2> QED BY <2>3, <2>4 DEF P
<1>5. ASSUME NEW i \in 1..(n - 1) PROVE Esta(f[n], Len(f[i]), ss[i + 1])
  <2>0. /\ i \in 1..n /\ i + 1 \in 1..n /\ Len(f[i + 1]) = Len(f[i]) + Len(ss[i + 1])
        /\ Esta(f[i + 1], Len(f[i]), ss[i + 1])
    BY <1>3
  <2>1. /\ i + 1 \in 1..n /\ Len(f[i]) \in Nat /\ Len(ss[i + 1]) \in Nat /\ Len(f[i + 1]) \in Nat
        /\ Len(f[i]) + Len(ss[i + 1]) <= Len(f[i + 1])
        /\ Esta(f[i + 1], Len(f[i]), ss[i + 1])
    <3>1. Len(f[i]) \in Nat /\ Len(ss[i + 1]) \in Nat /\ Len(f[i + 1]) \in Nat
      BY <1>2, <2>0
    <3>2. Len(f[i]) + Len(ss[i + 1]) <= Len(f[i + 1])
      BY <2>0, <3>1, MoreBehind
    <3> QED BY <2>0, <3>1, <3>2
  <2>2. Esta(f[n], 0, f[i + 1])
    BY <1>4, <2>1
  <2>3. Esta(f[n], 0 + Len(f[i]), ss[i + 1])
    <3>1. 0 \in Nat
      OBVIOUS
    <3> QED BY <2>1, <2>2, <3>1, PieceOfPiece
  <2> QED BY <2>1, <2>3
<1>6. Esta(f[n], 0, ss[1])
  BY <1>4
<1> QED BY <1>1, <1>2, <1>3, <1>4, <1>5, <1>6

\* FlattenSeq puts its pieces one behind the other: piece k is where those
\* before it end.
LEMMA FlattenRuns ==
  ASSUME NEW S, NEW n \in Nat \ {0}, NEW ss \in [1..n -> Seq(S)]
  PROVE  \E f : /\ FlattenSeq(ss) = f[n] /\ f[1] = ss[1]
                /\ \A i \in 1..(n - 1) : f[i + 1] = f[i] \o ss[i + 1]
<1> DEFINE Es(g, m) == g = [i \in 1..m |-> IF i = 1 THEN ss[i] ELSE g[i - 1] \o ss[i]]
           P == {m \in 1..n : \E g : Es(g, m)}
<1>1. 1 \in P
  <2> DEFINE g == [i \in 1..1 |-> ss[i]]
  <2>1. g = [i \in 1..1 |-> IF i = 1 THEN ss[i] ELSE g[i - 1] \o ss[i]]
    OBVIOUS
  <2> HIDE DEF g
  <2>2. Es(g, 1)
    BY <2>1
  <2>3. \E x : Es(x, 1)
    BY <2>2
  <2>4. 1 \in 1..n
    OBVIOUS
  <2> QED BY <2>3, <2>4
<1>2. ASSUME NEW m \in 1..(n - 1), m \in P PROVE m + 1 \in P
  <2>1. PICK g : Es(g, m)
    BY <1>2
  <2> DEFINE h == [i \in 1..(m + 1) |-> IF i < m + 1 THEN g[i] ELSE g[m] \o ss[m + 1]]
             e == [i \in 1..(m + 1) |-> IF i = 1 THEN ss[i] ELSE h[i - 1] \o ss[i]]
  <2>2. ASSUME NEW i \in 1..(m + 1) PROVE h[i] = e[i]
    <3>1. CASE i = m + 1
      <4>1. i # 1 /\ i - 1 = m /\ m \in 1..(m + 1) /\ m < m + 1
        BY <3>1
      <4>2. h[m] = g[m]
        BY <4>1
      <4>3. h[i] = g[m] \o ss[m + 1]
        <5>1. ~(i < m + 1) /\ i \in 1..(m + 1)
          BY <3>1
        <5>2. h[i] = IF i < m + 1 THEN g[i] ELSE g[m] \o ss[m + 1]
          BY <5>1
        <5> QED BY <5>1, <5>2
      <4>4. e[i] = h[m] \o ss[m + 1]
        BY <3>1, <4>1
      <4> QED BY <4>2, <4>3, <4>4
    <3>2. CASE i # m + 1
      <4>1. i \in 1..m /\ i < m + 1
        BY <3>2
      <4>2. h[i] = g[i]
        BY <4>1
      <4>3. g[i] = IF i = 1 THEN ss[i] ELSE g[i - 1] \o ss[i]
        BY <2>1, <4>1
      <4>4. CASE i = 1
        BY <4>2, <4>3, <4>4
      <4>5. CASE i # 1
        <5>1. i - 1 \in 1..(m + 1) /\ i - 1 < m + 1
          BY <4>1, <4>5
        <5>2. h[i - 1] = g[i - 1]
          BY <5>1
        <5>3. e[i] = h[i - 1] \o ss[i]
          BY <4>5
        <5> QED BY <4>2, <4>3, <4>5, <5>2, <5>3
      <4> QED BY <4>4, <4>5
    <3> QED BY <3>1, <3>2
  <2>3. h = e
    BY <2>2
  <2>4. Es(h, m + 1)
    BY <2>3
  <2>5. m + 1 \in 1..n
    OBVIOUS
  <2> QED BY <2>4, <2>5
<1>3. n \in P
  <2> HIDE DEF P
  <2>1. \A m \in 1..n : m \in P
    BY <1>1, <1>2, OneByOne
  <2> QED BY <2>1
<1> DEFINE f == CHOOSE f : Es(f, n)
<1>4. Es(f, n)
  BY <1>3
<1>5. Len(ss) = n
  <2>1. ss \in Seq(Seq(S))
    BY SeqDef
  <2> QED BY <2>1, LenProperties
<1>6. FlattenSeq(ss) = f[n]
  BY <1>5 DEF FlattenSeq
<1> HIDE DEF f
<1>7. f[1] = ss[1]
  BY <1>4
<1>8. ASSUME NEW i \in 1..(n - 1) PROVE f[i + 1] = f[i] \o ss[i + 1]
  <2>1. i + 1 \in 1..n /\ i + 1 # 1 /\ (i + 1) - 1 = i
    OBVIOUS
  <2>2. f[i + 1] = IF i + 1 = 1 THEN ss[i + 1] ELSE f[(i + 1) - 1] \o ss[i + 1]
    BY <1>4, <2>1
  <2> QED BY <2>1, <2>2
<1> QED BY <1>6, <1>7, <1>8

LEMMA Flattened ==
  ASSUME NEW S, NEW n \in Nat, NEW ss \in [1..n -> Seq(S)]
  PROVE  \E hasta \in [0..n -> Nat] :
           /\ hasta[0] = 0
           /\ FlattenSeq(ss) \in Seq(S) /\ Len(FlattenSeq(ss)) = hasta[n]
           /\ \A k \in 1..n : /\ hasta[k] = hasta[k - 1] + Len(ss[k]) /\ hasta[k] <= hasta[n]
                              /\ Esta(FlattenSeq(ss), hasta[k - 1], ss[k])
<1>0. \A k \in 1..n : ss[k] \in Seq(S) /\ Len(ss[k]) \in Nat
  BY LenProperties
<1>1. CASE n = 0
  <2>1. ss = <<>>
    BY <1>1
  <2>2. Len(ss) = 0 /\ FlattenSeq(ss) = ss
    BY <2>1 DEF FlattenSeq
  <2>3. FlattenSeq(ss) \in Seq(S) /\ Len(FlattenSeq(ss)) = 0
    BY <2>1, <2>2, EmptySeq
  <2> DEFINE hasta == [k \in 0..n |-> 0]
  <2>4. hasta \in [0..n -> Nat] /\ hasta[0] = 0 /\ hasta[n] = 0 /\ 1..n = {}
    BY <1>1
  <2> HIDE DEF hasta
  <2> QED BY <2>3, <2>4
<1>2. CASE n # 0
  <2>0. n \in Nat \ {0}
    BY <1>2
  <2>1. PICK f : /\ FlattenSeq(ss) = f[n] /\ f[1] = ss[1]
                 /\ \A i \in 1..(n - 1) : f[i + 1] = f[i] \o ss[i + 1]
    BY <2>0, FlattenRuns
  <2>2. /\ \A i \in 1..n : f[i] \in Seq(S) /\ Len(f[i]) \in Nat
        /\ \A i \in 1..(n - 1) : Len(f[i + 1]) = Len(f[i]) + Len(ss[i + 1])
        /\ \A i \in 1..n : Len(f[i]) <= Len(f[n])
        /\ Esta(f[n], 0, ss[1])
        /\ \A i \in 1..(n - 1) : Esta(f[n], Len(f[i]), ss[i + 1])
    BY <2>0, <2>1, Chained
  <2> DEFINE hasta == [k \in 0..n |-> IF k = 0 THEN 0 ELSE Len(f[k])]
  <2>3. hasta[0] = 0 /\ \A k \in 1..n : hasta[k] = Len(f[k])
    BY <2>0
  <2>4. hasta \in [0..n -> Nat]
    <3>1. ASSUME NEW k \in 0..n PROVE (IF k = 0 THEN 0 ELSE Len(f[k])) \in Nat
      <4>1. CASE k = 0
        BY <4>1
      <4>2. CASE k # 0
        <5>1. k \in 1..n
          BY <4>2
        <5> QED BY <2>2, <4>2, <5>1
      <4> QED BY <4>1, <4>2
    <3> QED BY <3>1
  <2> HIDE DEF hasta
  <2>5. n \in 1..n
    BY <2>0
  <2>6. FlattenSeq(ss) \in Seq(S) /\ Len(FlattenSeq(ss)) = hasta[n]
    BY <2>1, <2>2, <2>3, <2>5
  <2>7. ASSUME NEW k \in 1..n
        PROVE  hasta[k] = hasta[k - 1] + Len(ss[k]) /\ Esta(FlattenSeq(ss), hasta[k - 1], ss[k])
    <3>1. CASE k = 1
      <4>1. hasta[k] = Len(ss[1]) /\ k - 1 = 0 /\ hasta[k - 1] = 0
        BY <2>1, <2>3, <3>1
      <4>2. Len(ss[1]) \in Nat
        BY <1>0, <3>1
      <4> QED BY <2>1, <2>2, <3>1, <4>1, <4>2
    <3>2. CASE k # 1
      <4>1. PICK i : i = k - 1
        OBVIOUS
      <4>2. i \in 1..(n - 1) /\ i \in 1..n /\ i + 1 = k
        BY <3>2, <4>1
      <4>3. hasta[k] = Len(f[i + 1]) /\ hasta[k - 1] = Len(f[i])
        BY <2>3, <4>1, <4>2
      <4> QED BY <2>1, <2>2, <4>2, <4>3
    <3> QED BY <3>1, <3>2
  <2>8. \A k \in 1..n : hasta[k] <= hasta[n]
    BY <2>2, <2>3, <2>5
  <2> QED BY <2>3, <2>4, <2>6, <2>7, <2>8
<1> QED BY <1>1, <1>2

\* Pieces of one width.
LEMMA FixedPieces ==
  ASSUME NEW S, NEW n \in Nat, NEW ss \in [1..n -> Seq(S)], NEW w \in Nat,
         \A k \in 1..n : Len(ss[k]) = w
  PROVE  /\ FlattenSeq(ss) \in Seq(S) /\ Len(FlattenSeq(ss)) = w * n
         /\ \A k \in 1..n : Esta(FlattenSeq(ss), w * (k - 1), ss[k])
<1>1. PICK hasta \in [0..n -> Nat] :
        /\ hasta[0] = 0
        /\ FlattenSeq(ss) \in Seq(S) /\ Len(FlattenSeq(ss)) = hasta[n]
        /\ \A k \in 1..n : /\ hasta[k] = hasta[k - 1] + Len(ss[k]) /\ hasta[k] <= hasta[n]
                           /\ Esta(FlattenSeq(ss), hasta[k - 1], ss[k])
  BY Flattened
<1> DEFINE P == {k \in 0..n : hasta[k] = w * k}
<1>2. 0 \in P
  BY <1>1
<1>3. ASSUME NEW m \in 0..(n - 1), m \in P PROVE m + 1 \in P
  <2>1. m + 1 \in 1..n /\ m + 1 \in 0..n /\ (m + 1) - 1 = m
    OBVIOUS
  <2>2. hasta[m + 1] = hasta[m] + w
    BY <1>1, <2>1
  <2>3. hasta[m] = w * m
    BY <1>3
  <2>4. w * (m + 1) = w * m + w
    OBVIOUS
  <2> QED BY <2>1, <2>2, <2>3, <2>4
<1> HIDE DEF P
<1>4. \A k \in 0..n : k \in P
  BY <1>2, <1>3, OneByOne
<1>5. \A k \in 0..n : hasta[k] = w * k
  BY <1>4 DEF P
<1>6. n \in 0..n /\ \A k \in 1..n : k - 1 \in 0..n
  OBVIOUS
<1> QED BY <1>1, <1>5, <1>6

\* As many bytes at least as there are pieces, when none is empty.
LEMMA OneByteEach ==
  ASSUME NEW S, NEW n \in Nat, NEW ss \in [1..n -> Seq(S)],
         \A k \in 1..n : Len(ss[k]) >= 1
  PROVE  FlattenSeq(ss) \in Seq(S) /\ Len(FlattenSeq(ss)) \in Nat /\ n <= Len(FlattenSeq(ss))
<1>1. PICK hasta \in [0..n -> Nat] :
        /\ hasta[0] = 0
        /\ FlattenSeq(ss) \in Seq(S) /\ Len(FlattenSeq(ss)) = hasta[n]
        /\ \A k \in 1..n : /\ hasta[k] = hasta[k - 1] + Len(ss[k]) /\ hasta[k] <= hasta[n]
                           /\ Esta(FlattenSeq(ss), hasta[k - 1], ss[k])
  BY Flattened
<1> DEFINE P == {k \in 0..n : k <= hasta[k]}
<1>2. 0 \in P
  BY <1>1
<1>3. ASSUME NEW m \in 0..(n - 1), m \in P PROVE m + 1 \in P
  <2>1. m + 1 \in 1..n /\ m + 1 \in 0..n /\ (m + 1) - 1 = m
    OBVIOUS
  <2>2. hasta[m + 1] = hasta[m] + Len(ss[m + 1])
    BY <1>1, <2>1
  <2>3. m <= hasta[m] /\ hasta[m] \in Nat
    BY <1>1, <1>3
  <2>4. Len(ss[m + 1]) \in Nat /\ Len(ss[m + 1]) >= 1
    BY <2>1, LenProperties
  <2>5. m + 1 <= hasta[m + 1]
    BY <2>2, <2>3, <2>4
  <2> QED BY <2>1, <2>5
<1> HIDE DEF P
<1>4. \A k \in 0..n : k \in P
  BY <1>2, <1>3, OneByOne
<1>5. n <= hasta[n]
  BY <1>4 DEF P
<1> QED BY <1>1, <1>5

----------------------------------------------------------------------------
(* The PCBs whose numbers fit.  C are the characters of names and the      *)
(* letters of variables; a name has room for its final 0 in the tag[64] of  *)
(* serial_unpack_pcb.                                                      *)

Cuantos == 0..(2^15 - 1)
Listas(S) == {l \in Seq(S) : Len(l) \in Cuantos}

PosH          == [page : Numeros, offset : Numeros, size : Numeros]
VariablesH(C) == Listas([id : C, mempos : PosH])
ContextosH(C) == [retPos : Numeros, args : VariablesH(C), vars : VariablesH(C), retVar : PosH]
NombresH(C)   == {s \in Seq(C) : Len(s) < MaxTag}

PcbsH(C) ==
  [idProcess : Numeros, PC : Numeros, quantum : Numeros, status : Numeros,
   pagesCode : Numeros, stackPointer : Numeros, exitCode : Numeros,
   indexCode : Listas([start : Numeros, offset : Numeros]),
   indexTag  : Listas([name : NombresH(C), PC : Numeros]),
   stack     : Listas(ContextosH(C))]

LEMMA CountsFit == \A n \in Cuantos : n \in Numeros /\ n >= 0 /\ n \in Nat
BY Powers DEF Cuantos, Numeros

LEMMA WholeOctets == \A x \in Octetos : x \in Int
BY DEF Octetos

LEMMA OctetosEn ==
  ASSUME NEW C, NEW s \in Seq(Octetos)
  PROVE  s \in Seq(Octetos \cup C)
<1>1. Octetos \subseteq Octetos \cup C
  OBVIOUS
<1> QED BY <1>1, SeqMonotonic

----------------------------------------------------------------------------
(* Positions and variables.                                                *)

LEMMA PackedPos ==
  ASSUME NEW p \in PosH
  PROVE  EmpacaPos(p) \in Seq(Octetos) /\ Len(EmpacaPos(p)) = 6
<1> DEFINE ns == <<p.page, p.offset, p.size>>
<1>1. ns \in Seq(Numeros) /\ Len(ns) = 3
  BY DEF PosH
<1> HIDE DEF ns
<1>2. EmpacaH(ns) \in Seq(Octetos) /\ Len(EmpacaH(ns)) = 2 * Len(ns)
  BY <1>1, LengthH
<1> QED BY <1>1, <1>2 DEF EmpacaPos, ns

LEMMA ReadPos ==
  ASSUME NEW p \in PosH, NEW buf, NEW t \in Nat, Esta(buf, t, EmpacaPos(p))
  PROVE  LeePos(buf, t) = p
<1> DEFINE ns == <<p.page, p.offset, p.size>>
<1>1. ns \in Seq(Numeros) /\ Len(ns) = 3 /\ ns[1] = p.page /\ ns[2] = p.offset /\ ns[3] = p.size
  BY DEF PosH
<1>2. Esta(buf, t, EmpacaH(ns))
  BY DEF EmpacaPos
<1> HIDE DEF ns
<1>3. \A j \in 1..Len(ns) : LeeH(buf, t + 2 * (j - 1)) = ns[j]
  BY <1>1, <1>2, ReadsH
<1>4. LeeH(buf, t) = ns[1]
  <2>1. 1 \in 1..Len(ns) /\ t = t + 2 * (1 - 1)
    BY <1>1
  <2> QED BY <1>3, <2>1
<1>5. LeeH(buf, t + 2) = ns[2]
  <2>1. 2 \in 1..Len(ns) /\ t + 2 = t + 2 * (2 - 1)
    BY <1>1
  <2> QED BY <1>3, <2>1
<1>6. LeeH(buf, t + 4) = ns[3]
  <2>1. 3 \in 1..Len(ns) /\ t + 4 = t + 2 * (3 - 1)
    BY <1>1
  <2> QED BY <1>3, <2>1
<1> QED BY <1>1, <1>4, <1>5, <1>6 DEF LeePos, PosH

EmpacaVar(v) == <<v.id>> \o EmpacaPos(v.mempos)

LEMMA PackedVar ==
  ASSUME NEW C, NEW v \in [id : C, mempos : PosH]
  PROVE  EmpacaVar(v) \in Seq(Octetos \cup C) /\ Len(EmpacaVar(v)) = 7
<1>1. EmpacaPos(v.mempos) \in Seq(Octetos) /\ Len(EmpacaPos(v.mempos)) = 6
  BY PackedPos
<1>2. EmpacaPos(v.mempos) \in Seq(Octetos \cup C)
  BY <1>1, OctetosEn
<1>3. <<v.id>> \in Seq(Octetos \cup C) /\ Len(<<v.id>>) = 1
  OBVIOUS
<1>4. EmpacaVar(v) \in Seq(Octetos \cup C)
  BY <1>2, <1>3, ConcatProperties DEF EmpacaVar
<1>5. Len(EmpacaVar(v)) = Len(<<v.id>>) + Len(EmpacaPos(v.mempos))
  BY <1>2, <1>3, ConcatProperties DEF EmpacaVar
<1> QED BY <1>1, <1>3, <1>4, <1>5

LEMMA ReadVar ==
  ASSUME NEW C, NEW v \in [id : C, mempos : PosH], NEW buf, NEW t \in Nat,
         Esta(buf, t, EmpacaVar(v))
  PROVE  buf[t + 1] = v.id /\ LeePos(buf, t + 1) = v.mempos
<1>1. EmpacaPos(v.mempos) \in Seq(Octetos) /\ v.mempos \in PosH
  BY PackedPos
<1>2. EmpacaPos(v.mempos) \in Seq(Octetos \cup C)
  BY <1>1, OctetosEn
<1>3. <<v.id>> \in Seq(Octetos \cup C) /\ Len(<<v.id>>) = 1 /\ <<v.id>>[1] = v.id
  OBVIOUS
<1>4. Esta(buf, t, <<v.id>>) /\ Esta(buf, t + Len(<<v.id>>), EmpacaPos(v.mempos))
  BY <1>2, <1>3, PiecesOfConcat DEF EmpacaVar
<1>5. buf[t + 1] = v.id
  BY <1>3, <1>4 DEF Esta
<1>6. t + 1 \in Nat /\ Esta(buf, t + 1, EmpacaPos(v.mempos))
  BY <1>3, <1>4
<1> QED BY <1>1, <1>5, <1>6, ReadPos

LEMMA CountOf ==
  ASSUME NEW n \in Cuantos
  PROVE  /\ EmpacaH(<<n>>) \in Seq(Octetos) /\ Len(EmpacaH(<<n>>)) = 2
         /\ \A buf : \A t \in Nat :
              Esta(buf, t, EmpacaH(<<n>>)) => LeeH(buf, t) = n /\ LeeSinSigno(buf, t) = n
<1> DEFINE ns == <<n>>
<1>1. ns \in Seq(Numeros) /\ Len(ns) = 1 /\ ns[1] = n /\ n >= 0
  BY CountsFit
<1> HIDE DEF ns
<1>2. EmpacaH(ns) \in Seq(Octetos) /\ Len(EmpacaH(ns)) = 2 * Len(ns)
  BY <1>1, LengthH
<1>3. ASSUME NEW buf, NEW t \in Nat, Esta(buf, t, EmpacaH(ns))
      PROVE  LeeH(buf, t) = n /\ LeeSinSigno(buf, t) = n
  <2>1. Len(ns) > 0
    BY <1>1
  <2>2. LeeH(buf, t) = ns[1] /\ (ns[1] >= 0 => LeeSinSigno(buf, t) = ns[1])
    BY <1>1, <1>3, <2>1, ReadFirst
  <2> QED BY <1>1, <2>2
<1>4. Len(EmpacaH(ns)) = 2
  BY <1>1, <1>2
<1> QED BY <1>2, <1>3, <1>4 DEF ns

LEMMA VarsLaidOut ==
  ASSUME NEW C, NEW lista \in VariablesH(C)
  PROVE  \E ss : /\ SerialPackVars(lista) = EmpacaH(<<Len(lista)>>) \o FlattenSeq(ss)
                 /\ FlattenSeq(ss) \in Seq(Octetos \cup C)
                 /\ Len(FlattenSeq(ss)) = 7 * Len(lista)
                 /\ \A k \in 1..Len(lista) : /\ ss[k] = EmpacaVar(lista[k])
                                             /\ Esta(FlattenSeq(ss), 7 * (k - 1), ss[k])
<1> DEFINE n  == Len(lista)
           S  == Octetos \cup C
           ss == [k \in DOMAIN lista |-> EmpacaVar(lista[k])]
<1>1. lista \in Seq([id : C, mempos : PosH])
  BY DEF VariablesH, Listas
<1>2. n \in Nat /\ DOMAIN lista = 1..n
  BY <1>1, LenProperties
<1>3. \A k \in 1..n : EmpacaVar(lista[k]) \in Seq(S) /\ Len(EmpacaVar(lista[k])) = 7
  BY <1>1, ElementOfSeq, PackedVar
<1>4. ss \in [1..n -> Seq(S)] /\ \A k \in 1..n : ss[k] = EmpacaVar(lista[k]) /\ Len(ss[k]) = 7
  BY <1>2, <1>3
<1>5. SerialPackVars(lista) = EmpacaH(<<n>>) \o FlattenSeq(ss)
  BY DEF SerialPackVars, EmpacaVar
<1> HIDE DEF ss, n, S
<1>6. /\ FlattenSeq(ss) \in Seq(S) /\ Len(FlattenSeq(ss)) = 7 * n
      /\ \A k \in 1..n : Esta(FlattenSeq(ss), 7 * (k - 1), ss[k])
  BY <1>2, <1>4, FixedPieces
<1> QED BY <1>4, <1>5, <1>6 DEF n, S

LEMMA PackedVars ==
  ASSUME NEW C, NEW lista \in VariablesH(C)
  PROVE  /\ SerialPackVars(lista) \in Seq(Octetos \cup C)
         /\ Len(SerialPackVars(lista)) = 2 + 7 * Len(lista)
<1>1. PICK ss : /\ SerialPackVars(lista) = EmpacaH(<<Len(lista)>>) \o FlattenSeq(ss)
                /\ FlattenSeq(ss) \in Seq(Octetos \cup C)
                /\ Len(FlattenSeq(ss)) = 7 * Len(lista)
  BY VarsLaidOut
<1>2. Len(lista) \in Cuantos
  BY DEF VariablesH, Listas
<1>3. EmpacaH(<<Len(lista)>>) \in Seq(Octetos) /\ Len(EmpacaH(<<Len(lista)>>)) = 2
  BY <1>2, CountOf
<1>4. EmpacaH(<<Len(lista)>>) \in Seq(Octetos \cup C)
  BY <1>3, OctetosEn
<1>5. /\ SerialPackVars(lista) \in Seq(Octetos \cup C)
      /\ Len(SerialPackVars(lista)) = Len(EmpacaH(<<Len(lista)>>)) + Len(FlattenSeq(ss))
  BY <1>1, <1>4, ConcatProperties
<1> QED BY <1>1, <1>3, <1>5

LEMMA ReadVars ==
  ASSUME NEW C, NEW lista \in VariablesH(C), NEW buf, NEW t \in Nat,
         Esta(buf, t, SerialPackVars(lista))
  PROVE  SerialUnpackVars(buf, t) = [lista |-> lista, tam |-> t + Len(SerialPackVars(lista))]
<1> DEFINE n == Len(lista)
<1>1. PICK ss : /\ SerialPackVars(lista) = EmpacaH(<<n>>) \o FlattenSeq(ss)
                /\ FlattenSeq(ss) \in Seq(Octetos \cup C)
                /\ Len(FlattenSeq(ss)) = 7 * n
                /\ \A k \in 1..n : /\ ss[k] = EmpacaVar(lista[k])
                                   /\ Esta(FlattenSeq(ss), 7 * (k - 1), ss[k])
  BY VarsLaidOut
<1>2. n \in Cuantos /\ lista \in Seq([id : C, mempos : PosH]) /\ n \in Nat
  BY CountsFit DEF VariablesH, Listas
<1>3. EmpacaH(<<n>>) \in Seq(Octetos) /\ Len(EmpacaH(<<n>>)) = 2
  BY <1>2, CountOf
<1>4. EmpacaH(<<n>>) \in Seq(Octetos \cup C)
  BY <1>3, OctetosEn
<1>5. Esta(buf, t, EmpacaH(<<n>>)) /\ Esta(buf, t + Len(EmpacaH(<<n>>)), FlattenSeq(ss))
  BY <1>1, <1>4, PiecesOfConcat
<1>6. t + 2 \in Nat /\ Esta(buf, t + 2, FlattenSeq(ss))
  <2> HIDE DEF n
  <2>1. t + 2 \in Nat
    OBVIOUS
  <2>2. t + Len(EmpacaH(<<n>>)) = t + 2
    BY ONLY <1>3
  <2> QED BY <1>5, <2>1, <2>2
<1>7. LeeH(buf, t) = n
  BY <1>2, <1>5, CountOf
<1>8. ASSUME NEW k \in 1..n
      PROVE  lista[k] = [id |-> buf[t + 7 * k - 4], mempos |-> LeePos(buf, t + 7 * k - 4)]
  <2>1. lista[k] \in [id : C, mempos : PosH]
    BY <1>2, ElementOfSeq
  <2>2. ss[k] = EmpacaVar(lista[k]) /\ Esta(FlattenSeq(ss), 7 * (k - 1), ss[k])
    BY <1>1
  <2>3. Len(ss[k]) = 7
    BY <2>1, <2>2, PackedVar
  <2>4. 7 * (k - 1) \in Nat /\ 7 * (k - 1) + 7 <= 7 * n
    BY <1>2
  <2>5. Esta(buf, (t + 2) + 7 * (k - 1), ss[k])
    <3>1. Len(FlattenSeq(ss)) \in Nat /\ Len(ss[k]) \in Nat /\ 7 * (k - 1) + Len(ss[k]) <= Len(FlattenSeq(ss))
      BY <1>1, <1>2, <2>3, <2>4
    <3> QED BY <1>6, <2>2, <2>4, <3>1, PieceOfPiece
  <2>6. PICK d \in Nat : d = (t + 2) + 7 * (k - 1) /\ d + 1 = t + 7 * k - 4
    BY <1>2
  <2>7. buf[d + 1] = lista[k].id /\ LeePos(buf, d + 1) = lista[k].mempos
    BY <2>1, <2>2, <2>5, <2>6, ReadVar
  <2>8. buf[t + 7 * k - 4] = lista[k].id /\ LeePos(buf, t + 7 * k - 4) = lista[k].mempos
    BY <2>6, <2>7
  <2> HIDE DEF n
  <2> QED BY <2>1, <2>8
<1> DEFINE leida == [k \in 1..n |-> [id     |-> buf[t + 7 * k - 4],
                                     mempos |-> LeePos(buf, t + 7 * k - 4)]]
<1>9. leida = lista
  <2>1. lista = [k \in 1..n |-> lista[k]]
    BY <1>2, LenProperties
  <2> HIDE DEF n
  <2> QED BY <1>8, <2>1
<1>10. Len(SerialPackVars(lista)) = 2 + 7 * n
  BY PackedVars
<1>11. SerialUnpackVars(buf, t) = [lista |-> leida, tam |-> t + 2 + 7 * n]
  BY <1>7 DEF SerialUnpackVars
<1> HIDE DEF leida, n
<1>12. t + 2 + 7 * n = t + Len(SerialPackVars(lista))
  BY <1>2, <1>10
<1> QED BY <1>9, <1>11, <1>12

----------------------------------------------------------------------------
(* Contexts.                                                               *)

LEMMA NumberOf ==
  ASSUME NEW n \in Numeros
  PROVE  /\ EmpacaH(<<n>>) \in Seq(Octetos) /\ Len(EmpacaH(<<n>>)) = 2
         /\ \A buf : \A t \in Nat : Esta(buf, t, EmpacaH(<<n>>)) => LeeH(buf, t) = n
<1> DEFINE ns == <<n>>
<1>1. ns \in Seq(Numeros) /\ Len(ns) = 1 /\ ns[1] = n
  OBVIOUS
<1> HIDE DEF ns
<1>2. EmpacaH(ns) \in Seq(Octetos) /\ Len(EmpacaH(ns)) = 2 * Len(ns)
  BY <1>1, LengthH
<1>3. ASSUME NEW buf, NEW t \in Nat, Esta(buf, t, EmpacaH(ns))
      PROVE  LeeH(buf, t) = n
  <2>1. Len(ns) > 0
    BY <1>1
  <2>2. LeeH(buf, t) = ns[1]
    BY <1>1, <1>3, <2>1, ReadFirst
  <2> QED BY <1>1, <2>2
<1>4. Len(EmpacaH(ns)) = 2
  BY <1>1, <1>2
<1> QED BY <1>2, <1>3, <1>4 DEF ns

LEMMA FourPieces ==
  ASSUME NEW S, NEW a \in Seq(S), NEW b \in Seq(S), NEW c \in Seq(S), NEW d \in Seq(S)
  PROVE  /\ a \o b \o c \o d \in Seq(S)
         /\ Len(a \o b \o c \o d) = Len(a) + Len(b) + Len(c) + Len(d)
         /\ \A buf : \A t \in Nat :
              Esta(buf, t, a \o b \o c \o d) =>
                /\ Esta(buf, t, a) /\ Esta(buf, t + Len(a), b)
                /\ Esta(buf, t + Len(a) + Len(b), c)
                /\ Esta(buf, t + Len(a) + Len(b) + Len(c), d)
<1> DEFINE x == a \o b
           y == x \o c
<1>1. x \in Seq(S) /\ Len(x) = Len(a) + Len(b) /\ Len(a) \in Nat /\ Len(b) \in Nat
  BY ConcatProperties, LenProperties
<1> HIDE DEF x
<1>2. y \in Seq(S) /\ Len(y) = Len(x) + Len(c) /\ Len(c) \in Nat
  BY <1>1, ConcatProperties, LenProperties
<1> HIDE DEF y
<1>3. y \o d \in Seq(S) /\ Len(y \o d) = Len(y) + Len(d) /\ Len(d) \in Nat
  BY <1>2, ConcatProperties, LenProperties
<1>4. ASSUME NEW buf, NEW t \in Nat, Esta(buf, t, y \o d)
      PROVE  /\ Esta(buf, t, a) /\ Esta(buf, t + Len(a), b)
             /\ Esta(buf, t + Len(a) + Len(b), c)
             /\ Esta(buf, t + Len(a) + Len(b) + Len(c), d)
  <2>1. Esta(buf, t, y) /\ Esta(buf, t + Len(y), d)
    BY <1>2, <1>4, PiecesOfConcat
  <2>2. Esta(buf, t, x) /\ Esta(buf, t + Len(x), c)
    BY <1>1, <2>1, PiecesOfConcat DEF y
  <2>3. Esta(buf, t, a) /\ Esta(buf, t + Len(a), b)
    BY <2>2, PiecesOfConcat DEF x
  <2>4. t + Len(x) = t + Len(a) + Len(b) /\ t + Len(y) = t + Len(a) + Len(b) + Len(c)
    BY <1>1, <1>2
  <2> QED BY <2>1, <2>2, <2>3, <2>4
<1>5. Len(y \o d) = Len(a) + Len(b) + Len(c) + Len(d)
  BY <1>1, <1>2, <1>3
<1> QED BY <1>3, <1>4, <1>5 DEF x, y

EmpacaContexto(c) ==
  EmpacaH(<<c.retPos>>) \o SerialPackVars(c.args) \o SerialPackVars(c.vars) \o EmpacaPos(c.retVar)

\* What the pieces of a context are.
LEMMA ContextPieces ==
  ASSUME NEW C, NEW c \in ContextosH(C)
  PROVE  /\ EmpacaH(<<c.retPos>>) \in Seq(Octetos \cup C) /\ Len(EmpacaH(<<c.retPos>>)) = 2
         /\ SerialPackVars(c.args) \in Seq(Octetos \cup C)
         /\ SerialPackVars(c.vars) \in Seq(Octetos \cup C)
         /\ EmpacaPos(c.retVar) \in Seq(Octetos \cup C) /\ Len(EmpacaPos(c.retVar)) = 6
         /\ Len(SerialPackVars(c.args)) \in Nat /\ Len(SerialPackVars(c.vars)) \in Nat
         /\ c.retPos \in Numeros /\ c.args \in VariablesH(C) /\ c.vars \in VariablesH(C)
         /\ c.retVar \in PosH
<1>1. /\ c.retPos \in Numeros /\ c.args \in VariablesH(C) /\ c.vars \in VariablesH(C)
      /\ c.retVar \in PosH
  BY DEF ContextosH
<1>2. EmpacaH(<<c.retPos>>) \in Seq(Octetos \cup C) /\ Len(EmpacaH(<<c.retPos>>)) = 2
  BY <1>1, NumberOf, OctetosEn
<1>3. EmpacaPos(c.retVar) \in Seq(Octetos \cup C) /\ Len(EmpacaPos(c.retVar)) = 6
  BY <1>1, PackedPos, OctetosEn
<1>4. SerialPackVars(c.args) \in Seq(Octetos \cup C) /\ SerialPackVars(c.vars) \in Seq(Octetos \cup C)
  BY <1>1, PackedVars
<1> QED BY <1>1, <1>2, <1>3, <1>4, LenProperties

LEMMA PackedContext ==
  ASSUME NEW C, NEW c \in ContextosH(C)
  PROVE  /\ EmpacaContexto(c) \in Seq(Octetos \cup C) /\ Len(EmpacaContexto(c)) \in Nat
         /\ Len(EmpacaContexto(c)) = 2 + Len(SerialPackVars(c.args)) + Len(SerialPackVars(c.vars)) + 6
<1>1. /\ EmpacaContexto(c) \in Seq(Octetos \cup C)
      /\ Len(EmpacaContexto(c)) = Len(EmpacaH(<<c.retPos>>)) + Len(SerialPackVars(c.args))
                                  + Len(SerialPackVars(c.vars)) + Len(EmpacaPos(c.retVar))
  BY ContextPieces, FourPieces DEF EmpacaContexto
<1>2. Len(EmpacaH(<<c.retPos>>)) = 2 /\ Len(EmpacaPos(c.retVar)) = 6
  BY ContextPieces
<1> QED BY <1>1, <1>2, LenProperties

LEMMA ReadContext ==
  ASSUME NEW C, NEW c \in ContextosH(C), NEW buf, NEW t \in Nat,
         Esta(buf, t, EmpacaContexto(c)), NEW lista
  PROVE  LeeContexto(buf, [tam |-> t, lista |-> lista])
           = [tam |-> t + Len(EmpacaContexto(c)), lista |-> Append(lista, c)]
<1> DEFINE A == Len(SerialPackVars(c.args))
           V == Len(SerialPackVars(c.vars))
<1>1. /\ c.retPos \in Numeros /\ c.args \in VariablesH(C) /\ c.vars \in VariablesH(C)
      /\ c.retVar \in PosH /\ A \in Nat /\ V \in Nat
      /\ Len(EmpacaH(<<c.retPos>>)) = 2
  BY ContextPieces
<1>2. /\ Esta(buf, t, EmpacaH(<<c.retPos>>)) /\ Esta(buf, t + 2, SerialPackVars(c.args))
      /\ Esta(buf, t + 2 + A, SerialPackVars(c.vars))
      /\ Esta(buf, t + 2 + A + V, EmpacaPos(c.retVar))
  <2> DEFINE ret  == EmpacaH(<<c.retPos>>)
             args == SerialPackVars(c.args)
             vars == SerialPackVars(c.vars)
             pos  == EmpacaPos(c.retVar)
             S    == Octetos \cup C
  <2>1. ret \in Seq(S) /\ args \in Seq(S) /\ vars \in Seq(S) /\ pos \in Seq(S)
    BY ContextPieces
  <2>2. Esta(buf, t, ret \o args \o vars \o pos)
    BY DEF EmpacaContexto
  <2>3. Len(ret) = 2 /\ Len(args) = A /\ Len(vars) = V
    BY <1>1
  <2> HIDE DEF ret, args, vars, pos, S, A, V
  <2>4. /\ Esta(buf, t, ret) /\ Esta(buf, t + Len(ret), args)
        /\ Esta(buf, t + Len(ret) + Len(args), vars)
        /\ Esta(buf, t + Len(ret) + Len(args) + Len(vars), pos)
    BY <2>1, <2>2, FourPieces
  <2>5. /\ Esta(buf, t, ret) /\ Esta(buf, t + 2, args) /\ Esta(buf, t + 2 + A, vars)
        /\ Esta(buf, t + 2 + A + V, pos)
    BY <2>3, <2>4
  <2> QED BY <2>5 DEF ret, args, vars, pos
<1>3. LeeH(buf, t) = c.retPos
  BY <1>1, <1>2, NumberOf
<1>4. SerialUnpackVars(buf, t + 2) = [lista |-> c.args, tam |-> t + 2 + A]
  <2>1. t + 2 \in Nat
    OBVIOUS
  <2> QED BY <1>1, <1>2, <2>1, ReadVars
<1>5. SerialUnpackVars(buf, t + 2 + A) = [lista |-> c.vars, tam |-> t + 2 + A + V]
  <2>1. t + 2 + A \in Nat
    BY <1>1
  <2> HIDE DEF A
  <2> QED BY <1>1, <1>2, <2>1, ReadVars
<1>6. LeePos(buf, t + 2 + A + V) = c.retVar
  <2> HIDE DEF A, V
  <2>1. t + 2 + A + V \in Nat
    BY <1>1
  <2> QED BY <1>1, <1>2, <2>1, ReadPos
<1>7. t + Len(EmpacaContexto(c)) = t + 2 + A + V + 6
  <2>1. Len(EmpacaContexto(c)) = 2 + A + V + 6
    BY PackedContext
  <2> HIDE DEF A, V
  <2> QED BY <1>1, <2>1
<1> HIDE DEF A, V
<1> DEFINE leido == [tam |-> t, lista |-> lista]
           args  == SerialUnpackVars(buf, leido.tam + 2)
           vars  == SerialUnpackVars(buf, args.tam)
<1>8. args.lista = c.args /\ args.tam = t + 2 + A
  BY <1>4
<1>9. vars.lista = c.vars /\ vars.tam = t + 2 + A + V
  BY <1>5, <1>8
<1>10. LeeContexto(buf, leido)
         = [tam   |-> vars.tam + 6,
            lista |-> Append(leido.lista, [retPos |-> LeeH(buf, leido.tam),
                                           args   |-> args.lista, vars |-> vars.lista,
                                           retVar |-> LeePos(buf, vars.tam)])]
  BY DEF LeeContexto
<1> HIDE DEF args, vars
<1>11. c = [retPos |-> c.retPos, args |-> c.args, vars |-> c.vars, retVar |-> c.retVar]
  BY DEF ContextosH
<1>12. [retPos |-> LeeH(buf, leido.tam), args |-> args.lista, vars |-> vars.lista,
        retVar |-> LeePos(buf, vars.tam)] = c
  BY <1>3, <1>6, <1>8, <1>9, <1>11
<1>13. vars.tam + 6 = t + Len(EmpacaContexto(c)) /\ leido.lista = lista
  BY <1>7, <1>9
<1> HIDE DEF leido
<1>14. LeeContexto(buf, leido) = [tam |-> t + Len(EmpacaContexto(c)), lista |-> Append(lista, c)]
  BY <1>10, <1>12, <1>13
<1> QED BY <1>14 DEF leido

----------------------------------------------------------------------------
(* The stack.                                                              *)

\* What a loop has read so far is what one expects, if a round keeps it so.
LEMMA LoopFollows ==
  ASSUME NEW n \in Nat, NEW f, NEW g, f[0] = g[0],
         \A k \in 1..n : f[k - 1] = g[k - 1] => f[k] = g[k]
  PROVE  f[n] = g[n]
<1> DEFINE P == {k \in 0..n : f[k] = g[k]}
<1>1. 0 \in P
  OBVIOUS
<1>2. ASSUME NEW m \in 0..(n - 1), m \in P PROVE m + 1 \in P
  <2>1. m + 1 \in 1..n /\ m + 1 \in 0..n /\ (m + 1) - 1 = m
    OBVIOUS
  <2>2. f[m] = g[m]
    BY <1>2
  <2>3. f[m + 1] = g[m + 1]
    BY <2>1, <2>2
  <2> QED BY <2>1, <2>3
<1>3. n \in 0..n
  OBVIOUS
<1> HIDE DEF P
<1>4. \A k \in 0..n : k \in P
  BY <1>1, <1>2, OneByOne
<1> QED BY <1>3, <1>4 DEF P

LEMMA OneMoreRead ==
  ASSUME NEW S, NEW s \in Seq(S), NEW k \in 1..Len(s)
  PROVE  Append(SubSeq(s, 1, k - 1), s[k]) = SubSeq(s, 1, k)
<1>1. Len(s) \in Nat /\ \A i \in 1..Len(s) : s[i] \in S
  BY LenProperties, ElementOfSeq
<1> DEFINE a == SubSeq(s, 1, k - 1)
           b == SubSeq(s, 1, k)
<1>2. a \in Seq(S) /\ Len(a) = k - 1 /\ \A i \in 1..(k - 1) : a[i] = s[i]
  <2>1. 1 \in Int /\ k - 1 \in Int /\ \A i \in 1..(k - 1) : s[i] \in S
    BY <1>1
  <2>2. /\ a \in Seq(S) /\ Len(a) = IF 1 <= k - 1 THEN (k - 1) - 1 + 1 ELSE 0
        /\ \A i \in 1..((k - 1) - 1 + 1) : a[i] = s[1 + i - 1]
    BY <2>1, SubSeqProperties
  <2>3. (IF 1 <= k - 1 THEN (k - 1) - 1 + 1 ELSE 0) = k - 1 /\ (k - 1) - 1 + 1 = k - 1
    BY <1>1
  <2>4. \A i \in 1..(k - 1) : 1 + i - 1 = i
    OBVIOUS
  <2> HIDE DEF a
  <2> QED BY <2>2, <2>3, <2>4
<1>3. b \in Seq(S) /\ Len(b) = k /\ \A i \in 1..k : b[i] = s[i]
  <2>1. 1 \in Int /\ k \in Int /\ \A i \in 1..k : s[i] \in S
    BY <1>1
  <2>2. /\ b \in Seq(S) /\ Len(b) = IF 1 <= k THEN k - 1 + 1 ELSE 0
        /\ \A i \in 1..(k - 1 + 1) : b[i] = s[1 + i - 1]
    BY <2>1, SubSeqProperties
  <2>3. (IF 1 <= k THEN k - 1 + 1 ELSE 0) = k /\ k - 1 + 1 = k
    BY <1>1
  <2>4. \A i \in 1..k : 1 + i - 1 = i
    OBVIOUS
  <2> HIDE DEF b
  <2> QED BY <2>2, <2>3, <2>4
<1> HIDE DEF a, b
<1>4. /\ Append(a, s[k]) \in Seq(S) /\ Len(Append(a, s[k])) = Len(a) + 1
      /\ \A i \in 1..Len(a) : Append(a, s[k])[i] = a[i]
      /\ Append(a, s[k])[Len(a) + 1] = s[k]
  BY <1>1, <1>2, AppendProperties
<1>5. ASSUME NEW i \in 1..k PROVE Append(a, s[k])[i] = b[i]
  <2>1. CASE i = k
    BY <1>2, <1>3, <1>4, <2>1
  <2>2. CASE i # k
    <3>1. i \in 1..(k - 1)
      BY <2>2
    <3> QED BY <1>2, <1>3, <1>4, <3>1
  <2> QED BY <2>1, <2>2
<1>6. Len(Append(a, s[k])) = Len(b)
  BY <1>2, <1>3, <1>4
<1> QED BY <1>3, <1>4, <1>5, <1>6, SeqEqual DEF a, b

LEMMA AllRead ==
  ASSUME NEW S, NEW s \in Seq(S)
  PROVE  SubSeq(s, 1, 0) = <<>> /\ SubSeq(s, 1, Len(s)) = s
<1>1. Len(s) \in Nat /\ \A i \in 1..Len(s) : s[i] \in S
  BY LenProperties, ElementOfSeq
<1> DEFINE n == Len(s)
           b == SubSeq(s, 1, n)
<1>2. SubSeq(s, 1, 0) = <<>>
  BY SubSeqEmpty
<1>3. b \in Seq(S) /\ Len(b) = n /\ \A i \in 1..n : b[i] = s[i]
  <2>1. 1 \in Int /\ n \in Int /\ \A i \in 1..n : s[i] \in S
    BY <1>1
  <2>2. /\ b \in Seq(S) /\ Len(b) = IF 1 <= n THEN n - 1 + 1 ELSE 0
        /\ \A i \in 1..(n - 1 + 1) : b[i] = s[1 + i - 1]
    BY <2>1, SubSeqProperties
  <2>3. (IF 1 <= n THEN n - 1 + 1 ELSE 0) = n /\ n - 1 + 1 = n
    BY <1>1
  <2>4. \A i \in 1..n : 1 + i - 1 = i
    BY <1>1
  <2> HIDE DEF b, n
  <2> QED BY <2>2, <2>3, <2>4
<1> HIDE DEF b
<1> QED BY <1>2, <1>3, SeqEqual DEF b

LEMMA StackLaidOut ==
  ASSUME NEW C, NEW st \in Listas(ContextosH(C))
  PROVE  \E ss, hasta :
           /\ SerialPackStack(st) = EmpacaH(<<Len(st)>>) \o FlattenSeq(ss)
           /\ FlattenSeq(ss) \in Seq(Octetos \cup C)
           /\ hasta \in [0..Len(st) -> Nat] /\ hasta[0] = 0
           /\ Len(FlattenSeq(ss)) = hasta[Len(st)]
           /\ \A k \in 1..Len(st) :
                /\ ss[k] = EmpacaContexto(st[k])
                /\ hasta[k] = hasta[k - 1] + Len(ss[k]) /\ hasta[k] <= hasta[Len(st)]
                /\ Esta(FlattenSeq(ss), hasta[k - 1], ss[k])
<1> DEFINE n  == Len(st)
           S  == Octetos \cup C
           ss == [k \in DOMAIN st |-> EmpacaContexto(st[k])]
<1>1. st \in Seq(ContextosH(C))
  BY DEF Listas
<1>2. n \in Nat /\ DOMAIN st = 1..n
  BY <1>1, LenProperties
<1>3. \A k \in 1..n : EmpacaContexto(st[k]) \in Seq(S)
  BY <1>1, ElementOfSeq, PackedContext
<1>4. ss \in [1..n -> Seq(S)] /\ \A k \in 1..n : ss[k] = EmpacaContexto(st[k])
  BY <1>2, <1>3
<1>5. SerialPackStack(st) = EmpacaH(<<n>>) \o FlattenSeq(ss)
  BY DEF SerialPackStack, EmpacaContexto
<1> HIDE DEF ss, n, S
<1>6. PICK hasta \in [0..n -> Nat] :
        /\ hasta[0] = 0
        /\ FlattenSeq(ss) \in Seq(S) /\ Len(FlattenSeq(ss)) = hasta[n]
        /\ \A k \in 1..n : /\ hasta[k] = hasta[k - 1] + Len(ss[k]) /\ hasta[k] <= hasta[n]
                           /\ Esta(FlattenSeq(ss), hasta[k - 1], ss[k])
  BY <1>2, <1>4, Flattened
<1> QED BY <1>4, <1>5, <1>6 DEF n, S

LEMMA PackedStack ==
  ASSUME NEW C, NEW st \in Listas(ContextosH(C))
  PROVE  SerialPackStack(st) \in Seq(Octetos \cup C)
<1>1. PICK ss : /\ SerialPackStack(st) = EmpacaH(<<Len(st)>>) \o FlattenSeq(ss)
                /\ FlattenSeq(ss) \in Seq(Octetos \cup C)
  BY StackLaidOut
<1>2. Len(st) \in Cuantos
  BY DEF Listas
<1>3. EmpacaH(<<Len(st)>>) \in Seq(Octetos \cup C)
  BY <1>2, CountOf, OctetosEn
<1> QED BY <1>1, <1>3, ConcatProperties

LEMMA ReadStack ==
  ASSUME NEW C, NEW st \in Listas(ContextosH(C)), NEW buf, NEW t \in Nat,
         Esta(buf, t, SerialPackStack(st))
  PROVE  SerialUnpackStack(buf, t) = st
<1> DEFINE n == Len(st)
<1>1. PICK ss, hasta :
        /\ SerialPackStack(st) = EmpacaH(<<n>>) \o FlattenSeq(ss)
        /\ FlattenSeq(ss) \in Seq(Octetos \cup C)
        /\ hasta \in [0..n -> Nat] /\ hasta[0] = 0
        /\ Len(FlattenSeq(ss)) = hasta[n]
        /\ \A k \in 1..n : /\ ss[k] = EmpacaContexto(st[k])
                           /\ hasta[k] = hasta[k - 1] + Len(ss[k]) /\ hasta[k] <= hasta[n]
                           /\ Esta(FlattenSeq(ss), hasta[k - 1], ss[k])
  BY StackLaidOut
<1>2. n \in Cuantos /\ n \in Nat /\ st \in Seq(ContextosH(C)) /\ n = Len(st)
  BY CountsFit DEF Listas
<1> HIDE DEF n
<1>3. EmpacaH(<<n>>) \in Seq(Octetos \cup C) /\ Len(EmpacaH(<<n>>)) = 2
  BY <1>2, CountOf, OctetosEn
<1>4. Esta(buf, t, EmpacaH(<<n>>)) /\ Esta(buf, t + Len(EmpacaH(<<n>>)), FlattenSeq(ss))
  BY <1>1, <1>3, PiecesOfConcat
<1>5. t + 2 \in Nat /\ Esta(buf, t + 2, FlattenSeq(ss))
  <2>1. t + 2 \in Nat
    OBVIOUS
  <2>2. t + Len(EmpacaH(<<n>>)) = t + 2
    BY ONLY <1>3
  <2> QED BY <1>4, <2>1, <2>2
<1>6. LeeH(buf, t) = n
  BY <1>2, <1>4, CountOf
<1> DEFINE m == LeeH(buf, t)
           Lee(f) == [k \in 0..m |-> IF k = 0 THEN [tam |-> t + 2, lista |-> <<>>]
                                     ELSE LeeContexto(buf, f[k - 1])]
           leido == CHOOSE f : f = Lee(f)
           bien  == [k \in 0..n |-> [tam |-> (t + 2) + hasta[k], lista |-> SubSeq(st, 1, k)]]
<1>7. SerialUnpackStack(buf, t) = leido[m].lista
  BY DEF SerialUnpackStack
<1>8. ASSUME NEW k \in 1..n
      PROVE  LeeContexto(buf, bien[k - 1]) = bien[k]
  <2>1. k - 1 \in 0..n /\ k \in 0..n /\ n \in 0..n
    BY <1>2
  <2>2. /\ st[k] \in ContextosH(C) /\ ss[k] = EmpacaContexto(st[k])
        /\ Len(ss[k]) \in Nat
    <3>1. st[k] \in ContextosH(C)
      BY <1>2, ElementOfSeq
    <3> QED BY <1>1, <3>1, PackedContext
  <2>3. /\ hasta[k - 1] \in Nat /\ hasta[k] \in Nat /\ hasta[n] \in Nat
        /\ hasta[k] = hasta[k - 1] + Len(ss[k]) /\ hasta[k] <= hasta[n]
    BY <1>1, <2>1
  <2> DEFINE d == (t + 2) + hasta[k - 1]
  <2>4. d \in Nat /\ (t + 2) + hasta[k] = d + Len(ss[k])
    BY <2>2, <2>3
  <2>5. Esta(buf, d, ss[k])
    <3>1. /\ Esta(FlattenSeq(ss), hasta[k - 1], ss[k]) /\ Len(FlattenSeq(ss)) \in Nat
          /\ hasta[k - 1] + Len(ss[k]) <= Len(FlattenSeq(ss))
      BY <1>1, <2>3
    <3> QED BY <1>5, <2>2, <2>3, <3>1, PieceOfPiece
  <2>6. bien[k - 1] = [tam |-> d, lista |-> SubSeq(st, 1, k - 1)]
    BY <2>1
  <2>7. bien[k] = [tam |-> (t + 2) + hasta[k], lista |-> SubSeq(st, 1, k)]
    BY <2>1
  <2>8. Append(SubSeq(st, 1, k - 1), st[k]) = SubSeq(st, 1, k)
    BY <1>2, OneMoreRead
  <2> HIDE DEF bien, d
  <2>9. LeeContexto(buf, [tam |-> d, lista |-> SubSeq(st, 1, k - 1)])
          = [tam |-> d + Len(ss[k]), lista |-> Append(SubSeq(st, 1, k - 1), st[k])]
    <3> DEFINE c == st[k]
    <3>1. c \in ContextosH(C) /\ Esta(buf, d, EmpacaContexto(c)) /\ d \in Nat
      BY <2>2, <2>4, <2>5
    <3> HIDE DEF c
    <3>2. \A lista : LeeContexto(buf, [tam |-> d, lista |-> lista])
                      = [tam |-> d + Len(EmpacaContexto(c)), lista |-> Append(lista, c)]
      BY ONLY <3>1, ReadContext
    <3>3. ss[k] = EmpacaContexto(c)
      BY <2>2 DEF c
    <3> HIDE DEF EmpacaContexto
    <3> QED BY <3>2, <3>3 DEF c
  <2> QED BY <2>4, <2>6, <2>7, <2>8, <2>9
<1>9. bien[0] = [tam |-> t + 2, lista |-> <<>>]
  <2>1. 0 \in 0..n /\ (t + 2) + hasta[0] = t + 2
    BY <1>1, <1>2
  <2> QED BY <1>2, <2>1, AllRead
<1>10. bien[n].lista = st
  <2>1. n \in 0..n
    BY <1>2
  <2> QED BY <1>2, <2>1, AllRead
<1>11. bien = Lee(bien)
  <2>1. ASSUME NEW k \in 0..n
        PROVE  bien[k] = IF k = 0 THEN [tam |-> t + 2, lista |-> <<>>]
                                  ELSE LeeContexto(buf, bien[k - 1])
    <3> HIDE DEF bien
    <3>1. k # 0 => k \in 1..n
      BY <1>2
    <3> QED BY <1>8, <1>9, <3>1
  <2>2. bien = [k \in 0..n |-> bien[k]]
    OBVIOUS
  <2> HIDE DEF bien
  <2> QED BY <1>6, <2>1, <2>2
<1> HIDE DEF bien
<1>12. leido = Lee(leido)
  BY <1>11
<1> HIDE DEF leido
<1>13. leido[0] = bien[0]
  <2>1. 0 \in 0..m
    BY <1>2, <1>6
  <2> QED BY <1>9, <1>12, <2>1
<1>14. ASSUME NEW k \in 1..n, leido[k - 1] = bien[k - 1] PROVE leido[k] = bien[k]
  <2>1. k \in 0..m /\ k # 0
    BY <1>2, <1>6
  <2>2. leido[k] = LeeContexto(buf, leido[k - 1])
    BY <1>12, <2>1
  <2> QED BY <1>8, <1>14, <2>2
<1>15. leido[n] = bien[n]
  BY <1>2, <1>13, <1>14, LoopFollows
<1> QED BY <1>6, <1>7, <1>10, <1>15

----------------------------------------------------------------------------
(* Labels.                                                                 *)

Etiquetas(C) == [name : NombresH(C), PC : Numeros]

EmpacaEtiqueta(e) == EmpacaS(e.name) \o EmpacaH(<<e.PC>>)

LEMMA UpTo64 == ASSUME NEW n \in Nat PROVE n <= 64 => n \in 0..64 /\ ~(n > 64)
OBVIOUS

LEMMA NameLength ==
  ASSUME NEW C, NEW s \in NombresH(C)
  PROVE  /\ s \in Seq(C) /\ s \in Seq(Octetos \cup C)
         /\ Len(s) \in Cuantos /\ Len(s) \in 0..64 /\ ~(Len(s) > 64)
<1>0. s \in Seq(C) /\ Len(s) < 64
  BY DEF NombresH, MaxTag
<1>2. Len(s) \in Nat
  BY <1>0, LenProperties
<1>1. s \in Seq(C) /\ Len(s) <= 64
  BY <1>0, <1>2
<1>3. C \subseteq Octetos \cup C
  OBVIOUS
<1>4. s \in Seq(Octetos \cup C)
  BY <1>1, <1>3, SeqMonotonic
<1>5. Len(s) \in Cuantos
  BY <1>1, <1>2, Powers DEF Cuantos
<1>6. Len(s) \in 0..64 /\ ~(Len(s) > 64)
  BY <1>1, <1>2, UpTo64
<1> QED BY <1>1, <1>4, <1>5, <1>6

LEMMA PackedName ==
  ASSUME NEW C, NEW s \in NombresH(C)
  PROVE  /\ EmpacaS(s) \in Seq(Octetos \cup C) /\ Len(EmpacaS(s)) = 2 + Len(s)
         /\ \A buf : \A t \in Nat :
              Esta(buf, t, EmpacaS(s)) => LeeSinSigno(buf, t) = Len(s) /\ Esta(buf, t + 2, s)
<1>1. s \in Seq(Octetos \cup C) /\ Len(s) \in Cuantos /\ Len(s) \in Nat
  BY NameLength
<1> DEFINE h == EmpacaH(<<Len(s)>>)
           S == Octetos \cup C
<1>2. h \in Seq(S) /\ Len(h) = 2
  BY <1>1, CountOf, OctetosEn
<1>3. \A buf : \A t \in Nat : Esta(buf, t, h) => LeeSinSigno(buf, t) = Len(s)
  BY <1>1, CountOf
<1>4. EmpacaS(s) = h \o s
  BY DEF EmpacaS
<1> HIDE DEF h, S
<1>5. EmpacaS(s) \in Seq(S) /\ Len(EmpacaS(s)) = Len(h) + Len(s)
  BY <1>1, <1>2, <1>4, ConcatProperties DEF S
<1>6. ASSUME NEW buf, NEW t \in Nat, Esta(buf, t, EmpacaS(s))
      PROVE  LeeSinSigno(buf, t) = Len(s) /\ Esta(buf, t + 2, s)
  <2>1. Esta(buf, t, h) /\ Esta(buf, t + Len(h), s)
    BY <1>1, <1>2, <1>4, <1>6, PiecesOfConcat DEF S
  <2> QED BY <1>2, <1>3, <2>1
<1> QED BY <1>2, <1>5, <1>6 DEF S

LEMMA ReadName ==
  ASSUME NEW C, NEW s \in NombresH(C), NEW buf, NEW t \in Nat, Esta(buf, t, EmpacaS(s))
  PROVE  LeeTag(buf, t) = s
<1>1. s \in Seq(C) /\ Len(s) \in 0..64 /\ ~(Len(s) > 64)
  BY NameLength
<1>2. LeeSinSigno(buf, t) = Len(s) /\ Esta(buf, t + 2, s)
  BY PackedName
<1> DEFINE n == Len(s)
           r == SubSeq(buf, t + 3, t + 2 + n)
<1>3. LeeTag(buf, t) = r
  <2>1. ~(n > 64)
    BY <1>1
  <2>2. LeeTag(buf, t) = SubSeq(buf, t + 3, t + 2 + (IF n > 64 THEN 64 - 1 ELSE n))
    BY <1>2 DEF LeeTag, MaxTag
  <2> QED BY <2>1, <2>2
<1>4. r \in Seq(C) /\ Len(r) = n /\ \A i \in 1..n : r[i] = s[i]
  <2>1. t + 3 \in Int /\ t + 2 + n \in Int
    BY <1>1
  <2>2. ASSUME NEW i \in (t + 3)..(t + 2 + n) PROVE buf[i] \in C
    <3>1. i - (t + 2) \in 1..n /\ (t + 2) + (i - (t + 2)) = i
      BY <1>1
    <3>2. buf[(t + 2) + (i - (t + 2))] = s[i - (t + 2)]
      BY <1>2, <3>1 DEF Esta
    <3> QED BY <1>1, <3>1, <3>2, ElementOfSeq
  <2>3. /\ r \in Seq(C)
        /\ Len(r) = IF t + 3 <= t + 2 + n THEN (t + 2 + n) - (t + 3) + 1 ELSE 0
        /\ \A i \in 1..((t + 2 + n) - (t + 3) + 1) : r[i] = buf[(t + 3) + i - 1]
    BY <2>1, <2>2, SubSeqProperties
  <2>4. /\ (t + 2 + n) - (t + 3) + 1 = n
        /\ (IF t + 3 <= t + 2 + n THEN (t + 2 + n) - (t + 3) + 1 ELSE 0) = n
    BY <1>1
  <2>5. \A i \in 1..n : (t + 3) + i - 1 = (t + 2) + i
    BY <1>1
  <2>6. \A i \in 1..n : buf[(t + 2) + i] = s[i]
    BY <1>2 DEF Esta
  <2> HIDE DEF r, n
  <2> QED BY <2>3, <2>4, <2>5, <2>6
<1> HIDE DEF r
<1>5. r = s
  BY <1>1, <1>4, SeqEqual
<1> QED BY <1>3, <1>5

LEMMA PackedLabel ==
  ASSUME NEW C, NEW e \in Etiquetas(C)
  PROVE  /\ EmpacaEtiqueta(e) \in Seq(Octetos \cup C) /\ Len(EmpacaEtiqueta(e)) = Len(e.name) + 4
         /\ Len(e.name) \in Nat
         /\ \A buf : \A t \in Nat :
              Esta(buf, t, EmpacaEtiqueta(e)) =>
                Esta(buf, t, EmpacaS(e.name)) /\ Esta(buf, t + Len(e.name) + 2, EmpacaH(<<e.PC>>))
<1>1. e.name \in NombresH(C) /\ e.PC \in Numeros
  BY DEF Etiquetas
<1> DEFINE a == EmpacaS(e.name)
           b == EmpacaH(<<e.PC>>)
           S == Octetos \cup C
<1>2. a \in Seq(S) /\ Len(a) = 2 + Len(e.name) /\ Len(e.name) \in Nat
  <2>1. a \in Seq(S) /\ Len(a) = 2 + Len(e.name)
    BY <1>1, PackedName
  <2>2. Len(e.name) \in Cuantos
    BY <1>1, NameLength
  <2> QED BY <2>1, <2>2, CountsFit
<1>3. b \in Seq(S) /\ Len(b) = 2
  BY <1>1, NumberOf, OctetosEn
<1>4. EmpacaEtiqueta(e) = a \o b
  BY DEF EmpacaEtiqueta
<1> HIDE DEF a, b, S
<1>5. EmpacaEtiqueta(e) \in Seq(S) /\ Len(EmpacaEtiqueta(e)) = Len(a) + Len(b)
  <2>1. a \o b \in Seq(S) /\ Len(a \o b) = Len(a) + Len(b)
    BY <1>2, <1>3, ConcatProperties
  <2> QED BY <1>4, <2>1
<1>6. ASSUME NEW buf, NEW t \in Nat, Esta(buf, t, EmpacaEtiqueta(e))
      PROVE  Esta(buf, t, a) /\ Esta(buf, t + Len(e.name) + 2, b)
  <2>1. Esta(buf, t, a) /\ Esta(buf, t + Len(a), b)
    BY <1>2, <1>3, <1>4, <1>6, PiecesOfConcat
  <2>2. t + Len(a) = t + Len(e.name) + 2
    BY <1>2
  <2> QED BY <2>1, <2>2
<1>7. Len(EmpacaEtiqueta(e)) = Len(e.name) + 4
  BY <1>2, <1>3, <1>5
<1> QED BY <1>2, <1>5, <1>6, <1>7 DEF a, b, S

LEMMA ReadLabel ==
  ASSUME NEW C, NEW e \in Etiquetas(C), NEW buf, NEW t \in Nat,
         Esta(buf, t, EmpacaEtiqueta(e)), NEW lista
  PROVE  LeeEtiqueta(buf, [tam |-> t, lista |-> lista])
           = [tam |-> t + Len(EmpacaEtiqueta(e)), lista |-> Append(lista, e)]
<1>1. e.name \in NombresH(C) /\ e.PC \in Numeros /\ e = [name |-> e.name, PC |-> e.PC]
  BY DEF Etiquetas
<1>2. /\ Esta(buf, t, EmpacaS(e.name)) /\ Esta(buf, t + Len(e.name) + 2, EmpacaH(<<e.PC>>))
      /\ Len(EmpacaEtiqueta(e)) = Len(e.name) + 4 /\ Len(e.name) \in Nat
  BY PackedLabel
<1>3. LeeTag(buf, t) = e.name
  BY <1>1, <1>2, ReadName
<1>4. LeeH(buf, t + Len(e.name) + 2) = e.PC
  <2>1. t + Len(e.name) + 2 \in Nat
    BY <1>2
  <2> QED BY <1>1, <1>2, <2>1, NumberOf
<1>5. LeeEtiqueta(buf, [tam |-> t, lista |-> lista])
        = [tam   |-> t + Len(e.name) + 2 + 2,
           lista |-> Append(lista, [name |-> e.name, PC |-> e.PC])]
  BY <1>3, <1>4 DEF LeeEtiqueta
<1>6. t + Len(e.name) + 2 + 2 = t + Len(EmpacaEtiqueta(e))
  BY <1>2
<1> QED BY <1>1, <1>5, <1>6

EmpacaEtiquetas(tags) == FlattenSeq([k \in DOMAIN tags |-> EmpacaEtiqueta(tags[k])])

LEMMA LabelsLaidOut ==
  ASSUME NEW C, NEW tags \in Listas(Etiquetas(C))
  PROVE  \E hasta :
           /\ EmpacaEtiquetas(tags) \in Seq(Octetos \cup C)
           /\ hasta \in [0..Len(tags) -> Nat] /\ hasta[0] = 0
           /\ Len(EmpacaEtiquetas(tags)) = hasta[Len(tags)]
           /\ \A k \in 1..Len(tags) :
                /\ hasta[k] = hasta[k - 1] + Len(EmpacaEtiqueta(tags[k])) /\ hasta[k] <= hasta[Len(tags)]
                /\ Esta(EmpacaEtiquetas(tags), hasta[k - 1], EmpacaEtiqueta(tags[k]))
<1> DEFINE n  == Len(tags)
           S  == Octetos \cup C
           ss == [k \in DOMAIN tags |-> EmpacaEtiqueta(tags[k])]
<1>1. tags \in Seq(Etiquetas(C))
  BY DEF Listas
<1>2. n \in Nat /\ DOMAIN tags = 1..n
  BY <1>1, LenProperties
<1>3. \A k \in 1..n : EmpacaEtiqueta(tags[k]) \in Seq(S)
  BY <1>1, ElementOfSeq, PackedLabel
<1>4. ss \in [1..n -> Seq(S)] /\ \A k \in 1..n : ss[k] = EmpacaEtiqueta(tags[k])
  BY <1>2, <1>3
<1>5. EmpacaEtiquetas(tags) = FlattenSeq(ss)
  BY DEF EmpacaEtiquetas
<1> HIDE DEF ss, n, S
<1>6. PICK hasta \in [0..n -> Nat] :
        /\ hasta[0] = 0
        /\ FlattenSeq(ss) \in Seq(S) /\ Len(FlattenSeq(ss)) = hasta[n]
        /\ \A k \in 1..n : /\ hasta[k] = hasta[k - 1] + Len(ss[k]) /\ hasta[k] <= hasta[n]
                           /\ Esta(FlattenSeq(ss), hasta[k - 1], ss[k])
  BY <1>2, <1>4, Flattened
<1> QED BY <1>4, <1>5, <1>6 DEF n, S

LEMMA ReadLabels ==
  ASSUME NEW C, NEW tags \in Listas(Etiquetas(C)), NEW buf, NEW t \in Nat,
         Esta(buf, t, EmpacaEtiquetas(tags))
  PROVE  LeeEtiquetas(buf, t, Len(tags))
           = [tam |-> t + Len(EmpacaEtiquetas(tags)), lista |-> tags]
<1> DEFINE n == Len(tags)
           B == EmpacaEtiquetas(tags)
<1>1. PICK hasta :
        /\ hasta \in [0..n -> Nat] /\ hasta[0] = 0 /\ Len(B) = hasta[n]
        /\ \A k \in 1..n :
             /\ hasta[k] = hasta[k - 1] + Len(EmpacaEtiqueta(tags[k])) /\ hasta[k] <= hasta[n]
             /\ Esta(B, hasta[k - 1], EmpacaEtiqueta(tags[k]))
  BY LabelsLaidOut
<1>2. n \in Nat /\ tags \in Seq(Etiquetas(C)) /\ n = Len(tags) /\ Esta(buf, t, B)
  BY CountsFit DEF Listas
<1> HIDE DEF n, B
<1> DEFINE Lee(f) == [k \in 0..n |-> IF k = 0 THEN [tam |-> t, lista |-> <<>>]
                                     ELSE LeeEtiqueta(buf, f[k - 1])]
           leido == CHOOSE f : f = Lee(f)
           bien  == [k \in 0..n |-> [tam |-> t + hasta[k], lista |-> SubSeq(tags, 1, k)]]
<1>3. LeeEtiquetas(buf, t, n) = leido[n]
  BY DEF LeeEtiquetas
<1>4. ASSUME NEW k \in 1..n
      PROVE  LeeEtiqueta(buf, bien[k - 1]) = bien[k]
  <2>1. k - 1 \in 0..n /\ k \in 0..n /\ n \in 0..n
    BY <1>2
  <2> DEFINE e == EmpacaEtiqueta(tags[k])
  <2>2. tags[k] \in Etiquetas(C) /\ Len(e) \in Nat
    <3>1. tags[k] \in Etiquetas(C)
      BY <1>2, ElementOfSeq
    <3>2. e \in Seq(Octetos \cup C)
      BY <3>1, PackedLabel
    <3> QED BY <3>1, <3>2, LenProperties
  <2>3. /\ hasta[k - 1] \in Nat /\ hasta[k] \in Nat /\ hasta[n] \in Nat
        /\ hasta[k] = hasta[k - 1] + Len(e) /\ hasta[k] <= hasta[n]
    BY <1>1, <2>1
  <2> DEFINE d == t + hasta[k - 1]
  <2>4. d \in Nat /\ t + hasta[k] = d + Len(e)
    BY <2>2, <2>3
  <2>5. Esta(buf, d, e)
    <3>1. Esta(B, hasta[k - 1], e) /\ Len(B) \in Nat /\ hasta[k - 1] + Len(e) <= Len(B)
      BY <1>1, <2>3
    <3> QED BY <1>2, <2>2, <2>3, <3>1, PieceOfPiece
  <2>6. bien[k - 1] = [tam |-> d, lista |-> SubSeq(tags, 1, k - 1)]
    BY <2>1
  <2>7. bien[k] = [tam |-> t + hasta[k], lista |-> SubSeq(tags, 1, k)]
    BY <2>1
  <2>8. Append(SubSeq(tags, 1, k - 1), tags[k]) = SubSeq(tags, 1, k)
    BY <1>2, OneMoreRead
  <2> HIDE DEF bien, d
  <2>9. LeeEtiqueta(buf, [tam |-> d, lista |-> SubSeq(tags, 1, k - 1)])
          = [tam |-> d + Len(e), lista |-> Append(SubSeq(tags, 1, k - 1), tags[k])]
    BY <2>2, <2>4, <2>5, ReadLabel
  <2> QED BY <2>4, <2>6, <2>7, <2>8, <2>9
<1>5. bien[0] = [tam |-> t, lista |-> <<>>]
  <2>1. 0 \in 0..n /\ t + hasta[0] = t
    BY <1>1, <1>2
  <2> QED BY <1>2, <2>1, AllRead
<1>6. bien[n] = [tam |-> t + Len(B), lista |-> tags]
  <2>1. n \in 0..n
    BY <1>2
  <2> QED BY <1>1, <1>2, <2>1, AllRead
<1>7. bien = Lee(bien)
  <2>1. ASSUME NEW k \in 0..n
        PROVE  bien[k] = IF k = 0 THEN [tam |-> t, lista |-> <<>>]
                                  ELSE LeeEtiqueta(buf, bien[k - 1])
    <3> HIDE DEF bien
    <3>1. k # 0 => k \in 1..n
      BY <1>2
    <3> QED BY <1>4, <1>5, <3>1
  <2>2. bien = [k \in 0..n |-> bien[k]]
    OBVIOUS
  <2> HIDE DEF bien
  <2> QED BY <2>1, <2>2
<1> HIDE DEF bien
<1>8. leido = Lee(leido)
  BY <1>7
<1> HIDE DEF leido
<1>9. leido[0] = bien[0]
  <2>1. 0 \in 0..n
    BY <1>2
  <2> QED BY <1>5, <1>8, <2>1
<1>10. ASSUME NEW k \in 1..n, leido[k - 1] = bien[k - 1] PROVE leido[k] = bien[k]
  <2>1. k \in 0..n /\ k # 0
    BY <1>2
  <2>2. leido[k] = LeeEtiqueta(buf, leido[k - 1])
    BY <1>8, <2>1
  <2> QED BY <1>4, <1>10, <2>2
<1>11. leido[n] = bien[n]
  BY <1>2, <1>9, <1>10, LoopFollows
<1> QED BY <1>2, <1>3, <1>6, <1>11 DEF B

----------------------------------------------------------------------------
(* The index of the code.                                                  *)

Indice == [start : Numeros, offset : Numeros]

NumerosDe(lista) == FlattenSeq([k \in DOMAIN lista |-> <<lista[k].start, lista[k].offset>>])

LEMMA IndexLaidOut ==
  ASSUME NEW lista \in Listas(Indice)
  PROVE  /\ NumerosDe(lista) \in Seq(Numeros) /\ Len(NumerosDe(lista)) = 2 * Len(lista)
         /\ \A k \in 1..Len(lista) : /\ NumerosDe(lista)[2 * k - 1] = lista[k].start
                                     /\ NumerosDe(lista)[2 * k] = lista[k].offset
<1> DEFINE n  == Len(lista)
           ss == [k \in DOMAIN lista |-> <<lista[k].start, lista[k].offset>>]
<1>1. lista \in Seq(Indice)
  BY DEF Listas
<1>2. n \in Nat /\ DOMAIN lista = 1..n
  BY <1>1, LenProperties
<1>3. ASSUME NEW k \in 1..n
      PROVE  <<lista[k].start, lista[k].offset>> \in Seq(Numeros)
  <2>1. lista[k] \in Indice
    BY <1>1, ElementOfSeq
  <2> HIDE DEF n
  <2> QED BY <2>1 DEF Indice
<1>4. /\ ss \in [1..n -> Seq(Numeros)]
      /\ \A k \in 1..n : /\ ss[k] = <<lista[k].start, lista[k].offset>>
                         /\ Len(ss[k]) = 2
  BY <1>2, <1>3
<1>5. NumerosDe(lista) = FlattenSeq(ss)
  BY DEF NumerosDe
<1> HIDE DEF ss, n
<1>6. /\ FlattenSeq(ss) \in Seq(Numeros) /\ Len(FlattenSeq(ss)) = 2 * n
      /\ \A k \in 1..n : Esta(FlattenSeq(ss), 2 * (k - 1), ss[k])
  BY <1>2, <1>4, FixedPieces
<1>7. ASSUME NEW k \in 1..n
      PROVE  /\ NumerosDe(lista)[2 * k - 1] = lista[k].start
             /\ NumerosDe(lista)[2 * k] = lista[k].offset
  <2>1. \A j \in 1..2 : NumerosDe(lista)[2 * (k - 1) + j] = ss[k][j]
    BY <1>4, <1>5, <1>6 DEF Esta
  <2>2. ss[k][1] = lista[k].start /\ ss[k][2] = lista[k].offset
    BY <1>4
  <2>3. 2 * (k - 1) + 1 = 2 * k - 1 /\ 2 * (k - 1) + 2 = 2 * k /\ 1 \in 1..2 /\ 2 \in 1..2
    BY <1>2
  <2> QED BY <2>1, <2>2, <2>3
<1> QED BY <1>5, <1>6, <1>7 DEF n

LEMMA ReadIndex ==
  ASSUME NEW lista \in Listas(Indice), NEW buf, Esta(buf, 18, EmpacaH(NumerosDe(lista)))
  PROVE  [k \in 1..Len(lista) |-> [start  |-> LeeH(buf, 4 * k + 14),
                                   offset |-> LeeH(buf, 4 * k + 16)]] = lista
<1> DEFINE n  == Len(lista)
           ns == NumerosDe(lista)
<1>1. lista \in Seq(Indice) /\ n \in Nat
  BY LenProperties DEF Listas
<1>2. /\ ns \in Seq(Numeros) /\ Len(ns) = 2 * n
      /\ \A k \in 1..n : ns[2 * k - 1] = lista[k].start /\ ns[2 * k] = lista[k].offset
  BY IndexLaidOut
<1>3. Esta(buf, 18, EmpacaH(ns)) /\ 18 \in Nat
  OBVIOUS
<1> HIDE DEF ns
<1>4. \A j \in 1..Len(ns) : LeeH(buf, 18 + 2 * (j - 1)) = ns[j]
  BY <1>2, <1>3, ReadsH
<1>5. ASSUME NEW k \in 1..n
      PROVE  lista[k] = [start |-> LeeH(buf, 4 * k + 14), offset |-> LeeH(buf, 4 * k + 16)]
  <2>1. lista[k] \in Indice
    BY <1>1, ElementOfSeq
  <2>2. LeeH(buf, 4 * k + 14) = lista[k].start
    <3>1. 2 * k - 1 \in 1..Len(ns) /\ 18 + 2 * ((2 * k - 1) - 1) = 4 * k + 14
      BY <1>1, <1>2
    <3> QED BY <1>2, <1>4, <3>1
  <2>3. LeeH(buf, 4 * k + 16) = lista[k].offset
    <3>1. 2 * k \in 1..Len(ns) /\ 18 + 2 * (2 * k - 1) = 4 * k + 16
      BY <1>1, <1>2
    <3> QED BY <1>2, <1>4, <3>1
  <2> HIDE DEF n
  <2> QED BY <2>1, <2>2, <2>3 DEF Indice
<1>6. lista = [k \in 1..n |-> lista[k]]
  BY <1>1, LenProperties
<1> HIDE DEF n
<1> QED BY <1>5, <1>6 DEF n

----------------------------------------------------------------------------
(* The PCB.                                                                *)

Cabecera(pcb) ==
  <<pcb.idProcess, pcb.PC, pcb.quantum, pcb.status, pcb.pagesCode,
    Len(pcb.indexCode), Len(pcb.indexTag), pcb.stackPointer, pcb.exitCode>>

LEMMA PcbFields ==
  ASSUME NEW C, NEW pcb \in PcbsH(C)
  PROVE  /\ pcb.indexCode \in Listas(Indice) /\ Len(pcb.indexCode) \in Cuantos
         /\ pcb.indexTag \in Listas(Etiquetas(C)) /\ Len(pcb.indexTag) \in Cuantos
         /\ pcb.stack \in Listas(ContextosH(C))
         /\ Cabecera(pcb) \in Seq(Numeros) /\ Len(Cabecera(pcb)) = 9
<1>1. /\ pcb.indexCode \in Listas(Indice) /\ pcb.indexTag \in Listas(Etiquetas(C))
      /\ pcb.stack \in Listas(ContextosH(C))
      /\ pcb.idProcess \in Numeros /\ pcb.PC \in Numeros /\ pcb.quantum \in Numeros
      /\ pcb.status \in Numeros /\ pcb.pagesCode \in Numeros /\ pcb.stackPointer \in Numeros
      /\ pcb.exitCode \in Numeros
  BY DEF PcbsH, Indice, Etiquetas
<1>2. Len(pcb.indexCode) \in Cuantos /\ Len(pcb.indexTag) \in Cuantos
  BY <1>1 DEF Listas
<1>3. Len(pcb.indexCode) \in Numeros /\ Len(pcb.indexTag) \in Numeros
  BY <1>2, CountsFit
<1>4. Cabecera(pcb) \in Seq(Numeros) /\ Len(Cabecera(pcb)) = 9
  BY <1>1, <1>3 DEF Cabecera
<1> QED BY <1>1, <1>2, <1>4

\* serial_pack_pcb and serial_unpack_pcb.
LEMMA PcbPieces ==
  ASSUME NEW C, NEW pcb \in PcbsH(C)
  PROVE  LET buf == SerialPackPcb(pcb)
             cod == 18 + 4 * Len(pcb.indexCode)
         IN  /\ Esta(buf, 0, EmpacaH(Cabecera(pcb)))
             /\ Esta(buf, 18, EmpacaH(NumerosDe(pcb.indexCode)))
             /\ Esta(buf, cod, EmpacaEtiquetas(pcb.indexTag))
             /\ Esta(buf, cod + Len(EmpacaEtiquetas(pcb.indexTag)), SerialPackStack(pcb.stack))
<1> DEFINE S == Octetos \cup C
           a == EmpacaH(Cabecera(pcb))
           b == EmpacaH(NumerosDe(pcb.indexCode))
           c == EmpacaEtiquetas(pcb.indexTag)
           d == SerialPackStack(pcb.stack)
           n == Len(pcb.indexCode)
<1>1. a \in Seq(S) /\ Len(a) = 18
  <2>1. EmpacaH(Cabecera(pcb)) \in Seq(Octetos) /\ Len(EmpacaH(Cabecera(pcb))) = 2 * 9
    BY PcbFields, LengthH
  <2> QED BY <2>1, OctetosEn
<1>2. n \in Nat
  BY PcbFields, CountsFit
<1>3. b \in Seq(S) /\ Len(b) = 4 * n
  <2>1. /\ NumerosDe(pcb.indexCode) \in Seq(Numeros)
        /\ Len(NumerosDe(pcb.indexCode)) = 2 * n
    BY PcbFields, IndexLaidOut
  <2>2. b \in Seq(Octetos) /\ Len(b) = 2 * (2 * n)
    BY <2>1, LengthH
  <2> QED BY <1>2, <2>2, OctetosEn
<1>4. c \in Seq(S)
  BY PcbFields, LabelsLaidOut
<1>5. d \in Seq(S)
  BY PcbFields, PackedStack
<1>6. SerialPackPcb(pcb) = a \o b \o c \o d
  BY DEF SerialPackPcb, Cabecera, NumerosDe, EmpacaEtiquetas, EmpacaEtiqueta
<1> DEFINE buf == SerialPackPcb(pcb)
<1>7. Esta(buf, 0, a \o b \o c \o d)
  BY <1>6, WholeBuffer
<1> HIDE DEF S, a, b, c, d, n, buf
<1>8. /\ Esta(buf, 0, a) /\ Esta(buf, 0 + Len(a), b) /\ Esta(buf, 0 + Len(a) + Len(b), c)
      /\ Esta(buf, 0 + Len(a) + Len(b) + Len(c), d)
  <2>1. 0 \in Nat
    OBVIOUS
  <2>2. a \in Seq(S) /\ b \in Seq(S) /\ c \in Seq(S) /\ d \in Seq(S)
    BY <1>1, <1>3, <1>4, <1>5
  <2>3. \A t \in Nat : Esta(buf, t, a \o b \o c \o d) =>
          /\ Esta(buf, t, a) /\ Esta(buf, t + Len(a), b) /\ Esta(buf, t + Len(a) + Len(b), c)
          /\ Esta(buf, t + Len(a) + Len(b) + Len(c), d)
    BY <2>2, FourPieces
  <2> QED BY <1>7, <2>1, <2>3
<1>9. 0 + Len(a) = 18 /\ 0 + Len(a) + Len(b) = 18 + 4 * n
  BY <1>1, <1>2, <1>3
<1>10. /\ Esta(buf, 0, a) /\ Esta(buf, 18, b) /\ Esta(buf, 18 + 4 * n, c)
       /\ Esta(buf, 18 + 4 * n + Len(c), d)
  BY <1>8, <1>9
<1> QED BY <1>10 DEF a, b, c, d, n, buf

\* Each context of the stack takes a byte of the buffer at least, and then a PCB
\* with 2^15 of them does not fit in the buffer, whatever its count is packed as.
LEMMA StackIsLong ==
  ASSUME NEW C, NEW st \in Seq(ContextosH(C))
  PROVE  /\ SerialPackStack(st) \in Seq(Int \cup C)
         /\ Len(st) <= Len(SerialPackStack(st))
<1> DEFINE n  == Len(st)
           ss == [k \in DOMAIN st |-> EmpacaContexto(st[k])]
           a  == EmpacaH(<<n>>)
           S  == Int \cup C
<1>1. n \in Nat /\ DOMAIN st = 1..n
  BY LenProperties
<1>2. Octetos \cup C \subseteq S
  BY WholeOctets
<1>3. ASSUME NEW k \in 1..n
      PROVE  EmpacaContexto(st[k]) \in Seq(S) /\ Len(EmpacaContexto(st[k])) >= 1
  <2>1. st[k] \in ContextosH(C)
    BY ElementOfSeq
  <2> DEFINE c == st[k]  e == EmpacaContexto(c)
             A == Len(SerialPackVars(c.args))  V == Len(SerialPackVars(c.vars))
  <2> HIDE DEF c
  <2>2. e \in Seq(Octetos \cup C) /\ Len(e) = 2 + A + V + 6
    BY <2>1, PackedContext DEF c
  <2>3. A \in Nat /\ V \in Nat
    BY <2>1, ContextPieces DEF c
  <2> HIDE DEF e, A, V, S
  <2>4. e \in Seq(S)
    BY <1>2, <2>2, SeqMonotonic
  <2>5. Len(e) >= 1
    BY <2>2, <2>3
  <2> QED BY <2>4, <2>5 DEF e, c
<1>4. ss \in [1..n -> Seq(S)] /\ \A k \in 1..n : Len(ss[k]) >= 1
  BY <1>1, <1>3
<1>5. a \in Seq(S) /\ Len(a) = 2
  <2> DEFINE b == [k \in 1..2 |-> LET i == <<n>>[(k + 1) \div 2] % 65536
                                  IN  IF k % 2 = 1 THEN i \div 256 ELSE i % 256]
  <2>1. a = b
    BY Powers DEF EmpacaH
  <2>2. ASSUME NEW k \in 1..2 PROVE b[k] \in Int
    <3>1. (k + 1) \div 2 = 1
      OBVIOUS
    <3>2. n % 65536 \in Int
      BY <1>1
    <3> DEFINE i == n % 65536
    <3>3. b[k] = IF k % 2 = 1 THEN i \div 256 ELSE i % 256
      BY <3>1
    <3> HIDE DEF i, b
    <3>4. i \div 256 \in Int /\ i % 256 \in Int
      BY <3>2 DEF i
    <3> QED BY <3>3, <3>4
  <2> HIDE DEF b
  <2>3. b \in [1..2 -> S]
    BY <2>2 DEF b
  <2>4. b \in Seq(S)
    BY <2>3, SeqDef
  <2>5. Len(b) = 2
    BY <2>3, <2>4, LenProperties
  <2> QED BY <2>1, <2>4, <2>5
<1>6. SerialPackStack(st) = a \o FlattenSeq(ss)
  BY DEF SerialPackStack, EmpacaContexto
<1> HIDE DEF ss, n, a, S
<1>7. FlattenSeq(ss) \in Seq(S) /\ Len(FlattenSeq(ss)) \in Nat /\ n <= Len(FlattenSeq(ss))
  BY <1>1, <1>4, OneByteEach
<1>8. a \o FlattenSeq(ss) \in Seq(S) /\ Len(a \o FlattenSeq(ss)) = Len(a) + Len(FlattenSeq(ss))
  BY <1>5, <1>7, ConcatProperties
<1>9. n <= Len(a \o FlattenSeq(ss))
  BY <1>1, <1>5, <1>7, <1>8
<1> QED BY <1>6, <1>8, <1>9 DEF n, S

LEMMA PcbIsLong ==
  ASSUME NEW C, NEW pcb, [pcb EXCEPT !.stack = <<>>] \in PcbsH(C),
         DOMAIN pcb = DOMAIN [pcb EXCEPT !.stack = <<>>],
         pcb.stack \in Seq(ContextosH(C))
  PROVE  /\ SerialPackPcb(pcb) \in Seq(Int \cup C)
         /\ Len(pcb.stack) <= Len(SerialPackPcb(pcb))
<1> DEFINE q == [pcb EXCEPT !.stack = <<>>]
           S == Int \cup C
           a == EmpacaH(Cabecera(pcb))
           b == EmpacaH(NumerosDe(pcb.indexCode))
           c == EmpacaEtiquetas(pcb.indexTag)
           d == SerialPackStack(pcb.stack)
<1>1. /\ q.idProcess = pcb.idProcess /\ q.PC = pcb.PC /\ q.quantum = pcb.quantum
      /\ q.status = pcb.status /\ q.pagesCode = pcb.pagesCode /\ q.indexCode = pcb.indexCode
      /\ q.indexTag = pcb.indexTag /\ q.stackPointer = pcb.stackPointer
      /\ q.exitCode = pcb.exitCode
  OBVIOUS
<1>2. q \in PcbsH(C)
  OBVIOUS
<1> HIDE DEF q
<1>3. Cabecera(q) = Cabecera(pcb)
  BY <1>1 DEF Cabecera
<1>4. /\ pcb.indexCode \in Listas(Indice) /\ pcb.indexTag \in Listas(Etiquetas(C))
      /\ Cabecera(pcb) \in Seq(Numeros)
  BY <1>1, <1>2, <1>3, PcbFields
<1>5. Octetos \subseteq S /\ Octetos \cup C \subseteq S
  BY WholeOctets
<1>6. a \in Seq(Octetos) /\ b \in Seq(Octetos)
  BY <1>4, LengthH, IndexLaidOut
<1>7. c \in Seq(Octetos \cup C)
  BY <1>4, LabelsLaidOut
<1>8. d \in Seq(S) /\ Len(pcb.stack) <= Len(d)
  BY StackIsLong
<1>9. SerialPackPcb(pcb) = a \o b \o c \o d
  BY DEF SerialPackPcb, Cabecera, NumerosDe, EmpacaEtiquetas, EmpacaEtiqueta
<1> HIDE DEF S, a, b, c, d
<1>10. a \in Seq(S) /\ b \in Seq(S) /\ c \in Seq(S) /\ d \in Seq(S)
  BY <1>5, <1>6, <1>7, <1>8, SeqMonotonic
<1>11. /\ a \o b \o c \o d \in Seq(S)
       /\ Len(a \o b \o c \o d) = Len(a) + Len(b) + Len(c) + Len(d)
  BY <1>10, FourPieces
<1>12. Len(a) \in Nat /\ Len(b) \in Nat /\ Len(c) \in Nat /\ Len(d) \in Nat
  BY <1>10, LenProperties
<1>13. Len(pcb.stack) \in Nat
  BY LenProperties
<1>14. Len(d) <= Len(a \o b \o c \o d)
  BY <1>11, <1>12
<1> QED BY <1>8, <1>9, <1>11, <1>12, <1>13, <1>14 DEF S

\* Whatever PCB one side packs, the other side has it again: its numbers and
\* counts must fit in 16 bits, and its names in the buffer of serial_unpack.
THEOREM PcbUnpacks ==
  ASSUME NEW C, NEW pcb \in PcbsH(C)
  PROVE  SerialUnpackPcb(SerialPackPcb(pcb)) = pcb
<1> DEFINE buf == SerialPackPcb(pcb)
           cab == Cabecera(pcb)
           n   == Len(pcb.indexCode)
           m   == Len(pcb.indexTag)
           L   == Len(EmpacaEtiquetas(pcb.indexTag))
<1>1. /\ pcb.indexCode \in Listas(Indice) /\ n \in Nat /\ m \in Nat
      /\ pcb.indexTag \in Listas(Etiquetas(C)) /\ pcb.stack \in Listas(ContextosH(C))
      /\ cab \in Seq(Numeros) /\ Len(cab) = 9
  BY PcbFields, CountsFit
<1>2. /\ Esta(buf, 0, EmpacaH(cab)) /\ Esta(buf, 18, EmpacaH(NumerosDe(pcb.indexCode)))
      /\ Esta(buf, 18 + 4 * n, EmpacaEtiquetas(pcb.indexTag))
      /\ Esta(buf, 18 + 4 * n + L, SerialPackStack(pcb.stack))
  BY PcbPieces
<1>3. /\ cab[1] = pcb.idProcess /\ cab[2] = pcb.PC /\ cab[3] = pcb.quantum
      /\ cab[4] = pcb.status /\ cab[5] = pcb.pagesCode /\ cab[6] = n /\ cab[7] = m
      /\ cab[8] = pcb.stackPointer /\ cab[9] = pcb.exitCode
  BY DEF Cabecera
<1> HIDE DEF buf, cab
<1>4. ASSUME NEW k \in 1..9 PROVE LeeH(buf, 2 * (k - 1)) = cab[k]
  <2>1. 0 \in Nat /\ k \in 1..Len(cab)
    BY <1>1
  <2>2. LeeH(buf, 0 + 2 * (k - 1)) = cab[k]
    BY <1>1, <1>2, <2>1, ReadsH
  <2>3. 0 + 2 * (k - 1) = 2 * (k - 1)
    OBVIOUS
  <2> QED BY <2>2, <2>3
<1> DEFINE campo(k) == LeeH(buf, 2 * (k - 1))
           codigo   == [k \in 1..campo(6) |-> [start  |-> LeeH(buf, 4 * k + 14),
                                               offset |-> LeeH(buf, 4 * k + 16)]]
           tags     == LeeEtiquetas(buf, 18 + 4 * Len(codigo), campo(7))
<1>5. SerialUnpackPcb(buf) =
        [idProcess |-> campo(1), PC |-> campo(2), quantum |-> campo(3), status |-> campo(4),
         pagesCode |-> campo(5), stackPointer |-> campo(8), exitCode |-> campo(9),
         indexCode |-> codigo, indexTag |-> tags.lista,
         stack     |-> SerialUnpackStack(buf, tags.tam)]
  BY DEF SerialUnpackPcb
<1>6. /\ campo(1) = pcb.idProcess /\ campo(2) = pcb.PC /\ campo(3) = pcb.quantum
      /\ campo(4) = pcb.status /\ campo(5) = pcb.pagesCode /\ campo(6) = n /\ campo(7) = m
      /\ campo(8) = pcb.stackPointer /\ campo(9) = pcb.exitCode
  <2> HIDE DEF n, m, campo
  <2>1. \A k \in 1..9 : campo(k) = cab[k]
    BY <1>4 DEF campo
  <2> QED BY <1>3, <2>1
<1> HIDE DEF campo
<1>7. codigo = pcb.indexCode
  <2>1. [k \in 1..n |-> [start |-> LeeH(buf, 4 * k + 14), offset |-> LeeH(buf, 4 * k + 16)]]
          = pcb.indexCode
    BY <1>1, <1>2, ReadIndex
  <2> HIDE DEF n
  <2> QED BY <1>6, <2>1
<1> HIDE DEF codigo
<1>8. tags = [tam |-> 18 + 4 * n + L, lista |-> pcb.indexTag]
  <2>1. tags = LeeEtiquetas(buf, 18 + 4 * n, m)
    BY <1>6, <1>7
  <2>2. 18 + 4 * n \in Nat
    BY <1>1
  <2> HIDE DEF tags
  <2> QED BY <1>1, <1>2, <2>1, <2>2, ReadLabels
<1> HIDE DEF tags
<1>9. SerialUnpackStack(buf, tags.tam) = pcb.stack
  <2>1. L \in Nat
    <3>1. EmpacaEtiquetas(pcb.indexTag) \in Seq(Octetos \cup C)
      BY <1>1, LabelsLaidOut
    <3> QED BY <3>1, LenProperties
  <2> HIDE DEF n, L
  <2>2. tags.tam = 18 + 4 * n + L /\ 18 + 4 * n + L \in Nat
    BY <1>1, <1>8, <2>1
  <2> QED BY <1>1, <1>2, <2>2, ReadStack
<1>10. tags.lista = pcb.indexTag
  BY <1>8
<1>11. pcb = [idProcess |-> pcb.idProcess, PC |-> pcb.PC, quantum |-> pcb.quantum,
              status |-> pcb.status, pagesCode |-> pcb.pagesCode,
              stackPointer |-> pcb.stackPointer, exitCode |-> pcb.exitCode,
              indexCode |-> pcb.indexCode, indexTag |-> pcb.indexTag, stack |-> pcb.stack]
  BY DEF PcbsH
<1>12. SerialUnpackPcb(buf) = pcb
  BY <1>5, <1>6, <1>7, <1>9, <1>10, <1>11
<1> QED BY <1>12 DEF buf
=============================================================================
