---------------------------- MODULE ConsolaProofs ----------------------------
(***************************************************************************)
(* The list of a console stays one list in both directions, whatever its   *)
(* threads do with it, and what the handlers rely on follows.              *)
(***************************************************************************)
EXTENDS Consola, MlistProofs

----------------------------------------------------------------------------
(* A list whose nodes are those of s, in its order.                        *)

Links == Nodos \cup {Null}
ListType == [head : Links, tail : Links, length : Nat,
             next : [Nodos -> Links], prev : [Nodos -> Links]]

Linked(list, s) ==
  /\ list \in ListType
  /\ s \in Seq(Nodos) /\ Len(s) = list.length /\ Increasing(s)
  /\ list.head = IF Len(s) = 0 THEN Null ELSE s[1]
  /\ list.tail = IF Len(s) = 0 THEN Null ELSE s[Len(s)]
  /\ \A i \in 1..Len(s) :
       /\ list.next[s[i]] = IF i = Len(s) THEN Null ELSE s[i + 1]
       /\ list.prev[s[i]] = IF i = 1 THEN Null ELSE s[i - 1]
  /\ \A n \in Nodos \ Range(s) : list.next[n] = Null /\ list.prev[n] = Null

\* Following the links from the head gives s, ...
LEMMA Forwards ==
  ASSUME NEW list, NEW s, Linked(list, s)
  PROVE  Adelante(list) = s
<1> DEFINE n == list.length
           Walk(g) == [k \in 1..n |-> IF k = 1 THEN list.head ELSE Vecino(list.next, g[k - 1])]
<1>1. /\ s \in Seq(Nodos) /\ n = Len(s) /\ n \in Nat
      /\ n # 0 => list.head = s[1]
      /\ \A i \in 1..n : i # n => list.next[s[i]] = s[i + 1]
  BY LenProperties DEF Linked, ListType
<1>2. s = [k \in 1..n |-> s[k]] /\ \A k \in 1..n : s[k] \in Nodos /\ s[k] # Null
  BY <1>1, LenProperties, NodosAssumption DEF Null
<1>3. \A k \in 1..n : Walk(s)[k] = s[k]
  <2> TAKE k \in 1..n
  <2>1. CASE k = 1
    BY <1>1, <2>1
  <2>2. CASE k # 1
    <3>1. k - 1 \in 1..n /\ k - 1 # n /\ (k - 1) + 1 = k
      BY <1>1, <2>2
    <3>2. Vecino(list.next, s[k - 1]) = s[k]
      BY <1>1, <1>2, <3>1 DEF Vecino
    <3> QED BY <2>2, <3>2
  <2> QED BY <2>1, <2>2
<1>4. s = Walk(s)
  BY <1>2, <1>3
<1>5. ASSUME NEW g, g = Walk(g) PROVE g = s
  <2>1. DOMAIN g = 1..n /\ \A k \in 1..n : g[k] = IF k = 1 THEN list.head ELSE Vecino(list.next, g[k - 1])
    BY <1>5
  <2> HIDE DEF Walk
  <2> DEFINE T == {k \in 1..n : g[k] # s[k]}
  <2>2. ASSUME NEW t \in T PROVE FALSE
    <3>0. T \in SUBSET Nat
      BY <1>1
    <3>1. PICK x \in T : \A y \in T : x <= y
      <4> HIDE DEF T
      <4> QED BY <3>0, <2>2, LeastNatural
    <3>2. x \in 1..n /\ g[x] # s[x]
      OBVIOUS
    <3>3. x # 1
      BY <1>1, <2>1, <3>2
    <3>4. x - 1 \in 1..n /\ x - 1 # n /\ (x - 1) + 1 = x /\ ~(x <= x - 1)
      BY <1>1, <3>2, <3>3
    <3>5. g[x - 1] = s[x - 1]
      BY <3>1, <3>4
    <3>6. g[x] = Vecino(list.next, s[x - 1])
      BY <2>1, <3>2, <3>3, <3>5
    <3> QED BY <1>1, <1>2, <3>2, <3>4, <3>6 DEF Vecino
  <2>3. \A k \in 1..n : g[k] = s[k]
    BY <2>2
  <2>4. g = [k \in 1..n |-> g[k]]
    BY <1>5 DEF Walk
  <2> QED BY <1>2, <2>3, <2>4
<1>6. Adelante(list) = CHOOSE g : g = Walk(g)
  BY DEF Adelante
<1> HIDE DEF Walk
<1> QED BY <1>4, <1>5, <1>6

\* ... and from the tail, the other way, gives it too.
LEMMA Backwards ==
  ASSUME NEW list, NEW s, Linked(list, s)
  PROVE  Atras(list) = s
<1> DEFINE n == list.length
           Walk(g) == [k \in 1..n |-> IF k = n THEN list.tail ELSE Vecino(list.prev, g[k + 1])]
<1>1. /\ s \in Seq(Nodos) /\ n = Len(s) /\ n \in Nat
      /\ n # 0 => list.tail = s[n]
      /\ \A i \in 1..n : i # 1 => list.prev[s[i]] = s[i - 1]
  BY LenProperties DEF Linked, ListType
<1>2. s = [k \in 1..n |-> s[k]] /\ \A k \in 1..n : s[k] \in Nodos /\ s[k] # Null
  BY <1>1, LenProperties, NodosAssumption DEF Null
<1>3. \A k \in 1..n : Walk(s)[k] = s[k]
  <2> TAKE k \in 1..n
  <2>1. CASE k = n
    BY <1>1, <2>1
  <2>2. CASE k # n
    <3>1. k + 1 \in 1..n /\ k + 1 # 1 /\ (k + 1) - 1 = k
      BY <1>1, <2>2
    <3>2. Vecino(list.prev, s[k + 1]) = s[k]
      BY <1>1, <1>2, <3>1 DEF Vecino
    <3> QED BY <2>2, <3>2
  <2> QED BY <2>1, <2>2
<1>4. s = Walk(s)
  BY <1>2, <1>3
<1>5. ASSUME NEW g, g = Walk(g) PROVE g = s
  <2>1. DOMAIN g = 1..n /\ \A k \in 1..n : g[k] = IF k = n THEN list.tail ELSE Vecino(list.prev, g[k + 1])
    BY <1>5
  <2> HIDE DEF Walk
  <2> DEFINE T == {k \in 0..n : n - k \in 1..n /\ g[n - k] # s[n - k]}
  <2>2. ASSUME NEW t \in T PROVE FALSE
    <3>0. T \in SUBSET Nat
      BY <1>1
    <3>1. PICK x \in T : \A y \in T : x <= y
      <4> HIDE DEF T
      <4> QED BY <3>0, <2>2, LeastNatural
    <3>2. x \in 0..n /\ n - x \in 1..n /\ g[n - x] # s[n - x]
      OBVIOUS
    <3>3. n - x # n
      BY <1>1, <2>1, <3>2
    <3>4. /\ (n - x) + 1 \in 1..n /\ (n - x) + 1 # 1 /\ n - (x - 1) = (n - x) + 1
          /\ x - 1 \in 0..n /\ ((n - x) + 1) - 1 = n - x /\ ~(x <= x - 1)
      BY <1>1, <3>2, <3>3
    <3>5. g[(n - x) + 1] = s[(n - x) + 1]
      BY <3>1, <3>4
    <3>6. g[n - x] = Vecino(list.prev, s[(n - x) + 1])
      BY <2>1, <3>2, <3>3, <3>5
    <3> QED BY <1>1, <1>2, <3>2, <3>4, <3>6 DEF Vecino
  <2>3. \A k \in 1..n : g[k] = s[k]
    <3> TAKE k \in 1..n
    <3>1. n - k \in 0..n /\ n - (n - k) = k
      BY <1>1
    <3> QED BY <2>2, <3>1
  <2>4. g = [k \in 1..n |-> g[k]]
    BY <1>5 DEF Walk
  <2> QED BY <1>2, <2>3, <2>4
<1>6. Atras(list) = CHOOSE g : g = Walk(g)
  BY DEF Atras
<1> HIDE DEF Walk
<1> QED BY <1>4, <1>5, <1>6

\* So the list is whole.
LEMMA LinkedIsWhole ==
  ASSUME NEW list, NEW s, Linked(list, s)
  PROVE  Entera(list)
<1>1. Adelante(list) = s /\ Atras(list) = s
  BY Forwards, Backwards
<1>2. s \in Seq(Nodos) /\ list.length = Len(s) /\ Len(s) \in Nat
  BY LenProperties DEF Linked
<1>3. \A k \in 1..Len(s) : s[k] \in Nodos
  BY <1>2, LenProperties
<1>4. \A j, k \in 1..Len(s) : j # k => s[j] # s[k]
  <2> TAKE j, k \in 1..Len(s)
  <2>1. Increasing(s) /\ DOMAIN s = 1..Len(s)
    BY <1>2, LenProperties DEF Linked
  <2>2. s[j] \in Int /\ s[k] \in Int
    <3>1. \A x \in Nodos : x \in Int
      BY NodosAssumption
    <3> QED BY <1>3, <3>1
  <2>3. (j < k => s[j] < s[k]) /\ (k < j => s[k] < s[j])
    BY <2>1 DEF Increasing
  <2> QED BY <1>2, <2>2, <2>3
<1>5. Vecino(list.next, list.tail) = Null /\ Vecino(list.prev, list.head) = Null
  <2>1. CASE Len(s) = 0
    BY <2>1 DEF Linked, Vecino
  <2>2. CASE Len(s) # 0
    <3>1. 1 \in 1..Len(s) /\ Len(s) \in 1..Len(s)
      BY <1>2, <2>2
    <3> QED BY <2>2, <3>1 DEF Linked, Vecino
  <2> QED BY <2>1, <2>2
<1>6. list.length = 0 => list.head = Null /\ list.tail = Null
  BY <1>2 DEF Linked
<1> QED BY <1>1, <1>2, <1>3, <1>4, <1>5, <1>6 DEF Entera

LEMMA EmptyLinked == Linked(MlistCreate, <<>>)
<1>1. <<>> \in Seq(Nodos) /\ Len(<<>>) = 0 /\ DOMAIN <<>> = {}
  BY EmptySeq
<1>2. Increasing(<<>>)
  BY <1>1 DEF Increasing
<1>3. MlistCreate \in ListType /\ MlistCreate.length = 0 /\ MlistCreate.head = Null
      /\ MlistCreate.tail = Null
      /\ \A n \in Nodos : MlistCreate.next[n] = Null /\ MlistCreate.prev[n] = Null
  BY DEF MlistCreate, ListType, Links, Null
<1> QED BY <1>1, <1>2, <1>3 DEF Linked

----------------------------------------------------------------------------
(* Appending behind the tail, and taking a node out.                       *)

LEMMA AppendLinked ==
  ASSUME NEW list, NEW s, Linked(list, s), NEW new \in Nodos,
         \A y \in Range(s) : y < new,
         NEW base, MlistEmpty(list) \/ base = list.tail
  PROVE  Linked(InsertAfter(list, base, new), Append(s, new))
<1> DEFINE z == Append(s, new)
           n == Len(s)
           list2 == InsertAfter(list, base, new)
<1> SUFFICES Linked(list2, z)
  OBVIOUS
<1>1. /\ s \in Seq(Nodos) /\ n = list.length /\ n \in Nat /\ Increasing(s)
      /\ DOMAIN s = 1..n /\ \A i \in 1..n : s[i] \in Nodos
  BY LenProperties DEF Linked
<1>2. /\ z \in Seq(Nodos) /\ Len(z) = n + 1 /\ z[n + 1] = new
      /\ \A i \in 1..n : z[i] = s[i]
  BY <1>1, AppendProperties
<1>3. \A x \in Nodos : x \in Int /\ x # Null
  BY NodosAssumption DEF Null
<1>4. \A i \in 1..n : s[i] # new
  <2> TAKE i \in 1..n
  <2>1. s[i] < new /\ s[i] \in Int /\ new \in Int
    BY <1>1, <1>3 DEF Range
  <2> QED BY <2>1
<1>5. new \notin Range(s)
  BY <1>1, <1>4 DEF Range
<1>6. Increasing(z)
  <2>1. s \in Seq(Int)
    BY <1>1, <1>3, SeqDef
  <2> QED BY <1>1, <1>3, <2>1, AppendedIncreasing
<1>7. \A i, j \in 1..n : s[i] = s[j] => i = j
  <2> TAKE i, j \in 1..n
  <2>1. s[i] \in Int /\ s[j] \in Int /\ (i < j => s[i] < s[j]) /\ (j < i => s[j] < s[i])
    BY <1>1, <1>3 DEF Increasing
  <2> QED BY <1>1, <2>1
<1>8. Range(z) = Range(s) \cup {new}
  BY <1>1, AppendedList
<1>9. /\ list \in ListType /\ list.next[new] = Null /\ list.prev[new] = Null
  BY <1>5 DEF Linked
<1>10. CASE n = 0
  <2>1. list2 = [list EXCEPT !.head = new, !.tail = new, !.length = 1]
    BY <1>1, <1>10 DEF InsertAfter, MlistEmpty
  <2>2. /\ list2.head = new /\ list2.tail = new /\ list2.length = 1
        /\ list2.next = list.next /\ list2.prev = list.prev /\ list2 \in ListType
    <3> HIDE DEF list2
    <3> QED BY <1>9, <2>1 DEF ListType, Links
  <2>3. \A x \in Nodos \ Range(z) : list2.next[x] = Null /\ list2.prev[x] = Null
    BY <1>8, <2>2 DEF Linked
  <2>4. \A i \in 1..Len(z) : i = 1 /\ z[i] = new
    BY <1>2, <1>10
  <2> HIDE DEF z, list2
  <2> QED BY <1>2, <1>6, <1>9, <1>10, <2>2, <2>3, <2>4 DEF Linked
<1>11. CASE n # 0
  <2>1. list.tail = s[n] /\ list.head = s[1] /\ list.next[s[n]] = Null /\ n \in 1..n /\ 1 \in 1..n
    BY <1>1, <1>11 DEF Linked
  <2>2. base = s[n] /\ base \in Nodos /\ base # new /\ list.next[base] = Null
    BY <1>1, <1>4, <1>11, <2>1 DEF MlistEmpty
  <2>3. list2 = [list EXCEPT !.next = [@ EXCEPT ![new] = Null, ![base] = new],
                   !.prev = [x \in Nodos |-> IF x = new THEN base
                                             ELSE IF x = Null THEN new ELSE @[x]],
                   !.tail = new, !.length = @ + 1]
    BY <1>1, <1>11, <2>2 DEF InsertAfter, MlistEmpty
  <2>4. /\ list2.head = list.head /\ list2.tail = new /\ list2.length = n + 1
        /\ list2.next = [list.next EXCEPT ![new] = Null, ![base] = new]
        /\ list2.prev = [x \in Nodos |-> IF x = new THEN base
                                         ELSE IF x = Null THEN new ELSE list.prev[x]]
    BY <1>1, <1>9, <2>3 DEF ListType
  <2>5. list2 \in ListType
    <3>1. list2.next \in [Nodos -> Links] /\ list2.prev \in [Nodos -> Links] /\ list2.head \in Links
      BY <1>9, <2>2, <2>4 DEF ListType, Links
    <3>2. DOMAIN list2 = {"head", "tail", "length", "next", "prev"}
      BY <1>9, <2>3 DEF ListType
    <3>3. list2 = [head |-> list2.head, tail |-> list2.tail, length |-> list2.length,
                   next |-> list2.next, prev |-> list2.prev]
      BY <1>9, <2>3 DEF ListType
    <3> HIDE DEF list2
    <3> QED BY <1>1, <2>4, <3>1, <3>3 DEF ListType, Links
  <2>6. \A x \in Nodos : /\ list2.next[x] = IF x = base THEN new ELSE IF x = new THEN Null ELSE list.next[x]
                         /\ list2.prev[x] = IF x = new THEN base ELSE list.prev[x]
    BY <1>3, <1>9, <2>2, <2>4 DEF ListType
  <2>7. \A x \in Nodos \ Range(z) : list2.next[x] = Null /\ list2.prev[x] = Null
    <3> TAKE x \in Nodos \ Range(z)
    <3>1. x # new /\ x \notin Range(s) /\ x # base
      BY <1>1, <1>8, <2>1, <2>2 DEF Range
    <3> QED BY <2>6, <3>1 DEF Linked
  <2>8. ASSUME NEW i \in 1..Len(z)
        PROVE  /\ list2.next[z[i]] = IF i = Len(z) THEN Null ELSE z[i + 1]
               /\ list2.prev[z[i]] = IF i = 1 THEN Null ELSE z[i - 1]
    <3> HIDE DEF list2, z
    <3>1. CASE i = n + 1
      <4>1. i - 1 = n /\ i # 1 /\ z[n] = s[n]
        BY <1>1, <1>2, <1>11, <2>1, <3>1
      <4> QED BY <1>2, <2>2, <2>6, <3>1, <4>1
    <3>2. CASE i = n
      <4>1. z[i] = base /\ i + 1 = Len(z) /\ z[i + 1] = new /\ i # Len(z)
        BY <1>1, <1>2, <2>1, <2>2, <3>2
      <4>2. list2.next[z[i]] = new /\ list2.prev[z[i]] = list.prev[s[i]]
        BY <1>2, <2>1, <2>2, <2>6, <3>2, <4>1
      <4>3. i # 1 => i - 1 \in 1..n /\ z[i - 1] = s[i - 1]
        BY <1>1, <1>2, <3>2
      <4>4. list.prev[s[i]] = IF i = 1 THEN Null ELSE s[i - 1]
        BY <2>1, <3>2 DEF Linked
      <4> QED BY <4>1, <4>2, <4>3, <4>4
    <3>3. CASE i # n + 1 /\ i # n
      <4>1. i \in 1..n /\ i + 1 \in 1..n /\ i # Len(z) /\ z[i] = s[i] /\ z[i + 1] = s[i + 1]
        BY <1>1, <1>2, <3>3
      <4>2. s[i] # base /\ s[i] # new /\ s[i] \in Nodos
        BY <1>1, <1>4, <1>7, <2>1, <2>2, <3>3, <4>1
      <4>3. i # 1 => i - 1 \in 1..n /\ z[i - 1] = s[i - 1]
        BY <1>1, <1>2, <4>1
      <4>4. /\ list.next[s[i]] = s[i + 1]
            /\ list.prev[s[i]] = IF i = 1 THEN Null ELSE s[i - 1]
        BY <3>3, <4>1 DEF Linked
      <4> QED BY <2>6, <4>1, <4>2, <4>3, <4>4
    <3> QED BY <3>1, <3>2, <3>3
  <2> HIDE DEF z, list2
  <2>9. z[1] = s[1] /\ Len(z) # 0 /\ Len(z) = list2.length
    BY <1>1, <1>2, <2>1, <2>4
  <2> QED BY <1>2, <1>6, <2>1, <2>4, <2>5, <2>7, <2>8, <2>9 DEF Linked
<1> QED BY <1>10, <1>11

\* An increasing list has no element twice.
LEMMA NoneTwice ==
  ASSUME NEW s \in Seq(Nodos), Increasing(s)
  PROVE  IsInjective(s) /\ \A i, j \in 1..Len(s) : s[i] = s[j] => i = j
<1>1. DOMAIN s = 1..Len(s) /\ Len(s) \in Nat /\ \A i \in 1..Len(s) : s[i] \in Nodos
  BY LenProperties
<1>2. \A x \in Nodos : x \in Int
  BY NodosAssumption
<1>3. \A i, j \in 1..Len(s) : s[i] = s[j] => i = j
  <2> TAKE i, j \in 1..Len(s)
  <2>1. s[i] \in Int /\ s[j] \in Int /\ (i < j => s[i] < s[j]) /\ (j < i => s[j] < s[i])
    BY <1>1, <1>2 DEF Increasing
  <2> QED BY <1>1, <2>1
<1> QED BY <1>1, <1>3 DEF IsInjective

LEMMA RemoveLinked ==
  ASSUME NEW list, NEW s, Linked(list, s), NEW i \in 1..Len(s)
  PROVE  Linked(RemoveNode(list, s[i]), Popped(s, i))
<1> DEFINE z == Popped(s, i)
           n == Len(s)
           node == s[i]
           antes == IF i = 1 THEN Null ELSE s[i - 1]
           sigue == IF i = n THEN Null ELSE s[i + 1]
           list2 == RemoveNode(list, node)
<1> SUFFICES Linked(list2, z)
  OBVIOUS
<1>1. /\ s \in Seq(Nodos) /\ n = list.length /\ n \in Nat /\ Increasing(s) /\ i \in Nat
      /\ DOMAIN s = 1..n /\ \A k \in 1..n : s[k] \in Nodos
  BY LenProperties DEF Linked
<1>2. \A x \in Nodos : x \in Int /\ x # Null
  BY NodosAssumption DEF Null
<1>3. \A k, l \in 1..n : s[k] = s[l] => k = l
  BY <1>1, NoneTwice
<1>4. /\ z \in Seq(Nodos) /\ Len(z) = n - 1 /\ Increasing(z) /\ Range(z) = Range(s) \ {node}
      /\ \A k \in 1..(n - 1) : z[k] = IF k < i THEN s[k] ELSE s[k + 1]
  <2>1. s \in Seq(Int)
    BY <1>1, <1>2, SeqDef
  <2>2. z \in Seq(Nodos) /\ Increasing(z)
    BY <1>1, <2>1, PoppedList, PoppedIncreasing
  <2>3. DOMAIN z = 1..(n - 1) /\ \A k \in 1..(n - 1) : z[k] = IF k < i THEN s[k] ELSE s[k + 1]
    BY DEF Popped
  <2>4. DOMAIN z = 1..Len(z) /\ Len(z) \in Nat
    BY <2>2, LenProperties
  <2> HIDE DEF z
  <2>5. Len(z) = n - 1
    BY <1>1, <2>3, <2>4
  <2>6. Range(z) = Range(s) \ {node}
    <3>1. ASSUME NEW k \in 1..(n - 1) PROVE z[k] \in Range(s) \ {node}
      <4>1. CASE k < i
        <5>1. k \in 1..n /\ k # i /\ z[k] = s[k]
          BY <1>1, <2>3, <4>1
        <5> QED BY <1>1, <1>3, <5>1 DEF Range
      <4>2. CASE ~(k < i)
        <5>1. k + 1 \in 1..n /\ k + 1 # i /\ z[k] = s[k + 1]
          BY <1>1, <2>3, <4>2
        <5> QED BY <1>1, <1>3, <5>1 DEF Range
      <4> QED BY <4>1, <4>2
    <3>2. ASSUME NEW k \in 1..n, k # i PROVE s[k] \in Range(z)
      <4>1. CASE k < i
        <5>1. k \in 1..(n - 1) /\ z[k] = s[k]
          BY <1>1, <2>3, <4>1
        <5> QED BY <2>3, <5>1 DEF Range
      <4>2. CASE ~(k < i)
        <5>1. k - 1 \in 1..(n - 1) /\ ~(k - 1 < i) /\ (k - 1) + 1 = k
          BY <1>1, <3>2, <4>2
        <5>2. z[k - 1] = s[k]
          BY <2>3, <5>1
        <5> QED BY <2>3, <5>1, <5>2 DEF Range
      <4> QED BY <4>1, <4>2
    <3> QED BY <1>1, <1>3, <2>3, <3>1, <3>2 DEF Range
  <2> QED BY <2>2, <2>3, <2>5, <2>6
<1> HIDE DEF z
<1>5. /\ list \in ListType /\ list.next[node] = sigue /\ list.prev[node] = antes
      /\ list.head = s[1] /\ list.tail = s[n] /\ node \in Nodos
      /\ antes \in Links /\ sigue \in Links /\ node # antes /\ node # sigue
  <2>1. i # 1 => i - 1 \in 1..n /\ i - 1 # i
    BY <1>1
  <2>2. i # n => i + 1 \in 1..n /\ i + 1 # i
    BY <1>1
  <2> QED BY <1>1, <1>2, <1>3, <2>1, <2>2 DEF Linked, Links
<1> HIDE DEF antes, sigue, node
<1>6. list2 = [list EXCEPT
                 !.next   = [x \in Nodos |-> IF x = node THEN Null
                                             ELSE IF x = antes THEN sigue ELSE @[x]],
                 !.prev   = [x \in Nodos |-> IF x = node THEN Null
                                             ELSE IF x = sigue THEN antes ELSE @[x]],
                 !.head   = IF node = @ THEN sigue ELSE @,
                 !.tail   = IF node = @ THEN antes ELSE @,
                 !.length = @ - 1]
  BY <1>5 DEF RemoveNode
<1> HIDE DEF list2
<1>7. /\ list2.head = (IF node = list.head THEN sigue ELSE list.head)
      /\ list2.tail = (IF node = list.tail THEN antes ELSE list.tail)
      /\ list2.length = list.length - 1
      /\ list2.next = [x \in Nodos |-> IF x = node THEN Null
                                       ELSE IF x = antes THEN sigue ELSE list.next[x]]
      /\ list2.prev = [x \in Nodos |-> IF x = node THEN Null
                                       ELSE IF x = sigue THEN antes ELSE list.prev[x]]
      /\ list2 = [head |-> list2.head, tail |-> list2.tail, length |-> list2.length,
                  next |-> list2.next, prev |-> list2.prev]
  BY <1>5, <1>6 DEF ListType
<1>8. list2 \in ListType /\ list2.length = n - 1 /\ n - 1 \in Nat
  <2>1. list2.next \in [Nodos -> Links] /\ list2.prev \in [Nodos -> Links]
    BY <1>5, <1>7 DEF ListType, Links
  <2>2. list2.head \in Links /\ list2.tail \in Links /\ list2.length = n - 1 /\ n - 1 \in Nat
    BY <1>1, <1>5, <1>7 DEF ListType
  <2> QED BY <1>7, <2>1, <2>2 DEF ListType
<1>9. list2.head = IF Len(z) = 0 THEN Null ELSE z[1]
  <2>1. CASE i = 1
    <3>1. list2.head = sigue
      BY <1>5, <1>7, <2>1 DEF node
    <3>2. CASE n = 1
      BY <1>4, <2>1, <3>1, <3>2 DEF sigue
    <3>3. CASE n # 1
      <4>1. 1 \in 1..(n - 1) /\ z[1] = s[1 + 1] /\ sigue = s[1 + 1] /\ Len(z) # 0
        BY <1>1, <1>4, <2>1, <3>3 DEF sigue
      <4> QED BY <3>1, <4>1
    <3> QED BY <3>2, <3>3
  <2>2. CASE i # 1
    <3>1. 1 \in 1..n /\ 1 \in 1..(n - 1) /\ 1 < i /\ n - 1 # 0
      BY <1>1, <2>2
    <3>2. node # s[1]
      BY <1>3, <2>2, <3>1 DEF node
    <3> QED BY <1>4, <1>5, <1>7, <3>1, <3>2
  <2> QED BY <2>1, <2>2
<1>10. list2.tail = IF Len(z) = 0 THEN Null ELSE z[Len(z)]
  <2>1. CASE i = n
    <3>1. list2.tail = antes
      BY <1>5, <1>7, <2>1 DEF node
    <3>2. CASE n = 1
      BY <1>4, <2>1, <3>1, <3>2 DEF antes
    <3>3. CASE n # 1
      <4>1. n - 1 \in 1..(n - 1) /\ z[n - 1] = s[n - 1] /\ antes = s[n - 1] /\ n - 1 # 0
        BY <1>1, <1>4, <2>1, <3>3 DEF antes
      <4> QED BY <1>4, <3>1, <4>1
    <3> QED BY <3>2, <3>3
  <2>2. CASE i # n
    <3>1. n \in 1..n /\ n - 1 \in 1..(n - 1) /\ ~(n - 1 < i) /\ n - 1 # 0 /\ (n - 1) + 1 = n
      BY <1>1, <2>2
    <3>2. node # s[n]
      BY <1>3, <2>2, <3>1 DEF node
    <3> QED BY <1>4, <1>5, <1>7, <3>1, <3>2
  <2> QED BY <2>1, <2>2
<1>11. ASSUME NEW k \in 1..Len(z)
       PROVE  list2.next[z[k]] = IF k = Len(z) THEN Null ELSE z[k + 1]
  <2>0. k \in 1..(n - 1) /\ k \in Nat
    BY <1>1, <1>4
  <2>1. CASE k + 1 < i
    <3>1. /\ k \in 1..n /\ k + 1 \in 1..n /\ k # n /\ k < i /\ k + 1 \in 1..(n - 1) /\ k # n - 1
          /\ k # i /\ (i # 1 => k # i - 1 /\ i - 1 \in 1..n)
      BY <1>1, <2>0, <2>1
    <3>2. z[k] = s[k] /\ z[k + 1] = s[k + 1] /\ s[k] # node /\ s[k] # antes /\ s[k] \in Nodos
      BY <1>1, <1>2, <1>3, <1>4, <2>0, <2>1, <3>1 DEF node, antes
    <3>3. list.next[s[k]] = s[k + 1]
      BY <3>1 DEF Linked
    <3> QED BY <1>4, <1>7, <3>1, <3>2, <3>3
  <2>2. CASE k + 1 = i
    <3>1. k \in 1..n /\ k < i /\ k = i - 1 /\ i # 1 /\ (k = n - 1 <=> i = n)
      BY <1>1, <2>0, <2>2
    <3>2. z[k] = antes /\ antes # node /\ antes \in Nodos
      BY <1>1, <1>4, <1>5, <2>0, <3>1 DEF antes
    <3>3. list2.next[z[k]] = sigue
      BY <1>7, <3>2
    <3>4. CASE i = n
      BY <1>4, <3>1, <3>3, <3>4 DEF sigue
    <3>5. CASE i # n
      <4>1. k + 1 \in 1..(n - 1) /\ ~(k + 1 < i)
        BY <1>1, <2>0, <2>2, <3>5
      <4> QED BY <1>4, <2>2, <3>1, <3>3, <3>5, <4>1 DEF sigue
    <3> QED BY <3>4, <3>5
  <2>3. CASE i < k + 1
    <3>1. /\ k + 1 \in 1..n /\ ~(k < i) /\ k + 1 # i /\ (i # 1 => i - 1 \in 1..n /\ k + 1 # i - 1)
          /\ (k = n - 1 <=> k + 1 = n)
      BY <1>1, <2>0, <2>3
    <3>2. z[k] = s[k + 1] /\ s[k + 1] # node /\ s[k + 1] # antes /\ s[k + 1] \in Nodos
      BY <1>1, <1>2, <1>3, <1>4, <2>0, <3>1 DEF node, antes
    <3>3. list2.next[z[k]] = IF k + 1 = n THEN Null ELSE s[(k + 1) + 1]
      <4>1. list.next[s[k + 1]] = IF k + 1 = n THEN Null ELSE s[(k + 1) + 1]
        BY <3>1 DEF Linked
      <4> QED BY <1>7, <3>2, <4>1
    <3>4. k # n - 1 => k + 1 \in 1..(n - 1) /\ ~(k + 1 < i)
      BY <1>1, <2>0, <2>3
    <3> QED BY <1>4, <3>1, <3>3, <3>4
  <2> QED BY <1>1, <2>0, <2>1, <2>2, <2>3
<1>12. ASSUME NEW k \in 1..Len(z)
       PROVE  list2.prev[z[k]] = IF k = 1 THEN Null ELSE z[k - 1]
  <2>0. k \in 1..(n - 1) /\ k \in Nat
    BY <1>1, <1>4
  <2>1. CASE k < i
    <3>1. k \in 1..n /\ k # i /\ (i # n => i + 1 \in 1..n /\ k # i + 1)
      BY <1>1, <2>0, <2>1
    <3>2. z[k] = s[k] /\ s[k] # node /\ s[k] # sigue /\ s[k] \in Nodos
      BY <1>1, <1>2, <1>3, <1>4, <2>0, <2>1, <3>1 DEF node, sigue
    <3>3. list2.prev[z[k]] = IF k = 1 THEN Null ELSE s[k - 1]
      BY <1>7, <3>1, <3>2 DEF Linked
    <3>4. k # 1 => k - 1 \in 1..(n - 1) /\ k - 1 < i
      BY <1>1, <2>0, <2>1
    <3> QED BY <1>4, <3>3, <3>4
  <2>2. CASE k = i
    <3>1. k + 1 \in 1..n /\ i # n /\ ~(k < i) /\ (k # 1 => k - 1 \in 1..(n - 1) /\ k - 1 < i)
      BY <1>1, <2>0, <2>2
    <3>2. z[k] = sigue /\ sigue \in Nodos
      BY <1>1, <1>4, <2>0, <2>2, <3>1 DEF sigue
    <3>3. list2.prev[z[k]] = antes
      BY <1>5, <1>7, <3>2
    <3> QED BY <1>4, <2>2, <3>1, <3>3 DEF antes
  <2>3. CASE i < k
    <3>1. /\ k + 1 \in 1..n /\ ~(k < i) /\ k + 1 # i /\ k # 1 /\ k + 1 # 1 /\ (k + 1) - 1 = k
          /\ i + 1 \in 1..n /\ k + 1 # i + 1 /\ k - 1 \in 1..(n - 1) /\ ~(k - 1 < i)
          /\ (k - 1) + 1 = k
      BY <1>1, <2>0, <2>3
    <3>2. z[k] = s[k + 1] /\ s[k + 1] # node /\ s[k + 1] # sigue /\ s[k + 1] \in Nodos
      BY <1>1, <1>2, <1>3, <1>4, <2>0, <3>1 DEF node, sigue
    <3>3. list2.prev[z[k]] = s[k]
      <4>1. list.prev[s[k + 1]] = s[k]
        BY <3>1 DEF Linked
      <4> QED BY <1>7, <3>2, <4>1
    <3> QED BY <1>4, <3>1, <3>3
  <2> QED BY <1>1, <2>0, <2>1, <2>2, <2>3
<1>13. ASSUME NEW x \in Nodos \ Range(z) PROVE list2.next[x] = Null /\ list2.prev[x] = Null
  <2>1. CASE x = node
    BY <1>7, <2>1
  <2>2. CASE x # node
    <3>1. x \notin Range(s)
      BY <1>4, <2>2
    <3>2. x # antes /\ x # sigue
      <4>1. i # 1 => i - 1 \in 1..n
        BY <1>1
      <4>2. i # n => i + 1 \in 1..n
        BY <1>1
      <4> QED BY <1>1, <1>2, <3>1, <4>1, <4>2 DEF Range, antes, sigue
    <3> QED BY <1>7, <2>2, <3>1, <3>2 DEF Linked
  <2> QED BY <2>1, <2>2
<1> QED BY <1>4, <1>8, <1>9, <1>10, <1>11, <1>12, <1>13 DEF Linked

\* What mlist_remove leaves of a list with no element twice is what it leaves
\* by position.
LEMMA WithoutIsPopped ==
  ASSUME NEW s \in Seq(Nodos), Increasing(s), NEW i \in 1..Len(s)
  PROVE  Without(s, s[i]) = Popped(s, i)
<1> DEFINE n == Len(s)  p == s[i]
<1>1. DOMAIN s = 1..n /\ n \in Nat /\ i \in Nat
  BY LenProperties
<1>2. Kept(s, p) = (1..n) \ {i}
  BY <1>1, NoneTwice DEF Kept
<1>3. Cardinality(Kept(s, p)) = n - 1
  <2>1. IsFiniteSet(1..n) /\ Cardinality(1..n) = n
    BY <1>1, CountTo, FS_Interval
  <2> QED BY <1>2, <2>1, FS_RemoveElement
<1>4. ASSUME NEW j \in 1..n, j # i PROVE Rank(s, p, j) = IF j < i THEN j ELSE j - 1
  <2>0. j \in Nat /\ IsFiniteSet(1..j) /\ Cardinality(1..j) = j
    BY <1>1, CountTo, FS_Interval
  <2>1. CASE j < i
    <3>1. {h \in 1..j : h \in Kept(s, p)} = 1..j
      BY <1>1, <1>2, <2>1
    <3> QED BY <2>0, <2>1, <3>1 DEF Rank
  <2>2. CASE ~(j < i)
    <3>1. {h \in 1..j : h \in Kept(s, p)} = (1..j) \ {i} /\ i \in 1..j
      BY <1>1, <1>2, <2>2
    <3>2. Cardinality((1..j) \ {i}) = j - 1
      BY <2>0, <3>1, FS_RemoveElement
    <3> QED BY <2>2, <3>1, <3>2 DEF Rank
  <2> QED BY <2>1, <2>2
<1>5. ASSUME NEW k \in 1..(n - 1)
      PROVE  Source(s, p, k) = IF k < i THEN k ELSE k + 1
  <2>1. /\ Source(s, p, k) \in Kept(s, p) /\ Rank(s, p, Source(s, p, k)) = k
    BY <1>3, WithoutFrom
  <2>2. PICK j \in (1..n) \ {i} : Source(s, p, k) = j
    BY <1>2, <2>1
  <2>3. k = IF j < i THEN j ELSE j - 1
    BY <1>4, <2>1, <2>2
  <2> QED BY <1>1, <2>2, <2>3
<1>6. Without(s, p) = [k \in 1..(n - 1) |-> s[Source(s, p, k)]]
  BY <1>3 DEF Without, Source
<1>7. \A k \in 1..(n - 1) : s[Source(s, p, k)] = IF k < i THEN s[k] ELSE s[k + 1]
  BY <1>5
<1> QED BY <1>6, <1>7 DEF Popped

----------------------------------------------------------------------------
(* Types.                                                                  *)

Estados   == {"libre", "activo", "terminado", "muerto"}
Lugares   == {"no", "nace", "lee", "mira", "espera", "informa", "recorre", "avisa", "une", "desata",
              "libera", "listo", "crea", "agrega", "busca", "quita", "marca", "postea", "bucle",
              "llama", "recibe", "sale", "apaga", "junta", "fin"}
Mensajes  == [op : {"pid", "fin"}, pid : Corridas]

TypeInv ==
  /\ programs \in ListType /\ vivos \subseteq Nodos /\ mutex \in {Nadie, Terminal, Receptor}
  /\ estado \in [Corridas -> Estados] /\ pid \in [Corridas -> {-1} \cup Corridas]
  /\ sem \in [Corridas -> Nat]
  /\ active \in BOOLEAN /\ vida \in {"sigue", "rota", "terminada"}
  /\ corridas \in 0..Cardinality(Corridas)
  /\ pc \in [Hilos -> Lugares] /\ busca \in [Hilos -> Nat]
  /\ programa \in [Hilos -> Links] /\ nodo \in [Hilos -> Links] /\ sig \in [Hilos -> Links]
  /\ alKernel \in Seq(Corridas) /\ dueno \in Seq(Corridas) /\ deKernel \in Seq(Mensajes)
  /\ terminados \subseteq DOMAIN dueno

\* Where the handler of a program may be.
HandlerAt ==
  \A k \in Corridas : pc[k] \in {"no", "nace", "lee", "mira", "espera", "informa", "recorre",
                                "avisa", "une", "desata", "libera", "fin"}

\* The runs whose handlers have sent them to the Kernel, which has begun those
\* of dueno.
Enviados == dueno \o alKernel

\* A handler sends its program once.
SentOnce ==
  /\ IsInjective(Enviados)
  /\ \A k \in Range(Enviados) : k <= corridas /\ pc[k] \notin {"no", "nace", "lee"}
  /\ vida = "sigue" => \A k \in Corridas : (pc[k] = "no") = (k > corridas)
  /\ \A i \in DOMAIN deKernel : deKernel[i].pid \in DOMAIN dueno

\* The threads that are in mlist_clear, and what a thread in destroy_program
\* has in its hands.
ClearAlone ==
  /\ \A t \in Hilos : pc[t] = "libera" => mutex = t
  /\ vida = "sigue" => /\ mutex = Terminal => pc[Receptor] = "fin"
                       /\ mutex = Receptor => pc[Receptor] \in {"recorre", "avisa", "une", "libera"}
  /\ pc[Receptor] \in {"recorre", "avisa", "une", "desata", "libera"} => mutex = Receptor
  /\ \A t \in Hilos : pc[t] \in {"avisa", "une", "desata", "libera"} => nodo[t] = programa[t]

\* The nodes are those of the runs that have been appended, in their order;
\* mlist_append has the tail in its hand, if it is still there.
Orden == Adelante(programs)

ListInv ==
  /\ Linked(programs, Orden)
  /\ vivos \subseteq Range(Orden) /\ (mutex = Nadie => vivos = Range(Orden))
  /\ \A n \in Range(Orden) : n <= corridas
  /\ pc[Terminal] \in {"crea", "agrega"} => corridas > 0 /\ corridas \notin Range(Orden)
  /\ pc[Terminal] = "agrega" /\ nodo[Terminal] \in vivos => nodo[Terminal] = programs.tail

Clear == vida = "sigue" /\ ~Confundido

\* A program is freed by its own handler or once that has ended, ...
FreedBy ==
  \A k \in 1..corridas : estado[k] = "libre" =>
    \/ pc[k] = "nace" /\ k = corridas /\ pc[Terminal] = "crea"
    \/ pc[k] \in {"desata", "fin"}
    \/ pc[k] = "recorre" /\ k \notin vivos

\* ... before its node is taken out, ...
FreedFirst == \A t \in Hilos : pc[t] = "desata" => estado[programa[t]] = "libre"

\* ... and what is not in the list is freed, or has still to be appended.
Unlinked ==
  mutex = Nadie => \A k \in 1..corridas : k \notin vivos =>
    estado[k] = "libre" \/ (k = corridas /\ pc[Terminal] \in {"crea", "agrega"})

Outlived ==
  /\ FreedBy /\ FreedFirst /\ Unlinked
  /\ pc[Terminal] \in {"crea", "agrega"} => pc[corridas] = "nace"
  /\ \A k \in Corridas : k > corridas => estado[k] = "libre"

WakeUps ==
  \A k \in Corridas : estado[k] = "terminado" /\ pc[k] = "espera" =>
    sem[k] > 0 \/ (pc[Receptor] = "postea" /\ programa[Receptor] = k)

\* A run that waits for its pid is the last one typed.
PidsOwned == \A k \in Corridas : pid[k] # -1 => pid[k] \in DOMAIN dueno /\ dueno[pid[k]] = k

PidOnItsWay(k) == \/ k \in Range(alKernel)
                  \/ \E i \in DOMAIN deKernel : deKernel[i].op = "pid" /\ dueno[deKernel[i].pid] = k

\* Whoever looked a program up has one with a pid.
Found == \A t \in {Terminal, Receptor} : programa[t] # Null => pid[programa[t]] # -1

\* Until then its handler waits for it, and nobody has touched it.
Waits    == \A k \in Range(Enviados) : pid[k] = -1 => estado[k] = "activo" /\ pc[k] \in {"mira", "espera"}
Unsent   == \A k \in Corridas : pc[k] \in {"no", "nace", "lee"} => estado[k] \in {"libre", "activo"}
OnItsWay == \A k \in Corridas : PidOnItsWay(k) => pid[k] = -1

PidOnce ==
  \A i, j \in DOMAIN deKernel :
    deKernel[i].op = "pid" /\ deKernel[j].op = "pid" /\ deKernel[i].pid = deKernel[j].pid => i = j

LastWaits == \A k \in 1..corridas : k < corridas => pid[k] # -1 \/ estado[k] = "libre"

PidsAwaited == Found /\ Waits /\ Unsent /\ OnItsWay /\ PidOnce /\ LastWaits

Inv ==
  /\ TypeInv /\ HandlerAt /\ SentOnce /\ ClearAlone /\ ListInv
  /\ Clear => Outlived /\ WakeUps
  /\ Clear /\ ~Apurado => PidsOwned /\ (mutex = Nadie => PidsAwaited)

----------------------------------------------------------------------------
(* The steps, each with what it used still there.                          *)

Dies == vida = "sigue" /\ \E como \in {"rota", "terminada"} : Muere(como)

\* A thread goes on, and nothing else changes.
Goes(t) ==
  /\ vida = "sigue" /\ pc[t] \in {"listo", "bucle", "llama", "recibe", "sale"}
  /\ \E donde \in {"sale", "llama", "fin", "recibe", "apaga"} :
       Pasa(t, donde) /\ (donde = "fin" => t = Receptor)

Appends ==
  /\ En(Terminal, "agrega") /\ mutex = Nadie
  /\ MlistEmpty(programs) \/ nodo[Terminal] \in vivos
  /\ AgregaNodo

Looks(t)   == En(t, "busca") /\ nodo[t] \in vivos /\ MiraNodo(t)
Misses     == /\ En(Terminal, "busca") /\ Vuelve(Terminal, "listo")
              /\ UNCHANGED <<lista, datos, proceso, conexion>>
Quits(t)   == vida = "sigue" /\ pc[t] \in {"quita", "lee", "informa"} /\ Quita(t)
Visits(t)  == En(t, "recorre") /\ nodo[t] \in vivos /\ Visita(t)
Leaves(t)  == /\ En(t, "recorre") /\ mutex # t /\ Vuelve(t, IF t = Terminal THEN "listo" ELSE "fin")
              /\ UNCHANGED <<lista, datos, proceso, conexion>>
Unlinks(t) == /\ En(t, "desata") /\ mutex = Nadie /\ nodo[t] \in vivos
              /\ SinNodo(t, RemoveNode(programs, nodo[t]))
Frees(t)   == En(t, "libera") /\ nodo[t] \in vivos /\ SinNodo(t, programs)

\* The steps that use program k.
Warns(t, k) ==
  /\ En(t, "avisa") /\ k = programa[t] /\ estado[k] # "libre"
  /\ estado' = [estado EXCEPT ![k] = "muerto"] /\ sem' = [sem EXCEPT ![k] = @ + 1]
  /\ Va(t, "une") /\ UNCHANGED <<locales, lista, pid, proceso, conexion>>

Joins(t, k) ==
  /\ En(t, "une") /\ k = programa[t] /\ estado[k] # "libre" /\ (k = t \/ pc[k] = "fin")
  /\ estado' = [estado EXCEPT ![k] = "libre"]
  /\ Va(t, IF mutex = t THEN "libera" ELSE "desata")
  /\ UNCHANGED <<locales, lista, pid, sem, proceso, conexion>>

GetsPid(k) ==
  /\ Llega("pid") /\ k = MlistLast(programs) /\ estado[k] # "libre"
  /\ pid' = [pid EXCEPT ![k] = Head(deKernel).pid]
  /\ deKernel' = Tail(deKernel) /\ Va(Receptor, "bucle")
  /\ UNCHANGED <<locales, lista, estado, sem, proceso, alKernel, dueno, terminados>>

Marks(k) ==
  /\ En(Receptor, "marca") /\ k = programa[Receptor] /\ estado[k] # "libre"
  /\ estado' = [estado EXCEPT ![k] = "terminado"]
  /\ Va(Receptor, "postea") /\ UNCHANGED <<locales, lista, pid, sem, proceso, conexion>>

Posts(k) ==
  /\ En(Receptor, "postea") /\ k = programa[Receptor] /\ estado[k] # "libre"
  /\ sem' = [sem EXCEPT ![k] = @ + 1]
  /\ Vuelve(Receptor, "bucle") /\ UNCHANGED <<lista, estado, pid, proceso, conexion>>

Checks(h, k) ==
  /\ En(h, "mira") /\ k = programa[h] /\ estado[k] # "libre"
  /\ Pasa(h, IF estado[k] = "activo" THEN "espera" ELSE "informa")

Wakes(h, k) ==
  /\ En(h, "espera") /\ k = programa[h] /\ estado[k] # "libre" /\ sem[k] > 0
  /\ sem' = [sem EXCEPT ![k] = @ - 1]
  /\ Va(h, IF estado[k] = "muerto" THEN "fin" ELSE "mira")
  /\ UNCHANGED <<locales, lista, estado, pid, proceso, conexion>>

Steps ==
  \/ Dies \/ RunTyped \/ AppendReads \/ Appends \/ Misses \/ RecibeFin
  \/ KernelStarts
  \/ \E p \in Nat : KillTyped(p)
  \/ \E p \in Corridas : KernelEnds(p)
  \/ \E t \in {Terminal, Receptor} : Goes(t) \/ Looks(t) \/ Apaga(t) \/ Junta(t) \/ Frees(t)
  \/ \E t \in Hilos : \/ Visits(t) \/ Leaves(t) \/ Unlinks(t)
                      \/ Quits(t) /\ t # Receptor /\ (t = Terminal <=> pc[t] = "quita")
                      \/ \E k \in Corridas : Warns(t, k) \/ Joins(t, k)
  \/ \E k \in Corridas : GetsPid(k) \/ Marks(k) \/ Posts(k) \/ Toma(k) \/ Envia(k)
  \/ \E h, k \in Corridas : Checks(h, k) \/ Wakes(h, k)

LEMMA Threads ==
  /\ Terminal \in Hilos /\ Receptor \in Hilos /\ Corridas \subseteq Hilos /\ Terminal # Receptor
  /\ \A k \in Corridas : /\ k # Terminal /\ k # Receptor /\ k # Nadie /\ k # Null
                         /\ k \in Nat /\ k \in Int /\ k > 0
  /\ \A t \in Hilos : t # Nadie /\ t # Null
  /\ Hilos = Corridas \cup {Terminal, Receptor}
  /\ Cardinality(Corridas) \in Nat /\ Corridas = 1..Cardinality(Corridas)
  /\ Corridas = Nodos /\ Links = Corridas \cup {Null}
<1>1. Nodos = 1..Cardinality(Nodos) /\ Cardinality(Nodos) \in Nat
  BY RunsAssumption, FS_CardinalityType
<1>2. \A k \in Nodos : k \in Nat /\ k \in Int /\ k > 0 /\ k # 0
  BY NodosAssumption
<1> QED BY <1>1, <1>2 DEF Corridas, Hilos, Terminal, Receptor, Nadie, Null, Links

LEMMA UsesProgram ==
  ASSUME NEW k \in Links, NEW Paso, UsaPrograma(k, Paso), vida = "sigue"
  PROVE  Dies \/ (k \in Corridas /\ estado[k] # "libre" /\ Paso)
BY Threads DEF UsaPrograma, Dies

LEMMA NextIsStep == TypeInv /\ Next => Steps
<1> SUFFICES ASSUME TypeInv, Next PROVE Steps
  OBVIOUS
<1>0. /\ programa \in [Hilos -> Links] /\ nodo \in [Hilos -> Links] /\ MlistLast(programs) \in Links
      /\ dueno \in Seq(Corridas) /\ Len(dueno) \in Nat
  BY LenProperties DEF TypeInv, MlistLast, ListType, Links
<1>1. CASE Teclas
  BY <1>0, <1>1, Threads DEF Teclas, LogoutTyped, Steps, Goes, En, KillTyped
<1>2. CASE Kernel
  BY <1>2, Threads DEF Kernel, RecibeNada, Steps, Goes, En
<1>3. ASSUME NEW t \in Hilos, Destruye(t) PROVE Steps
  <2>1. CASE Recorre(t)
    <3>1. Dies \/ Visits(t) \/ Leaves(t)
      BY <2>1 DEF Recorre, UsaNodo, Dies, Visits, Leaves, En
    <3> QED BY <3>1 DEF Steps
  <2>2. CASE Avisa(t)
    <3>1. Dies \/ (Warns(t, programa[t]) /\ programa[t] \in Corridas)
      BY <1>0, <2>2, Threads DEF Avisa, UsaPrograma, Dies, Warns, En
    <3> QED BY <3>1 DEF Steps
  <2>3. CASE Une(t)
    <3>1. Dies \/ (Joins(t, programa[t]) /\ programa[t] \in Corridas)
      BY <1>0, <2>3, Threads DEF Une, UsaPrograma, Dies, Joins, En
    <3> QED BY <3>1 DEF Steps
  <2>4. CASE Desata(t)
    <3>1. Dies \/ Unlinks(t)
      BY <2>4 DEF Desata, UsaNodo, Dies, Unlinks, En
    <3> QED BY <3>1 DEF Steps
  <2> QED BY <1>3, <2>1, <2>2, <2>3, <2>4 DEF Destruye
<1>4. ASSUME NEW t \in {Terminal, Receptor}, Termina(t) PROVE Steps
  <2>1. CASE Sale(t)
    <3>1. Dies \/ Goes(t)
      BY <1>4, <2>1 DEF Sale, Goes, Dies, En
    <3> QED BY <3>1 DEF Steps
  <2>2. CASE Apaga(t) \/ Junta(t)
    BY <2>2 DEF Steps
  <2>3. CASE Libera(t)
    <3>1. Dies \/ Frees(t)
      BY <2>3 DEF Libera, UsaNodo, Dies, Frees, En
    <3> QED BY <3>1 DEF Steps
  <2>4. t \in Hilos
    BY Threads
  <2> QED BY <1>3, <1>4, <2>1, <2>2, <2>3, <2>4 DEF Termina
<1>5. ASSUME NEW t \in {Terminal, Receptor}, Busca(t) PROVE Steps
  <2>1. CASE nodo[t] # Null
    <3>1. UsaNodo(nodo[t], UsaPrograma(nodo[t], MiraNodo(t))) /\ En(t, "busca") /\ nodo[t] \in Links
      BY <1>0, <1>5, <2>1, Threads DEF Busca
    <3>2. Dies \/ Looks(t)
      BY <2>1, <3>1 DEF UsaNodo, UsaPrograma, Dies, Looks, En
    <3> QED BY <3>2 DEF Steps
  <2>2. CASE nodo[t] = Null
    <3>1. Dies \/ Misses
      BY <1>5, <2>2 DEF Busca, Dies, Misses, En
    <3> QED BY <3>1 DEF Steps
  <2> QED BY <2>1, <2>2
<1>6. CASE PasoTerminal
  <2>1. CASE AppendReads
    BY <2>1 DEF Steps
  <2>2. CASE AppendLocks
    <3>1. Dies \/ Appends
      BY <2>2 DEF AppendLocks, UsaNodo, Dies, Appends, En
    <3> QED BY <3>1 DEF Steps
  <2>3. CASE KillFinds
    <3>1. Quits(Terminal) /\ pc[Terminal] = "quita"
      BY <2>3 DEF KillFinds, Quits, En
    <3> QED BY <3>1, Threads DEF Steps
  <2> QED BY <1>4, <1>5, <1>6, <2>1, <2>2, <2>3 DEF PasoTerminal
<1>7. CASE PasoReceptor
  <2>1. CASE MiraActive \/ Llama
    <3>1. Goes(Receptor)
      BY <2>1 DEF MiraActive, Llama, Goes, En
    <3> QED BY <3>1 DEF Steps
  <2>2. CASE RecibePid
    <3>1. Dies \/ (GetsPid(MlistLast(programs)) /\ MlistLast(programs) \in Corridas)
      BY <1>0, <2>2, Threads DEF RecibePid, UsaPrograma, Dies, GetsPid, En, Llega
    <3> QED BY <3>1 DEF Steps
  <2>3. CASE RecibeFin
    BY <2>3 DEF Steps
  <2>4. CASE Marca
    <3>1. Dies \/ (Marks(programa[Receptor]) /\ programa[Receptor] \in Corridas)
      BY <1>0, <2>4, Threads DEF Marca, UsaPrograma, Dies, Marks, En
    <3> QED BY <3>1 DEF Steps
  <2>5. CASE Postea
    <3>1. Dies \/ (Posts(programa[Receptor]) /\ programa[Receptor] \in Corridas)
      BY <1>0, <2>5, Threads DEF Postea, UsaPrograma, Dies, Posts, En
    <3> QED BY <3>1 DEF Steps
  <2> QED BY <1>4, <1>5, <1>7, <2>1, <2>2, <2>3, <2>4, <2>5 DEF PasoReceptor
<1>8. ASSUME NEW h \in Corridas, PasoManejador(h) PROVE Steps
  <2>0. h \in Hilos /\ h # Receptor /\ h # Terminal /\ programa[h] \in Links
    BY <1>0, Threads
  <2>1. CASE Toma(h) \/ Envia(h)
    BY <2>1 DEF Steps
  <2>2. CASE NoLee(h)
    <3>1. Quits(h) /\ pc[h] # "quita"
      BY <2>2 DEF NoLee, Quits, En
    <3> QED BY <2>0, <3>1 DEF Steps
  <2>3. CASE Mira(h)
    <3>1. Dies \/ (Checks(h, programa[h]) /\ programa[h] \in Corridas)
      BY <2>0, <2>3, Threads DEF Mira, UsaPrograma, Dies, Checks, En
    <3> QED BY <3>1 DEF Steps
  <2>4. CASE Espera(h)
    <3>1. Dies \/ (Wakes(h, programa[h]) /\ programa[h] \in Corridas)
      BY <2>0, <2>4, Threads DEF Espera, UsaPrograma, Dies, Wakes, En
    <3> QED BY <3>1 DEF Steps
  <2>5. CASE Informa(h)
    <3>1. Dies \/ (Quits(h) /\ pc[h] # "quita")
      BY <2>0, <2>5, Threads DEF Informa, UsaPrograma, Dies, Quits, En
    <3> QED BY <2>0, <3>1 DEF Steps
  <2> QED BY <1>3, <1>8, <2>0, <2>1, <2>2, <2>3, <2>4, <2>5 DEF PasoManejador
<1> QED BY <1>1, <1>2, <1>6, <1>7, <1>8 DEF Next

----------------------------------------------------------------------------
(* What is sent.                                                           *)

LEMMA SentSeq == TypeInv => Enviados \in Seq(Corridas) /\ DOMAIN Enviados = 1..Len(Enviados)
<1> SUFFICES ASSUME TypeInv PROVE Enviados \in Seq(Corridas)
  BY LenProperties
<1> QED BY ConcatProperties DEF TypeInv, Enviados

LEMMA SentCount ==
  ASSUME TypeInv, SentOnce
  PROVE  /\ Len(alKernel) + Len(dueno) <= corridas
         /\ Len(alKernel) \in Nat /\ Len(dueno) \in Nat /\ corridas \in Nat
<1>1. /\ alKernel \in Seq(Corridas) /\ dueno \in Seq(Corridas)
      /\ Len(alKernel) \in Nat /\ Len(dueno) \in Nat /\ corridas \in Nat
  BY Threads, LenProperties DEF TypeInv
<1>2. Len(Enviados) = Len(dueno) + Len(alKernel) /\ Enviados \in Seq(Corridas)
  BY <1>1, ConcatProperties DEF Enviados
<1>3. Enviados \in Injection(1..Len(Enviados), 1..corridas)
  <2>1. DOMAIN Enviados = 1..Len(Enviados) /\ Enviados \in [1..Len(Enviados) -> Corridas]
    BY <1>2, LenProperties
  <2>2. \A i \in 1..Len(Enviados) : Enviados[i] <= corridas /\ Enviados[i] \in Corridas
    BY <2>1 DEF SentOnce, Range
  <2>3. \A k \in Corridas : k \in Nat /\ k > 0
    BY Threads
  <2>4. Enviados \in [1..Len(Enviados) -> 1..corridas]
    BY <1>1, <2>1, <2>2, <2>3
  <2> QED BY <2>4 DEF SentOnce, Injection
<1>4. IsFiniteSet(1..corridas) /\ Cardinality(1..corridas) = corridas
  BY <1>1, CountTo
<1>5. Cardinality(1..Len(Enviados)) = Len(Enviados)
  BY <1>1, <1>2, CountTo
<1>6. Cardinality(1..Len(Enviados)) <= Cardinality(1..corridas)
  BY <1>3, <1>4, FS_Injection
<1> QED BY <1>1, <1>2, <1>4, <1>5, <1>6

LEMMA SendsOne ==
  ASSUME TypeInv, NEW k \in Corridas, Envia(k)
  PROVE  Enviados' = Append(Enviados, k)
<1>1. alKernel \in Seq(Corridas) /\ dueno \in Seq(Corridas) /\ <<k>> \in Seq(Corridas)
  BY DEF TypeInv
<1>2. alKernel' = Append(alKernel, k) /\ dueno' = dueno
  BY DEF Envia
<1>3. Append(alKernel, k) = alKernel \o <<k>> /\ Append(Enviados, k) = Enviados \o <<k>>
  BY <1>1, SentSeq, AppendIsConcat
<1>4. (dueno \o alKernel) \o <<k>> = dueno \o (alKernel \o <<k>>)
  BY <1>1, ConcatAssociative
<1> QED BY <1>2, <1>3, <1>4 DEF Enviados

LEMMA StartsOne ==
  ASSUME TypeInv, KernelStarts
  PROVE  /\ Enviados' = Enviados /\ Head(alKernel) \in Corridas
         /\ Head(alKernel) = alKernel[1] /\ alKernel # <<>>
         /\ dueno' = Append(dueno, Head(alKernel)) /\ dueno' \in Seq(Corridas)
         /\ Len(dueno') = Len(dueno) + 1 /\ dueno'[Len(dueno) + 1] = Head(alKernel)
         /\ \A i \in 1..Len(dueno) : dueno'[i] = dueno[i]
         /\ alKernel' = Tail(alKernel) /\ alKernel' \in Seq(Corridas)
<1>1. /\ alKernel \in Seq(Corridas) /\ dueno \in Seq(Corridas) /\ alKernel # <<>>
      /\ dueno' = Append(dueno, Head(alKernel)) /\ alKernel' = Tail(alKernel)
  BY DEF TypeInv, KernelStarts
<1>2. Head(alKernel) \in Corridas /\ Tail(alKernel) \in Seq(Corridas) /\ Head(alKernel) = alKernel[1]
  BY <1>1, HeadTailProperties
<1>3. <<Head(alKernel)>> \in Seq(Corridas) /\ alKernel = <<Head(alKernel)>> \o Tail(alKernel)
  BY <1>1, <1>2
<1>4. Append(dueno, Head(alKernel)) = dueno \o <<Head(alKernel)>>
  BY <1>1, <1>2, AppendIsConcat
<1>5. (dueno \o <<Head(alKernel)>>) \o Tail(alKernel) = dueno \o (<<Head(alKernel)>> \o Tail(alKernel))
  BY <1>1, <1>2, <1>3, ConcatAssociative
<1>6. Enviados' = Enviados
  BY <1>1, <1>3, <1>4, <1>5 DEF Enviados
<1> QED BY <1>1, <1>2, <1>6, AppendProperties

----------------------------------------------------------------------------
(* Every step keeps the types.                                             *)

LEMMA TypeInit == Init => TypeInv
<1> SUFFICES ASSUME Init PROVE TypeInv
  OBVIOUS
<1>1. MlistCreate \in ListType
  BY EmptyLinked DEF Linked
<1>2. 0 \in 0..Cardinality(Corridas)
  BY Threads
<1>3. pc \in [Hilos -> Lugares]
  BY DEF Init, Lugares
<1>4. /\ programa \in [Hilos -> Links] /\ nodo \in [Hilos -> Links] /\ sig \in [Hilos -> Links]
      /\ busca \in [Hilos -> Nat]
  BY Threads DEF Init
<1>5. <<>> \in Seq(Corridas) /\ <<>> \in Seq(Mensajes)
  OBVIOUS
<1> QED BY <1>1, <1>2, <1>3, <1>4, <1>5 DEF Init, TypeInv, Estados

LEMMA LinkTypes ==
  ASSUME TypeInv
  PROVE  /\ programs.head \in Links /\ programs.tail \in Links /\ MlistLast(programs) \in Links
         /\ \A n \in Corridas : programs.next[n] \in Links
         /\ Null \in Links
BY Threads DEF TypeInv, ListType, MlistLast

LEMMA FirstMessage ==
  ASSUME TypeInv, deKernel # <<>>
  PROVE  /\ Head(deKernel) \in Mensajes /\ Head(deKernel).pid \in Corridas
         /\ Head(deKernel).pid \in Nat /\ Head(deKernel) = deKernel[1] /\ 1 \in DOMAIN deKernel
         /\ Tail(deKernel) \in Seq(Mensajes) /\ DOMAIN deKernel = 1..Len(deKernel)
         /\ Len(deKernel) \in Nat /\ DOMAIN Tail(deKernel) = 1..(Len(deKernel) - 1)
         /\ \A i \in 1..(Len(deKernel) - 1) : Tail(deKernel)[i] = deKernel[i + 1]
<1>1. deKernel \in Seq(Mensajes)
  BY DEF TypeInv
<1>2. /\ Head(deKernel) \in Mensajes /\ Tail(deKernel) \in Seq(Mensajes)
      /\ Len(Tail(deKernel)) = Len(deKernel) - 1
      /\ \A i \in 1..Len(Tail(deKernel)) : Tail(deKernel)[i] = deKernel[i + 1]
  BY <1>1, HeadTailProperties
<1>3. /\ DOMAIN deKernel = 1..Len(deKernel) /\ Len(deKernel) \in Nat \ {0}
      /\ DOMAIN Tail(deKernel) = 1..Len(Tail(deKernel)) /\ Head(deKernel) = deKernel[1]
  BY <1>1, <1>2, LenProperties, EmptySeq
<1>4. PICK m \in Mensajes : m = Head(deKernel)
  BY <1>2
<1>5. m.pid \in Corridas /\ m.pid \in Nat
  BY Threads DEF Mensajes
<1> QED BY <1>2, <1>3, <1>4, <1>5

LEMMA TypeStep ==
  ASSUME Inv, Next
  PROVE  TypeInv'
<1> USE DEF locales, lista, datos, proceso, conexion, En, Va, Lugares
<1>0. TypeInv /\ SentOnce /\ ListInv /\ Steps
  BY NextIsStep DEF Inv
<1>1. CASE Dies
  BY <1>0, <1>1, Threads DEF TypeInv, Dies, Muere
<1>2. CASE RunTyped
  <2>1. corridas + 1 \in 0..Cardinality(Corridas)
    BY <1>0, <1>2, Threads DEF RunTyped, TypeInv
  <2> QED BY <1>0, <1>2, <2>1, Threads DEF TypeInv, RunTyped
<1>3. CASE AppendReads
  BY <1>0, <1>3, LinkTypes, Threads DEF TypeInv, AppendReads, Estados
<1>4. CASE Misses
  BY <1>0, <1>4, LinkTypes, Threads DEF TypeInv, Misses, Vuelve
<1>5. CASE RecibeFin
  <2>1. deKernel # <<>> /\ deKernel \in Seq(Mensajes)
    BY <1>0, <1>5 DEF RecibeFin, Llega, TypeInv
  <2>2. Tail(deKernel) \in Seq(Mensajes) /\ Head(deKernel).pid \in Nat
    BY <1>0, <2>1, FirstMessage
  <2> QED BY <1>0, <1>5, <2>2, LinkTypes, Threads DEF TypeInv, RecibeFin
<1>6. CASE KernelStarts
  <2>1. Len(dueno) + 1 \in Corridas
    <3>1. Len(alKernel) > 0
      BY <1>0, <1>6, LenProperties, EmptySeq DEF KernelStarts, TypeInv
    <3>2. corridas <= Cardinality(Corridas)
      BY <1>0, Threads DEF TypeInv
    <3> QED BY <1>0, <3>1, <3>2, SentCount, Threads
  <2>2. [op |-> "pid", pid |-> Len(dueno) + 1] \in Mensajes
    BY <2>1 DEF Mensajes
  <2>3. deKernel' \in Seq(Mensajes)
    BY <1>0, <1>6, <2>2, AppendProperties DEF KernelStarts, TypeInv
  <2>4. terminados' \subseteq DOMAIN dueno'
    <3>1. DOMAIN dueno = 1..Len(dueno) /\ DOMAIN dueno' = 1..(Len(dueno) + 1) /\ Len(dueno) \in Nat
      BY <1>0, <1>6, StartsOne, LenProperties DEF TypeInv
    <3> QED BY <1>0, <1>6, <3>1 DEF TypeInv, KernelStarts
  <2> QED BY <1>0, <1>6, <2>3, <2>4, StartsOne DEF TypeInv, KernelStarts
<1>7. ASSUME NEW p \in Nat, KillTyped(p) PROVE TypeInv'
  BY <1>0, <1>7, LinkTypes, Threads DEF TypeInv, KillTyped
<1>8. ASSUME NEW p \in Corridas, KernelEnds(p) PROVE TypeInv'
  <2>1. deKernel' \in Seq(Mensajes)
    BY <1>0, <1>8, AppendProperties DEF KernelEnds, TypeInv, Mensajes
  <2> QED BY <1>0, <1>8, <2>1 DEF TypeInv, KernelEnds
<1>9. ASSUME NEW t \in {Terminal, Receptor}, Goes(t) \/ Looks(t) \/ Apaga(t) \/ Junta(t) \/ Frees(t)
      PROVE  TypeInv'
  <2>0. t \in Hilos
    BY Threads
  <2>1. CASE Goes(t)
    BY <1>0, <2>0, <2>1 DEF TypeInv, Goes, Pasa
  <2>2. CASE Looks(t)
    <3>1. nodo[t] \in Corridas
      BY <1>0, <2>2, Threads DEF TypeInv, Looks
    <3>2. programs.next[nodo[t]] \in Links /\ nodo[t] \in Links
      BY <1>0, <3>1, LinkTypes, Threads
    <3> QED BY <1>0, <2>0, <2>2, <3>1, <3>2, Threads DEF TypeInv, Looks, MiraNodo
  <2>3. CASE Apaga(t)
    <3>1. pc' \in [Hilos -> Lugares]
      <4>1. pc' = [pc EXCEPT ![t] = "junta"] \/ pc' = [pc EXCEPT ![t] = "junta", ![Receptor] = "sale"]
        BY <2>3 DEF Apaga
      <4> QED BY <1>0, <2>0, <4>1, Threads DEF TypeInv
    <3> QED BY <1>0, <2>3, <3>1 DEF TypeInv, Apaga
  <2>4. CASE Junta(t)
    BY <1>0, <1>9, <2>0, <2>4, LinkTypes DEF TypeInv, Junta
  <2>5. CASE Frees(t)
    BY <1>0, <2>0, <2>5 DEF TypeInv, Frees, SinNodo
  <2> QED BY <1>9, <2>1, <2>2, <2>3, <2>4, <2>5
<1>10. ASSUME NEW t \in Hilos, Visits(t) \/ Leaves(t) \/ Unlinks(t) \/ Quits(t) PROVE TypeInv'
  <2>1. CASE Visits(t)
    <3>1. nodo[t] \in Corridas
      BY <1>0, <2>1, Threads DEF TypeInv, Visits
    <3>2. programs.next[nodo[t]] \in Links /\ nodo[t] \in Links
      BY <1>0, <3>1, LinkTypes, Threads
    <3>3. sig' \in [Hilos -> Links] /\ nodo' \in [Hilos -> Links]
      BY <1>0, <2>1, <3>1, <3>2 DEF TypeInv, Visits, Visita
    <3>4. programa' \in [Hilos -> Links]
      <4>1. programa' = [programa EXCEPT ![t] = IF mutex = t THEN nodo[t] ELSE programa[t]]
        BY <2>1 DEF Visits, Visita
      <4>2. programa \in [Hilos -> Links] /\ programa[t] \in Links
        BY <1>0 DEF TypeInv
      <4> QED BY <1>10, <3>2, <4>1, <4>2
    <3>5. pc' \in [Hilos -> Lugares]
      BY <1>0, <2>1 DEF TypeInv, Visits, Visita
    <3> QED BY <1>0, <2>1, <3>3, <3>4, <3>5 DEF TypeInv, Visits, Visita
  <2>2. CASE Leaves(t)
    BY <1>0, <2>2, LinkTypes, Threads DEF TypeInv, Leaves, Vuelve
  <2>3. CASE Unlinks(t)
    <3>1. programs' \in ListType
      <4>1. PICK i \in 1..Len(Orden) : nodo[t] = Orden[i]
        <5>1. nodo[t] \in Range(Orden) /\ DOMAIN Orden = 1..Len(Orden)
          BY <1>0, <2>3, LenProperties DEF ListInv, Unlinks, Linked
        <5> QED BY <5>1 DEF Range
      <4> QED BY <1>0, <2>3, <4>1, RemoveLinked DEF ListInv, Unlinks, SinNodo, Linked
    <3> QED BY <1>0, <2>3, <3>1 DEF TypeInv, Unlinks, SinNodo
  <2>4. CASE Quits(t)
    BY <1>0, <2>4, LinkTypes DEF TypeInv, Quits, Quita
  <2> QED BY <1>10, <2>1, <2>2, <2>3, <2>4
<1>11. ASSUME NEW t \in Hilos, NEW k \in Corridas, Warns(t, k) \/ Joins(t, k) PROVE TypeInv'
  <2>1. CASE Warns(t, k)
    <3>1. sem' \in [Corridas -> Nat] /\ estado' \in [Corridas -> Estados]
      BY <1>0, <2>1 DEF Warns, TypeInv, Estados
    <3> QED BY <1>0, <2>1, <3>1 DEF TypeInv, Warns
  <2>2. CASE Joins(t, k)
    <3>1. pc' \in [Hilos -> Lugares] /\ estado' \in [Corridas -> Estados]
      BY <1>0, <2>2 DEF Joins, TypeInv, Estados
    <3> QED BY <1>0, <2>2, <3>1 DEF TypeInv, Joins
  <2> QED BY <1>11, <2>1, <2>2
<1>12. ASSUME NEW k \in Corridas, GetsPid(k) \/ Marks(k) \/ Posts(k) \/ Toma(k) \/ Envia(k)
       PROVE  TypeInv'
  <2>1. CASE GetsPid(k)
    <3>1. deKernel # <<>> /\ deKernel \in Seq(Mensajes)
      BY <1>0, <2>1 DEF GetsPid, Llega, TypeInv
    <3>2. Tail(deKernel) \in Seq(Mensajes) /\ Head(deKernel).pid \in Corridas
      BY <1>0, <3>1, FirstMessage
    <3> QED BY <1>0, <2>1, <3>2, Threads DEF TypeInv, GetsPid
  <2>2. CASE Marks(k)
    BY <1>0, <2>2, Threads DEF TypeInv, Marks, Estados
  <2>3. CASE Posts(k)
    <3>1. sem' \in [Corridas -> Nat]
      BY <1>0, <2>3 DEF Posts, TypeInv
    <3> QED BY <1>0, <2>3, <3>1, LinkTypes, Threads DEF TypeInv, Posts, Vuelve
  <2>4. CASE Toma(k)
    BY <1>0, <2>4, LinkTypes, Threads DEF TypeInv, Toma
  <2>5. CASE Envia(k)
    <3>1. Append(alKernel, k) \in Seq(Corridas)
      BY <1>0, AppendProperties DEF TypeInv
    <3> QED BY <1>0, <2>5, <3>1, Threads DEF TypeInv, Envia
  <2> QED BY <1>12, <2>1, <2>2, <2>3, <2>4, <2>5
<1>13. ASSUME NEW h \in Corridas, NEW k \in Corridas, Checks(h, k) \/ Wakes(h, k) PROVE TypeInv'
  <2>0. h \in Hilos /\ pc \in [Hilos -> Lugares]
    BY <1>0, Threads DEF TypeInv
  <2>1. CASE Checks(h, k)
    <3>1. pc' \in [Hilos -> Lugares]
      BY <2>0, <2>1 DEF Checks, Pasa
    <3> QED BY <1>0, <2>1, <3>1 DEF TypeInv, Checks, Pasa
  <2>2. CASE Wakes(h, k)
    <3>1. pc' \in [Hilos -> Lugares]
      BY <2>0, <2>2 DEF Wakes
    <3>2. sem' \in [Corridas -> Nat]
      BY <1>0, <2>2 DEF Wakes, TypeInv
    <3> QED BY <1>0, <2>2, <3>1, <3>2 DEF TypeInv, Wakes
  <2> QED BY <1>13, <2>1, <2>2
<1>14. CASE Appends
  <2>1. programs' \in ListType
    <3>1. corridas \in Corridas /\ \A y \in Range(Orden) : y < corridas
      <4>1. corridas > 0 /\ corridas \notin Range(Orden) /\ \A n \in Range(Orden) : n <= corridas
        BY <1>0, <1>14 DEF Appends, ListInv
      <4>2. \A n \in Range(Orden) : n \in Corridas
        <5>1. Orden \in Seq(Nodos)
          BY <1>0 DEF ListInv, Linked
        <5>2. \A i \in DOMAIN Orden : Orden[i] \in Corridas
          BY <5>1, LenProperties, Threads
        <5> QED BY <5>2 DEF Range
      <4> QED BY <1>0, <4>1, <4>2, Threads DEF TypeInv
    <3>2. MlistEmpty(programs) \/ nodo[Terminal] = programs.tail
      BY <1>0, <1>14 DEF Appends, ListInv
    <3>3. corridas \in Nodos
      BY <3>1, Threads
    <3> QED BY <1>0, <1>14, <3>1, <3>2, <3>3, AppendLinked DEF ListInv, Linked, Appends, AgregaNodo
  <2>2. corridas \in Nodos
    BY <1>0, <1>14, Threads DEF Appends, ListInv, TypeInv
  <2> QED BY <1>0, <1>14, <2>1, <2>2, LinkTypes, Threads DEF TypeInv, Appends, AgregaNodo, Vuelve
<1> HIDE DEF locales, lista, datos, proceso, conexion, En, Va, Lugares
<1> QED BY <1>0, <1>1, <1>2, <1>3, <1>4, <1>5, <1>6, <1>7, <1>8, <1>9, <1>10, <1>11, <1>12,
           <1>13, <1>14 DEF Steps

----------------------------------------------------------------------------
(* How a handler goes on, and when a run begins.                           *)

HandlerGoes ==
  /\ vida = "sigue" /\ corridas' \in {corridas, corridas + 1}
  /\ \A h \in Corridas :
       \/ pc'[h] = pc[h] /\ (corridas' = corridas + 1 => h # corridas + 1)
       \/ corridas' = corridas + 1 /\ h = corridas + 1 /\ pc'[h] = "nace" /\ RunTyped
       \/ pc[h] = "nace" /\ pc'[h] = "lee" /\ Toma(h)
       \/ pc[h] = "lee" /\ pc'[h] = "mira" /\ Envia(h)
       \/ pc[h] \notin {"no", "nace"} /\ pc'[h] \notin {"no", "nace", "lee"}
       \/ vida' # "sigue" /\ pc'[h] = "fin"

LEMMA HandlerStep ==
  ASSUME TypeInv, Steps
  PROVE  HandlerGoes
<1>0. TypeInv
  OBVIOUS
<1> USE DEF locales, lista, datos, proceso, conexion, En, Va
<1>1. CASE Dies
  BY <1>0, <1>1, Threads DEF HandlerGoes, TypeInv, Dies, Muere
<1>2. CASE RunTyped
  BY <1>0, <1>2, Threads DEF HandlerGoes, TypeInv, RunTyped
<1>3. CASE AppendReads
  BY <1>0, <1>3, Threads DEF HandlerGoes, TypeInv, AppendReads
<1>4. CASE Appends
  BY <1>0, <1>4, Threads DEF HandlerGoes, TypeInv, Appends, AgregaNodo, Vuelve
<1>5. CASE Misses
  BY <1>0, <1>5, Threads DEF HandlerGoes, TypeInv, Misses, Vuelve
<1>6. CASE RecibeFin
  BY <1>0, <1>6, Threads DEF HandlerGoes, TypeInv, RecibeFin, Llega
<1>7. CASE KernelStarts
  BY <1>0, <1>7, Threads DEF HandlerGoes, TypeInv, KernelStarts
<1>8. ASSUME NEW p \in Nat, KillTyped(p) PROVE HandlerGoes
  BY <1>0, <1>8, Threads DEF HandlerGoes, TypeInv, KillTyped
<1>9. ASSUME NEW p \in Corridas, KernelEnds(p) PROVE HandlerGoes
  BY <1>0, <1>9, Threads DEF HandlerGoes, TypeInv, KernelEnds
<1>10. ASSUME NEW t \in {Terminal, Receptor},
              Goes(t) \/ Looks(t) \/ Apaga(t) \/ Junta(t) \/ Frees(t)
       PROVE  HandlerGoes
  <2>1. CASE Goes(t)
    BY <1>0, <1>10, <2>1, Threads DEF HandlerGoes, TypeInv, Goes, Pasa
  <2>2. CASE Looks(t)
    BY <1>0, <1>10, <2>2, Threads DEF HandlerGoes, TypeInv, Looks, MiraNodo
  <2>3. CASE Apaga(t)
    BY <1>0, <1>10, <2>3, Threads DEF HandlerGoes, TypeInv, Apaga
  <2>4. CASE Junta(t)
    BY <1>0, <1>10, <2>4, Threads DEF HandlerGoes, TypeInv, Junta
  <2>5. CASE Frees(t)
    BY <1>0, <1>10, <2>5, Threads DEF HandlerGoes, TypeInv, Frees, SinNodo
  <2> QED BY <1>10, <2>1, <2>2, <2>3, <2>4, <2>5
<1>11. ASSUME NEW t \in Hilos,
              Visits(t) \/ Leaves(t) \/ Unlinks(t) \/ (Quits(t) /\ t # Receptor /\ (t = Terminal <=> pc[t] = "quita"))
       PROVE  HandlerGoes
  <2>1. CASE Visits(t)
    BY <1>0, <1>11, <2>1, Threads DEF HandlerGoes, TypeInv, Visits, Visita
  <2>2. CASE Leaves(t)
    BY <1>0, <1>11, <2>2, Threads DEF HandlerGoes, TypeInv, Leaves, Vuelve
  <2>3. CASE Unlinks(t)
    BY <1>0, <1>11, <2>3, Threads DEF HandlerGoes, TypeInv, Unlinks, SinNodo
  <2>4. CASE (Quits(t) /\ t # Receptor /\ (t = Terminal <=> pc[t] = "quita"))
    BY <1>0, <1>11, <2>4, Threads DEF HandlerGoes, TypeInv, Quits, Quita
  <2> QED BY <1>11, <2>1, <2>2, <2>3, <2>4
<1>12. ASSUME NEW t \in Hilos, NEW k \in Corridas,
              Warns(t, k) \/ Joins(t, k)
       PROVE  HandlerGoes
  <2>1. CASE Warns(t, k)
    BY <1>0, <1>12, <2>1, Threads DEF HandlerGoes, TypeInv, Warns
  <2>2. CASE Joins(t, k)
    BY <1>0, <1>12, <2>2, Threads DEF HandlerGoes, TypeInv, Joins
  <2> QED BY <1>12, <2>1, <2>2
<1>13. ASSUME NEW k \in Corridas,
              GetsPid(k) \/ Marks(k) \/ Posts(k) \/ Toma(k) \/ Envia(k)
       PROVE  HandlerGoes
  <2>1. CASE GetsPid(k)
    BY <1>0, <1>13, <2>1, Threads DEF HandlerGoes, TypeInv, GetsPid, Llega
  <2>2. CASE Marks(k)
    BY <1>0, <1>13, <2>2, Threads DEF HandlerGoes, TypeInv, Marks
  <2>3. CASE Posts(k)
    BY <1>0, <1>13, <2>3, Threads DEF HandlerGoes, TypeInv, Posts, Vuelve
  <2>4. CASE Toma(k)
    <3>1. vida = "sigue" /\ corridas' = corridas /\ pc[k] = "nace" /\ pc' = [pc EXCEPT ![k] = "lee"]
      BY <2>4 DEF Toma
    <3> QED BY <1>0, <2>4, <3>1, Threads DEF HandlerGoes, TypeInv
  <2>5. CASE Envia(k)
    BY <1>0, <1>13, <2>5, Threads DEF HandlerGoes, TypeInv, Envia
  <2> QED BY <1>13, <2>1, <2>2, <2>3, <2>4, <2>5
<1>14. ASSUME NEW h \in Corridas, NEW k \in Corridas,
              Checks(h, k) \/ Wakes(h, k)
       PROVE  HandlerGoes
  <2>1. CASE Checks(h, k)
    BY <1>0, <1>14, <2>1, Threads, SMTT(30) DEF HandlerGoes, TypeInv, Checks, Pasa
  <2>2. CASE Wakes(h, k)
    BY <1>0, <1>14, <2>2, Threads, SMTT(30) DEF HandlerGoes, TypeInv, Wakes
  <2> QED BY <1>14, <2>1, <2>2
<1> HIDE DEF locales, lista, datos, proceso, conexion, En, Va
<1> QED BY <1>0, <1>1, <1>2, <1>3, <1>4, <1>5, <1>6, <1>7, <1>8, <1>9, <1>10, <1>11, <1>12, <1>13, <1>14 DEF Steps

----------------------------------------------------------------------------
(* A handler sends its program once.                                       *)

\* What goes over the connection.
MessagesGo ==
  /\ \/ \E k \in Corridas : Envia(k)
     \/ Enviados' = Enviados
  /\ \A i \in DOMAIN dueno : i \in DOMAIN dueno' /\ dueno'[i] = dueno[i]
  /\ \A i \in DOMAIN deKernel' :
       \/ deKernel'[i].pid \in DOMAIN dueno'
       \/ \E j \in DOMAIN deKernel : deKernel'[i] = deKernel[j]

LEMMA MessageStep ==
  ASSUME TypeInv, Steps
  PROVE  MessagesGo
<1>0. TypeInv
  OBVIOUS
<1> USE DEF locales, lista, datos, proceso, conexion, En, Va
<1>1. CASE Dies
  BY <1>0, <1>1, Threads DEF MessagesGo, Enviados, Pasa, Dies, Muere
<1>2. CASE RunTyped
  BY <1>0, <1>2, Threads DEF MessagesGo, Enviados, Pasa, RunTyped
<1>3. CASE AppendReads
  BY <1>0, <1>3, Threads DEF MessagesGo, Enviados, Pasa, AppendReads
<1>4. CASE Appends
  BY <1>0, <1>4, Threads DEF MessagesGo, Enviados, Pasa, Appends, AgregaNodo, Vuelve
<1>5. CASE Misses
  BY <1>0, <1>5, Threads DEF MessagesGo, Enviados, Pasa, Misses, Vuelve
<1>6. CASE RecibeFin
  <2>1. UNCHANGED <<alKernel, dueno>> /\ deKernel' = Tail(deKernel) /\ deKernel # <<>>
    BY <1>6 DEF RecibeFin, Llega
  <2>2. \A i \in 1..(Len(deKernel) - 1) : i + 1 \in 1..Len(deKernel)
    BY <1>0, <2>1, FirstMessage
  <2> QED BY <1>0, <2>1, <2>2, FirstMessage DEF MessagesGo, Enviados
<1>7. CASE KernelStarts
  <2>1. deKernel \in Seq(Mensajes) /\ dueno \in Seq(Corridas) /\ Len(dueno) \in Nat
    BY <1>0, LenProperties DEF TypeInv
  <2>2. deKernel' = Append(deKernel, [op |-> "pid", pid |-> Len(dueno) + 1])
    BY <1>7 DEF KernelStarts
  <2>3. /\ DOMAIN dueno' = 1..(Len(dueno) + 1) /\ DOMAIN dueno = 1..Len(dueno)
        /\ \A i \in 1..Len(dueno) : dueno'[i] = dueno[i]
    BY <1>0, <1>7, <2>1, StartsOne, LenProperties
  <2>4. \A i \in DOMAIN deKernel' : \/ i \in DOMAIN deKernel /\ deKernel'[i] = deKernel[i]
                                   \/ deKernel'[i].pid = Len(dueno) + 1
    BY <2>1, <2>2
  <2>5. Enviados' = Enviados
    BY <1>0, <1>7, StartsOne
  <2> QED BY <2>1, <2>3, <2>4, <2>5 DEF MessagesGo
<1>8. ASSUME NEW p \in Nat, KillTyped(p) PROVE MessagesGo
  BY <1>0, <1>8, Threads DEF MessagesGo, Enviados, Pasa, KillTyped
<1>9. ASSUME NEW p \in Corridas, KernelEnds(p) PROVE MessagesGo
  <2>1. UNCHANGED <<alKernel, dueno>> /\ deKernel' = Append(deKernel, [op |-> "fin", pid |-> p])
        /\ p \in DOMAIN dueno
    BY <1>9 DEF KernelEnds
  <2>2. deKernel \in Seq(Mensajes)
    BY <1>0 DEF TypeInv
  <2>3. \A i \in DOMAIN deKernel' : \/ i \in DOMAIN deKernel /\ deKernel'[i] = deKernel[i]
                                   \/ deKernel'[i].pid = p
    BY <2>1, <2>2
  <2> QED BY <2>1, <2>3 DEF MessagesGo, Enviados
<1>10. ASSUME NEW t \in {Terminal, Receptor},
              Goes(t) \/ Looks(t) \/ Apaga(t) \/ Junta(t) \/ Frees(t)
       PROVE  MessagesGo
  <2>1. CASE Goes(t)
    BY <1>0, <1>10, <2>1, Threads DEF MessagesGo, Enviados, Pasa, Goes, Pasa
  <2>2. CASE Looks(t)
    BY <1>0, <1>10, <2>2, Threads DEF MessagesGo, Enviados, Pasa, Looks, MiraNodo
  <2>3. CASE Apaga(t)
    BY <1>0, <1>10, <2>3, Threads DEF MessagesGo, Enviados, Pasa, Apaga
  <2>4. CASE Junta(t)
    BY <1>0, <1>10, <2>4, Threads DEF MessagesGo, Enviados, Pasa, Junta
  <2>5. CASE Frees(t)
    BY <1>0, <1>10, <2>5, Threads DEF MessagesGo, Enviados, Pasa, Frees, SinNodo
  <2> QED BY <1>10, <2>1, <2>2, <2>3, <2>4, <2>5
<1>11. ASSUME NEW t \in Hilos,
              Visits(t) \/ Leaves(t) \/ Unlinks(t) \/ (Quits(t) /\ t # Receptor /\ (t = Terminal <=> pc[t] = "quita"))
       PROVE  MessagesGo
  <2>1. CASE Visits(t)
    BY <1>0, <1>11, <2>1, Threads DEF MessagesGo, Enviados, Pasa, Visits, Visita
  <2>2. CASE Leaves(t)
    BY <1>0, <1>11, <2>2, Threads DEF MessagesGo, Enviados, Pasa, Leaves, Vuelve
  <2>3. CASE Unlinks(t)
    BY <1>0, <1>11, <2>3, Threads DEF MessagesGo, Enviados, Pasa, Unlinks, SinNodo
  <2>4. CASE (Quits(t) /\ t # Receptor /\ (t = Terminal <=> pc[t] = "quita"))
    BY <1>0, <1>11, <2>4, Threads DEF MessagesGo, Enviados, Pasa, Quits, Quita
  <2> QED BY <1>11, <2>1, <2>2, <2>3, <2>4
<1>12. ASSUME NEW t \in Hilos, NEW k \in Corridas,
              Warns(t, k) \/ Joins(t, k)
       PROVE  MessagesGo
  <2>1. CASE Warns(t, k)
    BY <1>0, <1>12, <2>1, Threads DEF MessagesGo, Enviados, Pasa, Warns
  <2>2. CASE Joins(t, k)
    BY <1>0, <1>12, <2>2, Threads DEF MessagesGo, Enviados, Pasa, Joins
  <2> QED BY <1>12, <2>1, <2>2
<1>13. ASSUME NEW k \in Corridas,
              GetsPid(k) \/ Marks(k) \/ Posts(k) \/ Toma(k) \/ Envia(k)
       PROVE  MessagesGo
  <2>1. CASE GetsPid(k)
    <3>1. UNCHANGED <<alKernel, dueno>> /\ deKernel' = Tail(deKernel) /\ deKernel # <<>>
      BY <2>1 DEF GetsPid, Llega
    <3>2. \A i \in 1..(Len(deKernel) - 1) : i + 1 \in 1..Len(deKernel)
      BY <1>0, <3>1, FirstMessage
    <3> QED BY <1>0, <3>1, <3>2, FirstMessage DEF MessagesGo, Enviados
  <2>2. CASE Marks(k)
    BY <1>0, <1>13, <2>2, Threads DEF MessagesGo, Enviados, Pasa, Marks
  <2>3. CASE Posts(k)
    BY <1>0, <1>13, <2>3, Threads DEF MessagesGo, Enviados, Pasa, Posts, Vuelve
  <2>4. CASE Toma(k)
    BY <1>0, <1>13, <2>4, Threads DEF MessagesGo, Enviados, Pasa, Toma
  <2>5. CASE Envia(k)
    <3>1. UNCHANGED <<dueno, deKernel>>
      BY <2>5 DEF Envia
    <3> QED BY <2>5, <3>1 DEF MessagesGo
  <2> QED BY <1>13, <2>1, <2>2, <2>3, <2>4, <2>5
<1>14. ASSUME NEW h \in Corridas, NEW k \in Corridas,
              Checks(h, k) \/ Wakes(h, k)
       PROVE  MessagesGo
  <2>1. CASE Checks(h, k)
    BY <1>0, <1>14, <2>1, Threads DEF MessagesGo, Enviados, Pasa, Checks, Pasa
  <2>2. CASE Wakes(h, k)
    BY <1>0, <1>14, <2>2, Threads DEF MessagesGo, Enviados, Pasa, Wakes
  <2> QED BY <1>14, <2>1, <2>2
<1> HIDE DEF locales, lista, datos, proceso, conexion, En, Va
<1> QED BY <1>0, <1>1, <1>2, <1>3, <1>4, <1>5, <1>6, <1>7, <1>8, <1>9, <1>10, <1>11, <1>12, <1>13, <1>14 DEF Steps

LEMMA SentInit == Init => SentOnce
<1> SUFFICES ASSUME Init PROVE SentOnce
  OBVIOUS
<1>1. Enviados = <<>> /\ deKernel = <<>>
  BY DEF Init, Enviados
<1>2. \A k \in Corridas : pc[k] = "no" /\ k > corridas
  BY Threads DEF Init
<1>3. IsInjective(<<>>) /\ Range(<<>>) = {}
  BY EmptySeq DEF IsInjective, Range
<1>4. DOMAIN deKernel = {}
  BY <1>1, EmptySeq
<1> QED BY <1>1, <1>2, <1>3, <1>4 DEF SentOnce

LEMMA SentStep ==
  ASSUME TypeInv, SentOnce, Steps
  PROVE  SentOnce'
<1>1. HandlerGoes /\ MessagesGo
  BY HandlerStep, MessageStep
<1>2. /\ \A k \in Corridas : k \in Nat
      /\ corridas \in Nat /\ corridas' \in Nat /\ corridas <= corridas'
  BY <1>1, Threads DEF HandlerGoes, TypeInv
<1>3. Enviados \in Seq(Corridas) /\ \A k \in Range(Enviados) : k \in Corridas
  BY SentSeq, LenProperties DEF Range
<1>4. ASSUME NEW k \in Range(Enviados) PROVE k <= corridas' /\ pc'[k] \notin {"no", "nace", "lee"}
  <2>1. k \in Corridas /\ k \in Nat /\ k <= corridas /\ pc[k] \notin {"no", "nace", "lee"}
    BY <1>2, <1>3 DEF SentOnce
  <2> QED BY <1>1, <1>2, <2>1 DEF HandlerGoes
<1>5. IsInjective(Enviados') /\ \A k \in Range(Enviados') : k <= corridas' /\ pc'[k] \notin {"no", "nace", "lee"}
  <2>1. CASE Enviados' = Enviados
    BY <1>4, <2>1 DEF SentOnce
  <2>2. ASSUME NEW k \in Corridas, Envia(k)
        PROVE  /\ IsInjective(Enviados')
               /\ \A h \in Range(Enviados') : h <= corridas' /\ pc'[h] \notin {"no", "nace", "lee"}
    <3>1. pc[k] = "lee" /\ pc'[k] = "mira" /\ vida = "sigue" /\ corridas' = corridas
      BY <2>2, Threads DEF Envia, En, Va, TypeInv, proceso
    <3>2. k <= corridas /\ k \notin Range(Enviados)
      BY <1>2, <3>1 DEF SentOnce
    <3>3. Enviados' = Append(Enviados, k)
      BY <2>2, SendsOne
    <3>4. IsInjective(Append(Enviados, k)) /\ Range(Append(Enviados, k)) = Range(Enviados) \cup {k}
      BY <1>3, <3>2, AppendedInjective, AppendedList DEF SentOnce
    <3> QED BY <1>4, <3>1, <3>2, <3>3, <3>4
  <2>3. Enviados' = Enviados \/ \E k \in Corridas : Envia(k)
    BY <1>1 DEF MessagesGo
  <2> QED BY <2>1, <2>2, <2>3
<1>6. vida' = "sigue" => \A k \in Corridas : (pc'[k] = "no") = (k > corridas')
  <2> SUFFICES ASSUME vida' = "sigue", NEW k \in Corridas PROVE (pc'[k] = "no") <=> (k > corridas')
    OBVIOUS
  <2>1. (pc[k] = "no") <=> (k > corridas)
    BY <1>1 DEF SentOnce, HandlerGoes
  <2>2. k \in Nat /\ (k > corridas' <=> k > corridas /\ ~(corridas' = corridas + 1 /\ k = corridas + 1))
    BY <1>1, <1>2 DEF HandlerGoes
  <2>3. \/ pc'[k] = pc[k] /\ (corridas' = corridas + 1 => k # corridas + 1)
        \/ corridas' = corridas + 1 /\ k = corridas + 1 /\ pc'[k] = "nace"
        \/ pc[k] # "no" /\ pc'[k] # "no" /\ ~(k > corridas)
    BY <1>1, <2>1 DEF HandlerGoes
  <2> QED BY <1>2, <2>1, <2>2, <2>3
<1>7. \A i \in DOMAIN deKernel' : deKernel'[i].pid \in DOMAIN dueno'
  BY <1>1 DEF MessagesGo, SentOnce
<1>8. (IsInjective(Enviados))' = IsInjective(Enviados') /\ (Range(Enviados))' = Range(Enviados')
  OBVIOUS
<1> QED BY <1>5, <1>6, <1>7, <1>8 DEF SentOnce

----------------------------------------------------------------------------
(* mlist_clear is alone on the list.                                       *)

LEMMA AloneInit == Init => ClearAlone
BY Threads DEF Init, ClearAlone

LEMMA AloneStep ==
  ASSUME TypeInv, ClearAlone, Steps
  PROVE  ClearAlone'
<1>0. TypeInv /\ ClearAlone
  OBVIOUS
<1> USE DEF locales, lista, datos, proceso, conexion, En, Va
<1>1. CASE Dies
  BY <1>0, <1>1, Threads DEF ClearAlone, TypeInv, Dies, Muere
<1>2. CASE RunTyped
  BY <1>0, <1>2, Threads DEF ClearAlone, TypeInv, RunTyped
<1>3. CASE AppendReads
  BY <1>0, <1>3, Threads DEF ClearAlone, TypeInv, AppendReads
<1>4. CASE Appends
  BY <1>0, <1>4, Threads DEF ClearAlone, TypeInv, Appends, AgregaNodo, Vuelve
<1>5. CASE Misses
  BY <1>0, <1>5, Threads DEF ClearAlone, TypeInv, Misses, Vuelve
<1>6. CASE RecibeFin
  BY <1>0, <1>6, Threads DEF ClearAlone, TypeInv, RecibeFin, Llega
<1>7. CASE KernelStarts
  BY <1>0, <1>7, Threads DEF ClearAlone, TypeInv, KernelStarts
<1>8. ASSUME NEW p \in Nat, KillTyped(p) PROVE ClearAlone'
  BY <1>0, <1>8, Threads DEF ClearAlone, TypeInv, KillTyped
<1>9. ASSUME NEW p \in Corridas, KernelEnds(p) PROVE ClearAlone'
  BY <1>0, <1>9, Threads DEF ClearAlone, TypeInv, KernelEnds
<1>10. ASSUME NEW t \in {Terminal, Receptor},
              Goes(t) \/ Looks(t) \/ Apaga(t) \/ Junta(t) \/ Frees(t)
       PROVE  ClearAlone'
  <2>1. CASE Goes(t)
    BY <1>0, <1>10, <2>1, Threads DEF ClearAlone, TypeInv, Goes, Pasa
  <2>2. CASE Looks(t)
    BY <1>0, <1>10, <2>2, Threads DEF ClearAlone, TypeInv, Looks, MiraNodo
  <2>3. CASE Apaga(t)
    BY <1>0, <1>10, <2>3, Threads DEF ClearAlone, TypeInv, Apaga
  <2>4. CASE Junta(t)
    BY <1>0, <1>10, <2>4, Threads DEF ClearAlone, TypeInv, Junta
  <2>5. CASE Frees(t)
    BY <1>0, <1>10, <2>5, Threads DEF ClearAlone, TypeInv, Frees, SinNodo
  <2> QED BY <1>10, <2>1, <2>2, <2>3, <2>4, <2>5
<1>11. ASSUME NEW t \in Hilos,
              Visits(t) \/ Leaves(t) \/ Unlinks(t) \/ (Quits(t) /\ t # Receptor /\ (t = Terminal <=> pc[t] = "quita"))
       PROVE  ClearAlone'
  <2>1. CASE Visits(t)
    BY <1>0, <1>11, <2>1, Threads DEF ClearAlone, TypeInv, Visits, Visita
  <2>2. CASE Leaves(t)
    BY <1>0, <1>11, <2>2, Threads DEF ClearAlone, TypeInv, Leaves, Vuelve
  <2>3. CASE Unlinks(t)
    BY <1>0, <1>11, <2>3, Threads DEF ClearAlone, TypeInv, Unlinks, SinNodo
  <2>4. CASE (Quits(t) /\ t # Receptor /\ (t = Terminal <=> pc[t] = "quita"))
    BY <1>0, <1>11, <2>4, Threads DEF ClearAlone, TypeInv, Quits, Quita
  <2> QED BY <1>11, <2>1, <2>2, <2>3, <2>4
<1>12. ASSUME NEW t \in Hilos, NEW k \in Corridas,
              Warns(t, k) \/ Joins(t, k)
       PROVE  ClearAlone'
  <2>1. CASE Warns(t, k)
    BY <1>0, <1>12, <2>1, Threads DEF ClearAlone, TypeInv, Warns
  <2>2. CASE Joins(t, k)
    BY <1>0, <1>12, <2>2, Threads DEF ClearAlone, TypeInv, Joins
  <2> QED BY <1>12, <2>1, <2>2
<1>13. ASSUME NEW k \in Corridas,
              GetsPid(k) \/ Marks(k) \/ Posts(k) \/ Toma(k) \/ Envia(k)
       PROVE  ClearAlone'
  <2>1. CASE GetsPid(k)
    BY <1>0, <1>13, <2>1, Threads DEF ClearAlone, TypeInv, GetsPid, Llega
  <2>2. CASE Marks(k)
    BY <1>0, <1>13, <2>2, Threads DEF ClearAlone, TypeInv, Marks
  <2>3. CASE Posts(k)
    BY <1>0, <1>13, <2>3, Threads DEF ClearAlone, TypeInv, Posts, Vuelve
  <2>4. CASE Toma(k)
    BY <1>0, <1>13, <2>4, Threads DEF ClearAlone, TypeInv, Toma
  <2>5. CASE Envia(k)
    BY <1>0, <1>13, <2>5, Threads DEF ClearAlone, TypeInv, Envia
  <2> QED BY <1>13, <2>1, <2>2, <2>3, <2>4, <2>5
<1>14. ASSUME NEW h \in Corridas, NEW k \in Corridas,
              Checks(h, k) \/ Wakes(h, k)
       PROVE  ClearAlone'
  <2>1. CASE Checks(h, k)
    BY <1>0, <1>14, <2>1, Threads DEF ClearAlone, TypeInv, Checks, Pasa
  <2>2. CASE Wakes(h, k)
    BY <1>0, <1>14, <2>2, Threads DEF ClearAlone, TypeInv, Wakes
  <2> QED BY <1>14, <2>1, <2>2
<1> HIDE DEF locales, lista, datos, proceso, conexion, En, Va
<1> QED BY <1>0, <1>1, <1>2, <1>3, <1>4, <1>5, <1>6, <1>7, <1>8, <1>9, <1>10, <1>11, <1>12, <1>13, <1>14 DEF Steps

----------------------------------------------------------------------------
(* The list stays whole.                                                   *)

LEMMA OrdenSeq ==
  ASSUME TypeInv, ListInv
  PROVE  /\ Orden \in Seq(Nodos) /\ Orden \in Seq(Corridas) /\ Increasing(Orden)
         /\ DOMAIN Orden = 1..Len(Orden) /\ Len(Orden) \in Nat /\ Len(Orden) = programs.length
         /\ \A i \in 1..Len(Orden) : Orden[i] \in Corridas
         /\ \A n \in Range(Orden) : n \in Corridas /\ n <= corridas
<1>1. Orden \in Seq(Nodos) /\ Increasing(Orden) /\ Len(Orden) = programs.length
  BY DEF ListInv, Linked
<1>2. /\ DOMAIN Orden = 1..Len(Orden) /\ Len(Orden) \in Nat
      /\ \A i \in 1..Len(Orden) : Orden[i] \in Corridas
  BY <1>1, LenProperties, Threads
<1>3. \A n \in Range(Orden) : n \in Corridas /\ n <= corridas
  BY <1>2 DEF Range, ListInv
<1> QED BY <1>1, <1>2, <1>3, Threads

LEMMA ListInit == Init => ListInv
<1> SUFFICES ASSUME Init PROVE ListInv
  OBVIOUS
<1>1. Linked(programs, <<>>)
  BY EmptyLinked DEF Init
<1>2. Orden = <<>>
  BY <1>1, Forwards DEF Orden
<1>3. Range(<<>>) = {}
  BY EmptySeq DEF Range
<1> QED BY <1>1, <1>2, <1>3, Threads DEF Init, ListInv

\* mlist_append puts the run behind the last.
LEMMA AppendStep ==
  ASSUME TypeInv, ListInv, Appends
  PROVE  /\ Linked(programs', Orden') /\ Orden' = Append(Orden, corridas)
         /\ Range(Orden') = Range(Orden) \cup {corridas} /\ corridas \in Corridas
<1>1. corridas \in Corridas /\ corridas \in Nodos /\ \A y \in Range(Orden) : y < corridas
  <2>1. corridas > 0 /\ corridas \notin Range(Orden) /\ \A n \in Range(Orden) : n <= corridas
    BY DEF Appends, ListInv, En
  <2>2. \A n \in Range(Orden) : n \in Corridas
    BY OrdenSeq
  <2> QED BY <2>1, <2>2, Threads DEF TypeInv
<1>2. MlistEmpty(programs) \/ nodo[Terminal] = programs.tail
  BY DEF Appends, ListInv, En
<1>3. Linked(programs, Orden) /\ programs' = InsertAfter(programs, nodo[Terminal], corridas)
  BY DEF ListInv, Appends, AgregaNodo
<1>4. Linked(programs', Append(Orden, corridas))
  BY <1>1, <1>2, <1>3, AppendLinked
<1>5. Orden' = Append(Orden, corridas)
  BY <1>4, Forwards DEF Orden
<1>6. Range(Append(Orden, corridas)) = Range(Orden) \cup {corridas}
  BY <1>1, OrdenSeq, AppendedList
<1> QED BY <1>1, <1>4, <1>5, <1>6

\* mlist_remove takes one node out, and the others stay in their order.
LEMMA UnlinkStep ==
  ASSUME TypeInv, ListInv, NEW t \in Hilos, Unlinks(t)
  PROVE  \E i \in 1..Len(Orden) :
           /\ nodo[t] = Orden[i] /\ Linked(programs', Orden')
           /\ Orden' = Popped(Orden, i) /\ Orden' = Without(Orden, nodo[t])
           /\ Range(Orden') = Range(Orden) \ {nodo[t]}
           /\ programs'.tail = IF i = Len(Orden) THEN programs.prev[nodo[t]] ELSE programs.tail
<1>1. PICK i \in 1..Len(Orden) : nodo[t] = Orden[i]
  <2>1. nodo[t] \in Range(Orden)
    BY DEF ListInv, Unlinks
  <2> QED BY <2>1, OrdenSeq DEF Range
<1>2. Linked(programs, Orden) /\ programs' = RemoveNode(programs, Orden[i])
  BY <1>1 DEF ListInv, Unlinks, SinNodo
<1>3. Linked(programs', Popped(Orden, i))
  BY <1>2, RemoveLinked
<1>4. Orden' = Popped(Orden, i)
  BY <1>3, Forwards DEF Orden
<1>5. Without(Orden, Orden[i]) = Popped(Orden, i)
  BY OrdenSeq, WithoutIsPopped
<1>6. IsInjective(Orden) /\ \A k, l \in 1..Len(Orden) : Orden[k] = Orden[l] => k = l
  BY OrdenSeq, NoneTwice
<1>7. Range(Popped(Orden, i)) = Range(Orden) \ {Orden[i]}
  BY <1>6, OrdenSeq, PoppedInjective
<1>8. programs'.tail = IF i = Len(Orden) THEN programs.prev[nodo[t]] ELSE programs.tail
  <2>1. Len(Orden) \in 1..Len(Orden) /\ programs.tail = Orden[Len(Orden)] /\ programs \in ListType
    BY <1>2, OrdenSeq DEF Linked
  <2>2. programs'.tail = IF Orden[i] = programs.tail THEN programs.prev[Orden[i]] ELSE programs.tail
    BY <1>2, <2>1 DEF RemoveNode, ListType
  <2> QED BY <1>1, <1>6, <2>1, <2>2
<1> QED BY <1>1, <1>3, <1>4, <1>5, <1>7, <1>8

LEMMA ListStep ==
  ASSUME TypeInv, ClearAlone, ListInv, Steps
  PROVE  ListInv'
<1>0. TypeInv /\ ClearAlone /\ ListInv
  OBVIOUS
<1> USE DEF locales, lista, datos, proceso, conexion, En, Va
<1>1. CASE Dies
  BY <1>0, <1>1, Threads DEF ListInv, TypeInv, Orden, Dies, Muere
<1>2. CASE RunTyped
  <2>1. /\ corridas' = corridas + 1 /\ corridas' \in Nat /\ corridas' > 0
        /\ UNCHANGED <<programs, vivos, mutex>> /\ pc'[Terminal] = "crea" /\ corridas \in Nat
    BY <1>0, <1>2, Threads DEF RunTyped, TypeInv
  <2>2. Orden' = Orden
    BY <2>1 DEF Orden
  <2>3. \A n \in Range(Orden) : n <= corridas' /\ n # corridas'
    BY <1>0, <2>1, OrdenSeq, Threads
  <2> QED BY <1>0, <2>1, <2>2, <2>3 DEF ListInv
<1>3. CASE AppendReads
  BY <1>0, <1>3, Threads DEF ListInv, TypeInv, Orden, AppendReads
<1>4. CASE Appends
  <2>1. /\ Linked(programs', Orden') /\ Range(Orden') = Range(Orden) \cup {corridas}
        /\ corridas \in Corridas
    BY <1>0, <1>4, AppendStep
  <2>2. /\ vivos' = vivos \cup {corridas} /\ mutex' = mutex /\ mutex = Nadie /\ corridas' = corridas
        /\ pc'[Terminal] = "listo"
    BY <1>0, <1>4, Threads DEF Appends, AgregaNodo, Vuelve, TypeInv
  <2>3. \A n \in Range(Orden) : n <= corridas
    BY <1>0 DEF ListInv
  <2>4. corridas <= corridas
    BY <1>0, Threads DEF TypeInv
  <2> QED BY <1>0, <2>1, <2>2, <2>3, <2>4 DEF ListInv
<1>5. CASE Misses
  BY <1>0, <1>5, Threads DEF ListInv, TypeInv, Orden, Misses, Vuelve
<1>6. CASE RecibeFin
  BY <1>0, <1>6, Threads DEF ListInv, TypeInv, Orden, RecibeFin, Llega
<1>7. CASE KernelStarts
  BY <1>0, <1>7, Threads DEF ListInv, TypeInv, Orden, KernelStarts
<1>8. ASSUME NEW p \in Nat, KillTyped(p) PROVE ListInv'
  BY <1>0, <1>8, Threads DEF ListInv, TypeInv, Orden, KillTyped
<1>9. ASSUME NEW p \in Corridas, KernelEnds(p) PROVE ListInv'
  BY <1>0, <1>9, Threads DEF ListInv, TypeInv, Orden, KernelEnds
<1>10. ASSUME NEW t \in {Terminal, Receptor},
              Goes(t) \/ Looks(t) \/ Apaga(t) \/ Junta(t) \/ Frees(t)
       PROVE  ListInv'
  <2>1. CASE Goes(t)
    BY <1>0, <1>10, <2>1, Threads DEF ListInv, TypeInv, Orden, Goes, Pasa
  <2>2. CASE Looks(t)
    BY <1>0, <1>10, <2>2, Threads DEF ListInv, TypeInv, Orden, Looks, MiraNodo
  <2>3. CASE Apaga(t)
    BY <1>0, <1>10, <2>3, Threads DEF ListInv, TypeInv, Orden, Apaga
  <2>4. CASE Junta(t)
    BY <1>0, <1>10, <2>4, Threads DEF ListInv, TypeInv, Orden, Junta
  <2>5. CASE Frees(t)
    <3>1. /\ mutex = t /\ mutex # Nadie /\ mutex' = mutex /\ programs' = programs /\ corridas' = corridas
          /\ vivos' \subseteq vivos /\ t \in Hilos
      BY <1>0, <1>10, <2>5, Threads DEF ClearAlone, Frees, SinNodo
    <3>2. /\ t = Terminal => pc'[Terminal] = "recorre"
          /\ t # Terminal => pc'[Terminal] = pc[Terminal] /\ nodo'[Terminal] = nodo[Terminal]
      BY <1>0, <1>10, <2>5, Threads DEF Frees, SinNodo, TypeInv
    <3>3. Orden' = Orden
      BY <3>1 DEF Orden
    <3> QED BY <1>0, <3>1, <3>2, <3>3 DEF ListInv
  <2> QED BY <1>10, <2>1, <2>2, <2>3, <2>4, <2>5
<1>11. ASSUME NEW t \in Hilos,
              Visits(t) \/ Leaves(t) \/ Unlinks(t) \/ (Quits(t) /\ t # Receptor /\ (t = Terminal <=> pc[t] = "quita"))
       PROVE  ListInv'
  <2>1. CASE Visits(t)
    BY <1>0, <1>11, <2>1, Threads DEF ListInv, TypeInv, Orden, Visits, Visita
  <2>2. CASE Leaves(t)
    BY <1>0, <1>11, <2>2, Threads DEF ListInv, TypeInv, Orden, Leaves, Vuelve
  <2>3. CASE Unlinks(t)
    <3>1. PICK i \in 1..Len(Orden) :
            /\ nodo[t] = Orden[i] /\ Linked(programs', Orden') /\ Range(Orden') = Range(Orden) \ {nodo[t]}
            /\ programs'.tail = IF i = Len(Orden) THEN programs.prev[nodo[t]] ELSE programs.tail
      BY <1>0, <1>11, <2>3, UnlinkStep
    <3>2. /\ vivos' = vivos \ {nodo[t]} /\ mutex' = mutex /\ mutex = Nadie /\ corridas' = corridas
          /\ t = Terminal => pc'[Terminal] = "recorre"
          /\ t # Terminal => pc'[Terminal] = pc[Terminal] /\ nodo'[Terminal] = nodo[Terminal]
      BY <1>0, <1>11, <2>3, Threads DEF Unlinks, SinNodo, TypeInv
    <3>3. /\ Linked(programs', Orden') /\ vivos' = Range(Orden') /\ \A n \in Range(Orden') : n <= corridas'
      BY <1>0, <3>1, <3>2 DEF ListInv
    <3>4. pc'[Terminal] \in {"crea", "agrega"} => corridas' > 0 /\ corridas' \notin Range(Orden')
      BY <1>0, <3>1, <3>2 DEF ListInv
    <3>5. ASSUME pc'[Terminal] = "agrega", nodo'[Terminal] \in vivos'
          PROVE  nodo'[Terminal] = programs'.tail
      <4>1. t # Terminal /\ nodo[Terminal] \in vivos /\ nodo[Terminal] = programs.tail
            /\ nodo[Terminal] # nodo[t] /\ nodo'[Terminal] = nodo[Terminal]
        BY <1>0, <3>2, <3>5 DEF ListInv
      <4>2. i = Len(Orden) => programs.tail = nodo[t]
        BY <1>0, <3>1, OrdenSeq DEF ListInv, Linked
      <4> QED BY <3>1, <4>1, <4>2
    <3> QED BY <3>3, <3>4, <3>5 DEF ListInv
  <2>4. CASE (Quits(t) /\ t # Receptor /\ (t = Terminal <=> pc[t] = "quita"))
    BY <1>0, <1>11, <2>4, Threads DEF ListInv, TypeInv, Orden, Quits, Quita
  <2> QED BY <1>11, <2>1, <2>2, <2>3, <2>4
<1>12. ASSUME NEW t \in Hilos, NEW k \in Corridas,
              Warns(t, k) \/ Joins(t, k)
       PROVE  ListInv'
  <2>1. CASE Warns(t, k)
    BY <1>0, <1>12, <2>1, Threads DEF ListInv, TypeInv, Orden, Warns
  <2>2. CASE Joins(t, k)
    BY <1>0, <1>12, <2>2, Threads DEF ListInv, TypeInv, Orden, Joins
  <2> QED BY <1>12, <2>1, <2>2
<1>13. ASSUME NEW k \in Corridas,
              GetsPid(k) \/ Marks(k) \/ Posts(k) \/ Toma(k) \/ Envia(k)
       PROVE  ListInv'
  <2>1. CASE GetsPid(k)
    BY <1>0, <1>13, <2>1, Threads DEF ListInv, TypeInv, Orden, GetsPid, Llega
  <2>2. CASE Marks(k)
    BY <1>0, <1>13, <2>2, Threads DEF ListInv, TypeInv, Orden, Marks
  <2>3. CASE Posts(k)
    BY <1>0, <1>13, <2>3, Threads DEF ListInv, TypeInv, Orden, Posts, Vuelve
  <2>4. CASE Toma(k)
    BY <1>0, <1>13, <2>4, Threads DEF ListInv, TypeInv, Orden, Toma
  <2>5. CASE Envia(k)
    BY <1>0, <1>13, <2>5, Threads DEF ListInv, TypeInv, Orden, Envia
  <2> QED BY <1>13, <2>1, <2>2, <2>3, <2>4, <2>5
<1>14. ASSUME NEW h \in Corridas, NEW k \in Corridas,
              Checks(h, k) \/ Wakes(h, k)
       PROVE  ListInv'
  <2>1. CASE Checks(h, k)
    BY <1>0, <1>14, <2>1, Threads DEF ListInv, TypeInv, Orden, Checks, Pasa
  <2>2. CASE Wakes(h, k)
    BY <1>0, <1>14, <2>2, Threads DEF ListInv, TypeInv, Orden, Wakes
  <2> QED BY <1>14, <2>1, <2>2
<1> HIDE DEF locales, lista, datos, proceso, conexion, En, Va
<1> QED BY <1>0, <1>1, <1>2, <1>3, <1>4, <1>5, <1>6, <1>7, <1>8, <1>9, <1>10, <1>11, <1>12, <1>13, <1>14 DEF Steps

----------------------------------------------------------------------------
(* Every handler has its own program, as long as none began too early.     *)

HandOwn == \A h \in Corridas : pc[h] \notin {"no", "nace"} => programa[h] = h

LEMMA ClearOwn ==
  ASSUME TypeInv, SentOnce, Clear
  PROVE  HandOwn
<1> SUFFICES ASSUME NEW h \in Corridas, pc[h] \notin {"no", "nace"} PROVE programa[h] = h
  BY DEF HandOwn
<1>1. ~(h > corridas) /\ h \in Nat /\ h > 0 /\ corridas \in Nat
  BY Threads DEF SentOnce, Clear, TypeInv
<1>2. h \in 1..corridas
  BY <1>1
<1> QED BY <1>2 DEF Clear, Confundido

ProgramKept == \A h \in Corridas : vida' # "sigue" \/ programa'[h] = programa[h] \/ pc[h] = "nace"

LEMMA KeepsProgram ==
  ASSUME TypeInv, Steps
  PROVE  ProgramKept
<1>0. TypeInv
  OBVIOUS
<1> USE DEF locales, lista, datos, proceso, conexion, En, Va
<1>1. CASE Dies
  BY <1>0, <1>1, Threads DEF ProgramKept, TypeInv, Dies, Muere
<1>2. CASE RunTyped
  BY <1>0, <1>2, Threads DEF ProgramKept, TypeInv, RunTyped
<1>3. CASE AppendReads
  BY <1>0, <1>3, Threads DEF ProgramKept, TypeInv, AppendReads
<1>4. CASE Appends
  BY <1>0, <1>4, Threads DEF ProgramKept, TypeInv, Appends, AgregaNodo, Vuelve
<1>5. CASE Misses
  BY <1>0, <1>5, Threads DEF ProgramKept, TypeInv, Misses, Vuelve
<1>6. CASE RecibeFin
  BY <1>0, <1>6, Threads DEF ProgramKept, TypeInv, RecibeFin, Llega
<1>7. CASE KernelStarts
  BY <1>0, <1>7, Threads DEF ProgramKept, TypeInv, KernelStarts
<1>8. ASSUME NEW p \in Nat, KillTyped(p) PROVE ProgramKept
  BY <1>0, <1>8, Threads DEF ProgramKept, TypeInv, KillTyped
<1>9. ASSUME NEW p \in Corridas, KernelEnds(p) PROVE ProgramKept
  BY <1>0, <1>9, Threads DEF ProgramKept, TypeInv, KernelEnds
<1>10. ASSUME NEW t \in {Terminal, Receptor},
              Goes(t) \/ Looks(t) \/ Apaga(t) \/ Junta(t) \/ Frees(t)
       PROVE  ProgramKept
  <2>1. CASE Goes(t)
    BY <1>0, <1>10, <2>1, Threads DEF ProgramKept, TypeInv, Goes, Pasa
  <2>2. CASE Looks(t)
    BY <1>0, <1>10, <2>2, Threads DEF ProgramKept, TypeInv, Looks, MiraNodo
  <2>3. CASE Apaga(t)
    BY <1>0, <1>10, <2>3, Threads DEF ProgramKept, TypeInv, Apaga
  <2>4. CASE Junta(t)
    BY <1>0, <1>10, <2>4, Threads DEF ProgramKept, TypeInv, Junta
  <2>5. CASE Frees(t)
    BY <1>0, <1>10, <2>5, Threads DEF ProgramKept, TypeInv, Frees, SinNodo
  <2> QED BY <1>10, <2>1, <2>2, <2>3, <2>4, <2>5
<1>11. ASSUME NEW t \in Hilos,
              Visits(t) \/ Leaves(t) \/ Unlinks(t) \/ (Quits(t) /\ t # Receptor /\ (t = Terminal <=> pc[t] = "quita"))
       PROVE  ProgramKept
  <2>1. CASE Visits(t)
    BY <1>0, <1>11, <2>1, Threads DEF ProgramKept, TypeInv, Visits, Visita
  <2>2. CASE Leaves(t)
    BY <1>0, <1>11, <2>2, Threads DEF ProgramKept, TypeInv, Leaves, Vuelve
  <2>3. CASE Unlinks(t)
    BY <1>0, <1>11, <2>3, Threads DEF ProgramKept, TypeInv, Unlinks, SinNodo
  <2>4. CASE (Quits(t) /\ t # Receptor /\ (t = Terminal <=> pc[t] = "quita"))
    BY <1>0, <1>11, <2>4, Threads DEF ProgramKept, TypeInv, Quits, Quita
  <2> QED BY <1>11, <2>1, <2>2, <2>3, <2>4
<1>12. ASSUME NEW t \in Hilos, NEW k \in Corridas,
              Warns(t, k) \/ Joins(t, k)
       PROVE  ProgramKept
  <2>1. CASE Warns(t, k)
    BY <1>0, <1>12, <2>1, Threads DEF ProgramKept, TypeInv, Warns
  <2>2. CASE Joins(t, k)
    BY <1>0, <1>12, <2>2, Threads DEF ProgramKept, TypeInv, Joins
  <2> QED BY <1>12, <2>1, <2>2
<1>13. ASSUME NEW k \in Corridas,
              GetsPid(k) \/ Marks(k) \/ Posts(k) \/ Toma(k) \/ Envia(k)
       PROVE  ProgramKept
  <2>1. CASE GetsPid(k)
    BY <1>0, <1>13, <2>1, Threads DEF ProgramKept, TypeInv, GetsPid, Llega
  <2>2. CASE Marks(k)
    BY <1>0, <1>13, <2>2, Threads DEF ProgramKept, TypeInv, Marks
  <2>3. CASE Posts(k)
    BY <1>0, <1>13, <2>3, Threads DEF ProgramKept, TypeInv, Posts, Vuelve
  <2>4. CASE Toma(k)
    BY <1>0, <1>13, <2>4, Threads DEF ProgramKept, TypeInv, Toma
  <2>5. CASE Envia(k)
    BY <1>0, <1>13, <2>5, Threads DEF ProgramKept, TypeInv, Envia
  <2> QED BY <1>13, <2>1, <2>2, <2>3, <2>4, <2>5
<1>14. ASSUME NEW h \in Corridas, NEW k \in Corridas,
              Checks(h, k) \/ Wakes(h, k)
       PROVE  ProgramKept
  <2>1. CASE Checks(h, k)
    BY <1>0, <1>14, <2>1, Threads DEF ProgramKept, TypeInv, Checks, Pasa
  <2>2. CASE Wakes(h, k)
    BY <1>0, <1>14, <2>2, Threads DEF ProgramKept, TypeInv, Wakes
  <2> QED BY <1>14, <2>1, <2>2
<1> HIDE DEF locales, lista, datos, proceso, conexion, En, Va
<1> QED BY <1>0, <1>1, <1>2, <1>3, <1>4, <1>5, <1>6, <1>7, <1>8, <1>9, <1>10, <1>11, <1>12, <1>13, <1>14 DEF Steps

\* What was not clear stays so.
LEMMA ClearBefore ==
  ASSUME TypeInv, SentOnce, TypeInv', SentOnce', Steps, Clear'
  PROVE  Clear /\ HandOwn /\ HandOwn'
<1>1. HandlerGoes /\ ProgramKept
  BY HandlerStep, KeepsProgram
<1>2. HandOwn'
  BY ClearOwn, PTL
<1>3. vida = "sigue" /\ vida' = "sigue"
  BY <1>1 DEF HandlerGoes, Clear
<1>4. ASSUME NEW k \in 1..corridas, pc[k] # "nace" PROVE programa[k] = k
  <2>1. k \in Corridas /\ pc[k] # "no"
    <3>1. k \in Nat /\ k > 0 /\ corridas \in Nat /\ ~(k > corridas) /\ k \in Corridas
      BY Threads DEF TypeInv
    <3> QED BY <1>3, <3>1 DEF SentOnce
  <2>2. pc'[k] \notin {"no", "nace"}
    <3>1. k # corridas + 1
      BY Threads DEF TypeInv
    <3> QED BY <1>1, <1>3, <1>4, <2>1, <3>1 DEF HandlerGoes
  <2>3. programa'[k] = k
    BY <1>2, <2>1, <2>2 DEF HandOwn
  <2> QED BY <1>1, <1>3, <1>4, <2>1, <2>3 DEF ProgramKept
<1>5. Clear
  BY <1>3, <1>4 DEF Clear, Confundido
<1> QED BY <1>2, <1>5, ClearOwn

----------------------------------------------------------------------------
(* Who frees a program.                                                    *)

LEMMA OutlivedInit == Init => Outlived
<1> SUFFICES ASSUME Init PROVE Outlived
  OBVIOUS
<1>1. 1..corridas = {} /\ mutex = Nadie
  BY DEF Init
<1> QED BY <1>1, Threads DEF Init, Outlived, FreedBy, FreedFirst, Unlinked

LEMMA FrameOutlived ==
  ASSUME TypeInv, ListInv, Outlived, UNCHANGED <<corridas, estado, vivos, mutex>>,
         \A h \in Corridas : pc'[h] = pc[h],
         \A t \in Hilos : pc'[t] = "desata" => pc[t] = "desata" /\ programa'[t] = programa[t],
         pc'[Terminal] = pc[Terminal]
           \/ (pc[Terminal] \notin {"crea", "agrega"} /\ pc'[Terminal] \notin {"crea", "agrega"})
  PROVE  Outlived'
<1>1. \A k \in 1..corridas : k \in Corridas
  BY Threads DEF TypeInv
<1>2. FreedBy' /\ FreedFirst' /\ Unlinked'
  BY <1>1 DEF Outlived, FreedBy, FreedFirst, Unlinked
<1>3. pc'[Terminal] \in {"crea", "agrega"} => pc'[corridas'] = "nace"
  <2> SUFFICES ASSUME pc'[Terminal] \in {"crea", "agrega"} PROVE pc'[corridas] = "nace"
    OBVIOUS
  <2>1. corridas \in Corridas
    BY Threads DEF TypeInv, ListInv
  <2> QED BY <2>1 DEF Outlived
<1> QED BY <1>2, <1>3 DEF Outlived

LEMMA OutlivedStep ==
  ASSUME TypeInv, SentOnce, ClearAlone, ListInv, HandOwn, HandOwn', vida' = "sigue", Outlived, Steps
  PROVE  Outlived'
<1>0. /\ TypeInv /\ SentOnce /\ ClearAlone /\ ListInv /\ HandOwn /\ HandOwn' /\ vida' = "sigue"
      /\ Outlived
  OBVIOUS
<1> USE DEF locales, lista, datos, proceso, conexion, En, Va
<1>1. CASE Dies
  BY <1>0, <1>1, Threads DEF HandOwn, Outlived, FreedBy, FreedFirst, Unlinked, TypeInv, ListInv, ClearAlone, Estados, Dies, Muere
<1>2. CASE RunTyped
  BY <1>0, <1>2, Threads, SMTT(30) DEF HandOwn, Outlived, FreedBy, FreedFirst, Unlinked, TypeInv, ListInv, ClearAlone, Estados, RunTyped
<1>3. CASE AppendReads
  <2>1. /\ vida = "sigue" /\ pc[Terminal] = "crea" /\ estado' = [estado EXCEPT ![corridas] = "activo"]
        /\ pc' = [pc EXCEPT ![Terminal] = "agrega"] /\ UNCHANGED <<corridas, vivos, mutex, programa>>
        /\ corridas \in Corridas /\ pc[corridas] = "nace"
    BY <1>0, <1>3, Threads DEF AppendReads, ListInv, TypeInv, Outlived
  <2>2. \A h \in Corridas : pc'[h] = pc[h] /\ (h # corridas => estado'[h] = estado[h])
    BY <1>0, <2>1, Threads DEF TypeInv
  <2>3. estado'[corridas] = "activo" /\ pc'[Terminal] = "agrega"
    BY <1>0, <2>1, Threads DEF TypeInv
  <2>4. \A k \in 1..corridas : k \in Corridas
    BY <1>0, Threads DEF TypeInv
  <2>5. FreedBy'
    BY <1>0, <2>1, <2>2, <2>3, <2>4 DEF Outlived, FreedBy
  <2>6. ASSUME NEW t \in Hilos, pc'[t] = "desata" PROVE estado'[programa'[t]] = "libre"
    <3>1. t # Terminal /\ pc[t] = "desata" /\ programa'[t] = programa[t]
      BY <1>0, <2>1, <2>3, <2>6, Threads DEF TypeInv
    <3>2. t # Receptor
      BY <1>0, <2>1, <3>1, Threads DEF ClearAlone
    <3>3. t \in Corridas /\ programa[t] = t
      BY <1>0, <3>1, <3>2, Threads DEF HandOwn
    <3>4. estado[t] = "libre"
      BY <1>0, <3>1, <3>3, Threads DEF Outlived, FreedFirst
    <3> QED BY <2>1, <2>2, <3>1, <3>3, <3>4
  <2>7. Unlinked'
    BY <1>0, <2>1, <2>2, <2>3, <2>4 DEF Outlived, Unlinked
  <2>8. \A k \in Corridas : k > corridas' => estado'[k] = "libre"
    BY <1>0, <2>1, <2>2, Threads DEF Outlived
  <2> QED BY <2>1, <2>2, <2>5, <2>6, <2>7, <2>8 DEF Outlived, FreedFirst
<1>4. CASE Appends
  BY <1>0, <1>4, Threads, SMTT(30) DEF HandOwn, Outlived, FreedBy, FreedFirst, Unlinked, TypeInv, ListInv, ClearAlone, Estados, Appends, AgregaNodo, Vuelve
<1>5. CASE Misses
  BY <1>0, <1>5, Threads DEF HandOwn, Outlived, FreedBy, FreedFirst, Unlinked, TypeInv, ListInv, ClearAlone, Estados, Misses, Vuelve
<1>6. CASE RecibeFin
  BY <1>0, <1>6, Threads DEF HandOwn, Outlived, FreedBy, FreedFirst, Unlinked, TypeInv, ListInv, ClearAlone, Estados, RecibeFin, Llega
<1>7. CASE KernelStarts
  BY <1>0, <1>7, Threads DEF HandOwn, Outlived, FreedBy, FreedFirst, Unlinked, TypeInv, ListInv, ClearAlone, Estados, KernelStarts
<1>8. ASSUME NEW p \in Nat, KillTyped(p) PROVE Outlived'
  BY <1>0, <1>8, Threads DEF HandOwn, Outlived, FreedBy, FreedFirst, Unlinked, TypeInv, ListInv, ClearAlone, Estados, KillTyped
<1>9. ASSUME NEW p \in Corridas, KernelEnds(p) PROVE Outlived'
  BY <1>0, <1>9, Threads DEF HandOwn, Outlived, FreedBy, FreedFirst, Unlinked, TypeInv, ListInv, ClearAlone, Estados, KernelEnds
<1>10. ASSUME NEW t \in {Terminal, Receptor},
              Goes(t) \/ Looks(t) \/ Apaga(t) \/ Junta(t) \/ Frees(t)
       PROVE  Outlived'
  <2>1. CASE Goes(t)
    BY <1>0, <1>10, <2>1, Threads DEF HandOwn, Outlived, FreedBy, FreedFirst, Unlinked, TypeInv, ListInv, ClearAlone, Estados, Goes, Pasa
  <2>2. CASE Looks(t)
    <3>1. /\ UNCHANGED <<corridas, estado, vivos, mutex>> /\ pc[t] = "busca"
          /\ (pc' = pc \/ pc' = [pc EXCEPT ![t] = "marca"] \/ pc' = [pc EXCEPT ![t] = "quita"])
          /\ (programa' = programa \/ programa' = [programa EXCEPT ![t] = nodo[t]])
      BY <2>2 DEF Looks, MiraNodo
    <3>2. /\ \A u \in Hilos : u # t => pc'[u] = pc[u] /\ programa'[u] = programa[u]
          /\ pc'[t] \in {"busca", "marca", "quita"} /\ \A h \in Corridas : h # t
      BY <1>0, <1>10, <3>1, Threads DEF TypeInv
    <3> QED BY <1>0, <1>10, <3>1, <3>2, FrameOutlived, Threads
  <2>3. CASE Apaga(t)
    <3>1. /\ UNCHANGED <<corridas, estado, vivos, mutex, programa>> /\ pc[t] = "apaga"
          /\ \/ pc' = [pc EXCEPT ![t] = "junta"]
             \/ pc' = [pc EXCEPT ![t] = "junta", ![Receptor] = "sale"]
      BY <2>3 DEF Apaga
    <3>2. /\ \A u \in Hilos : u # t => pc'[u] = pc[u] \/ (u = Receptor /\ pc'[u] = "sale")
          /\ pc'[t] \in {"junta", "sale"} /\ \A h \in Corridas : h # t /\ h # Receptor
      BY <1>0, <1>10, <3>1, Threads DEF TypeInv
    <3> QED BY <1>0, <1>10, <3>1, <3>2, FrameOutlived, Threads
  <2>4. CASE Junta(t)
    BY <1>0, <1>10, <2>4, Threads DEF HandOwn, Outlived, FreedBy, FreedFirst, Unlinked, TypeInv, ListInv, ClearAlone, Estados, Junta
  <2>5. CASE Frees(t)
    <3>1. /\ UNCHANGED <<corridas, estado, mutex, programa>> /\ pc' = [pc EXCEPT ![t] = "recorre"]
          /\ vivos' \subseteq vivos /\ mutex # Nadie /\ pc[t] = "libera"
      BY <1>0, <1>10, <2>5, Threads DEF Frees, SinNodo, ClearAlone
    <3>2. \A u \in Hilos : pc'[u] = IF u = t THEN "recorre" ELSE pc[u]
      BY <1>0, <3>1 DEF TypeInv
    <3>3. \A h \in Corridas : h # t
      BY <1>10, Threads
    <3>4. \A k \in 1..corridas : k \in Corridas
      BY <1>0, Threads DEF TypeInv
    <3>5. FreedBy'
      BY <1>0, <3>1, <3>2, <3>3, <3>4, Threads DEF Outlived, FreedBy
    <3>6. FreedFirst' /\ Unlinked'
      BY <1>0, <3>1, <3>2 DEF Outlived, FreedFirst, Unlinked
    <3>7. pc'[Terminal] \in {"crea", "agrega"} => pc'[corridas'] = "nace"
      BY <1>0, <3>1, <3>2, <3>3, <3>4, Threads DEF Outlived, TypeInv, ListInv
    <3> QED BY <1>0, <3>1, <3>5, <3>6, <3>7 DEF Outlived
  <2> QED BY <1>10, <2>1, <2>2, <2>3, <2>4, <2>5
<1>11. ASSUME NEW t \in Hilos,
              Visits(t) \/ Leaves(t) \/ Unlinks(t) \/ (Quits(t) /\ t # Receptor /\ (t = Terminal <=> pc[t] = "quita"))
       PROVE  Outlived'
  <2>1. CASE Visits(t)
    <3>1. /\ UNCHANGED <<corridas, estado, vivos, mutex>> /\ pc[t] = "recorre" /\ nodo[t] \in vivos
          /\ (pc' = pc \/ (pc' = [pc EXCEPT ![t] = "avisa"] /\ (mutex = t \/ nodo[t] = programa[t])))
          /\ (programa' = programa \/ (mutex = t /\ programa' = [programa EXCEPT ![t] = nodo[t]]))
      <4>1. programa' = [programa EXCEPT ![t] = IF mutex = t THEN nodo[t] ELSE programa[t]]
        BY <2>1 DEF Visits, Visita
      <4>2. mutex # t => programa' = programa
        BY <1>0, <4>1 DEF TypeInv
      <4>3. pc' = pc \/ (pc' = [pc EXCEPT ![t] = "avisa"] /\ (mutex = t \/ nodo[t] = programa[t]))
        BY <2>1 DEF Visits, Visita
      <4> QED BY <2>1, <4>1, <4>2, <4>3 DEF Visits, Visita
    <3>2. \A h \in Corridas : pc'[h] = pc[h] \/ (h = t /\ pc'[h] = "avisa" /\ h \in vivos /\ pc[h] = "recorre")
      <4> SUFFICES ASSUME NEW h \in Corridas, pc'[h] # pc[h]
                   PROVE  h = t /\ pc'[h] = "avisa" /\ h \in vivos /\ pc[h] = "recorre"
        OBVIOUS
      <4>1. h = t /\ pc'[h] = "avisa" /\ (mutex = t \/ nodo[t] = programa[t])
        BY <1>0, <3>1, Threads DEF TypeInv
      <4>2. mutex # h
        BY <1>0, Threads DEF TypeInv
      <4>3. programa[h] = h
        BY <1>0, <3>1, <4>1 DEF HandOwn
      <4> QED BY <3>1, <4>1, <4>2, <4>3
    <3>3. \A k \in 1..corridas : k \in Corridas
      BY <1>0, Threads DEF TypeInv
    <3>4. FreedBy'
      <4>1. pc'[Terminal] = pc[Terminal] \/ pc[Terminal] = "recorre"
        BY <1>0, <3>1, Threads DEF TypeInv
      <4> QED BY <1>0, <3>1, <3>2, <3>3, <4>1 DEF Outlived, FreedBy
    <3>5. FreedFirst'
      BY <1>0, <3>1, Threads, SMTT(30) DEF Outlived, FreedFirst, TypeInv
    <3>6. Unlinked' /\ (pc'[Terminal] \in {"crea", "agrega"} => pc'[corridas'] = "nace")
      <4>1. /\ pc[Terminal] \in {"crea", "agrega"} => pc'[Terminal] = pc[Terminal]
            /\ pc'[Terminal] \in {"crea", "agrega"} => pc[Terminal] \in {"crea", "agrega"} /\ corridas \in Corridas
        BY <1>0, <3>1, Threads DEF TypeInv, ListInv
      <4> QED BY <1>0, <3>1, <3>2, <4>1 DEF Outlived, Unlinked
    <3> QED BY <1>0, <3>1, <3>4, <3>5, <3>6 DEF Outlived
  <2>2. CASE Leaves(t)
    BY <1>0, <1>11, <2>2, Threads DEF HandOwn, Outlived, FreedBy, FreedFirst, Unlinked, TypeInv, ListInv, ClearAlone, Estados, Leaves, Vuelve
  <2>3. CASE Unlinks(t)
    BY <1>0, <1>11, <2>3, Threads DEF HandOwn, Outlived, FreedBy, FreedFirst, Unlinked, TypeInv, ListInv, ClearAlone, Estados, Unlinks, SinNodo
  <2>4. CASE (Quits(t) /\ t # Receptor /\ (t = Terminal <=> pc[t] = "quita"))
    BY <1>0, <1>11, <2>4, Threads, SMTT(30) DEF HandOwn, Outlived, FreedBy, FreedFirst, Unlinked, TypeInv, ListInv, ClearAlone, Estados, Quits, Quita
  <2> QED BY <1>11, <2>1, <2>2, <2>3, <2>4
<1>12. ASSUME NEW t \in Hilos, NEW k \in Corridas,
              Warns(t, k) \/ Joins(t, k)
       PROVE  Outlived'
  <2>1. CASE Warns(t, k)
    <3>1. /\ UNCHANGED <<corridas, vivos, mutex, programa>> /\ pc[t] = "avisa" /\ pc' = [pc EXCEPT ![t] = "une"]
          /\ estado' = [estado EXCEPT ![k] = "muerto"] /\ estado[k] # "libre"
      BY <2>1 DEF Warns
    <3>2. /\ \A u \in Hilos : pc'[u] = IF u = t THEN "une" ELSE pc[u]
          /\ \A h \in Corridas : estado'[h] = IF h = k THEN "muerto" ELSE estado[h]
      BY <1>0, <3>1 DEF TypeInv
    <3>3. \A h \in 1..corridas : h \in Corridas
      BY <1>0, Threads DEF TypeInv
    <3>4. FreedBy'
      BY <1>0, <3>1, <3>2, <3>3, Threads DEF Outlived, FreedBy
    <3>5. FreedFirst'
      <4> SUFFICES ASSUME NEW u \in Hilos, pc'[u] = "desata" PROVE estado'[programa[u]] = "libre"
        BY <3>1 DEF FreedFirst
      <4>1. estado[programa[u]] = "libre"
        BY <1>0, <3>2 DEF Outlived, FreedFirst
      <4> QED BY <1>0, <3>1, <4>1, Threads DEF TypeInv
    <3>6. Unlinked' /\ (pc'[Terminal] \in {"crea", "agrega"} => pc'[corridas'] = "nace")
      <4>1. pc'[Terminal] \in {"crea", "agrega"} => pc'[Terminal] = pc[Terminal] /\ corridas \in Corridas
        BY <1>0, <3>1, Threads DEF TypeInv, ListInv
      <4>2. pc[Terminal] \in {"crea", "agrega"} => pc'[Terminal] = pc[Terminal]
        BY <1>0, <3>1, Threads DEF TypeInv
      <4>3. Unlinked'
        BY <1>0, <3>1, <3>2, <3>3, <4>2 DEF Outlived, Unlinked
      <4>4. ASSUME pc'[Terminal] \in {"crea", "agrega"} PROVE pc'[corridas] = "nace"
        BY <1>0, <3>1, <3>2, <4>1, <4>4, Threads DEF Outlived
      <4> QED BY <3>1, <4>3, <4>4
    <3>7. \A h \in Corridas : h > corridas' => estado'[h] = "libre"
      BY <1>0, <3>1, <3>2 DEF Outlived
    <3> QED BY <1>0, <3>1, <3>4, <3>5, <3>6, <3>7 DEF Outlived
  <2>2. CASE Joins(t, k)
    <3>1. /\ UNCHANGED <<corridas, vivos, mutex, programa>> /\ pc[t] = "une" /\ k = programa[t]
          /\ estado' = [estado EXCEPT ![k] = "libre"] /\ (k = t \/ pc[k] = "fin")
          /\ pc' = [pc EXCEPT ![t] = IF mutex = t THEN "libera" ELSE "desata"]
      BY <2>2 DEF Joins
    <3>2. /\ \A u \in Hilos : u # t => pc'[u] = pc[u]
          /\ pc'[t] \in {"libera", "desata"} /\ (t \in Corridas => pc'[t] = "desata" /\ t = k)
          /\ \A h \in Corridas : estado'[h] = IF h = k THEN "libre" ELSE estado[h]
      BY <1>0, <3>1, Threads DEF TypeInv, HandOwn
    <3>3. \A h \in 1..corridas : h \in Corridas
      BY <1>0, Threads DEF TypeInv
    <3>4. FreedBy'
      <4> SUFFICES ASSUME NEW h \in 1..corridas, estado'[h] = "libre"
                   PROVE  \/ pc'[h] = "nace" /\ h = corridas /\ pc'[Terminal] = "crea"
                          \/ pc'[h] \in {"desata", "fin"}
                          \/ pc'[h] = "recorre" /\ h \notin vivos
        BY <3>1 DEF FreedBy
      <4>1. CASE h = k
        BY <1>0, <3>1, <3>2, <3>3, <4>1, Threads
      <4>2. CASE h # k
        <5>1. h \in Corridas /\ h # t /\ estado[h] = "libre" /\ pc'[h] = pc[h]
          BY <3>2, <3>3, <4>2, Threads
        <5>2. pc[Terminal] = "crea" => pc'[Terminal] = "crea"
          BY <3>1, <3>2, Threads
        <5> QED BY <1>0, <5>1, <5>2 DEF Outlived, FreedBy
      <4> QED BY <4>1, <4>2
    <3>5. FreedFirst'
      <4> SUFFICES ASSUME NEW u \in Hilos, pc'[u] = "desata" PROVE estado'[programa[u]] = "libre"
        BY <3>1 DEF FreedFirst
      <4>1. CASE u = t
        BY <3>1, <3>2, <4>1
      <4>2. CASE u # t
        <5>1. estado[programa[u]] = "libre"
          BY <1>0, <3>2, <4>2 DEF Outlived, FreedFirst
        <5> QED BY <1>0, <3>1, <5>1 DEF TypeInv
      <4> QED BY <4>1, <4>2
    <3>6. Unlinked' /\ (pc'[Terminal] \in {"crea", "agrega"} => pc'[corridas'] = "nace")
      <4>1. pc'[Terminal] \in {"crea", "agrega"} => pc'[Terminal] = pc[Terminal] /\ corridas \in Corridas
        BY <1>0, <3>1, <3>2, Threads DEF TypeInv, ListInv
      <4>2. pc[Terminal] \in {"crea", "agrega"} => pc'[Terminal] = pc[Terminal]
        BY <1>0, <3>1, <3>2, Threads DEF TypeInv
      <4>3. Unlinked'
        BY <1>0, <3>1, <3>2, <3>3, <4>2 DEF Outlived, Unlinked
      <4>4. ASSUME pc'[Terminal] \in {"crea", "agrega"} PROVE pc'[corridas] = "nace"
        <5>1. pc[corridas] = "nace" /\ corridas \in Hilos
          BY <1>0, <4>1, <4>4, Threads DEF Outlived
        <5> QED BY <3>1, <3>2, <5>1
      <4> QED BY <3>1, <4>3, <4>4
    <3>7. \A h \in Corridas : h > corridas' => estado'[h] = "libre"
      BY <1>0, <3>1, <3>2 DEF Outlived
    <3> QED BY <1>0, <3>1, <3>4, <3>5, <3>6, <3>7 DEF Outlived
  <2> QED BY <1>12, <2>1, <2>2
<1>13. ASSUME NEW k \in Corridas,
              GetsPid(k) \/ Marks(k) \/ Posts(k) \/ Toma(k) \/ Envia(k)
       PROVE  Outlived'
  <2>1. CASE GetsPid(k)
    BY <1>0, <1>13, <2>1, Threads DEF HandOwn, Outlived, FreedBy, FreedFirst, Unlinked, TypeInv, ListInv, ClearAlone, Estados, GetsPid, Llega
  <2>2. CASE Marks(k)
    BY <1>0, <1>13, <2>2, Threads DEF HandOwn, Outlived, FreedBy, FreedFirst, Unlinked, TypeInv, ListInv, ClearAlone, Estados, Marks
  <2>3. CASE Posts(k)
    BY <1>0, <1>13, <2>3, Threads DEF HandOwn, Outlived, FreedBy, FreedFirst, Unlinked, TypeInv, ListInv, ClearAlone, Estados, Posts, Vuelve
  <2>4. CASE Toma(k)
    <3>1. /\ UNCHANGED <<corridas, vivos, mutex, estado>> /\ pc[k] = "nace" /\ pc' = [pc EXCEPT ![k] = "lee"]
          /\ programa' = [programa EXCEPT ![k] = MlistLast(programs)]
      BY <2>4 DEF Toma
    <3>2. pc'[k] = "lee" /\ programa'[k] = MlistLast(programs)
      BY <1>0, <3>1, Threads DEF TypeInv
    <3>3. k \in Range(Orden)
      <4>1. MlistLast(programs) = k
        BY <1>0, <3>2 DEF HandOwn
      <4>2. k = programs.tail /\ programs.length # 0
        BY <4>1, Threads DEF MlistLast, MlistEmpty
      <4>3. Len(Orden) \in DOMAIN Orden /\ programs.tail = Orden[Len(Orden)]
        BY <1>0, <4>2, OrdenSeq DEF ListInv, Linked
      <4> QED BY <4>2, <4>3 DEF Range
    <3>4. ~(k = corridas /\ pc[Terminal] \in {"crea", "agrega"})
      BY <1>0, <3>3 DEF ListInv
    <3>5. /\ \A u \in Hilos : pc'[u] = IF u = k THEN "lee" ELSE pc[u]
          /\ \A u \in Hilos : u # k => programa'[u] = programa[u]
      BY <1>0, <3>1, Threads DEF TypeInv
    <3>6. \A h \in 1..corridas : h \in Corridas
      BY <1>0, Threads DEF TypeInv
    <3>7. FreedBy' /\ Unlinked'
      BY <1>0, <3>1, <3>4, <3>5, <3>6, Threads DEF Outlived, FreedBy, Unlinked
    <3>8. FreedFirst'
      BY <1>0, <3>1, <3>5 DEF Outlived, FreedFirst
    <3>9. pc'[Terminal] \in {"crea", "agrega"} => pc'[corridas'] = "nace"
      <4> SUFFICES ASSUME pc'[Terminal] \in {"crea", "agrega"} PROVE pc'[corridas] = "nace"
        BY <3>1
      <4>1. pc[Terminal] \in {"crea", "agrega"}
        BY <3>5, Threads
      <4>2. corridas \in Hilos /\ corridas # k /\ pc[corridas] = "nace"
        BY <1>0, <3>4, <4>1, Threads DEF TypeInv, ListInv, Outlived
      <4> QED BY <3>5, <4>2
    <3> QED BY <1>0, <3>1, <3>7, <3>8, <3>9 DEF Outlived
  <2>5. CASE Envia(k)
    <3>1. /\ UNCHANGED <<corridas, vivos, mutex, estado, programa>> /\ pc[k] = "lee"
          /\ pc' = [pc EXCEPT ![k] = "mira"]
      BY <2>5 DEF Envia
    <3>2. \A u \in Hilos : pc'[u] = IF u = k THEN "mira" ELSE pc[u]
      BY <1>0, <3>1, Threads DEF TypeInv
    <3>3. \A h \in 1..corridas : h \in Corridas
      BY <1>0, Threads DEF TypeInv
    <3>4. FreedBy' /\ Unlinked' /\ FreedFirst'
      BY <1>0, <3>1, <3>2, <3>3, Threads DEF Outlived, FreedBy, Unlinked, FreedFirst
    <3>5. pc'[Terminal] \in {"crea", "agrega"} => pc'[corridas'] = "nace"
      <4> SUFFICES ASSUME pc'[Terminal] \in {"crea", "agrega"} PROVE pc'[corridas] = "nace"
        BY <3>1
      <4>1. pc[Terminal] \in {"crea", "agrega"}
        BY <3>2, Threads
      <4>2. corridas \in Hilos /\ pc[corridas] = "nace"
        BY <1>0, <4>1, Threads DEF TypeInv, ListInv, Outlived
      <4> QED BY <3>1, <3>2, <4>2
    <3> QED BY <1>0, <3>1, <3>4, <3>5 DEF Outlived
  <2> QED BY <1>13, <2>1, <2>2, <2>3, <2>4, <2>5
<1>14. ASSUME NEW h \in Corridas, NEW k \in Corridas,
              Checks(h, k) \/ Wakes(h, k)
       PROVE  Outlived'
  <2>1. CASE Checks(h, k)
    BY <1>0, <1>14, <2>1, Threads DEF HandOwn, Outlived, FreedBy, FreedFirst, Unlinked, TypeInv, ListInv, ClearAlone, Estados, Checks, Pasa
  <2>2. CASE Wakes(h, k)
    BY <1>0, <1>14, <2>2, Threads DEF HandOwn, Outlived, FreedBy, FreedFirst, Unlinked, TypeInv, ListInv, ClearAlone, Estados, Wakes
  <2> QED BY <1>14, <2>1, <2>2
<1> HIDE DEF locales, lista, datos, proceso, conexion, En, Va
<1> QED BY <1>0, <1>1, <1>2, <1>3, <1>4, <1>5, <1>6, <1>7, <1>8, <1>9, <1>10, <1>11, <1>12, <1>13, <1>14 DEF Steps

----------------------------------------------------------------------------
(* Where a handler may be.                                                 *)

LEMMA HandlerAtStep ==
  ASSUME TypeInv, HandlerAt, Steps
  PROVE  HandlerAt'
<1>0. TypeInv /\ HandlerAt
  OBVIOUS
<1> USE DEF locales, lista, datos, proceso, conexion, En, Va
<1>1. CASE Dies
  BY <1>0, <1>1, Threads DEF HandlerAt, TypeInv, Dies, Muere
<1>2. CASE RunTyped
  BY <1>0, <1>2, Threads DEF HandlerAt, TypeInv, RunTyped
<1>3. CASE AppendReads
  BY <1>0, <1>3, Threads DEF HandlerAt, TypeInv, AppendReads
<1>4. CASE Appends
  BY <1>0, <1>4, Threads DEF HandlerAt, TypeInv, Appends, AgregaNodo, Vuelve
<1>5. CASE Misses
  BY <1>0, <1>5, Threads DEF HandlerAt, TypeInv, Misses, Vuelve
<1>6. CASE RecibeFin
  BY <1>0, <1>6, Threads DEF HandlerAt, TypeInv, RecibeFin, Llega
<1>7. CASE KernelStarts
  BY <1>0, <1>7, Threads DEF HandlerAt, TypeInv, KernelStarts
<1>8. ASSUME NEW p \in Nat, KillTyped(p) PROVE HandlerAt'
  BY <1>0, <1>8, Threads DEF HandlerAt, TypeInv, KillTyped
<1>9. ASSUME NEW p \in Corridas, KernelEnds(p) PROVE HandlerAt'
  BY <1>0, <1>9, Threads DEF HandlerAt, TypeInv, KernelEnds
<1>10. ASSUME NEW t \in {Terminal, Receptor},
              Goes(t) \/ Looks(t) \/ Apaga(t) \/ Junta(t) \/ Frees(t)
       PROVE  HandlerAt'
  <2>1. CASE Goes(t)
    BY <1>0, <1>10, <2>1, Threads DEF HandlerAt, TypeInv, Goes, Pasa
  <2>2. CASE Looks(t)
    BY <1>0, <1>10, <2>2, Threads DEF HandlerAt, TypeInv, Looks, MiraNodo
  <2>3. CASE Apaga(t)
    BY <1>0, <1>10, <2>3, Threads DEF HandlerAt, TypeInv, Apaga
  <2>4. CASE Junta(t)
    BY <1>0, <1>10, <2>4, Threads DEF HandlerAt, TypeInv, Junta
  <2>5. CASE Frees(t)
    BY <1>0, <1>10, <2>5, Threads DEF HandlerAt, TypeInv, Frees, SinNodo
  <2> QED BY <1>10, <2>1, <2>2, <2>3, <2>4, <2>5
<1>11. ASSUME NEW t \in Hilos,
              Visits(t) \/ Leaves(t) \/ Unlinks(t) \/ (Quits(t) /\ t # Receptor /\ (t = Terminal <=> pc[t] = "quita"))
       PROVE  HandlerAt'
  <2>1. CASE Visits(t)
    BY <1>0, <1>11, <2>1, Threads DEF HandlerAt, TypeInv, Visits, Visita
  <2>2. CASE Leaves(t)
    BY <1>0, <1>11, <2>2, Threads DEF HandlerAt, TypeInv, Leaves, Vuelve
  <2>3. CASE Unlinks(t)
    BY <1>0, <1>11, <2>3, Threads DEF HandlerAt, TypeInv, Unlinks, SinNodo
  <2>4. CASE (Quits(t) /\ t # Receptor /\ (t = Terminal <=> pc[t] = "quita"))
    BY <1>0, <1>11, <2>4, Threads DEF HandlerAt, TypeInv, Quits, Quita
  <2> QED BY <1>11, <2>1, <2>2, <2>3, <2>4
<1>12. ASSUME NEW t \in Hilos, NEW k \in Corridas,
              Warns(t, k) \/ Joins(t, k)
       PROVE  HandlerAt'
  <2>1. CASE Warns(t, k)
    BY <1>0, <1>12, <2>1, Threads DEF HandlerAt, TypeInv, Warns
  <2>2. CASE Joins(t, k)
    BY <1>0, <1>12, <2>2, Threads DEF HandlerAt, TypeInv, Joins
  <2> QED BY <1>12, <2>1, <2>2
<1>13. ASSUME NEW k \in Corridas,
              GetsPid(k) \/ Marks(k) \/ Posts(k) \/ Toma(k) \/ Envia(k)
       PROVE  HandlerAt'
  <2>1. CASE GetsPid(k)
    BY <1>0, <1>13, <2>1, Threads DEF HandlerAt, TypeInv, GetsPid, Llega
  <2>2. CASE Marks(k)
    BY <1>0, <1>13, <2>2, Threads DEF HandlerAt, TypeInv, Marks
  <2>3. CASE Posts(k)
    BY <1>0, <1>13, <2>3, Threads DEF HandlerAt, TypeInv, Posts, Vuelve
  <2>4. CASE Toma(k)
    BY <1>0, <1>13, <2>4, Threads DEF HandlerAt, TypeInv, Toma
  <2>5. CASE Envia(k)
    BY <1>0, <1>13, <2>5, Threads DEF HandlerAt, TypeInv, Envia
  <2> QED BY <1>13, <2>1, <2>2, <2>3, <2>4, <2>5
<1>14. ASSUME NEW h \in Corridas, NEW k \in Corridas,
              Checks(h, k) \/ Wakes(h, k)
       PROVE  HandlerAt'
  <2>1. CASE Checks(h, k)
    BY <1>0, <1>14, <2>1, Threads DEF HandlerAt, TypeInv, Checks, Pasa
  <2>2. CASE Wakes(h, k)
    BY <1>0, <1>14, <2>2, Threads DEF HandlerAt, TypeInv, Wakes
  <2> QED BY <1>14, <2>1, <2>2
<1> HIDE DEF locales, lista, datos, proceso, conexion, En, Va
<1> QED BY <1>0, <1>1, <1>2, <1>3, <1>4, <1>5, <1>6, <1>7, <1>8, <1>9, <1>10, <1>11, <1>12, <1>13, <1>14 DEF Steps

----------------------------------------------------------------------------
(* No wake-up is lost.                                                     *)

LEMMA WakeUpsStep ==
  ASSUME TypeInv, HandOwn, WakeUps, vida' = "sigue", Steps
  PROVE  WakeUps'
<1>0. TypeInv /\ HandOwn /\ WakeUps /\ vida' = "sigue"
  OBVIOUS
<1> USE DEF locales, lista, datos, proceso, conexion, En, Va
<1>1. CASE Dies
  BY <1>0, <1>1, Threads DEF HandOwn, WakeUps, TypeInv, Estados, Dies, Muere
<1>2. CASE RunTyped
  BY <1>0, <1>2, Threads DEF HandOwn, WakeUps, TypeInv, Estados, RunTyped
<1>3. CASE AppendReads
  BY <1>0, <1>3, Threads DEF HandOwn, WakeUps, TypeInv, Estados, AppendReads
<1>4. CASE Appends
  BY <1>0, <1>4, Threads DEF HandOwn, WakeUps, TypeInv, Estados, Appends, AgregaNodo, Vuelve
<1>5. CASE Misses
  BY <1>0, <1>5, Threads DEF HandOwn, WakeUps, TypeInv, Estados, Misses, Vuelve
<1>6. CASE RecibeFin
  BY <1>0, <1>6, Threads DEF HandOwn, WakeUps, TypeInv, Estados, RecibeFin, Llega
<1>7. CASE KernelStarts
  BY <1>0, <1>7, Threads DEF HandOwn, WakeUps, TypeInv, Estados, KernelStarts
<1>8. ASSUME NEW p \in Nat, KillTyped(p) PROVE WakeUps'
  BY <1>0, <1>8, Threads DEF HandOwn, WakeUps, TypeInv, Estados, KillTyped
<1>9. ASSUME NEW p \in Corridas, KernelEnds(p) PROVE WakeUps'
  BY <1>0, <1>9, Threads DEF HandOwn, WakeUps, TypeInv, Estados, KernelEnds
<1>10. ASSUME NEW t \in {Terminal, Receptor},
              Goes(t) \/ Looks(t) \/ Apaga(t) \/ Junta(t) \/ Frees(t)
       PROVE  WakeUps'
  <2>1. CASE Goes(t)
    BY <1>0, <1>10, <2>1, Threads DEF HandOwn, WakeUps, TypeInv, Estados, Goes, Pasa
  <2>2. CASE Looks(t)
    BY <1>0, <1>10, <2>2, Threads DEF HandOwn, WakeUps, TypeInv, Estados, Looks, MiraNodo
  <2>3. CASE Apaga(t)
    BY <1>0, <1>10, <2>3, Threads DEF HandOwn, WakeUps, TypeInv, Estados, Apaga
  <2>4. CASE Junta(t)
    BY <1>0, <1>10, <2>4, Threads DEF HandOwn, WakeUps, TypeInv, Estados, Junta
  <2>5. CASE Frees(t)
    BY <1>0, <1>10, <2>5, Threads DEF HandOwn, WakeUps, TypeInv, Estados, Frees, SinNodo
  <2> QED BY <1>10, <2>1, <2>2, <2>3, <2>4, <2>5
<1>11. ASSUME NEW t \in Hilos,
              Visits(t) \/ Leaves(t) \/ Unlinks(t) \/ (Quits(t) /\ t # Receptor /\ (t = Terminal <=> pc[t] = "quita"))
       PROVE  WakeUps'
  <2>1. CASE Visits(t)
    BY <1>0, <1>11, <2>1, Threads DEF HandOwn, WakeUps, TypeInv, Estados, Visits, Visita
  <2>2. CASE Leaves(t)
    BY <1>0, <1>11, <2>2, Threads DEF HandOwn, WakeUps, TypeInv, Estados, Leaves, Vuelve
  <2>3. CASE Unlinks(t)
    BY <1>0, <1>11, <2>3, Threads DEF HandOwn, WakeUps, TypeInv, Estados, Unlinks, SinNodo
  <2>4. CASE (Quits(t) /\ t # Receptor /\ (t = Terminal <=> pc[t] = "quita"))
    BY <1>0, <1>11, <2>4, Threads DEF HandOwn, WakeUps, TypeInv, Estados, Quits, Quita
  <2> QED BY <1>11, <2>1, <2>2, <2>3, <2>4
<1>12. ASSUME NEW t \in Hilos, NEW k \in Corridas,
              Warns(t, k) \/ Joins(t, k)
       PROVE  WakeUps'
  <2>1. CASE Warns(t, k)
    BY <1>0, <1>12, <2>1, Threads DEF HandOwn, WakeUps, TypeInv, Estados, Warns
  <2>2. CASE Joins(t, k)
    BY <1>0, <1>12, <2>2, Threads DEF HandOwn, WakeUps, TypeInv, Estados, Joins
  <2> QED BY <1>12, <2>1, <2>2
<1>13. ASSUME NEW k \in Corridas,
              GetsPid(k) \/ Marks(k) \/ Posts(k) \/ Toma(k) \/ Envia(k)
       PROVE  WakeUps'
  <2>1. CASE GetsPid(k)
    BY <1>0, <1>13, <2>1, Threads DEF HandOwn, WakeUps, TypeInv, Estados, GetsPid, Llega
  <2>2. CASE Marks(k)
    BY <1>0, <1>13, <2>2, Threads DEF HandOwn, WakeUps, TypeInv, Estados, Marks
  <2>3. CASE Posts(k)
    BY <1>0, <1>13, <2>3, Threads DEF HandOwn, WakeUps, TypeInv, Estados, Posts, Vuelve
  <2>4. CASE Toma(k)
    BY <1>0, <1>13, <2>4, Threads DEF HandOwn, WakeUps, TypeInv, Estados, Toma
  <2>5. CASE Envia(k)
    BY <1>0, <1>13, <2>5, Threads DEF HandOwn, WakeUps, TypeInv, Estados, Envia
  <2> QED BY <1>13, <2>1, <2>2, <2>3, <2>4, <2>5
<1>14. ASSUME NEW h \in Corridas, NEW k \in Corridas,
              Checks(h, k) \/ Wakes(h, k)
       PROVE  WakeUps'
  <2>0. /\ pc \in [Hilos -> Lugares] /\ sem \in [Corridas -> Nat] /\ Corridas \subseteq Hilos
        /\ Receptor \notin Corridas
    BY <1>0, Threads DEF TypeInv
  <2>1. CASE Checks(h, k)
    <3>1. /\ pc[h] = "mira" /\ estado' = estado /\ sem' = sem /\ programa' = programa
          /\ pc' = [pc EXCEPT ![h] = IF estado[k] = "activo" THEN "espera" ELSE "informa"]
      BY <2>1 DEF Checks, Pasa
    <3>2. k = h
      BY <1>0, <1>14, <2>1, <3>1 DEF HandOwn, Checks
    <3>3. \A x \in Corridas : x # h => pc'[x] = pc[x]
      BY <2>0, <3>1
    <3>4. pc'[Receptor] = pc[Receptor] /\ (estado[h] # "activo" => pc'[h] = "informa")
      BY <2>0, <3>1, <3>2
    <3> QED BY <1>0, <3>1, <3>3, <3>4 DEF WakeUps
  <2>2. CASE Wakes(h, k)
    <3>1. /\ pc[h] = "espera" /\ estado' = estado /\ programa' = programa
          /\ sem' = [sem EXCEPT ![k] = @ - 1]
          /\ pc' = [pc EXCEPT ![h] = IF estado[k] = "muerto" THEN "fin" ELSE "mira"]
      BY <2>2 DEF Wakes
    <3>2. k = h
      BY <1>0, <1>14, <2>2, <3>1 DEF HandOwn, Wakes
    <3>3. \A x \in Corridas : x # h => pc'[x] = pc[x] /\ sem'[x] = sem[x]
      BY <2>0, <3>1, <3>2
    <3>4. pc'[Receptor] = pc[Receptor] /\ pc'[h] # "espera"
      BY <2>0, <3>1
    <3> QED BY <1>0, <3>1, <3>3, <3>4 DEF WakeUps
  <2> QED BY <1>14, <2>1, <2>2
<1> HIDE DEF locales, lista, datos, proceso, conexion, En, Va
<1> QED BY <1>0, <1>1, <1>2, <1>3, <1>4, <1>5, <1>6, <1>7, <1>8, <1>9, <1>10, <1>11, <1>12, <1>13, <1>14 DEF Steps

----------------------------------------------------------------------------
(* A run that waits for its pid is the last one typed, if each is typed    *)
(* after the one before has its own.                                       *)

\* Who changes a program.
DataOf(k) ==
  /\ pid'[k] = pid[k] \/ GetsPid(k)
  /\ \/ estado'[k] = estado[k]
     \/ AppendReads /\ k = corridas
     \/ Marks(k)
     \/ \E t \in Hilos : Warns(t, k) \/ Joins(t, k)
  /\ pc[k] \in {"mira", "espera"} /\ estado[k] = "activo" => pc'[k] \in {"mira", "espera"}

DataGoes ==
  /\ \A k \in Corridas : DataOf(k)
  /\ corridas' = corridas \/ RunTyped
  /\ mutex' = Nadie => mutex = Nadie
  /\ \A t \in {Terminal, Receptor} :
       \/ programa'[t] \in {programa[t], Null}
       \/ mutex = t
       \/ programa'[t] = nodo[t] /\ pid[nodo[t]] \in Nat

LEMMA DataStep ==
  ASSUME TypeInv, SentOnce, HandOwn, vida' = "sigue", Steps
  PROVE  DataGoes
<1>0. TypeInv /\ SentOnce /\ HandOwn /\ vida' = "sigue"
  OBVIOUS
<1> USE DEF locales, lista, datos, proceso, conexion, En, Va
<1>1. CASE Dies
  BY <1>0, <1>1, Threads DEF DataGoes, DataOf, HandOwn, TypeInv, Dies, Muere
<1>2. CASE RunTyped
  <2>1. /\ vida = "sigue" /\ corridas + 1 \in Corridas /\ corridas \in Nat
        /\ pc' = [pc EXCEPT ![Terminal] = "crea", ![corridas + 1] = "nace"]
        /\ UNCHANGED <<pid, estado, mutex, programa>>
    BY <1>0, <1>2, Threads DEF RunTyped, TypeInv
  <2>2. pc[corridas + 1] = "no"
    BY <1>0, <2>1 DEF SentOnce
  <2>3. \A k \in Corridas : k # corridas + 1 => pc'[k] = pc[k]
    BY <1>0, <2>1, Threads DEF TypeInv
  <2>4. \A k \in Corridas : DataOf(k)
    BY <2>1, <2>2, <2>3 DEF DataOf
  <2> QED BY <1>2, <2>1, <2>4 DEF DataGoes
<1>3. CASE AppendReads
  BY <1>0, <1>3, Threads DEF DataGoes, DataOf, HandOwn, TypeInv, AppendReads
<1>4. CASE Appends
  BY <1>0, <1>4, Threads DEF DataGoes, DataOf, HandOwn, TypeInv, Appends, AgregaNodo, Vuelve
<1>5. CASE Misses
  BY <1>0, <1>5, Threads DEF DataGoes, DataOf, HandOwn, TypeInv, Misses, Vuelve
<1>6. CASE RecibeFin
  BY <1>0, <1>6, Threads DEF DataGoes, DataOf, HandOwn, TypeInv, RecibeFin, Llega
<1>7. CASE KernelStarts
  BY <1>0, <1>7, Threads DEF DataGoes, DataOf, HandOwn, TypeInv, KernelStarts
<1>8. ASSUME NEW p \in Nat, KillTyped(p) PROVE DataGoes
  BY <1>0, <1>8, Threads DEF DataGoes, DataOf, HandOwn, TypeInv, KillTyped
<1>9. ASSUME NEW p \in Corridas, KernelEnds(p) PROVE DataGoes
  BY <1>0, <1>9, Threads DEF DataGoes, DataOf, HandOwn, TypeInv, KernelEnds
<1>10. ASSUME NEW t \in {Terminal, Receptor},
              Goes(t) \/ Looks(t) \/ Apaga(t) \/ Junta(t) \/ Frees(t)
       PROVE  DataGoes
  <2>1. CASE Goes(t)
    BY <1>0, <1>10, <2>1, Threads DEF DataGoes, DataOf, HandOwn, TypeInv, Goes, Pasa
  <2>2. CASE Looks(t)
    BY <1>0, <1>10, <2>2, Threads DEF DataGoes, DataOf, HandOwn, TypeInv, Looks, MiraNodo
  <2>3. CASE Apaga(t)
    <3>1. /\ UNCHANGED <<pid, estado, mutex, programa, corridas>>
          /\ \/ pc' = [pc EXCEPT ![t] = "junta"]
             \/ pc' = [pc EXCEPT ![t] = "junta", ![Receptor] = "sale"]
      BY <2>3 DEF Apaga
    <3>2. \A k \in Corridas : pc'[k] = pc[k]
      BY <1>0, <1>10, <3>1, Threads DEF TypeInv
    <3> QED BY <3>1, <3>2 DEF DataGoes, DataOf
  <2>4. CASE Junta(t)
    BY <1>0, <1>10, <2>4, Threads DEF DataGoes, DataOf, HandOwn, TypeInv, Junta
  <2>5. CASE Frees(t)
    BY <1>0, <1>10, <2>5, Threads DEF DataGoes, DataOf, HandOwn, TypeInv, Frees, SinNodo
  <2> QED BY <1>10, <2>1, <2>2, <2>3, <2>4, <2>5
<1>11. ASSUME NEW t \in Hilos,
              Visits(t) \/ Leaves(t) \/ Unlinks(t) \/ (Quits(t) /\ t # Receptor /\ (t = Terminal <=> pc[t] = "quita"))
       PROVE  DataGoes
  <2>1. CASE Visits(t)
    BY <1>0, <1>11, <2>1, Threads DEF DataGoes, DataOf, HandOwn, TypeInv, Visits, Visita
  <2>2. CASE Leaves(t)
    BY <1>0, <1>11, <2>2, Threads DEF DataGoes, DataOf, HandOwn, TypeInv, Leaves, Vuelve
  <2>3. CASE Unlinks(t)
    BY <1>0, <1>11, <2>3, Threads DEF DataGoes, DataOf, HandOwn, TypeInv, Unlinks, SinNodo
  <2>4. CASE (Quits(t) /\ t # Receptor /\ (t = Terminal <=> pc[t] = "quita"))
    BY <1>0, <1>11, <2>4, Threads DEF DataGoes, DataOf, HandOwn, TypeInv, Quits, Quita
  <2> QED BY <1>11, <2>1, <2>2, <2>3, <2>4
<1>12. ASSUME NEW t \in Hilos, NEW k \in Corridas,
              Warns(t, k) \/ Joins(t, k)
       PROVE  DataGoes
  <2>1. CASE Warns(t, k)
    BY <1>0, <1>12, <2>1, Threads DEF DataGoes, DataOf, HandOwn, TypeInv, Warns
  <2>2. CASE Joins(t, k)
    BY <1>0, <1>12, <2>2, Threads DEF DataGoes, DataOf, HandOwn, TypeInv, Joins
  <2> QED BY <1>12, <2>1, <2>2
<1>13. ASSUME NEW k \in Corridas,
              GetsPid(k) \/ Marks(k) \/ Posts(k) \/ Toma(k) \/ Envia(k)
       PROVE  DataGoes
  <2>1. CASE GetsPid(k)
    BY <1>0, <1>13, <2>1, Threads DEF DataGoes, DataOf, HandOwn, TypeInv, GetsPid, Llega
  <2>2. CASE Marks(k)
    BY <1>0, <1>13, <2>2, Threads DEF DataGoes, DataOf, HandOwn, TypeInv, Marks
  <2>3. CASE Posts(k)
    BY <1>0, <1>13, <2>3, Threads DEF DataGoes, DataOf, HandOwn, TypeInv, Posts, Vuelve
  <2>4. CASE Toma(k)
    BY <1>0, <1>13, <2>4, Threads DEF DataGoes, DataOf, HandOwn, TypeInv, Toma
  <2>5. CASE Envia(k)
    BY <1>0, <1>13, <2>5, Threads DEF DataGoes, DataOf, HandOwn, TypeInv, Envia
  <2> QED BY <1>13, <2>1, <2>2, <2>3, <2>4, <2>5
<1>14. ASSUME NEW h \in Corridas, NEW k \in Corridas,
              Checks(h, k) \/ Wakes(h, k)
       PROVE  DataGoes
  <2>1. CASE Checks(h, k)
    BY <1>0, <1>14, <2>1, Threads DEF DataGoes, DataOf, HandOwn, TypeInv, Checks, Pasa
  <2>2. CASE Wakes(h, k)
    BY <1>0, <1>14, <2>2, Threads DEF DataGoes, DataOf, HandOwn, TypeInv, Wakes
  <2> QED BY <1>14, <2>1, <2>2
<1> HIDE DEF locales, lista, datos, proceso, conexion, En, Va
<1> QED BY <1>0, <1>1, <1>2, <1>3, <1>4, <1>5, <1>6, <1>7, <1>8, <1>9, <1>10, <1>11, <1>12, <1>13, <1>14 DEF Steps

\* What goes over the connection, and when.
SentGoes ==
  \/ UNCHANGED <<alKernel, deKernel, dueno>>
  \/ \E k \in Corridas : Envia(k)
  \/ KernelStarts
  \/ \E p \in Corridas : KernelEnds(p)
  \/ RecibeFin
  \/ \E k \in Corridas : GetsPid(k)

LEMMA SentBy ==
  ASSUME Steps
  PROVE  SentGoes
<1>0. TRUE
  OBVIOUS
<1> USE DEF locales, lista, datos, proceso, conexion, En, Va
<1>1. CASE Dies
  BY <1>0, <1>1 DEF SentGoes, Dies, Muere
<1>2. CASE RunTyped
  BY <1>0, <1>2 DEF SentGoes, RunTyped
<1>3. CASE AppendReads
  BY <1>0, <1>3 DEF SentGoes, AppendReads
<1>4. CASE Appends
  BY <1>0, <1>4 DEF SentGoes, Appends, AgregaNodo, Vuelve
<1>5. CASE Misses
  BY <1>0, <1>5 DEF SentGoes, Misses, Vuelve
<1>6. CASE RecibeFin
  BY <1>0, <1>6 DEF SentGoes, RecibeFin, Llega
<1>7. CASE KernelStarts
  BY <1>0, <1>7 DEF SentGoes, KernelStarts
<1>8. ASSUME NEW p \in Nat, KillTyped(p) PROVE SentGoes
  BY <1>0, <1>8 DEF SentGoes, KillTyped
<1>9. ASSUME NEW p \in Corridas, KernelEnds(p) PROVE SentGoes
  BY <1>0, <1>9 DEF SentGoes, KernelEnds
<1>10. ASSUME NEW t \in {Terminal, Receptor},
              Goes(t) \/ Looks(t) \/ Apaga(t) \/ Junta(t) \/ Frees(t)
       PROVE  SentGoes
  <2>1. CASE Goes(t)
    BY <1>0, <1>10, <2>1 DEF SentGoes, Goes, Pasa
  <2>2. CASE Looks(t)
    BY <1>0, <1>10, <2>2 DEF SentGoes, Looks, MiraNodo
  <2>3. CASE Apaga(t)
    BY <1>0, <1>10, <2>3 DEF SentGoes, Apaga
  <2>4. CASE Junta(t)
    BY <1>0, <1>10, <2>4 DEF SentGoes, Junta
  <2>5. CASE Frees(t)
    BY <1>0, <1>10, <2>5 DEF SentGoes, Frees, SinNodo
  <2> QED BY <1>10, <2>1, <2>2, <2>3, <2>4, <2>5
<1>11. ASSUME NEW t \in Hilos,
              Visits(t) \/ Leaves(t) \/ Unlinks(t) \/ (Quits(t) /\ t # Receptor /\ (t = Terminal <=> pc[t] = "quita"))
       PROVE  SentGoes
  <2>1. CASE Visits(t)
    BY <1>0, <1>11, <2>1 DEF SentGoes, Visits, Visita
  <2>2. CASE Leaves(t)
    BY <1>0, <1>11, <2>2 DEF SentGoes, Leaves, Vuelve
  <2>3. CASE Unlinks(t)
    BY <1>0, <1>11, <2>3 DEF SentGoes, Unlinks, SinNodo
  <2>4. CASE (Quits(t) /\ t # Receptor /\ (t = Terminal <=> pc[t] = "quita"))
    BY <1>0, <1>11, <2>4 DEF SentGoes, Quits, Quita
  <2> QED BY <1>11, <2>1, <2>2, <2>3, <2>4
<1>12. ASSUME NEW t \in Hilos, NEW k \in Corridas,
              Warns(t, k) \/ Joins(t, k)
       PROVE  SentGoes
  <2>1. CASE Warns(t, k)
    BY <1>0, <1>12, <2>1 DEF SentGoes, Warns
  <2>2. CASE Joins(t, k)
    BY <1>0, <1>12, <2>2 DEF SentGoes, Joins
  <2> QED BY <1>12, <2>1, <2>2
<1>13. ASSUME NEW k \in Corridas,
              GetsPid(k) \/ Marks(k) \/ Posts(k) \/ Toma(k) \/ Envia(k)
       PROVE  SentGoes
  <2>1. CASE GetsPid(k)
    BY <1>0, <1>13, <2>1 DEF SentGoes, GetsPid, Llega
  <2>2. CASE Marks(k)
    BY <1>0, <1>13, <2>2 DEF SentGoes, Marks
  <2>3. CASE Posts(k)
    BY <1>0, <1>13, <2>3 DEF SentGoes, Posts, Vuelve
  <2>4. CASE Toma(k)
    BY <1>0, <1>13, <2>4 DEF SentGoes, Toma
  <2>5. CASE Envia(k)
    BY <1>0, <1>13, <2>5 DEF SentGoes, Envia
  <2> QED BY <1>13, <2>1, <2>2, <2>3, <2>4, <2>5
<1>14. ASSUME NEW h \in Corridas, NEW k \in Corridas,
              Checks(h, k) \/ Wakes(h, k)
       PROVE  SentGoes
  <2>1. CASE Checks(h, k)
    BY <1>0, <1>14, <2>1 DEF SentGoes, Checks, Pasa
  <2>2. CASE Wakes(h, k)
    BY <1>0, <1>14, <2>2 DEF SentGoes, Wakes
  <2> QED BY <1>14, <2>1, <2>2
<1> HIDE DEF locales, lista, datos, proceso, conexion, En, Va
<1> QED BY <1>0, <1>1, <1>2, <1>3, <1>4, <1>5, <1>6, <1>7, <1>8, <1>9, <1>10, <1>11, <1>12, <1>13, <1>14 DEF Steps

\* The pid that arrives is for the last run, which is the last of the list.
LEMMA PidFound ==
  ASSUME TypeInv, SentOnce, ClearAlone, ListInv, Outlived, mutex = Nadie => PidsAwaited,
         NEW k \in Corridas, GetsPid(k)
  PROVE  /\ mutex = Nadie /\ deKernel # <<>> /\ Head(deKernel).op = "pid"
         /\ Head(deKernel).pid \in DOMAIN dueno /\ dueno[Head(deKernel).pid] = k
         /\ pid' = [pid EXCEPT ![k] = Head(deKernel).pid]
         /\ deKernel' = Tail(deKernel) /\ UNCHANGED <<alKernel, dueno>>
<1>1. /\ vida = "sigue" /\ pc[Receptor] = "recibe" /\ deKernel # <<>> /\ Head(deKernel).op = "pid"
      /\ k = MlistLast(programs) /\ pid' = [pid EXCEPT ![k] = Head(deKernel).pid]
      /\ deKernel' = Tail(deKernel) /\ UNCHANGED <<alKernel, dueno>>
  BY DEF GetsPid, Llega, En
<1>2. mutex = Nadie
  BY <1>1, Threads DEF ClearAlone, TypeInv
<1> DEFINE i == Head(deKernel).pid  o == dueno[i]
<1>3. i \in DOMAIN dueno /\ 1 \in DOMAIN deKernel /\ Head(deKernel) = deKernel[1]
  BY <1>1, FirstMessage DEF SentOnce
<1>4. o \in Range(Enviados) /\ o \in Corridas
  <2>1. dueno \in Seq(Corridas) /\ alKernel \in Seq(Corridas)
    BY DEF TypeInv
  <2>2. i \in 1..Len(dueno) /\ i \in 1..Len(Enviados) /\ Enviados[i] = dueno[i]
    BY <1>3, <2>1, ConcatProperties, LenProperties DEF Enviados
  <2>3. DOMAIN Enviados = 1..Len(Enviados) /\ dueno[i] \in Corridas
    BY <2>1, <2>2, SentSeq, LenProperties
  <2> QED BY <2>2, <2>3 DEF Range
<1>5. PidOnItsWay(o)
  BY <1>1, <1>3 DEF PidOnItsWay
<1>6. pid[o] = -1 /\ estado[o] = "activo" /\ pc[o] \in {"mira", "espera"} /\ o <= corridas
  BY <1>2, <1>4, <1>5 DEF PidsAwaited, OnItsWay, Waits, SentOnce
<1> HIDE DEF i, o
<1>7. o \in 1..corridas /\ o \in Nat /\ corridas \in Nat
  <2>1. o \in Nat /\ o > 0 /\ corridas \in Nat
    BY <1>4, Threads DEF TypeInv
  <2> QED BY <1>6, <2>1
<1>8. o = corridas
  BY <1>2, <1>6, <1>7 DEF PidsAwaited, LastWaits
<1>9. o \in Range(Orden)
  BY <1>2, <1>6, <1>7, <1>8 DEF Outlived, Unlinked, ListInv
<1>10. Orden[Len(Orden)] = o /\ Len(Orden) # 0
  <2>1. PICK j \in 1..Len(Orden) : Orden[j] = o
    BY <1>9, OrdenSeq DEF Range
  <2>2. Len(Orden) \in 1..Len(Orden) /\ Len(Orden) \in Nat /\ j <= Len(Orden)
    BY <2>1, OrdenSeq
  <2>3. Orden[Len(Orden)] \in Range(Orden)
    BY <2>2, OrdenSeq DEF Range
  <2>4. Orden[Len(Orden)] <= o /\ Orden[Len(Orden)] \in Nat
    BY <1>8, <2>3, OrdenSeq, Threads
  <2>5. j # Len(Orden) => Orden[j] < Orden[Len(Orden)]
    <3>1. j # Len(Orden) => j < Len(Orden)
      BY <2>1, <2>2
    <3> QED BY <2>1, <2>2, <3>1, OrdenSeq DEF Increasing
  <2> QED BY <1>7, <2>1, <2>2, <2>4, <2>5
<1>11. MlistLast(programs) = o
  BY <1>10, OrdenSeq DEF ListInv, Linked, MlistLast, MlistEmpty
<1> QED BY <1>1, <1>2, <1>3, <1>11 DEF i, o

LEMMA OwnedStep ==
  ASSUME TypeInv, SentOnce, ClearAlone, ListInv, Outlived, PidsOwned, mutex = Nadie => PidsAwaited,
         HandOwn, vida' = "sigue", Steps
  PROVE  PidsOwned'
<1> SUFFICES ASSUME NEW k \in Corridas, pid'[k] # -1
             PROVE  pid'[k] \in DOMAIN dueno' /\ dueno'[pid'[k]] = k
  BY DEF PidsOwned
<1>1. /\ pid'[k] = pid[k] \/ GetsPid(k)
      /\ \A i \in DOMAIN dueno : i \in DOMAIN dueno' /\ dueno'[i] = dueno[i]
  BY DataStep, MessageStep DEF DataGoes, DataOf, MessagesGo
<1>2. CASE pid'[k] = pid[k]
  BY <1>1, <1>2 DEF PidsOwned
<1>3. CASE GetsPid(k)
  <2>1. /\ Head(deKernel).pid \in DOMAIN dueno /\ dueno[Head(deKernel).pid] = k
        /\ pid' = [pid EXCEPT ![k] = Head(deKernel).pid]
    BY <1>3, PidFound
  <2>2. pid'[k] = Head(deKernel).pid
    BY <2>1 DEF TypeInv
  <2> QED BY <1>1, <2>1, <2>2
<1> QED BY <1>1, <1>2, <1>3

\* What holds before a step that leaves the list free.
Before ==
  /\ TypeInv /\ SentOnce /\ ClearAlone /\ ListInv /\ HandOwn /\ Outlived
  /\ PidsOwned /\ PidsAwaited /\ mutex = Nadie

LEMMA PidKept ==
  ASSUME TypeInv, SentOnce, HandOwn, vida' = "sigue", Steps, NEW k \in Corridas, pid[k] # -1
  PROVE  pid'[k] # -1
<1>1. pid'[k] = pid[k] \/ GetsPid(k)
  BY DataStep DEF DataGoes, DataOf
<1>2. CASE GetsPid(k)
  <2>1. pid' = [pid EXCEPT ![k] = Head(deKernel).pid] /\ deKernel # <<>>
    BY <1>2 DEF GetsPid, Llega
  <2>2. Head(deKernel).pid \in Nat
    BY <2>1, FirstMessage
  <2>3. pid'[k] = Head(deKernel).pid
    BY <2>1 DEF TypeInv
  <2> QED BY <2>2, <2>3
<1> QED BY <1>1, <1>2

LEMMA OwnedSent ==
  ASSUME TypeInv, PidsOwned, NEW k \in Corridas, pid[k] # -1
  PROVE  k \in Range(Enviados)
<1>1. pid[k] \in DOMAIN dueno /\ dueno[pid[k]] = k /\ dueno \in Seq(Corridas) /\ alKernel \in Seq(Corridas)
  BY DEF PidsOwned, TypeInv
<1>2. pid[k] \in 1..Len(dueno) /\ Len(dueno) \in Nat /\ Len(alKernel) \in Nat
  BY <1>1, LenProperties
<1>3. Len(Enviados) = Len(dueno) + Len(alKernel) /\ \A i \in 1..Len(dueno) : Enviados[i] = dueno[i]
  BY <1>1, ConcatProperties DEF Enviados
<1>4. pid[k] \in DOMAIN Enviados /\ Enviados[pid[k]] = k
  BY <1>1, <1>2, <1>3, SentSeq
<1> QED BY <1>4 DEF Range

\* A run is at one place on its way.
LEMMA OnePlace ==
  ASSUME TypeInv, SentOnce
  PROVE  /\ \A i, j \in DOMAIN dueno : dueno[i] = dueno[j] => i = j
         /\ \A i \in DOMAIN dueno : dueno[i] \notin Range(alKernel)
<1>1. dueno \in Seq(Corridas) /\ alKernel \in Seq(Corridas)
  BY DEF TypeInv
<1>2. /\ DOMAIN dueno = 1..Len(dueno) /\ DOMAIN alKernel = 1..Len(alKernel)
      /\ Len(dueno) \in Nat /\ Len(alKernel) \in Nat
  BY <1>1, LenProperties
<1>3. /\ Len(Enviados) = Len(dueno) + Len(alKernel)
      /\ \A i \in 1..Len(Enviados) :
           Enviados[i] = IF i <= Len(dueno) THEN dueno[i] ELSE alKernel[i - Len(dueno)]
  BY <1>1, ConcatProperties DEF Enviados
<1>4. \A i, j \in 1..Len(Enviados) : Enviados[i] = Enviados[j] => i = j
  BY SentSeq DEF SentOnce, IsInjective
<1>5. \A i \in 1..Len(dueno) : i \in 1..Len(Enviados) /\ Enviados[i] = dueno[i]
  BY <1>2, <1>3
<1>6. ASSUME NEW i \in 1..Len(dueno), NEW j \in 1..Len(alKernel) PROVE dueno[i] # alKernel[j]
  <2>1. /\ Len(dueno) + j \in 1..Len(Enviados) /\ ~(Len(dueno) + j <= Len(dueno))
        /\ (Len(dueno) + j) - Len(dueno) = j /\ Len(dueno) + j # i
    BY <1>2, <1>3
  <2>2. Enviados[Len(dueno) + j] = alKernel[j]
    BY <1>3, <2>1
  <2> QED BY <1>4, <1>5, <2>1, <2>2
<1> QED BY <1>2, <1>4, <1>5, <1>6 DEF Range

\* Who touches a program without a pid.
LEMMA TouchedBy ==
  ASSUME Before, vida' = "sigue", Steps, NEW k \in Corridas, estado'[k] # estado[k]
  PROVE  \/ k = corridas /\ pc[k] = "nace" /\ estado'[k] = "activo"
         \/ pid[k] # -1 /\ estado[k] # "libre"
         \/ pc[k] \in {"avisa", "une"} /\ estado[k] # "libre"
<1>1. TypeInv /\ SentOnce /\ HandOwn /\ Outlived /\ Found
  BY DEF Before, PidsAwaited
<1>2. \/ AppendReads /\ k = corridas
      \/ Marks(k)
      \/ \E t \in Hilos : Warns(t, k) \/ Joins(t, k)
  BY <1>1, DataStep DEF DataGoes, DataOf
<1>3. CASE AppendReads /\ k = corridas
  <2>1. pc[Terminal] = "crea" /\ estado' = [estado EXCEPT ![k] = "activo"]
    BY <1>3 DEF AppendReads, En
  <2>2. estado'[k] = "activo"
    BY <1>1, <2>1 DEF TypeInv
  <2> QED BY <1>1, <1>3, <2>1, <2>2 DEF Outlived
<1>4. CASE Marks(k)
  BY <1>1, <1>4, Threads DEF Marks, Found
<1>5. ASSUME NEW t \in Hilos, Warns(t, k) \/ Joins(t, k)
      PROVE  (pid[k] # -1 \/ pc[k] \in {"avisa", "une"}) /\ estado[k] # "libre"
  <2>1. k = programa[t] /\ pc[t] \in {"avisa", "une"} /\ estado[k] # "libre"
    BY <1>5 DEF Warns, Joins, En
  <2>2. CASE t \in {Terminal, Receptor}
    BY <1>1, <2>1, <2>2, Threads DEF Found
  <2>3. CASE t \in Corridas
    <3>1. programa[t] = t
      BY <1>1, <2>1, <2>3 DEF HandOwn
    <3> QED BY <2>1, <3>1
  <2> QED BY <2>2, <2>3, Threads
<1> QED BY <1>2, <1>3, <1>4, <1>5

LEMMA FoundStep ==
  ASSUME Before, vida' = "sigue", Steps
  PROVE  Found'
<1>1. TypeInv /\ SentOnce /\ HandOwn /\ Found /\ mutex = Nadie
  BY DEF Before, PidsAwaited
<1> SUFFICES ASSUME NEW t \in {Terminal, Receptor}, programa'[t] # Null
             PROVE  pid'[programa'[t]] # -1
  BY DEF Found
<1>2. \/ programa'[t] = programa[t]
      \/ programa'[t] = nodo[t] /\ pid[nodo[t]] \in Nat
  BY <1>1, DataStep, Threads DEF DataGoes
<1>3. programa'[t] \in Corridas
  BY <1>1, <1>2, Threads DEF TypeInv
<1>4. pid[programa'[t]] # -1
  BY <1>1, <1>2 DEF Found
<1> QED BY <1>1, <1>3, <1>4, PidKept

LEMMA WaitsStep ==
  ASSUME Before, vida' = "sigue", Steps
  PROVE  Waits'
<1>1. TypeInv /\ SentOnce /\ HandOwn /\ Outlived /\ Waits /\ Unsent
  BY DEF Before, PidsAwaited
<1>2. ASSUME NEW k \in Corridas, k \in Range(Enviados), pid'[k] = -1
      PROVE  estado'[k] = "activo" /\ pc'[k] \in {"mira", "espera"}
  <2>1. estado[k] = "activo" /\ pc[k] \in {"mira", "espera"} /\ pid[k] = -1
    BY <1>1, <1>2, PidKept DEF Waits
  <2>2. pc'[k] \in {"mira", "espera"}
    BY <1>1, <2>1, DataStep DEF DataGoes, DataOf
  <2>3. estado'[k] = estado[k]
    BY <2>1, TouchedBy
  <2> QED BY <2>1, <2>2, <2>3
<1>3. ASSUME NEW k \in Corridas, Envia(k)
      PROVE  estado'[k] = "activo" /\ pc'[k] = "mira"
  <2>1. vida = "sigue" /\ pc[k] = "lee" /\ pc'[k] = "mira" /\ estado' = estado
    BY <1>1, <1>3, Threads DEF Envia, En, Va, TypeInv, datos
  <2>2. k \in 1..corridas
    <3>1. k \in Nat /\ k > 0 /\ corridas \in Nat
      BY <1>1, Threads DEF TypeInv
    <3>2. ~(k > corridas)
      BY <1>1, <2>1 DEF SentOnce
    <3> QED BY <3>1, <3>2
  <2>3. estado[k] \in {"libre", "activo"} /\ estado[k] # "libre"
    BY <1>1, <2>1, <2>2 DEF Unsent, Outlived, FreedBy
  <2> QED BY <2>1, <2>3
<1>4. ASSUME NEW k \in Range(Enviados'), pid'[k] = -1
      PROVE  estado'[k] = "activo" /\ pc'[k] \in {"mira", "espera"}
  <2>1. CASE Enviados' = Enviados
    <3>1. k \in Range(Enviados) /\ k \in Corridas
      BY <1>1, <1>4, <2>1, SentSeq, LenProperties DEF Range
    <3> QED BY <1>2, <1>4, <3>1
  <2>2. ASSUME NEW h \in Corridas, Envia(h)
        PROVE  estado'[k] = "activo" /\ pc'[k] \in {"mira", "espera"}
    <3>1. Range(Enviados') = Range(Enviados) \cup {h}
      <4>1. Enviados' = Append(Enviados, h) /\ Enviados \in Seq(Corridas)
        BY <1>1, <2>2, SendsOne, SentSeq
      <4>2. Range(Append(Enviados, h)) = Range(Enviados) \cup {h}
        BY <4>1, AppendedList
      <4> QED BY <4>1, <4>2
    <3>2. k = h \/ (k \in Range(Enviados) /\ k \in Corridas)
      BY <1>1, <1>4, <3>1, SentSeq, LenProperties DEF Range
    <3> QED BY <1>2, <1>3, <1>4, <2>2, <3>2
  <2> QED BY <1>1, <2>1, <2>2, MessageStep DEF MessagesGo
<1> QED BY <1>4 DEF Waits

LEMMA UnsentStep ==
  ASSUME Before, vida' = "sigue", Steps
  PROVE  Unsent'
<1>1. TypeInv /\ SentOnce /\ HandOwn /\ Outlived /\ PidsOwned /\ Unsent
  BY DEF Before, PidsAwaited
<1> SUFFICES ASSUME NEW k \in Corridas, pc'[k] \in {"no", "nace", "lee"}
             PROVE  estado'[k] \in {"libre", "activo"}
  BY DEF Unsent
<1>2. pc[k] \in {"no", "nace", "lee"}
  <2>1. HandlerGoes /\ corridas \in Nat
    BY <1>1, HandlerStep, Threads DEF TypeInv
  <2>2. k = corridas + 1 => pc[k] = "no"
    BY <2>1, <1>1 DEF SentOnce, HandlerGoes
  <2> QED BY <2>1, <2>2 DEF HandlerGoes
<1>3. CASE estado'[k] = estado[k]
  BY <1>1, <1>2, <1>3 DEF Unsent
<1>4. CASE estado'[k] # estado[k]
  <2>1. pid[k] = -1
    BY <1>1, <1>2, OwnedSent DEF SentOnce
  <2> QED BY <1>2, <1>4, <2>1, TouchedBy
<1> QED BY <1>3, <1>4

LEMMA LastWaitsStep ==
  ASSUME Before, vida' = "sigue", Steps, ~Apurado
  PROVE  LastWaits'
<1>1. TypeInv /\ SentOnce /\ HandOwn /\ Outlived /\ LastWaits /\ mutex = Nadie
  BY DEF Before, PidsAwaited
<1>2. corridas \in Nat /\ \A h \in 1..corridas : h \in Corridas
  BY <1>1, Threads DEF TypeInv
<1> SUFFICES ASSUME NEW k \in 1..corridas', k < corridas' PROVE pid'[k] # -1 \/ estado'[k] = "libre"
  BY DEF LastWaits
<1>3. CASE RunTyped
  <2>1. /\ corridas' = corridas + 1 /\ UNCHANGED <<pid, estado>>
        /\ \A h \in 1..corridas : pid[h] # -1 \/ estado[h] = "libre"
    BY <1>3 DEF RunTyped, datos
  <2> QED BY <1>2, <2>1
<1>4. CASE corridas' = corridas
  <2>1. (pid[k] # -1 \/ estado[k] = "libre") /\ k \in Corridas /\ k # corridas
    BY <1>1, <1>2, <1>4 DEF LastWaits
  <2>2. CASE pid[k] # -1
    BY <1>1, <2>1, <2>2, PidKept
  <2>3. CASE estado[k] = "libre"
    BY <2>1, <2>3, TouchedBy
  <2> QED BY <2>1, <2>2, <2>3
<1> QED BY <1>1, <1>3, <1>4, DataStep DEF DataGoes

\* The connection gets one message more, or one less.
LEMMA MessagesAre ==
  ASSUME TypeInv, NEW i \in DOMAIN deKernel', KernelStarts \/ \E p \in Corridas : KernelEnds(p)
  PROVE  \/ i \in DOMAIN deKernel /\ deKernel'[i] = deKernel[i]
         \/ i = Len(deKernel) + 1 /\ i \notin DOMAIN deKernel /\ KernelStarts
              /\ deKernel'[i] = [op |-> "pid", pid |-> Len(dueno) + 1]
         \/ i = Len(deKernel) + 1 /\ i \notin DOMAIN deKernel /\ deKernel'[i].op = "fin"
<1>1. PICK m : /\ deKernel' = Append(deKernel, m)
               /\ \/ KernelStarts /\ m = [op |-> "pid", pid |-> Len(dueno) + 1]
                  \/ m.op = "fin"
  <2>1. ASSUME KernelStarts
        PROVE  deKernel' = Append(deKernel, [op |-> "pid", pid |-> Len(dueno) + 1])
    BY <2>1 DEF KernelStarts
  <2>2. ASSUME NEW p \in Corridas, KernelEnds(p)
        PROVE  /\ deKernel' = Append(deKernel, [op |-> "fin", pid |-> p])
               /\ [op |-> "fin", pid |-> p].op = "fin"
    BY <2>2 DEF KernelEnds
  <2> QED BY <2>1, <2>2
<1>2. deKernel \in Seq(Mensajes) /\ DOMAIN deKernel = 1..Len(deKernel) /\ Len(deKernel) \in Nat
  BY LenProperties DEF TypeInv
<1>3. /\ DOMAIN deKernel' = 1..(Len(deKernel) + 1) /\ deKernel'[Len(deKernel) + 1] = m
      /\ \A j \in 1..Len(deKernel) : deKernel'[j] = deKernel[j]
  BY <1>1, <1>2
<1>4. i \in 1..Len(deKernel) \/ i = Len(deKernel) + 1
  BY <1>2, <1>3
<1> QED BY <1>1, <1>2, <1>3, <1>4

LEMMA PidOnceStep ==
  ASSUME Before, Steps
  PROVE  PidOnce'
<1>1. TypeInv /\ SentOnce /\ PidOnce
  BY DEF Before, PidsAwaited
<1> SUFFICES ASSUME NEW i \in DOMAIN deKernel', NEW j \in DOMAIN deKernel',
                    deKernel'[i].op = "pid", deKernel'[j].op = "pid", deKernel'[i].pid = deKernel'[j].pid
             PROVE  i = j
  BY DEF PidOnce
<1>2. CASE deKernel' = deKernel
  BY <1>1, <1>2 DEF PidOnce
<1>3. CASE deKernel # <<>> /\ deKernel' = Tail(deKernel)
  <2>1. /\ i \in 1..(Len(deKernel) - 1) /\ j \in 1..(Len(deKernel) - 1)
        /\ deKernel'[i] = deKernel[i + 1] /\ deKernel'[j] = deKernel[j + 1]
        /\ Len(deKernel) \in Nat /\ DOMAIN deKernel = 1..Len(deKernel)
    BY <1>1, <1>3, FirstMessage
  <2>2. i + 1 \in DOMAIN deKernel /\ j + 1 \in DOMAIN deKernel /\ i \in Int /\ j \in Int
    BY <2>1
  <2>3. i + 1 = j + 1
    BY <1>1, <2>1, <2>2 DEF PidOnce
  <2> QED BY <2>2, <2>3
<1>4. CASE KernelStarts \/ \E p \in Corridas : KernelEnds(p)
  <2>1. \A h \in DOMAIN deKernel : deKernel[h].pid # Len(dueno) + 1
    <3>1. Len(dueno) \in Nat /\ DOMAIN dueno = 1..Len(dueno)
      BY <1>1, LenProperties DEF TypeInv
    <3>2. Len(dueno) + 1 \notin DOMAIN dueno
      BY <3>1
    <3> QED BY <1>1, <3>2 DEF SentOnce
  <2>2. /\ \/ i \in DOMAIN deKernel /\ deKernel'[i] = deKernel[i]
           \/ i = Len(deKernel) + 1 /\ deKernel'[i] = [op |-> "pid", pid |-> Len(dueno) + 1]
        /\ \/ j \in DOMAIN deKernel /\ deKernel'[j] = deKernel[j]
           \/ j = Len(deKernel) + 1 /\ deKernel'[j] = [op |-> "pid", pid |-> Len(dueno) + 1]
    BY <1>1, <1>4, MessagesAre
  <2> QED BY <1>1, <2>1, <2>2 DEF PidOnce
<1>5. SentGoes
  BY SentBy
<1> QED BY <1>2, <1>3, <1>4, <1>5 DEF SentGoes, Envia, RecibeFin, GetsPid, Llega

LEMMA OnItsWayStep ==
  ASSUME Before, vida' = "sigue", Steps
  PROVE  OnItsWay'
<1>1. /\ TypeInv /\ SentOnce /\ ClearAlone /\ ListInv /\ HandOwn /\ Outlived
      /\ PidsOwned /\ PidsAwaited /\ OnItsWay /\ PidOnce /\ mutex = Nadie
  BY DEF Before, PidsAwaited
<1>2. \A i \in DOMAIN deKernel : deKernel[i].pid \in DOMAIN dueno
  BY <1>1 DEF SentOnce
<1>3. alKernel \in Seq(Corridas) /\ dueno \in Seq(Corridas)
  BY <1>1 DEF TypeInv
<1> SUFFICES ASSUME NEW k \in Corridas, PidOnItsWay(k)' PROVE pid'[k] = -1
  BY DEF OnItsWay
<1>4. ASSUME NEW g \in Corridas, GetsPid(g) PROVE pid'[k] = -1
  <2> DEFINE d == Head(deKernel).pid
  <2>1. /\ d \in DOMAIN dueno /\ dueno[d] = g /\ pid' = [pid EXCEPT ![g] = d]
        /\ deKernel' = Tail(deKernel) /\ UNCHANGED <<alKernel, dueno>> /\ deKernel # <<>>
        /\ Head(deKernel).op = "pid"
    BY <1>1, <1>4, PidFound
  <2>2. \A i \in DOMAIN deKernel' : i + 1 \in DOMAIN deKernel /\ deKernel'[i] = deKernel[i + 1]
                                    /\ i + 1 # 1
    BY <1>1, <2>1, FirstMessage
  <2>3. Head(deKernel) = deKernel[1] /\ 1 \in DOMAIN deKernel
    BY <1>1, <2>1, FirstMessage
  <2> HIDE DEF d
  <2>4. CASE k \in Range(alKernel)
    <3>1. k # g
      BY <1>1, <2>1, <2>4, OnePlace
    <3>2. pid[k] = -1
      BY <1>1, <2>4 DEF OnItsWay, PidOnItsWay
    <3> QED BY <1>1, <2>1, <3>1, <3>2 DEF TypeInv
  <2>5. ASSUME NEW i \in DOMAIN deKernel', deKernel'[i].op = "pid", dueno'[deKernel'[i].pid] = k
        PROVE  pid'[k] = -1
    <3>1. /\ i + 1 \in DOMAIN deKernel /\ deKernel[i + 1].op = "pid" /\ i + 1 # 1
          /\ dueno[deKernel[i + 1].pid] = k
      BY <2>1, <2>2, <2>5
    <3>2. k # g
      <4>1. deKernel[i + 1].pid # deKernel[1].pid
        BY <1>1, <2>1, <2>3, <3>1 DEF PidOnce
      <4> QED BY <1>1, <1>2, <2>1, <2>3, <3>1, <4>1, OnePlace DEF d
    <3>3. pid[k] = -1
      BY <1>1, <3>1 DEF OnItsWay, PidOnItsWay
    <3> QED BY <1>1, <2>1, <3>2, <3>3 DEF TypeInv
  <2> QED BY <2>1, <2>4, <2>5 DEF PidOnItsWay
<1>5. CASE ~\E g \in Corridas : GetsPid(g)
  <2>0. pid'[k] = pid[k]
    BY <1>1, <1>5, DataStep DEF DataGoes, DataOf
  <2> SUFFICES PidOnItsWay(k) \/ pid[k] = -1
    BY <1>1, <2>0 DEF OnItsWay
  <2>1. CASE UNCHANGED <<alKernel, deKernel, dueno>>
    BY <2>1 DEF PidOnItsWay
  <2>2. ASSUME NEW h \in Corridas, Envia(h) PROVE PidOnItsWay(k) \/ pid[k] = -1
    <3>1. alKernel' = Append(alKernel, h) /\ UNCHANGED <<deKernel, dueno>> /\ pc[h] = "lee" /\ UNCHANGED pid
      BY <2>2 DEF Envia, En, datos
    <3>2. Range(Append(alKernel, h)) = Range(alKernel) \cup {h}
      BY <1>3, AppendedList
    <3>3. CASE k = h
      BY <1>1, <3>1, <3>3, OwnedSent DEF SentOnce
    <3>4. CASE k # h
      BY <3>1, <3>2, <3>4 DEF PidOnItsWay
    <3> QED BY <3>3, <3>4
  <2>3. ASSUME KernelStarts \/ \E p \in Corridas : KernelEnds(p) PROVE PidOnItsWay(k)
    <3>1. \A i \in DOMAIN dueno : dueno'[i] = dueno[i]
      BY <1>1, MessageStep DEF MessagesGo
    <3>2. \A n \in Range(alKernel') : n \in Range(alKernel)
      <4>1. CASE KernelStarts
        <5>1. alKernel' = Tail(alKernel) /\ alKernel # <<>>
          BY <4>1 DEF KernelStarts
        <5>2. /\ DOMAIN alKernel = 1..Len(alKernel) /\ Len(alKernel) \in Nat
              /\ DOMAIN Tail(alKernel) = 1..(Len(alKernel) - 1)
              /\ \A i \in 1..(Len(alKernel) - 1) : Tail(alKernel)[i] = alKernel[i + 1]
          BY <1>3, <5>1, HeadTailProperties, LenProperties
        <5>3. \A i \in 1..(Len(alKernel) - 1) : i + 1 \in DOMAIN alKernel
          BY <5>2
        <5> QED BY <5>1, <5>2, <5>3 DEF Range
      <4>2. CASE \E p \in Corridas : KernelEnds(p)
        BY <4>2 DEF KernelEnds
      <4> QED BY <2>3, <4>1, <4>2
    <3>3. ASSUME NEW i \in DOMAIN deKernel', deKernel'[i].op = "pid", dueno'[deKernel'[i].pid] = k
          PROVE  PidOnItsWay(k)
      <4>1. CASE i \in DOMAIN deKernel /\ deKernel'[i] = deKernel[i]
        <5>1. deKernel[i].pid \in DOMAIN dueno
          BY <1>2, <4>1
        <5> QED BY <3>1, <3>3, <4>1, <5>1 DEF PidOnItsWay
      <4>2. CASE KernelStarts /\ deKernel'[i] = [op |-> "pid", pid |-> Len(dueno) + 1]
        <5>1. dueno'[Len(dueno) + 1] = Head(alKernel) /\ Head(alKernel) = alKernel[1] /\ alKernel # <<>>
          BY <1>1, <4>2, StartsOne
        <5>2. 1 \in DOMAIN alKernel
          BY <1>3, <5>1, LenProperties, EmptySeq
        <5>3. k = alKernel[1]
          BY <3>3, <4>2, <5>1
        <5> QED BY <5>2, <5>3 DEF PidOnItsWay, Range
      <4> QED BY <1>1, <2>3, <3>3, <4>1, <4>2, MessagesAre
    <3> QED BY <3>2, <3>3 DEF PidOnItsWay
  <2>4. CASE RecibeFin
    <3>1. deKernel' = Tail(deKernel) /\ deKernel # <<>> /\ UNCHANGED <<alKernel, dueno>>
      BY <2>4 DEF RecibeFin, Llega
    <3>2. \A i \in DOMAIN deKernel' : i + 1 \in DOMAIN deKernel /\ deKernel'[i] = deKernel[i + 1]
      BY <1>1, <3>1, FirstMessage
    <3> QED BY <3>1, <3>2 DEF PidOnItsWay
  <2> QED BY <1>5, <2>1, <2>2, <2>3, <2>4, SentBy DEF SentGoes
<1> QED BY <1>4, <1>5

LEMMA AwaitedStep ==
  ASSUME Before, vida' = "sigue", Steps, ~Apurado
  PROVE  PidsAwaited'
<1>1. Found' /\ Waits' /\ Unsent' /\ OnItsWay' /\ PidOnce' /\ LastWaits'
  BY FoundStep, WaitsStep, UnsentStep, OnItsWayStep, PidOnceStep, LastWaitsStep
<1> QED BY <1>1 DEF PidsAwaited

LEMMA PidsInit == Init => PidsOwned /\ PidsAwaited
<1> SUFFICES ASSUME Init PROVE PidsOwned /\ PidsAwaited
  OBVIOUS
<1>1. DOMAIN <<>> = {} /\ Range(<<>>) = {}
  BY EmptySeq DEF Range
<1>2. Enviados = <<>> /\ alKernel = <<>> /\ deKernel = <<>>
  BY DEF Init, Enviados
<1>3. \A k \in Corridas : pid[k] = -1 /\ estado[k] = "libre" /\ ~PidOnItsWay(k)
  BY <1>1, <1>2 DEF Init, PidOnItsWay
<1>4. 1..corridas = {} /\ \A t \in Hilos : programa[t] = Null
  BY DEF Init
<1> QED BY <1>1, <1>2, <1>3, <1>4, Threads
    DEF PidsOwned, PidsAwaited, Found, Waits, Unsent, OnItsWay, PidOnce, LastWaits

----------------------------------------------------------------------------
(* All of it holds of every execution.                                     *)

LEMMA InvInit == Init => Inv
<1> SUFFICES ASSUME Init PROVE Inv
  OBVIOUS
<1>1. HandlerAt
  BY Threads DEF Init, HandlerAt
<1>2. WakeUps
  BY DEF Init, WakeUps
<1> QED BY <1>1, <1>2, TypeInit, SentInit, AloneInit, ListInit, OutlivedInit, PidsInit DEF Inv

LEMMA InvStep == Inv /\ Next => Inv'
<1> SUFFICES ASSUME Inv, Next PROVE Inv'
  OBVIOUS
<1>1. TypeInv /\ HandlerAt /\ SentOnce /\ ClearAlone /\ ListInv
  BY DEF Inv
<1>2. Steps
  BY <1>1, NextIsStep
<1>3. TypeInv' /\ HandlerAt' /\ SentOnce' /\ ClearAlone' /\ ListInv'
  BY <1>1, <1>2, TypeStep, HandlerAtStep, SentStep, AloneStep, ListStep
<1>4. ASSUME Clear' PROVE Clear /\ HandOwn /\ HandOwn' /\ vida' = "sigue"
  BY <1>1, <1>2, <1>3, <1>4, ClearBefore DEF Clear
<1>5. ASSUME Clear' PROVE Outlived' /\ WakeUps'
  <2>1. Outlived /\ WakeUps
    BY <1>4, <1>5 DEF Inv
  <2> QED BY <1>1, <1>2, <1>4, <1>5, <2>1, OutlivedStep, WakeUpsStep
<1>6. ASSUME Clear', ~Apurado PROVE PidsOwned' /\ (mutex' = Nadie => PidsAwaited')
  <2>1. Outlived /\ PidsOwned /\ (mutex = Nadie => PidsAwaited)
    BY <1>4, <1>6 DEF Inv
  <2>2. PidsOwned'
    BY <1>1, <1>2, <1>4, <1>6, <2>1, OwnedStep
  <2>3. ASSUME mutex' = Nadie PROVE PidsAwaited'
    <3>1. mutex = Nadie
      BY <1>1, <1>2, <1>4, <1>6, <2>3, DataStep DEF DataGoes
    <3>2. Before
      BY <1>1, <1>4, <1>6, <2>1, <3>1 DEF Before
    <3> QED BY <1>2, <1>4, <1>6, <3>2, AwaitedStep
  <2> QED BY <2>2, <2>3
<1> QED BY <1>3, <1>5, <1>6 DEF Inv

LEMMA InvStutter == Inv /\ UNCHANGED vars => Inv'
BY DEF Inv, vars, locales, lista, datos, proceso, conexion, TypeInv, HandlerAt, SentOnce, Enviados,
       ClearAlone, ListInv, Orden, Clear, Confundido, Outlived, FreedBy, FreedFirst, Unlinked,
       WakeUps, PidsOwned, PidsAwaited, Found, Waits, Unsent, OnItsWay, PidOnItsWay, PidOnce, LastWaits

LEMMA InvAlways == Spec => []Inv
BY InvInit, InvStep, InvStutter, PTL DEF Spec

----------------------------------------------------------------------------
(* The properties.                                                         *)

\* Every program, node, thread and message of a console has its type, and the
\* Kernel gets no more programs than were run (program_handler.c).
THEOREM TypeCorrect == Spec => []TypeOK
<1>1. Inv => TypeOK
  <2> SUFFICES ASSUME TypeInv, SentOnce PROVE TypeOK
    BY DEF Inv
  <2>1. /\ programs.length \in Int /\ {programs.head, programs.tail} \subseteq Nodos \cup {Null}
    BY DEF TypeInv, ListType, Links
  <2>2. \A t \in Hilos : {programa[t], nodo[t], sig[t]} \subseteq Nodos \cup {Null}
    BY DEF TypeInv, Links
  <2>3. \A k \in Corridas : /\ estado[k] \in {"libre", "activo", "terminado", "muerto"}
                            /\ pid[k] \in {-1} \cup Corridas /\ sem[k] \in Nat
    BY DEF TypeInv, Estados
  <2> QED BY <2>1, <2>2, <2>3, SentCount DEF TypeInv, TypeOK
<1> QED BY <1>1, InvAlways, PTL

\* mlist.c: appends with a tail read before the lock, removals and walks leave
\* the nodes one list in both directions, whoever makes them and in any order.
THEOREM ListStaysWhole == Spec => []ListWhole
<1>1. Inv => ListWhole
  <2> SUFFICES ASSUME ListInv, vida = "sigue", mutex = Nadie
               PROVE  Entera(programs) /\ vivos = Range(Adelante(programs))
    BY DEF Inv, ListWhole
  <2> QED BY LinkedIsWhole DEF ListInv, Orden
<1> QED BY <1>1, InvAlways, PTL

\* destroy_program: no program is freed while its handler may still use it.
THEOREM HandlersOutlive == Spec => []HandlersOutlived
<1>1. Inv => HandlersOutlived
  <2> SUFFICES ASSUME Inv, Clear, NEW k \in 1..corridas, estado[k] = "libre"
               PROVE  pc[k] \in {"nace", "desata", "recorre", "fin"}
    BY DEF Clear, HandlersOutlived
  <2> QED BY DEF Inv, Outlived, FreedBy
<1> QED BY <1>1, InvAlways, PTL

\* program_handler.c:47: no wake-up of a handler is lost.
THEOREM WakeUpsAreKept == Spec => []WakeUpsKept
<1>1. Inv => WakeUpsKept
  <2> SUFFICES ASSUME Inv, Clear, NEW k \in Corridas, estado[k] = "terminado"
               PROVE  \/ pc[k] \in {"nace", "lee", "mira", "informa", "recorre", "avisa", "une",
                                    "desata", "fin"}
                      \/ pc[k] = "espera"
                           /\ (sem[k] > 0 \/ (pc[Receptor] = "postea" /\ programa[Receptor] = k))
    BY DEF Clear, WakeUpsKept
  <2>1. pc[k] # "libera"
    BY Threads DEF Inv, ClearAlone, TypeInv
  <2>2. pc[k] # "no"
    BY Threads DEF Inv, SentOnce, Outlived, Clear, TypeInv
  <2>3. pc[k] \in {"no", "nace", "lee", "mira", "espera", "informa", "recorre",
                   "avisa", "une", "desata", "libera", "fin"}
    BY DEF Inv, HandlerAt
  <2> QED BY <2>1, <2>2, <2>3 DEF Inv, WakeUps
<1> QED BY <1>1, InvAlways, PTL

\* message_receiver.c:24: where runs are typed one after the other's pid, and no
\* handler was too early, each gets its own.
THEOREM EachItsOwnPid == Spec => []OwnPid
<1>1. Inv => OwnPid
  <2> SUFFICES ASSUME Inv, Clear, ~Apurado, NEW k \in Corridas, pid[k] # -1
               PROVE  dueno[pid[k]] = k
    BY DEF Clear, OwnPid
  <2> QED BY DEF Inv, PidsOwned
<1> QED BY <1>1, InvAlways, PTL

LEMMA ListChanges ==
  ASSUME TypeInv, Steps
  PROVE  programs' = programs \/ Appends \/ \E u \in Hilos : Unlinks(u)
<1>0. TypeInv
  OBVIOUS
<1> USE DEF locales, lista, datos, proceso, conexion, En, Va
<1>1. CASE Dies
  BY <1>0, <1>1, Threads DEF Dies, Muere
<1>2. CASE RunTyped
  BY <1>0, <1>2, Threads DEF RunTyped
<1>3. CASE AppendReads
  BY <1>0, <1>3, Threads DEF AppendReads
<1>4. CASE Appends
  BY <1>0, <1>4, Threads DEF Appends, AgregaNodo, Vuelve
<1>5. CASE Misses
  BY <1>0, <1>5, Threads DEF Misses, Vuelve
<1>6. CASE RecibeFin
  BY <1>0, <1>6, Threads DEF RecibeFin, Llega
<1>7. CASE KernelStarts
  BY <1>0, <1>7, Threads DEF KernelStarts
<1>8. ASSUME NEW p \in Nat, KillTyped(p) PROVE programs' = programs \/ Appends \/ \E u \in Hilos : Unlinks(u)
  BY <1>0, <1>8, Threads DEF KillTyped
<1>9. ASSUME NEW p \in Corridas, KernelEnds(p) PROVE programs' = programs \/ Appends \/ \E u \in Hilos : Unlinks(u)
  BY <1>0, <1>9, Threads DEF KernelEnds
<1>10. ASSUME NEW t \in {Terminal, Receptor},
              Goes(t) \/ Looks(t) \/ Apaga(t) \/ Junta(t) \/ Frees(t)
       PROVE  programs' = programs \/ Appends \/ \E u \in Hilos : Unlinks(u)
  <2>1. CASE Goes(t)
    BY <1>0, <1>10, <2>1, Threads DEF Goes, Pasa
  <2>2. CASE Looks(t)
    BY <1>0, <1>10, <2>2, Threads DEF Looks, MiraNodo
  <2>3. CASE Apaga(t)
    BY <1>0, <1>10, <2>3, Threads DEF Apaga
  <2>4. CASE Junta(t)
    BY <1>0, <1>10, <2>4, Threads DEF Junta
  <2>5. CASE Frees(t)
    BY <1>0, <1>10, <2>5, Threads DEF Frees, SinNodo
  <2> QED BY <1>10, <2>1, <2>2, <2>3, <2>4, <2>5
<1>11. ASSUME NEW t \in Hilos,
              Visits(t) \/ Leaves(t) \/ Unlinks(t) \/ (Quits(t) /\ t # Receptor /\ (t = Terminal <=> pc[t] = "quita"))
       PROVE  programs' = programs \/ Appends \/ \E u \in Hilos : Unlinks(u)
  <2>1. CASE Visits(t)
    BY <1>0, <1>11, <2>1, Threads DEF Visits, Visita
  <2>2. CASE Leaves(t)
    BY <1>0, <1>11, <2>2, Threads DEF Leaves, Vuelve
  <2>3. CASE Unlinks(t)
    BY <1>0, <1>11, <2>3, Threads DEF Unlinks, SinNodo
  <2>4. CASE (Quits(t) /\ t # Receptor /\ (t = Terminal <=> pc[t] = "quita"))
    BY <1>0, <1>11, <2>4, Threads DEF Quits, Quita
  <2> QED BY <1>11, <2>1, <2>2, <2>3, <2>4
<1>12. ASSUME NEW t \in Hilos, NEW k \in Corridas,
              Warns(t, k) \/ Joins(t, k)
       PROVE  programs' = programs \/ Appends \/ \E u \in Hilos : Unlinks(u)
  <2>1. CASE Warns(t, k)
    BY <1>0, <1>12, <2>1, Threads DEF Warns
  <2>2. CASE Joins(t, k)
    BY <1>0, <1>12, <2>2, Threads DEF Joins
  <2> QED BY <1>12, <2>1, <2>2
<1>13. ASSUME NEW k \in Corridas,
              GetsPid(k) \/ Marks(k) \/ Posts(k) \/ Toma(k) \/ Envia(k)
       PROVE  programs' = programs \/ Appends \/ \E u \in Hilos : Unlinks(u)
  <2>1. CASE GetsPid(k)
    BY <1>0, <1>13, <2>1, Threads DEF GetsPid, Llega
  <2>2. CASE Marks(k)
    BY <1>0, <1>13, <2>2, Threads DEF Marks
  <2>3. CASE Posts(k)
    BY <1>0, <1>13, <2>3, Threads DEF Posts, Vuelve
  <2>4. CASE Toma(k)
    BY <1>0, <1>13, <2>4, Threads DEF Toma
  <2>5. CASE Envia(k)
    BY <1>0, <1>13, <2>5, Threads DEF Envia
  <2> QED BY <1>13, <2>1, <2>2, <2>3, <2>4, <2>5
<1>14. ASSUME NEW h \in Corridas, NEW k \in Corridas,
              Checks(h, k) \/ Wakes(h, k)
       PROVE  programs' = programs \/ Appends \/ \E u \in Hilos : Unlinks(u)
  <2>1. CASE Checks(h, k)
    BY <1>0, <1>14, <2>1, Threads DEF Checks, Pasa
  <2>2. CASE Wakes(h, k)
    BY <1>0, <1>14, <2>2, Threads DEF Wakes
  <2> QED BY <1>14, <2>1, <2>2
<1> HIDE DEF locales, lista, datos, proceso, conexion, En, Va
<1> QED BY <1>0, <1>1, <1>2, <1>3, <1>4, <1>5, <1>6, <1>7, <1>8, <1>9, <1>10, <1>11, <1>12, <1>13, <1>14 DEF Steps

\* mlist_append, mlist_remove: every step that touches the list appends the run
\* at the end of the sequence its nodes stand for, or takes one node out of it.
THEOREM ListImplements == Spec => ImplementsMlist
<1>1. ASSUME Inv, Next, programs' # programs
      PROVE  \/ Adelante(programs') = Append(Adelante(programs), corridas)
             \/ \E k \in Range(Adelante(programs)) :
                  Adelante(programs') = Abstracta!Without(Adelante(programs), k)
  <2>1. TypeInv /\ ListInv /\ Steps
    BY <1>1, NextIsStep DEF Inv
  <2>2. CASE Appends
    BY <2>1, <2>2, AppendStep DEF Orden
  <2>3. ASSUME NEW t \in Hilos, Unlinks(t)
        PROVE  \E k \in Range(Adelante(programs)) :
                  Adelante(programs') = Abstracta!Without(Adelante(programs), k)
    <3>1. Orden' = Without(Orden, nodo[t]) /\ nodo[t] \in Range(Orden)
      BY <2>1, <2>3, UnlinkStep DEF ListInv, Unlinks
    <3>2. Abstracta!Without(Orden, nodo[t]) = Without(Orden, nodo[t])
      BY DEF Abstracta!Without, Abstracta!Kept, Abstracta!Rank, Abstracta!Cardinality,
             Without, Kept, Rank, Cardinality
    <3> QED BY <3>1, <3>2 DEF Orden
  <2> QED BY <1>1, <2>1, <2>2, <2>3, ListChanges
<1>2. ASSUME UNCHANGED vars PROVE programs' = programs
  BY <1>2 DEF vars, lista
<1>3. Inv /\ [Next]_vars =>
        [programs' # programs =>
           \/ Adelante(programs') = Append(Adelante(programs), corridas)
           \/ \E k \in Range(Adelante(programs)) :
                Adelante(programs') = Abstracta!Without(Adelante(programs), k)]_vars
  BY <1>1, <1>2
<1> QED BY <1>3, InvAlways, PTL DEF Spec, ImplementsMlist
=============================================================================
