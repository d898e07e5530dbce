---------------------------- MODULE CacheProofs ----------------------------
(***************************************************************************)
(* The cache never serves stale contents, never has two entries of a page, *)
(* never exceeds a program's share and evicts only when it is full, for    *)
(* any size and any share.  The invariants are inductive as they stand,    *)
(* with the types.                                                         *)
(***************************************************************************)
EXTENDS Cache, MlistProofs

TakenEntries == [pid : Programs, pageno : PageNumbers, page : Contents]
FreeEntries  == [pid : {-1}, pageno : {-1}, page : Contents \cup {0}]

LEMMA EntryTypes ==
  ASSUME TypeOK
  PROVE  /\ entries \in [Slots -> TakenEntries \cup FreeEntries]
         /\ Taken \subseteq Slots /\ FreeSlots \subseteq Slots
         /\ \A i \in Slots : i \in Taken <=> entries[i].pid # -1
         /\ \A i \in Taken : /\ entries[i] \in TakenEntries /\ Key(entries[i]) \in Keys
                             /\ entries[i].pid \in Programs /\ entries[i].pageno \in PageNumbers
         /\ \A i \in Slots : i \notin Taken => entries[i] \in FreeEntries
<1>1. entries \in [Slots -> TakenEntries \cup FreeEntries]
  BY DEF TypeOK, TakenEntries, FreeEntries
<1>2. \A i \in Slots : i \in FreeSlots <=> entries[i].pid = -1
  BY DEF FreeSlots, SlotsOf
<1>3. -1 \notin Programs
  BY KeysAssumption
<1>4. \A i \in Slots : entries[i].pid # -1 => entries[i] \in TakenEntries
  BY <1>1 DEF FreeEntries
<1>5. \A i \in Slots : entries[i].pid = -1 => entries[i] \in FreeEntries
  BY <1>1, <1>3 DEF TakenEntries
<1> QED BY <1>1, <1>2, <1>4, <1>5 DEF Taken, FreeSlots, SlotsOf, Key, Keys, TakenEntries

\* The lowest of the slots asked about.
LEMMA FirstIn ==
  ASSUME NEW S \in SUBSET Slots, S # {}
  PROVE  FirstOf(S) \in S
<1>1. S \in SUBSET Nat
  BY SizesAssumption DEF Slots
<1>2. \E x \in S : \A y \in S : x <= y
  BY <1>1, LeastNatural
<1> QED BY <1>2 DEF FirstOf

LEMMA SlotInRange == NewSlot \in Slots /\ (FreeSlots # {} => NewSlot \in FreeSlots)
<1>1. FreeSlots \in SUBSET Slots
  BY DEF FreeSlots, SlotsOf
<1>2. 1 \in Slots
  BY SizesAssumption DEF Slots
<1> QED BY <1>1, <1>2, FirstIn DEF NewSlot

----------------------------------------------------------------------------
(* cache_read only permutes the entries.                                   *)

\* Where the entry of slot j was before entry i was moved behind the others.
Was(i, j) == IF j < i THEN j ELSE IF j < NEntries THEN j + 1 ELSE i

LEMMA WasSlot ==
  ASSUME NEW i \in Slots
  PROVE  /\ \A j \in Slots : Was(i, j) \in Slots
         /\ \A j, k \in Slots : Was(i, j) = Was(i, k) => j = k
         /\ \A k \in Slots : \E j \in Slots : Was(i, j) = k
<1> USE SizesAssumption DEF Slots, Was
<1>1. \A j \in Slots : Was(i, j) \in Slots
  OBVIOUS
<1>2. \A j, k \in Slots : Was(i, j) = Was(i, k) => j = k
  OBVIOUS
<1>3. ASSUME NEW k \in Slots PROVE \E j \in Slots : Was(i, j) = k
  <2>1. CASE k < i
    BY <2>1
  <2>2. CASE k = i
    <3>1. NEntries \in Slots /\ Was(i, NEntries) = k
      BY <2>2
    <3> QED BY <3>1
  <2>3. CASE k > i
    <3>1. k - 1 \in Slots /\ Was(i, k - 1) = k
      BY <2>3
    <3> QED BY <3>1
  <2> QED BY <2>1, <2>2, <2>3
<1> QED BY <1>1, <1>2, <1>3

LEMMA MovedSlots ==
  ASSUME TypeOK, NEW i \in Slots
  PROVE  /\ MovedLast(i) \in [Slots -> TakenEntries \cup FreeEntries]
         /\ \A j \in Slots : MovedLast(i)[j] = entries[Was(i, j)]
<1> DEFINE E == TakenEntries \cup FreeEntries
           a == SubSeq(entries, 1, i - 1)
           b == SubSeq(entries, i + 1, NEntries)
           c == <<entries[i]>>
<1>0. /\ entries \in [Slots -> E] /\ NEntries \in Nat \ {0} /\ i \in Nat /\ 1 <= i
      /\ i <= NEntries /\ Slots = 1..NEntries
  BY EntryTypes, SizesAssumption DEF Slots
<1> HIDE DEF E
<1>1. a \in Seq(E) /\ Len(a) = i - 1 /\ \A j \in 1..(i - 1) : a[j] = entries[j]
  <2>1. \A j \in 1..(i - 1) : entries[j] \in E
    BY <1>0
  <2>2. 1 \in Int /\ i - 1 \in Int
    BY <1>0
  <2>3. /\ a \in Seq(E)
        /\ Len(a) = IF 1 <= i - 1 THEN (i - 1) - 1 + 1 ELSE 0
        /\ \A j \in 1..((i - 1) - 1 + 1) : a[j] = entries[1 + j - 1]
    BY <2>1, <2>2, SubSeqProperties
  <2> QED BY <1>0, <2>3
<1>2. b \in Seq(E) /\ Len(b) = NEntries - i /\ \A j \in 1..(NEntries - i) : b[j] = entries[i + j]
  <2>1. \A j \in (i + 1)..NEntries : entries[j] \in E
    BY <1>0
  <2>2. i + 1 \in Int /\ NEntries \in Int
    BY <1>0
  <2>3. /\ b \in Seq(E)
        /\ Len(b) = IF i + 1 <= NEntries THEN NEntries - (i + 1) + 1 ELSE 0
        /\ \A j \in 1..(NEntries - (i + 1) + 1) : b[j] = entries[i + 1 + j - 1]
    BY <2>1, <2>2, SubSeqProperties
  <2> QED BY <1>0, <2>3
<1>3. c \in Seq(E) /\ Len(c) = 1 /\ c[1] = entries[i]
  BY <1>0
<1> HIDE DEF a, b, c
<1>4. /\ a \o b \in Seq(E) /\ Len(a \o b) = NEntries - 1
      /\ \A j \in 1..(NEntries - 1) : (a \o b)[j] = IF j < i THEN entries[j] ELSE entries[j + 1]
  <2>1. /\ a \o b \in Seq(E) /\ Len(a \o b) = Len(a) + Len(b)
        /\ \A j \in 1..(Len(a) + Len(b)) :
             (a \o b)[j] = IF j <= Len(a) THEN a[j] ELSE b[j - Len(a)]
    BY <1>1, <1>2, ConcatProperties
  <2>2. Len(a) + Len(b) = NEntries - 1
    BY <1>0, <1>1, <1>2
  <2>3. ASSUME NEW j \in 1..(NEntries - 1)
        PROVE  (a \o b)[j] = IF j < i THEN entries[j] ELSE entries[j + 1]
    <3>1. CASE j < i
      <4>1. j <= Len(a) /\ j \in 1..(i - 1)
        BY <1>0, <1>1, <3>1
      <4> QED BY <1>1, <2>1, <2>2, <3>1, <4>1
    <3>2. CASE ~(j < i)
      <4>1. ~(j <= Len(a)) /\ j - (i - 1) \in 1..(NEntries - i) /\ i + (j - (i - 1)) = j + 1
        BY <1>0, <1>1, <3>2
      <4>2. b[j - (i - 1)] = entries[i + (j - (i - 1))]
        BY <1>2, <4>1
      <4>3. (a \o b)[j] = b[j - Len(a)]
        BY <2>1, <2>2, <4>1
      <4> QED BY <1>1, <3>2, <4>1, <4>2, <4>3
    <3> QED BY <3>1, <3>2
  <2> QED BY <2>1, <2>2, <2>3
<1>5. /\ MovedLast(i) = (a \o b) \o c
      /\ MovedLast(i) \in Seq(E) /\ Len(MovedLast(i)) = NEntries
      /\ \A j \in 1..NEntries :
           MovedLast(i)[j] = IF j <= NEntries - 1 THEN (a \o b)[j] ELSE c[j - (NEntries - 1)]
  <2>1. MovedLast(i) = (a \o b) \o c
    BY DEF MovedLast, a, b, c
  <2>2. /\ (a \o b) \o c \in Seq(E) /\ Len((a \o b) \o c) = Len(a \o b) + Len(c)
        /\ \A j \in 1..(Len(a \o b) + Len(c)) :
             ((a \o b) \o c)[j] = IF j <= Len(a \o b) THEN (a \o b)[j] ELSE c[j - Len(a \o b)]
    BY <1>3, <1>4, ConcatProperties
  <2>3. Len(a \o b) = NEntries - 1 /\ Len(a \o b) + Len(c) = NEntries
    BY <1>0, <1>3, <1>4
  <2> QED BY <2>1, <2>2, <2>3
<1>6. MovedLast(i) \in [Slots -> E]
  BY <1>0, <1>5, LenProperties
<1>7. ASSUME NEW j \in Slots PROVE MovedLast(i)[j] = entries[Was(i, j)]
  <2>1. CASE j < i
    <3>1. j \in 1..(NEntries - 1) /\ j <= NEntries - 1 /\ j \in 1..NEntries
      BY <1>0, <2>1
    <3> QED BY <1>4, <1>5, <2>1, <3>1 DEF Was
  <2>2. CASE ~(j < i) /\ j < NEntries
    <3>1. j \in 1..(NEntries - 1) /\ j <= NEntries - 1 /\ j \in 1..NEntries
      BY <1>0, <2>2
    <3> QED BY <1>4, <1>5, <2>2, <3>1 DEF Was
  <2>3. CASE j = NEntries
    <3>1. ~(j <= NEntries - 1) /\ j - (NEntries - 1) = 1 /\ j \in 1..NEntries
      BY <1>0, <2>3
    <3>2. MovedLast(i)[j] = c[1]
      BY <1>5, <3>1
    <3>3. Was(i, j) = i
      BY <1>0, <2>3 DEF Was
    <3> QED BY <1>3, <3>2, <3>3
  <2> QED BY <1>0, <2>1, <2>2, <2>3
<1> QED BY <1>6, <1>7 DEF E

LEMMA ReadMoves ==
  ASSUME TypeOK, NEW pid, NEW pageno, CacheRead(pid, pageno)
  PROVE  \E i \in Slots : /\ entries' \in [Slots -> TakenEntries \cup FreeEntries]
                          /\ \A j \in Slots : entries'[j] = entries[Was(i, j)]
                          /\ escrito' = escrito
<1>1. PICK i \in EntryOf(pid, pageno) : entries' = MovedLast(i)
  BY DEF CacheRead
<1>2. i \in Slots
  BY DEF EntryOf, SlotsOf
<1> QED BY <1>1, <1>2, MovedSlots DEF CacheRead

\* cache_write fills one slot: the page's own, an empty one, or the first.
LEMMA WriteFills ==
  ASSUME TypeOK, NEW pid \in Programs, NEW pageno \in PageNumbers, NEW page \in Contents,
         CacheWrite(pid, pageno, page)
  PROVE  \E i \in Slots :
           /\ entries' = [entries EXCEPT ![i] = [pid |-> pid, pageno |-> pageno, page |-> page]]
           /\ escrito' = [escrito EXCEPT ![<<pid, pageno>>] = page]
           /\ \/ i \in Taken /\ Key(entries[i]) = <<pid, pageno>>
              \/ /\ \A j \in Taken : Key(entries[j]) # <<pid, pageno>>
                 /\ Cardinality(SlotsOf(pid)) # Mepp
                 /\ FreeSlots # {} => i \notin Taken
<1> DEFINE S == EntryOf(pid, pageno)
           i == IF S # {} THEN FirstOf(S) ELSE NewSlot
<1>1. S \in SUBSET Slots
  BY DEF EntryOf, SlotsOf
<1>2. \A j \in S : j \in Taken /\ Key(entries[j]) = <<pid, pageno>>
  <2>1. pid # -1
    BY KeysAssumption
  <2> QED BY <2>1 DEF EntryOf, SlotsOf, Taken, FreeSlots, Key
<1>3. \A j \in Taken : Key(entries[j]) = <<pid, pageno>> => j \in S
  BY DEF EntryOf, SlotsOf, Taken, Key
<1>4. /\ entries' = [entries EXCEPT ![i] = [pid |-> pid, pageno |-> pageno, page |-> page]]
      /\ escrito' = [escrito EXCEPT ![<<pid, pageno>>] = page]
      /\ S # {} \/ MayHaveMore(pid)
  BY DEF CacheWrite
<1>5. CASE S # {}
  <2>1. i \in S
    BY <1>1, <1>5, FirstIn
  <2> QED BY <1>1, <1>2, <1>4, <2>1
<1>6. CASE S = {}
  <2>1. i \in Slots /\ (FreeSlots # {} => i \notin Taken)
    BY <1>6, SlotInRange DEF Taken
  <2> QED BY <1>3, <1>4, <1>6, <2>1 DEF MayHaveMore
<1> QED BY <1>5, <1>6

LEMMA FlushEmpties ==
  ASSUME TypeOK, CacheFlush
  PROVE  /\ entries' \in [Slots -> TakenEntries \cup FreeEntries] /\ escrito' = escrito
         /\ \A i \in Slots : entries'[i].pid = -1
<1>1. entries \in [Slots -> TakenEntries \cup FreeEntries]
  BY EntryTypes
<1>2. \A e \in TakenEntries \cup FreeEntries :
        /\ [e EXCEPT !.pid = -1, !.pageno = -1] \in FreeEntries
        /\ [e EXCEPT !.pid = -1, !.pageno = -1].pid = -1
  BY DEF TakenEntries, FreeEntries
<1> QED BY <1>1, <1>2 DEF CacheFlush

----------------------------------------------------------------------------
(* The invariants.                                                         *)

LEMMA TypeStep == TypeOK /\ Next => TypeOK'
<1> SUFFICES ASSUME TypeOK, Next PROVE TypeOK'
  OBVIOUS
<1>0. entries \in [Slots -> TakenEntries \cup FreeEntries] /\ escrito \in [Keys -> Contents \cup {0}]
  BY EntryTypes DEF TypeOK
<1>1. ASSUME entries' \in [Slots -> TakenEntries \cup FreeEntries],
             escrito' \in [Keys -> Contents \cup {0}]
      PROVE  TypeOK'
  BY <1>1 DEF TypeOK, TakenEntries, FreeEntries
<1>2. ASSUME NEW pid \in Programs, NEW pageno \in PageNumbers, NEW page \in Contents,
             CacheWrite(pid, pageno, page)
      PROVE  TypeOK'
  <2>1. PICK i \in Slots :
          /\ entries' = [entries EXCEPT ![i] = [pid |-> pid, pageno |-> pageno, page |-> page]]
          /\ escrito' = [escrito EXCEPT ![<<pid, pageno>>] = page]
    BY <1>2, WriteFills
  <2>2. [pid |-> pid, pageno |-> pageno, page |-> page] \in TakenEntries
    BY DEF TakenEntries
  <2>3. entries' \in [Slots -> TakenEntries \cup FreeEntries]
    BY <1>0, <2>1, <2>2
  <2>4. <<pid, pageno>> \in Keys
    BY DEF Keys
  <2>5. escrito' \in [Keys -> Contents \cup {0}]
    BY <1>0, <2>1, <2>4
  <2> QED BY <1>1, <2>3, <2>5
<1>3. ASSUME NEW pid, NEW pageno, CacheRead(pid, pageno) PROVE TypeOK'
  BY <1>0, <1>1, <1>3, ReadMoves
<1>4. CASE CacheFlush
  BY <1>0, <1>1, <1>4, FlushEmpties
<1> QED BY <1>2, <1>3, <1>4 DEF Next

LEMMA TakenNext == \A i : i \in Taken' <=> i \in Slots /\ entries'[i].pid # -1
BY DEF Taken, FreeSlots, SlotsOf

LEMMA HoldsStep == TypeOK /\ HoldsLastWritten /\ OneEntryPerPage /\ Next => HoldsLastWritten'
<1> SUFFICES ASSUME TypeOK, HoldsLastWritten, OneEntryPerPage, Next,
                    NEW j \in Slots, entries'[j].pid # -1
             PROVE  entries'[j].page = escrito'[Key(entries'[j])]
  BY TakenNext DEF HoldsLastWritten, Key
<1>0. entries \in [Slots -> TakenEntries \cup FreeEntries] /\ escrito \in [Keys -> Contents \cup {0}]
  BY EntryTypes DEF TypeOK
<1>1. ASSUME NEW pid \in Programs, NEW pageno \in PageNumbers, NEW page \in Contents,
             CacheWrite(pid, pageno, page)
      PROVE  entries'[j].page = escrito'[Key(entries'[j])]
  <2> DEFINE k == <<pid, pageno>>
  <2>1. PICK i \in Slots :
          /\ entries' = [entries EXCEPT ![i] = [pid |-> pid, pageno |-> pageno, page |-> page]]
          /\ escrito' = [escrito EXCEPT ![k] = page]
          /\ (i \in Taken /\ Key(entries[i]) = k) \/ \A l \in Taken : Key(entries[l]) # k
    BY <1>1, WriteFills
  <2>2. k \in Keys
    BY DEF Keys
  <2>3. CASE j = i
    <3>1. entries'[j] = [pid |-> pid, pageno |-> pageno, page |-> page]
      BY <1>0, <2>1, <2>3
    <3>2. entries'[j].page = page /\ Key(entries'[j]) = k
      BY <3>1 DEF Key
    <3> QED BY <1>0, <2>1, <2>2, <3>2
  <2>4. CASE j # i
    <3>1. entries'[j] = entries[j] /\ j \in Taken
      BY <1>0, <2>1, <2>4, EntryTypes
    <3>2. Key(entries[j]) # k
      BY <2>1, <2>4, <3>1 DEF OneEntryPerPage
    <3> QED BY <1>0, <2>1, <3>1, <3>2, EntryTypes DEF HoldsLastWritten
  <2> QED BY <2>3, <2>4
<1>2. ASSUME NEW pid, NEW pageno, CacheRead(pid, pageno)
      PROVE  entries'[j].page = escrito'[Key(entries'[j])]
  <2>1. PICK i \in Slots : entries'[j] = entries[Was(i, j)] /\ escrito' = escrito
    BY <1>2, ReadMoves
  <2>2. Was(i, j) \in Taken
    BY <2>1, WasSlot, EntryTypes
  <2> QED BY <2>1, <2>2 DEF HoldsLastWritten
<1>3. CASE CacheFlush
  BY <1>3, FlushEmpties
<1> QED BY <1>1, <1>2, <1>3 DEF Next

LEMMA OneEntryStep == TypeOK /\ OneEntryPerPage /\ Next => OneEntryPerPage'
<1> SUFFICES ASSUME TypeOK, OneEntryPerPage, Next, NEW j \in Slots, NEW l \in Slots, j # l,
                    entries'[j].pid # -1, entries'[l].pid # -1
             PROVE  Key(entries'[j]) # Key(entries'[l])
  BY TakenNext DEF OneEntryPerPage, Key
<1>0. entries \in [Slots -> TakenEntries \cup FreeEntries]
  BY EntryTypes
<1>1. ASSUME NEW pid \in Programs, NEW pageno \in PageNumbers, NEW page \in Contents,
             CacheWrite(pid, pageno, page)
      PROVE  Key(entries'[j]) # Key(entries'[l])
  <2> DEFINE k == <<pid, pageno>>
  <2>1. PICK i \in Slots :
          /\ entries' = [entries EXCEPT ![i] = [pid |-> pid, pageno |-> pageno, page |-> page]]
          /\ (i \in Taken /\ Key(entries[i]) = k) \/ \A m \in Taken : Key(entries[m]) # k
    BY ZenonT(30), <1>1, WriteFills
  <2>2. Key(entries'[i]) = k
    BY <1>0, <2>1 DEF Key
  <2>3. \A m \in Slots : m # i => entries'[m] = entries[m]
    BY <1>0, <2>1
  <2>4. \A m \in Slots : m # i /\ entries[m].pid # -1 => Key(entries[m]) # k
    BY <2>1, EntryTypes DEF OneEntryPerPage
  <2>5. CASE j # i /\ l # i
    BY <2>3, <2>5, EntryTypes DEF OneEntryPerPage
  <2> QED BY <2>2, <2>3, <2>4, <2>5
<1>2. ASSUME NEW pid, NEW pageno, CacheRead(pid, pageno)
      PROVE  Key(entries'[j]) # Key(entries'[l])
  <2>1. PICK i \in Slots : entries'[j] = entries[Was(i, j)] /\ entries'[l] = entries[Was(i, l)]
    BY <1>2, ReadMoves
  <2>2. Was(i, j) \in Taken /\ Was(i, l) \in Taken /\ Was(i, j) # Was(i, l)
    BY <2>1, WasSlot, EntryTypes
  <2> QED BY <2>1, <2>2 DEF OneEntryPerPage
<1>3. CASE CacheFlush
  BY <1>3, FlushEmpties
<1> QED BY <1>1, <1>2, <1>3 DEF Next

LEMMA SlotsFinite ==
  ASSUME NEW pid
  PROVE  IsFiniteSet(SlotsOf(pid)) /\ Cardinality(SlotsOf(pid)) \in Nat
<1>1. IsFiniteSet(Slots)
  BY SizesAssumption, CountTo DEF Slots
<1>2. SlotsOf(pid) \in SUBSET Slots
  BY DEF SlotsOf
<1> QED BY <1>1, <1>2, FS_Subset, FS_CardinalityType

LEMMA ShareStep == TypeOK /\ MaxPerProgram /\ Next => MaxPerProgram'
<1> SUFFICES ASSUME TypeOK, MaxPerProgram, Next, NEW q \in Programs
             PROVE  Cardinality(SlotsOf(q)') <= Mepp
  BY DEF MaxPerProgram
<1>0. /\ entries \in [Slots -> TakenEntries \cup FreeEntries]
      /\ IsFiniteSet(SlotsOf(q)) /\ Cardinality(SlotsOf(q)) \in Nat
      /\ Cardinality(SlotsOf(q)) <= Mepp /\ Mepp \in Nat
      /\ \A j : j \in SlotsOf(q)' <=> j \in Slots /\ entries'[j].pid = q
  BY EntryTypes, SlotsFinite, SizesAssumption DEF MaxPerProgram, SlotsOf
\* No more slots than before.
<1>1. ASSUME SlotsOf(q)' \subseteq SlotsOf(q) PROVE Cardinality(SlotsOf(q)') <= Mepp
  <2>1. IsFiniteSet(SlotsOf(q)') /\ Cardinality(SlotsOf(q)') <= Cardinality(SlotsOf(q))
    BY <1>0, <1>1, FS_Subset
  <2>2. Cardinality(SlotsOf(q)') \in Nat
    BY <2>1, FS_CardinalityType
  <2> QED BY <1>0, <2>1, <2>2
<1>2. ASSUME NEW pid \in Programs, NEW pageno \in PageNumbers, NEW page \in Contents,
             CacheWrite(pid, pageno, page)
      PROVE  Cardinality(SlotsOf(q)') <= Mepp
  <2>1. PICK i \in Slots :
          /\ entries' = [entries EXCEPT ![i] = [pid |-> pid, pageno |-> pageno, page |-> page]]
          /\ \/ i \in Taken /\ Key(entries[i]) = <<pid, pageno>>
             \/ Cardinality(SlotsOf(pid)) # Mepp
    BY ZenonT(30), <1>2, WriteFills
  <2>2. entries'[i].pid = pid /\ \A m \in Slots : m # i => entries'[m] = entries[m]
    BY <1>0, <2>1
  <2>3. CASE q # pid
    <3>1. SlotsOf(q)' \subseteq SlotsOf(q)
      BY <1>0, <2>2, <2>3 DEF SlotsOf
    <3> QED BY <1>1, <3>1
  <2>4. CASE q = pid /\ i \in Taken /\ Key(entries[i]) = <<pid, pageno>>
    <3>1. entries[i].pid = pid
      BY <2>4 DEF Key
    <3>2. SlotsOf(q)' \subseteq SlotsOf(q)
      BY <1>0, <2>2, <2>4, <3>1 DEF SlotsOf
    <3> QED BY <1>1, <3>2
  <2>5. CASE q = pid /\ Cardinality(SlotsOf(pid)) # Mepp
    <3>1. SlotsOf(q)' \subseteq SlotsOf(q) \cup {i}
      BY <1>0, <2>2 DEF SlotsOf
    <3>2. /\ IsFiniteSet(SlotsOf(q) \cup {i})
          /\ Cardinality(SlotsOf(q) \cup {i})
               \in {Cardinality(SlotsOf(q)), Cardinality(SlotsOf(q)) + 1}
      BY <1>0, FS_AddElement
    <3>3. /\ IsFiniteSet(SlotsOf(q)')
          /\ Cardinality(SlotsOf(q)') <= Cardinality(SlotsOf(q) \cup {i})
      BY <3>1, <3>2, FS_Subset
    <3>4. Cardinality(SlotsOf(q)') \in Nat
      BY <3>3, FS_CardinalityType
    <3>5. \A a, b, c, m \in Nat : a <= b /\ b \in {c, c + 1} /\ c <= m /\ c # m => a <= m
      OBVIOUS
    <3>6. Cardinality(SlotsOf(q) \cup {i}) \in Nat
      BY <3>2, FS_CardinalityType
    <3> QED BY <1>0, <2>5, <3>2, <3>3, <3>4, <3>5, <3>6
  <2> QED BY <2>1, <2>3, <2>4, <2>5
\* As many slots as before, at other places.
<1>3. ASSUME NEW pid, NEW pageno, CacheRead(pid, pageno)
      PROVE  Cardinality(SlotsOf(q)') <= Mepp
  <2>1. PICK i \in Slots : \A j \in Slots : entries'[j] = entries[Was(i, j)]
    BY <1>3, ReadMoves
  <2> DEFINE T == SlotsOf(q)'
             f == [j \in T |-> Was(i, j)]
  <2>2. \A j \in T : Was(i, j) \in SlotsOf(q)
    BY <1>0, <2>1, WasSlot DEF SlotsOf
  <2>3. \A j, k \in T : Was(i, j) = Was(i, k) => j = k
    BY <1>0, WasSlot
  <2> HIDE DEF T
  <2>4. f \in Injection(T, SlotsOf(q))
    <3>1. f \in [T -> SlotsOf(q)]
      BY <2>2
    <3>2. IsInjective(f)
      BY <2>3 DEF IsInjective
    <3> QED BY <3>1, <3>2 DEF Injection
  <2> HIDE DEF f
  <2>5. IsFiniteSet(T) /\ Cardinality(T) <= Cardinality(SlotsOf(q))
    BY <1>0, <2>4, FS_Injection
  <2>6. Cardinality(T) \in Nat
    BY <2>5, FS_CardinalityType
  <2>7. Cardinality(T) <= Mepp
    BY <1>0, <2>5, <2>6
  <2> QED BY <2>7 DEF T
<1>4. CASE CacheFlush
  <2>1. q # -1
    BY KeysAssumption
  <2>2. SlotsOf(q)' \subseteq SlotsOf(q)
    BY <1>0, <1>4, <2>1, FlushEmpties
  <2> QED BY <1>1, <2>2
<1> QED BY <1>2, <1>3, <1>4 DEF Next

CacheInv == TypeOK /\ HoldsLastWritten /\ OneEntryPerPage /\ MaxPerProgram

LEMMA InitCacheInv == Init => CacheInv
<1> SUFFICES ASSUME Init PROVE CacheInv
  OBVIOUS
<1>1. \A i \in Slots : entries[i] = Empty /\ entries[i].pid = -1
  BY DEF Init, Empty
<1>2. TypeOK
  BY DEF Init, TypeOK, Empty
<1>3. Taken = {}
  BY <1>1 DEF Taken, FreeSlots, SlotsOf
<1>4. \A q \in Programs : SlotsOf(q) = {}
  <2>1. \A q \in Programs : q # -1
    BY KeysAssumption
  <2> QED BY <1>1, <2>1 DEF SlotsOf
<1>5. MaxPerProgram
  BY <1>4, FS_EmptySet, SizesAssumption DEF MaxPerProgram
<1> QED BY <1>2, <1>3, <1>5 DEF CacheInv, HoldsLastWritten, OneEntryPerPage

LEMMA CacheInvStep == CacheInv /\ [Next]_vars => CacheInv'
<1>1. ASSUME CacheInv, UNCHANGED vars PROVE CacheInv'
  BY <1>1 DEF CacheInv, vars, TypeOK, HoldsLastWritten, OneEntryPerPage, MaxPerProgram, Taken,
              FreeSlots, SlotsOf, Key
<1>2. ASSUME CacheInv, Next PROVE CacheInv'
  BY <1>2, TypeStep, HoldsStep, OneEntryStep, ShareStep DEF CacheInv
<1> QED BY <1>1, <1>2

\* Every entry is empty or a page of a program, whatever is written, read and
\* flushed in whatever order.
THEOREM CacheTypes == Spec => []TypeOK
<1>1. CacheInv => TypeOK
  BY DEF CacheInv
<1> QED BY InitCacheInv, CacheInvStep, <1>1, PTL DEF Spec

\* No hit is stale: cache_write updates the entry of the page wherever
\* cache_read's list_remove and list_add have moved it.
THEOREM NoStaleHit == Spec => []HoldsLastWritten
<1>1. CacheInv => HoldsLastWritten
  BY DEF CacheInv
<1> QED BY InitCacheInv, CacheInvStep, <1>1, PTL DEF Spec

\* cache_write looks for the page in every slot before it takes another, so no
\* page has two entries.
THEOREM OneEntry == Spec => []OneEntryPerPage
<1>1. CacheInv => OneEntryPerPage
  BY DEF CacheInv
<1> QED BY InitCacheInv, CacheInvStep, <1>1, PTL DEF Spec

\* mepp is never exceeded, although cache_write tests it with an equality: no
\* step gives a program two entries at once.
THEOREM ShareKept == Spec => []MaxPerProgram
<1>1. CacheInv => MaxPerProgram
  BY DEF CacheInv
<1> QED BY InitCacheInv, CacheInvStep, <1>1, PTL DEF Spec

----------------------------------------------------------------------------
(* What is evicted, and when.                                              *)

LEMMA EvictsStep ==
  ASSUME CacheInv, Next
  PROVE  Cached \subseteq Cached' \/ Cached' = {} \/ FreeSlots = {}
<1>0. /\ entries \in [Slots -> TakenEntries \cup FreeEntries] /\ TypeOK
      /\ Cached = {Key(entries[i]) : i \in Taken}
      /\ Cached' = {Key(entries'[i]) : i \in Taken'}
  BY EntryTypes DEF CacheInv, Cached, Taken, Key
<1>1. ASSUME \A i \in Taken : \E j \in Taken' : Key(entries'[j]) = Key(entries[i])
      PROVE  Cached \subseteq Cached'
  BY <1>0, <1>1
<1>2. ASSUME NEW pid \in Programs, NEW pageno \in PageNumbers, NEW page \in Contents,
             CacheWrite(pid, pageno, page), FreeSlots # {}
      PROVE  Cached \subseteq Cached'
  <2>1. PICK i \in Slots :
          /\ entries' = [entries EXCEPT ![i] = [pid |-> pid, pageno |-> pageno, page |-> page]]
          /\ (i \in Taken /\ Key(entries[i]) = <<pid, pageno>>) \/ i \notin Taken
    BY <1>0, <1>2, WriteFills
  <2>2. Key(entries'[i]) = <<pid, pageno>> /\ entries'[i].pid # -1
        /\ \A m \in Slots : m # i => entries'[m] = entries[m]
    BY <1>0, <2>1, KeysAssumption DEF Key
  <2>3. \A m \in Taken : m \in Taken' /\ Key(entries'[m]) = Key(entries[m])
    BY <1>0, <2>1, <2>2, TakenNext, EntryTypes
  <2> QED BY <1>1, <2>3
<1>3. ASSUME NEW pid, NEW pageno, CacheRead(pid, pageno) PROVE Cached \subseteq Cached'
  <2>1. PICK i \in Slots : \A j \in Slots : entries'[j] = entries[Was(i, j)]
    BY <1>0, <1>3, ReadMoves
  <2> SUFFICES ASSUME NEW m \in Taken
               PROVE  \E j \in Taken' : Key(entries'[j]) = Key(entries[m])
    BY <1>1
  <2>2. PICK j \in Slots : Was(i, j) = m
    BY <1>0, WasSlot, EntryTypes
  <2>3. entries'[j] = entries[m] /\ entries[m].pid # -1
    BY <1>0, <2>1, <2>2, EntryTypes
  <2> QED BY <2>3, TakenNext
<1>4. ASSUME CacheFlush PROVE Cached' = {}
  <2>1. \A i \in Slots : entries'[i].pid = -1
    BY <1>0, <1>4, FlushEmpties
  <2>2. \A i : i \notin Taken'
    BY <2>1, TakenNext
  <2> QED BY <1>0, <2>2
<1> QED BY <1>2, <1>3, <1>4 DEF Next

\* Short of a flush, a page loses its entry only to a write into a full cache.
THEOREM RoomUsedFirst == Spec => KeptWhileRoom
<1> DEFINE Evicts == Cached \subseteq Cached' \/ Cached' = {} \/ FreeSlots = {}
<1>1. CacheInv /\ [Next]_vars => [Evicts]_vars
  BY EvictsStep
<1>2. KeptWhileRoom <=> [][Evicts]_vars
  BY DEF KeptWhileRoom
<1> HIDE DEF Evicts
<1> QED BY InitCacheInv, CacheInvStep, <1>1, <1>2, PTL DEF Spec
=============================================================================
