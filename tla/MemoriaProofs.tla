--------------------------- MODULE MemoriaProofs ---------------------------
(***************************************************************************)
(* The frames of the programs: each page has one frame, no frame is lost,  *)
(* and the threads that share the page table without a lock never use a    *)
(* frame that is not, or no longer, the one they looked up.                *)
(***************************************************************************)
EXTENDS Memoria, FiniteSetTheorems, FunctionTheorems, TLAPS

----------------------------------------------------------------------------
(* Types.                                                                  *)

Usrpids == 0..(UsrpidValues - 1)
Entradas == [pid : Usrpids, page : Nat]

Hilo == [at : {"idle", "start", "assign", "number", "clear", "zero", "find", "copy", "answered"},
         op : {"none", "OP_ME_INIPRO", "OP_ME_FINPRO", "OP_ME_SOLBYTPAG", "OP_ME_ALMBYTPAG"},
         usrpid : Usrpids, pages : Nat, page : Nat, offset : Nat, size : Nat,
         datos : Seq(Bytes), i : 0..Marcos, frame : Rows, res : {0, 1}]

Programa == [estado : Estados, size : Nat, pag : Nat, huerfano : BOOLEAN]

\* A thread within the table has a row, and the bytes it is to write.
Steady(thread) ==
  /\ thread.at \in {"number", "zero"} => thread.i < Marcos
  /\ thread.at = "number" => thread.pages > 0
  /\ thread.op = "OP_ME_ALMBYTPAG" /\ thread.at \in {"find", "copy"} =>
       DOMAIN thread.datos = 1..thread.size

MemType ==
  /\ page_table \in [Rows -> Entradas]
  /\ main \in [0..(Marcos * MarcoSize - 1) -> Bytes]
  /\ hilo \in [Clients -> Hilo] /\ \A c \in Clients : Steady(hilo[c])
  /\ programa \in [Pids -> Programa]
  /\ en_cpu \in [Cpus -> Pids \cup {0}]

LEMMA Sizes ==
  /\ Marcos \in Nat \ {0} /\ MarcoSize \in Nat \ {0} /\ StackSize \in Nat \ {0}
  /\ VarSize \in Nat \ {0} /\ UsrpidValues \in Nat \ {0} /\ MaxPids \in Nat
  /\ \A size \in Nat : PagesCode(size) \in Nat
  /\ \A p \in Pids : p \in Nat \ {0} /\ Usrpid(p) \in Usrpids
  /\ 0 \in Rows /\ 0 \in Usrpids /\ \A r \in Rows : r \in Nat /\ r < Marcos
  /\ Kernel \in Clients /\ Cpus \subseteq Clients /\ Kernel \notin Cpus
  /\ \A c \in Clients : c = Kernel \/ c \in Cpus
<1> USE SizesAssumption, BoundsAssumption, ClientsAssumption
<1>1. \A size \in Nat : PagesCode(size) \in Nat
  BY DEF PagesCode
<1>2. \A p \in Pids : p \in Nat \ {0} /\ Usrpid(p) \in Usrpids
  BY DEF Pids, Usrpid, Usrpids
<1>3. 0 \in Rows /\ 0 \in Usrpids /\ \A r \in Rows : r \in Nat /\ r < Marcos
  BY DEF Rows, Usrpids
<1> QED BY <1>1, <1>2, <1>3 DEF Clients

LEMMA ByteValues ==
  /\ Nobody \in Bytes /\ 0 \notin Values
  /\ \A p \in Pids, a \in Nat, v \in Values \cup {0} : <<p, a, v>> \in Bytes
BY BoundsAssumption DEF Bytes, Nobody

\* A sequence is a function on its positions.
LEMMA AsSequence ==
  ASSUME NEW S, NEW n \in Nat, NEW f \in [1..n -> S]
  PROVE  f \in Seq(S) /\ DOMAIN f = 1..n
OBVIOUS

LEMMA InSequence ==
  ASSUME NEW S, NEW s \in Seq(S), NEW k \in DOMAIN s
  PROVE  s[k] \in S
OBVIOUS

LEMMA TextBytes ==
  ASSUME NEW p \in Pids, NEW a \in Nat, NEW n \in Nat
  PROVE  Text(p, a, n) \in Seq(Bytes) /\ DOMAIN Text(p, a, n) = 1..n
<1>1. \A k \in 1..n : <<p, a + k - 1, 0>> \in Bytes
  <2>1. \A k \in 1..n : a + k - 1 \in Nat
    OBVIOUS
  <2> QED BY <2>1, ByteValues
<1>2. Text(p, a, n) \in [1..n -> Bytes]
  BY <1>1 DEF Text
<1> QED BY <1>2, AsSequence

LEMMA IdleType == Idle \in Hilo /\ Steady(Idle) /\ Idle.at = "idle" /\ Idle.op = "none" /\ Idle.i = 0
<1>1. <<>> \in Seq(Bytes)
  OBVIOUS
<1>2. 0 \in 0..Marcos
  BY Sizes
<1> QED BY <1>1, <1>2, Sizes DEF Idle, Hilo, Steady

\* A new request of a client.
LEMMA RequestType ==
  ASSUME MemType, NEW c \in Clients, NEW r \in Hilo, Steady(r), Request(c, r)
  PROVE  /\ hilo' \in [Clients -> Hilo] /\ \A d \in Clients : Steady(hilo'[d])
         /\ hilo'[c] = r /\ \A d \in Clients : d # c => hilo'[d] = hilo[d]
BY DEF MemType, Request

LEMMA TakesAnswerType ==
  ASSUME MemType, NEW c \in Clients, TakesAnswer(c)
  PROVE  /\ hilo' \in [Clients -> Hilo] /\ \A d \in Clients : Steady(hilo'[d])
         /\ hilo'[c] = Idle /\ \A d \in Clients : d # c => hilo'[d] = hilo[d]
BY IdleType DEF MemType, TakesAnswer

LEMMA BecomesType ==
  ASSUME MemType, NEW p \in Pids, NEW e \in Estados, Becomes(p, e)
  PROVE  /\ programa' \in [Pids -> Programa]
         /\ programa'[p] = [programa[p] EXCEPT !.estado = e]
         /\ programa'[p].estado = e /\ programa'[p].size = programa[p].size
         /\ programa'[p].pag = programa[p].pag
         /\ \A q \in Pids : q # p => programa'[q] = programa[q]
BY DEF MemType, Becomes, Programa

LEMMA Remains ==
  ASSUME NEW a \in Nat, NEW m \in Nat \ {0}
  PROVE  /\ a \div m \in Nat /\ a % m \in Nat /\ a % m < m
         /\ a = m * (a \div m) + (a % m)
OBVIOUS

LEMMA Product == ASSUME NEW a \in Nat, NEW b \in Nat PROVE a * b \in Nat
OBVIOUS

LEMMA DivBelow ==
  ASSUME NEW a \in Nat, NEW m \in Nat \ {0}, NEW b \in Nat, a < b * m
  PROVE  a \div m < b
BY Remains

\* The page of a byte of the text is one of the text's.
LEMMA PageOfText ==
  ASSUME NEW size \in Nat, NEW a \in Nat, a < size
  PROVE  a \div MarcoSize < PagesCode(size)
<1> DEFINE d == size \div MarcoSize
           e == size % MarcoSize
<1>1. /\ MarcoSize \in Nat \ {0} /\ d \in Nat /\ e \in Nat /\ e < MarcoSize
      /\ size = MarcoSize * d + e /\ PagesCode(size) = IF e # 0 THEN d + 1 ELSE d
  <2>1. MarcoSize \in Nat \ {0}
    BY Sizes
  <2>2. d \in Nat /\ e \in Nat /\ e < MarcoSize /\ size = MarcoSize * d + e
    BY <2>1, Remains
  <2>3. PagesCode(size) = d + (IF e # 0 THEN 1 ELSE 0)
    BY DEF PagesCode
  <2> HIDE DEF d, e
  <2> QED BY <2>1, <2>2, <2>3
<1>2. \A m, x, y, z \in Nat : z = m * x + y /\ y < m => z < (x + 1) * m
  OBVIOUS
<1>3. size < (d + 1) * MarcoSize /\ (e = 0 => size = d * MarcoSize)
  BY <1>1, <1>2
<1> HIDE DEF d, e
<1>4. CASE e = 0
  BY <1>1, <1>3, <1>4, DivBelow
<1>5. CASE e # 0
  <2>1. a < (d + 1) * MarcoSize /\ d + 1 \in Nat
    BY <1>1, <1>3
  <2> QED BY <1>1, <1>5, <2>1, DivBelow
<1> QED BY <1>4, <1>5

\* The page of a variable is one of the stack's.
LEMMA PageOfStack ==
  ASSUME MemType, NEW p \in Pids, NEW position \in Variables
  PROVE  /\ position \in Nat /\ position % MarcoSize \in Nat
         /\ StackPage(p, position) \in Nat /\ StackPage(p, position) < PagesOf(p)
<1>1. /\ position \in Nat /\ position < StackSize * MarcoSize
      /\ programa[p].size \in Nat /\ PagesCode(programa[p].size) \in Nat
  <2>1. programa[p].size \in Nat /\ PagesCode(programa[p].size) \in Nat
    BY Sizes DEF MemType, Programa
  <2>2. StackSize * MarcoSize \in Nat /\ VarSize \in Nat \ {0}
    BY Sizes, Product
  <2>3. position \in 0..(StackSize * MarcoSize - VarSize)
    BY DEF Variables
  <2> QED BY <2>1, <2>2, <2>3
<1>2. position \div MarcoSize \in Nat /\ position % MarcoSize \in Nat
  BY <1>1, Sizes, Remains
<1>3. position \div MarcoSize < StackSize
  BY <1>1, Sizes, DivBelow
<1> QED BY <1>1, <1>2, <1>3, Sizes DEF StackPage, PagesOf

----------------------------------------------------------------------------
(* What each step that sends a request does.                               *)

\* The thread of c has been given a request for a page.
AsksFor(c, op, p, page) ==
  /\ hilo' \in [Clients -> Hilo] /\ \A d \in Clients : Steady(hilo'[d])
  /\ \A d \in Clients : d # c => hilo'[d] = hilo[d]
  /\ hilo'[c].at = "find" /\ hilo'[c].op = op /\ hilo'[c].usrpid = Usrpid(p)
  /\ hilo'[c].page = page /\ hilo'[c].i = 0
  /\ UNCHANGED <<page_table, main, programa, en_cpu>>

LEMMA FetchAsks ==
  ASSUME MemType, NEW c \in Cpus, en_cpu[c] # 0,
         NEW first \in 1..programa[en_cpu[c]].size, NEW size \in 1..programa[en_cpu[c]].size,
         FetchesInstruction(c, first - 1, size)
  PROVE  \E page \in Nat : /\ AsksFor(c, "OP_ME_SOLBYTPAG", en_cpu[c], page)
                           /\ page < PagesOf(en_cpu[c])
<1> DEFINE p == en_cpu[c]
           a == first - 1
           r == [Idle EXCEPT !.at = "find", !.op = "OP_ME_SOLBYTPAG",
                   !.usrpid = Usrpid(p), !.page = a \div MarcoSize,
                   !.offset = a % MarcoSize, !.size = size]
<1>1. c \in Clients /\ p \in Pids /\ Usrpid(p) \in Usrpids /\ programa[p].size \in Nat
  BY Sizes DEF MemType, Programa
<1>2. a \in Nat /\ size \in Nat /\ a < programa[p].size
  BY <1>1
<1>3. a \div MarcoSize \in Nat /\ a % MarcoSize \in Nat
  BY <1>2, Sizes, Remains
<1>4. a \div MarcoSize < PagesOf(p)
  <2>1. a \div MarcoSize < PagesCode(programa[p].size)
    BY <1>1, <1>2, PageOfText
  <2> QED BY <1>1, <1>3, <2>1, Sizes DEF PagesOf
<1>5. r \in Hilo /\ Steady(r)
  BY <1>1, <1>2, <1>3, IdleType DEF Hilo, Steady
<1>6. Request(c, r) /\ UNCHANGED <<page_table, main, programa, en_cpu>>
  BY DEF FetchesInstruction
<1>7. /\ r.at = "find" /\ r.op = "OP_ME_SOLBYTPAG" /\ r.usrpid = Usrpid(p)
      /\ r.page = a \div MarcoSize /\ r.i = 0
  BY IdleType DEF Hilo
<1> HIDE DEF r
<1>8. /\ hilo' \in [Clients -> Hilo] /\ \A d \in Clients : Steady(hilo'[d])
      /\ hilo'[c] = r /\ \A d \in Clients : d # c => hilo'[d] = hilo[d]
  BY <1>1, <1>5, <1>6, RequestType
<1> QED BY <1>3, <1>4, <1>6, <1>7, <1>8 DEF AsksFor

LEMMA ReadAsks ==
  ASSUME MemType, NEW c \in Cpus, NEW position \in Variables, ReadsVariable(c, position)
  PROVE  /\ AsksFor(c, "OP_ME_SOLBYTPAG", en_cpu[c], StackPage(en_cpu[c], position))
         /\ StackPage(en_cpu[c], position) < PagesOf(en_cpu[c])
         /\ en_cpu[c] # 0
<1> DEFINE p == en_cpu[c]
           r == [Idle EXCEPT !.at = "find", !.op = "OP_ME_SOLBYTPAG",
                   !.usrpid = Usrpid(p), !.page = StackPage(p, position),
                   !.offset = position % MarcoSize, !.size = VarSize]
<1>1. c \in Clients /\ p \in Pids /\ Usrpid(p) \in Usrpids /\ p # 0 /\ VarSize \in Nat
  BY Sizes DEF MemType, ReadsVariable, Runs
<1>2. /\ position % MarcoSize \in Nat /\ StackPage(p, position) \in Nat
      /\ StackPage(p, position) < PagesOf(p)
  BY <1>1, PageOfStack
<1>5. r \in Hilo /\ Steady(r)
  BY <1>1, <1>2, IdleType DEF Hilo, Steady
<1>6. Request(c, r) /\ UNCHANGED <<page_table, main, programa, en_cpu>>
  BY DEF ReadsVariable
<1>7. /\ r.at = "find" /\ r.op = "OP_ME_SOLBYTPAG" /\ r.usrpid = Usrpid(p)
      /\ r.page = StackPage(p, position) /\ r.i = 0
  BY IdleType DEF Hilo
<1> HIDE DEF r
<1>8. /\ hilo' \in [Clients -> Hilo] /\ \A d \in Clients : Steady(hilo'[d])
      /\ hilo'[c] = r /\ \A d \in Clients : d # c => hilo'[d] = hilo[d]
  BY <1>1, <1>5, <1>6, RequestType
<1> QED BY <1>1, <1>2, <1>6, <1>7, <1>8 DEF AsksFor

LEMMA AssignAsks ==
  ASSUME MemType, NEW c \in Cpus, NEW position \in Variables, NEW value \in Values,
         AssignsVariable(c, position, value)
  PROVE  /\ AsksFor(c, "OP_ME_ALMBYTPAG", en_cpu[c], StackPage(en_cpu[c], position))
         /\ StackPage(en_cpu[c], position) < PagesOf(en_cpu[c])
         /\ en_cpu[c] # 0
<1> DEFINE p == en_cpu[c]
           datos == [k \in 1..VarSize |-> IF k <= ShortSize
                                          THEN <<en_cpu[c], position + k - 1, value>>
                                          ELSE Nobody]
           r == [Idle EXCEPT !.at = "find", !.op = "OP_ME_ALMBYTPAG",
                   !.usrpid = Usrpid(p), !.page = StackPage(p, position),
                   !.offset = position % MarcoSize, !.size = VarSize, !.datos = datos]
<1>1. c \in Clients /\ p \in Pids /\ Usrpid(p) \in Usrpids /\ p # 0 /\ VarSize \in Nat
  BY Sizes DEF MemType, AssignsVariable, Runs
<1>2. /\ position \in Nat /\ position % MarcoSize \in Nat /\ StackPage(p, position) \in Nat
      /\ StackPage(p, position) < PagesOf(p)
  BY <1>1, PageOfStack
<1>3. datos \in Seq(Bytes) /\ DOMAIN datos = 1..VarSize
  <2>1. \A k \in 1..VarSize : position + k - 1 \in Nat
    BY <1>1, <1>2
  <2>2. datos \in [1..VarSize -> Bytes]
    BY <1>1, <2>1, ByteValues
  <2> QED BY <1>1, <2>2, AsSequence
<1>6. Request(c, r) /\ UNCHANGED <<page_table, main, programa, en_cpu>>
  BY DEF AssignsVariable
<1> HIDE DEF datos
<1>5. r \in Hilo /\ Steady(r)
  BY <1>1, <1>2, <1>3, IdleType DEF Hilo, Steady
<1>7. /\ r.at = "find" /\ r.op = "OP_ME_ALMBYTPAG" /\ r.usrpid = Usrpid(p)
      /\ r.page = StackPage(p, position) /\ r.i = 0
  BY IdleType DEF Hilo
<1> HIDE DEF r
<1>8. /\ hilo' \in [Clients -> Hilo] /\ \A d \in Clients : Steady(hilo'[d])
      /\ hilo'[c] = r /\ \A d \in Clients : d # c => hilo'[d] = hilo[d]
  BY <1>1, <1>5, <1>6, RequestType
<1> QED BY <1>1, <1>2, <1>6, <1>7, <1>8 DEF AsksFor

LEMMA StoreCodeAsks ==
  ASSUME MemType, NEW p \in Pids, StoresCode(p)
  PROVE  /\ AsksFor(Kernel, "OP_ME_ALMBYTPAG", p, programa[p].pag)
         /\ programa[p].pag < PagesOf(p)
<1> DEFINE pag == programa[p].pag
           datos == Text(p, pag * MarcoSize, SizeOfPage(p))
           r == [Idle EXCEPT !.at = "find", !.op = "OP_ME_ALMBYTPAG",
                   !.usrpid = Usrpid(p), !.page = pag, !.offset = 0,
                   !.size = SizeOfPage(p), !.datos = datos]
<1>1. /\ Kernel \in Clients /\ Usrpid(p) \in Usrpids /\ pag \in Nat /\ programa[p].size \in Nat
      /\ pag * MarcoSize \in Nat /\ MarcoSize \in Nat \ {0}
  <2>1. pag \in Nat /\ programa[p].size \in Nat
    BY DEF MemType, Programa
  <2>2. MarcoSize \in Nat \ {0}
    BY Sizes
  <2>3. pag * MarcoSize \in Nat
    BY <2>1, <2>2, Product
  <2> QED BY <2>1, <2>2, <2>3, Sizes
<1>2. SizeOfPage(p) \in Nat
  BY <1>1, Remains DEF SizeOfPage
<1>3. datos \in Seq(Bytes) /\ DOMAIN datos = 1..SizeOfPage(p)
  BY <1>1, <1>2, TextBytes
<1>4. pag < PagesOf(p)
  BY <1>1, Sizes DEF StoresCode, PagesOf
<1>6. Request(Kernel, r) /\ UNCHANGED <<page_table, main, programa, en_cpu>>
  BY DEF StoresCode
<1> HIDE DEF datos
<1>5. r \in Hilo /\ Steady(r)
  BY <1>1, <1>2, <1>3, IdleType DEF Hilo, Steady
<1>7. /\ r.at = "find" /\ r.op = "OP_ME_ALMBYTPAG" /\ r.usrpid = Usrpid(p)
      /\ r.page = pag /\ r.i = 0
  BY IdleType DEF Hilo
<1> HIDE DEF r
<1>8. /\ hilo' \in [Clients -> Hilo] /\ \A d \in Clients : Steady(hilo'[d])
      /\ hilo'[Kernel] = r /\ \A d \in Clients : d # Kernel => hilo'[d] = hilo[d]
  BY <1>1, <1>5, <1>6, RequestType
<1> QED BY <1>4, <1>6, <1>7, <1>8 DEF AsksFor

LEMMA StoreStackAsks ==
  ASSUME MemType, NEW p \in Pids, StoresStack(p)
  PROVE  AsksFor(Kernel, "OP_ME_ALMBYTPAG", p, 0) /\ 0 < PagesOf(p)
<1> DEFINE r == [Idle EXCEPT !.at = "find", !.op = "OP_ME_ALMBYTPAG",
                   !.usrpid = Usrpid(p), !.page = 0, !.offset = 0, !.size = 0, !.datos = <<>>]
<1>1. Kernel \in Clients /\ Usrpid(p) \in Usrpids /\ programa[p].size \in Nat
  BY Sizes DEF MemType, Programa
<1>2. 0 < PagesOf(p)
  BY <1>1, Sizes DEF PagesOf
<1>3. <<>> \in Seq(Bytes) /\ DOMAIN <<>> = 1..0
  OBVIOUS
<1>5. r \in Hilo /\ Steady(r)
  BY ZenonT(30), <1>1, <1>3, IdleType DEF Hilo, Steady
<1>6. Request(Kernel, r) /\ UNCHANGED <<page_table, main, programa, en_cpu>>
  BY DEF StoresStack
<1>7. /\ r.at = "find" /\ r.op = "OP_ME_ALMBYTPAG" /\ r.usrpid = Usrpid(p)
      /\ r.page = 0 /\ r.i = 0
  BY IdleType DEF Hilo
<1> HIDE DEF r
<1>8. /\ hilo' \in [Clients -> Hilo] /\ \A d \in Clients : Steady(hilo'[d])
      /\ hilo'[Kernel] = r /\ \A d \in Clients : d # Kernel => hilo'[d] = hilo[d]
  BY <1>1, <1>5, <1>6, RequestType
<1> QED BY <1>2, <1>6, <1>7, <1>8 DEF AsksFor

\* OP_ME_INIPRO and OP_ME_FINPRO.
LEMMA StartAsks ==
  ASSUME MemType, NEW p \in Pids, NEW size \in CodeSizes, AsksForPages(p, size)
  PROVE  /\ hilo' \in [Clients -> Hilo] /\ \A d \in Clients : Steady(hilo'[d])
         /\ \A d \in Clients : d # Kernel => hilo'[d] = hilo[d]
         /\ hilo'[Kernel].at = "start" /\ hilo'[Kernel].op = "OP_ME_INIPRO"
         /\ hilo'[Kernel].usrpid = Usrpid(p) /\ hilo'[Kernel].i = 0
         /\ hilo'[Kernel].pages = PagesOf(p)'
         /\ programa' \in [Pids -> Programa]
         /\ programa'[p].estado = "asking"
         /\ \A q \in Pids : q # p => programa'[q] = programa[q]
         /\ KernelFree /\ programa[p].estado = "new"
         /\ UNCHANGED <<page_table, main, en_cpu>>
<1> DEFINE r == [Idle EXCEPT !.at = "start", !.op = "OP_ME_INIPRO",
                   !.usrpid = Usrpid(p), !.pages = PagesCode(size) + StackSize]
<1>1. Kernel \in Clients /\ Usrpid(p) \in Usrpids /\ size \in Nat
  BY Sizes, BoundsAssumption
<1>2. PagesCode(size) + StackSize \in Nat
  BY <1>1, Sizes
<1>3. r \in Hilo /\ Steady(r)
  BY <1>1, <1>2, IdleType DEF Hilo, Steady
<1>4. /\ Request(Kernel, r) /\ UNCHANGED <<page_table, main, en_cpu>>
      /\ programa' = [programa EXCEPT ![p].estado = "asking", ![p].size = size]
      /\ KernelFree /\ programa[p].estado = "new"
  BY DEF AsksForPages
<1>5. /\ r.at = "start" /\ r.op = "OP_ME_INIPRO" /\ r.usrpid = Usrpid(p)
      /\ r.pages = PagesCode(size) + StackSize /\ r.i = 0
  BY IdleType DEF Hilo
<1>6. /\ programa' \in [Pids -> Programa] /\ programa'[p].estado = "asking"
      /\ programa'[p].size = size /\ \A q \in Pids : q # p => programa'[q] = programa[q]
  BY ZenonT(60), <1>1, <1>4 DEF MemType, Programa, Estados
<1> HIDE DEF r
<1>7. /\ hilo' \in [Clients -> Hilo] /\ \A d \in Clients : Steady(hilo'[d])
      /\ hilo'[Kernel] = r /\ \A d \in Clients : d # Kernel => hilo'[d] = hilo[d]
  BY <1>1, <1>3, <1>4, RequestType
<1>8. PagesOf(p)' = PagesCode(size) + StackSize
  BY <1>6 DEF PagesOf
<1> QED BY <1>4, <1>5, <1>6, <1>7, <1>8

LEMMA ClearAsks ==
  ASSUME MemType, NEW p \in Pids, EndsProgram(p) \/ EndsOrphan(p)
  PROVE  /\ hilo' \in [Clients -> Hilo] /\ \A d \in Clients : Steady(hilo'[d])
         /\ \A d \in Clients : d # Kernel => hilo'[d] = hilo[d]
         /\ hilo'[Kernel].at = "clear" /\ hilo'[Kernel].op = "OP_ME_FINPRO"
         /\ hilo'[Kernel].usrpid = Usrpid(p) /\ hilo'[Kernel].i = 0
         /\ programa' \in [Pids -> Programa]
         /\ programa'[p].estado = "freeing" /\ programa'[p].size = programa[p].size
         /\ \A q \in Pids : q # p => programa'[q] = programa[q]
         /\ KernelFree /\ programa[p].estado \in {"ready", "over", "ending"}
         /\ UNCHANGED <<page_table, main, en_cpu>>
<1> DEFINE r == [Idle EXCEPT !.at = "clear", !.op = "OP_ME_FINPRO", !.usrpid = Usrpid(p)]
<1>1. Kernel \in Clients /\ Usrpid(p) \in Usrpids
  BY Sizes
<1>3. r \in Hilo /\ Steady(r)
  BY <1>1, IdleType DEF Hilo, Steady
<1>4. /\ Request(Kernel, r) /\ UNCHANGED <<page_table, main, en_cpu>>
      /\ KernelFree /\ programa[p].estado \in {"ready", "over", "ending"}
  BY DEF EndsProgram, EndsOrphan
<1>5. r.at = "clear" /\ r.op = "OP_ME_FINPRO" /\ r.usrpid = Usrpid(p) /\ r.i = 0
  BY IdleType DEF Hilo
<1>6. /\ programa' \in [Pids -> Programa] /\ programa'[p].estado = "freeing"
      /\ programa'[p].size = programa[p].size
      /\ \A q \in Pids : q # p => programa'[q] = programa[q]
  <2>1. programa \in [Pids -> Programa] /\ "freeing" \in Estados
    BY DEF MemType, Estados
  <2>2. CASE EndsProgram(p)
    BY <2>1, <2>2 DEF Programa, EndsProgram, Becomes
  <2>3. CASE EndsOrphan(p)
    BY <2>1, <2>3 DEF Programa, EndsOrphan
  <2> QED BY <2>2, <2>3
<1> HIDE DEF r
<1>7. /\ hilo' \in [Clients -> Hilo] /\ \A d \in Clients : Steady(hilo'[d])
      /\ hilo'[Kernel] = r /\ \A d \in Clients : d # Kernel => hilo'[d] = hilo[d]
  BY <1>1, <1>3, <1>4, RequestType
<1> QED BY <1>4, <1>5, <1>6, <1>7

----------------------------------------------------------------------------
(* What each step of a thread does.                                        *)

\* The thread of c goes on with the same request.
Serves(c) ==
  /\ hilo' \in [Clients -> Hilo] /\ \A d \in Clients : Steady(hilo'[d])
  /\ \A d \in Clients : d # c => hilo'[d] = hilo[d]
  /\ hilo'[c].op = hilo[c].op /\ hilo'[c].usrpid = hilo[c].usrpid
  /\ hilo'[c].page = hilo[c].page
  /\ UNCHANGED <<programa, en_cpu>>

\* ... to the row i.
AtRow(c, at, i) == hilo'[c].at = at /\ hilo'[c].i = i

\* ... and changes one row.
RowSet(r, entrada) ==
  /\ page_table' \in [Rows -> Entradas]
  /\ page_table'[r] = entrada
  /\ \A t \in Rows : t # r => page_table'[t] = page_table[t]

LEMMA ThreadType ==
  ASSUME MemType, NEW c \in Clients, NEW h \in Hilo, Steady(h),
         hilo' = [hilo EXCEPT ![c] = h],
         h.op = hilo[c].op, h.usrpid = hilo[c].usrpid, h.page = hilo[c].page,
         UNCHANGED <<programa, en_cpu>>
  PROVE  Serves(c) /\ hilo'[c] = h
BY DEF MemType, Serves

LEMMA AnswersType ==
  ASSUME MemType, NEW c \in Clients, NEW res \in {0, 1}, Answers(c, res),
         UNCHANGED <<programa, en_cpu>>
  PROVE  Serves(c) /\ hilo'[c].at = "answered" /\ hilo'[c].res = res
<1> DEFINE h == [hilo[c] EXCEPT !.at = "answered", !.res = res]
<1>1. hilo[c] \in Hilo /\ hilo' = [hilo EXCEPT ![c] = h]
  BY DEF MemType, Answers
<1>2. /\ h \in Hilo /\ Steady(h) /\ h.at = "answered" /\ h.res = res
      /\ h.op = hilo[c].op /\ h.usrpid = hilo[c].usrpid /\ h.page = hilo[c].page
  BY <1>1 DEF Hilo, Steady
<1> HIDE DEF h
<1> QED BY <1>1, <1>2, ThreadType

LEMMA NextRowType ==
  ASSUME MemType, NEW c \in Clients, hilo[c].i < Marcos, NextRow(c),
         hilo[c].at \notin {"number", "zero"}, UNCHANGED <<programa, en_cpu>>
  PROVE  /\ Serves(c) /\ AtRow(c, hilo[c].at, hilo[c].i + 1)
         /\ hilo'[c].pages = hilo[c].pages
<1> DEFINE h == [hilo[c] EXCEPT !.i = @ + 1]
<1>1. hilo[c] \in Hilo /\ Steady(hilo[c]) /\ hilo' = [hilo EXCEPT ![c] = h]
  BY DEF MemType, NextRow
<1>2. hilo[c].i + 1 \in 0..Marcos
  <2>1. hilo[c].i \in 0..Marcos /\ Marcos \in Nat
    BY <1>1, Sizes DEF Hilo
  <2> QED BY <2>1
<1>3. /\ h \in Hilo /\ Steady(h) /\ h.at = hilo[c].at /\ h.i = hilo[c].i + 1
      /\ h.op = hilo[c].op /\ h.usrpid = hilo[c].usrpid /\ h.page = hilo[c].page
      /\ h.pages = hilo[c].pages
  BY <1>1, <1>2 DEF Hilo, Steady
<1> HIDE DEF h
<1> QED BY <1>1, <1>3, ThreadType DEF AtRow

LEMMA SetPagesCountsDoes ==
  ASSUME MemType, NEW c \in Clients, SetPagesCounts(c)
  PROVE  /\ Serves(c) /\ UNCHANGED <<page_table, main>> /\ hilo[c].at = "start"
         /\ \/ hilo'[c].at = "answered" /\ hilo'[c].res = 0
            \/ /\ AtRow(c, "assign", hilo[c].i) /\ hilo'[c].pages = hilo[c].pages
               /\ ~(Cardinality(FreeRows) < hilo[c].pages)
<1>1. CASE Answers(c, 0)
  <2>1. Serves(c) /\ hilo'[c].at = "answered" /\ hilo'[c].res = 0
    BY <1>1, AnswersType DEF SetPagesCounts
  <2> QED BY <2>1 DEF SetPagesCounts
<1>2. CASE /\ hilo' = [hilo EXCEPT ![c].at = "assign"]
           /\ ~(Cardinality(FreeRows) < hilo[c].pages)
  <2> DEFINE h == [hilo[c] EXCEPT !.at = "assign"]
  <2>1. hilo[c] \in Hilo /\ hilo[c].at = "start" /\ hilo' = [hilo EXCEPT ![c] = h]
    BY <1>2 DEF MemType, SetPagesCounts
  <2>2. /\ h \in Hilo /\ Steady(h) /\ h.at = "assign" /\ h.i = hilo[c].i
        /\ h.op = hilo[c].op /\ h.usrpid = hilo[c].usrpid /\ h.page = hilo[c].page
        /\ h.pages = hilo[c].pages
    BY <2>1 DEF Hilo, Steady
  <2>3. UNCHANGED <<page_table, main, programa, en_cpu>>
    BY DEF SetPagesCounts
  <2> HIDE DEF h
  <2> QED BY <1>2, <2>1, <2>2, <2>3, ThreadType DEF AtRow
<1> QED BY <1>1, <1>2 DEF SetPagesCounts

LEMMA SetsOwnerDoes ==
  ASSUME MemType, NEW c \in Clients, SetsOwner(c)
  PROVE  /\ Serves(c) /\ UNCHANGED main /\ hilo[c].at = "assign" /\ hilo[c].i \in Rows
         /\ hilo'[c].pages = hilo[c].pages /\ hilo[c].pages > 0
         /\ \/ /\ page_table[hilo[c].i].pid = 0 /\ AtRow(c, "number", hilo[c].i)
               /\ RowSet(hilo[c].i, [page_table[hilo[c].i] EXCEPT !.pid = hilo[c].usrpid])
            \/ /\ page_table[hilo[c].i].pid # 0 /\ AtRow(c, "assign", hilo[c].i + 1)
               /\ UNCHANGED page_table
<1>1. /\ hilo[c].at = "assign" /\ hilo[c].i < Marcos /\ hilo[c].pages > 0
      /\ UNCHANGED <<main, programa, en_cpu>> /\ hilo[c] \in Hilo
  BY DEF SetsOwner, MemType
<1>2. hilo[c].i \in Rows
  BY <1>1, Sizes DEF Rows, Hilo
<1>3. CASE page_table[hilo[c].i].pid = 0
  <2>1. /\ page_table' = [page_table EXCEPT ![hilo[c].i].pid = hilo[c].usrpid]
        /\ hilo' = [hilo EXCEPT ![c].at = "number"]
    BY <1>3 DEF SetsOwner
  <2>2. RowSet(hilo[c].i, [page_table[hilo[c].i] EXCEPT !.pid = hilo[c].usrpid])
    BY ZenonT(30), <1>1, <1>2, <2>1 DEF RowSet, MemType, Entradas, Hilo
  <2>3. Serves(c) /\ AtRow(c, "number", hilo[c].i) /\ hilo'[c].pages = hilo[c].pages
    BY <1>1, <2>1 DEF MemType, Hilo, Steady, Serves, AtRow
  <2> QED BY <1>1, <1>2, <1>3, <2>2, <2>3
<1>4. CASE page_table[hilo[c].i].pid # 0
  <2>1. UNCHANGED page_table /\ NextRow(c)
    BY <1>4 DEF SetsOwner
  <2>2. Serves(c) /\ AtRow(c, "assign", hilo[c].i + 1) /\ hilo'[c].pages = hilo[c].pages
    BY <1>1, <2>1, NextRowType
  <2> QED BY <1>1, <1>2, <1>4, <2>1, <2>2
<1> QED BY <1>3, <1>4

LEMMA NumbersPageDoes ==
  ASSUME MemType, NEW c \in Clients, NumbersPage(c)
  PROVE  /\ Serves(c) /\ UNCHANGED main /\ hilo[c].at = "number" /\ hilo[c].i \in Rows
         /\ AtRow(c, "assign", hilo[c].i + 1)
         /\ hilo'[c].pages = hilo[c].pages - 1 /\ hilo[c].pages > 0
         /\ RowSet(hilo[c].i, [page_table[hilo[c].i] EXCEPT !.page = hilo[c].pages - 1])
<1>1. /\ hilo[c].at = "number" /\ UNCHANGED <<main, programa, en_cpu>> /\ hilo[c] \in Hilo
      /\ page_table' = [page_table EXCEPT ![hilo[c].i].page = hilo[c].pages - 1]
      /\ hilo' = [hilo EXCEPT ![c].at = "assign", ![c].i = @ + 1, ![c].pages = @ - 1]
  BY DEF NumbersPage, MemType
<1>2. hilo[c].i < Marcos /\ hilo[c].pages > 0
  BY <1>1 DEF MemType, Steady
<1>3. /\ hilo[c].i \in Rows /\ hilo[c].i + 1 \in 0..Marcos /\ hilo[c].pages - 1 \in Nat
  <2>1. hilo[c].i \in 0..Marcos /\ hilo[c].pages \in Nat /\ Marcos \in Nat
    BY <1>1, Sizes DEF Hilo
  <2> QED BY <1>2, <2>1 DEF Rows
<1>4. RowSet(hilo[c].i, [page_table[hilo[c].i] EXCEPT !.page = hilo[c].pages - 1])
  BY <1>1, <1>3 DEF RowSet, MemType, Entradas
<1>5. /\ Serves(c) /\ AtRow(c, "assign", hilo[c].i + 1) /\ hilo'[c].pages = hilo[c].pages - 1
  BY <1>1, <1>3 DEF MemType, Hilo, Steady, Serves, AtRow
<1> QED BY <1>1, <1>2, <1>3, <1>4, <1>5

LEMMA PagesSetDoes ==
  ASSUME MemType, NEW c \in Clients, PagesSet(c)
  PROVE  /\ Serves(c) /\ UNCHANGED <<page_table, main>> /\ hilo[c].at = "assign"
         /\ hilo[c].i = Marcos \/ hilo[c].pages = 0
         /\ hilo'[c].at = "answered" /\ hilo'[c].res = 1
BY AnswersType DEF PagesSet

LEMMA ClearsOwnerDoes ==
  ASSUME MemType, NEW c \in Clients, ClearsOwner(c)
  PROVE  /\ Serves(c) /\ UNCHANGED main /\ hilo[c].at = "clear" /\ hilo[c].i \in Rows
         /\ \/ /\ page_table[hilo[c].i].pid = hilo[c].usrpid /\ AtRow(c, "zero", hilo[c].i)
               /\ RowSet(hilo[c].i, [page_table[hilo[c].i] EXCEPT !.pid = 0])
            \/ /\ page_table[hilo[c].i].pid # hilo[c].usrpid
               /\ AtRow(c, "clear", hilo[c].i + 1) /\ UNCHANGED page_table
<1>1. /\ hilo[c].at = "clear" /\ hilo[c].i < Marcos
      /\ UNCHANGED <<main, programa, en_cpu>> /\ hilo[c] \in Hilo
  BY DEF ClearsOwner, MemType
<1>2. hilo[c].i \in Rows
  BY SMTT(30), <1>1, Sizes DEF Rows, Hilo
<1>3. CASE page_table[hilo[c].i].pid = hilo[c].usrpid
  <2>1. /\ page_table' = [page_table EXCEPT ![hilo[c].i].pid = 0]
        /\ hilo' = [hilo EXCEPT ![c].at = "zero"]
    BY <1>3 DEF ClearsOwner
  <2>2. RowSet(hilo[c].i, [page_table[hilo[c].i] EXCEPT !.pid = 0])
    BY <1>1, <1>2, <2>1, Sizes DEF RowSet, MemType, Entradas
  <2>3. Serves(c) /\ AtRow(c, "zero", hilo[c].i)
    BY <1>1, <2>1 DEF MemType, Hilo, Steady, Serves, AtRow
  <2> QED BY <1>1, <1>2, <1>3, <2>2, <2>3
<1>4. CASE page_table[hilo[c].i].pid # hilo[c].usrpid
  <2>1. UNCHANGED page_table /\ NextRow(c)
    BY <1>4 DEF ClearsOwner
  <2>2. Serves(c) /\ AtRow(c, "clear", hilo[c].i + 1)
    BY <1>1, <2>1, NextRowType
  <2> QED BY <1>1, <1>2, <1>4, <2>1, <2>2
<1> QED BY <1>3, <1>4

LEMMA ClearsPageDoes ==
  ASSUME MemType, NEW c \in Clients, ClearsPage(c)
  PROVE  /\ Serves(c) /\ UNCHANGED main /\ hilo[c].at = "zero" /\ hilo[c].i \in Rows
         /\ AtRow(c, "clear", hilo[c].i + 1)
         /\ RowSet(hilo[c].i, [page_table[hilo[c].i] EXCEPT !.page = 0])
<1>1. /\ hilo[c].at = "zero" /\ UNCHANGED <<main, programa, en_cpu>> /\ hilo[c] \in Hilo
      /\ page_table' = [page_table EXCEPT ![hilo[c].i].page = 0]
      /\ hilo' = [hilo EXCEPT ![c].at = "clear", ![c].i = @ + 1]
  BY DEF ClearsPage, MemType
<1>2. hilo[c].i < Marcos
  BY <1>1 DEF MemType, Steady
<1>3. hilo[c].i \in Rows /\ hilo[c].i + 1 \in 0..Marcos
  <2>1. hilo[c].i \in 0..Marcos /\ Marcos \in Nat
    BY <1>1, Sizes DEF Hilo
  <2> QED BY <1>2, <2>1 DEF Rows
<1>4. RowSet(hilo[c].i, [page_table[hilo[c].i] EXCEPT !.page = 0])
  BY <1>1, <1>3 DEF RowSet, MemType, Entradas
<1>5. Serves(c) /\ AtRow(c, "clear", hilo[c].i + 1)
  BY <1>1, <1>3 DEF MemType, Hilo, Steady, Serves, AtRow
<1> QED BY <1>1, <1>3, <1>4, <1>5

LEMMA PagesClearedDoes ==
  ASSUME MemType, NEW c \in Clients, PagesCleared(c)
  PROVE  /\ Serves(c) /\ UNCHANGED <<page_table, main>> /\ hilo[c].at = "clear"
         /\ hilo[c].usrpid <= 0 \/ hilo[c].i = Marcos
         /\ hilo'[c].at = "answered"
<1>1. PICK res \in {0, 1} : Answers(c, res)
  BY DEF PagesCleared
<1> QED BY <1>1, AnswersType DEF PagesCleared

LEMMA GetFrameDoes ==
  ASSUME MemType, NEW c \in Clients, GetFrame(c)
  PROVE  /\ Serves(c) /\ UNCHANGED <<page_table, main>> /\ hilo[c].at = "find"
         /\ hilo'[c].offset = hilo[c].offset /\ hilo'[c].size = hilo[c].size
         /\ hilo'[c].datos = hilo[c].datos
         /\ \/ /\ hilo'[c].at = "copy"
               /\ \/ hilo[c].usrpid <= 0 \/ hilo[c].page \notin Rows \/ hilo[c].i = Marcos
                  \/ HoldsPage(c, hilo'[c].frame)
            \/ /\ hilo[c].i \in Rows /\ ~HoldsPage(c, hilo[c].i)
               /\ AtRow(c, "find", hilo[c].i + 1)
<1> DEFINE invalid == hilo[c].usrpid <= 0 \/ hilo[c].page \notin Rows
<1>1. /\ hilo[c].at = "find" /\ UNCHANGED <<page_table, main, programa, en_cpu>>
      /\ hilo[c] \in Hilo /\ Steady(hilo[c])
      /\ hilo' = IF invalid \/ hilo[c].i = Marcos
                 THEN [hilo EXCEPT ![c].at = "copy", ![c].frame = 0]
                 ELSE IF HoldsPage(c, hilo[c].i)
                 THEN [hilo EXCEPT ![c].at = "copy", ![c].frame = hilo[c].i]
                 ELSE [hilo EXCEPT ![c].i = @ + 1]
  BY DEF GetFrame, MemType
<1>2. hilo[c].i \in 0..Marcos /\ Marcos \in Nat
  BY <1>1, Sizes DEF Hilo
<1>3. ASSUME NEW f \in Rows, hilo' = [hilo EXCEPT ![c].at = "copy", ![c].frame = f]
      PROVE  /\ Serves(c) /\ hilo'[c].at = "copy" /\ hilo'[c].frame = f
             /\ hilo'[c].offset = hilo[c].offset /\ hilo'[c].size = hilo[c].size
             /\ hilo'[c].datos = hilo[c].datos
  <2> DEFINE h == [hilo[c] EXCEPT !.at = "copy", !.frame = f]
  <2>1. hilo' = [hilo EXCEPT ![c] = h]
    BY <1>3
  <2>2. /\ h \in Hilo /\ Steady(h) /\ h.at = "copy" /\ h.frame = f
        /\ h.op = hilo[c].op /\ h.usrpid = hilo[c].usrpid /\ h.page = hilo[c].page
        /\ h.offset = hilo[c].offset /\ h.size = hilo[c].size /\ h.datos = hilo[c].datos
    BY <1>1, <1>3 DEF Hilo, Steady
  <2> HIDE DEF h
  <2> QED BY <1>1, <2>1, <2>2, ThreadType
<1>4. CASE invalid \/ hilo[c].i = Marcos
  <2>1. 0 \in Rows /\ hilo' = [hilo EXCEPT ![c].at = "copy", ![c].frame = 0]
    BY <1>1, <1>4, Sizes
  <2> QED BY <1>1, <1>3, <1>4, <2>1
<1>5. CASE ~(invalid \/ hilo[c].i = Marcos) /\ HoldsPage(c, hilo[c].i)
  <2>1. hilo[c].i \in Rows /\ hilo' = [hilo EXCEPT ![c].at = "copy", ![c].frame = hilo[c].i]
    BY <1>1, <1>2, <1>5 DEF Rows
  <2>2. /\ Serves(c) /\ hilo'[c].at = "copy" /\ hilo'[c].frame = hilo[c].i
        /\ hilo'[c].offset = hilo[c].offset /\ hilo'[c].size = hilo[c].size
        /\ hilo'[c].datos = hilo[c].datos
    BY <1>3, <2>1
  <2> QED BY <1>1, <1>5, <2>2
<1>6. CASE ~(invalid \/ hilo[c].i = Marcos) /\ ~HoldsPage(c, hilo[c].i)
  <2> DEFINE h == [hilo[c] EXCEPT !.i = @ + 1]
  <2>1. hilo[c].i \in Rows /\ hilo[c].i + 1 \in 0..Marcos
    BY <1>2, <1>6 DEF Rows
  <2>2. hilo' = [hilo EXCEPT ![c] = h]
    BY <1>1, <1>6
  <2>3. /\ h \in Hilo /\ Steady(h) /\ h.at = "find" /\ h.i = hilo[c].i + 1
        /\ h.op = hilo[c].op /\ h.usrpid = hilo[c].usrpid /\ h.page = hilo[c].page
        /\ h.offset = hilo[c].offset /\ h.size = hilo[c].size /\ h.datos = hilo[c].datos
    BY <1>1, <2>1 DEF Hilo, Steady
  <2> HIDE DEF h
  <2> QED BY <1>1, <1>6, <2>1, <2>2, <2>3, ThreadType DEF AtRow
<1> QED BY <1>4, <1>5, <1>6

LEMMA GetBytesDoes ==
  ASSUME MemType, NEW c \in Clients, GetBytes(c)
  PROVE  /\ Serves(c) /\ UNCHANGED <<page_table, main>> /\ hilo[c].at = "copy"
         /\ hilo'[c].at = "answered"
<1> DEFINE datos == [k \in 1..hilo[c].size |-> IF Base(c) + k - 1 \in DOMAIN main
                                               THEN main[Base(c) + k - 1] ELSE Nobody]
<1>1. /\ hilo[c].at = "copy" /\ UNCHANGED <<page_table, main, programa, en_cpu>>
      /\ hilo[c] \in Hilo
      /\ hilo' = IF hilo[c].size <= 0 THEN [hilo EXCEPT ![c].at = "answered", ![c].res = 0]
                 ELSE [hilo EXCEPT ![c].at = "answered", ![c].res = 1, ![c].datos = datos]
  BY DEF GetBytes, MemType
<1>2. CASE hilo[c].size <= 0
  <2>1. Answers(c, 0)
    BY <1>1, <1>2 DEF Answers
  <2> QED BY <1>1, <2>1, AnswersType
<1>3. CASE ~(hilo[c].size <= 0)
  <2> DEFINE h == [hilo[c] EXCEPT !.at = "answered", !.res = 1, !.datos = datos]
  <2>1. datos \in Seq(Bytes)
    <3>1. datos \in [1..hilo[c].size -> Bytes] /\ hilo[c].size \in Nat
      BY <1>1, ByteValues DEF MemType, Hilo
    <3> HIDE DEF datos
    <3> QED BY <3>1, AsSequence
  <2>2. hilo' = [hilo EXCEPT ![c].at = "answered", ![c].res = 1, ![c].datos = datos]
    BY <1>1, <1>3
  <2> HIDE DEF datos
  <2>3. hilo' = [hilo EXCEPT ![c] = h]
    BY <2>2
  <2>4. /\ h \in Hilo /\ Steady(h) /\ h.at = "answered"
        /\ h.op = hilo[c].op /\ h.usrpid = hilo[c].usrpid /\ h.page = hilo[c].page
    BY <1>1, <2>1 DEF Hilo, Steady
  <2> HIDE DEF h
  <2> QED BY <1>1, <2>3, <2>4, ThreadType
<1> QED BY <1>2, <1>3

LEMMA SetBytesDoes ==
  ASSUME MemType, NEW c \in Clients, SetBytes(c)
  PROVE  /\ Serves(c) /\ UNCHANGED page_table /\ hilo[c].at = "copy"
         /\ hilo'[c].at = "answered"
         /\ main' \in [0..(Marcos * MarcoSize - 1) -> Bytes]
<1>1. PICK res \in {0, 1} : Answers(c, res)
  BY DEF SetBytes
<1>2. /\ hilo[c].at = "copy" /\ UNCHANGED <<page_table, programa, en_cpu>>
      /\ hilo[c].op = "OP_ME_ALMBYTPAG"
  BY DEF SetBytes
<1>3. Serves(c) /\ hilo'[c].at = "answered"
  BY <1>1, <1>2, AnswersType
<1>4. main \in [0..(Marcos * MarcoSize - 1) -> Bytes]
  BY DEF MemType
<1>5. \A k \in 1..hilo[c].size : hilo[c].datos[k] \in Bytes
  <2>1. DOMAIN hilo[c].datos = 1..hilo[c].size /\ hilo[c].datos \in Seq(Bytes)
    BY <1>2 DEF MemType, Steady, Hilo
  <2> QED BY <2>1, InSequence
<1>6. main' \in [0..(Marcos * MarcoSize - 1) -> Bytes]
  BY <1>4, <1>5 DEF SetBytes
<1> QED BY <1>2, <1>3, <1>6

LEMMA MemTypeStep == MemType /\ [Next]_vars => MemType'
<1> SUFFICES ASSUME MemType, [Next]_vars PROVE MemType'
  OBVIOUS
<1>0. MemType
  OBVIOUS
<1>1. ASSUME NEW p \in Pids, NEW e \in Estados, Becomes(p, e), UNCHANGED <<page_table, main>>,
             hilo' \in [Clients -> Hilo], \A d \in Clients : Steady(hilo'[d]),
             en_cpu' \in [Cpus -> Pids \cup {0}]
      PROVE  MemType'
  BY <1>1, BecomesType DEF MemType
<1>2. ASSUME NEW c \in Clients, NEW op, NEW p, NEW page, AsksFor(c, op, p, page)
      PROVE  MemType'
  BY <1>2 DEF MemType, AsksFor
<1>3. ASSUME NEW c \in Clients, Serves(c), page_table' \in [Rows -> Entradas],
             main' \in [0..(Marcos * MarcoSize - 1) -> Bytes]
      PROVE  MemType'
  BY <1>3 DEF MemType, Serves
<1>4. CASE KernelStep
  <2> PICK p \in Pids :
    \/ \E size \in CodeSizes : AsksForPages(p, size)
    \/ GetsPages(p) \/ StoresCode(p) \/ StoresStack(p) \/ PageStored(p)
    \/ \E c \in Cpus : Dispatches(p, c)
    \/ EndsProgram(p) \/ EndsOrphan(p) \/ PagesFreed(p)
    BY <1>4 DEF KernelStep
  <2>1. Kernel \in Clients
    BY Sizes
  <2>2. ASSUME NEW size \in CodeSizes, AsksForPages(p, size) PROVE MemType'
    BY <2>2, StartAsks DEF MemType
  <2>3. CASE GetsPages(p)
    <3>1. PICK e \in Estados : Becomes(p, e)
      BY <2>3 DEF GetsPages, Estados
    <3> QED BY <1>1, <2>1, <2>3, <3>1, TakesAnswerType DEF GetsPages, MemType
  <2>4. CASE StoresCode(p)
    BY <1>2, <2>1, <2>4, StoreCodeAsks
  <2>5. CASE StoresStack(p)
    BY <1>2, <2>1, <2>5, StoreStackAsks
  <2>6. CASE PageStored(p)
    <3>1. programa' \in [Pids -> Programa]
      <4>1. programa \in [Pids -> Programa] /\ "ready" \in Estados
        BY DEF MemType, Estados
      <4>2. CASE programa' = [programa EXCEPT ![p].pag = @ + 1]
        BY <4>1, <4>2 DEF Programa
      <4>3. CASE programa' = [programa EXCEPT ![p].estado = "ready"]
        BY <4>1, <4>3 DEF Programa
      <4> QED BY <2>6, <4>2, <4>3 DEF PageStored
    <3> QED BY <2>1, <2>6, <3>1, TakesAnswerType DEF PageStored, MemType
  <2>7. ASSUME NEW c \in Cpus, Dispatches(p, c) PROVE MemType'
    <3>1. "exec" \in Estados /\ en_cpu' \in [Cpus -> Pids \cup {0}]
      BY <2>7 DEF Dispatches, Estados, MemType
    <3> QED BY <1>1, <2>7, <3>1 DEF Dispatches, MemType
  <2>8. CASE EndsProgram(p) \/ EndsOrphan(p)
    BY <2>8, ClearAsks DEF MemType
  <2>9. CASE PagesFreed(p)
    <3>1. "over" \in Estados /\ Becomes(p, "over")
      BY <2>9 DEF PagesFreed, Estados
    <3> QED BY <1>1, <2>1, <2>9, <3>1, TakesAnswerType DEF PagesFreed, MemType
  <2> QED BY <2>2, <2>3, <2>4, <2>5, <2>6, <2>7, <2>8, <2>9
<1>5. ASSUME NEW c \in Cpus, CpuStep(c) PROVE MemType'
  <2>1. c \in Clients
    BY Sizes
  <2>2. ASSUME en_cpu[c] # 0, NEW first \in 1..programa[en_cpu[c]].size,
               NEW size \in 1..programa[en_cpu[c]].size,
               FetchesInstruction(c, first - 1, size)
        PROVE  MemType'
    BY <1>2, <2>1, <2>2, FetchAsks
  <2>3. ASSUME NEW position \in Variables, ReadsVariable(c, position) PROVE MemType'
    BY <1>2, <2>1, <2>3, ReadAsks
  <2>4. ASSUME NEW position \in Variables, NEW value \in Values,
               AssignsVariable(c, position, value)
        PROVE  MemType'
    BY <1>2, <2>1, <2>4, AssignAsks
  <2>5. CASE CpuGetsAnswer(c)
    BY <2>1, <2>5, TakesAnswerType DEF CpuGetsAnswer, MemType
  <2>6. CASE FinishesProgram(c)
    <3>1. "ending" \in Estados /\ en_cpu[c] \in Pids /\ Becomes(en_cpu[c], "ending")
      BY <2>6 DEF FinishesProgram, Runs, Estados, MemType
    <3>2. en_cpu' \in [Cpus -> Pids \cup {0}]
      BY <2>6 DEF FinishesProgram, MemType
    <3> QED BY <1>1, <2>6, <3>1, <3>2 DEF FinishesProgram, MemType
  <2> QED BY <1>5, <2>2, <2>3, <2>4, <2>5, <2>6 DEF CpuStep
<1>6. ASSUME NEW c \in Clients, ThreadStep(c) PROVE MemType'
  <2>1. ASSUME RowSet(hilo[c].i, page_table'[hilo[c].i]), UNCHANGED main, Serves(c)
        PROVE  MemType'
    BY <1>3, <2>1 DEF RowSet, MemType
  <2>2. ASSUME UNCHANGED <<page_table, main>>, Serves(c) PROVE MemType'
    BY <1>3, <2>2 DEF MemType
  <2>3. CASE SetPagesCounts(c)
    BY <2>2, <2>3, SetPagesCountsDoes
  <2>4. CASE SetsOwner(c)
    BY <2>1, <2>2, <2>4, SetsOwnerDoes DEF RowSet
  <2>5. CASE NumbersPage(c)
    BY <2>1, <2>5, NumbersPageDoes DEF RowSet
  <2>6. CASE PagesSet(c)
    BY <2>2, <2>6, PagesSetDoes
  <2>7. CASE ClearsOwner(c)
    BY <2>1, <2>2, <2>7, ClearsOwnerDoes DEF RowSet
  <2>8. CASE ClearsPage(c)
    BY <2>1, <2>8, ClearsPageDoes DEF RowSet
  <2>9. CASE PagesCleared(c)
    BY <2>2, <2>9, PagesClearedDoes
  <2>10. CASE GetFrame(c)
    BY <2>2, <2>10, GetFrameDoes
  <2>11. CASE GetBytes(c)
    BY <2>2, <2>11, GetBytesDoes
  <2>12. CASE SetBytes(c)
    BY <1>3, <2>12, SetBytesDoes DEF MemType
  <2> QED BY <1>6, <2>3, <2>4, <2>5, <2>6, <2>7, <2>8, <2>9, <2>10, <2>11, <2>12 DEF ThreadStep
<1>7. CASE UNCHANGED vars
  BY <1>7 DEF vars, MemType
<1> QED BY <1>4, <1>5, <1>6, <1>7 DEF Next

LEMMA MemTypeInit == Init => MemType
<1> SUFFICES ASSUME Init PROVE MemType
  OBVIOUS
<1>1. page_table \in [Rows -> Entradas]
  BY Sizes DEF Init, Entradas
<1>2. main \in [0..(Marcos * MarcoSize - 1) -> Bytes]
  BY ByteValues DEF Init
<1>3. hilo \in [Clients -> Hilo] /\ \A c \in Clients : Steady(hilo[c])
  BY IdleType DEF Init
<1>4. programa \in [Pids -> Programa] /\ en_cpu \in [Cpus -> Pids \cup {0}]
  BY DEF Init, Programa, Estados
<1> QED BY <1>1, <1>2, <1>3, <1>4 DEF MemType

LEMMA MemTypeTypes == MemType => TypeOK
<1> SUFFICES ASSUME MemType PROVE TypeOK
  OBVIOUS
<1>1. \A c \in Clients : hilo[c].i \in 0..Marcos /\ hilo[c].frame \in Rows
                         /\ hilo[c].datos \in Seq(Bytes)
  BY DEF MemType, Hilo
<1> QED BY <1>1 DEF MemType, TypeOK, Entradas, Programa, Usrpids

\* No interleaving of the Kernel, the CPUs and their threads makes a thread leave
\* the page table, the memory or the bytes of its request: set_pages, clear_pages
\* and get_frame end at the last row, and set_bytes copies what it was sent.
THEOREM MemoriaTypes == Spec => []TypeOK
BY MemTypeInit, MemTypeStep, MemTypeTypes, PTL DEF Spec

----------------------------------------------------------------------------
(* What the clients wait for.                                              *)

LEMMA UsrpidIs ==
  ASSUME PidsFit
  PROVE  \A p \in Pids : Usrpid(p) = p
BY Sizes DEF PidsFit, Usrpid, Pids

Talks == KernelTalks /\ CpusTalk

\* The Kernel's thread and the programs it is about are as before.
LEMMA KernelStays ==
  ASSUME KernelTalks, hilo'[Kernel] = hilo[Kernel],
         \A p \in Pids : programa'[p].estado = programa[p].estado
                         \/ {programa[p].estado, programa'[p].estado} \subseteq {"ready", "exec", "ending"}
  PROVE  KernelTalks'
<1>1. \A p \in Pids : /\ programa'[p].estado = "asking" <=> programa[p].estado = "asking"
                      /\ programa'[p].estado = "loading" <=> programa[p].estado = "loading"
                      /\ programa'[p].estado = "freeing" <=> programa[p].estado = "freeing"
  OBVIOUS
<1> QED BY <1>1 DEF KernelTalks, Busy

\* The CPUs, their threads and the programs they run are as before.
LEMMA CpusStay ==
  ASSUME CpusTalk, UNCHANGED en_cpu, \A c \in Cpus : hilo'[c] = hilo[c],
         \A c \in Cpus : en_cpu[c] # 0 => programa'[en_cpu[c]].estado = "exec"
  PROVE  CpusTalk'
BY DEF CpusTalk

LEMMA KernelStepTalks ==
  ASSUME PidsFit, MemType, Talks, KernelStep
  PROVE  Talks'
<1> USE DEF Talks
<1>0. /\ \A q \in Pids : q \in Nat \ {0} /\ Usrpid(q) = q
      /\ Kernel \in Clients /\ Kernel \notin Cpus /\ Cpus \subseteq Clients
      /\ \A c \in Cpus : en_cpu[c] \in Pids \cup {0}
  BY Sizes, UsrpidIs DEF MemType
\* A program that is not on a CPU goes on.
<1>1. ASSUME NEW p \in Pids, programa[p].estado # "exec",
             \A q \in Pids : q # p => programa'[q] = programa[q],
             UNCHANGED en_cpu, \A d \in Clients : d # Kernel => hilo'[d] = hilo[d]
      PROVE  CpusTalk'
  <2>1. \A c \in Cpus : en_cpu[c] # 0 => programa'[en_cpu[c]].estado = "exec"
    BY <1>0, <1>1 DEF CpusTalk
  <2> QED BY <1>0, <1>1, <2>1, CpusStay
<1>2. ASSUME NEW p \in Pids, programa[p].estado = "loading", AsksFor(Kernel, "OP_ME_ALMBYTPAG", p, programa'[p].pag)
             \/ AsksFor(Kernel, "OP_ME_ALMBYTPAG", p, 0)
      PROVE  Talks'
  <2>1. /\ hilo'[Kernel].at = "find" /\ hilo'[Kernel].op = "OP_ME_ALMBYTPAG"
        /\ hilo'[Kernel].usrpid = p /\ UNCHANGED <<programa, en_cpu>>
        /\ \A d \in Clients : d # Kernel => hilo'[d] = hilo[d]
    BY <1>0, <1>2 DEF AsksFor
  <2>2. KernelTalks'
    BY <1>2, <2>1 DEF KernelTalks, Busy
  <2> QED BY <1>1, <1>2, <2>1, <2>2
<1> PICK p \in Pids :
    \/ \E size \in CodeSizes : AsksForPages(p, size)
    \/ GetsPages(p) \/ StoresCode(p) \/ StoresStack(p) \/ PageStored(p)
    \/ \E c \in Cpus : Dispatches(p, c)
    \/ EndsProgram(p) \/ EndsOrphan(p) \/ PagesFreed(p)
    BY DEF KernelStep
<1>3. ASSUME NEW size \in CodeSizes, AsksForPages(p, size) PROVE Talks'
  <2>1. /\ hilo'[Kernel].at = "start" /\ hilo'[Kernel].op = "OP_ME_INIPRO"
        /\ hilo'[Kernel].usrpid = p /\ programa'[p].estado = "asking"
        /\ \A q \in Pids : q # p => programa'[q] = programa[q] /\ ~Busy(q)
        /\ programa[p].estado = "new" /\ UNCHANGED en_cpu
        /\ \A d \in Clients : d # Kernel => hilo'[d] = hilo[d]
    BY <1>0, <1>3, StartAsks DEF KernelFree, Busy
  <2>2. KernelTalks'
    BY <2>1 DEF KernelTalks, Busy
  <2> QED BY <1>1, <2>1, <2>2
<1>4. CASE EndsProgram(p) \/ EndsOrphan(p)
  <2>1. /\ hilo'[Kernel].at = "clear" /\ hilo'[Kernel].op = "OP_ME_FINPRO"
        /\ hilo'[Kernel].usrpid = p /\ programa'[p].estado = "freeing"
        /\ \A q \in Pids : q # p => programa'[q] = programa[q] /\ ~Busy(q)
        /\ programa[p].estado # "exec" /\ UNCHANGED en_cpu
        /\ \A d \in Clients : d # Kernel => hilo'[d] = hilo[d]
    BY <1>0, <1>4, ClearAsks DEF KernelFree, Busy
  <2>2. KernelTalks'
    BY <2>1 DEF KernelTalks, Busy
  <2> QED BY <1>1, <2>1, <2>2
\* The answer of Memoria is in, and the program goes on.
<1>5. ASSUME Busy(p), TakesAnswer(Kernel), UNCHANGED en_cpu,
             programa'[p].estado \in {"loading", "ready", "over"},
             \A q \in Pids : q # p => programa'[q] = programa[q]
      PROVE  Talks'
  <2>1. /\ hilo'[Kernel].at = "idle" /\ hilo'[Kernel].op = "none"
        /\ \A d \in Clients : d # Kernel => hilo'[d] = hilo[d]
    BY <1>0, <1>5, TakesAnswerType, IdleType
  <2>2. \A q \in Pids : q # p => ~Busy(q)
    BY <1>5 DEF KernelTalks
  <2>3. KernelTalks'
    BY <1>5, <2>1, <2>2 DEF KernelTalks, Busy
  <2>4. programa[p].estado # "exec"
    BY <1>5 DEF Busy
  <2> QED BY <1>1, <1>5, <2>1, <2>3, <2>4
<1>6. CASE GetsPages(p)
  <2>1. PICK e \in {"loading", "over"} : Becomes(p, e)
    BY <1>6 DEF GetsPages
  <2>2. e \in Estados
    BY DEF Estados
  <2> QED BY <1>5, <1>6, <2>1, <2>2, BecomesType DEF GetsPages, Busy
<1>7. CASE PagesFreed(p)
  <2>1. "over" \in Estados
    BY DEF Estados
  <2> QED BY <1>5, <1>7, <2>1, BecomesType DEF PagesFreed, Busy
<1>8. CASE PageStored(p)
  <2>1. /\ programa[p].estado = "loading" /\ programa'[p].estado \in {"loading", "ready"}
        /\ \A q \in Pids : q # p => programa'[q] = programa[q]
    BY <1>8 DEF PageStored, MemType, Programa
  <2> QED BY <1>5, <1>8, <2>1 DEF PageStored, Busy
<1>9. CASE StoresCode(p)
  <2>1. AsksFor(Kernel, "OP_ME_ALMBYTPAG", p, programa[p].pag) /\ programa' = programa
    BY <1>9, StoreCodeAsks DEF StoresCode
  <2> QED BY <1>2, <1>9, <2>1 DEF StoresCode
<1>10. CASE StoresStack(p)
  BY <1>2, <1>10, StoreStackAsks DEF StoresStack
<1>11. ASSUME NEW c \in Cpus, Dispatches(p, c) PROVE Talks'
  <2>1. /\ programa'[p].estado = "exec" /\ programa[p].estado = "ready"
        /\ \A q \in Pids : q # p => programa'[q] = programa[q]
        /\ en_cpu[c] = 0 /\ en_cpu'[c] = p /\ UNCHANGED hilo
        /\ \A d \in Cpus : d # c => en_cpu'[d] = en_cpu[d]
    <3>1. "exec" \in Estados /\ Becomes(p, "exec")
      BY <1>11 DEF Estados, Dispatches
    <3> QED BY <1>11, <3>1, BecomesType DEF Dispatches, MemType
  <2>2. KernelTalks'
    <3>1. \A q \in Pids : programa'[q].estado = programa[q].estado
              \/ {programa[q].estado, programa'[q].estado} \subseteq {"ready", "exec", "ending"}
      BY <2>1
    <3> QED BY <2>1, <3>1, KernelStays
  <2>3. \A d \in Cpus : en_cpu[d] # p
    BY <1>0, <2>1 DEF CpusTalk
  <2>4. CpusTalk'
    BY <1>0, <2>1, <2>3 DEF CpusTalk
  <2> QED BY <2>2, <2>4
<1> QED BY <1>3, <1>4, <1>6, <1>7, <1>8, <1>9, <1>10, <1>11

LEMMA CpuStepTalks ==
  ASSUME PidsFit, MemType, Talks, NEW c \in Cpus, CpuStep(c)
  PROVE  Talks'
<1> USE DEF Talks
<1>0. /\ \A q \in Pids : q \in Nat \ {0} /\ Usrpid(q) = q
      /\ Kernel \in Clients /\ Kernel # c /\ Cpus \subseteq Clients /\ c \in Clients
      /\ \A d \in Cpus : en_cpu[d] \in Pids \cup {0} /\ d # Kernel
  BY Sizes, UsrpidIs DEF MemType
<1>1. ASSUME NEW page, NEW op \in {"OP_ME_SOLBYTPAG", "OP_ME_ALMBYTPAG"},
             AsksFor(c, op, en_cpu[c], page), en_cpu[c] # 0
      PROVE  Talks'
  <2>1. /\ hilo'[c].at = "find" /\ hilo'[c].op = op
        /\ hilo'[c].usrpid = en_cpu[c] /\ UNCHANGED <<programa, en_cpu>>
        /\ \A d \in Clients : d # c => hilo'[d] = hilo[d]
    BY <1>0, <1>1 DEF AsksFor
  <2>2. KernelTalks'
    BY <1>0, <2>1, KernelStays
  <2>3. CpusTalk'
    BY <1>0, <1>1, <2>1 DEF CpusTalk
  <2> QED BY <2>2, <2>3
<1>2. ASSUME en_cpu[c] # 0, NEW first \in 1..programa[en_cpu[c]].size,
             NEW size \in 1..programa[en_cpu[c]].size,
             FetchesInstruction(c, first - 1, size)
      PROVE  Talks'
  BY <1>1, <1>2, FetchAsks
<1>3. ASSUME NEW position \in Variables, ReadsVariable(c, position) PROVE Talks'
  BY <1>1, <1>3, ReadAsks
<1>4. ASSUME NEW position \in Variables, NEW value \in Values,
             AssignsVariable(c, position, value)
      PROVE  Talks'
  BY <1>1, <1>4, AssignAsks
<1>5. CASE CpuGetsAnswer(c)
  <2>1. /\ hilo'[c].at = "idle" /\ UNCHANGED <<programa, en_cpu>>
        /\ \A d \in Clients : d # c => hilo'[d] = hilo[d]
    BY <1>0, <1>5, TakesAnswerType, IdleType DEF CpuGetsAnswer
  <2>2. KernelTalks'
    BY <1>0, <2>1, KernelStays
  <2>3. CpusTalk'
    BY <1>0, <2>1 DEF CpusTalk
  <2> QED BY <2>2, <2>3
<1>6. CASE FinishesProgram(c)
  <2> DEFINE p == en_cpu[c]
  <2>1. p \in Pids /\ hilo[c].at = "idle" /\ Becomes(p, "ending") /\ "ending" \in Estados
    BY <1>0, <1>6 DEF FinishesProgram, Runs, Estados
  <2>2. /\ programa'[p].estado = "ending" /\ programa[p].estado = "exec"
        /\ \A q \in Pids : q # p => programa'[q] = programa[q]
    BY ZenonT(60), <1>0, <2>1, BecomesType DEF CpusTalk
  <2>3. en_cpu'[c] = 0 /\ UNCHANGED hilo /\ \A d \in Cpus : d # c => en_cpu'[d] = en_cpu[d]
    BY <1>6 DEF FinishesProgram, MemType
  <2>4. KernelTalks'
    <3>1. \A q \in Pids : programa'[q].estado = programa[q].estado
              \/ {programa[q].estado, programa'[q].estado} \subseteq {"ready", "exec", "ending"}
      BY <2>2
    <3> QED BY <2>3, <3>1, KernelStays
  <2>5. \A d \in Cpus : d # c /\ en_cpu[d] # 0 => en_cpu[d] # p
    BY <2>1, <1>0 DEF CpusTalk
  <2>6. CpusTalk'
    BY <1>0, <2>1, <2>2, <2>3, <2>5 DEF CpusTalk
  <2> QED BY <2>4, <2>6
<1> QED BY <1>2, <1>3, <1>4, <1>5, <1>6 DEF CpuStep

\* The places a thread goes to from each place.
LEMMA ThreadGoes ==
  ASSUME MemType, NEW c \in Clients, ThreadStep(c)
  PROVE  /\ Serves(c)
         /\ \/ hilo[c].at = "start" /\ hilo'[c].at \in {"assign", "answered"}
            \/ hilo[c].at = "assign" /\ hilo'[c].at \in {"assign", "number", "answered"}
            \/ hilo[c].at = "number" /\ hilo'[c].at = "assign"
            \/ hilo[c].at = "clear" /\ hilo'[c].at \in {"clear", "zero", "answered"}
            \/ hilo[c].at = "zero" /\ hilo'[c].at = "clear"
            \/ hilo[c].at = "find" /\ hilo'[c].at \in {"find", "copy"}
            \/ hilo[c].at = "copy" /\ hilo'[c].at = "answered"
<1>1. CASE SetPagesCounts(c)
  BY <1>1, SetPagesCountsDoes DEF AtRow
<1>2. CASE SetsOwner(c)
  BY <1>2, SetsOwnerDoes DEF AtRow
<1>3. CASE NumbersPage(c)
  BY <1>3, NumbersPageDoes DEF AtRow
<1>4. CASE PagesSet(c)
  BY <1>4, PagesSetDoes
<1>5. CASE ClearsOwner(c)
  BY <1>5, ClearsOwnerDoes DEF AtRow
<1>6. CASE ClearsPage(c)
  BY <1>6, ClearsPageDoes DEF AtRow
<1>7. CASE PagesCleared(c)
  BY <1>7, PagesClearedDoes
<1>8. CASE GetFrame(c)
  BY <1>8, GetFrameDoes DEF AtRow
<1>9. CASE GetBytes(c)
  BY <1>9, GetBytesDoes
<1>10. CASE SetBytes(c)
  BY <1>10, SetBytesDoes
<1> QED BY <1>1, <1>2, <1>3, <1>4, <1>5, <1>6, <1>7, <1>8, <1>9, <1>10 DEF ThreadStep

LEMMA ThreadStepTalks ==
  ASSUME MemType, Talks, NEW c \in Clients, ThreadStep(c)
  PROVE  Talks'
<1> USE DEF Talks
<1>0. Kernel \in Clients /\ Cpus \subseteq Clients /\ Kernel \notin Cpus
  BY Sizes
<1>1. CASE c = Kernel
  <2>1. /\ UNCHANGED <<programa, en_cpu>> /\ \A d \in Cpus : hilo'[d] = hilo[d]
        /\ hilo'[Kernel].op = hilo[Kernel].op /\ hilo'[Kernel].usrpid = hilo[Kernel].usrpid
    BY <1>0, <1>1, ThreadGoes DEF Serves
  <2>2. CpusTalk'
    BY <2>1, CpusStay DEF CpusTalk
  <2>3. KernelTalks'
    BY <1>1, <2>1, ThreadGoes DEF KernelTalks, Busy
  <2> QED BY <2>2, <2>3
<1>2. CASE c \in Cpus
  <2>1. /\ UNCHANGED <<programa, en_cpu>> /\ hilo'[Kernel] = hilo[Kernel]
        /\ \A d \in Cpus : d # c => hilo'[d] = hilo[d]
        /\ hilo'[c].op = hilo[c].op /\ hilo'[c].usrpid = hilo[c].usrpid
    BY <1>0, <1>2, ThreadGoes DEF Serves
  <2>2. KernelTalks'
    BY <2>1, KernelStays
  <2>3. hilo[c].at # "idle" /\ hilo'[c].at \in {"find", "copy", "answered"}
    BY <1>2, ThreadGoes DEF CpusTalk
  <2>4. CpusTalk'
    BY <1>2, <2>1, <2>3 DEF CpusTalk
  <2> QED BY <2>2, <2>4
<1> QED BY <1>1, <1>2, Sizes

LEMMA TalksStep ==
  ASSUME PidsFit, MemType, Talks, [Next]_vars
  PROVE  Talks'
<1>1. CASE UNCHANGED vars
  BY <1>1 DEF vars, Talks, KernelTalks, CpusTalk, Busy
<1> QED BY <1>1, KernelStepTalks, CpuStepTalks, ThreadStepTalks DEF Next

----------------------------------------------------------------------------
(* The page table.                                                         *)

LEMMA RowsFinite ==
  ASSUME NEW S \in SUBSET Rows
  PROVE  IsFiniteSet(S) /\ Cardinality(S) \in Nat /\ Cardinality(S) <= Marcos
<1>1. /\ IsFiniteSet(Rows)
      /\ Cardinality(Rows) = IF 0 > Marcos - 1 THEN 0 ELSE (Marcos - 1) - 0 + 1
  <2>1. Marcos - 1 \in Int /\ 0 \in Int
    BY Sizes
  <2> QED BY <2>1, FS_Interval DEF Rows
<1>2. Cardinality(Rows) = Marcos
  BY <1>1, Sizes
<1>3. IsFiniteSet(S) /\ Cardinality(S) <= Cardinality(Rows)
  BY <1>1, FS_Subset
<1> QED BY <1>2, <1>3, FS_CardinalityType

\* n pages, numbered from 0, are in n rows.
LEMMA NumbersCount ==
  ASSUME MemType, NEW S \in SUBSET Rows, NEW n \in Nat, Numbers(S, 0, n)
  PROVE  Cardinality(S) = n /\ n <= Marcos
<1> DEFINE f == [r \in S |-> page_table[r].page]
           T == 0..(n - 1)
<1>1. \A r \in S : page_table[r].page \in T
  BY DEF Numbers, MemType, Entradas
<1>2. f \in Bijection(S, T)
  <2>1. f \in [S -> T]
    BY <1>1
  <2>2. \A r, t \in S : f[r] = f[t] => r = t
    BY DEF Numbers
  <2>3. \A k \in T : \E r \in S : f[r] = k
    BY DEF Numbers
  <2> HIDE DEF f, T
  <2>4. f \in Injection(S, T)
    BY <2>1, <2>2 DEF Injection, IsInjective
  <2>5. f \in Surjection(S, T)
    BY <2>1, <2>3 DEF Surjection
  <2> QED BY <2>4, <2>5 DEF Bijection
<1>3. ExistsBijection(S, T)
  BY <1>2 DEF ExistsBijection
<1>4. IsFiniteSet(S) /\ Cardinality(S) <= Marcos
  BY RowsFinite
<1>5. Cardinality(T) = Cardinality(S)
  BY <1>3, <1>4, FS_Bijection
<1>6. Cardinality(T) = IF 0 > n - 1 THEN 0 ELSE (n - 1) - 0 + 1
  BY FS_Interval
<1>7. Cardinality(T) = n
  BY <1>6
<1> QED BY <1>4, <1>5, <1>7

Table == RequestsHeld /\ TableInHand /\ Owned

LEMMA PagesNat == ASSUME MemType PROVE \A p \in Pids : PagesOf(p) \in Nat
<1>1. \A p \in Pids : programa[p].size \in Nat
  BY DEF MemType, Programa
<1> QED BY <1>1, Sizes DEF PagesOf

\* Whose request a look-up is.
LEMMA AskerIs ==
  ASSUME Talks, NEW c \in Clients, hilo[c].at \in {"find", "copy"}
  PROVE  \/ c = Kernel /\ \E p \in Pids : hilo[c].usrpid = p /\ programa[p].estado = "loading"
         \/ c \in Cpus /\ hilo[c].usrpid = en_cpu[c] /\ en_cpu[c] # 0
            /\ programa[en_cpu[c]].estado = "exec"
<1>1. CASE c = Kernel
  <2>1. PICK p \in Pids : Busy(p)
    BY <1>1 DEF Talks, KernelTalks
  <2> QED BY <1>1, <2>1 DEF Talks, KernelTalks, Busy
<1>2. CASE c \in Cpus
  BY <1>2 DEF Talks, CpusTalk
<1> QED BY <1>1, <1>2, Sizes

\* The space of q is not touched.
SpaceStays(q) ==
  /\ \A p \in Pids : p = q => InMemory(p)' /\ programa'[p].size = programa[p].size
  /\ \A r \in Rows : page_table[r].pid = q => page_table'[r] = page_table[r]

LEMMA RequestsStay ==
  ASSUME MemType, MemType', RequestsHeld,
         \A d \in Clients : hilo'[d] = hilo[d] \/ hilo'[d].at \notin {"find", "copy"} \/ Held(d)',
         \A d \in Clients : hilo'[d] = hilo[d] /\ hilo[d].at \in {"find", "copy"} =>
                              SpaceStays(hilo[d].usrpid)
  PROVE  RequestsHeld'
<1> SUFFICES ASSUME NEW d \in Clients, hilo'[d] = hilo[d], hilo[d].at \in {"find", "copy"}
             PROVE  Held(d)'
  BY DEF RequestsHeld
<1> DEFINE q == hilo[d].usrpid
<1>1. Held(d) /\ SpaceStays(q) /\ hilo[d] \in Hilo
  BY DEF RequestsHeld, MemType
<1>2. q \in Pids /\ InMemory(q)' /\ hilo[d].page < PagesOf(q)'
  BY <1>1 DEF Held, SpaceStays, PagesOf
<1>3. \A r \in Rows : HoldsPage(d, r) => HoldsPage(d, r)'
  BY <1>1 DEF HoldsPage, SpaceStays
<1>4. hilo[d].at = "copy" => HoldsPage(d, hilo[d].frame)'
  BY <1>1, <1>3 DEF Held, Hilo
<1>5. hilo[d].at # "copy" => \E r \in Rows : hilo[d].i <= r /\ HoldsPage(d, r)'
  BY <1>1, <1>3 DEF Held
<1> QED BY <1>2, <1>4, <1>5 DEF Held

\* A new request is for a page that has a row.
LEMMA HeldNew ==
  ASSUME PidsFit, MemType, TableInHand, NEW c \in Clients, NEW op, NEW p \in Pids, InMemory(p),
         NEW page \in Nat, page < PagesOf(p), AsksFor(c, op, p, page)
  PROVE  Held(c)'
<1>1. /\ hilo'[c].usrpid = p /\ hilo'[c].page = page /\ hilo'[c].at = "find" /\ hilo'[c].i = 0
      /\ UNCHANGED <<page_table, programa>>
  BY UsrpidIs DEF AsksFor
<1>2. Numbers(Mine(p), 0, PagesOf(p)) /\ page \in 0..(PagesOf(p) - 1)
  BY PagesNat DEF TableInHand
<1>3. PICK r \in Mine(p) : page_table[r].page = page
  BY <1>2 DEF Numbers
<1>4. r \in Rows /\ 0 <= r /\ page_table[r] \in Entradas /\ page_table[r].pid = p
  BY <1>3, Sizes DEF Mine, MemType
<1>5. page_table[r] = [pid |-> p, page |-> page]
  BY <1>3, <1>4 DEF Entradas
<1>6. HoldsPage(c, r)'
  BY <1>1, <1>5 DEF HoldsPage
<1>7. InMemory(p)' /\ page < PagesOf(p)'
  BY <1>1 DEF InMemory, PagesOf
<1> QED BY <1>1, <1>4, <1>6, <1>7 DEF Held

\* Only the clauses about p have to be shown when the Kernel moves p on.
LEMMA TableOfOne ==
  ASSUME MemType, Table, UNCHANGED page_table, NEW p \in Pids,
         \A q \in Pids : q # p => programa'[q] = programa[q]
                                  /\ programa[q].estado \notin {"asking", "freeing"},
         InMemory(p)' => Numbers(Mine(p), 0, PagesOf(p))',
         programa'[p].estado = "asking" => Assigned(p)',
         programa'[p].estado = "freeing" => Cleared(p)',
         Mine(p) = {} \/ InMemory(p)' \/ programa'[p].estado \in {"asking", "freeing"}
  PROVE  TableInHand' /\ Owned'
<1>1. TableInHand'
  <2> SUFFICES ASSUME NEW q \in Pids, q # p
               PROVE  /\ InMemory(q)' => Numbers(Mine(q), 0, PagesOf(q))'
                      /\ programa'[q].estado \notin {"asking", "freeing"}
    BY DEF TableInHand
  <2>1. InMemory(q)' <=> InMemory(q)
    BY DEF InMemory
  <2>2. PagesOf(q)' = PagesOf(q) /\ Mine(q)' = Mine(q)
    BY DEF PagesOf, Mine
  <2>3. Numbers(Mine(q), 0, PagesOf(q)) => Numbers(Mine(q), 0, PagesOf(q))'
    BY <2>2 DEF Numbers
  <2> QED BY <2>1, <2>3 DEF Table, TableInHand
<1>2. Owned'
  <2> SUFFICES ASSUME NEW r \in Rows, page_table[r].pid # 0
               PROVE  LET q == page_table[r].pid
                      IN  q \in Pids /\ (InMemory(q)' \/ programa'[q].estado \in {"asking", "freeing"})
    BY DEF Owned, InMemory
  <2> DEFINE q == page_table[r].pid
  <2>1. q \in Pids /\ (InMemory(q) \/ programa[q].estado \in {"asking", "freeing"})
    BY DEF Table, Owned
  <2>2. CASE q = p
    <3>1. r \in Mine(p)
      BY <2>2 DEF Mine
    <3> QED BY <2>1, <2>2, <3>1
  <2>3. CASE q # p
    BY <2>1, <2>3 DEF InMemory
  <2> QED BY <2>2, <2>3
<1> QED BY <1>1, <1>2

LEMMA KernelStepTable ==
  ASSUME PidsFit, MemType, MemType', Talks, Table, KernelStep
  PROVE  Table'
<1>0. /\ Kernel \in Clients /\ Kernel \notin Cpus /\ Cpus \subseteq Clients
      /\ \A c \in Cpus : en_cpu[c] \in Pids \cup {0} /\ c # Kernel
      /\ TableInHand /\ RequestsHeld /\ Owned
  BY Sizes DEF MemType, Table
<1> PICK p \in Pids :
    \/ \E size \in CodeSizes : AsksForPages(p, size)
    \/ GetsPages(p) \/ StoresCode(p) \/ StoresStack(p) \/ PageStored(p)
    \/ \E c \in Cpus : Dispatches(p, c)
    \/ EndsProgram(p) \/ EndsOrphan(p) \/ PagesFreed(p)
    BY DEF KernelStep
<1>1. PagesOf(p) \in Nat
  BY PagesNat
\* The requests of the CPUs are for programs that run.
<1>2. ASSUME UNCHANGED page_table, programa[p].estado # "exec",
             \A q \in Pids : q # p => programa'[q] = programa[q],
             \A d \in Clients : d # Kernel => hilo'[d] = hilo[d],
             hilo'[Kernel] = hilo[Kernel] => hilo[Kernel].at \notin {"find", "copy"},
             hilo'[Kernel].at \notin {"find", "copy"} \/ Held(Kernel)'
      PROVE  RequestsHeld'
  <2>1. ASSUME NEW d \in Clients, hilo'[d] = hilo[d], hilo[d].at \in {"find", "copy"}
        PROVE  SpaceStays(hilo[d].usrpid)
    <3> DEFINE q == hilo[d].usrpid
    <3>1. d \in Cpus /\ q = en_cpu[d] /\ en_cpu[d] # 0 /\ programa[q].estado = "exec"
      BY <1>2, <2>1, AskerIs
    <3>2. q \in Pids /\ q # p
      BY <1>0, <1>2, <3>1
    <3> QED BY <1>2, <3>1, <3>2 DEF SpaceStays, InMemory
  <2> QED BY <1>0, <1>2, <2>1, RequestsStay
<1>3. ASSUME NEW page \in Nat, page < PagesOf(p), AsksFor(Kernel, "OP_ME_ALMBYTPAG", p, page),
             programa[p].estado = "loading", hilo[Kernel].at = "idle"
      PROVE  Table'
  <2>1. Held(Kernel)'
    BY <1>0, <1>3, HeldNew DEF InMemory
  <2>2. /\ UNCHANGED <<page_table, programa, en_cpu>> 
        /\ \A d \in Clients : d # Kernel => hilo'[d] = hilo[d]
    BY <1>3 DEF AsksFor
  <2>3. \A q \in Pids : q # p => programa[q].estado \notin {"asking", "freeing"}
    BY <1>3 DEF Talks, KernelTalks, Busy
  <2>4. InMemory(p)' => Numbers(Mine(p), 0, PagesOf(p))'
    <3>1. Numbers(Mine(p), 0, PagesOf(p))
      BY <1>0, <1>3 DEF TableInHand, InMemory
    <3> QED BY <2>2, <3>1 DEF Numbers, Mine, PagesOf
  <2>5. TableInHand' /\ Owned'
    BY <1>0, <1>3, <2>2, <2>3, <2>4, TableOfOne DEF InMemory
  <2>6. RequestsHeld'
    <3>1. ASSUME NEW d \in Clients, hilo'[d] = hilo[d], hilo[d].at \in {"find", "copy"}
          PROVE  SpaceStays(hilo[d].usrpid)
      BY <1>0, <2>2, <3>1 DEF SpaceStays, RequestsHeld, Held, InMemory
    <3> QED BY <1>0, <2>1, <2>2, <3>1, RequestsStay
  <2> QED BY <2>5, <2>6 DEF Table
<1>4. ASSUME NEW size \in CodeSizes, AsksForPages(p, size) PROVE Table'
  <2>1. /\ hilo'[Kernel].at = "start" /\ hilo'[Kernel].i = 0 /\ hilo'[Kernel].pages = PagesOf(p)'
        /\ programa'[p].estado = "asking" /\ programa[p].estado = "new"
        /\ \A q \in Pids : q # p => programa'[q] = programa[q] /\ ~Busy(q)
        /\ UNCHANGED page_table /\ \A d \in Clients : d # Kernel => hilo'[d] = hilo[d]
        /\ hilo[Kernel].at = "idle"
    BY <1>4, StartAsks DEF KernelFree, Busy
  <2>2. Mine(p) = {} /\ Mine(p)' = {}
    <3>1. \A r \in Rows : page_table[r].pid = p => InMemory(p) \/ programa[p].estado \in {"asking", "freeing"}
      BY <1>0, Sizes DEF Owned
    <3> QED BY <2>1, <3>1 DEF Mine, InMemory
  <2>3. Assigned(p)'
    BY <2>1, <2>2 DEF Assigned
  <2>4. TableInHand' /\ Owned'
    BY <2>1, <2>2, <2>3, TableOfOne DEF InMemory, Busy
  <2>5. RequestsHeld'
    BY <1>2, <2>1
  <2> QED BY <2>4, <2>5 DEF Table
<1>5. CASE EndsProgram(p) \/ EndsOrphan(p)
  <2>1. /\ hilo'[Kernel].at = "clear" /\ hilo'[Kernel].i = 0
        /\ programa'[p].estado = "freeing" /\ programa[p].estado \in {"ready", "over", "ending"}
        /\ \A q \in Pids : q # p => programa'[q] = programa[q] /\ ~Busy(q)
        /\ UNCHANGED page_table /\ \A d \in Clients : d # Kernel => hilo'[d] = hilo[d]
        /\ hilo[Kernel].at = "idle"
    BY <1>5, ClearAsks DEF KernelFree, Busy
  <2>2. \A r \in Mine(p)' : 0 <= r
    BY Sizes DEF Mine
  <2>3. Cleared(p)'
    BY <2>1, <2>2 DEF Cleared
  <2>4. TableInHand' /\ Owned'
    BY <2>1, <2>3, TableOfOne DEF InMemory, Busy
  <2>5. RequestsHeld'
    BY <1>2, <2>1
  <2> QED BY <2>4, <2>5 DEF Table
\* The answer is in: the kernel moves on.
<1>6. ASSUME Busy(p), TakesAnswer(Kernel), Answered(Kernel), UNCHANGED page_table,
             programa'[p].estado \in {"loading", "ready", "over"},
             programa'[p].size = programa[p].size,
             \A q \in Pids : q # p => programa'[q] = programa[q],
             programa'[p].estado = "over" => Mine(p) = {},
             programa'[p].estado # "over" => Numbers(Mine(p), 0, PagesOf(p))
      PROVE  Table'
  <2>1. /\ hilo'[Kernel].at = "idle" /\ hilo[Kernel].at = "answered"
        /\ \A d \in Clients : d # Kernel => hilo'[d] = hilo[d]
    BY <1>0, <1>6, TakesAnswerType, IdleType DEF Answered
  <2>2. \A q \in Pids : q # p => programa[q].estado \notin {"asking", "freeing"}
    BY <1>6 DEF Talks, KernelTalks, Busy
  <2>3. InMemory(p)' => Numbers(Mine(p), 0, PagesOf(p))'
    BY <1>6 DEF InMemory, Numbers, Mine, PagesOf
  <2>4. Mine(p) = {} \/ InMemory(p)'
    BY <1>6 DEF InMemory
  <2>5. TableInHand' /\ Owned'
    BY <1>6, <2>2, <2>3, <2>4, TableOfOne
  <2>6. RequestsHeld'
    BY <1>2, <1>6, <2>1 DEF Busy
  <2> QED BY <2>5, <2>6 DEF Table
<1>7. CASE GetsPages(p)
  <2>1. PICK e \in {"loading", "over"} :
          Becomes(p, e) /\ (e = "loading" <=> hilo[Kernel].res # 0)
    BY <1>7 DEF GetsPages
  <2>2. e \in Estados
    BY DEF Estados
  <2>3. Assigned(p) /\ hilo[Kernel].at = "answered"
    BY <1>0, <1>7 DEF GetsPages, TableInHand, Answered
  <2>4. /\ e = "over" => Mine(p) = {}
        /\ e # "over" => Numbers(Mine(p), 0, PagesOf(p))
    BY <2>1, <2>3 DEF Assigned
  <2>5. /\ programa'[p].estado = e /\ programa'[p].size = programa[p].size
        /\ \A q \in Pids : q # p => programa'[q] = programa[q]
    BY <2>1, <2>2, BecomesType
  <2>6. Busy(p) /\ TakesAnswer(Kernel) /\ Answered(Kernel) /\ UNCHANGED page_table
    BY <1>7 DEF GetsPages, Busy
  <2> QED BY <1>6, <2>4, <2>5, <2>6
<1>8. CASE PagesFreed(p)
  <2>1. "over" \in Estados /\ Becomes(p, "over")
    BY <1>8 DEF Estados, PagesFreed
  <2>2. Mine(p) = {}
    BY <1>0, <1>8 DEF PagesFreed, TableInHand, Cleared, Answered
  <2>3. Busy(p) /\ TakesAnswer(Kernel) /\ Answered(Kernel) /\ UNCHANGED page_table
    BY <1>8 DEF PagesFreed, Busy
  <2> QED BY <1>6, <2>1, <2>2, <2>3, BecomesType
<1>9. CASE PageStored(p)
  <2>1. /\ programa[p].estado = "loading" /\ programa'[p].estado \in {"loading", "ready"}
        /\ programa'[p].size = programa[p].size
        /\ \A q \in Pids : q # p => programa'[q] = programa[q]
    BY <1>9 DEF PageStored, MemType, Programa
  <2>2. Numbers(Mine(p), 0, PagesOf(p))
    BY <1>0, <2>1 DEF TableInHand, InMemory
  <2>3. Busy(p) /\ TakesAnswer(Kernel) /\ Answered(Kernel) /\ UNCHANGED page_table
    BY <1>9 DEF PageStored, Busy
  <2> QED BY <1>6, <2>1, <2>2, <2>3
<1>10. CASE StoresCode(p)
  <2>1. programa[p].pag \in Nat /\ programa[p].estado = "loading" /\ hilo[Kernel].at = "idle"
    BY <1>10 DEF MemType, Programa, StoresCode
  <2> QED BY <1>3, <1>10, <2>1, StoreCodeAsks
<1>11. CASE StoresStack(p)
  BY <1>3, <1>11, StoreStackAsks DEF StoresStack
<1>12. ASSUME NEW c \in Cpus, Dispatches(p, c) PROVE Table'
  <2>1. "exec" \in Estados /\ Becomes(p, "exec") /\ UNCHANGED <<page_table, hilo>>
    BY <1>12 DEF Estados, Dispatches
  <2>2. /\ programa'[p].estado = "exec" /\ programa[p].estado = "ready"
        /\ programa'[p].size = programa[p].size
        /\ \A q \in Pids : q # p => programa'[q] = programa[q] /\ ~Busy(q)
        /\ hilo[Kernel].at = "idle"
    BY <1>12, <2>1, BecomesType DEF Dispatches, KernelFree, Busy
  <2>3. Numbers(Mine(p), 0, PagesOf(p))'
    <3>1. Numbers(Mine(p), 0, PagesOf(p))
      BY <1>0, <2>2 DEF TableInHand, InMemory
    <3>2. UNCHANGED page_table /\ PagesOf(p)' = PagesOf(p)
      BY <2>1, <2>2 DEF PagesOf
    <3>3. Mine(p)' = Mine(p)
      BY <3>2 DEF Mine
    <3> QED BY <3>1, <3>2, <3>3 DEF Numbers
  <2>4. TableInHand' /\ Owned'
    BY <2>1, <2>2, <2>3, TableOfOne DEF Busy, InMemory
  <2>5. RequestsHeld'
    BY <1>2, <2>1, <2>2
  <2> QED BY <2>4, <2>5 DEF Table
<1> QED BY <1>4, <1>5, <1>7, <1>8, <1>9, <1>10, <1>11, <1>12

\* Neither the table nor what the Kernel waits for changes.
LEMMA TableStays ==
  ASSUME MemType, TableInHand, Owned, UNCHANGED page_table,
         hilo'[Kernel] = hilo[Kernel] \/ \A p \in Pids : programa[p].estado \notin {"asking", "freeing"},
         \A p \in Pids : \/ programa'[p] = programa[p]
                         \/ InMemory(p) /\ InMemory(p)' /\ programa'[p].size = programa[p].size
  PROVE  TableInHand' /\ Owned'
<1>1. ASSUME NEW p \in Pids
      PROVE  /\ InMemory(p)' => Numbers(Mine(p), 0, PagesOf(p))'
             /\ programa'[p].estado = "asking" => Assigned(p)'
             /\ programa'[p].estado = "freeing" => Cleared(p)'
  <2>1. /\ Mine(p)' = Mine(p) /\ PagesOf(p)' = PagesOf(p)
        /\ InMemory(p)' => InMemory(p)
        /\ programa'[p].estado \in {"asking", "freeing"} =>
             programa'[p].estado = programa[p].estado /\ hilo'[Kernel] = hilo[Kernel]
    BY DEF Mine, PagesOf, InMemory
  <2>2. InMemory(p)' => Numbers(Mine(p), 0, PagesOf(p))'
    BY <2>1 DEF TableInHand, Numbers
  <2>3. programa'[p].estado = "asking" => Assigned(p)'
    <3>1. ASSUME programa'[p].estado = "asking" PROVE Assigned(p)'
      <4>1. /\ Assigned(p) /\ hilo'[Kernel] = hilo[Kernel]
            /\ Mine(p)' = Mine(p) /\ PagesOf(p)' = PagesOf(p)
        BY <2>1, <3>1 DEF TableInHand
      <4>2. \A S, first, last : Numbers(S, first, last) => Numbers(S, first, last)'
        BY DEF Numbers
      <4>3. \A i : FreeFrom(i)' = FreeFrom(i)
        BY DEF FreeFrom
      <4> QED BY <4>1, <4>2, <4>3 DEF Assigned
    <3> QED BY <3>1
  <2>4. programa'[p].estado = "freeing" => Cleared(p)'
    BY <2>1 DEF TableInHand, Cleared
  <2> QED BY <2>2, <2>3, <2>4
<1>2. TableInHand'
  BY <1>1 DEF TableInHand
<1>3. Owned'
  BY DEF Owned, InMemory
<1> QED BY <1>2, <1>3

LEMMA CpuStepTable ==
  ASSUME PidsFit, MemType, MemType', Talks, Table, NEW c \in Cpus, CpuStep(c)
  PROVE  Table'
<1>0. /\ c \in Clients /\ c # Kernel /\ Kernel \in Clients
      /\ en_cpu[c] \in Pids \cup {0}
      /\ en_cpu[c] # 0 => programa[en_cpu[c]].estado = "exec"
      /\ TableInHand /\ RequestsHeld /\ Owned
  BY Sizes DEF MemType, Table, Talks, CpusTalk
<1>1. ASSUME UNCHANGED <<page_table, programa>>, \A d \in Clients : d # c => hilo'[d] = hilo[d],
             hilo'[c].at \notin {"find", "copy"} \/ Held(c)',
             hilo'[c] = hilo[c] => hilo[c].at \notin {"find", "copy"}
      PROVE  Table'
  <2>1. TableInHand' /\ Owned'
    BY <1>0, <1>1, TableStays
  <2>2. RequestsHeld'
    <3>1. ASSUME NEW d \in Clients, hilo'[d] = hilo[d], hilo[d].at \in {"find", "copy"}
          PROVE  SpaceStays(hilo[d].usrpid)
      BY <1>0, <1>1, <3>1 DEF SpaceStays, RequestsHeld, Held, InMemory
    <3> QED BY <1>0, <1>1, <3>1, RequestsStay
  <2> QED BY <2>1, <2>2 DEF Table
<1>2. ASSUME NEW op, NEW page \in Nat, page < PagesOf(en_cpu[c]), en_cpu[c] # 0,
             AsksFor(c, op, en_cpu[c], page), hilo[c].at = "idle"
      PROVE  Table'
  <2>1. en_cpu[c] \in Pids /\ InMemory(en_cpu[c])
    BY <1>0, <1>2 DEF InMemory
  <2>2. Held(c)'
    BY <1>0, <1>2, <2>1, HeldNew
  <2> QED BY <1>1, <1>2, <2>2 DEF AsksFor
<1>3. ASSUME en_cpu[c] # 0, NEW first \in 1..programa[en_cpu[c]].size,
             NEW size \in 1..programa[en_cpu[c]].size,
             FetchesInstruction(c, first - 1, size)
      PROVE  Table'
  BY <1>2, <1>3, FetchAsks DEF FetchesInstruction, Runs
<1>4. ASSUME NEW position \in Variables, ReadsVariable(c, position) PROVE Table'
  <2>1. /\ AsksFor(c, "OP_ME_SOLBYTPAG", en_cpu[c], StackPage(en_cpu[c], position))
        /\ en_cpu[c] # 0 /\ en_cpu[c] \in Pids /\ hilo[c].at = "idle"
    BY <1>0, <1>4, ReadAsks DEF ReadsVariable, Runs
  <2>2. /\ StackPage(en_cpu[c], position) \in Nat
        /\ StackPage(en_cpu[c], position) < PagesOf(en_cpu[c])
    BY <2>1, PageOfStack
  <2> QED BY <1>2, <2>1, <2>2
<1>5. ASSUME NEW position \in Variables, NEW value \in Values,
             AssignsVariable(c, position, value)
      PROVE  Table'
  <2>1. /\ AsksFor(c, "OP_ME_ALMBYTPAG", en_cpu[c], StackPage(en_cpu[c], position))
        /\ en_cpu[c] # 0 /\ en_cpu[c] \in Pids /\ hilo[c].at = "idle"
    BY <1>0, <1>5, AssignAsks DEF AssignsVariable, Runs
  <2>2. /\ StackPage(en_cpu[c], position) \in Nat
        /\ StackPage(en_cpu[c], position) < PagesOf(en_cpu[c])
    BY <2>1, PageOfStack
  <2> QED BY <1>2, <2>1, <2>2
<1>6. CASE CpuGetsAnswer(c)
  <2>1. /\ hilo'[c].at = "idle" /\ hilo[c].at = "answered"
        /\ \A d \in Clients : d # c => hilo'[d] = hilo[d]
    BY <1>0, <1>6, TakesAnswerType, IdleType DEF CpuGetsAnswer, Answered
  <2> QED BY <1>1, <1>6, <2>1 DEF CpuGetsAnswer
<1>7. CASE FinishesProgram(c)
  <2> DEFINE p == en_cpu[c]
  <2>1. /\ p \in Pids /\ hilo[c].at = "idle" /\ Becomes(p, "ending") /\ "ending" \in Estados
        /\ UNCHANGED <<page_table, hilo>>
    BY <1>0, <1>7 DEF FinishesProgram, Runs, Estados
  <2>2. /\ programa'[p].estado = "ending" /\ programa[p].estado = "exec"
        /\ programa'[p].size = programa[p].size
        /\ \A q \in Pids : q # p => programa'[q] = programa[q]
    <3>1. p # 0
      BY <2>1, Sizes
    <3> QED BY <1>0, <2>1, <3>1, BecomesType
  <2>3. \A q \in Pids : \/ programa'[q] = programa[q]
                        \/ InMemory(q) /\ InMemory(q)' /\ programa'[q].size = programa[q].size
    BY <2>2 DEF InMemory
  <2>4. TableInHand' /\ Owned'
    BY <1>0, <2>1, <2>3, TableStays
  <2>5. RequestsHeld'
    <3>1. ASSUME NEW d \in Clients, hilo[d].at \in {"find", "copy"}
          PROVE  SpaceStays(hilo[d].usrpid)
      BY <1>0, <2>1, <2>3, <3>1 DEF SpaceStays, RequestsHeld, Held, InMemory
    <3> QED BY <1>0, <2>1, <3>1, RequestsStay
  <2> QED BY <2>4, <2>5 DEF Table
<1> QED BY <1>3, <1>4, <1>5, <1>6, <1>7 DEF CpuStep

----------------------------------------------------------------------------
(* The threads and the page table.                                         *)

\* A row that was free or of p, and is so afterwards, is nothing to the others.
LEMMA OthersKeep ==
  ASSUME MemType, NEW p \in Pids, NEW i \in Rows, NEW entrada, RowSet(i, entrada),
         page_table[i].pid \in {0, p}, entrada.pid \in {0, p}
  PROVE  \A q \in Pids : q # p =>
           /\ Mine(q)' = Mine(q)
           /\ \A r \in Rows : page_table[r].pid = q => page_table'[r] = page_table[r]
<1> SUFFICES ASSUME NEW q \in Pids, q # p
             PROVE  /\ Mine(q)' = Mine(q)
                    /\ \A r \in Rows : page_table[r].pid = q => page_table'[r] = page_table[r]
  OBVIOUS
<1>1. q # 0
  BY Sizes
<1>2. \A r \in Rows : page_table[r].pid = q => page_table'[r] = page_table[r]
  BY <1>1 DEF RowSet
<1>3. \A r \in Rows : page_table'[r].pid = q <=> page_table[r].pid = q
  BY <1>1 DEF RowSet
<1> QED BY <1>2, <1>3 DEF Mine

\* The Kernel's thread changes a row of the program it serves, or a free one.
LEMMA TableOfThread ==
  ASSUME MemType, MemType', Talks, Table, Serves(Kernel), hilo'[Kernel].at \notin {"find", "copy"},
         hilo[Kernel].at \notin {"find", "copy"},
         NEW p \in Pids, programa[p].estado \in {"asking", "freeing"},
         UNCHANGED page_table
         \/ \E i \in Rows, entrada \in Entradas :
              /\ RowSet(i, entrada) /\ page_table[i].pid \in {0, p} /\ entrada.pid \in {0, p},
         programa[p].estado = "asking" => Assigned(p)',
         programa[p].estado = "freeing" => Cleared(p)'
  PROVE  Table'
<1>0. /\ UNCHANGED <<programa, en_cpu>> /\ \A d \in Clients : d # Kernel => hilo'[d] = hilo[d]
      /\ TableInHand /\ RequestsHeld /\ Owned
  BY DEF Serves, Table
<1>1. \A q \in Pids : q # p =>
        /\ Mine(q)' = Mine(q)
        /\ \A r \in Rows : page_table[r].pid = q => page_table'[r] = page_table[r]
  <2>1. CASE UNCHANGED page_table
    BY <2>1 DEF Mine
  <2>2. ASSUME NEW i \in Rows, NEW entrada \in Entradas, RowSet(i, entrada),
               page_table[i].pid \in {0, p}, entrada.pid \in {0, p}
        PROVE  \A q \in Pids : q # p =>
                 /\ Mine(q)' = Mine(q)
                 /\ \A r \in Rows : page_table[r].pid = q => page_table'[r] = page_table[r]
    BY <2>2, OthersKeep
  <2> QED BY <2>1, <2>2
<1>2. TableInHand'
  <2> SUFFICES ASSUME NEW q \in Pids
               PROVE  /\ InMemory(q)' => Numbers(Mine(q), 0, PagesOf(q))'
                      /\ programa'[q].estado = "asking" => Assigned(q)'
                      /\ programa'[q].estado = "freeing" => Cleared(q)'
    BY DEF TableInHand
  <2>1. CASE q = p
    BY <1>0, <2>1 DEF InMemory
  <2>2. CASE q # p
    <3>1. programa'[q].estado \notin {"asking", "freeing"}
      BY <1>0, <2>2 DEF Talks, KernelTalks, Busy
    <3>2. ASSUME InMemory(q)' PROVE Numbers(Mine(q), 0, PagesOf(q))'
      <4>1. Numbers(Mine(q), 0, PagesOf(q)) /\ PagesOf(q)' = PagesOf(q) /\ Mine(q)' = Mine(q)
        BY <1>0, <1>1, <2>2, <3>2 DEF TableInHand, InMemory, PagesOf
      <4>2. \A r \in Mine(q) : page_table'[r] = page_table[r]
        BY <1>1, <2>2 DEF Mine
      <4> QED BY <4>1, <4>2 DEF Numbers
    <3> QED BY <3>1, <3>2
  <2> QED BY <2>1, <2>2
<1>3. Owned'
  <2>1. ASSUME NEW r \in Rows, NEW q, q = page_table'[r].pid, q # 0
        PROVE  q \in Pids /\ (InMemory(q)' \/ programa'[q].estado \in {"asking", "freeing"})
    <3>1. q = page_table[r].pid \/ q = p
      BY <2>1 DEF RowSet
    <3>2. q \in Pids /\ (InMemory(q) \/ programa[q].estado \in {"asking", "freeing"})
      BY <1>0, <2>1, <3>1 DEF Owned
    <3> QED BY <1>0, <3>2 DEF InMemory
  <2>2. \A r \in Rows : page_table'[r].pid # 0 =>
          /\ page_table'[r].pid \in Pids
          /\ programa'[page_table'[r].pid].estado
               \in {"loading", "ready", "exec", "ending", "asking", "freeing"}
    BY <2>1 DEF InMemory
  <2> QED BY <2>2 DEF Owned, InMemory
<1>4. RequestsHeld'
  <2>1. ASSUME NEW d \in Clients, hilo'[d] = hilo[d], hilo[d].at \in {"find", "copy"}
        PROVE  SpaceStays(hilo[d].usrpid)
    <3>1. d # Kernel /\ Held(d)
      BY <1>0, <2>1 DEF RequestsHeld
    <3>2. hilo[d].usrpid \in Pids /\ InMemory(hilo[d].usrpid) /\ hilo[d].usrpid # p
      BY <3>1 DEF Held, InMemory
    <3> QED BY <1>0, <1>1, <3>2 DEF SpaceStays, InMemory
  <2> QED BY <1>0, <2>1, RequestsStay
<1> QED BY <1>2, <1>3, <1>4 DEF Table

LEMMA FreeFromFinite ==
  ASSUME NEW i
  PROVE  IsFiniteSet(FreeFrom(i)) /\ Cardinality(FreeFrom(i)) \in Nat
BY RowsFinite DEF FreeFrom

\* While set_pages or clear_pages runs, it is for one program.
LEMMA ServedProgram ==
  ASSUME Talks, hilo[Kernel].at \in {"start", "assign", "number", "clear", "zero"}
  PROVE  \E p \in Pids : /\ hilo[Kernel].usrpid = p
                         /\ IF hilo[Kernel].at \in {"clear", "zero"} THEN programa[p].estado = "freeing"
                            ELSE programa[p].estado = "asking"
<1>1. PICK p \in Pids : Busy(p)
  BY DEF Talks, KernelTalks
<1> QED BY <1>1 DEF Talks, KernelTalks, Busy

LEMMA SetPagesTable ==
  ASSUME MemType, MemType', Talks, Table,
         SetPagesCounts(Kernel) \/ SetsOwner(Kernel) \/ NumbersPage(Kernel) \/ PagesSet(Kernel)
  PROVE  Table'
<1>a. PICK n \in Nat, i \in 0..Marcos : n = hilo[Kernel].pages /\ i = hilo[Kernel].i
  BY Sizes DEF MemType, Hilo
<1>0. /\ Kernel \in Clients /\ n \in Nat /\ i \in 0..Marcos /\ Marcos \in Nat /\ MemType
      /\ n = hilo[Kernel].pages /\ i = hilo[Kernel].i
      /\ hilo[Kernel].usrpid \in Usrpids /\ TableInHand
  BY <1>a, Sizes DEF MemType, Hilo, Table
<1>1. hilo[Kernel].at \in {"start", "assign", "number"}
  BY DEF SetPagesCounts, SetsOwner, NumbersPage, PagesSet
<1>2. PICK p \in Pids : hilo[Kernel].usrpid = p /\ programa[p].estado = "asking"
  BY <1>1, ServedProgram
<1>3. Assigned(p) /\ PagesOf(p) \in Nat /\ p # 0
  BY <1>0, <1>2, PagesNat, Sizes DEF TableInHand
<1>4. ASSUME Serves(Kernel) PROVE PagesOf(p)' = PagesOf(p) /\ programa' = programa
  BY <1>4 DEF Serves, PagesOf
<1>5. CASE SetPagesCounts(Kernel)
  <2>1. /\ Serves(Kernel) /\ UNCHANGED page_table /\ hilo[Kernel].at = "start"
        /\ \/ hilo'[Kernel].at = "answered" /\ hilo'[Kernel].res = 0
           \/ /\ hilo'[Kernel].at = "assign" /\ hilo'[Kernel].i = i /\ hilo'[Kernel].pages = n
              /\ ~(Cardinality(FreeRows) < n)
    BY <1>0, <1>5, SetPagesCountsDoes DEF AtRow
  <2>2. Mine(p) = {} /\ i = 0 /\ n = PagesOf(p) /\ Mine(p)' = {}
    BY <1>0, <1>3, <2>1 DEF Assigned, Mine
  <2>3. FreeFrom(0) = FreeRows /\ FreeFrom(0)' = FreeFrom(0)
    BY <2>1, Sizes DEF FreeFrom, FreeRows
  <2>4. Assigned(p)'
    <3>1. CASE hilo'[Kernel].at = "answered"
      BY <2>1, <2>2, <3>1 DEF Assigned
    <3>2. CASE hilo'[Kernel].at = "assign"
      <4>1. Cardinality(FreeFrom(0)) \in Nat /\ n <= Cardinality(FreeFrom(0))
        BY <1>0, <2>1, <2>3, <3>2, FreeFromFinite
      <4>2. Numbers(Mine(p), n, PagesOf(p))'
        BY <1>3, <1>4, <2>1, <2>2 DEF Numbers
      <4>3. /\ hilo'[Kernel].pages = PagesOf(p)' /\ hilo'[Kernel].i = 0
            /\ hilo'[Kernel].pages <= Cardinality(FreeFrom(0)')
        BY <1>4, <2>1, <2>2, <2>3, <3>2, <4>1
      <4>4. Numbers(Mine(p), hilo[Kernel].pages, PagesOf(p))'
        BY <1>3, <1>4, <2>1, <2>2, <4>3 DEF Numbers
      <4>5. PagesOf(p)' \in Nat
        BY <1>3, <1>4, <2>1
      <4> QED BY <2>2, <3>2, <4>3, <4>4, <4>5 DEF Assigned
    <3> QED BY <2>1, <3>1, <3>2
  <2> QED BY <1>2, <2>1, <2>4, TableOfThread
<1>6. CASE SetsOwner(Kernel)
  <2>1. /\ Serves(Kernel) /\ hilo[Kernel].at = "assign" /\ i \in Rows
        /\ hilo'[Kernel].pages = n /\ n > 0
        /\ \/ /\ page_table[i].pid = 0 /\ hilo'[Kernel].at = "number" /\ hilo'[Kernel].i = i
              /\ RowSet(i, [page_table[i] EXCEPT !.pid = p])
           \/ /\ page_table[i].pid # 0 /\ hilo'[Kernel].at = "assign" /\ hilo'[Kernel].i = i + 1
              /\ UNCHANGED page_table
    BY <1>0, <1>2, <1>6, SetsOwnerDoes DEF AtRow
  <2>2. /\ n <= PagesOf(p) /\ Numbers(Mine(p), n, PagesOf(p))
        /\ \A r \in Mine(p) : r < i
        /\ n <= Cardinality(FreeFrom(i))
    BY <1>0, <1>3, <2>1 DEF Assigned
  <2>3. CASE page_table[i].pid = 0
    <3> DEFINE entrada == [page_table[i] EXCEPT !.pid = p]
    <3>1. /\ entrada \in Entradas /\ entrada.pid = p
          /\ page_table'[i].pid = p /\ \A t \in Rows : t # i => page_table'[t] = page_table[t]
          /\ RowSet(i, entrada)
      <4>1. page_table[i] \in Entradas /\ p \in Usrpids
        BY <1>0, <1>2, <2>1 DEF MemType
      <4> QED BY <2>1, <2>3, <4>1 DEF RowSet, Entradas
    <3>2. Mine(p)' = Mine(p) \cup {i} /\ i \notin Mine(p) /\ Mine(p)' \ {i} = Mine(p)
      BY <1>3, <2>1, <2>3, <3>1 DEF Mine
    <3>3. Numbers(Mine(p) \ {i}, n, PagesOf(p))'
      <4>1. \A r \in Mine(p) : page_table'[r] = page_table[r]
        BY <3>1, <3>2 DEF Mine
      <4> QED BY <1>4, <2>1, <2>2, <3>2, <4>1 DEF Numbers
    <3>4. FreeFrom(i + 1)' = FreeFrom(i) \ {i} /\ i \in FreeFrom(i)
      <4>1. \A r \in Rows : r \in Nat
        BY Sizes
      <4> QED BY <1>3, <2>1, <2>3, <3>1, <4>1 DEF FreeFrom
    <3>5. /\ IsFiniteSet(FreeFrom(i)) /\ Cardinality(FreeFrom(i)) \in Nat
          /\ Cardinality(FreeFrom(i) \ {i}) = Cardinality(FreeFrom(i)) - 1
      BY <3>4, FreeFromFinite, FS_RemoveElement
    <3>6. n <= Cardinality(FreeFrom(i + 1)') + 1
      <4>1. Cardinality(FreeFrom(i + 1)') = Cardinality(FreeFrom(i)) - 1
        BY <3>4, <3>5
      <4>2. \A k, m, l \in Int : k <= m /\ l = m - 1 => k <= l + 1
        OBVIOUS
      <4> QED BY <1>0, <2>2, <3>5, <4>1, <4>2
    <3>7. \A r \in Mine(p)' : r <= i
      <4>1. \A r \in Rows : r \in Nat
        BY Sizes
      <4> QED BY <2>1, <2>2, <3>2, <4>1 DEF Mine
    <3>8. hilo'[Kernel].at = "number" /\ hilo'[Kernel].i = i /\ hilo'[Kernel].pages = n
      BY <2>1, <2>3
    <3>9. FreeFrom(hilo[Kernel].i + 1)' = FreeFrom(i) \ {i}
      BY <3>4, <3>8 DEF FreeFrom
    <3>10. Assigned(p)'
      <4>1. hilo'[Kernel].pages <= Cardinality(FreeFrom(hilo[Kernel].i + 1)') + 1
        BY <3>4, <3>6, <3>8, <3>9
      <4>2. Numbers(Mine(p) \ {hilo[Kernel].i}, hilo[Kernel].pages, PagesOf(p))'
        BY <3>3, <3>8 DEF Numbers
      <4> QED BY <1>4, <2>1, <2>2, <3>2, <3>7, <3>8, <4>1, <4>2 DEF Assigned
    <3> QED BY <1>2, <2>1, <2>3, <3>1, <3>8, <3>10, TableOfThread
  <2>4. CASE page_table[i].pid # 0
    <3>1. /\ hilo'[Kernel].at = "assign" /\ hilo'[Kernel].i = i + 1 /\ UNCHANGED page_table
          /\ Mine(p)' = Mine(p) /\ hilo'[Kernel].pages = n
      BY <2>1, <2>4 DEF Mine
    <3>2. FreeFrom(i + 1) = FreeFrom(i) /\ FreeFrom(hilo[Kernel].i)' = FreeFrom(i + 1)
      <4>1. \A r \in Rows : r \in Nat
        BY Sizes
      <4> QED BY <2>1, <2>4, <3>1, <4>1 DEF FreeFrom
    <3>3. \A r \in Mine(p)' : r < i + 1
      <4>1. ASSUME NEW r \in Mine(p) PROVE r < i + 1
        <5>1. r \in Nat /\ r < i
          BY <2>2, Sizes DEF Mine
        <5> QED BY <1>0, <5>1
      <4> QED BY <3>1, <4>1
    <3>4. Numbers(Mine(p), hilo[Kernel].pages, PagesOf(p))'
      BY <1>4, <2>1, <2>2, <3>1 DEF Numbers
    <3>5. Assigned(p)'
      BY <1>4, <2>1, <2>2, <3>1, <3>2, <3>3, <3>4 DEF Assigned
    <3> QED BY <1>2, <2>1, <3>1, <3>5, TableOfThread
  <2> QED BY <2>3, <2>4
<1>7. CASE NumbersPage(Kernel)
  <2> DEFINE entrada == [page_table[i] EXCEPT !.page = n - 1]
  <2>1. /\ Serves(Kernel) /\ hilo[Kernel].at = "number" /\ i \in Rows
        /\ hilo'[Kernel].at = "assign" /\ hilo'[Kernel].i = i + 1
        /\ hilo'[Kernel].pages = n - 1 /\ n > 0 /\ RowSet(i, entrada)
    BY <1>0, <1>7, NumbersPageDoes DEF AtRow
  <2>2. /\ i \in Mine(p) /\ n <= PagesOf(p)
        /\ Numbers(Mine(p) \ {i}, n, PagesOf(p))
        /\ \A r \in Mine(p) : r <= i
        /\ n <= Cardinality(FreeFrom(i + 1)) + 1
    BY <1>0, <1>3, <2>1 DEF Assigned
  <2>3. /\ entrada \in Entradas /\ entrada.pid = p /\ page_table[i].pid = p
        /\ page_table'[i].pid = p /\ page_table'[i].page = n - 1
        /\ \A t \in Rows : t # i => page_table'[t] = page_table[t]
    <3>1. page_table[i] \in Entradas /\ page_table[i].pid = p /\ n - 1 \in Nat
      BY <1>0, <2>1, <2>2 DEF MemType, Mine
    <3> QED BY <2>1, <3>1 DEF RowSet, Entradas
  <2>4. Mine(p)' = Mine(p)
    BY <2>1, <2>3 DEF Mine
  <2>5. FreeFrom(hilo[Kernel].i)' = FreeFrom(i + 1)
    <3>1. \A r \in Rows : r \in Nat
      BY Sizes
    <3> QED BY <2>1, <2>3, <3>1 DEF FreeFrom
  <2>6. \A r \in Mine(p)' : r < i + 1
    <3>1. ASSUME NEW r \in Mine(p) PROVE r < i + 1
      <4>1. r \in Nat /\ r <= i
        BY <2>2, Sizes DEF Mine
      <4> QED BY <1>0, <4>1
    <3> QED BY <2>4, <3>1
  <2>7. Numbers(Mine(p), hilo[Kernel].pages, PagesOf(p))'
    <3>1. \A r \in Mine(p) \ {i} : /\ page_table'[r] = page_table[r]
                                   /\ n <= page_table[r].page /\ page_table[r].page < PagesOf(p)
                                   /\ page_table[r].page \in Nat
      BY <2>2, <2>3 DEF Mine, Numbers, MemType, Entradas
    <3>2. \A r \in Mine(p) : n - 1 <= page_table'[r].page /\ page_table'[r].page < PagesOf(p)
      BY <1>0, <1>3, <2>1, <2>2, <2>3, <3>1
    <3>3. \A k \in (n - 1)..(PagesOf(p) - 1) : \E r \in Mine(p) : page_table'[r].page = k
      <4> TAKE k \in (n - 1)..(PagesOf(p) - 1)
      <4>1. CASE k = n - 1
        BY <2>2, <2>3, <4>1
      <4>2. CASE k # n - 1
        <5>1. k \in n..(PagesOf(p) - 1)
          BY <1>0, <1>3, <4>2
        <5>2. PICK r \in Mine(p) \ {i} : page_table[r].page = k
          BY <2>2, <5>1 DEF Numbers
        <5> QED BY <3>1, <5>2
      <4> QED BY <4>1, <4>2
    <3>4. \A r, t \in Mine(p) : page_table'[r].page = page_table'[t].page => r = t
      <4>1. \A r \in Mine(p) \ {i} : page_table'[r].page # n - 1
        BY <1>0, <2>1, <3>1
      <4> QED BY <2>2, <2>3, <3>1, <4>1 DEF Numbers
    <3> QED BY <1>4, <2>1, <2>4, <3>2, <3>3, <3>4 DEF Numbers
  <2>8. Assigned(p)'
    <3>1. n - 1 <= PagesOf(p) /\ n - 1 <= Cardinality(FreeFrom(i + 1))
      BY <1>0, <1>3, <2>2, FreeFromFinite
    <3> QED BY <1>4, <2>1, <2>5, <2>6, <2>7, <3>1 DEF Assigned
  <2> QED BY <1>2, <2>1, <2>3, <2>8, TableOfThread
<1>8. CASE PagesSet(Kernel)
  <2>1. /\ Serves(Kernel) /\ UNCHANGED page_table /\ hilo[Kernel].at = "assign"
        /\ i = Marcos \/ n = 0
        /\ hilo'[Kernel].at = "answered" /\ hilo'[Kernel].res = 1
    BY <1>0, <1>8, PagesSetDoes
  <2>2. Numbers(Mine(p), n, PagesOf(p)) /\ n <= Cardinality(FreeFrom(i))
    BY <1>0, <1>3, <2>1 DEF Assigned
  <2>3. n = 0
    <3>1. CASE i = Marcos
      <4>1. FreeFrom(i) = {}
        BY <3>1, Sizes DEF FreeFrom
      <4> QED BY <1>0, <2>2, <4>1, FS_EmptySet
    <3> QED BY <2>1, <3>1
  <2>4. Numbers(Mine(p), 0, PagesOf(p))'
    BY <1>4, <2>1, <2>2, <2>3 DEF Numbers, Mine
  <2>5. Assigned(p)'
    BY <2>1, <2>4 DEF Assigned
  <2> QED BY <1>2, <2>1, <2>5, TableOfThread
<1> QED BY <1>5, <1>6, <1>7, <1>8

LEMMA ClearPagesTable ==
  ASSUME MemType, MemType', Talks, Table,
         ClearsOwner(Kernel) \/ ClearsPage(Kernel) \/ PagesCleared(Kernel)
  PROVE  Table'
<1>a. PICK i \in 0..Marcos : i = hilo[Kernel].i
  BY Sizes DEF MemType, Hilo
<1>0. /\ Kernel \in Clients /\ Marcos \in Nat /\ TableInHand
      /\ \A r \in Rows : r \in Nat /\ r < Marcos
  BY Sizes DEF Table
<1>1. hilo[Kernel].at \in {"clear", "zero"}
  BY DEF ClearsOwner, ClearsPage, PagesCleared
<1>2. PICK p \in Pids : hilo[Kernel].usrpid = p /\ programa[p].estado = "freeing"
  BY <1>1, ServedProgram
<1>3. Cleared(p) /\ p > 0
  BY <1>0, <1>2, Sizes DEF TableInHand
<1>4. CASE ClearsOwner(Kernel)
  <2> DEFINE entrada == [page_table[i] EXCEPT !.pid = 0]
  <2>1. /\ Serves(Kernel) /\ hilo[Kernel].at = "clear" /\ i \in Rows
        /\ \/ /\ page_table[i].pid = p /\ hilo'[Kernel].at = "zero" /\ hilo'[Kernel].i = i
              /\ RowSet(i, entrada)
           \/ /\ page_table[i].pid # p /\ hilo'[Kernel].at = "clear" /\ hilo'[Kernel].i = i + 1
              /\ UNCHANGED page_table
    BY <1>a, <1>0, <1>2, <1>4, ClearsOwnerDoes DEF AtRow
  <2>2. \A r \in Mine(p) : i <= r
    BY <1>a, <1>3, <2>1 DEF Cleared
  <2>3. CASE page_table[i].pid = p
    <3>1. /\ entrada \in Entradas /\ entrada.pid = 0 /\ page_table'[i].pid = 0
          /\ \A t \in Rows : t # i => page_table'[t] = page_table[t]
          /\ hilo'[Kernel].at = "zero" /\ hilo'[Kernel].i = i /\ RowSet(i, entrada)
      <4>1. page_table[i] \in Entradas
        BY <2>1 DEF MemType
      <4> QED BY <2>1, <2>3, <4>1, Sizes DEF RowSet, Entradas
    <3>2. \A r \in Mine(p)' : r \in Mine(p) /\ r # i
      BY <1>3, <2>1, <3>1 DEF Mine
    <3>3. ASSUME NEW r \in Mine(p)' PROVE i < r
      <4>1. i <= r /\ r # i /\ r \in Rows
        BY <2>2, <3>2 DEF Mine
      <4> QED BY <1>0, <4>1
    <3>4. Cleared(p)'
      BY <3>1, <3>3 DEF Cleared
    <3> QED BY <1>2, <2>1, <2>3, <3>1, <3>4, TableOfThread
  <2>4. CASE page_table[i].pid # p
    <3>1. ASSUME NEW r \in Mine(p) PROVE i + 1 <= r
      <4>1. i <= r /\ r # i /\ r \in Rows
        BY <2>2, <2>4 DEF Mine
      <4> QED BY <1>0, <4>1
    <3>2. Cleared(p)'
      BY <2>1, <2>4, <3>1 DEF Cleared, Mine
    <3> QED BY <1>2, <2>1, <2>4, <3>2, TableOfThread
  <2> QED BY <2>3, <2>4
<1>5. CASE ClearsPage(Kernel)
  <2> DEFINE entrada == [page_table[i] EXCEPT !.page = 0]
  <2>1. /\ Serves(Kernel) /\ hilo[Kernel].at = "zero" /\ i \in Rows
        /\ hilo'[Kernel].at = "clear" /\ hilo'[Kernel].i = i + 1 /\ RowSet(i, entrada)
    BY <1>a, <1>0, <1>5, ClearsPageDoes DEF AtRow
  <2>2. page_table[i].pid = 0 /\ \A r \in Mine(p) : i < r
    BY <1>a, <1>3, <2>1 DEF Cleared
  <2>3. /\ entrada \in Entradas /\ entrada.pid = 0 /\ page_table'[i].pid = 0
        /\ \A t \in Rows : t # i => page_table'[t] = page_table[t]
    <3>1. page_table[i] \in Entradas
      BY <2>1 DEF MemType
    <3> QED BY <2>1, <2>2, <3>1 DEF RowSet, Entradas
  <2>4. ASSUME NEW r \in Mine(p)' PROVE i + 1 <= r
    <3>1. r \in Mine(p) /\ r \in Rows
      BY <1>3, <2>1, <2>3 DEF Mine
    <3> QED BY <1>0, <2>2, <3>1
  <2>5. Cleared(p)'
    BY <2>1, <2>4 DEF Cleared
  <2> QED BY <1>2, <2>1, <2>2, <2>3, <2>5, TableOfThread
<1>6. CASE PagesCleared(Kernel)
  <2>1. /\ Serves(Kernel) /\ UNCHANGED page_table /\ hilo[Kernel].at = "clear"
        /\ p <= 0 \/ i = Marcos
        /\ hilo'[Kernel].at = "answered"
    BY <1>a, <1>0, <1>2, <1>6, PagesClearedDoes
  <2>2. i = Marcos
    BY <1>3, <2>1, Sizes
  <2>3. \A r \in Mine(p) : Marcos <= r
    BY <1>a, <1>3, <2>1, <2>2 DEF Cleared
  <2>4. Mine(p) = {}
    <3>1. ASSUME NEW r \in Mine(p) PROVE FALSE
      <4>1. r \in Nat /\ r < Marcos /\ Marcos <= r
        BY <1>0, <2>3 DEF Mine
      <4> QED BY <1>0, <4>1
    <3> QED BY <3>1
  <2>5. Cleared(p)'
    BY <2>1, <2>4 DEF Cleared, Mine
  <2> QED BY <1>2, <2>1, <2>5, TableOfThread
<1> QED BY <1>4, <1>5, <1>6

\* A look-up and a copy leave the table alone, and the look-up finds its page.
LEMMA LookUpTable ==
  ASSUME MemType, MemType', Talks, Table, NEW c \in Clients,
         GetFrame(c) \/ GetBytes(c) \/ SetBytes(c)
  PROVE  Table'
<1>0. TableInHand /\ RequestsHeld /\ Owned
  BY DEF Table
<1>1. /\ Serves(c) /\ UNCHANGED page_table /\ hilo[c].at \in {"find", "copy"}
      /\ \/ GetFrame(c) /\ hilo[c].at = "find"
         \/ hilo'[c].at = "answered"
  BY GetFrameDoes, GetBytesDoes, SetBytesDoes
<1>2. /\ UNCHANGED <<programa, en_cpu>> /\ \A d \in Clients : d # c => hilo'[d] = hilo[d]
      /\ hilo'[c].usrpid = hilo[c].usrpid /\ hilo'[c].page = hilo[c].page
  BY <1>1 DEF Serves
<1>3. Held(c)
  BY <1>0, <1>1 DEF RequestsHeld
<1>4. TableInHand' /\ Owned'
  <2>1. hilo'[Kernel] = hilo[Kernel] \/ \A p \in Pids : programa[p].estado \notin {"asking", "freeing"}
    <3>1. CASE c = Kernel
      BY <1>1, <3>1 DEF Talks, KernelTalks
    <3> QED BY <1>2, <3>1, Sizes
  <2> QED BY <1>0, <1>1, <1>2, <2>1, TableStays
<1>5. ASSUME GetFrame(c), hilo[c].at = "find" PROVE Held(c)'
  <2> DEFINE q == hilo[c].usrpid
  <2>1. PICK r \in Rows : hilo[c].i <= r /\ HoldsPage(c, r)
    BY <1>3, <1>5 DEF Held
  <2>2. \A t \in Rows : HoldsPage(c, t) <=> HoldsPage(c, t)'
    BY <1>1, <1>2 DEF HoldsPage
  <2>3. /\ q \in Pids /\ InMemory(q) /\ hilo[c].page < PagesOf(q)
        /\ hilo[c] \in Hilo /\ hilo'[c] \in Hilo
    BY <1>3 DEF Held, MemType
  <2>4. /\ hilo'[c].usrpid \in Pids /\ InMemory(hilo[c].usrpid)'
        /\ hilo'[c].page < PagesOf(hilo[c].usrpid)'
    BY <1>2, <2>3 DEF InMemory, PagesOf
  <2>5. ~(hilo[c].usrpid <= 0) /\ hilo[c].page \in Rows /\ hilo[c].i # Marcos
    <3>1. Numbers(Mine(q), 0, PagesOf(q)) /\ PagesOf(q) \in Nat /\ Mine(q) \in SUBSET Rows
      BY <1>0, <2>3, PagesNat DEF TableInHand, Mine
    <3>2. PagesOf(q) <= Marcos
      BY <3>1, NumbersCount
    <3>3. q \in Nat \ {0} /\ r \in Nat /\ r < Marcos /\ Marcos \in Nat /\ hilo[c].page \in Nat
      BY <2>3, Sizes DEF Hilo
    <3>4. hilo[c].page < Marcos
      BY <2>3, <3>1, <3>2, <3>3
    <3>5. hilo[c].page \in Rows
      BY <3>3, <3>4 DEF Rows
    <3>6. hilo[c].i # Marcos
      BY <2>1, <3>3
    <3> QED BY <3>3, <3>5, <3>6
  <2>6. CASE hilo'[c].at = "copy"
    <3>1. HoldsPage(c, hilo'[c].frame)
      BY <1>5, <2>5, <2>6, GetFrameDoes DEF AtRow
    <3>2. HoldsPage(c, hilo[c].frame)'
      BY <1>1, <1>2, <2>3, <3>1 DEF HoldsPage
    <3> QED BY <2>4, <2>6, <3>2 DEF Held
  <2>7. CASE hilo'[c].at # "copy"
    <3>1. /\ hilo[c].i \in Rows /\ ~HoldsPage(c, hilo[c].i)
          /\ hilo'[c].at = "find" /\ hilo'[c].i = hilo[c].i + 1
      BY <1>5, <2>7, GetFrameDoes DEF AtRow
    <3>2. hilo[c].i + 1 <= r
      <4>1. r # hilo[c].i /\ r \in Nat /\ hilo[c].i \in Nat
        BY <2>1, <3>1, Sizes
      <4> QED BY <2>1, <4>1
    <3>3. \E t \in Rows : hilo'[c].i <= t /\ HoldsPage(c, t)'
      BY <2>1, <2>2, <3>1, <3>2
    <3> QED BY <2>4, <3>1, <3>3 DEF Held
  <2> QED BY <2>6, <2>7
<1>6. RequestsHeld'
  <2>1. ASSUME NEW d \in Clients, hilo'[d] = hilo[d], hilo[d].at \in {"find", "copy"}
        PROVE  SpaceStays(hilo[d].usrpid)
    BY <1>0, <1>1, <1>2, <2>1 DEF SpaceStays, RequestsHeld, Held, InMemory
  <2>2. hilo'[c].at \notin {"find", "copy"} \/ Held(c)'
    BY <1>1, <1>5
  <2> QED BY <1>0, <1>2, <2>1, <2>2, RequestsStay
<1> QED BY <1>4, <1>6 DEF Table

LEMMA ThreadStepTable ==
  ASSUME MemType, MemType', Talks, Table, NEW c \in Clients, ThreadStep(c)
  PROVE  Table'
<1>1. CASE GetFrame(c) \/ GetBytes(c) \/ SetBytes(c)
  BY <1>1, LookUpTable
<1>2. CASE SetPagesCounts(c) \/ SetsOwner(c) \/ NumbersPage(c) \/ PagesSet(c)
           \/ ClearsOwner(c) \/ ClearsPage(c) \/ PagesCleared(c)
  <2>1. hilo[c].at \in {"start", "assign", "number", "clear", "zero"}
    BY <1>2 DEF SetPagesCounts, SetsOwner, NumbersPage, PagesSet, ClearsOwner, ClearsPage, PagesCleared
  <2>2. c = Kernel
    BY <2>1, Sizes DEF Talks, CpusTalk
  <2> QED BY <1>2, <2>2, SetPagesTable, ClearPagesTable
<1> QED BY <1>1, <1>2 DEF ThreadStep

----------------------------------------------------------------------------
(* The invariant.                                                          *)

MemInv == MemType /\ Talks /\ Table

LEMMA MemInvInit == Init => MemInv
<1> SUFFICES ASSUME Init PROVE MemInv
  OBVIOUS
<1>1. /\ \A p \in Pids : programa[p].estado = "new"
      /\ \A c \in Cpus : en_cpu[c] = 0 /\ hilo[c] = Idle
      /\ \A c \in Clients : hilo[c] = Idle
      /\ hilo[Kernel] = Idle /\ \A r \in Rows : page_table[r].pid = 0
  BY Sizes DEF Init
<1>2. KernelTalks /\ CpusTalk
  BY <1>1, IdleType DEF KernelTalks, CpusTalk, Busy
<1>3. RequestsHeld
  BY <1>1, IdleType DEF RequestsHeld
<1>4. TableInHand /\ Owned
  BY <1>1 DEF TableInHand, Owned, InMemory
<1> QED BY <1>2, <1>3, <1>4, MemTypeInit DEF MemInv, Talks, Table

LEMMA MemInvStep == ASSUME PidsFit PROVE MemInv /\ [Next]_vars => MemInv'
<1> SUFFICES ASSUME MemInv, [Next]_vars PROVE MemInv'
  OBVIOUS
<1>1. MemType /\ Talks /\ Table /\ MemType' /\ Talks'
  BY MemTypeStep, TalksStep DEF MemInv
<1>2. CASE Next
  BY <1>1, <1>2, KernelStepTable, CpuStepTable, ThreadStepTable DEF Next, MemInv
<1>3. CASE UNCHANGED vars
  <2>1. UNCHANGED <<page_table, programa, hilo>>
    BY <1>3 DEF vars
  <2>2. TableInHand' /\ Owned'
    BY <1>1, <2>1, TableStays DEF Table
  <2>3. RequestsHeld'
    BY <1>1, <2>1 DEF Table, RequestsHeld, Held, HoldsPage, InMemory, PagesOf
  <2> QED BY <1>1, <2>2, <2>3 DEF MemInv, Table
<1> QED BY <1>2, <1>3

LEMMA MemInvAlways == ASSUME PidsFit PROVE Spec => []MemInv
BY MemInvInit, MemInvStep, PTL DEF Spec

\* As long as the identifiers of the programs fit the header, no frame is lost
\* and none is given twice, whatever texts are loaded, refused and freed, in any
\* order, and however the threads of the CPUs get in between.
THEOREM PagesAreWhole == ASSUME PidsFit PROVE Spec => []PagesWhole
<1>1. MemInv => PagesWhole
  <2> SUFFICES ASSUME MemInv, hilo[Kernel].op \notin {"OP_ME_INIPRO", "OP_ME_FINPRO"}
               PROVE  /\ \A p \in Pids : InMemory(p) =>
                           /\ {page_table[i].page : i \in RowsOf(p)} = 0..(PagesOf(p) - 1)
                           /\ Cardinality(RowsOf(p)) = PagesOf(p)
                      /\ \A i \in Rows : page_table[i].pid # 0 =>
                           \E p \in Pids : InMemory(p) /\ i \in RowsOf(p)
    BY DEF PagesWhole
  <2>1. \A p \in Pids : programa[p].estado \notin {"asking", "freeing"}
    BY DEF MemInv, Talks, KernelTalks
  <2>2. \A p \in Pids : RowsOf(p) = Mine(p)
    BY UsrpidIs DEF RowsOf, Mine
  <2>3. ASSUME NEW p \in Pids, InMemory(p)
        PROVE  /\ {page_table[i].page : i \in RowsOf(p)} = 0..(PagesOf(p) - 1)
               /\ Cardinality(RowsOf(p)) = PagesOf(p)
    <3>1. Numbers(Mine(p), 0, PagesOf(p)) /\ PagesOf(p) \in Nat /\ Mine(p) \in SUBSET Rows
      BY <2>3, PagesNat DEF MemInv, Table, TableInHand, Mine
    <3>2. Cardinality(Mine(p)) = PagesOf(p)
      BY <3>1, NumbersCount DEF MemInv
    <3>3. \A r \in Mine(p) : page_table[r].page \in 0..(PagesOf(p) - 1)
      BY <3>1 DEF Numbers, Mine, MemInv, MemType, Entradas
    <3>4. {page_table[i].page : i \in Mine(p)} = 0..(PagesOf(p) - 1)
      BY <3>1, <3>3 DEF Numbers
    <3> QED BY <2>2, <3>2, <3>4
  <2>4. ASSUME NEW i \in Rows, page_table[i].pid # 0
        PROVE  \E p \in Pids : InMemory(p) /\ i \in RowsOf(p)
    BY <2>1, <2>2, <2>4 DEF MemInv, Table, Owned, Mine
  <2> QED BY <2>3, <2>4
<1> QED BY <1>1, MemInvAlways, PTL

\* get_frame's answer never goes stale: until the copy the frame is that of the
\* page, although set_pages and clear_pages run at the same time.
THEOREM FrameStaysInHand == ASSUME PidsFit PROVE Spec => []FrameInHand
<1>1. MemInv => FrameInHand
  BY DEF MemInv, Table, RequestsHeld, Held, FrameInHand
<1> QED BY <1>1, MemInvAlways, PTL

\* No two threads ever copy in one frame, which is why the main memory needs no
\* lock: each thread's frame is of the program of its client, and no two clients
\* have one program.
THEOREM FramesAreApart == ASSUME PidsFit PROVE Spec => []FramesApart
<1>1. MemInv => FramesApart
  <2> SUFFICES ASSUME MemInv, NEW c \in Clients, NEW d \in Clients, c # d,
                      hilo[c].at = "copy", hilo[d].at = "copy",
                      hilo[c].frame = hilo[d].frame
               PROVE  FALSE
    BY DEF FramesApart
  <2>1. HoldsPage(c, hilo[c].frame) /\ HoldsPage(d, hilo[c].frame)
    BY DEF MemInv, Table, RequestsHeld, Held
  <2>2. hilo[c].usrpid = hilo[d].usrpid
    BY <2>1 DEF HoldsPage
  <2>3. c \in Cpus /\ d \in Cpus
    BY <2>2, AskerIs DEF MemInv
  <2> QED BY <2>2, <2>3, AskerIs DEF MemInv, Talks, CpusTalk
<1> QED BY <1>1, MemInvAlways, PTL

(***************************************************************************)
(* What the frames are for: the bytes of the programs.  Memoria gives each *)
(* program the address space of ProgramSpaces, and a CPU gets the text of  *)
(* the instruction it asks for.                                            *)
(***************************************************************************)
----------------------------------------------------------------------------
(* What the requests are about.                                            *)

\* How much of its text each program has in Memoria.
PagesStored ==
  \A p \in Pids :
    /\ programa[p].estado \in {"new", "asking"} => programa[p].pag = 0
    /\ programa[p].estado = "loading" => programa[p].pag <= PagesCode(programa[p].size)
    /\ programa[p].estado \in {"ready", "exec", "ending"} =>
         programa[p].pag = PagesCode(programa[p].size)
    /\ programa[p].estado # "new" => programa[p].size \in CodeSizes

\* The Kernel stores the text page by page, then the empty stack index.
KernelAims ==
  \A p \in Pids : programa[p].estado = "loading" /\ hilo[Kernel].at # "idle" =>
    /\ hilo[Kernel].offset = 0 /\ hilo[Kernel].size <= MarcoSize
    /\ IF programa[p].pag < PagesCode(programa[p].size)
       THEN /\ hilo[Kernel].page = programa[p].pag /\ hilo[Kernel].size = SizeOfPage(p)
            /\ hilo[Kernel].datos = Text(p, programa[p].pag * MarcoSize, SizeOfPage(p))
       ELSE hilo[Kernel].size = 0

\* A CPU stays within a page, writes to the stack only, and reads of the text
\* only what there is.
CpuAims(c) ==
  LET size == programa[en_cpu[c]].size
  IN  hilo[c].at # "idle" =>
        /\ hilo[c].offset + hilo[c].size <= MarcoSize /\ hilo[c].size > 0
        /\ hilo[c].op = "OP_ME_ALMBYTPAG" => PagesCode(size) <= hilo[c].page
        /\ hilo[c].op = "OP_ME_SOLBYTPAG" /\ hilo[c].page < PagesCode(size) =>
             hilo[c].page * MarcoSize + hilo[c].offset + hilo[c].size <= size

Aims == PagesStored /\ KernelAims /\ \A c \in Cpus : CpuAims(c)

\* The text of p is in its space, up to the page.
Stored(p, page) ==
  \A a \in 0..(programa[p].size - 1) : a \div MarcoSize < page => espacio[p][a] = <<p, a, 0>>

\* ... which is the one the Kernel is at, or the one just stored.
TextStored ==
  \A p \in Pids :
    /\ InMemory(p) => Stored(p, programa[p].pag)
    /\ programa[p].estado = "loading" /\ Answered(Kernel)
         /\ programa[p].pag < PagesCode(programa[p].size) => Stored(p, programa[p].pag + 1)

----------------------------------------------------------------------------
(* Arithmetic of the pages.                                                *)

LEMMA Scaled ==
  ASSUME NEW m \in Nat, NEW x \in Nat, NEW y \in Nat, x < y
  PROVE  x * m + m <= y * m
<1>1. y - x - 1 \in Nat
  OBVIOUS
<1>2. (y - x - 1) * m \in Nat
  BY <1>1, Product
<1>3. (y - x - 1) * m = y * m - x * m - m
  OBVIOUS
<1>4. x * m \in Nat /\ y * m \in Nat
  BY Product
<1> QED BY <1>2, <1>3, <1>4

\* A byte is in one page, at one place.
LEMMA OnePlaceEach ==
  ASSUME NEW m \in Nat, NEW x \in Nat, NEW y \in Nat, NEW o \in 0..(m - 1), NEW e \in 0..(m - 1),
         x * m + o = y * m + e
  PROVE  x = y /\ o = e
<1>0. x * m \in Nat /\ y * m \in Nat
  BY Product
<1>1. CASE x < y
  BY <1>0, <1>1, Scaled
<1>2. CASE y < x
  BY <1>0, <1>2, Scaled
<1>3. CASE x = y
  BY <1>0, <1>3
<1> QED BY <1>1, <1>2, <1>3

LEMMA PlaceOf ==
  ASSUME NEW m \in Nat \ {0}, NEW x \in Nat, NEW o \in 0..(m - 1)
  PROVE  (x * m + o) \div m = x /\ (x * m + o) % m = o
<1> DEFINE a == x * m + o
<1>1. a \in Nat
  BY Product
<1>2. a \div m \in Nat /\ a % m \in 0..(m - 1) /\ a = (a \div m) * m + (a % m)
  BY <1>1, Remains
<1> HIDE DEF a
<1>3. a = x * m + o
  BY DEF a
<1> QED BY <1>2, <1>3, OnePlaceEach DEF a

\* A variable does not cross the end of a page, since pages hold whole variables.
LEMMA VariableFits ==
  ASSUME NEW v \in Nat \ {0}, NEW m \in Nat \ {0}, m % v = 0,
         NEW position \in Nat, position % v = 0
  PROVE  (position % m) + v <= m
<1> DEFINE k == m \div v
           q == position \div v
           d == position \div m
           o == position % m
<1>1. k \in Nat /\ q \in Nat /\ d \in Nat /\ o \in Nat /\ o < m
  BY Remains
<1>2. m = v * k
  BY <1>1, Remains
<1>3. position = v * q /\ position = m * d + o
  BY <1>1, Remains
<1> HIDE DEF k, q, d, o
<1>4. k * d \in Nat /\ (k * d) * v = m * d /\ q * v = position /\ k * v = m
  <2>1. k * d \in Nat
    BY <1>1, Product
  <2>2. (k * d) * v = (v * k) * d
    BY <1>1
  <2> QED BY <1>1, <1>2, <1>3, <2>1, <2>2
<1>5. PICK j \in Nat : j = k * d
  BY <1>4
<1>6. j * v = m * d /\ j * v \in Nat /\ q * v \in Nat /\ q * v = j * v + o
  BY <1>1, <1>3, <1>4, <1>5, Product
<1>7. j <= q
  <2>1. CASE q < j
    <3>1. q * v + v <= j * v
      BY <1>1, <2>1, Scaled
    <3> QED BY <1>1, <1>6, <3>1
  <2> QED BY <1>1, <2>1
<1>8. q < j + k
  <2>1. CASE ~(q < j + k)
    <3>1. (q - j - k) \in Nat /\ (q - j - k) * v \in Nat
      BY <1>1, <2>1, Product
    <3>2. (q - j - k) * v = q * v - j * v - k * v
      BY <1>1
    <3> QED BY <1>1, <1>4, <1>6, <3>1, <3>2
  <2> QED BY <2>1
<1>9. (q - j) * v + v <= k * v
  <2>1. q - j \in Nat /\ q - j < k
    BY <1>1, <1>7, <1>8
  <2> QED BY <1>1, <2>1, Scaled
<1>10. (q - j) * v = o
  <2>1. (q - j) * v = q * v - j * v
    BY <1>1
  <2> QED BY <1>1, <1>6, <2>1
<1> QED BY <1>4, <1>9, <1>10 DEF o

----------------------------------------------------------------------------
(* The requests stay what they were.                                       *)

LEMMA RequestIs ==
  ASSUME MemType, NEW c \in Clients, NEW r, Request(c, r)
  PROVE  hilo'[c] = r /\ \A d \in Clients : d # c => hilo'[d] = hilo[d]
BY DEF MemType, Request

\* A thread changes where it is, not what it was asked, but for the bytes read.
LEMMA ThreadKeeps ==
  ASSUME MemType, NEW c \in Clients, ThreadStep(c)
  PROVE  /\ hilo'[c].offset = hilo[c].offset /\ hilo'[c].size = hilo[c].size
         /\ hilo[c].op = "OP_ME_ALMBYTPAG" => hilo'[c].datos = hilo[c].datos
<1>0. hilo \in [Clients -> Hilo] /\ hilo[c] \in Hilo
  BY DEF MemType
<1>1. CASE SetPagesCounts(c)
  BY <1>0, <1>1 DEF SetPagesCounts, Answers, Hilo
<1>2. CASE SetsOwner(c)
  BY <1>0, <1>2 DEF SetsOwner, NextRow, Hilo
<1>3. CASE NumbersPage(c)
  BY <1>0, <1>3 DEF NumbersPage, Hilo
<1>4. CASE PagesSet(c)
  BY <1>0, <1>4 DEF PagesSet, Answers, Hilo
<1>5. CASE ClearsOwner(c)
  BY <1>0, <1>5 DEF ClearsOwner, NextRow, Hilo
<1>6. CASE ClearsPage(c)
  BY <1>0, <1>6 DEF ClearsPage, Hilo
<1>7. CASE PagesCleared(c)
  BY <1>0, <1>7 DEF PagesCleared, Answers, Hilo
<1>8. CASE GetFrame(c)
  BY <1>8, GetFrameDoes
<1>9. CASE GetBytes(c)
  <2>1. hilo[c].op = "OP_ME_SOLBYTPAG"
    BY <1>9 DEF GetBytes
  <2>2. hilo'[c].offset = hilo[c].offset /\ hilo'[c].size = hilo[c].size
    BY <1>0, <1>9 DEF GetBytes, Hilo
  <2> QED BY <2>1, <2>2
<1>10. CASE SetBytes(c)
  BY <1>0, <1>10 DEF SetBytes, Answers, Hilo
<1> QED BY <1>1, <1>2, <1>3, <1>4, <1>5, <1>6, <1>7, <1>8, <1>9, <1>10 DEF ThreadStep

LEMMA FetchAims ==
  ASSUME ~Straddling, MemType, NEW c \in Cpus, en_cpu[c] # 0,
         NEW first \in 1..programa[en_cpu[c]].size, NEW size \in 1..programa[en_cpu[c]].size,
         FetchesInstruction(c, first - 1, size)
  PROVE  CpuAims(c)'
<1> DEFINE p == en_cpu[c]
           a == first - 1
<1>1. c \in Clients /\ p \in Pids /\ programa[p].size \in Nat /\ MarcoSize \in Nat \ {0}
  BY Sizes DEF MemType, Programa
<1>2. a \in Nat /\ size \in Nat \ {0} /\ a + size <= programa[p].size
      /\ (a % MarcoSize) + size <= MarcoSize /\ UNCHANGED <<programa, en_cpu>>
  BY <1>1 DEF FetchesInstruction
<1>3. /\ hilo'[c].op = "OP_ME_SOLBYTPAG" /\ hilo'[c].page = a \div MarcoSize
      /\ hilo'[c].offset = a % MarcoSize /\ hilo'[c].size = size
  <2> DEFINE r == [Idle EXCEPT !.at = "find", !.op = "OP_ME_SOLBYTPAG",
                     !.usrpid = Usrpid(p), !.page = a \div MarcoSize,
                     !.offset = a % MarcoSize, !.size = size]
  <2>1. Request(c, r)
    BY DEF FetchesInstruction
  <2>2. /\ r.op = "OP_ME_SOLBYTPAG" /\ r.page = a \div MarcoSize
        /\ r.offset = a % MarcoSize /\ r.size = size
    BY DEF Idle
  <2> HIDE DEF r
  <2> QED BY <1>1, <2>1, <2>2, RequestIs
<1>4. (a \div MarcoSize) * MarcoSize + (a % MarcoSize) = a
  BY <1>1, <1>2, Remains
<1> QED BY <1>2, <1>3, <1>4 DEF CpuAims

\* position \div MarcoSize is not negative: a variable is never in the text.
LEMMA StackAims ==
  ASSUME MemType, NEW c \in Cpus, en_cpu[c] # 0, NEW position \in Variables,
         UNCHANGED <<programa, en_cpu>>,
         hilo'[c].page = StackPage(en_cpu[c], position),
         hilo'[c].offset = position % MarcoSize, hilo'[c].size = VarSize
  PROVE  CpuAims(c)'
<1> DEFINE p == en_cpu[c]
<1>1. p \in Pids /\ programa[p].size \in Nat /\ PagesCode(programa[p].size) \in Nat
  BY Sizes DEF MemType, Programa
<1>2. /\ MarcoSize \in Nat \ {0} /\ VarSize \in Nat \ {0} /\ MarcoSize % VarSize = 0
      /\ position \in Nat /\ position % VarSize = 0
  BY <1>1, PageOfStack, SizesAssumption DEF Variables
<1>3. (position % MarcoSize) + VarSize <= MarcoSize
  BY <1>2, VariableFits
<1>4. position \div MarcoSize \in Nat
  BY <1>2, Remains
<1>5. PagesCode(programa[p].size) <= hilo'[c].page /\ hilo'[c].page \in Nat
  BY <1>1, <1>4 DEF StackPage
<1> QED BY <1>1, <1>2, <1>3, <1>5 DEF CpuAims

LEMMA CpuStepAims ==
  ASSUME ~Straddling, MemType, MemType', Talks, Aims, NEW c \in Cpus, CpuStep(c)
  PROVE  Aims'
<1>0. /\ c \in Clients /\ c # Kernel /\ Kernel \in Clients /\ Cpus \subseteq Clients
      /\ en_cpu[c] \in Pids \cup {0} /\ 0 \notin Pids
  BY Sizes DEF MemType
<1>1. ASSUME UNCHANGED <<programa, en_cpu>>, \A d \in Clients : d # c => hilo'[d] = hilo[d],
             CpuAims(c)'
      PROVE  Aims'
  <2>1. PagesStored' /\ KernelAims'
    BY <1>0, <1>1 DEF Aims, PagesStored, KernelAims, SizeOfPage
  <2>2. \A d \in Cpus : CpuAims(d)'
    BY <1>0, <1>1 DEF Aims, CpuAims
  <2> QED BY <2>1, <2>2 DEF Aims
<1>2. ASSUME en_cpu[c] # 0, NEW first \in 1..programa[en_cpu[c]].size,
             NEW size \in 1..programa[en_cpu[c]].size,
             FetchesInstruction(c, first - 1, size)
      PROVE  Aims'
  <2>1. CpuAims(c)'
    BY <1>2, FetchAims
  <2>2. PICK page \in Nat : AsksFor(c, "OP_ME_SOLBYTPAG", en_cpu[c], page)
    BY <1>2, FetchAsks
  <2> QED BY <1>1, <2>1, <2>2 DEF AsksFor
<1>3. ASSUME NEW position \in Variables, ReadsVariable(c, position) PROVE Aims'
  <2>1. /\ en_cpu[c] # 0 /\ UNCHANGED <<programa, en_cpu>>
        /\ \A d \in Clients : d # c => hilo'[d] = hilo[d]
    BY <1>3, ReadAsks DEF AsksFor
  <2>2. /\ hilo'[c].page = StackPage(en_cpu[c], position)
        /\ hilo'[c].offset = position % MarcoSize /\ hilo'[c].size = VarSize
    <3> DEFINE r == [Idle EXCEPT !.at = "find", !.op = "OP_ME_SOLBYTPAG",
                       !.usrpid = Usrpid(en_cpu[c]), !.page = StackPage(en_cpu[c], position),
                       !.offset = position % MarcoSize, !.size = VarSize]
    <3>1. Request(c, r)
      BY <1>3 DEF ReadsVariable
    <3>2. /\ r.page = StackPage(en_cpu[c], position)
          /\ r.offset = position % MarcoSize /\ r.size = VarSize
      BY DEF Idle
    <3> HIDE DEF r
    <3> QED BY <1>0, <3>1, <3>2, RequestIs
  <2> QED BY <1>1, <2>1, <2>2, StackAims
<1>4. ASSUME NEW position \in Variables, NEW value \in Values,
             AssignsVariable(c, position, value)
      PROVE  Aims'
  <2>1. /\ en_cpu[c] # 0 /\ UNCHANGED <<programa, en_cpu>>
        /\ \A d \in Clients : d # c => hilo'[d] = hilo[d]
    BY <1>4, AssignAsks DEF AsksFor
  <2>2. /\ hilo'[c].page = StackPage(en_cpu[c], position)
        /\ hilo'[c].offset = position % MarcoSize /\ hilo'[c].size = VarSize
    <3> DEFINE datos == [k \in 1..VarSize |-> IF k <= ShortSize
                                               THEN <<en_cpu[c], position + k - 1, value>>
                                               ELSE Nobody]
    <3> DEFINE r == [Idle EXCEPT !.at = "find", !.op = "OP_ME_ALMBYTPAG",
                       !.usrpid = Usrpid(en_cpu[c]), !.page = StackPage(en_cpu[c], position),
                       !.offset = position % MarcoSize, !.size = VarSize, !.datos = datos]
    <3>1. Request(c, r)
      BY <1>4 DEF AssignsVariable
    <3> HIDE DEF datos
    <3>2. /\ r.page = StackPage(en_cpu[c], position)
          /\ r.offset = position % MarcoSize /\ r.size = VarSize
      BY DEF Idle
    <3> HIDE DEF r
    <3> QED BY <1>0, <3>1, <3>2, RequestIs
  <2> QED BY <1>1, <2>1, <2>2, StackAims
<1>5. CASE CpuGetsAnswer(c)
  <2>1. /\ hilo'[c].at = "idle" /\ UNCHANGED <<programa, en_cpu>>
        /\ \A d \in Clients : d # c => hilo'[d] = hilo[d]
    BY <1>0, <1>5, TakesAnswerType, IdleType DEF CpuGetsAnswer
  <2> QED BY <1>1, <2>1 DEF CpuAims
<1>6. CASE FinishesProgram(c)
  <2> DEFINE p == en_cpu[c]
  <2>1. p \in Pids /\ hilo[c].at = "idle" /\ Becomes(p, "ending") /\ "ending" \in Estados
    BY <1>0, <1>6 DEF FinishesProgram, Runs, Estados
  <2>2. /\ programa'[p].estado = "ending" /\ programa[p].estado = "exec"
        /\ programa'[p].size = programa[p].size /\ programa'[p].pag = programa[p].pag
        /\ \A q \in Pids : q # p => programa'[q] = programa[q]
    BY ZenonT(30), <1>0, <2>1, BecomesType DEF Talks, CpusTalk
  <2>3. en_cpu'[c] = 0 /\ UNCHANGED hilo /\ \A d \in Cpus : d # c => en_cpu'[d] = en_cpu[d]
    BY <1>6 DEF FinishesProgram, MemType
  <2>4. PagesStored' /\ KernelAims'
    BY <2>2, <2>3 DEF Aims, PagesStored, KernelAims, SizeOfPage
  <2>5. \A d \in Cpus : CpuAims(d)'
    <3>1. CpuAims(c)'
      BY <2>1, <2>3 DEF CpuAims
    <3>2. ASSUME NEW d \in Cpus, d # c PROVE CpuAims(d)'
      <4>1. hilo[d].at # "idle" => en_cpu[d] \in Pids /\ programa'[en_cpu[d]].size = programa[en_cpu[d]].size
        BY ZenonT(60), <2>2, Sizes DEF Talks, CpusTalk, MemType
      <4> QED BY <2>3, <3>2, <4>1 DEF Aims, CpuAims
    <3> QED BY <3>1, <3>2
  <2> QED BY <2>4, <2>5 DEF Aims
<1> QED BY <1>2, <1>3, <1>4, <1>5, <1>6 DEF CpuStep

LEMMA ThreadStepAims ==
  ASSUME MemType, Talks, Aims, NEW c \in Clients, ThreadStep(c)
  PROVE  Aims'
<1>1. /\ UNCHANGED <<programa, en_cpu>> /\ \A d \in Clients : d # c => hilo'[d] = hilo[d]
      /\ hilo'[c].op = hilo[c].op /\ hilo'[c].page = hilo[c].page /\ hilo[c].at # "idle"
  BY ThreadGoes DEF Serves
<1>2. /\ hilo'[c].offset = hilo[c].offset /\ hilo'[c].size = hilo[c].size
      /\ hilo[c].op = "OP_ME_ALMBYTPAG" => hilo'[c].datos = hilo[c].datos
  BY ThreadKeeps
<1>3. PagesStored'
  BY <1>1 DEF Aims, PagesStored
<1>4. KernelAims'
  <2> SUFFICES ASSUME NEW p \in Pids, programa[p].estado = "loading", hilo'[Kernel].at # "idle"
               PROVE  /\ hilo'[Kernel].offset = hilo[Kernel].offset
                      /\ hilo'[Kernel].size = hilo[Kernel].size
                      /\ hilo'[Kernel].page = hilo[Kernel].page
                      /\ hilo'[Kernel].datos = hilo[Kernel].datos
                      /\ hilo[Kernel].at # "idle"
    BY <1>1 DEF Aims, KernelAims, SizeOfPage
  <2>1. CASE c = Kernel
    BY <1>1, <1>2, <2>1 DEF Talks, KernelTalks
  <2>2. CASE c # Kernel
    BY <1>1, <2>2, Sizes
  <2> QED BY <2>1, <2>2
<1>5. \A d \in Cpus : CpuAims(d)'
  <2> SUFFICES ASSUME NEW d \in Cpus PROVE CpuAims(d)'
    OBVIOUS
  <2>1. CASE d = c
    BY <1>1, <1>2, <2>1 DEF Aims, CpuAims
  <2>2. CASE d # c
    BY <1>1, <2>2, Sizes DEF Aims, CpuAims
  <2> QED BY <2>1, <2>2
<1> QED BY <1>3, <1>4, <1>5 DEF Aims

\* The pages of the text hold it, the last one what is left over.
LEMMA PageSize ==
  ASSUME MemType, NEW p \in Pids
  PROVE  SizeOfPage(p) \in Nat /\ SizeOfPage(p) <= MarcoSize
<1>1. programa[p].size \in Nat /\ MarcoSize \in Nat \ {0}
  BY Sizes DEF MemType, Programa
<1>2. programa[p].size % MarcoSize \in Nat /\ programa[p].size % MarcoSize < MarcoSize
  BY <1>1, Remains
<1> QED BY <1>1, <1>2 DEF SizeOfPage

\* What the Kernel asks for when it stores a page, or the stack index.
LEMMA StoreAims ==
  ASSUME MemType, NEW p \in Pids, StoresCode(p) \/ StoresStack(p)
  PROVE  /\ programa[p].estado = "loading" /\ hilo[Kernel].at = "idle"
         /\ hilo'[Kernel].offset = 0 /\ hilo'[Kernel].size <= MarcoSize
         /\ IF StoresCode(p)
            THEN /\ programa[p].pag < PagesCode(programa[p].size)
                 /\ hilo'[Kernel].page = programa[p].pag /\ hilo'[Kernel].size = SizeOfPage(p)
                 /\ hilo'[Kernel].datos = Text(p, programa[p].pag * MarcoSize, SizeOfPage(p))
            ELSE /\ programa[p].pag = PagesCode(programa[p].size) /\ hilo'[Kernel].size = 0
<1>1. Kernel \in Clients /\ MarcoSize \in Nat
  BY Sizes
<1>2. CASE StoresCode(p)
  <2> DEFINE pag == programa[p].pag
             r == [Idle EXCEPT !.at = "find", !.op = "OP_ME_ALMBYTPAG",
                     !.usrpid = Usrpid(p), !.page = pag, !.offset = 0,
                     !.size = SizeOfPage(p),
                     !.datos = Text(p, pag * MarcoSize, SizeOfPage(p))]
  <2>1. Request(Kernel, r)
    BY <1>2 DEF StoresCode
  <2>2. /\ r.page = pag /\ r.offset = 0 /\ r.size = SizeOfPage(p)
        /\ r.datos = Text(p, pag * MarcoSize, SizeOfPage(p))
    BY DEF Idle
  <2> HIDE DEF r
  <2>3. hilo'[Kernel] = r
    BY <1>1, <2>1, RequestIs
  <2>4. pag < PagesCode(programa[p].size) /\ programa[p].estado = "loading" /\ hilo[Kernel].at = "idle"
    BY <1>2 DEF StoresCode
  <2> QED BY <1>2, <2>2, <2>3, <2>4, PageSize
<1>3. CASE StoresStack(p) /\ ~StoresCode(p)
  <2> DEFINE r == [Idle EXCEPT !.at = "find", !.op = "OP_ME_ALMBYTPAG", !.usrpid = Usrpid(p),
                     !.page = 0, !.offset = 0, !.size = 0, !.datos = <<>>]
  <2>1. Request(Kernel, r)
    BY <1>3 DEF StoresStack
  <2>2. r.offset = 0 /\ r.size = 0
    BY DEF Idle
  <2> HIDE DEF r
  <2>3. hilo'[Kernel] = r
    BY <1>1, <2>1, RequestIs
  <2>4. /\ programa[p].pag = PagesCode(programa[p].size) /\ programa[p].estado = "loading"
        /\ hilo[Kernel].at = "idle"
    BY <1>3 DEF StoresStack
  <2> QED BY <1>1, <1>3, <2>2, <2>3, <2>4
<1> QED BY <1>2, <1>3

LEMMA KernelStepAims ==
  ASSUME PidsFit, MemType, MemType', Talks, Aims, KernelStep
  PROVE  Aims'
<1>0. /\ Kernel \in Clients /\ Kernel \notin Cpus /\ Cpus \subseteq Clients
      /\ \A c \in Cpus : en_cpu[c] \in Pids \cup {0} /\ c # Kernel
  BY Sizes DEF MemType
<1> PICK p \in Pids :
    \/ \E size \in CodeSizes : AsksForPages(p, size)
    \/ GetsPages(p) \/ StoresCode(p) \/ StoresStack(p) \/ PageStored(p)
    \/ \E c \in Cpus : Dispatches(p, c)
    \/ EndsProgram(p) \/ EndsOrphan(p) \/ PagesFreed(p)
    BY DEF KernelStep
\* The CPUs are busy with other programs.
<1>1. ASSUME programa[p].estado # "exec", \A q \in Pids : q # p => programa'[q] = programa[q],
             UNCHANGED en_cpu, \A d \in Clients : d # Kernel => hilo'[d] = hilo[d]
      PROVE  \A c \in Cpus : CpuAims(c)'
  <2> SUFFICES ASSUME NEW c \in Cpus PROVE CpuAims(c)'
    OBVIOUS
  <2>1. hilo[c].at # "idle" => en_cpu[c] \in Pids /\ en_cpu[c] # p
    BY <1>0, <1>1 DEF Talks, CpusTalk
  <2> QED BY <1>0, <1>1, <2>1 DEF Aims, CpuAims
\* Nothing is loading, or the Kernel has had its answer.
<1>2. ASSUME \A q \in Pids : q # p => programa'[q] = programa[q],
             \A q \in Pids : q # p => programa[q].estado # "loading",
             programa'[p].estado = "loading" => hilo'[Kernel].at = "idle"
      PROVE  KernelAims'
  BY <1>2 DEF KernelAims
<1>3. ASSUME NEW size \in CodeSizes, AsksForPages(p, size) PROVE Aims'
  <2>1. /\ programa'[p].estado = "asking" /\ programa[p].estado = "new"
        /\ \A q \in Pids : q # p => programa'[q] = programa[q] /\ programa[q].estado # "loading"
        /\ UNCHANGED en_cpu /\ \A d \in Clients : d # Kernel => hilo'[d] = hilo[d]
    BY <1>3, StartAsks DEF KernelFree
  <2>2. programa'[p].size = size /\ programa'[p].pag = programa[p].pag
    BY <1>3 DEF AsksForPages, MemType, Programa
  <2>3. PagesStored'
    BY <2>1, <2>2 DEF Aims, PagesStored
  <2> QED BY <1>1, <1>2, <2>1, <2>3 DEF Aims
<1>4. CASE EndsProgram(p) \/ EndsOrphan(p)
  <2>1. /\ programa'[p].estado = "freeing" /\ programa[p].estado \in {"ready", "over", "ending"}
        /\ programa'[p].size = programa[p].size
        /\ \A q \in Pids : q # p => programa'[q] = programa[q] /\ programa[q].estado # "loading"
        /\ UNCHANGED en_cpu /\ \A d \in Clients : d # Kernel => hilo'[d] = hilo[d]
    BY <1>4, ClearAsks DEF KernelFree
  <2>2. PagesStored'
    BY <2>1 DEF Aims, PagesStored
  <2> QED BY <1>1, <1>2, <2>1, <2>2 DEF Aims
\* The answer of Memoria is in.
<1>5. ASSUME Busy(p), TakesAnswer(Kernel), UNCHANGED en_cpu,
             \A q \in Pids : q # p => programa'[q] = programa[q], PagesStored'
      PROVE  Aims'
  <2>1. /\ hilo'[Kernel].at = "idle" /\ \A d \in Clients : d # Kernel => hilo'[d] = hilo[d]
    BY <1>0, <1>5, TakesAnswerType, IdleType
  <2>2. programa[p].estado # "exec" /\ \A q \in Pids : q # p => programa[q].estado # "loading"
    BY <1>5 DEF Talks, KernelTalks, Busy
  <2> QED BY <1>1, <1>2, <1>5, <2>1, <2>2 DEF Aims
<1>6. CASE GetsPages(p) \/ PagesFreed(p)
  <2>1. /\ Busy(p) /\ TakesAnswer(Kernel) /\ UNCHANGED en_cpu
        /\ programa[p].estado \in {"asking", "freeing"}
        /\ \E e \in {"loading", "over"} : Becomes(p, e)
             /\ (e = "loading" => programa[p].estado = "asking")
    BY <1>6 DEF GetsPages, PagesFreed, Busy
  <2>2. PICK e \in {"loading", "over"} : Becomes(p, e) /\ (e = "loading" => programa[p].estado = "asking")
    BY <2>1
  <2>3. /\ programa'[p].estado = e /\ programa'[p].size = programa[p].size
        /\ programa'[p].pag = programa[p].pag
        /\ \A q \in Pids : q # p => programa'[q] = programa[q]
    BY <2>2, BecomesType DEF Estados
  <2>4. programa[p].size \in Nat /\ PagesCode(programa[p].size) \in Nat
    BY Sizes DEF MemType, Programa
  <2>5. PagesStored'
    BY <2>1, <2>2, <2>3, <2>4 DEF Aims, PagesStored
  <2> QED BY <1>5, <2>1, <2>3, <2>5
<1>7. CASE PageStored(p)
  <2>1. /\ Busy(p) /\ TakesAnswer(Kernel) /\ UNCHANGED en_cpu /\ programa[p].estado = "loading"
        /\ programa' = IF programa[p].pag < PagesCode(programa[p].size)
                       THEN [programa EXCEPT ![p].pag = @ + 1]
                       ELSE [programa EXCEPT ![p].estado = "ready"]
    BY <1>7 DEF PageStored, Busy
  <2>2. programa[p].pag \in Nat /\ programa[p].size \in Nat /\ PagesCode(programa[p].size) \in Nat
    BY Sizes DEF MemType, Programa
  <2>3. /\ \A q \in Pids : q # p => programa'[q] = programa[q]
        /\ programa'[p].size = programa[p].size
        /\ IF programa[p].pag < PagesCode(programa[p].size)
           THEN programa'[p].estado = "loading" /\ programa'[p].pag = programa[p].pag + 1
           ELSE programa'[p].estado = "ready" /\ programa'[p].pag = programa[p].pag
    BY <2>1 DEF MemType, Programa
  <2>4. PagesStored'
    BY <2>1, <2>2, <2>3 DEF Aims, PagesStored
  <2> QED BY <1>5, <2>1, <2>3, <2>4
<1>8. CASE StoresCode(p) \/ StoresStack(p)
  <2>1. /\ UNCHANGED <<programa, en_cpu>> /\ \A d \in Clients : d # Kernel => hilo'[d] = hilo[d]
    BY <1>8, StoreCodeAsks, StoreStackAsks DEF AsksFor
  <2>2. \A q \in Pids : programa[q].estado = "loading" => q = p
    BY <1>8, StoreAims DEF Talks, KernelTalks, Busy
  <2>3. programa[p].pag \in Nat /\ PagesCode(programa[p].size) \in Nat
    BY Sizes DEF MemType, Programa
  <2>4. PagesStored'
    BY <2>1 DEF Aims, PagesStored
  <2>5. KernelAims'
    BY <1>8, <2>1, <2>2, <2>3, StoreAims DEF KernelAims, SizeOfPage
  <2>6. programa[p].estado # "exec"
    BY <1>8, StoreAims
  <2> QED BY <1>1, <2>1, <2>4, <2>5, <2>6 DEF Aims
<1>9. ASSUME NEW c \in Cpus, Dispatches(p, c) PROVE Aims'
  <2>1. "exec" \in Estados /\ Becomes(p, "exec") /\ UNCHANGED <<page_table, hilo>>
    BY <1>9 DEF Estados, Dispatches
  <2>2. /\ programa'[p].estado = "exec" /\ programa[p].estado = "ready"
        /\ programa'[p].size = programa[p].size /\ programa'[p].pag = programa[p].pag
        /\ \A q \in Pids : q # p => programa'[q] = programa[q]
        /\ \A q \in Pids : programa[q].estado # "loading"
        /\ en_cpu[c] = 0 /\ \A d \in Cpus : d # c => en_cpu'[d] = en_cpu[d]
    BY <1>9, <2>1, BecomesType DEF Dispatches, KernelFree, MemType
  <2>3. PagesStored'
    BY <2>2 DEF Aims, PagesStored
  <2>4. KernelAims'
    BY <2>2 DEF KernelAims
  <2>5. CpuAims(c)'
    BY <2>1, <2>2 DEF CpuAims, Talks, CpusTalk
  <2>6. ASSUME NEW d \in Cpus, d # c PROVE CpuAims(d)'
    <3>1. hilo[d].at # "idle" => en_cpu[d] \in Pids /\ en_cpu[d] # p
      BY <1>0, <2>2 DEF Talks, CpusTalk
    <3> QED BY <1>0, <2>1, <2>2, <2>6, <3>1 DEF Aims, CpuAims
  <2> QED BY <2>3, <2>4, <2>5, <2>6 DEF Aims
<1> QED BY <1>3, <1>4, <1>6, <1>7, <1>8, <1>9

LEMMA AimsInit == Init => Aims
<1> SUFFICES ASSUME Init PROVE Aims
  OBVIOUS
<1>1. /\ \A p \in Pids : programa[p].estado = "new" /\ programa[p].pag = 0
      /\ \A c \in Clients : hilo[c].at = "idle"
  BY IdleType DEF Init
<1> QED BY <1>1, Sizes DEF Aims, PagesStored, KernelAims, CpuAims

LEMMA AimsStep ==
  ASSUME PidsFit, ~Straddling, MemType, MemType', Talks, Aims, [Next]_vars
  PROVE  Aims'
<1>1. CASE UNCHANGED vars
  BY <1>1 DEF vars, Aims, PagesStored, KernelAims, CpuAims, SizeOfPage
<1> QED BY <1>1, KernelStepAims, CpuStepAims, ThreadStepAims DEF Next

----------------------------------------------------------------------------
(* Where the bytes of the spaces are.                                      *)

Addresses(p) == 0..(PagesOf(p) * MarcoSize - 1)

\* The byte of the main memory that is a byte of the space of p.
Cell(p, a) == FrameOf(p, a \div MarcoSize) * MarcoSize + (a % MarcoSize)

LEMMA SpaceIs ==
  \A p \in Pids : espacio[p] = IF InMemory(p) THEN [a \in Addresses(p) |-> main[Cell(p, a)]]
                               ELSE <<>>
BY DEF espacio, Addresses, Cell

\* There is one row for a page, and get_frame finds it.
LEMMA FrameIs ==
  ASSUME PidsFit, MemInv, NEW p \in Pids, InMemory(p), NEW page \in Nat,
         NEW r \in Rows, page_table[r] = [pid |-> p, page |-> page]
  PROVE  FrameOf(p, page) = r
<1> DEFINE found == {i \in Rows : page_table[i] = [pid |-> Usrpid(p), page |-> page]}
<1>1. Usrpid(p) = p /\ Numbers(Mine(p), 0, PagesOf(p))
  BY UsrpidIs DEF MemInv, Table, TableInHand
<1>2. r \in Mine(p) /\ page_table[r].page = page
  BY DEF Mine
<1>3. ASSUME NEW t \in found PROVE t = r
  <2>1. t \in Mine(p) /\ page_table[t].page = page
    BY <1>1 DEF Mine
  <2> QED BY <1>1, <1>2, <2>1 DEF Numbers
<1>4. found = {r}
  BY <1>1, <1>3
<1>5. r <= r
  BY Sizes
<1>6. FrameOf(p, page) = IF found = {} THEN 0 ELSE CHOOSE i \in found : \A j \in found : i <= j
  BY DEF FrameOf
<1> HIDE DEF found
<1> QED BY <1>4, <1>5, <1>6

LEMMA InMain ==
  ASSUME NEW r \in Rows, NEW o \in 0..(MarcoSize - 1)
  PROVE  r * MarcoSize + o \in 0..(Marcos * MarcoSize - 1)
<1>1. r \in Nat /\ r < Marcos /\ Marcos \in Nat /\ MarcoSize \in Nat \ {0}
  BY Sizes
<1>2. r * MarcoSize + MarcoSize <= Marcos * MarcoSize
  BY <1>1, Scaled
<1>3. r * MarcoSize \in Nat /\ Marcos * MarcoSize \in Nat
  BY <1>1, Product
<1> QED BY <1>1, <1>2, <1>3

LEMMA CellOf ==
  ASSUME PidsFit, MemInv, NEW p \in Pids, InMemory(p), NEW a \in Addresses(p)
  PROVE  /\ a \in Nat /\ a \div MarcoSize \in Nat /\ a % MarcoSize \in 0..(MarcoSize - 1)
         /\ a = (a \div MarcoSize) * MarcoSize + (a % MarcoSize)
         /\ \E r \in Rows : /\ page_table[r] = [pid |-> p, page |-> a \div MarcoSize]
                            /\ FrameOf(p, a \div MarcoSize) = r
                            /\ Cell(p, a) = r * MarcoSize + (a % MarcoSize)
         /\ Cell(p, a) \in 0..(Marcos * MarcoSize - 1)
<1>1. MarcoSize \in Nat \ {0} /\ PagesOf(p) \in Nat
  BY Sizes, PagesNat DEF MemInv
<1>2. PagesOf(p) * MarcoSize \in Nat
  BY <1>1, Product
<1>3. a \in Nat /\ a < PagesOf(p) * MarcoSize
  BY <1>2 DEF Addresses
<1>4. /\ a \div MarcoSize \in Nat /\ a % MarcoSize \in 0..(MarcoSize - 1)
      /\ a = (a \div MarcoSize) * MarcoSize + (a % MarcoSize)
  BY <1>1, <1>3, Remains
<1>5. a \div MarcoSize < PagesOf(p)
  BY <1>1, <1>3, DivBelow
<1>6. PICK page \in 0..(PagesOf(p) - 1) : page = a \div MarcoSize
  BY <1>1, <1>4, <1>5
<1>7. Numbers(Mine(p), 0, PagesOf(p))
  BY DEF MemInv, Table, TableInHand
<1>8. PICK r \in Mine(p) : page_table[r].page = page
  BY <1>7 DEF Numbers
<1>9. r \in Rows /\ page_table[r] = [pid |-> p, page |-> page]
  BY <1>8 DEF Mine, MemInv, MemType, Entradas
<1>10. FrameOf(p, page) = r
  BY <1>1, <1>9, FrameIs
<1>11. r * MarcoSize + (a % MarcoSize) \in 0..(Marcos * MarcoSize - 1)
  BY <1>4, <1>9, InMain
<1> QED BY <1>3, <1>4, <1>6, <1>9, <1>10, <1>11 DEF Cell

\* No two bytes of the spaces are one byte of the memory.
LEMMA CellsApart ==
  ASSUME PidsFit, MemInv, NEW p \in Pids, NEW q \in Pids, InMemory(p), InMemory(q),
         NEW a \in Addresses(p), NEW b \in Addresses(q), Cell(p, a) = Cell(q, b)
  PROVE  p = q /\ a = b
<1>1. PICK r \in Rows : /\ page_table[r] = [pid |-> p, page |-> a \div MarcoSize]
                        /\ Cell(p, a) = r * MarcoSize + (a % MarcoSize)
  BY CellOf
<1>2. PICK t \in Rows : /\ page_table[t] = [pid |-> q, page |-> b \div MarcoSize]
                        /\ Cell(q, b) = t * MarcoSize + (b % MarcoSize)
  BY CellOf
<1>3. r \in Nat /\ t \in Nat /\ MarcoSize \in Nat
  BY Sizes
<1>4. /\ a % MarcoSize \in 0..(MarcoSize - 1) /\ a = (a \div MarcoSize) * MarcoSize + (a % MarcoSize)
      /\ b % MarcoSize \in 0..(MarcoSize - 1) /\ b = (b \div MarcoSize) * MarcoSize + (b % MarcoSize)
  BY CellOf
<1>5. r = t /\ a % MarcoSize = b % MarcoSize
  <2>1. PICK o \in 0..(MarcoSize - 1), e \in 0..(MarcoSize - 1) :
          o = a % MarcoSize /\ e = b % MarcoSize
    BY <1>4
  <2>2. r * MarcoSize + o = t * MarcoSize + e
    BY <1>1, <1>2, <2>1
  <2>3. r = t /\ o = e
    BY <1>3, <2>2, OnePlaceEach
  <2> QED BY <2>1, <2>3
<1> QED BY <1>1, <1>2, <1>4, <1>5

\* The address of the first byte of a request.
Address(c) == hilo[c].page * MarcoSize + hilo[c].offset

\* What a thread is about to copy is in its frame, which is that of the addresses.
LEMMA CopyCell ==
  ASSUME PidsFit, MemInv, NEW c \in Clients, hilo[c].at \in {"find", "copy"},
         NEW p, p = hilo[c].usrpid, hilo[c].offset + hilo[c].size <= MarcoSize,
         NEW k \in 1..hilo[c].size
  PROVE  /\ p \in Pids /\ InMemory(p) /\ Address(c) \in Nat
         /\ Address(c) + k - 1 \in Addresses(p)
         /\ hilo[c].at = "copy" => Cell(p, Address(c) + k - 1) = Base(c) + k - 1
<1> DEFINE page == hilo[c].page
           o == hilo[c].offset + k - 1
           a == page * MarcoSize + o
<1>1. Held(c) /\ hilo[c] \in Hilo
  BY DEF MemInv, Table, RequestsHeld, MemType
<1>2. /\ page \in Nat /\ hilo[c].offset \in Nat /\ hilo[c].size \in Nat /\ MarcoSize \in Nat \ {0}
      /\ p \in Pids /\ InMemory(p) /\ page < PagesOf(p)
  BY <1>1, Sizes DEF Held, Hilo
<1>3. o \in 0..(MarcoSize - 1) /\ page * MarcoSize \in Nat
  BY <1>2, Product
<1>4. a = Address(c) + k - 1 /\ Address(c) \in Nat
  BY <1>2, <1>3 DEF Address
<1>5. a \in Addresses(p)
  <2>1. PagesOf(p) \in Nat
    BY <1>2, PagesNat DEF MemInv
  <2>2. page * MarcoSize + MarcoSize <= PagesOf(p) * MarcoSize /\ PagesOf(p) * MarcoSize \in Nat
    BY <1>2, <2>1, Scaled, Product
  <2> HIDE DEF o, page
  <2> QED BY <1>2, <1>3, <2>2 DEF Addresses
<1>6. ASSUME hilo[c].at = "copy" PROVE Cell(p, a) = Base(c) + k - 1
  <2>1. /\ hilo[c].frame \in Rows /\ hilo[c].frame \in Nat
        /\ page_table[hilo[c].frame] = [pid |-> p, page |-> page]
    BY <1>1, <1>6, Sizes DEF Held, HoldsPage, Hilo
  <2>2. FrameOf(p, page) = hilo[c].frame
    BY <1>2, <2>1, FrameIs
  <2>3. a \div MarcoSize = page /\ a % MarcoSize = o
    BY <1>2, <1>3, PlaceOf
  <2>4. hilo[c].frame * MarcoSize \in Nat
    BY <1>2, <2>1, Product
  <2> QED BY <1>2, <2>2, <2>3, <2>4 DEF Cell, Base
<1> QED BY <1>2, <1>4, <1>5, <1>6

----------------------------------------------------------------------------
(* The spaces change only when they are given, taken away or written to.   *)

\* A program that stays keeps its frames.
LEMMA RowsKept ==
  ASSUME PidsFit, MemInv, [Next]_vars, NEW q \in Pids, InMemory(q), InMemory(q)'
  PROVE  /\ programa'[q].size = programa[q].size
         /\ \A r \in Rows : page_table[r].pid = q => page_table'[r] = page_table[r]
<1>0. MemType /\ Talks /\ Table /\ q # 0 /\ Kernel \in Clients /\ Kernel \notin Cpus
  BY Sizes DEF MemInv
<1>1. CASE KernelStep
  <2>1. UNCHANGED page_table
    BY <1>1 DEF KernelStep, AsksForPages, GetsPages, StoresCode, StoresStack, PageStored,
                Dispatches, EndsProgram, EndsOrphan, PagesFreed
  <2>2. PICK p \in Pids :
          \/ \E size \in CodeSizes : AsksForPages(p, size)
          \/ GetsPages(p) \/ StoresCode(p) \/ StoresStack(p) \/ PageStored(p)
          \/ \E c \in Cpus : Dispatches(p, c)
          \/ EndsProgram(p) \/ EndsOrphan(p) \/ PagesFreed(p)
    BY <1>1 DEF KernelStep
  <2>3. ASSUME NEW size \in CodeSizes, AsksForPages(p, size)
        PROVE  programa'[q].size = programa[q].size
    BY <1>0, <2>3, StartAsks DEF InMemory
  <2>4. ASSUME UNCHANGED programa \/ \E e \in Estados : Becomes(p, e)
        PROVE  programa'[q].size = programa[q].size
    BY <1>0, <2>4, BecomesType
  <2>5. CASE PageStored(p)
    BY <1>0, <2>1, <2>5 DEF PageStored, MemType, Programa
  <2>6. CASE EndsProgram(p) \/ EndsOrphan(p)
    BY <1>0, <2>1, <2>6, ClearAsks
  <2>7. CASE GetsPages(p) \/ StoresCode(p) \/ StoresStack(p) \/ PagesFreed(p)
             \/ \E c \in Cpus : Dispatches(p, c)
    BY <2>1, <2>4, <2>7 DEF GetsPages, StoresCode, StoresStack, PagesFreed, Dispatches, Estados
  <2> QED BY <2>1, <2>2, <2>3, <2>5, <2>6, <2>7
<1>2. ASSUME NEW c \in Cpus, CpuStep(c)
      PROVE  UNCHANGED page_table /\ programa'[q].size = programa[q].size
  <2>1. UNCHANGED page_table
    BY <1>2 DEF CpuStep, FetchesInstruction, ReadsVariable, AssignsVariable, CpuGetsAnswer,
                FinishesProgram
  <2>2. CASE FinishesProgram(c)
    <3>1. en_cpu[c] \in Pids /\ Becomes(en_cpu[c], "ending") /\ "ending" \in Estados
      BY <1>0, <2>2 DEF FinishesProgram, Runs, MemType, Estados
    <3> QED BY <1>0, <2>1, <3>1, BecomesType
  <2>3. CASE UNCHANGED programa
    BY <2>1, <2>3
  <2> QED BY <1>2, <2>2, <2>3 DEF CpuStep, FetchesInstruction, ReadsVariable, AssignsVariable,
                                  CpuGetsAnswer
<1>3. ASSUME NEW c \in Clients, ThreadStep(c)
      PROVE  /\ programa'[q].size = programa[q].size
             /\ \A r \in Rows : page_table[r].pid = q => page_table'[r] = page_table[r]
  <2>0. programa' = programa
    BY <1>0, <1>3, ThreadGoes DEF Serves
  <2>1. CASE UNCHANGED page_table
    BY <2>0, <2>1
  <2>2. CASE SetsOwner(c)
    <3>1. UNCHANGED page_table \/ \E i \in Rows : \E entrada : RowSet(i, entrada) /\ page_table[i].pid = 0
      BY <1>0, <2>2, SetsOwnerDoes
    <3> QED BY <1>0, <2>0, <3>1 DEF RowSet
  <2>3. ASSUME NEW i \in Rows, NEW entrada, NEW p \in Pids,
               programa[p].estado \in {"asking", "freeing"}, page_table[i].pid \in {0, p},
               RowSet(i, entrada)
        PROVE  \A r \in Rows : page_table[r].pid = q => page_table'[r] = page_table[r]
    BY <1>0, <2>3 DEF RowSet, InMemory
  <2>4. CASE NumbersPage(c) \/ ClearsOwner(c) \/ ClearsPage(c)
    <3>1. hilo[c].at \in {"number", "clear", "zero"}
      BY <2>4 DEF NumbersPage, ClearsOwner, ClearsPage
    <3>2. c = Kernel
      BY <1>0, <3>1, Sizes DEF Talks, CpusTalk
    <3>3. PICK p \in Pids :
            /\ hilo[Kernel].usrpid = p
            /\ IF hilo[Kernel].at \in {"clear", "zero"} THEN programa[p].estado = "freeing"
               ELSE programa[p].estado = "asking"
      BY <1>0, <3>1, <3>2, ServedProgram
    <3>4. CASE NumbersPage(c)
      <4>1. /\ hilo[Kernel].at = "number" /\ hilo[Kernel].i \in Rows
            /\ \E entrada : RowSet(hilo[Kernel].i, entrada)
        BY <1>0, <3>2, <3>4, NumbersPageDoes
      <4>2. page_table[hilo[Kernel].i].pid = p
        BY <1>0, <3>3, <4>1 DEF Table, TableInHand, Assigned, Mine
      <4> QED BY <2>0, <2>3, <3>3, <4>1, <4>2
    <3>5. CASE ClearsOwner(c)
      <4>1. /\ hilo[Kernel].at = "clear" /\ hilo[Kernel].i \in Rows
            /\ UNCHANGED page_table
               \/ /\ page_table[hilo[Kernel].i].pid = p
                  /\ \E entrada : RowSet(hilo[Kernel].i, entrada)
        BY <1>0, <3>2, <3>3, <3>5, ClearsOwnerDoes
      <4> QED BY <2>0, <2>3, <3>3, <4>1
    <3>6. CASE ClearsPage(c)
      <4>1. /\ hilo[Kernel].at = "zero" /\ hilo[Kernel].i \in Rows
            /\ \E entrada : RowSet(hilo[Kernel].i, entrada)
        BY <1>0, <3>2, <3>6, ClearsPageDoes
      <4>2. page_table[hilo[Kernel].i].pid = 0
        BY <1>0, <3>3, <4>1 DEF Table, TableInHand, Cleared
      <4> QED BY <2>0, <2>3, <3>3, <4>1, <4>2
    <3> QED BY <2>4, <3>4, <3>5, <3>6
  <2> QED BY <1>3, <2>1, <2>2, <2>4 DEF ThreadStep, SetPagesCounts, PagesSet, PagesCleared,
                                       GetFrame, GetBytes, SetBytes
<1>4. CASE UNCHANGED vars
  BY <1>4 DEF vars
<1> QED BY <1>1, <1>2, <1>3, <1>4 DEF Next

\* ... so its bytes stay in their cells.
LEMMA CellsKept ==
  ASSUME PidsFit, MemInv, MemInv', [Next]_vars, NEW q \in Pids, InMemory(q), InMemory(q)'
  PROVE  /\ Addresses(q)' = Addresses(q)
         /\ \A a \in Addresses(q) : Cell(q, a)' = Cell(q, a)
<1>1. /\ programa'[q].size = programa[q].size
      /\ \A r \in Rows : page_table[r].pid = q => page_table'[r] = page_table[r]
  BY RowsKept
<1>2. Addresses(q)' = Addresses(q)
  BY <1>1 DEF Addresses, PagesOf
<1>3. ASSUME NEW a \in Addresses(q) PROVE Cell(q, a)' = Cell(q, a)
  <2>1. PICK r \in Rows : /\ page_table[r] = [pid |-> q, page |-> a \div MarcoSize]
                          /\ Cell(q, a) = r * MarcoSize + (a % MarcoSize)
    BY CellOf
  <2>2. page_table'[r] = [pid |-> q, page |-> a \div MarcoSize]
    BY <1>1, <2>1
  <2>3. a \div MarcoSize \in Nat
    BY CellOf
  <2>4. FrameOf(q, a \div MarcoSize)' = r
    <3>1. ASSUME NEW page \in Nat, page_table'[r] = [pid |-> q, page |-> page]
          PROVE  FrameOf(q, page)' = r
      <4>1. \A t \in Rows : page_table'[t] = [pid |-> q, page |-> page] => t = r
        <5>1. Numbers(Mine(q), 0, PagesOf(q))'
          BY DEF MemInv, Table, TableInHand
        <5> QED BY <3>1, <5>1 DEF Numbers, Mine
      <4> DEFINE found == {i \in Rows : page_table'[i] = [pid |-> Usrpid(q), page |-> page]}
      <4>2. found = {r} /\ r <= r
        BY <3>1, <4>1, UsrpidIs, Sizes
      <4>3. FrameOf(q, page)' = IF found = {} THEN 0
                                ELSE CHOOSE i \in found : \A j \in found : i <= j
        BY DEF FrameOf
      <4> HIDE DEF found
      <4> QED BY <4>2, <4>3
    <3> QED BY <2>2, <2>3, <3>1
  <2> QED BY <2>1, <2>4 DEF Cell
<1> QED BY <1>2, <1>3

LEMMA SpaceKept ==
  ASSUME PidsFit, MemInv, MemInv', [Next]_vars, UNCHANGED main,
         NEW q \in Pids, InMemory(q), InMemory(q)'
  PROVE  espacio'[q] = espacio[q]
<1>1. espacio[q] = [a \in Addresses(q) |-> main[Cell(q, a)]]
  BY SpaceIs
<1>2. espacio'[q] = [a \in Addresses(q)' |-> main'[Cell(q, a)']]
  BY DEF espacio, Addresses, Cell
<1> QED BY <1>1, <1>2, CellsKept

----------------------------------------------------------------------------
(* What is copied.                                                         *)

LEMMA Fits ==
  ASSUME MemInv, Aims, NEW c \in Clients, hilo[c].at \in {"find", "copy"}
  PROVE  hilo[c].offset + hilo[c].size <= MarcoSize
<1>1. CASE c \in Cpus
  BY <1>1 DEF Aims, CpuAims
<1>2. CASE c = Kernel
  <2>1. PICK p \in Pids : programa[p].estado = "loading"
    BY <1>2, AskerIs, Sizes DEF MemInv
  <2>2. hilo[c].offset = 0 /\ hilo[c].size <= MarcoSize
    BY <1>2, <2>1 DEF Aims, KernelAims
  <2>3. hilo[c].size \in Nat
    BY DEF MemInv, MemType, Hilo
  <2> QED BY <2>2, <2>3
<1> QED BY <1>1, <1>2, Sizes

\* get_bytes copies what is in the space at the addresses of the request.
LEMMA ReadIs ==
  ASSUME PidsFit, MemInv, Aims, NEW c \in Clients, GetBytes(c), hilo[c].size > 0,
         NEW p, p = hilo[c].usrpid
  PROVE  hilo'[c].datos = [k \in 1..hilo[c].size |-> espacio[p][Address(c) + k - 1]]
<1> DEFINE datos == [k \in 1..hilo[c].size |-> IF Base(c) + k - 1 \in DOMAIN main
                                               THEN main[Base(c) + k - 1] ELSE Nobody]
<1>1. hilo[c].at = "copy" /\ hilo[c] \in Hilo
  BY DEF GetBytes, MemInv, MemType
<1>2. hilo[c].offset + hilo[c].size <= MarcoSize
  BY <1>1, Fits
<1>3. hilo'[c].datos = datos
  <2>1. hilo[c].size \in Nat
    BY <1>1 DEF Hilo
  <2>2. hilo' = [hilo EXCEPT ![c].at = "answered", ![c].res = 1, ![c].datos = datos]
    BY <2>1 DEF GetBytes
  <2> HIDE DEF datos
  <2> QED BY <1>1, <2>2 DEF MemInv, MemType, Hilo
<1>4. ASSUME NEW k \in 1..hilo[c].size PROVE datos[k] = espacio[p][Address(c) + k - 1]
  <2>1. /\ p \in Pids /\ InMemory(p) /\ Address(c) + k - 1 \in Addresses(p)
        /\ Cell(p, Address(c) + k - 1) = Base(c) + k - 1
    BY <1>1, <1>2, CopyCell
  <2>2. Cell(p, Address(c) + k - 1) \in 0..(Marcos * MarcoSize - 1)
    BY <2>1, CellOf
  <2>3. espacio[p][Address(c) + k - 1] = main[Cell(p, Address(c) + k - 1)]
    BY <2>1, SpaceIs
  <2>4. DOMAIN main = 0..(Marcos * MarcoSize - 1)
    BY DEF MemInv, MemType
  <2> QED BY <2>1, <2>2, <2>3, <2>4
<1> HIDE DEF datos
<1>5. datos = [k \in 1..hilo[c].size |-> datos[k]]
  BY DEF datos
<1> QED BY <1>3, <1>4, <1>5

\* set_bytes writes at the addresses of the request, in no other space.
LEMMA WriteIs ==
  ASSUME PidsFit, MemInv, MemInv', Aims, NEW c \in Clients, SetBytes(c),
         NEW p, p = hilo[c].usrpid
  PROVE  /\ p \in Pids /\ InMemory(p)
         /\ espacio'[p] = [a \in Addresses(p) |->
                             IF a - Address(c) + 1 \in 1..hilo[c].size
                             THEN hilo[c].datos[a - Address(c) + 1] ELSE espacio[p][a]]
         /\ \A q \in Pids : q # p => espacio'[q] = espacio[q]
<1>1. hilo[c].at = "copy" /\ hilo[c] \in Hilo /\ UNCHANGED <<page_table, programa, en_cpu>>
  BY DEF SetBytes, MemInv, MemType
<1>2. hilo[c].offset + hilo[c].size <= MarcoSize /\ hilo[c].size \in Nat
  BY <1>1, Fits DEF Hilo
<1>3. p \in Pids /\ InMemory(p) /\ Address(c) \in Nat /\ Base(c) \in Nat
  <2>1. Held(c)
    BY <1>1 DEF MemInv, Table, RequestsHeld
  <2>2. /\ hilo[c].page \in Nat /\ hilo[c].offset \in Nat /\ hilo[c].frame \in Nat
        /\ MarcoSize \in Nat
    BY <1>1, Sizes DEF Hilo
  <2>3. hilo[c].page * MarcoSize \in Nat /\ hilo[c].frame * MarcoSize \in Nat
    BY <2>2, Product
  <2> QED BY <2>1, <2>2, <2>3 DEF Held, Address, Base
<1>4. \A b \in DOMAIN main : main'[b] = IF b - Base(c) + 1 \in 1..hilo[c].size
                                        THEN hilo[c].datos[b - Base(c) + 1] ELSE main[b]
  <2>1. CASE hilo[c].size <= 0
    <3>1. 1..hilo[c].size = {} /\ main' = main
      BY <1>2, <2>1 DEF SetBytes
    <3> QED BY <3>1
  <2>2. CASE ~(hilo[c].size <= 0)
    BY <2>2 DEF SetBytes
  <2> QED BY <2>1, <2>2
<1>5. \A k \in 1..hilo[c].size : /\ Address(c) + k - 1 \in Addresses(p)
                                 /\ Cell(p, Address(c) + k - 1) = Base(c) + k - 1
  BY <1>1, <1>2, CopyCell
<1>6. \A q \in Pids : /\ InMemory(q)' <=> InMemory(q)
                      /\ Addresses(q)' = Addresses(q)
                      /\ \A a : Cell(q, a)' = Cell(q, a)
  BY <1>1 DEF InMemory, Addresses, PagesOf, Cell, FrameOf
<1>7. ASSUME NEW q \in Pids, InMemory(q), NEW a \in Addresses(q)
      PROVE  /\ a \in Nat /\ Cell(q, a) \in DOMAIN main
             /\ main'[Cell(q, a)] = IF q = p /\ a - Address(c) + 1 \in 1..hilo[c].size
                                    THEN hilo[c].datos[a - Address(c) + 1] ELSE main[Cell(q, a)]
  <2>1. a \in Nat /\ Cell(q, a) \in 0..(Marcos * MarcoSize - 1)
    BY <1>7, CellOf
  <2>2. DOMAIN main = 0..(Marcos * MarcoSize - 1) /\ Cell(q, a) \in Int
    BY <2>1 DEF MemInv, MemType
  <2>3. CASE q = p /\ a - Address(c) + 1 \in 1..hilo[c].size
    <3>1. PICK k \in 1..hilo[c].size : k = a - Address(c) + 1
      BY <2>3
    <3>2. Address(c) + k - 1 = a
      BY <1>3, <2>1, <3>1
    <3>3. Cell(q, a) = Base(c) + k - 1
      BY <1>5, <2>3, <3>2
    <3>4. Cell(q, a) - Base(c) + 1 = k
      BY <1>2, <1>3, <3>3
    <3> QED BY <1>4, <2>1, <2>2, <2>3, <3>1, <3>4
  <2>4. CASE ~(q = p /\ a - Address(c) + 1 \in 1..hilo[c].size)
    <3>1. ASSUME Cell(q, a) - Base(c) + 1 \in 1..hilo[c].size PROVE FALSE
      <4>1. PICK k \in 1..hilo[c].size : k = Cell(q, a) - Base(c) + 1
        BY <3>1
      <4>2. Cell(q, a) = Base(c) + k - 1
        BY <1>3, <2>2, <4>1
      <4>3. Cell(p, Address(c) + k - 1) = Cell(q, a) /\ Address(c) + k - 1 \in Addresses(p)
        BY <1>5, <4>2
      <4>4. p = q /\ Address(c) + k - 1 = a
        BY <1>3, <1>7, <4>3, CellsApart
      <4>5. a - Address(c) + 1 = k
        BY <1>2, <1>3, <4>4
      <4> QED BY <2>4, <4>4, <4>5
    <3> QED BY <1>4, <2>1, <2>2, <2>4, <3>1
  <2> QED BY <2>1, <2>2, <2>3, <2>4
<1>8. ASSUME NEW q \in Pids
      PROVE  espacio'[q] = IF InMemory(q) THEN [a \in Addresses(q) |-> main'[Cell(q, a)]] ELSE <<>>
  <2>1. espacio'[q] = IF InMemory(q)' THEN [a \in Addresses(q)' |-> main'[Cell(q, a)']] ELSE <<>>
    BY DEF espacio, Addresses, Cell
  <2> QED BY <1>6, <2>1
<1>9. \A q \in Pids : q # p => espacio'[q] = espacio[q]
  BY ZenonT(60), <1>7, <1>8, SpaceIs
<1>10. \A a \in Addresses(p) : espacio[p][a] = main[Cell(p, a)]
  BY <1>3, SpaceIs
<1>11. espacio'[p] = [a \in Addresses(p) |->
                        IF a - Address(c) + 1 \in 1..hilo[c].size
                        THEN hilo[c].datos[a - Address(c) + 1] ELSE espacio[p][a]]
  BY <1>3, <1>7, <1>8, <1>10
<1> QED BY <1>3, <1>9, <1>11

\* ... with the program named by the request.
LEMMA Written ==
  ASSUME PidsFit, MemInv, MemInv', Aims, NEW c \in Clients, SetBytes(c)
  PROVE  /\ hilo[c].usrpid \in Pids /\ InMemory(hilo[c].usrpid)
         /\ espacio'[hilo[c].usrpid] =
              [a \in Addresses(hilo[c].usrpid) |->
                 IF a - Address(c) + 1 \in 1..hilo[c].size
                 THEN hilo[c].datos[a - Address(c) + 1] ELSE espacio[hilo[c].usrpid][a]]
         /\ \A q \in Pids : q # hilo[c].usrpid => espacio'[q] = espacio[q]
BY WriteIs

----------------------------------------------------------------------------
(* The requests of the clients, as ProgramSpaces sees them.                *)

Ask(c) ==
  [op |-> hilo[c].op, pid |-> hilo[c].usrpid, address |-> Address(c), size |-> hilo[c].size,
   datos |-> IF hilo[c].op = "OP_ME_ALMBYTPAG" THEN hilo[c].datos ELSE <<>>]

Pedidos ==
  \A c \in Clients :
    IF hilo[c].at \in {"find", "copy"}
    THEN /\ pedido[c] = Ask(c) /\ Ask(c) # Nothing
         /\ hilo[c].usrpid \in Pids /\ InMemory(hilo[c].usrpid)
         /\ \A k \in 1..hilo[c].size : Address(c) + k - 1 \in Addresses(hilo[c].usrpid)
    ELSE pedido[c] = Nothing

LEMMA PedidosAre == ASSUME PidsFit PROVE MemInv /\ Aims => Pedidos
<1> SUFFICES ASSUME MemInv, Aims, NEW c \in Clients, hilo[c].at \in {"find", "copy"}
             PROVE  /\ pedido[c] = Ask(c) /\ Ask(c) # Nothing
                    /\ hilo[c].usrpid \in Pids /\ InMemory(hilo[c].usrpid)
                    /\ \A k \in 1..hilo[c].size : Address(c) + k - 1 \in Addresses(hilo[c].usrpid)
  BY DEF Pedidos, pedido
<1>1. /\ hilo[c].usrpid \in Pids /\ InMemory(hilo[c].usrpid) /\ hilo[c] \in Hilo
  BY DEF MemInv, Table, RequestsHeld, Held, MemType
<1>2. \A k \in 1..hilo[c].size : Address(c) + k - 1 \in Addresses(hilo[c].usrpid)
  BY Fits, CopyCell
<1>3. Asker(c) = hilo[c].usrpid
  <2>1. CASE c = Kernel
    <3>1. PICK p \in Pids : hilo[c].usrpid = p /\ programa[p].estado = "loading"
      BY <2>1, AskerIs, Sizes DEF MemInv
    <3>2. \A q \in Pids : programa[q].estado = "loading" => q = p
      BY <3>1 DEF MemInv, Talks, KernelTalks, Busy
    <3> QED BY <2>1, <3>1, <3>2 DEF Asker
  <2>2. CASE c \in Cpus
    BY <2>2, Sizes DEF Asker, MemInv, Talks, CpusTalk
  <2> QED BY <2>1, <2>2, Sizes
<1>4. pedido[c] = Ask(c)
  BY <1>3 DEF pedido, Ask, Address
<1>5. Ask(c) # Nothing
  <2>1. hilo[c].op \in {"OP_ME_SOLBYTPAG", "OP_ME_ALMBYTPAG"}
    <3>1. CASE c = Kernel
      <4>1. PICK p \in Pids : hilo[c].usrpid = p /\ programa[p].estado = "loading"
        BY <3>1, AskerIs, Sizes DEF MemInv
      <4> QED BY <3>1, <4>1 DEF MemInv, Talks, KernelTalks
    <3>2. CASE c \in Cpus
      BY <3>2 DEF MemInv, Talks, CpusTalk
    <3> QED BY <3>1, <3>2, Sizes
  <2>2. hilo[c].usrpid \in Nat /\ hilo[c].size \in Nat
    BY <1>1, Sizes DEF Hilo
  <2>3. Address(c) \in Nat
    <3>1. hilo[c].page \in Nat /\ hilo[c].offset \in Nat /\ MarcoSize \in Nat
      BY <1>1, Sizes DEF Hilo
    <3>2. hilo[c].page * MarcoSize \in Nat
      BY <3>1, Product
    <3> QED BY <3>1, <3>2 DEF Address
  <2>4. \A s \in Seq(Bytes) : s \in Seq(Nat \X Nat \X Nat)
    <3>1. \A b \in Bytes : b \in Nat \X Nat \X Nat
      <4>1. Pids \subseteq Nat /\ Values \cup {0} \subseteq Nat
        BY BoundsAssumption DEF Pids
      <4>2. <<0, 0, 0>> \in Nat \X Nat \X Nat
        OBVIOUS
      <4>3. \A b \in Pids \X Nat \X (Values \cup {0}) : b \in Nat \X Nat \X Nat
        BY <4>1
      <4> QED BY <4>2, <4>3 DEF Bytes, Nobody
    <3> QED BY <3>1
  <2>5. Ask(c).datos \in Seq(Nat \X Nat \X Nat)
    BY <1>1, <2>4 DEF Ask, Hilo
  <2>6. Ask(c) \in [op : {"OP_ME_SOLBYTPAG", "OP_ME_ALMBYTPAG"}, pid : Nat, address : Nat,
                    size : Nat, datos : Seq(Nat \X Nat \X Nat)]
    BY <2>1, <2>2, <2>3, <2>5 DEF Ask
  <2> QED BY <2>6, NothingAssumption
<1> QED BY <1>1, <1>2, <1>4, <1>5

LEMMA PedidosNext == ASSUME PidsFit PROVE MemInv' /\ Aims' => Pedidos'
BY PedidosAre, PTL

\* The Kernel never reads.
KernelDoesNotRead == hilo[Kernel].op # "OP_ME_SOLBYTPAG"

LEMMA KernelWrites == MemInv => KernelDoesNotRead
<1> SUFFICES ASSUME MemInv PROVE hilo[Kernel].op # "OP_ME_SOLBYTPAG"
  BY DEF KernelDoesNotRead
<1>1. CASE \A p \in Pids : ~Busy(p)
  BY <1>1 DEF MemInv, Talks, KernelTalks
<1>2. ASSUME NEW p \in Pids, Busy(p) PROVE hilo[Kernel].op # "OP_ME_SOLBYTPAG"
  BY <1>2 DEF MemInv, Talks, KernelTalks, Busy
<1> QED BY <1>1, <1>2

LEMMA KernelWritesNext == MemInv' => KernelDoesNotRead'
BY KernelWrites, PTL

LEMMA OthersSame ==
  ASSUME Pedidos, Pedidos', NEW c \in Clients, \A d \in Clients : d # c => hilo'[d] = hilo[d]
  PROVE  \A d \in Clients : d # c => pedido'[d] = pedido[d] /\ leido'[d] = leido[d]
<1>1. ASSUME NEW d \in Clients, d # c PROVE pedido'[d] = pedido[d] /\ leido'[d] = leido[d]
  <2>1. hilo'[d] = hilo[d]
    BY <1>1
  <2>2. leido'[d] = leido[d]
    BY <2>1 DEF leido, Answered
  <2>3. pedido'[d] = pedido[d]
    BY <2>1 DEF Pedidos, Ask, Address
  <2> QED BY <2>2, <2>3
<1> QED BY <1>1

\* The three of them are functions.
LEMMA AreFunctions ==
  /\ espacio = [p \in Pids |-> espacio[p]] /\ espacio' = [p \in Pids |-> espacio'[p]]
  /\ pedido = [c \in Clients |-> pedido[c]] /\ pedido' = [c \in Clients |-> pedido'[c]]
  /\ leido = [c \in Clients |-> leido[c]] /\ leido' = [c \in Clients |-> leido'[c]]
<1>1. espacio = [p \in Pids |-> espacio[p]] /\ espacio' = [p \in Pids |-> espacio'[p]]
  BY DEF espacio
<1>2. pedido = [c \in Clients |-> pedido[c]] /\ pedido' = [c \in Clients |-> pedido'[c]]
  BY DEF pedido
<1>3. leido = [c \in Clients |-> leido[c]] /\ leido' = [c \in Clients |-> leido'[c]]
  BY DEF leido
<1> QED BY <1>1, <1>2, <1>3

\* Only one client's request, or one space, is another.
LEMMA OneChanges ==
  /\ \A p \in Pids : (\A q \in Pids : q # p => espacio'[q] = espacio[q]) =>
       espacio' = [espacio EXCEPT ![p] = espacio'[p]]
  /\ \A c \in Clients : (\A d \in Clients : d # c => pedido'[d] = pedido[d]) =>
       pedido' = [pedido EXCEPT ![c] = pedido'[c]]
  /\ \A c \in Clients : (\A d \in Clients : d # c => leido'[d] = leido[d]) =>
       leido' = [leido EXCEPT ![c] = leido'[c]]
  /\ (\A p \in Pids : espacio'[p] = espacio[p]) => espacio' = espacio
  /\ (\A c \in Clients : pedido'[c] = pedido[c]) => pedido' = pedido
  /\ (\A c \in Clients : leido'[c] = leido[c]) => leido' = leido
<1> DEFINE e == espacio  f == espacio'  g == pedido  h == pedido'  l == leido  m == leido'
<1>1. /\ e = [p \in Pids |-> e[p]] /\ f = [p \in Pids |-> f[p]]
      /\ g = [c \in Clients |-> g[c]] /\ h = [c \in Clients |-> h[c]]
      /\ l = [c \in Clients |-> l[c]] /\ m = [c \in Clients |-> m[c]]
  BY AreFunctions
<1> HIDE DEF e, f, g, h, l, m
<1>2. \A p \in Pids : (\A q \in Pids : q # p => f[q] = e[q]) => f = [e EXCEPT ![p] = f[p]]
  BY <1>1
<1>3. \A c \in Clients : (\A d \in Clients : d # c => h[d] = g[d]) => h = [g EXCEPT ![c] = h[c]]
  BY <1>1
<1>4. \A c \in Clients : (\A d \in Clients : d # c => m[d] = l[d]) => m = [l EXCEPT ![c] = m[c]]
  BY <1>1
<1>5. (\A p \in Pids : f[p] = e[p]) => f = e
  BY <1>1
<1>6. (\A c \in Clients : h[c] = g[c]) => h = g
  BY <1>1
<1>7. (\A c \in Clients : m[c] = l[c]) => m = l
  BY <1>1
<1> QED BY <1>2, <1>3, <1>4, <1>5, <1>6, <1>7 DEF e, f, g, h, l, m

\* A step that is none of ProgramSpaces's.
LEMMA SpacesStutter ==
  ASSUME PidsFit, MemInv, MemInv', Pedidos, Pedidos', [Next]_vars, UNCHANGED main,
         \A q \in Pids : InMemory(q)' <=> InMemory(q),
         \A c \in Clients : pedido'[c] = pedido[c] /\ leido'[c] = leido[c]
  PROVE  UNCHANGED <<espacio, pedido, leido>>
<1>1. ASSUME NEW q \in Pids PROVE espacio'[q] = espacio[q]
  <2>1. CASE InMemory(q)
    BY <2>1, SpaceKept
  <2>2. CASE ~InMemory(q)
    BY <2>2 DEF espacio
  <2> QED BY <2>1, <2>2
<1> QED BY <1>1, OneChanges

----------------------------------------------------------------------------
(* Memoria implements ProgramSpaces.                                       *)

SpaceInv == MemInv /\ Aims

\* The request of c arrives.
LEMMA RequestArrives ==
  ASSUME PidsFit, MemInv, MemInv', Pedidos, Pedidos', [Next]_vars,
         UNCHANGED <<page_table, main, programa>>, NEW c \in Clients,
         hilo[c].at = "idle", hilo'[c].at = "find",
         \A d \in Clients : d # c => hilo'[d] = hilo[d]
  PROVE  Spaces!Asks(c)
<1>1. pedido[c] = Nothing /\ leido[c] = <<>> /\ leido'[c] = <<>>
  BY DEF Pedidos, leido, Answered
<1>2. \A d \in Clients : d # c => pedido'[d] = pedido[d] /\ leido'[d] = leido[d]
  BY OthersSame
<1>3. \A q \in Pids : /\ InMemory(q)' <=> InMemory(q)
                      /\ Addresses(q)' = Addresses(q)
  BY DEF InMemory, Addresses, PagesOf
<1>4. espacio' = espacio
  <2>1. ASSUME NEW q \in Pids PROVE espacio'[q] = espacio[q]
    <3>1. CASE InMemory(q)
      BY <1>3, <3>1, SpaceKept
    <3>2. CASE ~InMemory(q)
      BY <1>3, <3>2 DEF espacio
    <3> QED BY <3>1, <3>2
  <2> QED BY <2>1, OneChanges
<1>5. leido' = leido /\ pedido' = [pedido EXCEPT ![c] = pedido'[c]]
  BY <1>1, <1>2, OneChanges
<1>6. /\ pedido'[c] # Nothing /\ pedido'[c].pid \in Pids
      /\ \A k \in 1..pedido'[c].size :
           pedido'[c].address + k - 1 \in DOMAIN espacio[pedido'[c].pid]
  <2>0. PICK p \in Pids : p = hilo'[c].usrpid
    BY DEF Pedidos
  <2>1. /\ pedido'[c] = Ask(c)' /\ pedido'[c] # Nothing /\ InMemory(p)'
        /\ \A k \in 1..hilo'[c].size : Address(c)' + k - 1 \in Addresses(p)'
    <3>1. /\ pedido'[c] = Ask(c)' /\ Ask(c)' # Nothing /\ InMemory(hilo[c].usrpid)'
          /\ \A k \in 1..hilo'[c].size : Address(c)' + k - 1 \in Addresses(hilo[c].usrpid)'
      BY DEF Pedidos
    <3> QED BY <2>0, <3>1 DEF InMemory, Addresses, PagesOf
  <2>2. pedido'[c].pid = p /\ pedido'[c].size = hilo'[c].size /\ pedido'[c].address = Address(c)'
    BY <2>0, <2>1 DEF Ask
  <2>3. DOMAIN espacio[p] = Addresses(p) /\ Addresses(p)' = Addresses(p)
    BY <1>3, <2>1, SpaceIs
  <2> QED BY <2>1, <2>2, <2>3
<1> QED BY <1>1, <1>4, <1>5, <1>6 DEF Spaces!Asks

\* get_bytes reads the space, as it is then.
LEMMA ReadRefines ==
  ASSUME PidsFit, MemInv, MemInv', Aims, Pedidos, Pedidos', [Next]_vars,
         NEW c \in Clients, GetBytes(c)
  PROVE  Spaces!ReadFromPage(c)
<1> DEFINE p == hilo[c].usrpid
           datos == [k \in 1..hilo[c].size |-> espacio[p][Address(c) + k - 1]]
<1>1. /\ Serves(c) /\ UNCHANGED <<page_table, main, programa, en_cpu>>
      /\ hilo[c].at = "copy" /\ hilo'[c].at = "answered" /\ hilo[c].op = "OP_ME_SOLBYTPAG"
      /\ hilo'[c].op = "OP_ME_SOLBYTPAG" /\ \A d \in Clients : d # c => hilo'[d] = hilo[d]
  BY GetBytesDoes DEF MemInv, GetBytes, Serves
<1>2. c \in Cpus /\ hilo[c].size > 0
  BY <1>1, KernelWrites, Sizes DEF Aims, CpuAims, KernelDoesNotRead
<1>3. hilo'[c].datos = datos
  BY <1>2, ReadIs
<1>4. leido'[c] = datos
  BY <1>1, <1>3 DEF leido, Answered
<1>5. /\ pedido[c] = Ask(c) /\ pedido[c] # Nothing /\ pedido'[c] = Nothing
  BY <1>1 DEF Pedidos
<1>6. /\ pedido[c].op = "OP_ME_SOLBYTPAG" /\ pedido[c].pid = p
      /\ pedido[c].size = hilo[c].size /\ pedido[c].address = Address(c)
  BY <1>1, <1>5 DEF Ask
<1>7. \A d \in Clients : d # c => pedido'[d] = pedido[d] /\ leido'[d] = leido[d]
  BY <1>1, OthersSame
<1>8. espacio' = espacio
  BY <1>1 DEF espacio, InMemory, PagesOf, FrameOf
<1> HIDE DEF datos
<1>9. leido' = [leido EXCEPT ![c] = datos] /\ pedido' = [pedido EXCEPT ![c] = Nothing]
  BY <1>4, <1>5, <1>7, OneChanges
<1>10. datos = [k \in 1..pedido[c].size |-> espacio[pedido[c].pid][pedido[c].address + k - 1]]
  BY <1>6 DEF datos
<1> QED BY <1>5, <1>6, <1>8, <1>9, <1>10 DEF Spaces!ReadFromPage

\* set_bytes writes the space of the program, at once.
LEMMA WriteRefines ==
  ASSUME PidsFit, MemInv, MemInv', Aims, Pedidos, Pedidos', [Next]_vars,
         NEW c \in Clients, SetBytes(c)
  PROVE  Spaces!WriteToPage(c)
<1> DEFINE p == hilo[c].usrpid
           nuevo == [a \in Addresses(p) |->
                       IF a - Address(c) + 1 \in 1..hilo[c].size
                       THEN hilo[c].datos[a - Address(c) + 1] ELSE espacio[p][a]]
<1>1. /\ Serves(c) /\ hilo[c].at = "copy" /\ hilo'[c].at = "answered"
      /\ hilo[c].op = "OP_ME_ALMBYTPAG" /\ hilo'[c].op = "OP_ME_ALMBYTPAG"
      /\ \A d \in Clients : d # c => hilo'[d] = hilo[d]
  BY SetBytesDoes DEF MemInv, SetBytes, Serves
<1>2. /\ p \in Pids /\ InMemory(p) /\ espacio'[p] = nuevo
      /\ \A q \in Pids : q # p => espacio'[q] = espacio[q]
  BY WriteIs
<1>3. /\ pedido[c] = Ask(c) /\ pedido[c] # Nothing /\ pedido'[c] = Nothing
  BY <1>1 DEF Pedidos
<1>4. /\ pedido[c].op = "OP_ME_ALMBYTPAG" /\ pedido[c].pid = p /\ pedido[c].size = hilo[c].size
      /\ pedido[c].address = Address(c) /\ pedido[c].datos = hilo[c].datos
  BY <1>1, <1>3 DEF Ask
<1>5. /\ \A d \in Clients : d # c => pedido'[d] = pedido[d] /\ leido'[d] = leido[d]
      /\ leido'[c] = leido[c]
  BY <1>1, OthersSame DEF leido, Answered
<1>6. DOMAIN espacio[p] = Addresses(p)
  BY <1>2, SpaceIs
<1> HIDE DEF nuevo
<1>7. /\ espacio' = [espacio EXCEPT ![p] = nuevo] /\ leido' = leido
      /\ pedido' = [pedido EXCEPT ![c] = Nothing]
  BY <1>2, <1>3, <1>5, OneChanges
<1>8. nuevo = [a \in DOMAIN espacio[p] |->
                 IF a - pedido[c].address + 1 \in 1..pedido[c].size
                 THEN pedido[c].datos[a - pedido[c].address + 1] ELSE espacio[p][a]]
  BY <1>4, <1>6 DEF nuevo
<1>9. espacio' = [espacio EXCEPT ![pedido[c].pid] =
                    [a \in DOMAIN @ |-> IF a - pedido[c].address + 1 \in 1..pedido[c].size
                                        THEN pedido[c].datos[a - pedido[c].address + 1] ELSE @[a]]]
  BY <1>4, <1>7, <1>8
<1> QED BY <1>3, <1>4, <1>7, <1>9 DEF Spaces!WriteToPage

\* Something else goes on with the Kernel's thread than a look-up.
LEMMA KernelStutters ==
  ASSUME PidsFit, MemInv, MemInv', Pedidos, Pedidos', [Next]_vars, UNCHANGED main,
         \A q \in Pids : InMemory(q)' <=> InMemory(q),
         \A d \in Clients : d # Kernel => hilo'[d] = hilo[d],
         \/ hilo'[Kernel] = hilo[Kernel]
         \/ hilo[Kernel].at \notin {"find", "copy"} /\ hilo'[Kernel].at \notin {"find", "copy"}
  PROVE  UNCHANGED <<espacio, pedido, leido>>
<1>0. Kernel \in Clients
  BY Sizes
<1>1. \A d \in Clients : d # Kernel => pedido'[d] = pedido[d] /\ leido'[d] = leido[d]
  BY <1>0, OthersSame
<1>2. KernelDoesNotRead /\ KernelDoesNotRead'
  BY KernelWrites, KernelWritesNext
<1>3. leido'[Kernel] = leido[Kernel]
  BY <1>0, <1>2 DEF leido, KernelDoesNotRead
<1>4. pedido'[Kernel] = pedido[Kernel]
  BY <1>0 DEF Pedidos, Ask, Address
<1> QED BY <1>1, <1>3, <1>4, SpacesStutter

LEMMA KernelRefines ==
  ASSUME PidsFit, SpaceInv, SpaceInv', KernelStep
  PROVE  Spaces!Next \/ UNCHANGED <<espacio, pedido, leido>>
<1>0. /\ MemInv /\ MemInv' /\ Aims /\ Pedidos /\ Pedidos' /\ [Next]_vars /\ UNCHANGED main
      /\ MemType /\ Talks /\ Kernel \in Clients
  <2>1. MemInv /\ MemInv' /\ Aims /\ Aims'
    BY DEF SpaceInv
  <2>2. UNCHANGED main
    BY DEF KernelStep, AsksForPages, GetsPages, StoresCode, StoresStack, PageStored,
           Dispatches, EndsProgram, EndsOrphan, PagesFreed
  <2> QED BY <2>1, <2>2, PedidosAre, PedidosNext, Sizes DEF MemInv, Next
<1> PICK p \in Pids :
    \/ \E size \in CodeSizes : AsksForPages(p, size)
    \/ GetsPages(p) \/ StoresCode(p) \/ StoresStack(p) \/ PageStored(p)
    \/ \E c \in Cpus : Dispatches(p, c)
    \/ EndsProgram(p) \/ EndsOrphan(p) \/ PagesFreed(p)
    BY DEF KernelStep
<1>1. ASSUME NEW size \in CodeSizes, AsksForPages(p, size)
      PROVE  UNCHANGED <<espacio, pedido, leido>>
  <2>1. /\ hilo'[Kernel].at = "start" /\ hilo[Kernel].at = "idle"
        /\ programa'[p].estado = "asking" /\ programa[p].estado = "new"
        /\ \A q \in Pids : q # p => programa'[q] = programa[q]
        /\ \A d \in Clients : d # Kernel => hilo'[d] = hilo[d]
    BY <1>0, <1>1, StartAsks DEF KernelFree
  <2>2. \A q \in Pids : InMemory(q)' <=> InMemory(q)
    BY <2>1 DEF InMemory
  <2> QED BY <1>0, <2>1, <2>2, KernelStutters
\* The space of p comes or goes, and nothing else.
<1>2. ASSUME \A q \in Pids : q # p => programa'[q] = programa[q],
             \A d \in Clients : d # Kernel => hilo'[d] = hilo[d],
             hilo[Kernel].at \notin {"find", "copy"}, hilo'[Kernel].at \notin {"find", "copy"}
      PROVE  espacio' = [espacio EXCEPT ![p] = espacio'[p]] /\ UNCHANGED <<pedido, leido>>
  <2>1. ASSUME NEW q \in Pids, q # p PROVE espacio'[q] = espacio[q]
    <3>1. InMemory(q)' <=> InMemory(q)
      BY <1>2, <2>1 DEF InMemory
    <3>2. CASE InMemory(q)
      BY <1>0, <3>1, <3>2, SpaceKept
    <3>3. CASE ~InMemory(q)
      BY <3>1, <3>3 DEF espacio
    <3> QED BY <3>2, <3>3
  <2>2. \A d \in Clients : d # Kernel => pedido'[d] = pedido[d] /\ leido'[d] = leido[d]
    BY <1>0, <1>2, OthersSame
  <2>3. pedido'[Kernel] = pedido[Kernel] /\ leido'[Kernel] = leido[Kernel]
    <3>1. KernelDoesNotRead /\ KernelDoesNotRead'
      BY <1>0, KernelWrites, KernelWritesNext
    <3>2. leido'[Kernel] = leido[Kernel]
      BY <1>0, <3>1 DEF leido, KernelDoesNotRead
    <3>3. pedido'[Kernel] = pedido[Kernel]
      BY <1>0, <1>2 DEF Pedidos
    <3> QED BY <3>2, <3>3
  <2> QED BY <2>1, <2>2, <2>3, OneChanges
<1>3. CASE GetsPages(p)
  <2>1. PICK e \in {"loading", "over"} : Becomes(p, e)
    BY <1>3 DEF GetsPages
  <2>2. /\ programa[p].estado = "asking" /\ programa'[p].estado = e
        /\ \A q \in Pids : q # p => programa'[q] = programa[q]
    BY <1>0, <1>3, <2>1, BecomesType DEF GetsPages, Estados
  <2>3. /\ hilo[Kernel].at = "answered" /\ hilo'[Kernel].at = "idle"
        /\ \A d \in Clients : d # Kernel => hilo'[d] = hilo[d]
    BY <1>0, <1>3, TakesAnswerType, IdleType DEF GetsPages, Answered
  <2>4. CASE e = "loading"
    <3>1. espacio[p] = <<>>
      BY <2>2, SpaceIs DEF InMemory
    <3>2. espacio'[p] # <<>>
      <4>1. espacio'[p] = [a \in Addresses(p)' |-> main'[Cell(p, a)']]
        BY <2>2, <2>4 DEF espacio, InMemory, Addresses, Cell
      <4>2. 0 \in Addresses(p)'
        <5>1. PICK n \in Nat : n = PagesCode(programa'[p].size)
          BY <1>0, Sizes DEF MemInv, MemType, Programa
        <5>2. PICK m \in Nat : m = PagesOf(p)' /\ m > 0
          BY <5>1, Sizes DEF PagesOf
        <5>3. m * MarcoSize \in Nat /\ m * MarcoSize > 0
          <6>1. MarcoSize \in Nat \ {0}
            BY Sizes
          <6>2. 0 * MarcoSize + MarcoSize <= m * MarcoSize /\ m * MarcoSize \in Nat
            BY <5>2, <6>1, Scaled, Product
          <6> QED BY <6>1, <6>2
        <5> QED BY <5>2, <5>3 DEF Addresses
      <4>3. DOMAIN espacio'[p] # {}
        BY <4>1, <4>2
      <4> QED BY <4>3
    <3>3. espacio' = [espacio EXCEPT ![p] = espacio'[p]] /\ UNCHANGED <<pedido, leido>>
      BY <1>2, <2>2, <2>3
    <3>4. Spaces!AllocProgram(p)
      BY <3>1, <3>2, <3>3 DEF Spaces!AllocProgram, Spaces!NoSpace
    <3> QED BY <3>4 DEF Spaces!Next
  <2>5. CASE e = "over"
    <3>1. \A q \in Pids : InMemory(q)' <=> InMemory(q)
      BY <2>2, <2>5 DEF InMemory
    <3> QED BY <1>0, <2>3, <3>1, KernelStutters
  <2> QED BY <2>4, <2>5
<1>4. CASE StoresCode(p) \/ StoresStack(p)
  <2>1. /\ hilo[Kernel].at = "idle" /\ hilo'[Kernel].at = "find"
        /\ UNCHANGED <<page_table, main, programa>>
        /\ \A d \in Clients : d # Kernel => hilo'[d] = hilo[d]
    BY <1>0, <1>4, StoreCodeAsks, StoreStackAsks, StoreAims DEF AsksFor
  <2>2. Spaces!Asks(Kernel)
    BY <1>0, <2>1, RequestArrives
  <2> QED BY <1>0, <2>2 DEF Spaces!Next
<1>5. CASE PageStored(p)
  <2>1. /\ hilo[Kernel].at = "answered" /\ hilo'[Kernel].at = "idle"
        /\ \A d \in Clients : d # Kernel => hilo'[d] = hilo[d]
    BY <1>0, <1>5, TakesAnswerType, IdleType DEF PageStored, Answered
  <2>2. /\ programa[p].estado = "loading" /\ programa'[p].estado \in {"loading", "ready"}
        /\ \A q \in Pids : q # p => programa'[q] = programa[q]
    BY <1>0, <1>5 DEF PageStored, MemType, Programa
  <2>3. \A q \in Pids : InMemory(q)' <=> InMemory(q)
    BY <2>2 DEF InMemory
  <2> QED BY <1>0, <2>1, <2>3, KernelStutters
<1>6. ASSUME NEW c \in Cpus, Dispatches(p, c) PROVE UNCHANGED <<espacio, pedido, leido>>
  <2>1. Becomes(p, "exec") /\ "exec" \in Estados /\ UNCHANGED hilo /\ programa[p].estado = "ready"
    BY <1>6 DEF Dispatches, Estados
  <2>2. \A q \in Pids : InMemory(q)' <=> InMemory(q)
    BY <1>0, <2>1, BecomesType DEF InMemory
  <2> QED BY <1>0, <2>1, <2>2, KernelStutters
<1>7. CASE EndsProgram(p) \/ EndsOrphan(p)
  <2>1. /\ hilo[Kernel].at = "idle" /\ hilo'[Kernel].at = "clear"
        /\ programa'[p].estado = "freeing" /\ programa[p].estado # "exec"
        /\ \A q \in Pids : q # p => programa'[q] = programa[q]
        /\ \A d \in Clients : d # Kernel => hilo'[d] = hilo[d]
    BY <1>0, <1>7, ClearAsks DEF KernelFree
  <2>2. espacio'[p] = <<>>
    BY <2>1 DEF espacio, InMemory
  <2>3. espacio' = [espacio EXCEPT ![p] = <<>>] /\ UNCHANGED <<pedido, leido>>
    BY <1>2, <2>1, <2>2
  <2>4. ASSUME NEW c \in Clients, pedido[c] # Nothing PROVE pedido[c].pid # p
    <3>1. hilo[c].at \in {"find", "copy"} /\ pedido[c] = Ask(c)
      BY <1>0, <2>4 DEF Pedidos
    <3>2. c \in Cpus /\ hilo[c].usrpid = en_cpu[c] /\ programa[en_cpu[c]].estado = "exec"
      BY <1>0, <2>1, <3>1, AskerIs
    <3> QED BY <2>1, <3>1, <3>2 DEF Ask
  <2>5. Spaces!FreeProgram(p)
    BY <2>3, <2>4 DEF Spaces!FreeProgram, Spaces!Free, Spaces!NoSpace
  <2> QED BY <2>5 DEF Spaces!Next
<1>8. CASE PagesFreed(p)
  <2>1. Becomes(p, "over") /\ "over" \in Estados /\ programa[p].estado = "freeing"
    BY <1>8 DEF PagesFreed, Estados
  <2>2. /\ hilo[Kernel].at = "answered" /\ hilo'[Kernel].at = "idle"
        /\ \A d \in Clients : d # Kernel => hilo'[d] = hilo[d]
    BY <1>0, <1>8, TakesAnswerType, IdleType DEF PagesFreed, Answered
  <2>3. \A q \in Pids : InMemory(q)' <=> InMemory(q)
    BY <1>0, <2>1, BecomesType DEF InMemory
  <2> QED BY <1>0, <2>2, <2>3, KernelStutters
<1> QED BY <1>1, <1>3, <1>4, <1>5, <1>6, <1>7, <1>8

LEMMA CpuRefines ==
  ASSUME PidsFit, SpaceInv, SpaceInv', NEW c \in Cpus, CpuStep(c)
  PROVE  Spaces!Next \/ UNCHANGED <<espacio, pedido, leido>>
<1>0. /\ MemInv /\ MemInv' /\ Aims /\ Pedidos /\ Pedidos' /\ [Next]_vars /\ UNCHANGED main
      /\ MemType /\ Talks /\ c \in Clients
  <2>1. MemInv /\ MemInv' /\ Aims /\ Aims'
    BY DEF SpaceInv
  <2>2. UNCHANGED main
    BY DEF CpuStep, FetchesInstruction, ReadsVariable, AssignsVariable, CpuGetsAnswer,
           FinishesProgram
  <2> QED BY <2>1, <2>2, PedidosAre, PedidosNext, Sizes DEF MemInv, Next
<1>1. ASSUME NEW op, NEW page, AsksFor(c, op, en_cpu[c], page), hilo[c].at = "idle"
      PROVE  Spaces!Next
  <2>1. /\ hilo'[c].at = "find" /\ UNCHANGED <<page_table, main, programa>>
        /\ \A d \in Clients : d # c => hilo'[d] = hilo[d]
    BY <1>1 DEF AsksFor
  <2>2. Spaces!Asks(c)
    BY <1>0, <1>1, <2>1, RequestArrives
  <2> QED BY <1>0, <2>2 DEF Spaces!Next
<1>2. ASSUME en_cpu[c] # 0, NEW first \in 1..programa[en_cpu[c]].size,
             NEW size \in 1..programa[en_cpu[c]].size,
             FetchesInstruction(c, first - 1, size)
      PROVE  Spaces!Next
  <2>1. hilo[c].at = "idle"
    BY <1>2 DEF FetchesInstruction, Runs
  <2> QED BY <1>0, <1>1, <1>2, <2>1, FetchAsks
<1>3. ASSUME NEW position \in Variables, ReadsVariable(c, position) PROVE Spaces!Next
  <2>1. hilo[c].at = "idle"
    BY <1>3 DEF ReadsVariable, Runs
  <2> QED BY <1>0, <1>1, <1>3, <2>1, ReadAsks
<1>4. ASSUME NEW position \in Variables, NEW value \in Values,
             AssignsVariable(c, position, value)
      PROVE  Spaces!Next
  <2>1. hilo[c].at = "idle"
    BY <1>4 DEF AssignsVariable, Runs
  <2> QED BY <1>0, <1>1, <1>4, <2>1, AssignAsks
<1>5. CASE CpuGetsAnswer(c)
  <2>1. /\ hilo[c].at = "answered" /\ hilo'[c].at = "idle" /\ UNCHANGED <<page_table, programa>>
        /\ \A d \in Clients : d # c => hilo'[d] = hilo[d]
    BY <1>0, <1>5, TakesAnswerType, IdleType DEF CpuGetsAnswer, Answered
  <2>2. /\ pedido'[c] = pedido[c] /\ leido'[c] = <<>>
        /\ \A d \in Clients : d # c => pedido'[d] = pedido[d] /\ leido'[d] = leido[d]
    BY <1>0, <2>1, OthersSame DEF Pedidos, leido, Answered
  <2>3. espacio' = espacio
    BY <1>0, <2>1 DEF espacio, InMemory, PagesOf, FrameOf
  <2>4. leido' = [leido EXCEPT ![c] = <<>>] /\ pedido' = pedido
    BY <1>0, <2>2, OneChanges
  <2>5. Spaces!Uses(c)
    BY <2>3, <2>4 DEF Spaces!Uses
  <2> QED BY <1>0, <2>5 DEF Spaces!Next
<1>6. CASE FinishesProgram(c)
  <2>1. /\ en_cpu[c] \in Pids /\ Becomes(en_cpu[c], "ending") /\ "ending" \in Estados
        /\ UNCHANGED hilo /\ programa[en_cpu[c]].estado = "exec"
    BY <1>0, <1>6 DEF FinishesProgram, Runs, Estados, MemType, Talks, CpusTalk
  <2>2. PICK p \in Pids : p = en_cpu[c]
    BY <2>1
  <2>3. /\ programa'[p].estado = "ending" /\ programa[p].estado = "exec"
        /\ \A q \in Pids : q # p => programa'[q] = programa[q]
    BY <1>0, <2>1, <2>2, BecomesType
  <2>4. \A q \in Pids : InMemory(q)' <=> InMemory(q)
    BY <2>3 DEF InMemory
  <2> QED BY <1>0, <2>1, <2>4, KernelStutters
<1> QED BY <1>2, <1>3, <1>4, <1>5, <1>6 DEF CpuStep

LEMMA ThreadRefines ==
  ASSUME PidsFit, SpaceInv, SpaceInv', NEW c \in Clients, ThreadStep(c)
  PROVE  Spaces!Next \/ UNCHANGED <<espacio, pedido, leido>>
<1>0. /\ MemInv /\ MemInv' /\ Aims /\ Pedidos /\ Pedidos' /\ [Next]_vars
      /\ MemType /\ Talks
  <2>1. MemInv /\ MemInv' /\ Aims /\ Aims'
    BY DEF SpaceInv
  <2> QED BY <2>1, PedidosAre, PedidosNext DEF MemInv, Next
<1>1. /\ UNCHANGED programa /\ \A q \in Pids : InMemory(q)' <=> InMemory(q)
      /\ \A d \in Clients : d # c => hilo'[d] = hilo[d]
  BY <1>0, ThreadGoes DEF Serves, InMemory
<1>2. CASE GetBytes(c)
  <2>1. Spaces!ReadFromPage(c)
    BY <1>0, <1>2, ReadRefines
  <2> QED BY <2>1 DEF Spaces!Next
<1>3. CASE SetBytes(c)
  <2>1. Spaces!WriteToPage(c)
    BY <1>0, <1>3, WriteRefines
  <2> QED BY <2>1 DEF Spaces!Next
<1>4. CASE GetFrame(c)
  <2>1. /\ hilo[c].at = "find" /\ hilo'[c].at \in {"find", "copy"} /\ UNCHANGED main
        /\ hilo'[c].op = hilo[c].op /\ hilo'[c].usrpid = hilo[c].usrpid
        /\ hilo'[c].page = hilo[c].page /\ hilo'[c].offset = hilo[c].offset
        /\ hilo'[c].size = hilo[c].size /\ hilo'[c].datos = hilo[c].datos
    BY <1>0, <1>4, GetFrameDoes DEF Serves, AtRow
  <2>2. pedido'[c] = pedido[c]
    BY <1>0, <2>1 DEF Pedidos, Ask, Address
  <2>3. leido'[c] = leido[c]
    BY <2>1 DEF leido, Answered
  <2>4. \A d \in Clients : pedido'[d] = pedido[d] /\ leido'[d] = leido[d]
    BY <1>0, <1>1, <2>2, <2>3, OthersSame
  <2> QED BY <1>0, <1>1, <2>1, <2>4, SpacesStutter
<1>5. CASE SetPagesCounts(c) \/ SetsOwner(c) \/ NumbersPage(c) \/ PagesSet(c)
           \/ ClearsOwner(c) \/ ClearsPage(c) \/ PagesCleared(c)
  <2>1. hilo[c].at \in {"start", "assign", "number", "clear", "zero"} /\ UNCHANGED main
    BY <1>5 DEF SetPagesCounts, SetsOwner, NumbersPage, PagesSet, ClearsOwner, ClearsPage, PagesCleared
  <2>2. c = Kernel
    BY <1>0, <2>1, Sizes DEF Talks, CpusTalk
  <2>3. hilo[c].at \notin {"find", "copy"} /\ hilo'[c].at \notin {"find", "copy"}
    BY <1>0, <2>1, ThreadGoes
  <2> QED BY <1>0, <1>1, <2>1, <2>2, <2>3, KernelStutters
<1> QED BY <1>2, <1>3, <1>4, <1>5 DEF ThreadStep

LEMMA SpaceInvStep == ASSUME PidsFit, ~Straddling PROVE SpaceInv /\ [Next]_vars => SpaceInv'
<1> SUFFICES ASSUME SpaceInv, [Next]_vars PROVE SpaceInv'
  OBVIOUS
<1>1. MemInv'
  BY MemInvStep DEF SpaceInv
<1>2. Aims'
  BY <1>1, AimsStep DEF SpaceInv, MemInv
<1> QED BY <1>1, <1>2 DEF SpaceInv

\* The page table and the threads that share it without a lock give every
\* program the address space ProgramSpaces describes: each read gets what was
\* last written to those addresses of that program, and no request meets a space
\* that is taken away.  The pids fit the byte of the header, and no instruction
\* crosses the end of a page (see FetchesOwnCode for what happens otherwise).
THEOREM MemoriaImplementsSpaces ==
  ASSUME PidsFit, ~Straddling
  PROVE  Spec => ImplementsSpaces
<1>1. Init => SpaceInv /\ Spaces!Init
  <2> SUFFICES ASSUME Init PROVE SpaceInv /\ Spaces!Init
    OBVIOUS
  <2>1. MemInv /\ Aims
    BY MemInvInit, AimsInit
  <2>2. /\ \A p \in Pids : ~InMemory(p)
        /\ \A c \in Clients : hilo[c].at = "idle"
    BY IdleType DEF Init, InMemory
  <2>3. espacio = [p \in Pids |-> <<>>]
    BY <2>2 DEF espacio
  <2>4. pedido = [c \in Clients |-> Nothing] /\ leido = [c \in Clients |-> <<>>]
    BY <2>2 DEF pedido, leido, Answered
  <2> QED BY <2>1, <2>3, <2>4 DEF SpaceInv, Spaces!Init, Spaces!NoSpace
<1>2. SpaceInv /\ [Next]_vars => SpaceInv'
  BY SpaceInvStep
<1>3. SpaceInv /\ SpaceInv' /\ [Next]_vars => [Spaces!Next]_(Spaces!vars)
  <2> SUFFICES ASSUME SpaceInv, SpaceInv', [Next]_vars
               PROVE  Spaces!Next \/ UNCHANGED <<espacio, pedido, leido>>
    BY DEF Spaces!vars
  <2>1. CASE UNCHANGED vars
    <3>1. UNCHANGED <<page_table, main, hilo, programa, en_cpu>>
      BY <2>1 DEF vars
    <3>2. espacio' = espacio
      BY <3>1 DEF espacio, InMemory, PagesOf, FrameOf
    <3>3. pedido' = pedido
      BY <3>1 DEF pedido, Asker
    <3>4. leido' = leido
      BY <3>1 DEF leido, Answered
    <3> QED BY <3>2, <3>3, <3>4
  <2> QED BY <2>1, KernelRefines, CpuRefines, ThreadRefines DEF Next
<1> QED BY <1>1, <1>2, <1>3, PTL DEF Spec, ImplementsSpaces, Spaces!Spec

----------------------------------------------------------------------------
(* The text of the programs.                                               *)

\* No text fills its last page, which would be sent with size 0 (Kernel.c:155).
LastPageShort == \A size \in CodeSizes : size % MarcoSize # 0

LEMMA Divided ==
  ASSUME NEW m \in Nat \ {0}, NEW a \in Nat
  PROVE  /\ a \div m \in Nat /\ a % m \in 0..(m - 1)
         /\ a = (a \div m) * m + (a % m)
BY Remains

LEMMA InText ==
  ASSUME MemType, NEW p \in Pids, NEW a \in 0..(programa[p].size - 1)
  PROVE  /\ programa[p].size \in Nat /\ PagesCode(programa[p].size) \in Nat
         /\ MarcoSize \in Nat \ {0} /\ a \in Nat /\ a < programa[p].size
         /\ a \div MarcoSize \in Nat /\ a % MarcoSize \in 0..(MarcoSize - 1)
         /\ a = (a \div MarcoSize) * MarcoSize + (a % MarcoSize)
         /\ a \div MarcoSize < PagesCode(programa[p].size) /\ a \in Addresses(p)
<1>1. /\ programa[p].size \in Nat /\ PagesCode(programa[p].size) \in Nat
      /\ MarcoSize \in Nat \ {0}
  BY Sizes DEF MemType, Programa
<1>2. a \in Nat /\ a < programa[p].size
  BY <1>1
<1>3. /\ a \div MarcoSize \in Nat /\ a % MarcoSize \in 0..(MarcoSize - 1)
      /\ a = (a \div MarcoSize) * MarcoSize + (a % MarcoSize)
  BY <1>1, <1>2, Divided
<1>4. a \div MarcoSize < PagesCode(programa[p].size)
  BY <1>1, <1>2, PageOfText
<1>5. a \in Addresses(p)
  <2>1. PICK d \in Nat, o \in 0..(MarcoSize - 1) : d = a \div MarcoSize /\ o = a % MarcoSize
    BY <1>3
  <2>2. PagesOf(p) \in Nat /\ d < PagesOf(p)
    BY <1>1, <1>4, <2>1, PagesNat, Sizes DEF PagesOf
  <2>3. d * MarcoSize + MarcoSize <= PagesOf(p) * MarcoSize
    BY <1>1, <2>2, Scaled
  <2>4. a = d * MarcoSize + o /\ d * MarcoSize \in Nat /\ PagesOf(p) * MarcoSize \in Nat
    BY <1>1, <1>3, <2>1, <2>2, Product
  <2> QED BY <1>1, <1>2, <2>3, <2>4 DEF Addresses
<1> QED BY <1>1, <1>2, <1>3, <1>4, <1>5

\* The page the Kernel stores is all of the text that is in the page.
LEMMA PageIsFull ==
  ASSUME MemType, NEW p \in Pids, NEW a \in 0..(programa[p].size - 1),
         programa[p].size % MarcoSize # 0
  PROVE  a % MarcoSize < IF a \div MarcoSize < PagesCode(programa[p].size) - 1
                         THEN MarcoSize ELSE programa[p].size % MarcoSize
<1> DEFINE d == programa[p].size \div MarcoSize
           e == programa[p].size % MarcoSize
<1>1. /\ programa[p].size \in Nat /\ MarcoSize \in Nat \ {0} /\ a \in Nat /\ a < programa[p].size
      /\ a \div MarcoSize \in Nat /\ a % MarcoSize \in 0..(MarcoSize - 1)
      /\ a = (a \div MarcoSize) * MarcoSize + (a % MarcoSize)
      /\ a \div MarcoSize < PagesCode(programa[p].size)
  BY InText
<1>2. d \in Nat /\ e \in Nat /\ programa[p].size = d * MarcoSize + e
  <2>1. PICK size \in Nat : size = programa[p].size
    BY <1>1
  <2>2. /\ size \div MarcoSize \in Nat /\ size % MarcoSize \in 0..(MarcoSize - 1)
        /\ size = (size \div MarcoSize) * MarcoSize + (size % MarcoSize)
    BY <1>1, Divided
  <2> QED BY <1>1, <2>1, <2>2
<1>3. PagesCode(programa[p].size) = d + 1
  BY <1>2 DEF PagesCode
<1>4. PICK x \in Nat, o \in 0..(MarcoSize - 1) : x = a \div MarcoSize /\ o = a % MarcoSize
  BY <1>1
<1> HIDE DEF d, e
<1>5. CASE x < d
  BY <1>1, <1>2, <1>3, <1>4, <1>5
<1>6. CASE ~(x < d)
  <2>1. x = d
    BY <1>1, <1>2, <1>3, <1>4, <1>6
  <2>2. d * MarcoSize + o < d * MarcoSize + e /\ d * MarcoSize \in Nat
    BY <1>1, <1>2, <1>4, <2>1, Product
  <2>3. o < e
    BY <1>2, <2>2
  <2> QED BY <1>2, <1>3, <1>4, <2>1, <2>3 DEF e
<1> QED BY <1>5, <1>6

\* A CPU writes after the text, the Kernel the page it is at.
LEMMA TextWritten ==
  ASSUME PidsFit, LastPageShort, MemInv, MemInv', Aims, TextStored,
         NEW c \in Clients, SetBytes(c), NEW p \in Pids, InMemory(p)
  PROVE  /\ \A a \in 0..(programa[p].size - 1) :
              a \div MarcoSize < programa[p].pag => espacio'[p][a] = <<p, a, 0>>
         /\ c = Kernel /\ programa[p].estado = "loading"
              /\ programa[p].pag < PagesCode(programa[p].size) =>
            \A a \in 0..(programa[p].size - 1) :
              a \div MarcoSize < programa[p].pag + 1 => espacio'[p][a] = <<p, a, 0>>
<1> DEFINE size == programa[p].size
           pag == programa[p].pag
<1>0. /\ MemType /\ Talks /\ size \in Nat /\ pag \in Nat /\ PagesCode(size) \in Nat
      /\ MarcoSize \in Nat \ {0} /\ hilo[c].at = "copy" /\ hilo[c] \in Hilo
      /\ hilo[c].op = "OP_ME_ALMBYTPAG"
  BY Sizes DEF MemInv, MemType, Programa, SetBytes
<1>1. \A a \in 0..(size - 1) : a \div MarcoSize < pag => espacio[p][a] = <<p, a, 0>>
  BY DEF TextStored, Stored
<1>2. hilo[c].usrpid # p => espacio'[p] = espacio[p]
  BY Written
<1>3. ASSUME hilo[c].usrpid = p, NEW a \in 0..(size - 1)
      PROVE  espacio'[p][a] = IF a - Address(c) + 1 \in 1..hilo[c].size
                              THEN hilo[c].datos[a - Address(c) + 1] ELSE espacio[p][a]
  <2>1. a \in Addresses(p)
    BY <1>0, InText
  <2>2. espacio'[hilo[c].usrpid] =
          [b \in Addresses(hilo[c].usrpid) |->
             IF b - Address(c) + 1 \in 1..hilo[c].size
             THEN hilo[c].datos[b - Address(c) + 1] ELSE espacio[hilo[c].usrpid][b]]
    BY Written
  <2> QED BY <1>3, <2>1, <2>2
<1>4. CASE hilo[c].usrpid # p
  <2>1. ~(c = Kernel /\ programa[p].estado = "loading")
    BY <1>0, <1>4 DEF Talks, KernelTalks, Busy
  <2> QED BY <1>1, <1>2, <1>4, <2>1
<1>5. CASE hilo[c].usrpid = p /\ c \in Cpus
  <2>1. en_cpu[c] = p /\ PagesCode(size) <= hilo[c].page /\ c # Kernel
    BY <1>0, <1>5, Sizes DEF Talks, CpusTalk, Aims, CpuAims
  <2>2. ASSUME NEW a \in 0..(size - 1) PROVE a < Address(c) /\ a \in Nat /\ Address(c) \in Nat
    <3>1. PICK d \in Nat, o \in 0..(MarcoSize - 1) :
            d = a \div MarcoSize /\ a = d * MarcoSize + o /\ d < PagesCode(size) /\ a \in Nat
      BY <1>0, InText
    <3>2. d < hilo[c].page /\ hilo[c].page \in Nat /\ hilo[c].offset \in Nat
      BY <1>0, <2>1, <3>1 DEF Hilo
    <3>3. /\ d * MarcoSize + MarcoSize <= hilo[c].page * MarcoSize
          /\ d * MarcoSize \in Nat /\ hilo[c].page * MarcoSize \in Nat
      BY <1>0, <3>2, Scaled, Product
    <3> QED BY <1>0, <3>1, <3>2, <3>3 DEF Address
  <2>3. \A a \in 0..(size - 1) : a - Address(c) + 1 \notin 1..hilo[c].size
    BY <2>2
  <2> QED BY <1>1, <1>3, <1>5, <2>1, <2>3
<1>6. CASE hilo[c].usrpid = p /\ c = Kernel
  <2>1. programa[p].estado = "loading"
    <3>1. PICK q \in Pids : hilo[c].usrpid = q /\ programa[q].estado = "loading"
      BY <1>0, <1>6, AskerIs, Sizes
    <3> QED BY <1>6, <3>1
  <2>2. /\ pag <= PagesCode(size) /\ hilo[c].offset = 0
        /\ IF pag < PagesCode(size)
           THEN /\ hilo[c].page = pag /\ hilo[c].size = SizeOfPage(p)
                /\ hilo[c].datos = Text(p, pag * MarcoSize, SizeOfPage(p))
           ELSE hilo[c].size = 0
    BY <1>0, <1>6, <2>1 DEF Aims, PagesStored, KernelAims
  <2>3. CASE ~(pag < PagesCode(size))
    <3>1. 1..hilo[c].size = {}
      BY <2>2, <2>3
    <3> QED BY <1>1, <1>3, <1>6, <2>3, <3>1
  <2>4. CASE pag < PagesCode(size)
    <3>1. /\ Address(c) = pag * MarcoSize /\ pag * MarcoSize \in Nat
          /\ hilo[c].size = SizeOfPage(p) /\ SizeOfPage(p) \in Nat
      BY <1>0, <2>2, <2>4, Product, PageSize DEF Address
    <3>2. ASSUME NEW a \in 0..(size - 1), a \div MarcoSize < pag + 1
          PROVE  espacio'[p][a] = <<p, a, 0>>
      <4>1. PICK d \in Nat, o \in 0..(MarcoSize - 1) :
              d = a \div MarcoSize /\ a = d * MarcoSize + o /\ a \in Nat /\ o = a % MarcoSize
        BY <1>0, InText
      <4>2. CASE d < pag
        <5>1. d * MarcoSize + MarcoSize <= pag * MarcoSize /\ d * MarcoSize \in Nat
          BY <1>0, <4>2, Scaled, Product
        <5>2. a < Address(c)
          BY <1>0, <3>1, <4>1, <5>1
        <5>3. a - Address(c) + 1 \notin 1..hilo[c].size
          BY <3>1, <4>1, <5>2
        <5> QED BY <1>1, <1>3, <1>6, <4>1, <4>2, <5>3
      <4>3. CASE d = pag
        <5>1. o < SizeOfPage(p)
          <6>1. size % MarcoSize # 0
            BY <2>1 DEF LastPageShort, Aims, PagesStored
          <6> QED BY <1>0, <4>1, <4>3, <6>1, PageIsFull DEF SizeOfPage
        <5>2. a - Address(c) + 1 = o + 1
          <6>1. PICK n \in Nat : n = pag * MarcoSize
            BY <3>1
          <6>2. d * MarcoSize = n
            BY <4>3, <6>1
          <6>3. PICK b \in Nat : b = a
            BY <4>1
          <6>4. Address(c) = n
            BY <3>1, <6>1
          <6>5. b = n + o
            BY <4>1, <6>2, <6>3
          <6>6. o \in Nat
            BY <1>0
          <6>7. b - n + 1 = o + 1
            BY ONLY <6>5, <6>6, n \in Nat, b \in Nat
          <6> QED BY <6>3, <6>4, <6>7
        <5>3. o + 1 \in 1..hilo[c].size
          BY <3>1, <4>1, <5>1
        <5>4. hilo[c].datos[o + 1] = <<p, pag * MarcoSize + (o + 1) - 1, 0>>
          BY <2>2, <2>4, <3>1, <5>3 DEF Text
        <5>5. pag * MarcoSize + (o + 1) - 1 = a
          BY <3>1, <4>1, <4>3
        <5> QED BY <1>3, <1>6, <5>2, <5>3, <5>4, <5>5
      <4> QED BY SMTT(30), <1>0, <3>2, <4>1, <4>2, <4>3
    <3>3. \A a \in 0..(size - 1) : a \div MarcoSize < pag => a \div MarcoSize < pag + 1
      BY <1>0
    <3> QED BY <3>2, <3>3
  <2> QED BY <2>3, <2>4
<1> QED BY <1>4, <1>5, <1>6, Sizes

\* The programs in memory are those that were, with as much of their text or
\* with the page that was just stored, and the one that gets its pages.
LEMMA TextAdvances ==
  ASSUME MemInv, PagesStored, [Next]_vars, NEW q \in Pids, InMemory(q)'
  PROVE  \/ InMemory(q) /\ programa'[q].pag = programa[q].pag
         \/ /\ InMemory(q) /\ programa[q].estado = "loading" /\ Answered(Kernel)
            /\ programa[q].pag < PagesCode(programa[q].size)
            /\ programa'[q].pag = programa[q].pag + 1 /\ UNCHANGED main
         \/ programa'[q].pag = 0
<1>0. MemType /\ Talks /\ programa[q] \in Programa
  BY DEF MemInv, MemType
<1>1. ASSUME NEW p \in Pids, NEW e \in Estados, Becomes(p, e), InMemory(p)
      PROVE  InMemory(q) /\ programa'[q].pag = programa[q].pag
  <2>1. CASE q = p
    BY <1>0, <1>1, <2>1, BecomesType
  <2>2. CASE q # p
    BY <1>0, <1>1, <2>2, BecomesType DEF InMemory
  <2> QED BY <2>1, <2>2
<1>2. CASE KernelStep
  <2>1. PICK p \in Pids :
          \/ \E size \in CodeSizes : AsksForPages(p, size)
          \/ GetsPages(p) \/ StoresCode(p) \/ StoresStack(p) \/ PageStored(p)
          \/ \E c \in Cpus : Dispatches(p, c)
          \/ EndsProgram(p) \/ EndsOrphan(p) \/ PagesFreed(p)
    BY <1>2 DEF KernelStep
  <2>2. ASSUME NEW size \in CodeSizes, AsksForPages(p, size)
        PROVE  InMemory(q) /\ programa'[q].pag = programa[q].pag
    BY <1>0, <2>2, StartAsks DEF InMemory
  <2>3. CASE GetsPages(p)
    <3>1. PICK e \in {"loading", "over"} : Becomes(p, e)
      BY <2>3 DEF GetsPages
    <3>2. /\ programa[p].estado = "asking" /\ programa[p].pag = 0
          /\ programa'[p].pag = programa[p].pag
          /\ \A r \in Pids : r # p => programa'[r] = programa[r]
      BY <1>0, <2>3, <3>1, BecomesType DEF GetsPages, Estados, PagesStored
    <3> QED BY <3>2 DEF InMemory
  <2>4. CASE StoresCode(p) \/ StoresStack(p)
    BY <2>4 DEF StoresCode, StoresStack, InMemory
  <2>5. CASE PageStored(p)
    BY <1>0, <2>5 DEF PageStored, MemType, Programa, InMemory
  <2>6. ASSUME NEW c \in Cpus, Dispatches(p, c)
        PROVE  InMemory(q) /\ programa'[q].pag = programa[q].pag
    BY <1>1, <2>6 DEF Dispatches, Estados, InMemory
  <2>7. CASE EndsProgram(p) \/ EndsOrphan(p)
    BY <1>0, <2>7, ClearAsks DEF InMemory
  <2>8. CASE PagesFreed(p)
    <3>1. Becomes(p, "over") /\ "over" \in Estados
      BY <2>8 DEF PagesFreed, Estados
    <3> QED BY <1>0, <3>1, BecomesType DEF InMemory
  <2> QED BY <2>1, <2>2, <2>3, <2>4, <2>5, <2>6, <2>7, <2>8
<1>3. ASSUME NEW c \in Cpus, CpuStep(c)
      PROVE  InMemory(q) /\ programa'[q].pag = programa[q].pag
  <2>1. CASE FinishesProgram(c)
    <3>1. /\ en_cpu[c] \in Pids /\ Becomes(en_cpu[c], "ending") /\ "ending" \in Estados
          /\ InMemory(en_cpu[c])
      BY <1>0, <2>1 DEF FinishesProgram, Runs, MemType, Estados, Talks, CpusTalk, InMemory
    <3> QED BY <1>1, <3>1
  <2>2. CASE ~FinishesProgram(c)
    <3>1. UNCHANGED programa
      BY <1>3, <2>2 DEF CpuStep, FetchesInstruction, ReadsVariable, AssignsVariable, CpuGetsAnswer
    <3> QED BY <3>1 DEF InMemory
  <2> QED BY <2>1, <2>2
<1>4. ASSUME NEW c \in Clients, ThreadStep(c)
      PROVE  InMemory(q) /\ programa'[q].pag = programa[q].pag
  BY <1>0, <1>4, ThreadGoes DEF Serves, InMemory
<1>5. CASE UNCHANGED vars
  BY <1>5 DEF vars, InMemory
<1> QED BY <1>2, <1>3, <1>4, <1>5 DEF Next

\* Only set_bytes answers the Kernel about a page of a text.
LEMMA TextAnswered ==
  ASSUME MemInv, [Next]_vars, NEW q \in Pids, programa'[q].estado = "loading", Answered(Kernel)'
  PROVE  /\ programa[q].estado = "loading" /\ programa'[q] = programa[q]
         /\ SetBytes(Kernel) \/ Answered(Kernel)
<1>0. MemType /\ Talks /\ Kernel \in Clients /\ Kernel \notin Cpus
  BY Sizes DEF MemInv
<1>1. CASE KernelStep
  <2>1. PICK p \in Pids :
          \/ \E size \in CodeSizes : AsksForPages(p, size)
          \/ GetsPages(p) \/ StoresCode(p) \/ StoresStack(p) \/ PageStored(p)
          \/ \E c \in Cpus : Dispatches(p, c)
          \/ EndsProgram(p) \/ EndsOrphan(p) \/ PagesFreed(p)
    BY <1>1 DEF KernelStep
  <2>2. ASSUME NEW size \in CodeSizes, AsksForPages(p, size) PROVE FALSE
    BY <1>0, <2>2, StartAsks DEF Answered
  <2>3. CASE GetsPages(p) \/ PageStored(p) \/ PagesFreed(p)
    BY <1>0, <2>3, TakesAnswerType, IdleType DEF GetsPages, PageStored, PagesFreed, Answered
  <2>4. CASE StoresCode(p) \/ StoresStack(p)
    BY <1>0, <2>4, StoreCodeAsks, StoreStackAsks DEF AsksFor, Answered
  <2>5. ASSUME NEW c \in Cpus, Dispatches(p, c) PROVE FALSE
    BY <2>5 DEF Dispatches, KernelFree, Answered
  <2>6. CASE EndsProgram(p) \/ EndsOrphan(p)
    BY <1>0, <2>6, ClearAsks DEF Answered
  <2> QED BY <2>1, <2>2, <2>3, <2>4, <2>5, <2>6
<1>2. ASSUME NEW c \in Cpus, CpuStep(c)
      PROVE  /\ programa[q].estado = "loading" /\ programa'[q] = programa[q] /\ Answered(Kernel)
  <2>1. hilo'[Kernel] = hilo[Kernel]
    <3>1. c \in Clients /\ c # Kernel
      BY <1>0, Sizes
    <3>2. ASSUME NEW r, Request(c, r) PROVE hilo'[Kernel] = hilo[Kernel]
      BY <1>0, <3>1, <3>2 DEF Request, MemType
    <3> QED BY <1>0, <1>2, <3>1, <3>2 DEF CpuStep, FetchesInstruction, ReadsVariable,
              AssignsVariable, CpuGetsAnswer, FinishesProgram, TakesAnswer, MemType
  <2>2. CASE FinishesProgram(c)
    <3>1. en_cpu[c] \in Pids /\ Becomes(en_cpu[c], "ending") /\ "ending" \in Estados
      BY <1>0, <2>2 DEF FinishesProgram, Runs, MemType, Estados
    <3>2. PICK p \in Pids : p = en_cpu[c]
      BY <3>1
    <3>3. programa'[p].estado = "ending" /\ \A r \in Pids : r # p => programa'[r] = programa[r]
      BY <1>0, <3>1, <3>2, BecomesType
    <3> QED BY <2>1, <3>3 DEF Answered
  <2>3. CASE ~FinishesProgram(c)
    <3>1. UNCHANGED programa
      BY <1>2, <2>3 DEF CpuStep, FetchesInstruction, ReadsVariable, AssignsVariable, CpuGetsAnswer
    <3> QED BY <2>1, <3>1 DEF Answered
  <2> QED BY <2>2, <2>3
<1>3. ASSUME NEW c \in Clients, ThreadStep(c)
      PROVE  /\ programa[q].estado = "loading" /\ programa'[q] = programa[q]
             /\ SetBytes(Kernel) \/ Answered(Kernel)
  <2>1. programa'[q] = programa[q] /\ programa[q].estado = "loading"
    BY <1>0, <1>3, ThreadGoes DEF Serves
  <2>2. CASE c # Kernel
    BY <1>0, <1>3, <2>1, <2>2, ThreadGoes DEF Serves, Answered
  <2>3. CASE c = Kernel
    <3>1. /\ hilo[Kernel].at \in {"idle", "find", "copy", "answered"}
          /\ hilo[Kernel].at # "idle" => hilo[Kernel].op = "OP_ME_ALMBYTPAG"
      BY <1>0, <2>1 DEF Talks, KernelTalks
    <3>2. hilo[Kernel].at = "copy"
      BY <1>0, <1>3, <2>3, <3>1, ThreadGoes DEF Answered
    <3> QED BY <1>3, <2>1, <2>3, <3>1, <3>2 DEF ThreadStep, SetPagesCounts, SetsOwner, NumbersPage,
              PagesSet, ClearsOwner, ClearsPage, PagesCleared, GetFrame, GetBytes
  <2> QED BY <2>2, <2>3
<1>4. CASE UNCHANGED vars
  BY <1>4 DEF vars, Answered
<1> QED BY <1>1, <1>2, <1>3, <1>4 DEF Next

\* The text of p is stored as TextStored says.
TextOf(p) ==
  /\ InMemory(p) => Stored(p, programa[p].pag)
  /\ programa[p].estado = "loading" /\ Answered(Kernel)
       /\ programa[p].pag < PagesCode(programa[p].size) => Stored(p, programa[p].pag + 1)

LEMMA TextStoredStep ==
  ASSUME PidsFit, LastPageShort, MemInv, MemInv', Aims, TextStored, [Next]_vars
  PROVE  TextStored'
<1> SUFFICES ASSUME NEW p \in Pids, InMemory(p)' PROVE TextOf(p)'
  BY DEF TextStored, TextOf, InMemory
<1>0. MemType /\ Talks /\ PagesStored /\ Kernel \in Clients /\ Kernel \notin Cpus
  BY Sizes DEF MemInv, Aims
<1>1. ASSUME NEW c \in Clients, SetBytes(c) PROVE TextOf(p)'
  <2>1. UNCHANGED <<page_table, programa, en_cpu>> /\ InMemory(p)
    BY <1>1 DEF SetBytes, InMemory
  <2>2. /\ \A a \in 0..(programa[p].size - 1) :
             a \div MarcoSize < programa[p].pag => espacio'[p][a] = <<p, a, 0>>
        /\ c = Kernel /\ programa[p].estado = "loading"
             /\ programa[p].pag < PagesCode(programa[p].size) =>
           \A a \in 0..(programa[p].size - 1) :
             a \div MarcoSize < programa[p].pag + 1 => espacio'[p][a] = <<p, a, 0>>
    BY <1>1, <2>1, TextWritten
  <2>3. CASE c = Kernel
    BY <2>1, <2>2, <2>3 DEF TextOf, Stored
  <2>4. ASSUME c # Kernel, programa[p].estado = "loading", Answered(Kernel)'
        PROVE  espacio'[p] = espacio[p] /\ Answered(Kernel)
    <3>1. hilo[c].at = "copy" /\ c \in Cpus
      BY <1>1, <2>4, Sizes DEF SetBytes
    <3>2. hilo[c].usrpid # p
      BY <1>0, <2>4, <3>1 DEF Talks, CpusTalk
    <3>3. \A q \in Pids : q # hilo[c].usrpid => espacio'[q] = espacio[q]
      BY <1>1, Written
    <3>4. hilo'[Kernel] = hilo[Kernel]
      BY <1>0, <1>1, <2>4, SetBytesDoes DEF Serves
    <3> QED BY <2>4, <3>2, <3>3, <3>4 DEF Answered
  <2>5. CASE c # Kernel
    BY <2>1, <2>2, <2>4, <2>5 DEF TextOf, Stored, TextStored
  <2> QED BY <2>3, <2>5
<1>2. ASSUME \A c \in Clients : ~SetBytes(c) PROVE TextOf(p)'
  <2>1. UNCHANGED main
    BY <1>2 DEF Next, vars, KernelStep, AsksForPages, GetsPages, StoresCode, StoresStack, PageStored,
                Dispatches, EndsProgram, EndsOrphan, PagesFreed, CpuStep, FetchesInstruction,
                ReadsVariable, AssignsVariable, CpuGetsAnswer, FinishesProgram,
                ThreadStep, SetPagesCounts, SetsOwner, NumbersPage, PagesSet, ClearsOwner,
                ClearsPage, PagesCleared, GetFrame, GetBytes
  <2>2. InMemory(p) => /\ espacio'[p] = espacio[p] /\ programa'[p].size = programa[p].size
                       /\ Stored(p, programa[p].pag)
    BY <2>1, SpaceKept, RowsKept DEF TextStored
  <2>3. Stored(p, programa[p].pag)'
    <3>1. CASE InMemory(p) /\ programa'[p].pag = programa[p].pag
      BY <2>2, <3>1 DEF Stored
    <3>2. CASE /\ InMemory(p) /\ programa[p].estado = "loading" /\ Answered(Kernel)
               /\ programa[p].pag < PagesCode(programa[p].size)
               /\ programa'[p].pag = programa[p].pag + 1
      BY <2>2, <3>2 DEF Stored, TextStored
    <3>3. CASE programa'[p].pag = 0
      <4>1. ASSUME NEW a \in 0..(programa'[p].size - 1) PROVE ~(a \div MarcoSize < 0)
        <5>1. a \in Nat /\ MarcoSize \in Nat \ {0}
          BY Sizes DEF MemInv, MemType, Programa
        <5>2. PICK d \in Nat : d = a \div MarcoSize
          BY <5>1, Remains
        <5> QED BY <5>2
      <4> QED BY <3>3, <4>1 DEF Stored
    <3> QED BY <1>0, <3>1, <3>2, <3>3, TextAdvances
  <2>4. ASSUME programa'[p].estado = "loading", Answered(Kernel)',
               programa'[p].pag < PagesCode(programa'[p].size)
        PROVE  Stored(p, programa[p].pag + 1)'
    <3>1. programa[p].estado = "loading" /\ programa'[p] = programa[p] /\ Answered(Kernel)
      BY <1>0, <1>2, <2>4, TextAnswered
    <3>2. espacio'[p] = espacio[p]
      BY <2>2, <3>1 DEF InMemory
    <3> QED BY <2>4, <3>1, <3>2 DEF Stored, TextStored
  <2> QED BY <2>3, <2>4 DEF TextOf
<1> QED BY <1>1, <1>2

----------------------------------------------------------------------------
(* What the CPUs fetch.                                                    *)

\* The CPU c has got the text of the instruction it asked for.
FetchOf(c) ==
  LET p == en_cpu[c]
  IN  Answered(c) /\ hilo[c].op = "OP_ME_SOLBYTPAG"
        /\ hilo[c].page < PagesCode(programa[p].size) =>
      hilo[c].datos = Text(p, hilo[c].page * MarcoSize + hilo[c].offset, hilo[c].size)

\* What get_bytes copies of the text: it is all stored, and none is read past it.
LEMMA FetchedIs ==
  ASSUME PidsFit, MemInv, Aims, TextStored, NEW c \in Cpus, GetBytes(c),
         hilo[c].page < PagesCode(programa[en_cpu[c]].size)
  PROVE  hilo'[c].datos = Text(en_cpu[c], Address(c), hilo[c].size)
<1>1. /\ c \in Clients /\ hilo[c].at = "copy" /\ hilo[c].op = "OP_ME_SOLBYTPAG" /\ hilo[c] \in Hilo
      /\ MarcoSize \in Nat \ {0}
  BY Sizes DEF GetBytes, MemInv, MemType
<1>2. PICK p \in Pids : p = en_cpu[c] /\ p = hilo[c].usrpid /\ programa[p].estado = "exec"
  BY <1>1 DEF MemInv, MemType, Talks, CpusTalk
<1>3. PICK size \in Nat : size = programa[p].size /\ PagesCode(size) \in Nat
  BY Sizes DEF MemInv, MemType, Programa
<1>4. /\ hilo[c].size > 0 /\ hilo[c].offset + hilo[c].size <= MarcoSize
      /\ hilo[c].page * MarcoSize + hilo[c].offset + hilo[c].size <= size
  BY <1>1, <1>2, <1>3 DEF Aims, CpuAims
<1>5. /\ hilo[c].page \in Nat /\ hilo[c].offset \in Nat /\ hilo[c].size \in Nat
      /\ hilo[c].page * MarcoSize \in Nat /\ Address(c) = hilo[c].page * MarcoSize + hilo[c].offset
  BY <1>1, Product DEF Hilo, Address
<1>6. \A a \in 0..(size - 1) : espacio[p][a] = <<p, a, 0>>
  <2>1. programa[p].pag = PagesCode(size) /\ Stored(p, programa[p].pag)
    BY <1>2, <1>3 DEF Aims, PagesStored, TextStored, InMemory
  <2>2. ASSUME NEW a \in 0..(size - 1) PROVE a \div MarcoSize < PagesCode(size)
    BY <1>3, <2>2, InText DEF MemInv
  <2> QED BY <1>3, <2>1, <2>2 DEF Stored
<1>7. hilo'[c].datos = [k \in 1..hilo[c].size |-> espacio[p][Address(c) + k - 1]]
  BY <1>1, <1>2, <1>4, ReadIs
<1>8. ASSUME NEW k \in 1..hilo[c].size
      PROVE  espacio[p][Address(c) + k - 1] = <<p, Address(c) + k - 1, 0>>
  <2>1. Address(c) + k - 1 \in 0..(size - 1)
    <3>1. PICK b \in Nat, o \in Nat : b = hilo[c].page * MarcoSize /\ o = hilo[c].offset
      BY <1>5
    <3>2. PICK n \in Nat : n = hilo[c].size
      BY <1>5
    <3>3. b + o + n <= size /\ Address(c) = b + o /\ k \in 1..n
      BY <1>4, <1>5, <3>1, <3>2
    <3>4. b + o + k - 1 \in 0..(size - 1)
      BY ONLY <3>3, b \in Nat, o \in Nat, n \in Nat, size \in Nat
    <3> QED BY <3>3, <3>4
  <2> QED BY <1>6, <2>1
<1> QED BY <1>2, <1>7, <1>8 DEF Text

LEMMA FetchStep ==
  ASSUME PidsFit, MemInv, MemInv', Aims, TextStored, FetchesOwnCode, [Next]_vars
  PROVE  FetchesOwnCode'
<1> SUFFICES ASSUME NEW c \in Cpus, Answered(c)', hilo'[c].op = "OP_ME_SOLBYTPAG" PROVE FetchOf(c)'
  BY DEF FetchesOwnCode, FetchOf
<1>0. /\ MemType /\ Talks /\ c \in Clients /\ c # Kernel /\ Kernel \in Clients /\ FetchOf(c)
  BY Sizes DEF MemInv, FetchesOwnCode, FetchOf
\* An answer that was there already is to a program that goes on.
<1>1. ASSUME hilo'[c] = hilo[c], en_cpu'[c] = en_cpu[c] PROVE FetchOf(c)'
  <2>1. PICK p \in Pids : /\ p = en_cpu[c] /\ programa[p].estado = "exec"
                          /\ programa'[p].estado = "exec"
    BY <1>0, <1>1 DEF MemInv, MemType, Talks, CpusTalk, Answered
  <2>2. programa'[p].size = programa[p].size
    BY <2>1, RowsKept DEF InMemory
  <2> QED BY <1>0, <1>1, <2>1, <2>2 DEF FetchOf, Answered
<1>2. CASE KernelStep
  <2>1. hilo'[c] = hilo[c]
    BY <1>0, <1>2 DEF KernelStep, AsksForPages, GetsPages, StoresCode, StoresStack, PageStored,
              Dispatches, EndsProgram, EndsOrphan, PagesFreed, Request, TakesAnswer, MemType
  <2>2. en_cpu[c] # 0
    BY <1>0, <2>1 DEF Talks, CpusTalk, Answered
  <2>3. en_cpu'[c] = en_cpu[c]
    BY <1>0, <1>2, <2>2 DEF KernelStep, AsksForPages, GetsPages, StoresCode, StoresStack,
              PageStored, Dispatches, EndsProgram, EndsOrphan, PagesFreed, MemType
  <2> QED BY <1>1, <2>1, <2>3
<1>3. ASSUME NEW d \in Cpus, CpuStep(d) PROVE FetchOf(c)'
  <2>1. CASE d # c
    <3>1. ASSUME NEW r, Request(d, r) PROVE hilo'[c] = hilo[c]
      BY <1>0, <2>1, <3>1 DEF Request, MemType
    <3>2. hilo'[c] = hilo[c] /\ en_cpu'[c] = en_cpu[c]
      BY <1>0, <1>3, <2>1, <3>1 DEF CpuStep, FetchesInstruction, ReadsVariable, AssignsVariable,
                CpuGetsAnswer, FinishesProgram, TakesAnswer, MemType
    <3> QED BY <1>1, <3>2
  <2>2. CASE d = c
    <3>1. ASSUME CpuGetsAnswer(c) PROVE FALSE
      BY <1>0, <3>1, TakesAnswerType, IdleType DEF CpuGetsAnswer, Answered
    <3>2. ASSUME FinishesProgram(c) PROVE FALSE
      BY <3>2 DEF FinishesProgram, Runs, Answered
    <3>3. ASSUME NEW op, NEW p, NEW page, AsksFor(c, op, p, page) PROVE FALSE
      BY <3>3 DEF AsksFor, Answered
    <3> QED BY <1>0, <1>3, <2>2, <3>1, <3>2, <3>3, FetchAsks, ReadAsks, AssignAsks DEF CpuStep
  <2> QED BY <2>1, <2>2
<1>4. ASSUME NEW d \in Clients, ThreadStep(d) PROVE FetchOf(c)'
  <2>1. /\ UNCHANGED <<programa, en_cpu>> /\ hilo'[d].op = hilo[d].op
        /\ hilo'[d].page = hilo[d].page
        /\ \A e \in Clients : e # d => hilo'[e] = hilo[e]
    BY <1>0, <1>4, ThreadGoes DEF Serves
  <2>2. CASE d # c
    BY <1>0, <1>1, <2>1, <2>2
  <2>3. CASE d = c
    <3>1. hilo[c].at = "copy" /\ hilo[c].op = "OP_ME_SOLBYTPAG"
      BY <1>0, <1>4, <2>1, <2>3, ThreadGoes DEF Talks, CpusTalk, Answered
    <3>2. GetBytes(c)
      BY <1>4, <2>3, <3>1 DEF ThreadStep, SetPagesCounts, SetsOwner, NumbersPage, PagesSet,
                ClearsOwner, ClearsPage, PagesCleared, GetFrame, SetBytes
    <3>3. hilo'[c].offset = hilo[c].offset /\ hilo'[c].size = hilo[c].size
      BY <1>0, <1>4, <2>3, ThreadKeeps
    <3>4. hilo[c].page < PagesCode(programa[en_cpu[c]].size) =>
            hilo'[c].datos = Text(en_cpu[c], Address(c), hilo[c].size)
      BY <3>2, FetchedIs
    <3> QED BY <2>1, <2>3, <3>3, <3>4 DEF FetchOf, Address
  <2> QED BY <2>2, <2>3
<1>5. CASE UNCHANGED vars
  BY <1>1, <1>5 DEF vars
<1> QED BY <1>2, <1>3, <1>4, <1>5 DEF Next

TextInv == SpaceInv /\ TextStored /\ FetchesOwnCode

\* What a CPU gets when it asks for an instruction is the text of its own program
\* at that place, whatever the other programs load, write and free meanwhile.  The
\* pids fit the byte of the header, no instruction crosses the end of a page and
\* no text ends with one: without the last two it is not so (see the findings).
THEOREM CpusFetchOwnCode ==
  ASSUME PidsFit, ~Straddling, LastPageShort
  PROVE  Spec => []FetchesOwnCode
<1>1. Init => TextInv
  <2> SUFFICES ASSUME Init PROVE TextInv
    OBVIOUS
  <2>1. SpaceInv
    BY MemInvInit, AimsInit DEF SpaceInv
  <2>2. /\ \A p \in Pids : programa[p].estado = "new"
        /\ \A c \in Clients : hilo[c].at = "idle"
    BY IdleType DEF Init
  <2>3. TextStored
    BY <2>2 DEF TextStored, InMemory
  <2>4. FetchesOwnCode
    BY <2>2, Sizes DEF FetchesOwnCode, Answered
  <2> QED BY <2>1, <2>3, <2>4 DEF TextInv
<1>2. TextInv /\ [Next]_vars => TextInv'
  <2> SUFFICES ASSUME TextInv, [Next]_vars PROVE TextInv'
    OBVIOUS
  <2>1. SpaceInv' /\ MemInv /\ MemInv' /\ Aims
    BY SpaceInvStep DEF TextInv, SpaceInv
  <2>2. TextStored'
    BY <2>1, TextStoredStep DEF TextInv
  <2>3. FetchesOwnCode'
    BY <2>1, FetchStep DEF TextInv
  <2> QED BY <2>1, <2>2, <2>3 DEF TextInv
<1> QED BY <1>1, <1>2, PTL DEF Spec, TextInv
=============================================================================
