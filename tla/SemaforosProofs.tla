--------------------------- MODULE SemaforosProofs ---------------------------
(***************************************************************************)
(* The Kernel's list of blocked PCBs and the queues of its semaphores say  *)
(* the same, whatever the programs are and however often an address is     *)
(* given out again.                                                        *)
(***************************************************************************)
EXTENDS Semaforos, MlistProofs

----------------------------------------------------------------------------
(* What the list operators return.                                         *)

\* Every element of a finite set of numbers is in its ordered list, and nothing
\* else: the ranks are all those from 1 to its size.
LEMMA Ordered ==
  ASSUME NEW S \in SUBSET Nat, IsFiniteSet(S)
  PROVE  /\ EnOrden(S) \in Seq(S) /\ DOMAIN EnOrden(S) = 1..Cardinality(S)
         /\ Cardinality(S) \in Nat
         /\ \A n \in S : \E k \in DOMAIN EnOrden(S) : EnOrden(S)[k] = n
<1> DEFINE A(n) == {m \in S : m <= n}
           rank == [n \in S |-> Cardinality(A(n))]
           N == Cardinality(S)
<1>1. N \in Nat /\ IsFiniteSet(1..N) /\ Cardinality(1..N) = N
  BY FS_CardinalityType, CountTo
<1>2. ASSUME NEW n \in S PROVE IsFiniteSet(A(n)) /\ Cardinality(A(n)) \in 1..N
  <2>1. A(n) \in SUBSET S /\ n \in A(n)
    OBVIOUS
  <2> HIDE DEF A
  <2>2. IsFiniteSet(A(n)) /\ Cardinality(A(n)) <= N /\ Cardinality(A(n)) \in Nat
    BY <2>1, FS_Subset, FS_CardinalityType
  <2>3. Cardinality(A(n)) # 0
    BY <2>1, <2>2, FS_EmptySet
  <2> QED BY <1>1, <2>2, <2>3
<1>3. ASSUME NEW n \in S, NEW m \in S, n < m PROVE rank[n] # rank[m]
  <2>0. \A x \in S : x \in Nat
    OBVIOUS
  <2>1. A(n) \in SUBSET A(m) /\ m \in A(m) /\ m \notin A(n)
    <3>1. m \in Nat /\ n \in Nat /\ m <= m /\ ~(m <= n)
      BY <1>3, <2>0
    <3>2. \A x \in S : x <= n => x <= m
      BY <1>3, <2>0, <3>1
    <3> QED BY <3>1, <3>2
  <2>2. rank[n] = Cardinality(A(n)) /\ rank[m] = Cardinality(A(m))
    OBVIOUS
  <2> HIDE DEF A, rank
  <2> QED BY <1>2, <2>1, <2>2, FS_Subset
<1>4. rank \in Injection(S, 1..N)
  <2>1. rank \in [S -> 1..N]
    BY <1>2
  <2>2. \A n, m \in S : rank[n] = rank[m] => n = m
    <3> TAKE n, m \in S
    <3>1. n = m \/ n < m \/ m < n
      OBVIOUS
    <3> HIDE DEF rank
    <3> QED BY <1>3, <3>1
  <2> HIDE DEF rank
  <2>3. IsInjective(rank)
    BY <2>1, <2>2 DEF IsInjective
  <2> QED BY <2>1, <2>3 DEF Injection
<1>5. rank \in Surjection(S, 1..N)
  <2> HIDE DEF rank
  <2> QED BY <1>1, <1>4, FS_Injection
<1>6. \A k \in 1..N : \E n \in S : rank[n] = k
  <2> HIDE DEF rank
  <2> QED BY <1>5 DEF Surjection, Range
<1>7. ASSUME NEW k \in 1..N
      PROVE  /\ EnOrden(S)[k] \in S /\ rank[EnOrden(S)[k]] = k
  <2>1. EnOrden(S)[k] = CHOOSE n \in S : Cardinality({m \in S : m <= n}) = k
    BY DEF EnOrden
  <2>2. \E n \in S : Cardinality({m \in S : m <= n}) = k
    BY <1>6
  <2>3. EnOrden(S)[k] \in S /\ Cardinality({m \in S : m <= EnOrden(S)[k]}) = k
    BY <2>1, <2>2
  <2> QED BY <2>3
<1>8. DOMAIN EnOrden(S) = 1..N
  BY DEF EnOrden
<1>9. EnOrden(S) \in Seq(S)
  <2>1. EnOrden(S) = [k \in 1..N |-> EnOrden(S)[k]]
    BY DEF EnOrden
  <2>2. EnOrden(S) \in [1..N -> S]
    BY <1>7, <2>1
  <2> QED BY <1>1, <2>2, SeqDef
<1>10. ASSUME NEW n \in S PROVE EnOrden(S)[rank[n]] = n /\ rank[n] \in 1..N
  <2>1. rank[n] \in 1..N
    BY <1>2
  <2>2. rank[EnOrden(S)[rank[n]]] = rank[n] /\ EnOrden(S)[rank[n]] \in S
    <3> HIDE DEF rank
    <3> QED BY <1>7, <2>1
  <2> HIDE DEF rank
  <2>3. \A x, y \in S : rank[x] = rank[y] => x = y
    BY <1>4 DEF Injection, IsInjective
  <2> QED BY <2>1, <2>2, <2>3
<1> HIDE DEF rank
<1> QED BY <1>1, <1>8, <1>9, <1>10

\* What stays of a list without some positions is what was at the others.
LEMMA Left ==
  ASSUME NEW S, NEW s \in Seq(S), NEW is
  PROVE  /\ Sin(s, is) \in Seq(S)
         /\ \A x \in ToSet(Sin(s, is)) : x \in ToSet(s)
         /\ \A i \in DOMAIN s : i \notin is => s[i] \in ToSet(Sin(s, is))
<1> DEFINE K == DOMAIN s \ is
<1>1. DOMAIN s = 1..Len(s) /\ Len(s) \in Nat /\ \A i \in 1..Len(s) : s[i] \in S
  BY LenProperties
<1>2. K \in SUBSET Nat /\ IsFiniteSet(K)
  <2>1. IsFiniteSet(1..Len(s)) /\ K \in SUBSET (1..Len(s))
    BY <1>1, CountTo
  <2> QED BY <2>1, FS_Subset
<1> HIDE DEF K
<1>3. /\ EnOrden(K) \in Seq(K) /\ DOMAIN EnOrden(K) = 1..Cardinality(K) /\ Cardinality(K) \in Nat
      /\ \A n \in K : \E k \in DOMAIN EnOrden(K) : EnOrden(K)[k] = n
  BY <1>2, Ordered
<1>4. \A k \in 1..Cardinality(K) : EnOrden(K)[k] \in K
  BY <1>3, LenProperties
<1>5. Sin(s, is) = [k \in 1..Cardinality(K) |-> s[EnOrden(K)[k]]]
  BY <1>3 DEF Sin, K
<1>6. \A k \in 1..Cardinality(K) : EnOrden(K)[k] \in 1..Len(s)
  BY <1>1, <1>4 DEF K
<1>7. Sin(s, is) \in Seq(S)
  <2>1. Sin(s, is) \in [1..Cardinality(K) -> S]
    BY <1>1, <1>5, <1>6
  <2> QED BY <1>3, <2>1, SeqDef
<1>8. \A x \in ToSet(Sin(s, is)) : x \in ToSet(s)
  BY <1>1, <1>5, <1>6 DEF ToSet
<1>9. ASSUME NEW i \in DOMAIN s, i \notin is PROVE s[i] \in ToSet(Sin(s, is))
  <2>1. i \in K
    BY <1>9 DEF K
  <2>2. PICK k \in 1..Cardinality(K) : EnOrden(K)[k] = i
    BY <1>3, <2>1
  <2>3. k \in DOMAIN Sin(s, is) /\ Sin(s, is)[k] = s[i]
    BY <1>5, <2>2
  <2> QED BY <2>3 DEF ToSet
<1> QED BY <1>7, <1>8, <1>9

LEMMA Elements ==
  ASSUME NEW S, NEW s \in Seq(S)
  PROVE  /\ ToSet(s) = Range(s) /\ ToSet(s) \subseteq S /\ ToSet(<<>>) = {}
         /\ \A x : ToSet(Append(s, x)) = ToSet(s) \cup {x}
         /\ s # <<>> => /\ Head(s) \in ToSet(s) /\ Tail(s) \in Seq(S)
                        /\ ToSet(Tail(s)) \subseteq ToSet(s)
                        /\ ToSet(s) = {Head(s)} \cup ToSet(Tail(s))
<1>1. DOMAIN s = 1..Len(s) /\ Len(s) \in Nat /\ \A i \in 1..Len(s) : s[i] \in S
  BY LenProperties
<1>2. ToSet(s) = Range(s) /\ ToSet(s) \subseteq S /\ ToSet(<<>>) = {}
  BY <1>1, EmptySeq DEF ToSet, Range
<1>3. ASSUME NEW x PROVE ToSet(Append(s, x)) = ToSet(s) \cup {x}
  <2>1. s \in Seq(S \cup {x})
    BY <1>1, SeqDef
  <2>2. /\ DOMAIN Append(s, x) = 1..(Len(s) + 1) /\ Append(s, x)[Len(s) + 1] = x
        /\ \A i \in 1..Len(s) : Append(s, x)[i] = s[i]
    BY <2>1, AppendProperties, LenProperties
  <2>3. \A i \in 1..(Len(s) + 1) : i \in 1..Len(s) \/ i = Len(s) + 1
    BY <1>1
  <2>4. Len(s) + 1 \in 1..(Len(s) + 1) /\ \A i \in 1..Len(s) : i \in 1..(Len(s) + 1)
    BY <1>1
  <2> QED BY <1>1, <2>2, <2>3, <2>4 DEF ToSet
<1>4. ASSUME s # <<>>
      PROVE  /\ Head(s) \in ToSet(s) /\ Tail(s) \in Seq(S) /\ ToSet(Tail(s)) \subseteq ToSet(s)
             /\ ToSet(s) = {Head(s)} \cup ToSet(Tail(s))
  <2>1. /\ Head(s) = s[1] /\ Tail(s) \in Seq(S) /\ Len(Tail(s)) = Len(s) - 1
        /\ \A i \in 1..Len(Tail(s)) : Tail(s)[i] = s[i + 1]
    BY <1>4, HeadTailProperties
  <2>2. DOMAIN Tail(s) = 1..Len(Tail(s)) /\ 1 \in 1..Len(s)
    BY <1>1, <1>4, <2>1, LenProperties, EmptySeq
  <2>3. \A i \in 1..Len(s) : i = 1 \/ (i - 1 \in 1..(Len(s) - 1) /\ (i - 1) + 1 = i)
    BY <1>1
  <2>4. \A i \in 1..(Len(s) - 1) : i + 1 \in 1..Len(s)
    BY <1>1
  <2>5. Head(s) \in ToSet(s)
    BY <1>1, <2>1, <2>2 DEF ToSet
  <2>6. ToSet(Tail(s)) \subseteq ToSet(s)
    BY <1>1, <2>1, <2>2, <2>4 DEF ToSet
  <2>7. \A x \in ToSet(s) : x = Head(s) \/ x \in ToSet(Tail(s))
    <3> SUFFICES ASSUME NEW i \in 1..Len(s), i # 1 PROVE s[i] \in ToSet(Tail(s))
      BY <1>1, <2>1 DEF ToSet
    <3>1. i - 1 \in 1..Len(Tail(s)) /\ (i - 1) + 1 = i
      BY <2>1, <2>3
    <3>2. Tail(s)[i - 1] = s[i]
      BY <2>1, <3>1
    <3> QED BY <2>2, <3>1, <3>2 DEF ToSet
  <2> QED BY <2>1, <2>5, <2>6, <2>7
<1> QED BY <1>2, <1>3, <1>4

\* What a list is without one value, and what a part of it has.
LEMMA Others ==
  ASSUME NEW S, NEW s \in Seq(S), NEW p
  PROVE  Without(s, p) \in Seq(S) /\ ToSet(Without(s, p)) = ToSet(s) \ {p}
<1>1. Without(s, p) \in Seq(S) /\ Range(Without(s, p)) = Range(s) \ {p}
  BY WithoutProperties
<1> QED BY <1>1, Elements

----------------------------------------------------------------------------
(* The types, and the line every PCB is at.                                *)

Dichos   == Pids \cup {NadieTiene}
Lugares  == {"libre", "bucle", "linea", "valor", "perdida"}

\* A PCB of a program is at one of its lines.
EnLinea(p) == p.pid \in Pids => p.PC \in DOMAIN texto[p.pid]
Contextos  == {p \in [pid : Dichos, PC : Nat \ {0}] : EnLinea(p)}
Pedidos    == {r \in [pid : Pids, PC : Nat \ {0}, linea : Lineas] :
                 r.PC \in DOMAIN texto[r.pid] /\ r.linea = texto[r.pid][r.PC]}
Mensajes   == [op : {"valor"}, de : Dichos]
              \cup {m \in [op : {"pcb"}, pid : Dichos, PC : Nat \ {0}] : EnLinea(m)}
\* A CPU that is in a line is so on behalf of a program, and one that waits for
\* a value has asked for it: only at its last line a program has no next one.
Cpu1       == {p \in [en : Lugares, pid : Dichos, PC : Nat \ {0}] :
                 /\ EnLinea(p)
                 /\ p.en \in {"linea", "valor"} => p.pid \in Pids
                 /\ p.en = "valor" => texto[p.pid][p.PC].op = "obtiene"}

ListsType ==
  /\ pcb_ready \in Seq(Dirs) /\ pcb_exec \in Seq(Dirs) /\ pcb_block \in Seq(Dirs)
  /\ pcb_exit \in Seq(Dichos) /\ reusadas \subseteq Dirs
ResourcesType ==
  /\ sem_ansisop \in [SemIds -> Int] /\ solicitudes_sem \in [SemIds -> Seq(Dirs)]
  /\ shared_values \in [SharedVars -> Dichos]
ClientsType ==
  /\ cpu_conectadas \in Seq(Cpus) /\ cpu_executing \in Seq(Cpus)
  /\ ToSet(cpu_conectadas) \cup ToSet(cpu_executing) = Cpus
PassType ==
  /\ fase \in {"planifica", "select", "sirve"} /\ pasada \subseteq Cpus
  /\ (fase = "sirve") = (pasada # {}) /\ \A c \in pasada : deCpu[c] # <<>>
CpusType ==
  /\ cpu \in [Cpus -> Cpu1] /\ deCpu \in [Cpus -> Seq(Pedidos)] /\ aCpu \in [Cpus -> Seq(Mensajes)]

TypeInv == /\ texto \in Textos /\ pcb \in [Dirs -> Contextos]
           /\ ListsType /\ ResourcesType /\ ClientsType /\ PassType /\ CpusType

LEMMA LineKinds ==
  ASSUME NEW l \in Lineas
  PROVE  /\ l.op \in {"wait", "signal"} => l.en \in SemIds
         /\ l.op \in {"asigna", "obtiene"} => l.en \in SharedVars
         /\ l.op \in {"wait", "signal", "asigna", "obtiene", "end"}
BY DEF Lineas, Wait, Signal, Asigna, Obtiene, End

LEMMA TextLines ==
  ASSUME NEW t \in Textos, NEW p \in Pids
  PROVE  /\ DOMAIN t[p] = 1..Len(t[p]) /\ Len(t[p]) \in Nat \ {0} /\ 1 \in DOMAIN t[p]
         /\ \A k \in DOMAIN t[p] : t[p][k] \in Lineas
         /\ \A k \in DOMAIN t[p] : t[p][k].op # "end" => k + 1 \in DOMAIN t[p]
<1>1. t[p] \in Seq(Lineas) /\ t[p] # <<>> /\ t[p][Len(t[p])] = End
  BY TextosAssumption
<1>2. DOMAIN t[p] = 1..Len(t[p]) /\ Len(t[p]) \in Nat /\ \A k \in 1..Len(t[p]) : t[p][k] \in Lineas
  BY <1>1, LenProperties
<1>3. Len(t[p]) # 0
  BY <1>1, EmptySeq
<1>4. ASSUME NEW k \in 1..Len(t[p]), t[p][k].op # "end" PROVE k + 1 \in 1..Len(t[p])
  <2>1. k # Len(t[p])
    BY <1>1, <1>4 DEF End
  <2> QED BY <1>2, <2>1
<1> QED BY <1>2, <1>3, <1>4

LEMMA InitTypes == Init => TypeInv
<1> SUFFICES ASSUME Init PROVE TypeInv
  OBVIOUS
<1>1. /\ texto \in Textos
      /\ pcb = [a \in Dirs |-> IF a \in Pids THEN [pid |-> a, PC |-> 1] ELSE Liberado]
      /\ pcb_ready = EnOrden(Pids) /\ pcb_exec = <<>> /\ pcb_block = <<>> /\ pcb_exit = <<>>
      /\ sem_ansisop = SemInit /\ solicitudes_sem = [s \in SemIds |-> <<>>]
      /\ shared_values = [v \in SharedVars |-> NadieTiene]
      /\ cpu_conectadas = EnOrden(Cpus) /\ cpu_executing = <<>>
      /\ fase = "planifica" /\ pasada = {}
      /\ cpu = [c \in Cpus |-> Parada]
      /\ deCpu = [c \in Cpus |-> <<>>] /\ aCpu = [c \in Cpus |-> <<>>]
      /\ reusadas = {}
  BY DEF Init
<1>2. Pids \in SUBSET Nat /\ Cpus \in SUBSET Nat /\ IsFiniteSet(Pids) /\ IsFiniteSet(Cpus)
  BY DirsAssumption, CpusAssumption, FiniteAssumption
<1>3. pcb \in [Dirs -> Contextos]
  <2>1. \A a \in Pids : [pid |-> a, PC |-> 1] \in Contextos
    BY <1>1, TextLines DEF Contextos, Dichos, EnLinea
  <2>2. Liberado \in Contextos
    BY DirsAssumption DEF Liberado, Contextos, Dichos, EnLinea
  <2> QED BY <1>1, <2>1, <2>2
<1>4. ListsType
  <2>1. EnOrden(Pids) \in Seq(Pids)
    BY <1>2, Ordered
  <2>2. EnOrden(Pids) \in Seq(Dirs)
    <3>1. /\ Len(EnOrden(Pids)) \in Nat
          /\ EnOrden(Pids) \in [1..Len(EnOrden(Pids)) -> Pids]
      BY <2>1, LenProperties
    <3>2. EnOrden(Pids) \in [1..Len(EnOrden(Pids)) -> Dirs]
      BY <3>1, DirsAssumption
    <3> QED BY <3>1, <3>2, SeqDef
  <2> QED BY <1>1, <2>2 DEF ListsType
<1>5. ResourcesType
  BY <1>1, SemAssumption DEF ResourcesType, Dichos
<1>6. ClientsType
  <2>1. /\ EnOrden(Cpus) \in Seq(Cpus)
        /\ \A n \in Cpus : \E k \in DOMAIN EnOrden(Cpus) : EnOrden(Cpus)[k] = n
    BY <1>2, Ordered
  <2>2. ToSet(EnOrden(Cpus)) = Cpus
    <3>1. ToSet(EnOrden(Cpus)) \subseteq Cpus
      BY <2>1, Elements
    <3> QED BY <2>1, <3>1 DEF ToSet
  <2>3. ToSet(<<>>) = {}
    BY <2>1, Elements
  <2> QED BY <1>1, <2>1, <2>2, <2>3 DEF ClientsType
<1>7. PassType
  BY <1>1 DEF PassType
<1>8. CpusType
  <2>1. Parada \in Cpu1
    BY DirsAssumption DEF Parada, Cpu1, Lugares, Dichos, EnLinea
  <2> QED BY <1>1, <2>1 DEF CpusType
<1> QED BY <1>1, <1>3, <1>4, <1>5, <1>6, <1>7, <1>8 DEF TypeInv

LEMMA TypesSay == TypeInv => TypeOK
<1> SUFFICES ASSUME TypeInv PROVE TypeOK
  OBVIOUS
<1> USE DEF TypeInv
<1>1. pcb \in [Dirs -> [pid : Pids \cup {NadieTiene}, PC : Nat \ {0}]]
  BY DEF Contextos, Dichos
<1>2. EnListas \subseteq Dirs
  <2>1. ToSet(pcb_ready) \subseteq Dirs /\ ToSet(pcb_exec) \subseteq Dirs /\ ToSet(pcb_block) \subseteq Dirs
    BY Elements DEF ListsType
  <2>2. \A s \in SemIds : ToSet(solicitudes_sem[s]) \subseteq Dirs
    BY Elements DEF ResourcesType
  <2> QED BY <2>1, <2>2 DEF EnListas
<1>3. ToSet(pcb_exit) \subseteq Pids \cup {NadieTiene} /\ reusadas \subseteq Dirs
  BY Elements DEF ListsType, Dichos
<1>4. sem_ansisop \in [SemIds -> Int] /\ shared_values \in [SharedVars -> Pids \cup {NadieTiene}]
  BY DEF ResourcesType, Dichos
<1>5. ASSUME NEW c \in Cpus
      PROVE  /\ cpu[c].en \in {"libre", "bucle", "linea", "valor", "perdida"}
             /\ cpu[c].en \in {"linea", "valor"} => cpu[c].PC \in DOMAIN texto[cpu[c].pid]
             /\ \A r \in ToSet(deCpu[c]) : r.linea = texto[r.pid][r.PC]
             /\ \A m \in ToSet(aCpu[c]) : m.op \in {"pcb", "valor"}
  <2>1. cpu[c] \in Cpu1 /\ deCpu[c] \in Seq(Pedidos) /\ aCpu[c] \in Seq(Mensajes)
    BY DEF CpusType
  <2>2. ToSet(deCpu[c]) \subseteq Pedidos /\ ToSet(aCpu[c]) \subseteq Mensajes
    BY <2>1, Elements
  <2> QED BY <2>1, <2>2 DEF Cpu1, Lugares, EnLinea, Pedidos, Mensajes
<1>6. ToSet(cpu_conectadas) \cup ToSet(cpu_executing) = Cpus
  BY DEF ClientsType
<1> QED BY <1>1, <1>2, <1>3, <1>4, <1>5, <1>6 DEF TypeOK, PassType

----------------------------------------------------------------------------
(* What an action of a CPU preserves.                                      *)

LEMMA CpuRecords ==
  ASSUME NEW p \in [en : Lugares, pid : Dichos, PC : Nat \ {0}], NEW e, NEW n
  PROVE  /\ [p EXCEPT !.en = e] = [en |-> e, pid |-> p.pid, PC |-> p.PC]
         /\ [p EXCEPT !.en = e, !.PC = n] = [en |-> e, pid |-> p.pid, PC |-> n]
<1>1. p = [en |-> p.en, pid |-> p.pid, PC |-> p.PC]
  OBVIOUS
<1>2. DOMAIN p = {"en", "pid", "PC"}
  OBVIOUS
<1>3. [p EXCEPT !.en = e] = [en |-> e, pid |-> p.pid, PC |-> p.PC]
  BY <1>2
<1>4. [p EXCEPT !.en = e, !.PC = n] = [en |-> e, pid |-> p.pid, PC |-> n]
  <2> DEFINE q == [p EXCEPT !.en = e, !.PC = n]
  <2>1. q = [x \in {"en", "pid", "PC"} |-> q[x]]
    BY <1>2
  <2>2. q["en"] = e /\ q["pid"] = p.pid /\ q["PC"] = n
    BY <1>2
  <2> HIDE DEF q
  <2> QED BY <2>1, <2>2
<1> QED BY <1>3, <1>4

LEMMA CpuTypes ==
  ASSUME TypeInv, NEW c \in Cpus, Cpu(c)
  PROVE  TypeInv'
<1>1. /\ texto' = texto /\ pcb' = pcb /\ pcb_ready' = pcb_ready /\ pcb_exec' = pcb_exec
      /\ pcb_block' = pcb_block /\ pcb_exit' = pcb_exit /\ sem_ansisop' = sem_ansisop
      /\ solicitudes_sem' = solicitudes_sem /\ shared_values' = shared_values
      /\ cpu_conectadas' = cpu_conectadas /\ cpu_executing' = cpu_executing
      /\ fase' = fase /\ pasada' = pasada /\ reusadas' = reusadas
  BY DEF Cpu, RecibeDeKernel, PedirProximaInstruccion, PideYSigue, ObtenerValorCompartida,
         RecibeValor, Finalizar, kernel, colas, recursos, clientes
<1>2. /\ Contextos' = Contextos /\ Pedidos' = Pedidos /\ Mensajes' = Mensajes /\ Cpu1' = Cpu1
  BY <1>1 DEF Contextos, Pedidos, Mensajes, Cpu1, EnLinea
<1>3. /\ texto \in Textos /\ cpu \in [Cpus -> Cpu1] /\ deCpu \in [Cpus -> Seq(Pedidos)]
      /\ aCpu \in [Cpus -> Seq(Mensajes)] /\ cpu[c] \in Cpu1 /\ deCpu[c] \in Seq(Pedidos)
      /\ aCpu[c] \in Seq(Mensajes)
  BY DEF TypeInv, CpusType
<1>4. /\ cpu[c].en \in Lugares /\ cpu[c].pid \in Dichos /\ cpu[c].PC \in Nat \ {0} /\ EnLinea(cpu[c])
      /\ cpu[c].en \in {"linea", "valor"} => cpu[c].pid \in Pids
      /\ cpu[c].en = "valor" => Linea(c).op = "obtiene"
      /\ cpu[c] = [en |-> cpu[c].en, pid |-> cpu[c].pid, PC |-> cpu[c].PC]
  BY <1>3 DEF Cpu1, Linea
<1>5. ASSUME NEW x \in Cpu1 PROVE [cpu EXCEPT ![c] = x] \in [Cpus -> Cpu1]
  BY <1>3
<1>6. ASSUME aCpu[c] # <<>>
      PROVE  Head(aCpu[c]) \in Mensajes /\ [aCpu EXCEPT ![c] = Tail(@)] \in [Cpus -> Seq(Mensajes)]
  <2>1. Head(aCpu[c]) \in Mensajes /\ Tail(aCpu[c]) \in Seq(Mensajes)
    BY <1>3, <1>6, TailList
  <2> QED BY <1>3, <2>1
<1>7. ASSUME cpu[c].en = "linea", Pide(c)
      PROVE  deCpu' \in [Cpus -> Seq(Pedidos)] /\ \A d \in Cpus : deCpu[d] # <<>> => deCpu'[d] # <<>>
  <2> DEFINE r == [pid |-> cpu[c].pid, PC |-> cpu[c].PC, linea |-> Linea(c)]
  <2>1. cpu[c].pid \in Pids /\ cpu[c].PC \in DOMAIN texto[cpu[c].pid]
    BY <1>4, <1>7 DEF EnLinea
  <2>2. Linea(c) \in Lineas
    BY <1>3, <2>1, TextLines DEF Linea
  <2>3. r \in Pedidos
    BY <1>4, <2>1, <2>2 DEF Pedidos, Linea
  <2>4. deCpu' = [deCpu EXCEPT ![c] = Append(deCpu[c], r)]
    BY <1>3, <1>7 DEF Pide
  <2> HIDE DEF r
  <2>5. Append(deCpu[c], r) \in Seq(Pedidos) /\ Append(deCpu[c], r) # <<>>
    BY <1>3, <2>3, AppendProperties
  <2> QED BY <1>3, <2>4, <2>5
<1>8. ASSUME cpu[c].en \in {"linea", "valor"}, Linea(c).op # "end", Sigue(c)
      PROVE  cpu' \in [Cpus -> Cpu1]
  <2>1. cpu[c].pid \in Pids /\ cpu[c].PC \in DOMAIN texto[cpu[c].pid]
    BY <1>4, <1>8 DEF EnLinea
  <2>2. cpu[c].PC + 1 \in DOMAIN texto[cpu[c].pid] /\ cpu[c].PC + 1 \in Nat \ {0}
    BY <1>3, <1>4, <1>8, <2>1, TextLines DEF Linea
  <2>3. cpu' = [cpu EXCEPT ![c] = [en |-> "bucle", pid |-> cpu[c].pid, PC |-> cpu[c].PC + 1]]
    <3>1. cpu' = [cpu EXCEPT ![c] = [cpu[c] EXCEPT !.en = "bucle", !.PC = cpu[c].PC + 1]]
      <4>1. cpu' = [cpu EXCEPT ![c].en = "bucle", ![c].PC = @ + 1]
        BY <1>8 DEF Sigue
      <4>2. \A d \in Cpus \ {c} : cpu'[d] = cpu[d]
        BY <1>3, <4>1
      <4>3. cpu'[c] = [cpu[c] EXCEPT !.en = "bucle", !.PC = cpu[c].PC + 1]
        BY <1>3, <4>1
      <4>4. cpu' = [d \in Cpus |-> cpu'[d]]
        BY <1>3, <4>1
      <4> QED BY <1>3, <4>2, <4>3, <4>4
    <3>2. cpu[c] \in [en : Lugares, pid : Dichos, PC : Nat \ {0}]
      BY <1>3 DEF Cpu1
    <3>3. [cpu[c] EXCEPT !.en = "bucle", !.PC = cpu[c].PC + 1]
          = [en |-> "bucle", pid |-> cpu[c].pid, PC |-> cpu[c].PC + 1]
      BY <3>2, CpuRecords
    <3> QED BY <3>1, <3>3
  <2>4. [en |-> "bucle", pid |-> cpu[c].pid, PC |-> cpu[c].PC + 1] \in Cpu1
    BY <1>4, <2>1, <2>2 DEF Cpu1, Lugares, EnLinea
  <2> QED BY <1>5, <2>3, <2>4
<1>9. Parada \in Cpu1
  BY DirsAssumption DEF Parada, Cpu1, Lugares, Dichos, EnLinea
<1>10. /\ cpu' \in [Cpus -> Cpu1] /\ deCpu' \in [Cpus -> Seq(Pedidos)]
       /\ aCpu' \in [Cpus -> Seq(Mensajes)] /\ \A d \in Cpus : deCpu[d] # <<>> => deCpu'[d] # <<>>
  <2>1. CASE RecibeDeKernel(c)
    <3>1. aCpu[c] # <<>> /\ aCpu' = [aCpu EXCEPT ![c] = Tail(@)] /\ deCpu' = deCpu
      BY <2>1 DEF RecibeDeKernel
    <3>2. PICK m \in Mensajes : m = Head(aCpu[c])
      BY <1>6, <3>1
    <3>3. cpu' = [cpu EXCEPT ![c] = IF m.op = "valor" THEN cpu[c]
                                    ELSE [en |-> "bucle", pid |-> m.pid, PC |-> m.PC]]
      BY <1>3, <2>1, <3>2 DEF RecibeDeKernel
    <3>4. m.op # "valor" => [en |-> "bucle", pid |-> m.pid, PC |-> m.PC] \in Cpu1
      BY DEF Mensajes, Cpu1, Lugares, EnLinea
    <3>5. cpu' \in [Cpus -> Cpu1]
      BY <1>3, <1>5, <3>3, <3>4
    <3> QED BY <1>3, <1>6, <3>1, <3>5
  <2>2. CASE PedirProximaInstruccion(c)
    <3>1. PICK e \in {"linea", "perdida"} : /\ cpu' = [cpu EXCEPT ![c].en = e]
                                            /\ e = "linea" => cpu[c].pid \in Pids
      BY <2>2 DEF PedirProximaInstruccion
    <3>2. cpu' = [cpu EXCEPT ![c] = [en |-> e, pid |-> cpu[c].pid, PC |-> cpu[c].PC]]
      <4>1. cpu' = [cpu EXCEPT ![c] = [cpu[c] EXCEPT !.en = e]]
        BY <1>3, <3>1
      <4> QED BY <1>3, <4>1, CpuRecords DEF Cpu1
    <3>3. [en |-> e, pid |-> cpu[c].pid, PC |-> cpu[c].PC] \in Cpu1
      BY <1>4, <3>1 DEF Cpu1, Lugares, EnLinea
    <3>4. deCpu' = deCpu /\ aCpu' = aCpu
      BY <2>2 DEF PedirProximaInstruccion
    <3> QED BY <1>3, <1>5, <3>2, <3>3, <3>4
  <2>3. CASE PideYSigue(c)
    BY <1>3, <1>7, <1>8, <2>3 DEF PideYSigue
  <2>4. CASE ObtenerValorCompartida(c)
    <3>1. /\ cpu[c].en = "linea" /\ Linea(c).op = "obtiene" /\ Pide(c) /\ aCpu' = aCpu
          /\ cpu' = [cpu EXCEPT ![c].en = "valor"]
      BY <2>4 DEF ObtenerValorCompartida
    <3>2. cpu' = [cpu EXCEPT ![c] = [en |-> "valor", pid |-> cpu[c].pid, PC |-> cpu[c].PC]]
      <4>1. cpu' = [cpu EXCEPT ![c] = [cpu[c] EXCEPT !.en = "valor"]]
        BY <1>3, <3>1
      <4> QED BY <1>3, <4>1, CpuRecords DEF Cpu1
    <3>3. [en |-> "valor", pid |-> cpu[c].pid, PC |-> cpu[c].PC] \in Cpu1
      BY <1>4, <3>1 DEF Cpu1, Lugares, EnLinea, Linea
    <3> QED BY <1>3, <1>5, <1>7, <3>1, <3>2, <3>3
  <2>5. CASE RecibeValor(c)
    BY <1>3, <1>4, <1>6, <1>8, <2>5 DEF RecibeValor
  <2>6. CASE Finalizar(c)
    BY <1>3, <1>5, <1>7, <1>9, <2>6 DEF Finalizar
  <2> QED BY <2>1, <2>2, <2>3, <2>4, <2>5, <2>6 DEF Cpu
<1>11. CpusType'
  BY <1>2, <1>10 DEF CpusType
<1>12. PassType'
  <2>1. PassType
    BY DEF TypeInv
  <2> QED BY <1>1, <1>10, <2>1 DEF PassType
<1>13. ListsType' /\ ResourcesType' /\ ClientsType'
  BY <1>1 DEF TypeInv, ListsType, ResourcesType, ClientsType
<1> QED BY <1>1, <1>2, <1>11, <1>12, <1>13 DEF TypeInv

----------------------------------------------------------------------------
(* The heap.                                                               *)

\* A PCB that is at the address a list is searched for leaves the list, where
\* the address is first, and is freed.
LEMMA Freed ==
  ASSUME NEW h, NEW lista \in Seq(Dirs), NEW x \in ToSet(lista)
  PROVE  \E i \in Hallados(h, lista, x) : lista[i] = x
<1> DEFINE T == {i \in DOMAIN lista : lista[i] = x}
<1>1. DOMAIN lista = 1..Len(lista) /\ Len(lista) \in Nat
  BY LenProperties
<1>2. T \in SUBSET Nat /\ \E t \in T : TRUE
  BY <1>1 DEF ToSet
<1>3. PICK t \in T : TRUE
  BY <1>2
<1>4. PICK i \in T : \A y \in T : i <= y
  <2> HIDE DEF T
  <2> QED BY <1>2, <1>3, LeastNatural
<1>5. \A j \in 1..(i - 1) : lista[j] # x
  <2> SUFFICES ASSUME NEW j \in 1..(i - 1), lista[j] = x PROVE FALSE
    OBVIOUS
  <2>1. j \in 1..Len(lista) /\ j < i
    BY <1>1, <1>4
  <2>2. j \in T
    BY <1>1, <2>1
  <2>3. i <= j
    BY <1>4, <2>2
  <2> QED BY <1>1, <1>4, <2>1, <2>3
<1> QED BY <1>4, <1>5 DEF Hallados, PcbEquals, PrimeraVez

\* What is not freed stays in its list.
LEMMA KeptContext ==
  ASSUME NEW h, NEW lista, NEW is, NEW b \in Dirs, Libera(h, lista, is)[b].pid # NadieTiene
  PROVE  Libera(h, lista, is)[b] = h[b] /\ ~ \E i \in is : lista[i] = b
<1>1. Libera(h, lista, is)[b] = IF \E i \in is : lista[i] = b THEN Liberado ELSE h[b]
  BY DEF Libera
<1>2. ~ \E i \in is : lista[i] = b
  BY <1>1 DEF Liberado
<1> QED BY <1>1, <1>2

LEMMA NotFreed ==
  ASSUME NEW h, NEW lista \in Seq(Dirs), NEW is, NEW b \in Dirs,
         Libera(h, lista, is)[b].pid # NadieTiene
  PROVE  /\ Libera(h, lista, is)[b] = h[b]
         /\ b \in ToSet(Sin(lista, is)) <=> b \in ToSet(lista)
<1>1. Libera(h, lista, is)[b] = h[b]
  BY KeptContext
<1>2. ~ \E i \in is : lista[i] = b
  BY KeptContext
<1>3. b \in ToSet(lista) => b \in ToSet(Sin(lista, is))
  <2> SUFFICES ASSUME NEW i \in DOMAIN lista, lista[i] = b PROVE b \in ToSet(Sin(lista, is))
    BY DEF ToSet
  <2>1. i \notin is
    BY <1>2
  <2> QED BY <2>1, Left
<1>4. b \in ToSet(Sin(lista, is)) => b \in ToSet(lista)
  BY Left
<1> QED BY <1>1, <1>2, <1>3, <1>4

LEMMA FreedHeap ==
  ASSUME NEW h \in [Dirs -> Contextos], NEW lista, NEW is
  PROVE  Libera(h, lista, is) \in [Dirs -> Contextos]
<1>1. Liberado \in Contextos
  BY DirsAssumption DEF Liberado, Contextos, Dichos, EnLinea
<1> QED BY <1>1 DEF Libera

----------------------------------------------------------------------------
(* What the Kernel does for every request.                                 *)

\* A request is at a line of its program.
LEMMA Requests ==
  ASSUME TypeInv, NEW c \in Cpus, NEW op, Atiende(c, op)
  PROVE  /\ Pedido(c) \in Pedidos /\ Pedido(c).pid \in Pids /\ Pedido(c).PC \in Nat \ {0}
         /\ Pedido(c).PC \in DOMAIN texto[Pedido(c).pid]
         /\ Pedido(c).linea = texto[Pedido(c).pid][Pedido(c).PC]
         /\ Pedido(c).linea \in Lineas /\ Pedido(c).linea.op = op
         /\ [pid |-> Pedido(c).pid, PC |-> Pedido(c).PC] \in Contextos
<1>1. c \in pasada /\ Pedido(c).linea.op = op
  BY DEF Atiende
<1>2. deCpu[c] # <<>> /\ deCpu[c] \in Seq(Pedidos)
  BY <1>1 DEF TypeInv, PassType, CpusType
<1>3. PICK r \in Pedidos : r = Pedido(c)
  BY <1>2, TailList DEF Pedido
<1> QED BY <1>1, <1>3 DEF Pedidos, Contextos, Dichos, EnLinea

LEMMA RequestTypes ==
  ASSUME TypeInv, NEW c \in Cpus, NEW op, Atiende(c, op), NEW a \in Dirs, SacaDeExec(c, a)
  PROVE  /\ texto' = texto /\ cpu' = cpu /\ ClientsType' /\ PassType'
         /\ deCpu' \in [Cpus -> Seq(Pedidos)] /\ pcb_exec' \in Seq(Dirs) /\ reusadas' \subseteq Dirs
         /\ Recibido(c, a) \in [Dirs -> Contextos] /\ Heap(c, a) \in [Dirs -> Contextos]
         /\ Contextos' = Contextos /\ Pedidos' = Pedidos /\ Mensajes' = Mensajes /\ Cpu1' = Cpu1
<1>1. /\ c \in pasada /\ pasada' = pasada \ {c} /\ fase = "sirve"
      /\ fase' = IF pasada = {c} THEN "planifica" ELSE "sirve"
      /\ deCpu' = [deCpu EXCEPT ![c] = Tail(@)] /\ texto' = texto /\ cpu' = cpu
      /\ cpu_executing' = Without(cpu_executing, c) /\ cpu_conectadas' = Append(cpu_conectadas, c)
  BY DEF Atiende, RestoreCPU
<1>2. PassType /\ ClientsType /\ ListsType /\ deCpu \in [Cpus -> Seq(Pedidos)]
      /\ pcb \in [Dirs -> Contextos]
  BY DEF TypeInv, CpusType
<1>3. ClientsType'
  <2>1. cpu_conectadas \in Seq(Cpus) /\ cpu_executing \in Seq(Cpus)
        /\ ToSet(cpu_conectadas) \cup ToSet(cpu_executing) = Cpus
    BY <1>2 DEF ClientsType
  <2>2. /\ cpu_executing' \in Seq(Cpus) /\ ToSet(cpu_executing') = ToSet(cpu_executing) \ {c}
    BY <1>1, <2>1, Others
  <2>3. ToSet(Append(cpu_conectadas, c)) = ToSet(cpu_conectadas) \cup {c}
    BY <2>1, Elements
  <2>4. cpu_conectadas' \in Seq(Cpus) /\ ToSet(cpu_conectadas') = ToSet(cpu_conectadas) \cup {c}
    BY <1>1, <2>1, <2>3, AppendProperties
  <2> QED BY <2>1, <2>2, <2>4 DEF ClientsType
<1>4. deCpu' \in [Cpus -> Seq(Pedidos)] /\ \A d \in Cpus \ {c} : deCpu'[d] = deCpu[d]
  <2>1. deCpu[c] # <<>> /\ deCpu[c] \in Seq(Pedidos)
    BY <1>1, <1>2 DEF PassType
  <2>2. Tail(deCpu[c]) \in Seq(Pedidos)
    BY <2>1, TailList
  <2> QED BY <1>1, <1>2, <2>2
<1>5. PassType'
  BY <1>1, <1>2, <1>4 DEF PassType
<1>6. pcb_exec' \in Seq(Dirs) /\ reusadas' \subseteq Dirs
  <2>1. pcb_exec \in Seq(Dirs) /\ reusadas \subseteq Dirs
    BY <1>2 DEF ListsType
  <2> QED BY <2>1, Left DEF SacaDeExec
<1>7. Recibido(c, a) \in [Dirs -> Contextos]
  BY <1>2, Requests DEF Recibido
<1>8. Heap(c, a) \in [Dirs -> Contextos]
  BY <1>7, FreedHeap DEF Heap
<1>9. Contextos' = Contextos /\ Pedidos' = Pedidos /\ Mensajes' = Mensajes /\ Cpu1' = Cpu1
  BY <1>1 DEF Contextos, Pedidos, Mensajes, Cpu1, EnLinea
<1> QED BY <1>1, <1>3, <1>4, <1>5, <1>6, <1>7, <1>8, <1>9

\* Once received: what is still allocated is what it was, or it is the PCB of
\* the request, and that one no list had.
LEMMA Received ==
  ASSUME TypeInv, NEW c \in Cpus, NEW op, Atiende(c, op), NEW a \in Dirs, SacaDeExec(c, a),
         NEW b \in Dirs \ reusadas', Heap(c, a)[b].pid # NadieTiene
  PROVE  /\ b \notin reusadas
         /\ b # a => Heap(c, a)[b] = pcb[b]
         /\ b = a => /\ Heap(c, a)[b] = [pid |-> Pedido(c).pid, PC |-> Pedido(c).PC]
                     /\ b \notin EnListas
<1>1. reusadas' = IF a \in EnListas THEN reusadas \cup {a} ELSE reusadas
  BY DEF SacaDeExec
<1>2. Heap(c, a)[b] = Recibido(c, a)[b]
  BY DEF Heap, Libera, Liberado
<1>3. pcb \in [Dirs -> Contextos]
  BY DEF TypeInv
<1>4. Recibido(c, a)[b] = IF b = a THEN [pid |-> Pedido(c).pid, PC |-> Pedido(c).PC] ELSE pcb[b]
  BY <1>3 DEF Recibido
<1> QED BY <1>1, <1>2, <1>4

----------------------------------------------------------------------------
(* What the actions of the Kernel preserve of the types.                   *)

LEMMA SelectTypes ==
  ASSUME TypeInv, Selecciona
  PROVE  TypeInv'
<1>1. /\ texto' = texto /\ pcb' = pcb /\ pcb_ready' = pcb_ready /\ pcb_exec' = pcb_exec
      /\ pcb_block' = pcb_block /\ pcb_exit' = pcb_exit /\ sem_ansisop' = sem_ansisop
      /\ solicitudes_sem' = solicitudes_sem /\ shared_values' = shared_values
      /\ cpu_conectadas' = cpu_conectadas /\ cpu_executing' = cpu_executing
      /\ reusadas' = reusadas /\ cpu' = cpu /\ deCpu' = deCpu /\ aCpu' = aCpu
  BY DEF Selecciona, colas, recursos
<1>2. /\ Contextos' = Contextos /\ Pedidos' = Pedidos /\ Mensajes' = Mensajes /\ Cpu1' = Cpu1
  BY <1>1 DEF Contextos, Pedidos, Mensajes, Cpu1, EnLinea
<1>3. PassType'
  BY <1>1 DEF PassType, Selecciona
<1>4. ListsType' /\ ResourcesType' /\ ClientsType' /\ CpusType'
  BY <1>1, <1>2 DEF TypeInv, ListsType, ResourcesType, ClientsType, CpusType
<1> QED BY <1>1, <1>2, <1>3, <1>4 DEF TypeInv

\* A list and what is behind its first n elements.
LEMMA Parts ==
  ASSUME NEW S, NEW s \in Seq(S), NEW n \in 0..Len(s)
  PROVE  /\ SubSeq(s, 1, n) \in Seq(S) /\ SubSeq(s, n + 1, Len(s)) \in Seq(S)
         /\ ToSet(s) = ToSet(SubSeq(s, 1, n)) \cup ToSet(SubSeq(s, n + 1, Len(s)))
<1>1. DOMAIN s = 1..Len(s) /\ Len(s) \in Nat /\ \A i \in 1..Len(s) : s[i] \in S
  BY LenProperties
<1>2. /\ SubSeq(s, 1, n) = [i \in 1..n |-> s[i]]
      /\ SubSeq(s, n + 1, Len(s)) = [i \in 1..(Len(s) - n) |-> s[i + n]]
  BY <1>1
<1>3. SubSeq(s, 1, n) \in Seq(S) /\ SubSeq(s, n + 1, Len(s)) \in Seq(S)
  BY <1>1, SubSeqProperties
<1>4. ASSUME NEW x \in ToSet(s)
      PROVE  x \in ToSet(SubSeq(s, 1, n)) \cup ToSet(SubSeq(s, n + 1, Len(s)))
  <2>1. PICK i \in 1..Len(s) : s[i] = x
    BY <1>1, <1>4 DEF ToSet
  <2>2. CASE i <= n
    <3>1. i \in 1..n
      BY <1>1, <2>2
    <3>2. i \in DOMAIN SubSeq(s, 1, n) /\ SubSeq(s, 1, n)[i] = x
      BY <1>2, <2>1, <3>1
    <3>3. x \in ToSet(SubSeq(s, 1, n))
      BY <3>2 DEF ToSet
    <3> QED BY <3>3
  <2>3. CASE ~(i <= n)
    <3>1. i - n \in 1..(Len(s) - n) /\ (i - n) + n = i
      BY <1>1, <2>1, <2>3
    <3>2. /\ i - n \in DOMAIN SubSeq(s, n + 1, Len(s))
          /\ SubSeq(s, n + 1, Len(s))[i - n] = s[(i - n) + n]
      BY <1>2, <3>1
    <3>3. x \in ToSet(SubSeq(s, n + 1, Len(s)))
      BY <2>1, <3>1, <3>2 DEF ToSet
    <3> QED BY <3>3
  <2> QED BY <2>2, <2>3
<1>5. ToSet(SubSeq(s, 1, n)) \subseteq ToSet(s)
  BY <1>1, <1>2 DEF ToSet
<1>6. ToSet(SubSeq(s, n + 1, Len(s))) \subseteq ToSet(s)
  <2>1. \A i \in 1..(Len(s) - n) : i + n \in 1..Len(s)
    BY <1>1
  <2> QED BY <1>1, <1>2, <2>1 DEF ToSet
<1> QED BY <1>3, <1>4, <1>5, <1>6

LEMMA Joined ==
  ASSUME NEW S, NEW s \in Seq(S), NEW t \in Seq(S)
  PROVE  s \o t \in Seq(S) /\ ToSet(s \o t) = ToSet(s) \cup ToSet(t)
<1>1. /\ s \o t \in Seq(S) /\ Len(s \o t) = Len(s) + Len(t)
      /\ \A i \in 1..(Len(s) + Len(t)) : (s \o t)[i] = IF i <= Len(s) THEN s[i] ELSE t[i - Len(s)]
  BY ConcatProperties
<1>2. /\ DOMAIN s = 1..Len(s) /\ DOMAIN t = 1..Len(t) /\ Len(s) \in Nat /\ Len(t) \in Nat
      /\ DOMAIN (s \o t) = 1..(Len(s) + Len(t))
  BY <1>1, LenProperties
<1>3. ASSUME NEW x \in ToSet(s \o t) PROVE x \in ToSet(s) \cup ToSet(t)
  <2>1. PICK i \in 1..(Len(s) + Len(t)) : (s \o t)[i] = x
    BY <1>2, <1>3 DEF ToSet
  <2>2. i <= Len(s) => i \in 1..Len(s)
    BY <1>2
  <2>3. ~(i <= Len(s)) => i - Len(s) \in 1..Len(t)
    BY <1>2
  <2> QED BY <1>1, <1>2, <2>1, <2>2, <2>3 DEF ToSet
<1>4. ASSUME NEW i \in 1..Len(s) PROVE s[i] \in ToSet(s \o t)
  <2>1. i \in 1..(Len(s) + Len(t)) /\ i <= Len(s)
    BY <1>2
  <2>2. (s \o t)[i] = s[i]
    BY <1>1, <2>1
  <2> QED BY <1>2, <2>1, <2>2 DEF ToSet
<1>5. ASSUME NEW i \in 1..Len(t) PROVE t[i] \in ToSet(s \o t)
  <2>1. /\ i + Len(s) \in 1..(Len(s) + Len(t)) /\ ~(i + Len(s) <= Len(s))
        /\ (i + Len(s)) - Len(s) = i
    BY <1>2
  <2>2. (s \o t)[i + Len(s)] = t[i]
    BY <1>1, <2>1
  <2> QED BY <1>2, <2>1, <2>2 DEF ToSet
<1> QED BY <1>1, <1>2, <1>3, <1>4, <1>5 DEF ToSet

LEMMA PlanTypes ==
  ASSUME TypeInv, Planifica
  PROVE  TypeInv'
<1> DEFINE n == IF Len(pcb_ready) < Len(cpu_conectadas) THEN Len(pcb_ready) ELSE Len(cpu_conectadas)
           P(c) == {k \in 1..n : cpu_conectadas[k] = c}
           M(k) == [op |-> "pcb", pid |-> pcb[pcb_ready[k]].pid, PC |-> pcb[pcb_ready[k]].PC]
<1>1. /\ texto' = texto /\ pcb' = pcb /\ pcb_block' = pcb_block /\ pcb_exit' = pcb_exit
      /\ sem_ansisop' = sem_ansisop /\ solicitudes_sem' = solicitudes_sem
      /\ shared_values' = shared_values /\ reusadas' = reusadas /\ cpu' = cpu /\ deCpu' = deCpu
      /\ fase = "planifica" /\ fase' = "select" /\ pasada' = pasada
  BY DEF Planifica, recursos
<1>2. /\ pcb_exec' = pcb_exec \o SubSeq(pcb_ready, 1, n)
      /\ pcb_ready' = SubSeq(pcb_ready, n + 1, Len(pcb_ready))
      /\ cpu_executing' = cpu_executing \o SubSeq(cpu_conectadas, 1, n)
      /\ cpu_conectadas' = SubSeq(cpu_conectadas, n + 1, Len(cpu_conectadas))
      /\ aCpu' = [c \in Cpus |-> aCpu[c] \o [j \in DOMAIN EnOrden(P(c)) |-> M(EnOrden(P(c))[j])]]
  BY DEF Planifica
<1>3. ListsType /\ ResourcesType /\ ClientsType /\ PassType /\ CpusType /\ pcb \in [Dirs -> Contextos]
      /\ texto \in Textos
  BY DEF TypeInv
<1>4. /\ pcb_ready \in Seq(Dirs) /\ pcb_exec \in Seq(Dirs) /\ cpu_conectadas \in Seq(Cpus)
      /\ cpu_executing \in Seq(Cpus) /\ aCpu \in [Cpus -> Seq(Mensajes)]
      /\ ToSet(cpu_conectadas) \cup ToSet(cpu_executing) = Cpus
  BY <1>3 DEF ListsType, ClientsType, CpusType
<1>5. n \in 0..Len(pcb_ready) /\ n \in 0..Len(cpu_conectadas) /\ n \in Nat
  BY <1>4, LenProperties
<1>6. /\ Contextos' = Contextos /\ Pedidos' = Pedidos /\ Mensajes' = Mensajes /\ Cpu1' = Cpu1
  BY <1>1 DEF Contextos, Pedidos, Mensajes, Cpu1, EnLinea
<1>7. \A k \in 1..n : M(k) \in Mensajes
  <2> SUFFICES ASSUME NEW k \in 1..n PROVE M(k) \in Mensajes
    OBVIOUS
  <2>1. k \in 1..Len(pcb_ready)
    BY <1>5
  <2>2. pcb_ready[k] \in Dirs
    BY <1>4, <2>1, LenProperties
  <2>3. pcb[pcb_ready[k]] \in Contextos
    BY <1>3, <2>2
  <2> QED BY <2>3 DEF Contextos, Mensajes, EnLinea
<1> HIDE DEF n, M
<1>8. aCpu' \in [Cpus -> Seq(Mensajes)]
  <2> SUFFICES ASSUME NEW c \in Cpus
               PROVE  aCpu[c] \o [j \in DOMAIN EnOrden(P(c)) |-> M(EnOrden(P(c))[j])] \in Seq(Mensajes)
    BY <1>2
  <2>1. IsFiniteSet(1..n) /\ P(c) \in SUBSET (1..n)
    BY <1>5, CountTo
  <2>2. IsFiniteSet(P(c)) /\ P(c) \in SUBSET Nat
    BY <1>5, <2>1, FS_Subset
  <2>3. /\ EnOrden(P(c)) \in Seq(P(c)) /\ DOMAIN EnOrden(P(c)) = 1..Cardinality(P(c))
        /\ Cardinality(P(c)) \in Nat
    <3> HIDE DEF P
    <3> QED BY <2>2, Ordered
  <2>4. \A j \in 1..Cardinality(P(c)) : EnOrden(P(c))[j] \in 1..n
    BY <2>1, <2>3, LenProperties
  <2>5. [j \in DOMAIN EnOrden(P(c)) |-> M(EnOrden(P(c))[j])] \in [1..Cardinality(P(c)) -> Mensajes]
    BY <1>7, <2>3, <2>4
  <2>6. [j \in DOMAIN EnOrden(P(c)) |-> M(EnOrden(P(c))[j])] \in Seq(Mensajes)
    BY <2>3, <2>5, SeqDef, SMTT(30)
  <2>7. aCpu[c] \in Seq(Mensajes)
    BY <1>4
  <2> HIDE DEF P
  <2> QED BY <2>6, <2>7, ConcatProperties
<1> HIDE DEF P
<1>9. ClientsType'
  <2>1. /\ SubSeq(cpu_conectadas, 1, n) \in Seq(Cpus)
        /\ SubSeq(cpu_conectadas, n + 1, Len(cpu_conectadas)) \in Seq(Cpus)
        /\ ToSet(cpu_conectadas) = ToSet(SubSeq(cpu_conectadas, 1, n))
                                   \cup ToSet(SubSeq(cpu_conectadas, n + 1, Len(cpu_conectadas)))
    BY <1>4, <1>5, Parts
  <2>2. /\ cpu_executing' \in Seq(Cpus)
        /\ ToSet(cpu_executing') = ToSet(cpu_executing) \cup ToSet(SubSeq(cpu_conectadas, 1, n))
    <3>1. PICK d \in Seq(Cpus) : d = SubSeq(cpu_conectadas, 1, n)
      BY <2>1
    <3>2. /\ cpu_executing \o d \in Seq(Cpus)
          /\ ToSet(cpu_executing \o d) = ToSet(cpu_executing) \cup ToSet(d)
      BY <1>4, Joined
    <3>3. cpu_executing' = cpu_executing \o d
      BY <1>2, <3>1
    <3> QED BY <3>1, <3>2, <3>3
  <2> QED BY <1>2, <1>4, <2>1, <2>2 DEF ClientsType
<1>10. ListsType'
  <2>1. pcb_ready' \in Seq(Dirs) /\ pcb_exec' \in Seq(Dirs)
    BY <1>2, <1>4, <1>5, Parts, Joined
  <2> QED BY <1>1, <1>3, <2>1 DEF ListsType
<1>11. CpusType'
  BY <1>1, <1>3, <1>6, <1>8 DEF CpusType
<1>12. PassType' /\ ResourcesType'
  BY <1>1, <1>3 DEF PassType, ResourcesType
<1> QED BY <1>1, <1>3, <1>6, <1>9, <1>10, <1>11, <1>12 DEF TypeInv

\* A request leaves the types as they were, when its own part does.
LEMMA RequestKeeps ==
  ASSUME TypeInv, NEW c \in Cpus, NEW op, Atiende(c, op), NEW a \in Dirs, SacaDeExec(c, a),
         pcb' \in [Dirs -> Contextos], pcb_ready' \in Seq(Dirs), pcb_block' \in Seq(Dirs),
         pcb_exit' \in Seq(Dichos), ResourcesType', aCpu' \in [Cpus -> Seq(Mensajes)]
  PROVE  TypeInv'
<1>1. /\ texto' = texto /\ cpu' = cpu /\ ClientsType' /\ PassType'
      /\ deCpu' \in [Cpus -> Seq(Pedidos)] /\ pcb_exec' \in Seq(Dirs) /\ reusadas' \subseteq Dirs
      /\ Contextos' = Contextos /\ Pedidos' = Pedidos /\ Mensajes' = Mensajes /\ Cpu1' = Cpu1
  BY RequestTypes
<1>2. texto \in Textos /\ cpu \in [Cpus -> Cpu1]
  BY DEF TypeInv, CpusType
<1>3. CpusType'
  BY <1>1, <1>2 DEF CpusType
<1>4. ListsType'
  BY <1>1 DEF ListsType
<1> QED BY <1>1, <1>2, <1>3, <1>4 DEF TypeInv

LEMMA ProgramEndTypes ==
  ASSUME TypeInv, NEW c \in Cpus, NEW a \in Dirs, ProgramEnd(c, a)
  PROVE  TypeInv'
<1>1. /\ Atiende(c, "end") /\ SacaDeExec(c, a) /\ aCpu' = aCpu /\ sem_ansisop' = sem_ansisop
      /\ solicitudes_sem' = solicitudes_sem /\ shared_values' = shared_values
  BY DEF ProgramEnd, recursos
<1>2. PICK p, listos, heap, bloques :
        /\ p = Heap(c, a)[a].pid /\ heap = Libera(Heap(c, a), pcb_ready, listos)
        /\ pcb' = Libera(heap, pcb_block, bloques)
        /\ pcb_ready' = Sin(pcb_ready, listos) /\ pcb_block' = Sin(pcb_block, bloques)
        /\ pcb_exit' = Append(IF p = NadieTiene THEN pcb_exit ELSE Without(pcb_exit, p), p)
  BY DEF ProgramEnd
<1>3. ListsType /\ ResourcesType /\ aCpu \in [Cpus -> Seq(Mensajes)]
  BY DEF TypeInv, CpusType
<1>4. Heap(c, a) \in [Dirs -> Contextos]
  BY <1>1, RequestTypes
<1>5. pcb' \in [Dirs -> Contextos]
  BY <1>2, <1>4, FreedHeap
<1>6. pcb_ready' \in Seq(Dirs) /\ pcb_block' \in Seq(Dirs)
  BY <1>2, <1>3, Left DEF ListsType
<1>7. pcb_exit' \in Seq(Dichos)
  <2>1. p \in Dichos
    BY <1>2, <1>4 DEF Contextos
  <2>2. pcb_exit \in Seq(Dichos)
    BY <1>3 DEF ListsType
  <2>3. Without(pcb_exit, p) \in Seq(Dichos)
    BY <2>2, Others
  <2> QED BY <1>2, <2>1, <2>2, <2>3, AppendProperties
<1>8. ResourcesType'
  BY <1>1, <1>3 DEF ResourcesType
<1> QED BY <1>1, <1>3, <1>5, <1>6, <1>7, <1>8, RequestKeeps

LEMMA SemWaitTypes ==
  ASSUME TypeInv, NEW c \in Cpus, NEW a \in Dirs, SemWait(c, a)
  PROVE  TypeInv'
<1> DEFINE s == Pedido(c).linea.en
<1>1. /\ Atiende(c, "wait") /\ SacaDeExec(c, a) /\ pcb' = Heap(c, a) /\ aCpu' = aCpu
      /\ pcb_exit' = pcb_exit /\ shared_values' = shared_values
      /\ sem_ansisop' = [sem_ansisop EXCEPT ![s] = @ - 1]
      /\ \/ pcb_ready' = Append(pcb_ready, a) /\ pcb_block' = pcb_block
            /\ solicitudes_sem' = solicitudes_sem
         \/ /\ pcb_ready' = pcb_ready /\ pcb_block' = Append(pcb_block, a)
            /\ solicitudes_sem' = [solicitudes_sem EXCEPT ![s] = Append(@, a)]
  BY DEF SemWait
<1>2. ListsType /\ ResourcesType /\ aCpu \in [Cpus -> Seq(Mensajes)]
  BY DEF TypeInv, CpusType
<1>3. s \in SemIds
  BY <1>1, Requests, LineKinds
<1> HIDE DEF s
<1>4. pcb_ready' \in Seq(Dirs) /\ pcb_block' \in Seq(Dirs) /\ pcb_exit' \in Seq(Dichos)
  <2>1. pcb_ready \in Seq(Dirs) /\ pcb_block \in Seq(Dirs) /\ pcb_exit \in Seq(Dichos)
    BY <1>2 DEF ListsType
  <2>2. Append(pcb_ready, a) \in Seq(Dirs) /\ Append(pcb_block, a) \in Seq(Dirs)
    BY <2>1, AppendProperties
  <2> QED BY <1>1, <2>1, <2>2
<1>5. ResourcesType'
  <2>1. Append(solicitudes_sem[s], a) \in Seq(Dirs)
    BY <1>2, <1>3, AppendProperties DEF ResourcesType
  <2>2. sem_ansisop' \in [SemIds -> Int]
    BY <1>1, <1>2, <1>3 DEF ResourcesType
  <2>3. solicitudes_sem' \in [SemIds -> Seq(Dirs)]
    BY <1>1, <1>2, <1>3, <2>1 DEF ResourcesType
  <2> QED BY <1>1, <1>2, <2>2, <2>3 DEF ResourcesType
<1>6. pcb' \in [Dirs -> Contextos]
  BY <1>1, RequestTypes
<1> QED BY <1>1, <1>2, <1>4, <1>5, <1>6, RequestKeeps

LEMMA SemSignalTypes ==
  ASSUME TypeInv, NEW c \in Cpus, NEW a \in Dirs, SemSignal(c, a)
  PROVE  TypeInv'
<1> DEFINE s == Pedido(c).linea.en
           espera == Append(solicitudes_sem[s], a)
<1>1. /\ Atiende(c, "signal") /\ SacaDeExec(c, a) /\ aCpu' = aCpu
      /\ pcb_exit' = pcb_exit /\ shared_values' = shared_values
      /\ sem_ansisop' = [sem_ansisop EXCEPT ![s] = @ + 1]
      /\ solicitudes_sem' = [solicitudes_sem EXCEPT ![s] = Tail(espera)]
      /\ pcb_ready' = Append(pcb_ready, Head(espera))
      /\ SacaDeBlock(Heap(c, a), Append(pcb_block, a), Head(espera))
  BY DEF SemSignal
<1>2. PICK is : /\ pcb_block' = Sin(Append(pcb_block, a), is)
                /\ pcb' = Libera(Heap(c, a), Append(pcb_block, a), is)
  BY <1>1 DEF SacaDeBlock
<1>3. ListsType /\ ResourcesType /\ aCpu \in [Cpus -> Seq(Mensajes)]
  BY DEF TypeInv, CpusType
<1>4. s \in SemIds
  BY <1>1, Requests, LineKinds
<1> HIDE DEF s
<1>5. /\ espera \in Seq(Dirs) /\ Head(espera) \in Dirs /\ Tail(espera) \in Seq(Dirs)
  <2>1. solicitudes_sem[s] \in Seq(Dirs)
    BY <1>3, <1>4 DEF ResourcesType
  <2>2. espera \in Seq(Dirs) /\ espera # <<>>
    BY <2>1, AppendProperties
  <2> HIDE DEF espera
  <2> QED BY <2>2, TailList
<1> HIDE DEF espera
<1>6. pcb_ready' \in Seq(Dirs) /\ pcb_block' \in Seq(Dirs) /\ pcb_exit' \in Seq(Dichos)
  <2>1. Append(pcb_block, a) \in Seq(Dirs)
    BY <1>3, AppendProperties DEF ListsType
  <2>2. pcb_block' \in Seq(Dirs)
    BY <1>2, <2>1, Left
  <2> QED BY <1>1, <1>3, <1>5, <2>2, AppendProperties DEF ListsType
<1>7. ResourcesType'
  <2>1. sem_ansisop' \in [SemIds -> Int]
    BY <1>1, <1>3, <1>4 DEF ResourcesType
  <2>2. solicitudes_sem' \in [SemIds -> Seq(Dirs)]
    BY <1>1, <1>3, <1>4, <1>5 DEF ResourcesType
  <2> QED BY <1>1, <1>3, <2>1, <2>2 DEF ResourcesType
<1>8. pcb' \in [Dirs -> Contextos]
  BY <1>1, <1>2, RequestTypes, FreedHeap
<1> QED BY <1>1, <1>3, <1>6, <1>7, <1>8, RequestKeeps

LEMMA SharedVarTypes ==
  ASSUME TypeInv, NEW c \in Cpus, NEW a \in Dirs, SharedVar(c, a)
  PROVE  TypeInv'
<1> DEFINE v == Pedido(c).linea.en
<1>1. /\ SacaDeExec(c, a) /\ pcb' = Heap(c, a) /\ pcb_ready' = pcb_ready /\ pcb_block' = pcb_block
      /\ pcb_exit' = pcb_exit /\ sem_ansisop' = sem_ansisop /\ solicitudes_sem' = solicitudes_sem
  BY DEF SharedVar
<1>2. ListsType /\ ResourcesType /\ aCpu \in [Cpus -> Seq(Mensajes)]
  BY DEF TypeInv, CpusType
<1>3. pcb_ready' \in Seq(Dirs) /\ pcb_block' \in Seq(Dirs) /\ pcb_exit' \in Seq(Dichos)
  BY <1>1, <1>2 DEF ListsType
<1>4. CASE /\ Atiende(c, "obtiene") /\ shared_values' = shared_values
           /\ aCpu' = [aCpu EXCEPT ![c] = Append(@, [op |-> "valor", de |-> shared_values[v]])]
  <2>1. v \in SharedVars
    BY <1>4, Requests, LineKinds
  <2> HIDE DEF v
  <2>2. [op |-> "valor", de |-> shared_values[v]] \in Mensajes
    BY <1>2, <2>1 DEF ResourcesType, Mensajes
  <2>3. PICK m \in Mensajes : m = [op |-> "valor", de |-> shared_values[v]]
    BY <2>2
  <2>4. Append(aCpu[c], m) \in Seq(Mensajes)
    BY <1>2, AppendProperties
  <2>5. aCpu' \in [Cpus -> Seq(Mensajes)]
    BY <1>2, <1>4, <2>3, <2>4
  <2>6. ResourcesType'
    BY <1>1, <1>2, <1>4 DEF ResourcesType
  <2> QED BY <1>1, <1>3, <1>4, <2>5, <2>6, RequestTypes, RequestKeeps
<1>5. CASE /\ Atiende(c, "asigna") /\ aCpu' = aCpu
           /\ shared_values' = [shared_values EXCEPT ![v] = Pedido(c).pid]
  <2>1. v \in SharedVars /\ Pedido(c).pid \in Dichos
    BY <1>5, Requests, LineKinds DEF Dichos
  <2> HIDE DEF v
  <2>2. ResourcesType'
    BY <1>1, <1>2, <1>5, <2>1 DEF ResourcesType
  <2> QED BY <1>1, <1>2, <1>3, <1>5, <2>2, RequestTypes, RequestKeeps
<1> QED BY <1>4, <1>5 DEF SharedVar

LEMMA TypesKept ==
  ASSUME TypeInv, [Next]_vars
  PROVE  TypeInv'
<1>1. CASE Next
  <2>1. CASE Kernel
    BY <2>1, SelectTypes, PlanTypes, ProgramEndTypes, SemWaitTypes, SemSignalTypes, SharedVarTypes
       DEF Kernel
  <2>2. CASE \E c \in Cpus : Cpu(c)
    BY <2>2, CpuTypes
  <2> QED BY <1>1, <2>1, <2>2 DEF Next
<1>2. CASE UNCHANGED vars
  <2>1. /\ texto' = texto /\ pcb' = pcb /\ pcb_ready' = pcb_ready /\ pcb_exec' = pcb_exec
        /\ pcb_block' = pcb_block /\ pcb_exit' = pcb_exit /\ sem_ansisop' = sem_ansisop
        /\ solicitudes_sem' = solicitudes_sem /\ shared_values' = shared_values
        /\ cpu_conectadas' = cpu_conectadas /\ cpu_executing' = cpu_executing
        /\ fase' = fase /\ pasada' = pasada /\ reusadas' = reusadas
        /\ cpu' = cpu /\ deCpu' = deCpu /\ aCpu' = aCpu
    BY <1>2 DEF vars, kernel, colas, recursos, clientes
  <2>2. /\ Contextos' = Contextos /\ Pedidos' = Pedidos /\ Mensajes' = Mensajes /\ Cpu1' = Cpu1
    BY <2>1 DEF Contextos, Pedidos, Mensajes, Cpu1, EnLinea
  <2> QED BY <2>1, <2>2 DEF TypeInv, ListsType, ResourcesType, ClientsType, PassType, CpusType
<1> QED BY <1>1, <1>2

\* Whatever the programs are, the Kernel's lists and the connections hold what
\* they should, and a CPU is at a line its program has (TypeOK of the runs).
THEOREM TypeCorrect == Spec => []TypeOK
<1>1. Init => TypeInv
  BY InitTypes
<1>2. TypeInv /\ [Next]_vars => TypeInv'
  BY TypesKept
<1>3. TypeInv => TypeOK
  BY TypesSay
<1> QED BY <1>1, <1>2, <1>3, PTL DEF Spec

----------------------------------------------------------------------------
(* The blocked PCBs and the queues.                                        *)

\* A step that leaves the heap, both lists of the blocked and the history alone.
LEMMA BlockedUntouched ==
  ASSUME BlockedAtTheirSemaphore, texto' = texto, pcb' = pcb, pcb_block' = pcb_block,
         solicitudes_sem' = solicitudes_sem, reusadas' = reusadas
  PROVE  BlockedAtTheirSemaphore'
BY DEF BlockedAtTheirSemaphore, Libre, Semaforo

\* The property with its definitions unfolded.
LEMMA BlockedMeans ==
  BlockedAtTheirSemaphore <=>
    \A a \in Dirs \ reusadas : pcb[a].pid # NadieTiene =>
      (a \in ToSet(pcb_block) <=> \E s \in SemIds : /\ a \in ToSet(solicitudes_sem[s])
                                                   /\ texto[pcb[a].pid][pcb[a].PC].en = s)
BY DEF BlockedAtTheirSemaphore, Libre, Semaforo

LEMMA BlockedMeansNext ==
  BlockedAtTheirSemaphore' <=>
    \A a \in Dirs \ reusadas' : pcb'[a].pid # NadieTiene =>
      (a \in ToSet(pcb_block') <=> \E s \in SemIds : /\ a \in ToSet(solicitudes_sem'[s])
                                                    /\ texto'[pcb'[a].pid][pcb'[a].PC].en = s)
BY DEF BlockedAtTheirSemaphore, Libre, Semaforo

\* A request that adds nobody to either: its own PCB is in no list, and the
\* others are where they were.
LEMMA BlockedApart ==
  ASSUME TypeInv, BlockedAtTheirSemaphore,
         NEW c \in Cpus, NEW op, Atiende(c, op), NEW a \in Dirs, SacaDeExec(c, a),
         solicitudes_sem' = solicitudes_sem,
         \A b \in Dirs : pcb'[b].pid # NadieTiene =>
           /\ pcb'[b] = Heap(c, a)[b]
           /\ b \in ToSet(pcb_block') <=> b \in ToSet(pcb_block)
  PROVE  BlockedAtTheirSemaphore'
<1> SUFFICES ASSUME NEW b \in Dirs \ reusadas', pcb'[b].pid # NadieTiene
             PROVE  b \in ToSet(pcb_block') <=>
                    (\E s \in SemIds : /\ b \in ToSet(solicitudes_sem[s])
                                       /\ texto[pcb'[b].pid][pcb'[b].PC].en = s)
  <2>1. texto' = texto
    BY RequestTypes
  <2> QED BY <2>1, BlockedMeansNext
<1>1. pcb'[b] = Heap(c, a)[b] /\ (b \in ToSet(pcb_block') <=> b \in ToSet(pcb_block))
  OBVIOUS
<1>2. /\ b \notin reusadas
      /\ b # a => pcb'[b] = pcb[b]
      /\ b = a => b \notin EnListas
  <2>1. Heap(c, a)[b].pid # NadieTiene
    BY <1>1
  <2>2. /\ b \notin reusadas
        /\ b # a => Heap(c, a)[b] = pcb[b]
        /\ b = a => b \notin EnListas
    BY ONLY TypeInv, c \in Cpus, Atiende(c, op), a \in Dirs, SacaDeExec(c, a),
            b \in Dirs \ reusadas', <2>1, Received
  <2> QED BY <1>1, <2>2
<1>3. CASE b = a
  <2>1. b \notin ToSet(pcb_block) /\ \A s \in SemIds : b \notin ToSet(solicitudes_sem[s])
    BY <1>2, <1>3 DEF EnListas
  <2> QED BY <1>1, <2>1
<1>4. CASE b # a
  <2>1. b \in ToSet(pcb_block) <=> (\E s \in SemIds : /\ b \in ToSet(solicitudes_sem[s])
                                                      /\ texto[pcb[b].pid][pcb[b].PC].en = s)
    BY <1>2, <1>4, BlockedMeans
  <2> QED BY <1>1, <1>2, <1>4, <2>1
<1> QED BY <1>3, <1>4

LEMMA ProgramEndBlocked ==
  ASSUME TypeInv, BlockedAtTheirSemaphore, NEW c \in Cpus, NEW a \in Dirs, ProgramEnd(c, a)
  PROVE  BlockedAtTheirSemaphore'
<1>1. /\ Atiende(c, "end") /\ SacaDeExec(c, a) /\ solicitudes_sem' = solicitudes_sem
  BY DEF ProgramEnd, recursos
<1>2. PICK listos, heap, bloques :
        /\ heap = Libera(Heap(c, a), pcb_ready, listos)
        /\ pcb' = Libera(heap, pcb_block, bloques) /\ pcb_block' = Sin(pcb_block, bloques)
  BY DEF ProgramEnd
<1>3. pcb_ready \in Seq(Dirs) /\ pcb_block \in Seq(Dirs)
  BY DEF TypeInv, ListsType
<1>4. ASSUME NEW b \in Dirs, pcb'[b].pid # NadieTiene
      PROVE  pcb'[b] = Heap(c, a)[b] /\ (b \in ToSet(pcb_block') <=> b \in ToSet(pcb_block))
  <2>1. Libera(heap, pcb_block, bloques)[b].pid # NadieTiene
    BY <1>2, <1>4
  <2>2. /\ Libera(heap, pcb_block, bloques)[b] = heap[b]
        /\ b \in ToSet(Sin(pcb_block, bloques)) <=> b \in ToSet(pcb_block)
    BY <1>3, <2>1, NotFreed
  <2>3. Libera(Heap(c, a), pcb_ready, listos)[b].pid # NadieTiene
    BY <1>2, <2>1, <2>2
  <2>4. Libera(Heap(c, a), pcb_ready, listos)[b] = Heap(c, a)[b]
    BY <2>3, KeptContext
  <2> QED BY <1>2, <2>2, <2>4
<1> QED BY <1>1, <1>4, BlockedApart

LEMMA SharedVarBlocked ==
  ASSUME TypeInv, BlockedAtTheirSemaphore, NEW c \in Cpus, NEW a \in Dirs, SharedVar(c, a)
  PROVE  BlockedAtTheirSemaphore'
<1>1. /\ SacaDeExec(c, a) /\ pcb' = Heap(c, a) /\ pcb_block' = pcb_block
      /\ solicitudes_sem' = solicitudes_sem
      /\ \E op \in {"obtiene", "asigna"} : Atiende(c, op)
  BY DEF SharedVar
<1> QED BY <1>1, BlockedApart

LEMMA SemWaitBlocked ==
  ASSUME TypeInv, BlockedAtTheirSemaphore, NEW c \in Cpus, NEW a \in Dirs, SemWait(c, a)
  PROVE  BlockedAtTheirSemaphore'
<1> DEFINE s == Pedido(c).linea.en
<1>1. /\ Atiende(c, "wait") /\ SacaDeExec(c, a) /\ pcb' = Heap(c, a)
      /\ \/ pcb_block' = pcb_block /\ solicitudes_sem' = solicitudes_sem
         \/ /\ pcb_block' = Append(pcb_block, a)
            /\ solicitudes_sem' = [solicitudes_sem EXCEPT ![s] = Append(@, a)]
  BY DEF SemWait
<1>2. CASE pcb_block' = pcb_block /\ solicitudes_sem' = solicitudes_sem
  BY <1>1, <1>2, BlockedApart
<1>3. CASE /\ pcb_block' = Append(pcb_block, a)
           /\ solicitudes_sem' = [solicitudes_sem EXCEPT ![s] = Append(@, a)]
  <2>1. s \in SemIds /\ texto[Pedido(c).pid][Pedido(c).PC].en = s
    BY <1>1, Requests, LineKinds
  <2> HIDE DEF s
  <2>2. /\ pcb_block \in Seq(Dirs) /\ solicitudes_sem \in [SemIds -> Seq(Dirs)]
    BY DEF TypeInv, ListsType, ResourcesType
  <2>3. ToSet(pcb_block') = ToSet(pcb_block) \cup {a}
    BY <1>3, <2>2, Elements
  <2>4. /\ ToSet(solicitudes_sem'[s]) = ToSet(solicitudes_sem[s]) \cup {a}
        /\ \A t \in SemIds \ {s} : solicitudes_sem'[t] = solicitudes_sem[t]
    <3>1. ToSet(Append(solicitudes_sem[s], a)) = ToSet(solicitudes_sem[s]) \cup {a}
      BY <2>1, <2>2, Elements
    <3> QED BY <1>3, <2>1, <2>2, <3>1
  <2>5. texto' = texto
    BY <1>1, RequestTypes
  <2> SUFFICES ASSUME NEW b \in Dirs \ reusadas', pcb'[b].pid # NadieTiene
               PROVE  b \in ToSet(pcb_block') <=>
                      (\E t \in SemIds : /\ b \in ToSet(solicitudes_sem'[t])
                                         /\ texto[pcb'[b].pid][pcb'[b].PC].en = t)
    BY <2>5, BlockedMeansNext
  <2>6. /\ b \notin reusadas
        /\ b # a => pcb'[b] = pcb[b]
        /\ b = a => pcb'[b] = [pid |-> Pedido(c).pid, PC |-> Pedido(c).PC]
    BY <1>1, Received
  <2>7. CASE b = a
    BY <2>1, <2>3, <2>4, <2>6, <2>7
  <2>8. CASE b # a
    <3>1. b \in ToSet(pcb_block) <=> (\E t \in SemIds : /\ b \in ToSet(solicitudes_sem[t])
                                                        /\ texto[pcb[b].pid][pcb[b].PC].en = t)
      BY <2>6, <2>8, BlockedMeans
    <3>2. \A t \in SemIds : b \in ToSet(solicitudes_sem'[t]) <=> b \in ToSet(solicitudes_sem[t])
      BY <2>4, <2>8
    <3> QED BY <2>3, <2>6, <2>8, <3>1, <3>2
  <2> QED BY <2>7, <2>8
<1> QED BY <1>1, <1>2, <1>3

\* The one that is awakened is the first of its queue, and it leaves pcb_block
\* by its id: at its own address, so that its PCB is freed too.
LEMMA SemSignalBlocked ==
  ASSUME TypeInv, BlockedAtTheirSemaphore, NEW c \in Cpus, NEW a \in Dirs, SemSignal(c, a)
  PROVE  BlockedAtTheirSemaphore'
<1> DEFINE s == Pedido(c).linea.en
           espera == Append(solicitudes_sem[s], a)
           bloque == Append(pcb_block, a)
           is == Hallados(Heap(c, a), bloque, Head(espera))
<1>1. /\ Atiende(c, "signal") /\ SacaDeExec(c, a)
      /\ solicitudes_sem' = [solicitudes_sem EXCEPT ![s] = Tail(espera)]
      /\ pcb_block' = Sin(bloque, is) /\ pcb' = Libera(Heap(c, a), bloque, is)
  BY DEF SemSignal, SacaDeBlock
<1>2. s \in SemIds /\ texto[Pedido(c).pid][Pedido(c).PC].en = s
  BY <1>1, Requests, LineKinds
<1>3. texto' = texto
  BY <1>1, RequestTypes
<1>4. /\ pcb_block \in Seq(Dirs) /\ solicitudes_sem \in [SemIds -> Seq(Dirs)]
  BY DEF TypeInv, ListsType, ResourcesType
<1> HIDE DEF s
<1>5. bloque \in Seq(Dirs) /\ ToSet(bloque) = ToSet(pcb_block) \cup {a}
  BY <1>4, Elements, AppendProperties
<1>6. /\ espera \in Seq(Dirs) /\ espera # <<>>
      /\ ToSet(espera) = ToSet(solicitudes_sem[s]) \cup {a}
  BY <1>2, <1>4, Elements, AppendProperties
<1>7. solicitudes_sem[s] # <<>> => a \in ToSet(Tail(espera))
  <2> SUFFICES ASSUME solicitudes_sem[s] # <<>> PROVE a \in ToSet(Tail(espera))
    OBVIOUS
  <2>1. /\ Len(solicitudes_sem[s]) \in Nat \ {0} /\ Len(espera) = Len(solicitudes_sem[s]) + 1
        /\ espera[Len(espera)] = a
    BY <1>2, <1>4, AppendProperties, LenProperties, EmptySeq
  <2> HIDE DEF espera
  <2>2. /\ Tail(espera) \in Seq(Dirs) /\ Len(Tail(espera)) = Len(espera) - 1
        /\ \A i \in 1..Len(Tail(espera)) : Tail(espera)[i] = espera[i + 1]
    BY <1>6, HeadTailProperties
  <2>3. DOMAIN Tail(espera) = 1..Len(Tail(espera))
    BY <2>2, LenProperties
  <2>4. /\ Len(solicitudes_sem[s]) \in DOMAIN Tail(espera)
        /\ Tail(espera)[Len(solicitudes_sem[s])] = a
    BY <2>1, <2>2, <2>3
  <2> QED BY <2>4 DEF ToSet
<1>8. solicitudes_sem[s] = <<>> => Head(espera) = a
  OBVIOUS
<1> HIDE DEF espera, bloque
<1>9. /\ ToSet(Tail(espera)) \subseteq ToSet(espera)
      /\ ToSet(espera) = {Head(espera)} \cup ToSet(Tail(espera))
  BY <1>6, Elements
<1>10. /\ solicitudes_sem'[s] = Tail(espera)
       /\ \A t \in SemIds \ {s} : solicitudes_sem'[t] = solicitudes_sem[t]
  BY <1>1, <1>2, <1>4
<1>11. Head(espera) \in ToSet(bloque) => pcb'[Head(espera)] = Liberado
  <2> SUFFICES ASSUME Head(espera) \in ToSet(bloque) PROVE pcb'[Head(espera)] = Liberado
    OBVIOUS
  <2>1. \E i \in is : bloque[i] = Head(espera)
    BY <1>5, Freed
  <2>2. Head(espera) \in Dirs
    BY <1>6, TailList
  <2> HIDE DEF is
  <2> QED BY <1>1, <2>1, <2>2 DEF Libera
<1> SUFFICES ASSUME NEW b \in Dirs \ reusadas', pcb'[b].pid # NadieTiene
             PROVE  b \in ToSet(pcb_block') <=>
                    (\E t \in SemIds : /\ b \in ToSet(solicitudes_sem'[t])
                                       /\ texto[pcb'[b].pid][pcb'[b].PC].en = t)
  BY <1>3, BlockedMeansNext
<1>12. b = Head(espera) => b \notin ToSet(bloque)
  BY <1>11 DEF Liberado
<1> HIDE DEF is
<1>13. pcb'[b] = Heap(c, a)[b] /\ (b \in ToSet(pcb_block') <=> b \in ToSet(bloque))
  <2>1. Libera(Heap(c, a), bloque, is)[b].pid # NadieTiene
    BY <1>1
  <2>2. /\ Libera(Heap(c, a), bloque, is)[b] = Heap(c, a)[b]
        /\ b \in ToSet(Sin(bloque, is)) <=> b \in ToSet(bloque)
    BY <1>5, <2>1, NotFreed
  <2> QED BY <1>1, <2>2
<1>14. /\ b \notin reusadas
       /\ b # a => pcb'[b] = pcb[b]
       /\ b = a => /\ pcb'[b] = [pid |-> Pedido(c).pid, PC |-> Pedido(c).PC]
                   /\ b \notin EnListas
  BY <1>1, <1>13, Received
<1>15. CASE b = a
  <2>1. b \in ToSet(pcb_block')
    BY <1>5, <1>13, <1>15
  <2>2. b \in ToSet(solicitudes_sem'[s])
    BY <1>5, <1>7, <1>8, <1>10, <1>12, <1>15
  <2>3. texto[pcb'[b].pid][pcb'[b].PC].en = s
    BY <1>2, <1>14, <1>15
  <2> QED BY <1>2, <2>1, <2>2, <2>3
<1>16. CASE b # a
  <2>1. b \in ToSet(pcb_block) <=> (\E t \in SemIds : /\ b \in ToSet(solicitudes_sem[t])
                                                      /\ texto[pcb[b].pid][pcb[b].PC].en = t)
    BY <1>14, <1>16, BlockedMeans
  <2>2. b \in ToSet(pcb_block') <=> b \in ToSet(pcb_block)
    BY <1>5, <1>13, <1>16
  <2>3. b \in ToSet(solicitudes_sem'[s]) => b \in ToSet(solicitudes_sem[s])
    BY <1>6, <1>9, <1>10, <1>16
  <2>4. b \in ToSet(pcb_block) /\ b \in ToSet(solicitudes_sem[s]) => b \in ToSet(solicitudes_sem'[s])
    BY <1>5, <1>6, <1>9, <1>10, <1>12, <1>16
  <2>5. \A t \in SemIds : t # s => solicitudes_sem'[t] = solicitudes_sem[t]
    BY <1>10
  <2>6. pcb'[b] = pcb[b]
    BY <1>14, <1>16
  <2> QED BY <1>2, <2>1, <2>2, <2>3, <2>4, <2>5, <2>6
<1> QED BY <1>15, <1>16

LEMMA InitBlocked == Init => BlockedAtTheirSemaphore
<1> SUFFICES ASSUME Init PROVE BlockedAtTheirSemaphore
  OBVIOUS
<1>1. pcb_block = <<>> /\ solicitudes_sem = [s \in SemIds |-> <<>>]
  BY DEF Init
<1>2. ToSet(<<>>) = {}
  BY DEF ToSet
<1> QED BY <1>1, <1>2, BlockedMeans

LEMMA BlockedKept ==
  ASSUME TypeInv, BlockedAtTheirSemaphore, [Next]_vars
  PROVE  BlockedAtTheirSemaphore'
<1>1. CASE Next
  <2>1. CASE \E c \in Cpus, a \in Dirs : \/ ProgramEnd(c, a) \/ SemWait(c, a)
                                         \/ SemSignal(c, a) \/ SharedVar(c, a)
    BY <2>1, ProgramEndBlocked, SemWaitBlocked, SemSignalBlocked, SharedVarBlocked
  <2>2. CASE Selecciona \/ Planifica \/ \E c \in Cpus : Cpu(c)
    <3>1. /\ texto' = texto /\ pcb' = pcb /\ pcb_block' = pcb_block
          /\ solicitudes_sem' = solicitudes_sem /\ reusadas' = reusadas
      BY <2>2 DEF Selecciona, Planifica, Cpu, RecibeDeKernel, PedirProximaInstruccion, PideYSigue,
                  ObtenerValorCompartida, RecibeValor, Finalizar, kernel, colas, recursos
    <3> QED BY <3>1, BlockedUntouched
  <2> QED BY <1>1, <2>1, <2>2 DEF Next, Kernel
<1>2. CASE UNCHANGED vars
  <2>1. /\ texto' = texto /\ pcb' = pcb /\ pcb_block' = pcb_block
        /\ solicitudes_sem' = solicitudes_sem /\ reusadas' = reusadas
    BY <1>2 DEF vars, kernel, colas, recursos
  <2> QED BY <2>1, BlockedUntouched
<1> QED BY <1>1, <1>2

\* pcb_block and the queues of the semaphores are written one after the other
\* and by different rules; they say the same of every PCB that was never at an
\* address a list still had (BlockedAtTheirSemaphore of the runs).
THEOREM BlockedWhereQueued == Spec => []BlockedAtTheirSemaphore
<1>1. Init => TypeInv /\ BlockedAtTheirSemaphore
  BY InitTypes, InitBlocked
<1>2. TypeInv /\ BlockedAtTheirSemaphore /\ [Next]_vars => TypeInv' /\ BlockedAtTheirSemaphore'
  BY TypesKept, BlockedKept
<1> QED BY <1>1, <1>2, PTL DEF Spec
=============================================================================
