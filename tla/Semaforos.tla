------------------------------ MODULE Semaforos ------------------------------
(***************************************************************************)
(* Semaphores and shared variables: the Kernel's gestion_syscall and the   *)
(* primitives of the CPUs that call it.  Programs have been admitted; how  *)
(* they come is in Planificador.tla, what else their lines do, and a line  *)
(* that goes back to an earlier one, in Ejecucion.tla.                     *)
(*                                                                         *)
(* The Kernel makes a PCB of every request and frees those it takes out of *)
(* a list, so its lists hold addresses.  An address that is in a list, or  *)
(* at a semaphore, after its PCB was freed reads as a PCB that is nobody's *)
(* (free writes over idProcess), until it is allocated again.              *)
(***************************************************************************)
EXTENDS Mlist, SequencesExt

CONSTANTS Pids, Cpus,
          Textos,        \* what the programs may be: their lines, by pid
          SemIds,        \* SEM_IDS
          SemInit,       \* SEM_INIT, by semaphore
          SharedVars,    \* SHARED_VARS
          Dirs           \* bound: the addresses of PCBs in use at a time

NadieTiene == 0    \* the pid of a PCB that was freed

ASSUME DirsAssumption == Dirs \subseteq Nat /\ Pids \subseteq Dirs /\ NadieTiene \notin Pids
ASSUME CpusAssumption == Cpus \subseteq Nat
ASSUME SemAssumption  == SemInit \in [SemIds -> Int]
ASSUME FiniteAssumption == IsFiniteSet(Pids) /\ IsFiniteSet(Cpus)

\* The lines of a program this module looks at.
Wait(s)    == [op |-> "wait", en |-> s]
Signal(s)  == [op |-> "signal", en |-> s]
Asigna(v)  == [op |-> "asigna", en |-> v]
Obtiene(v) == [op |-> "obtiene", en |-> v]
End        == [op |-> "end", en |-> "main"]

\* A program names what the configuration has, and its last line ends it.
Lineas == {Wait(s) : s \in SemIds} \cup {Signal(s) : s \in SemIds}
          \cup {Asigna(v) : v \in SharedVars} \cup {Obtiene(v) : v \in SharedVars} \cup {End}

ASSUME TextosAssumption ==
  \A t \in Textos : \A p \in Pids :
    t[p] \in Seq(Lineas) /\ t[p] # <<>> /\ t[p][Len(t[p])] = End

VARIABLES texto,               \* of each program
          pcb,                 \* by address: pid and PC
          pcb_ready, pcb_exec, pcb_block,   \* addresses
          pcb_exit,            \* pids: its PCBs are in no other list
          sem_ansisop, solicitudes_sem,
          shared_values,       \* of each variable, the program that assigned it last
          cpu_conectadas, cpu_executing,
          fase, pasada,        \* the main thread's pass, the CPUs it has to serve
          cpu,                 \* of each CPU: where it is, pid and PC
          deCpu, aCpu,         \* the connection of each CPU
          reusadas             \* history: addresses allocated while a list had them

colas    == <<pcb, pcb_ready, pcb_exec, pcb_block, pcb_exit>>
recursos == <<sem_ansisop, solicitudes_sem, shared_values>>
clientes == <<cpu_conectadas, cpu_executing, fase, pasada>>
kernel   == <<colas, recursos, clientes, reusadas>>
vars     == <<texto, kernel, cpu, deCpu, aCpu>>

Liberado == [pid |-> NadieTiene, PC |-> 1]
Libre(a) == pcb[a].pid = NadieTiene
Parada   == [en |-> "libre", pid |-> NadieTiene, PC |-> 1]

\* The elements of a finite set of numbers, in their order.
EnOrden(S) == [k \in 1..Cardinality(S) |-> CHOOSE n \in S : Cardinality({m \in S : m <= n}) = k]

\* get_config, and programs that planificacion admits in their order.
Init ==
  /\ texto \in Textos
  /\ pcb = [a \in Dirs |-> IF a \in Pids THEN [pid |-> a, PC |-> 1] ELSE Liberado]
  /\ pcb_ready = EnOrden(Pids)
  /\ pcb_exec = <<>> /\ pcb_block = <<>> /\ pcb_exit = <<>>
  /\ sem_ansisop = SemInit /\ solicitudes_sem = [s \in SemIds |-> <<>>]
  /\ shared_values = [v \in SharedVars |-> NadieTiene]
  /\ cpu_conectadas = EnOrden(Cpus) /\ cpu_executing = <<>>
  /\ fase = "planifica" /\ pasada = {}
  /\ cpu = [c \in Cpus |-> Parada]
  /\ deCpu = [c \in Cpus |-> <<>>] /\ aCpu = [c \in Cpus |-> <<>>]
  /\ reusadas = {}

----------------------------------------------------------------------------
(* The CPUs.                                                               *)

Linea(c) == texto[cpu[c].pid][cpu[c].PC]

Sigue(c) == cpu' = [cpu EXCEPT ![c].en = "bucle", ![c].PC = @ + 1]

\* recibirMensajesDeKernel.  A value nobody waits for is reported and dropped.
RecibeDeKernel(c) ==
  /\ cpu[c].en = "libre" /\ aCpu[c] # <<>>
  /\ LET m == Head(aCpu[c])
     IN  cpu' = [cpu EXCEPT ![c] =
                   IF m.op = "valor" THEN @
                   ELSE [en |-> "bucle", pid |-> m.pid, PC |-> m.PC]]
  /\ aCpu' = [aCpu EXCEPT ![c] = Tail(@)]
  /\ UNCHANGED <<texto, kernel, deCpu>>

\* pedirProximaInstruccionAMemoria.  For a program that has ended, as for one
\* that is nobody's, Memoria gives what is in its frame 0, and it is no line.
PedirProximaInstruccion(c) ==
  /\ cpu[c].en = "bucle"
  /\ cpu' = [cpu EXCEPT ![c].en = IF cpu[c].pid \in Pids \ ToSet(pcb_exit)
                                  THEN "linea" ELSE "perdida"]
  /\ UNCHANGED <<texto, kernel, deCpu, aCpu>>

\* The PCB, as it is at this line, and what is asked of the Kernel.
Pide(c) == deCpu' = [deCpu EXCEPT ![c] = Append(@, [pid |-> cpu[c].pid, PC |-> cpu[c].PC,
                                                    linea |-> Linea(c)])]

\* wait, signalAnsisop and asignarValorCompartida do not wait for anything.
PideYSigue(c) ==
  /\ cpu[c].en = "linea" /\ Linea(c).op \in {"wait", "signal", "asigna"}
  /\ Pide(c) /\ Sigue(c)
  /\ UNCHANGED <<texto, kernel, aCpu>>

ObtenerValorCompartida(c) ==
  /\ cpu[c].en = "linea" /\ Linea(c).op = "obtiene"
  /\ Pide(c) /\ cpu' = [cpu EXCEPT ![c].en = "valor"]
  /\ UNCHANGED <<texto, kernel, aCpu>>

\* Whatever the Kernel has sent is taken for the value.
RecibeValor(c) ==
  /\ cpu[c].en = "valor" /\ aCpu[c] # <<>>
  /\ aCpu' = [aCpu EXCEPT ![c] = Tail(@)]
  /\ Sigue(c)
  /\ UNCHANGED <<texto, kernel, deCpu>>

FinalizarMutant(c) ==
  /\ cpu[c].en = "linea" /\ Linea(c).op = "end"
  /\ Pide(c) /\ Sigue(c)
  /\ UNCHANGED <<texto, kernel, aCpu>>

Finalizar(c) ==
  /\ cpu[c].en = "linea" /\ Linea(c).op = "end"
  /\ Pide(c) /\ cpu' = [cpu EXCEPT ![c] = Parada]
  /\ UNCHANGED <<texto, kernel, aCpu>>

----------------------------------------------------------------------------
(* The heap of PCBs and the lists of addresses.                            *)

EnListas == UNION ({ToSet(pcb_ready), ToSet(pcb_exec), ToSet(pcb_block)}
                   \cup {ToSet(solicitudes_sem[s]) : s \in SemIds})

\* An address some list still has though it was freed, or one no list has.
Alloc == {a \in EnListas : Libre(a)} \cup
         {a \in Dirs \ EnListas : \A b \in Dirs \ EnListas : a <= b}

\* pcb_equals: what freed PCBs read as differs from one to the other.
PcbEquals(h, a, b) == a = b \/ (h[a].pid = h[b].pid /\ h[a].pid # NadieTiene)

\* The elements mlist_remove takes out when the condition is pcb_equals with
\* the PCB at x and the destroyer is free: once x itself has gone, no other
\* PCB is equal to it, and what was just freed is not found again.
PrimeraVez(lista, i) == \A j \in 1..(i - 1) : lista[j] # lista[i]
Hallados(h, lista, x) == {i \in DOMAIN lista : /\ PcbEquals(h, lista[i], x)
                                               /\ \A j \in 1..(i - 1) : lista[j] # x
                                               /\ PrimeraVez(lista, i)}

Sin(lista, is) == LET quedan == EnOrden(DOMAIN lista \ is)
                  IN  [k \in DOMAIN quedan |-> lista[quedan[k]]]

Libera(h, lista, is) == [a \in Dirs |-> IF \E i \in is : lista[i] = a THEN Liberado ELSE h[a]]

----------------------------------------------------------------------------
(* The Kernel.                                                             *)

\* select, and the clients it found in the order of their descriptors.
Selecciona ==
  /\ fase = "select" /\ \E c \in Cpus : deCpu[c] # <<>>
  /\ pasada' = {c \in Cpus : deCpu[c] # <<>>} /\ fase' = "sirve"
  /\ UNCHANGED <<texto, colas, recursos, cpu_conectadas, cpu_executing, cpu, deCpu, aCpu, reusadas>>

RestoreCPU(c) == /\ cpu_executing' = Without(cpu_executing, c)
                 /\ cpu_conectadas' = Append(cpu_conectadas, c)

Pedido(c) == Head(deCpu[c])

Atiende(c, op) ==
  /\ fase = "sirve" /\ c \in pasada /\ \A d \in pasada : c <= d
  /\ Pedido(c).linea.op = op
  /\ pasada' = pasada \ {c} /\ fase' = IF pasada = {c} THEN "planifica" ELSE "sirve"
  /\ deCpu' = [deCpu EXCEPT ![c] = Tail(@)]
  /\ RestoreCPU(c)
  /\ UNCHANGED <<texto, cpu>>

\* The PCB of the request is unpacked to a; those in pcb_exec with its id are
\* removed and freed.
Recibido(c, a)   == [pcb EXCEPT ![a] = [pid |-> Pedido(c).pid, PC |-> Pedido(c).PC]]
EnEjecucion(c, a) == Hallados(Recibido(c, a), pcb_exec, a)
Heap(c, a)       == Libera(Recibido(c, a), pcb_exec, EnEjecucion(c, a))

SacaDeExec(c, a) ==
  /\ a \in Alloc
  /\ pcb_exec' = Sin(pcb_exec, EnEjecucion(c, a))
  /\ reusadas' = IF a \in EnListas THEN reusadas \cup {a} ELSE reusadas

\* end_program with a duplicate of a: pcb_remove goes through all the lists.
ProgramEnd(c, a) ==
  /\ Atiende(c, "end") /\ SacaDeExec(c, a)
  /\ LET p == Heap(c, a)[a].pid
         De(h, lista) == {i \in DOMAIN lista : /\ h[lista[i]].pid = p /\ p # NadieTiene
                                               /\ PrimeraVez(lista, i)}
         listos  == De(Heap(c, a), pcb_ready)
         heap    == Libera(Heap(c, a), pcb_ready, listos)
         bloques == De(heap, pcb_block)
     IN  /\ pcb' = Libera(heap, pcb_block, bloques)
         /\ pcb_ready' = Sin(pcb_ready, listos)
         /\ pcb_block' = Sin(pcb_block, bloques)
         /\ pcb_exit' = Append(IF p = NadieTiene THEN pcb_exit ELSE Without(pcb_exit, p), p)
  /\ UNCHANGED <<recursos, aCpu>>

\* 'w'.  The semaphore that stays above zero lets the program go on.
SemWait(c, a) ==
  /\ Atiende(c, "wait") /\ SacaDeExec(c, a)
  /\ pcb' = Heap(c, a)
  /\ LET s == Pedido(c).linea.en
     IN  /\ sem_ansisop' = [sem_ansisop EXCEPT ![s] = @ - 1]
         /\ IF sem_ansisop[s] - 1 > 0
            THEN pcb_ready' = Append(pcb_ready, a) /\ UNCHANGED <<pcb_block, solicitudes_sem>>
            ELSE /\ pcb_block' = Append(pcb_block, a)
                 /\ solicitudes_sem' = [solicitudes_sem EXCEPT ![s] = Append(@, a)]
                 /\ UNCHANGED pcb_ready
  /\ UNCHANGED <<pcb_exit, shared_values, aCpu>>

SacaDeBlockMutant(h, lista, x) == pcb_block' = lista /\ pcb' = h

\* mlist_remove(pcb_block, getPcb, free), with the awakened PCB at x.
SacaDeBlock(h, lista, x) ==
  LET is == Hallados(h, lista, x) IN pcb_block' = Sin(lista, is) /\ pcb' = Libera(h, lista, is)

\* 's'.  The caller joins the queue, and the first of it is ready.
SemSignal(c, a) ==
  /\ Atiende(c, "signal") /\ SacaDeExec(c, a)
  /\ LET s == Pedido(c).linea.en
         espera == Append(solicitudes_sem[s], a)
     IN  /\ sem_ansisop' = [sem_ansisop EXCEPT ![s] = @ + 1]
         /\ solicitudes_sem' = [solicitudes_sem EXCEPT ![s] = Tail(espera)]
         /\ pcb_ready' = Append(pcb_ready, Head(espera))
         /\ SacaDeBlock(Heap(c, a), Append(pcb_block, a), Head(espera))
  /\ UNCHANGED <<pcb_exit, shared_values, aCpu>>

\* OP_CPU_SHARED_VAR: the PCB of the request is put in no list.
SharedVar(c, a) ==
  /\ \/ /\ Atiende(c, "obtiene")
        /\ aCpu' = [aCpu EXCEPT ![c] =
                      Append(@, [op |-> "valor", de |-> shared_values[Pedido(c).linea.en]])]
        /\ UNCHANGED shared_values
     \/ /\ Atiende(c, "asigna")
        /\ shared_values' = [shared_values EXCEPT ![Pedido(c).linea.en] = Pedido(c).pid]
        /\ UNCHANGED aCpu
  /\ SacaDeExec(c, a) /\ pcb' = Heap(c, a)
  /\ UNCHANGED <<pcb_ready, pcb_block, pcb_exit, sem_ansisop, solicitudes_sem>>

\* The second half of planificacion: as many PCBs as there are CPUs.
Planifica ==
  /\ fase = "planifica" /\ fase' = "select" /\ UNCHANGED pasada
  /\ LET n == IF Len(pcb_ready) < Len(cpu_conectadas) THEN Len(pcb_ready) ELSE Len(cpu_conectadas)
         Para(c) == EnOrden({k \in 1..n : cpu_conectadas[k] = c})
         Mensaje(k) == [op |-> "pcb", pid |-> pcb[pcb_ready[k]].pid, PC |-> pcb[pcb_ready[k]].PC]
     IN  /\ pcb_exec' = pcb_exec \o SubSeq(pcb_ready, 1, n)
         /\ pcb_ready' = SubSeq(pcb_ready, n + 1, Len(pcb_ready))
         /\ cpu_executing' = cpu_executing \o SubSeq(cpu_conectadas, 1, n)
         /\ cpu_conectadas' = SubSeq(cpu_conectadas, n + 1, Len(cpu_conectadas))
         /\ aCpu' = [c \in Cpus |-> aCpu[c] \o [j \in DOMAIN Para(c) |-> Mensaje(Para(c)[j])]]
  /\ UNCHANGED <<texto, pcb, pcb_block, pcb_exit, recursos, cpu, deCpu, reusadas>>

----------------------------------------------------------------------------

Cpu(c)   == \/ RecibeDeKernel(c) \/ PedirProximaInstruccion(c) \/ PideYSigue(c)
            \/ ObtenerValorCompartida(c) \/ RecibeValor(c) \/ Finalizar(c)
Kernel   == \/ Selecciona \/ Planifica
            \/ \E c \in Cpus, a \in Dirs : \/ ProgramEnd(c, a) \/ SemWait(c, a)
                                           \/ SemSignal(c, a) \/ SharedVar(c, a)
Next     == Kernel \/ \E c \in Cpus : Cpu(c)
Spec     == Init /\ [][Next]_vars

----------------------------------------------------------------------------

Semaforo(a) == texto[pcb[a].pid][pcb[a].PC].en

\* Addresses are in the heap, connections hold what their ends send, and a CPU
\* that runs is at a line of its program or behind its first one.
TypeOK ==
  /\ pcb \in [Dirs -> [pid : Pids \cup {NadieTiene}, PC : Nat \ {0}]]
  /\ EnListas \subseteq Dirs /\ ToSet(pcb_exit) \subseteq Pids \cup {NadieTiene}
  /\ sem_ansisop \in [SemIds -> Int] /\ shared_values \in [SharedVars -> Pids \cup {NadieTiene}]
  /\ ToSet(cpu_conectadas) \cup ToSet(cpu_executing) = Cpus
  /\ fase \in {"planifica", "select", "sirve"} /\ pasada \subseteq Cpus
  /\ (fase = "sirve") = (pasada # {}) /\ \A c \in pasada : deCpu[c] # <<>>
  /\ \A c \in Cpus :
       /\ cpu[c].en \in {"libre", "bucle", "linea", "valor", "perdida"}
       /\ cpu[c].en \in {"linea", "valor"} => cpu[c].PC \in DOMAIN texto[cpu[c].pid]
       /\ \A r \in ToSet(deCpu[c]) : r.linea = texto[r.pid][r.PC]
       /\ \A m \in ToSet(aCpu[c]) : m.op \in {"pcb", "valor"}
  /\ reusadas \subseteq Dirs

\* pcb_block and solicitudes_sem say the same: a PCB is blocked if and only if
\* it is queued at the semaphore its line names.  The queue and the list are
\* written one after the other for a wait and a signal, and taken from by
\* different rules: a position for the queue, an id for the list (lines 33 and
\* 40-46 of syscall.c).  Said of the PCBs still allocated, at an address that
\* no list had when it was given out.
BlockedAtTheirSemaphore ==
  \A a \in Dirs \ reusadas : ~Libre(a) =>
    (a \in ToSet(pcb_block) <=> \E s \in SemIds : /\ a \in ToSet(solicitudes_sem[s])
                                                 /\ Semaforo(a) = s)
=============================================================================
