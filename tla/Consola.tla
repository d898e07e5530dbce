------------------------------- MODULE Consola -------------------------------
(***************************************************************************)
(* A console: its terminal, the receiver of what the Kernel sends, and a   *)
(* handler for each program it runs, which share the list of programs.     *)
(* The list locks its mutex to relink its nodes, but not to walk over      *)
(* them, and a program is freed by whoever takes it out.                   *)
(*                                                                         *)
(* The k-th run makes program k, node k and the thread k that handles it.  *)
(* What was freed may hold anything: to use it, or a NULL, ends the model  *)
(* with vida = "rota".                                                     *)
(***************************************************************************)
EXTENDS ListaEnlazada, FiniteSets, Functions

CONSTANTS MaxPrograms,   \* MAX_PROGRAMS
          Apurado        \* the operator may run a program while the one before
                         \* has no pid yet

ASSUME RunsAssumption == IsFiniteSet(Nodos) /\ Nodos = 1..Cardinality(Nodos)
ASSUME MaxProgramsAssumption == MaxPrograms \in Nat /\ Apurado \in BOOLEAN

Corridas == Nodos
Terminal == -1
Receptor == -2
Hilos    == Corridas \cup {Terminal, Receptor}
Nadie    == 0

VARIABLES programs, vivos,     \* console.programs, and its nodes in use
          mutex,               \* of the list: the thread in mlist_clear
          estado, pid, sem,    \* of each program; estado "libre" if not allocated
          active,              \* console.active
          vida,                \* of the process: "sigue", "rota", "terminada"
          corridas,            \* runs typed so far
          pc,                  \* where each thread is
          programa, nodo, sig, \* its locals: program, node and next
          busca,               \* the pid it looks up
          alKernel, deKernel,  \* the connection
          dueno, terminados    \* the Kernel's: the run of each pid, and the pids
                               \* that are over

locales  == <<programa, nodo, sig, busca>>
lista    == <<programs, vivos, mutex>>
datos    == <<estado, pid, sem>>
proceso  == <<active, vida, corridas>>
conexion == <<alKernel, deKernel, dueno, terminados>>
vars     == <<pc, locales, lista, datos, proceso, conexion>>

Init ==
  /\ programs = MlistCreate /\ vivos = {} /\ mutex = Nadie
  /\ estado = [k \in Corridas |-> "libre"] /\ pid = [k \in Corridas |-> -1]
  /\ sem = [k \in Corridas |-> 0]
  /\ active = TRUE /\ vida = "sigue" /\ corridas = 0
  /\ pc = [t \in Hilos |-> CASE t = Terminal -> "listo" [] t = Receptor -> "bucle"
                             [] OTHER -> "no"]
  /\ programa = [t \in Hilos |-> Null] /\ nodo = [t \in Hilos |-> Null]
  /\ sig = [t \in Hilos |-> Null] /\ busca = [t \in Hilos |-> 0]
  /\ alKernel = <<>> /\ deKernel = <<>>
  /\ dueno = <<>> /\ terminados = {}

En(t, donde) == vida = "sigue" /\ pc[t] = donde
Va(t, donde) == pc' = [pc EXCEPT ![t] = donde]

\* A step that changes nothing but where the thread is.
Pasa(t, donde) == Va(t, donde) /\ UNCHANGED <<locales, lista, datos, proceso, conexion>>

\* The end of a call: its locals are gone.  A handler keeps its program.
Vuelve(t, donde) ==
  /\ Va(t, donde)
  /\ nodo' = [nodo EXCEPT ![t] = Null] /\ sig' = [sig EXCEPT ![t] = Null]
  /\ busca' = [busca EXCEPT ![t] = 0]
  /\ programa' = IF t \in Corridas THEN programa ELSE [programa EXCEPT ![t] = Null]

\* The process ends, and its threads with it.
Muere(como) ==
  /\ vida' = como
  /\ pc' = [t \in Hilos |-> "fin"]
  /\ nodo' = [t \in Hilos |-> Null] /\ sig' = [t \in Hilos |-> Null]
  /\ busca' = [t \in Hilos |-> 0] /\ programa' = [t \in Hilos |-> Null]
  /\ UNCHANGED <<lista, datos, active, corridas, conexion>>

\* Paso uses program k, or node n.
UsaPrograma(k, Paso) == IF k = Null \/ estado[k] = "libre" THEN Muere("rota") ELSE Paso
UsaNodo(n, Paso)     == IF n \notin vivos THEN Muere("rota") ELSE Paso

----------------------------------------------------------------------------
(* The terminal: start_console.                                            *)

\* start_program_thread has the thread before the rest of the program.
RunTyped ==
  /\ En(Terminal, "listo")
  /\ corridas < Cardinality(Corridas)
  /\ programs.length < MaxPrograms
  /\ ~Apurado => \A k \in 1..corridas : pid[k] # -1 \/ estado[k] = "libre"
  /\ corridas' = corridas + 1
  /\ pc' = [pc EXCEPT ![Terminal] = "crea", ![corridas + 1] = "nace"]
  /\ UNCHANGED <<locales, lista, datos, active, vida, conexion>>

\* The program is ready; mlist_append reads the tail with no lock.
AppendReads ==
  /\ En(Terminal, "crea")
  /\ estado' = [estado EXCEPT ![corridas] = "activo"]
  /\ nodo' = [nodo EXCEPT ![Terminal] = programs.tail]
  /\ Va(Terminal, "agrega")
  /\ UNCHANGED <<programa, sig, busca, lista, pid, sem, proceso, conexion>>

AgregaNodo ==
  /\ programs' = InsertAfter(programs, nodo[Terminal], corridas)
  /\ vivos' = vivos \cup {corridas}
  /\ Vuelve(Terminal, "listo")
  /\ UNCHANGED <<mutex, datos, proceso, conexion>>

AppendLocks ==
  /\ En(Terminal, "agrega") /\ mutex = Nadie
  /\ IF MlistEmpty(programs) THEN AgregaNodo ELSE UsaNodo(nodo[Terminal], AgregaNodo)

\* kill_program looks the pid up.  list_programs walks over the same nodes and
\* reads the same field: a kill of 0, or of a pid nobody has.
KillTyped(p) ==
  /\ En(Terminal, "listo")
  /\ busca' = [busca EXCEPT ![Terminal] = p]
  /\ nodo' = [nodo EXCEPT ![Terminal] = programs.head]
  /\ Va(Terminal, "busca")
  /\ UNCHANGED <<programa, sig, lista, datos, proceso, conexion>>

LogoutTyped == En(Terminal, "listo") /\ Pasa(Terminal, "sale")

----------------------------------------------------------------------------
(* Walking over the list.                                                  *)

\* mlist_find, for kill_program and get_program.  The receiver uses what it
\* found without a look; the terminal says so if it found nothing.
MiraNodo(t) ==
  LET n == nodo[t]
  IN  /\ IF pid[n] = busca[t]
         THEN /\ programa' = [programa EXCEPT ![t] = n] /\ UNCHANGED nodo
              /\ Va(t, IF t = Receptor THEN "marca" ELSE "quita")
         ELSE nodo' = [nodo EXCEPT ![t] = programs.next[n]] /\ UNCHANGED <<programa, pc>>
      /\ UNCHANGED <<sig, busca, lista, datos, proceso, conexion>>

Busca(t) ==
  /\ En(t, "busca")
  /\ IF nodo[t] # Null THEN UsaNodo(nodo[t], UsaPrograma(nodo[t], MiraNodo(t)))
     ELSE IF t = Receptor THEN Muere("rota")
     ELSE Vuelve(t, "listo") /\ UNCHANGED <<lista, datos, proceso, conexion>>

\* remove_program: mlist_remove of the node that has the program.
Quita(t) ==
  /\ nodo' = [nodo EXCEPT ![t] = programs.head]
  /\ Va(t, "recorre")
  /\ UNCHANGED <<programa, sig, busca, lista, datos, proceso, conexion>>

KillFinds == En(Terminal, "quita") /\ Quita(Terminal)

\* traverse_nodes.  mlist_clear, which has the mutex, takes every node.
Visita(t) ==
  LET n == nodo[t]
      toca == mutex = t \/ n = programa[t]
  IN  /\ sig' = [sig EXCEPT ![t] = programs.next[n]]
      /\ programa' = [programa EXCEPT ![t] = IF mutex = t THEN n ELSE @]
      /\ IF toca THEN Va(t, "avisa") /\ UNCHANGED nodo
                 ELSE nodo' = [nodo EXCEPT ![t] = programs.next[n]] /\ UNCHANGED pc
      /\ UNCHANGED <<busca, lista, datos, proceso, conexion>>

\* After mlist_clear terminate has only to close the connection and to exit.
Recorre(t) ==
  /\ En(t, "recorre")
  /\ IF nodo[t] # Null THEN UsaNodo(nodo[t], Visita(t))
     ELSE IF mutex = t THEN Muere("terminada")
     ELSE /\ Vuelve(t, IF t = Terminal THEN "listo" ELSE "fin")
          /\ UNCHANGED <<lista, datos, proceso, conexion>>

----------------------------------------------------------------------------
(* destroy_program.                                                        *)

\* The Kernel does not read what notify_kernel sends.  The handler is woken;
\* the signal of thread_kill does nothing more, unless it makes a sem_wait on
\* the semaphore of another program fail, which ends the process.
Avisa(t) ==
  /\ En(t, "avisa")
  /\ LET k == programa[t]
         falla == pc[k] = "espera" /\ programa[k] # k /\ sem[programa[k]] = 0
     IN  UsaPrograma(k,
           IF falla THEN Muere("rota")
           ELSE /\ estado' = [estado EXCEPT ![k] = "muerto"]
                /\ sem' = [sem EXCEPT ![k] = @ + 1]
                /\ Va(t, "une")
                /\ UNCHANGED <<locales, lista, pid, proceso, conexion>>)

\* pthread_join, which does not wait for the thread that calls it; then the
\* semaphore and the program go.
UneMutant(t) ==
  /\ En(t, "une")
  /\ UsaPrograma(programa[t],
       /\ estado' = [estado EXCEPT ![programa[t]] = "libre"]
       /\ Va(t, IF mutex = t THEN "libera" ELSE "desata")
       /\ UNCHANGED <<locales, lista, pid, sem, proceso, conexion>>)

Une(t) ==
  /\ En(t, "une")
  /\ programa[t] = t \/ pc[programa[t]] = "fin"
  /\ UsaPrograma(programa[t],
       /\ estado' = [estado EXCEPT ![programa[t]] = "libre"]
       /\ Va(t, IF mutex = t THEN "libera" ELSE "desata")
       /\ UNCHANGED <<locales, lista, pid, sem, proceso, conexion>>)

SinNodo(t, relinked) ==
  /\ programs' = relinked
  /\ vivos' = vivos \ {nodo[t]}
  /\ nodo' = [nodo EXCEPT ![t] = sig[t]]
  /\ Va(t, "recorre")
  /\ UNCHANGED <<programa, sig, busca, mutex, datos, proceso, conexion>>

\* remove_node, and traverse_nodes goes on.
Desata(t) ==
  /\ En(t, "desata") /\ mutex = Nadie
  /\ UsaNodo(nodo[t], SinNodo(t, RemoveNode(programs, nodo[t])))

\* mlist_clear frees its nodes as they are.
Libera(t) == En(t, "libera") /\ UsaNodo(nodo[t], SinNodo(t, programs))

----------------------------------------------------------------------------
(* terminate, by the terminal after logout or by the receiver.             *)

Sale(t) ==
  /\ En(t, "sale")
  /\ IF active THEN Pasa(t, "apaga")
     ELSE IF t = Terminal THEN Muere("terminada") ELSE Pasa(t, "fin")

\* The receiver gets the signal of thread_kill.  If it is in recv with nothing
\* to receive, recv fails, which reads as OP_UNDEFINED; else nothing happens.
Apaga(t) ==
  /\ En(t, "apaga")
  /\ active' = FALSE
  /\ IF t = Terminal /\ pc[Receptor] = "recibe" /\ deKernel = <<>>
     THEN pc' = [pc EXCEPT ![t] = "junta", ![Receptor] = "sale"]
     ELSE Va(t, "junta")
  /\ UNCHANGED <<locales, lista, datos, vida, corridas, conexion>>

\* The receiver is over, or is the one that waits; mlist_clear takes the lock.
Junta(t) ==
  /\ En(t, "junta") /\ mutex = Nadie
  /\ t = Receptor \/ pc[Receptor] = "fin"
  /\ mutex' = t
  /\ nodo' = [nodo EXCEPT ![t] = programs.head]
  /\ Va(t, "recorre")
  /\ UNCHANGED <<programa, sig, busca, programs, vivos, datos, proceso, conexion>>

----------------------------------------------------------------------------
(* message_receiver.                                                       *)

MiraActive == En(Receptor, "bucle") /\ Pasa(Receptor, IF active THEN "llama" ELSE "fin")

Llama == En(Receptor, "llama") /\ Pasa(Receptor, "recibe")

Llega(op) == En(Receptor, "recibe") /\ deKernel # <<>> /\ Head(deKernel).op = op

\* OP_KE_SEND_PID: for the last program of the list.
RecibePidMutant ==
  /\ Llega("pid")
  /\ UsaPrograma(programs.head,
       /\ pid' = [pid EXCEPT ![programs.head] = Head(deKernel).pid]
       /\ deKernel' = Tail(deKernel)
       /\ Va(Receptor, "bucle")
       /\ UNCHANGED <<locales, lista, estado, sem, proceso, alKernel, dueno, terminados>>)

RecibePid ==
  /\ Llega("pid")
  /\ UsaPrograma(MlistLast(programs),
       /\ pid' = [pid EXCEPT ![MlistLast(programs)] = Head(deKernel).pid]
       /\ deKernel' = Tail(deKernel)
       /\ Va(Receptor, "bucle")
       /\ UNCHANGED <<locales, lista, estado, sem, proceso, alKernel, dueno,
                      terminados>>)

\* OP_KE_PROGRAM_END
RecibeFin ==
  /\ Llega("fin")
  /\ busca' = [busca EXCEPT ![Receptor] = Head(deKernel).pid]
  /\ nodo' = [nodo EXCEPT ![Receptor] = programs.head]
  /\ deKernel' = Tail(deKernel)
  /\ Va(Receptor, "busca")
  /\ UNCHANGED <<programa, sig, lista, datos, proceso, alKernel, dueno, terminados>>

\* OP_UNDEFINED: the Kernel has closed, as it may at any time.
RecibeNada == En(Receptor, "recibe") /\ deKernel = <<>> /\ Pasa(Receptor, "sale")

Marca ==
  /\ En(Receptor, "marca")
  /\ UsaPrograma(programa[Receptor],
       /\ estado' = [estado EXCEPT ![programa[Receptor]] = "terminado"]
       /\ Va(Receptor, "postea")
       /\ UNCHANGED <<locales, lista, pid, sem, proceso, conexion>>)

PosteaMutant == /\ En(Receptor, "postea") /\ Vuelve(Receptor, "bucle")
                /\ UNCHANGED <<lista, datos, proceso, conexion>>

Postea ==
  /\ En(Receptor, "postea")
  /\ UsaPrograma(programa[Receptor],
       /\ sem' = [sem EXCEPT ![programa[Receptor]] = @ + 1]
       /\ Vuelve(Receptor, "bucle")
       /\ UNCHANGED <<lista, estado, pid, proceso, conexion>>)

----------------------------------------------------------------------------
(* program_handler.                                                        *)

\* Its program is taken to be the last of the list.
Toma(k) ==
  /\ En(k, "nace")
  /\ programa' = [programa EXCEPT ![k] = MlistLast(programs)]
  /\ Va(k, "lee")
  /\ UNCHANGED <<nodo, sig, busca, lista, datos, proceso, conexion>>

NoLee(k) == En(k, "lee") /\ Quita(k)

Envia(k) ==
  /\ En(k, "lee")
  /\ alKernel' = Append(alKernel, k)
  /\ Va(k, "mira")
  /\ UNCHANGED <<locales, lista, datos, proceso, deKernel, dueno, terminados>>

Mira(k) ==
  /\ En(k, "mira")
  /\ UsaPrograma(programa[k],
       Pasa(k, IF estado[programa[k]] = "activo" THEN "espera" ELSE "informa"))

\* Woken, it prints (which the Kernel never asks for), sees that it was
\* killed, or looks again.
EsperaMutant(k) ==
  /\ En(k, "espera")
  /\ UsaPrograma(programa[k],
       /\ sem' = [sem EXCEPT ![programa[k]] = @ - 1]
       /\ Va(k, IF estado[programa[k]] = "muerto" THEN "fin" ELSE "mira")
       /\ UNCHANGED <<locales, lista, estado, pid, proceso, conexion>>)

Espera(k) ==
  /\ En(k, "espera")
  /\ UsaPrograma(programa[k],
       /\ sem[programa[k]] > 0
       /\ sem' = [sem EXCEPT ![programa[k]] = @ - 1]
       /\ Va(k, IF estado[programa[k]] = "muerto" THEN "fin" ELSE "mira")
       /\ UNCHANGED <<locales, lista, estado, pid, proceso, conexion>>)

\* The end is printed, with what the program says of it.
Informa(k) == En(k, "informa") /\ UsaPrograma(programa[k], Quita(k))

----------------------------------------------------------------------------
(* The Kernel, as it treats a console (Planificador.tla).                  *)

KernelStarts ==
  /\ vida = "sigue" /\ alKernel # <<>>
  /\ dueno' = Append(dueno, Head(alKernel))
  /\ alKernel' = Tail(alKernel)
  /\ deKernel' = Append(deKernel, [op |-> "pid", pid |-> Len(dueno) + 1])
  /\ UNCHANGED <<pc, locales, lista, datos, proceso, terminados>>

\* Once for each program.
KernelEnds(p) ==
  /\ vida = "sigue"
  /\ p \in DOMAIN dueno \ terminados
  /\ terminados' = terminados \cup {p}
  /\ deKernel' = Append(deKernel, [op |-> "fin", pid |-> p])
  /\ UNCHANGED <<pc, locales, lista, datos, proceso, alKernel, dueno>>

----------------------------------------------------------------------------
Destruye(t) == Recorre(t) \/ Avisa(t) \/ Une(t) \/ Desata(t)

Termina(t) == Sale(t) \/ Apaga(t) \/ Junta(t) \/ Libera(t) \/ Destruye(t)

PasoTerminal == \/ AppendReads \/ AppendLocks \/ Busca(Terminal) \/ KillFinds
                \/ Termina(Terminal)

PasoReceptor == \/ MiraActive \/ Llama \/ RecibePid \/ RecibeFin
                \/ Busca(Receptor) \/ Marca \/ Postea \/ Termina(Receptor)

PasoManejador(k) == \/ Toma(k) \/ NoLee(k) \/ Envia(k) \/ Mira(k) \/ Espera(k) \/ Informa(k)
                    \/ Destruye(k)

Teclas == RunTyped \/ LogoutTyped \/ \E p \in 0..Len(dueno) : KillTyped(p)

Kernel == KernelStarts \/ RecibeNada \/ \E p \in Corridas : KernelEnds(p)

Next == \/ Teclas \/ Kernel \/ PasoTerminal \/ PasoReceptor
        \/ \E k \in Corridas : PasoManejador(k)

Spec == Init /\ [][Next]_vars

----------------------------------------------------------------------------
(* Properties.                                                             *)

TypeOK ==
  /\ programs.length \in Int /\ {programs.head, programs.tail} \subseteq Nodos \cup {Null}
  /\ vivos \subseteq Nodos /\ mutex \in {Nadie, Terminal, Receptor}
  /\ \A k \in Corridas : /\ estado[k] \in {"libre", "activo", "terminado", "muerto"}
                         /\ pid[k] \in {-1} \cup Corridas /\ sem[k] \in Nat
  /\ active \in BOOLEAN /\ vida \in {"sigue", "rota", "terminada"}
  /\ \A t \in Hilos : {programa[t], nodo[t], sig[t]} \subseteq Nodos \cup {Null}
  /\ corridas \in 0..Cardinality(Corridas)
  /\ terminados \subseteq DOMAIN dueno /\ Len(alKernel) + Len(dueno) <= corridas

\* mlist.c: whoever appends, takes out or walks over the list, and with a tail
\* read before the lock, its nodes are one list in both directions as long as
\* nobody has used what was freed and mlist_clear has not begun.
ListWhole ==
  vida = "sigue" /\ mutex = Nadie => Entera(programs) /\ vivos = Range(Adelante(programs))

Abstracta == INSTANCE Mlist

\* mlist_append, mlist_remove: what the nodes go through is what Mlist.tla takes
\* a list for, a sequence where a step appends at the end or takes one out.
ImplementsMlist ==
  [][programs' # programs =>
       LET antes   == Adelante(programs)
           despues == Adelante(programs')
       IN  \/ despues = Append(antes, corridas)
           \/ \E k \in Range(antes) : despues = Abstracta!Without(antes, k)]_vars

\* program_handler.c:30: a handler began before its program was in the list.
Confundido == \E k \in 1..corridas : pc[k] # "nace" /\ programa[k] # k

\* message_receiver.c:24: the pid goes to the run it was given for, if runs are
\* typed one after the other's start and no handler was too early.
OwnPid ==
  vida = "sigue" /\ ~Confundido /\ ~Apurado =>
    \A k \in Corridas : estado[k] # "libre" /\ pid[k] # -1 => dueno[pid[k]] = k

\* destroy_program joins the handler of a program before it frees it: no
\* handler waits on, reads or ends a program that is gone.
HandlersOutlived ==
  vida = "sigue" /\ ~Confundido =>
    \A k \in 1..corridas : estado[k] = "libre" =>
      pc[k] \in {"nace", "desata", "recorre", "fin"}

\* program_handler.c:47: no wake-up is lost.  The handler of a program the Kernel
\* has ended has yet to look at it, is on its way to report it and to take it
\* out, or waits with its semaphore up, or about to be put up, whatever is typed
\* meanwhile.
WakeUpsKept ==
  vida = "sigue" /\ ~Confundido =>
    \A k \in Corridas : estado[k] = "terminado" =>
      \/ pc[k] \in {"nace", "lee", "mira", "informa", "recorre", "avisa", "une", "desata", "fin"}
      \/ pc[k] = "espera" /\ (sem[k] > 0 \/ (pc[Receptor] = "postea" /\ programa[Receptor] = k))
=============================================================================
