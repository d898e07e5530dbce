---------------------------- MODULE Planificador ----------------------------
(***************************************************************************)
(* The long-term and short-term scheduler of the Kernel process: its main  *)
(* thread (Kernel/src/server.c, Kernel.c, exitcode.c, syscall.c as far as  *)
(* OP_CPU_PROGRAM_END goes) and its terminal thread (console.c), which     *)
(* works on the same lists without the lock for "kill" and "multipg" and   *)
(* holds the lock between "stop" and "restart".                            *)
(*                                                                         *)
(* A step is what no other thread can see the inside of.  mlist_pop is     *)
(* two: get_node finds a node with no lock, remove_node takes it out under *)
(* the lock of the list, and frees it.  Where both threads come to use the *)
(* same node, one of them after it is free, the rest of the behaviour is   *)
(* undefined: it ends in "corrupt".                                        *)
(* Peers are the descriptors of their connections; programs are their pids.*)
(* A client connects once, and a CPU never goes away.                      *)
(***************************************************************************)
EXTENDS Mlist

CONSTANTS Consoles,          \* descriptors of the connections from consoles
          Cpus,              \* ... and from CPUs
          GradoMultiprog,    \* GRADO_MULTIPROG of the metadata file
          MaxPids,           \* bound: programs submitted in a behaviour
          Levels,            \* degrees typed after "multipg"
          Allowed            \* what may happen in this instance (below)

\* "refusal": Memoria may have no room for a program.  "logout": a console
\* disconnects.  "kill", "multipg", "stop": the Kernel's operator types that
\* command.  "stray": "restart" is typed with the planning not stopped.
\* "twice": "stop" is typed with the planning stopped.
Events == {"refusal", "logout", "kill", "multipg", "stop", "stray", "twice"}

ASSUME PeersAssumption == /\ Consoles \subseteq Nat \ {0} /\ IsFiniteSet(Consoles)
                          /\ Cpus \subseteq Nat \ {0} /\ IsFiniteSet(Cpus)
                          /\ Consoles \cap Cpus = {}
ASSUME BoundsAssumption == GradoMultiprog \in Nat /\ MaxPids \in Nat /\ Levels \subseteq Nat
ASSUME AllowedAssumption == Allowed \subseteq Events

Peers  == Consoles \cup Cpus
Pids   == 1..MaxPids
Status == {"NEW", "READY", "EXEC", "BLOCK", "EXIT"}
SvSock == 0   \* the listening socket is older, so lower, than any connection

\* exitcode.h; -1 and -2 are also the literals of planificacion and of "kill".
ExitSuccessful   == 0
ExitResourceFail == -1
ExitKilled       == -2
ExitConsoleKilled == -6

VARIABLES
  cola,                \* pcb_new, pcb_ready, pcb_exec, pcb_block, pcb_exit
  codes_ms,            \* code of the programs not yet admitted, by owner
  generatorPid,
  exitCode,            \* exitCode of each PCB
  multipg_level,
  consolas_conectadas,
  pids,                \* client->pids of each console
  cpu_conectadas,      \* idle CPUs
  cpu_executing,
  mutex,               \* mutex_planificacion: "free", "main" or "terminal"
  main,                \* main thread: where it is, what it holds in locals
  read_fds,            \* descriptors select returned, not yet served
  term,                \* terminal thread
  peer,                \* each connection: "out", "backlog", "open", "closed"
  inbox,               \* what each peer sent and the Kernel has not read
  en_cpu,              \* program each CPU runs, 0 if none
  paginas,             \* whose code the pages of each program hold, 0: no pages
  avisos,              \* exit codes told to the owner of each program
  enviados             \* programs submitted so far

tablas == <<codes_ms, generatorPid, exitCode, multipg_level>>
clientes == <<consolas_conectadas, pids, cpu_conectadas, cpu_executing>>
red == <<peer, inbox, en_cpu, paginas, avisos, enviados>>
vars == <<cola, tablas, clientes, mutex, main, read_fds, term, red>>

----------------------------------------------------------------------------
Init ==
  /\ cola = [q \in Status |-> <<>>]
  /\ codes_ms = <<>>
  /\ generatorPid = 0
  /\ exitCode = [p \in Pids |-> 0]
  /\ multipg_level = GradoMultiprog
  /\ consolas_conectadas = <<>>
  /\ pids = [c \in Consoles |-> <<>>]
  /\ cpu_conectadas = <<>>
  /\ cpu_executing = <<>>
  /\ mutex = "free"
  /\ main = [at |-> "select", pid |-> 0, code |-> 0, nodo |-> 0, res |-> FALSE, rest |-> <<>>]
  /\ read_fds = {}
  /\ term = [at |-> "idle", cola |-> "NEW", pid |-> 0, i |-> 0, nodo |-> 0, aux |-> 0,
             stop |-> FALSE]
  /\ peer = [f \in Peers |-> "out"]
  /\ inbox = [f \in Peers |-> <<>>]
  /\ en_cpu = [c \in Cpus |-> 0]
  /\ paginas = [p \in Pids |-> 0]
  /\ avisos = [p \in Pids |-> <<>>]
  /\ enviados = 0

Lowest(S) == CHOOSE f \in S : \A g \in S : f <= g

Msg(opcode, pid) == [opcode |-> opcode, pid |-> pid]

MainGoes(where) == main' = [main EXCEPT !.at = where]

----------------------------------------------------------------------------
(* The peers.  Descriptors are handed out in the order of the connections. *)

Connects(f) ==
  /\ peer[f] = "out"
  /\ \A g \in Peers : g < f => peer[g] # "out"
  /\ peer' = [peer EXCEPT ![f] = "backlog"]
  /\ UNCHANGED <<cola, tablas, clientes, mutex, main, read_fds, term,
                 inbox, en_cpu, paginas, avisos, enviados>>

\* "init <path>" at a console: the source text of a program goes to the Kernel.
\* (A console that has left, whose last message is the end of file, is mute.)
SubmitsProgram(c) ==
  /\ peer[c] = "open"
  /\ \A k \in DOMAIN inbox[c] : inbox[c][k].opcode # "OP_UNDEFINED"
  /\ enviados < MaxPids
  /\ inbox' = [inbox EXCEPT ![c] = Append(@, Msg("OP_NEW_PROGRAM", 0))]
  /\ enviados' = enviados + 1
  /\ UNCHANGED <<cola, tablas, clientes, mutex, main, read_fds, term,
                 peer, en_cpu, paginas, avisos>>

\* The console closes its socket; the Kernel reads an OP_UNDEFINED header.
Disconnects(c) ==
  /\ "logout" \in Allowed
  /\ peer[c] = "open"
  /\ \A k \in DOMAIN inbox[c] : inbox[c][k].opcode # "OP_UNDEFINED"
  /\ inbox' = [inbox EXCEPT ![c] = Append(@, Msg("OP_UNDEFINED", 0))]
  /\ UNCHANGED <<cola, tablas, clientes, mutex, main, read_fds, term,
                 peer, en_cpu, paginas, avisos, enviados>>

\* A CPU comes to the "end" of its program and sends the PCB back.
FinishesProgram(c) ==
  /\ en_cpu[c] # 0
  /\ inbox' = [inbox EXCEPT ![c] = Append(@, Msg("OP_CPU_PROGRAM_END", en_cpu[c]))]
  /\ en_cpu' = [en_cpu EXCEPT ![c] = 0]
  /\ UNCHANGED <<cola, tablas, clientes, mutex, main, read_fds, term,
                 peer, paginas, avisos, enviados>>

----------------------------------------------------------------------------
(* The main thread: one pass of init_server's loop.                        *)

Readable == (IF \E f \in Peers : peer[f] = "backlog" THEN {SvSock} ELSE {})
              \cup {f \in Peers : peer[f] = "open" /\ inbox[f] # <<>>}

Select ==
  /\ main.at = "select"
  /\ Readable # {}
  /\ read_fds' = Readable
  /\ MainGoes("serve")
  /\ UNCHANGED <<cola, tablas, clientes, mutex, term, red>>

\* The descriptor whose turn it is: the pass serves them in ascending order.
Serving(f) == main.at = "serve" /\ f \in read_fds /\ f = Lowest(read_fds)

Accepts ==
  /\ Serving(SvSock)
  /\ LET f == Lowest({g \in Peers : peer[g] = "backlog"})
     IN  /\ peer' = [peer EXCEPT ![f] = "open"]
         /\ consolas_conectadas' = IF f \in Consoles THEN Append(consolas_conectadas, f)
                                                     ELSE consolas_conectadas
         /\ cpu_conectadas' = IF f \in Cpus THEN Append(cpu_conectadas, f)
                                            ELSE cpu_conectadas
  /\ read_fds' = read_fds \ {SvSock}
  /\ UNCHANGED <<cola, tablas, pids, cpu_executing, mutex, main, term,
                 inbox, en_cpu, paginas, avisos, enviados>>

\* Lock and unlock around the handling of one message.
LockableMutant == TRUE
Lockable == mutex = "free"

\* crear_pcb_proceso numbers the programs from 1.
NewPidMutant == generatorPid
NewPid == generatorPid + 1

\* gestion_datos_newPcb, between lock and unlock: only the main thread appends
\* to what it appends to, so the section is one step.
NewProgram(c) ==
  /\ Serving(c)
  /\ Head(inbox[c]).opcode = "OP_NEW_PROGRAM"
  /\ Lockable
  /\ LET p == NewPid
     IN  /\ generatorPid' = generatorPid + 1
         /\ exitCode' = [exitCode EXCEPT ![p] = 0]
         /\ codes_ms' = Append(codes_ms, p)
         /\ pids' = [pids EXCEPT ![c] = Append(@, p)]
         /\ cola' = [cola EXCEPT !["NEW"] = Append(@, p)]
  /\ inbox' = [inbox EXCEPT ![c] = Tail(@)]
  /\ read_fds' = read_fds \ {c}
  /\ UNCHANGED <<multipg_level, consolas_conectadas, cpu_conectadas, cpu_executing, mutex,
                 main, term, peer, en_cpu, paginas, avisos, enviados>>

\* end_program: the PCB leaves every list (pcb_remove), a copy with the code
\* goes to the exit list, the console that owns the program is told if it is
\* still connected, and Memoria frees the pages (OP_ME_FINPRO, and its reply).
EndProgramMutantNoFinpro(p, code) ==
  /\ cola' = [q \in Status |-> IF q = "EXIT" THEN Append(Without(cola[q], p), p)
                                             ELSE Without(cola[q], p)]
  /\ exitCode' = [exitCode EXCEPT ![p] = code]
  /\ UNCHANGED <<avisos, paginas>>

EndProgramMutantKeeps(p, code) ==
  /\ cola' = [q \in Status |-> IF q = "EXIT" THEN Append(cola[q], p) ELSE Without(cola[q], p)]
  /\ exitCode' = [exitCode EXCEPT ![p] = code]
  /\ avisos' = [avisos EXCEPT ![p] =
                  IF \E c \in Range(consolas_conectadas) : p \in Range(pids[c])
                  THEN Append(@, code) ELSE @]
  /\ paginas' = [paginas EXCEPT ![p] = 0]

EndProgram(p, code) ==
  /\ cola' = [q \in Status |-> IF q = "EXIT" THEN Append(Without(cola[q], p), p)
                                             ELSE Without(cola[q], p)]
  /\ exitCode' = [exitCode EXCEPT ![p] = code]
  /\ avisos' = [avisos EXCEPT ![p] =
                  IF \E c \in Range(consolas_conectadas) : p \in Range(pids[c])
                  THEN Append(@, code) ELSE @]
  /\ paginas' = [paginas EXCEPT ![p] = 0]

RestoreCPUMutantBusy(c) ==
  /\ UNCHANGED cpu_executing
  /\ cpu_conectadas' = Append(cpu_conectadas, c)

RestoreCPUMutantLost(c) ==
  /\ cpu_executing' = Without(cpu_executing, c)
  /\ UNCHANGED cpu_conectadas

\* The CPU becomes idle, behind the CPUs that already were.
RestoreCPU(c) ==
  /\ cpu_executing' = Without(cpu_executing, c)
  /\ cpu_conectadas' = Append(cpu_conectadas, c)

\* gestion_syscall on OP_CPU_PROGRAM_END, with restoreCPU, between lock and
\* unlock: the program is in the exec list, where "kill" does not look.
ProgramEnds(c) ==
  /\ Serving(c)
  /\ Head(inbox[c]).opcode = "OP_CPU_PROGRAM_END"
  /\ Lockable
  /\ EndProgram(Head(inbox[c]).pid, ExitSuccessful)
  /\ RestoreCPU(c)
  /\ inbox' = [inbox EXCEPT ![c] = Tail(@)]
  /\ read_fds' = read_fds \ {c}
  /\ UNCHANGED <<codes_ms, generatorPid, multipg_level, consolas_conectadas, pids, mutex,
                 main, term, peer, en_cpu, enviados>>

ConsoleGoneMutant(c) ==
  /\ Serving(c)
  /\ Head(inbox[c]).opcode = "OP_UNDEFINED"
  /\ main' = [main EXCEPT !.at = "destroy", !.rest = pids[c]]
  /\ UNCHANGED <<cola, tablas, clientes, mutex, read_fds, term, red>>

\* destroy_console, which takes no lock: the console leaves the list first,
\* then its programs are looked up one by one.
ConsoleGone(c) ==
  /\ Serving(c)
  /\ Head(inbox[c]).opcode = "OP_UNDEFINED"
  /\ consolas_conectadas' = Without(consolas_conectadas, c)
  /\ main' = [main EXCEPT !.at = "destroy", !.rest = pids[c]]
  /\ UNCHANGED <<cola, tablas, pids, cpu_conectadas, cpu_executing, mutex, read_fds,
                 term, red>>

\* pcb_by_id looks through the five lists.
QueuedMutant(p) == \E q \in Status \ {"NEW"} : p \in Range(cola[q])
Queued(p) == \E q \in Status : p \in Range(cola[q])

\* pcb_by_id and pcb_status of the next program of the console.
LooksUp ==
  /\ main.at = "destroy" /\ main.rest # <<>>
  /\ IF Queued(Head(main.rest)) /\ Head(main.rest) \notin Range(cola["EXEC"])
     THEN MainGoes("end")
     ELSE main' = [main EXCEPT !.rest = Tail(@)]
  /\ UNCHANGED <<cola, tablas, clientes, mutex, read_fds, term, red>>

EndsOrphan ==
  /\ main.at = "end"
  /\ EndProgram(Head(main.rest), ExitConsoleKilled)
  /\ main' = [main EXCEPT !.at = "destroy", !.rest = Tail(@)]
  /\ UNCHANGED <<codes_ms, generatorPid, multipg_level, clientes, mutex, read_fds, term,
                 peer, inbox, en_cpu, enviados>>

\* The client is freed, its socket closed and cleared from all_fds.
ClosesConsole ==
  /\ main.at = "destroy" /\ main.rest = <<>>
  /\ LET c == Lowest(read_fds)
     IN  /\ pids' = [pids EXCEPT ![c] = <<>>]
         /\ peer' = [peer EXCEPT ![c] = "closed"]
         /\ inbox' = [inbox EXCEPT ![c] = <<>>]
         /\ read_fds' = read_fds \ {c}
  /\ MainGoes("serve")
  /\ UNCHANGED <<cola, tablas, consolas_conectadas, cpu_conectadas, cpu_executing, mutex,
                 term, en_cpu, paginas, avisos, enviados>>

----------------------------------------------------------------------------
(* planificacion, under the lock.                                          *)

InSystem == Len(cola["READY"]) + Len(cola["EXEC"]) + Len(cola["BLOCK"])

\* The test of line 125.
MayAdmitMutantLevel == InSystem <= multipg_level /\ cola["NEW"] # <<>>
MayAdmitMutantEmpty == InSystem < multipg_level
MayAdmit == InSystem < multipg_level /\ cola["NEW"] # <<>>

LocksPlanning ==
  /\ main.at = "serve" /\ read_fds = {}
  /\ mutex = "free"
  /\ mutex' = "main"
  /\ MainGoes("admit")
  /\ UNCHANGED <<cola, tablas, clientes, read_fds, term, red>>

AdmitsMutant ==
  /\ main.at = "admit"
  /\ MayAdmit
  /\ main' = [main EXCEPT !.at = "pop_new", !.code = Head(codes_ms)]
  /\ UNCHANGED <<cola, tablas, clientes, mutex, read_fds, term, red>>

\* The code of the oldest waiting program is popped; its PCB, only then.
Admits ==
  /\ main.at = "admit"
  /\ MayAdmit
  /\ IF codes_ms = <<>>   \* code == NULL is dereferenced
     THEN MainGoes("crashed") /\ UNCHANGED codes_ms
     ELSE /\ main' = [main EXCEPT !.at = "pop_new", !.code = Head(codes_ms)]
          /\ codes_ms' = Tail(codes_ms)
  /\ UNCHANGED <<cola, generatorPid, exitCode, multipg_level, clientes, mutex, read_fds,
                 term, red>>

AdmitsNoneMutant ==
  /\ main.at = "admit"
  /\ ~MayAdmit
  /\ codes_ms' = IF codes_ms = <<>> THEN <<>> ELSE Tail(codes_ms)
  /\ MainGoes("dispatch")
  /\ UNCHANGED <<cola, generatorPid, exitCode, multipg_level, clientes, mutex, read_fds,
                 term, red>>

AdmitsNone ==
  /\ main.at = "admit"
  /\ ~MayAdmit
  /\ MainGoes("dispatch")
  /\ UNCHANGED <<cola, tablas, clientes, mutex, read_fds, term, red>>

\* get_node of the first one of a list, which may have become empty: then the
\* NULL it gives is dereferenced.
FindsFirst(q, where) ==
  main' = IF cola[q] = <<>> THEN [main EXCEPT !.at = "crashed"]
                            ELSE [main EXCEPT !.at = where, !.nodo = Head(cola[q])]

FindsNew ==
  /\ main.at = "pop_new"
  /\ FindsFirst("NEW", "take_new")
  /\ UNCHANGED <<cola, tablas, clientes, mutex, read_fds, term, red>>

\* The PCB leaves pcb_new; OP_ME_INIPRO and its answer; once Memoria has granted
\* the pages, the code that was popped is stored in them.
AsksForPages(granted) ==
  /\ main.at = "take_new" /\ main.nodo \in Range(cola["NEW"])
  /\ granted \/ "refusal" \in Allowed
  /\ LET p == main.nodo
     IN  /\ cola' = [cola EXCEPT !["NEW"] = Removed(@, p)]
         /\ main' = [main EXCEPT !.at = "admitted", !.pid = p, !.nodo = 0, !.res = granted]
         /\ paginas' = IF granted THEN [paginas EXCEPT ![p] = main.code] ELSE paginas
  /\ UNCHANGED <<tablas, clientes, mutex, read_fds, term, peer, inbox, en_cpu, avisos,
                 enviados>>

\* The PCB goes to the ready list, or with no notice to the exit list.
EntersSystem ==
  /\ main.at = "admitted"
  /\ LET q == IF main.res THEN "READY" ELSE "EXIT"
     IN  cola' = [cola EXCEPT ![q] = Append(@, main.pid)]
  /\ exitCode' = IF main.res THEN exitCode
                 ELSE [exitCode EXCEPT ![main.pid] = ExitResourceFail]
  /\ main' = [main EXCEPT !.at = "dispatch", !.pid = 0, !.code = 0, !.res = FALSE]
  /\ UNCHANGED <<codes_ms, generatorPid, multipg_level, clientes, mutex, read_fds, term, red>>

\* The test of the loop of line 199.
CanDispatch ==
  /\ main.at = "dispatch"
  /\ cola["READY"] # <<>> /\ cpu_conectadas # <<>>
  /\ MainGoes("pop_ready")
  /\ UNCHANGED <<cola, tablas, clientes, mutex, read_fds, term, red>>

DispatchesMutant ==
  /\ main.at = "take_ready" /\ main.nodo \in Range(cola["READY"])
  /\ LET n == Len(cola["READY"])
         p == cola["READY"][n]
         c == Head(cpu_conectadas)
     IN  /\ cola' = [cola EXCEPT !["READY"] = SubSeq(@, 1, n - 1),
                                 !["EXEC"] = Append(@, p)]
         /\ cpu_conectadas' = Tail(cpu_conectadas)
         /\ cpu_executing' = Append(cpu_executing, c)
         /\ en_cpu' = [en_cpu EXCEPT ![c] = p]
  /\ main' = [main EXCEPT !.at = "dispatch", !.nodo = 0]
  /\ UNCHANGED <<tablas, consolas_conectadas, pids, mutex, read_fds, term, peer, inbox,
                 paginas, avisos, enviados>>

FindsReady ==
  /\ main.at = "pop_ready"
  /\ FindsFirst("READY", "take_ready")
  /\ UNCHANGED <<cola, tablas, clientes, mutex, read_fds, term, red>>

\* The body of the loop: the CPU cannot be heard before the next pass, so from
\* remove_node on it is one step.
Dispatches ==
  /\ main.at = "take_ready" /\ main.nodo \in Range(cola["READY"])
  /\ LET p == main.nodo
         c == Head(cpu_conectadas)
     IN  /\ cola' = [cola EXCEPT !["READY"] = Removed(@, p), !["EXEC"] = Append(@, p)]
         /\ cpu_conectadas' = Tail(cpu_conectadas)
         /\ cpu_executing' = Append(cpu_executing, c)
         /\ en_cpu' = [en_cpu EXCEPT ![c] = p]
  /\ main' = [main EXCEPT !.at = "dispatch", !.nodo = 0]
  /\ UNCHANGED <<tablas, consolas_conectadas, pids, mutex, read_fds, term, peer, inbox,
                 paginas, avisos, enviados>>

\* remove_node of a node that "kill" has removed since it was found: both have
\* its PCB, and both free the node.
TakesAgain ==
  /\ \/ main.at = "take_new" /\ main.nodo \notin Range(cola["NEW"])
     \/ main.at = "take_ready" /\ main.nodo \notin Range(cola["READY"])
  /\ MainGoes("corrupt")
  /\ UNCHANGED <<cola, tablas, clientes, mutex, read_fds, term, red>>

\* Unlocking does not look at who holds the lock.
UnlocksPlanning ==
  /\ main.at = "dispatch"
  /\ cola["READY"] = <<>> \/ cpu_conectadas = <<>>
  /\ mutex' = "free"
  /\ MainGoes("select")
  /\ UNCHANGED <<cola, tablas, clientes, read_fds, term, red>>

----------------------------------------------------------------------------
(* The terminal thread.                                                    *)

MultipgCommand(level) ==
  /\ "multipg" \in Allowed
  /\ term.at = "idle"
  /\ multipg_level' = level
  /\ UNCHANGED <<cola, codes_ms, generatorPid, exitCode, clientes, mutex, main, read_fds,
                 term, red>>

StopCommand ==
  /\ "stop" \in Allowed
  /\ term.at = "idle"
  /\ mutex = "terminal" => "twice" \in Allowed
  /\ term' = [term EXCEPT !.at = "locking"]
  /\ UNCHANGED <<cola, tablas, clientes, mutex, main, read_fds, red>>

StopsPlanning ==
  /\ term.at = "locking"
  /\ mutex = "free"
  /\ mutex' = "terminal"
  /\ term' = [term EXCEPT !.at = "idle"]
  /\ UNCHANGED <<cola, tablas, clientes, main, read_fds, red>>

\* Unlocking a lock the terminal does not hold is undefined; the mutexes of
\* the C library the program is built with simply become free.
RestartCommand ==
  /\ "stop" \in Allowed
  /\ term.at = "idle"
  /\ mutex = "terminal" \/ "stray" \in Allowed
  /\ mutex' = "free"
  /\ UNCHANGED <<cola, tablas, clientes, main, read_fds, term, red>>

\* "kill <pid>" walks pcb_new, pcb_block and pcb_ready, again and again until
\* one of them had the program, and takes no lock.
KillCommand(p) ==
  /\ "kill" \in Allowed
  /\ term.at = "idle"
  /\ term' = [term EXCEPT !.at = "scan", !.cola = "NEW", !.pid = p, !.stop = FALSE]
  /\ UNCHANGED <<cola, tablas, clientes, mutex, main, read_fds, red>>

Positions(p) == {i \in DOMAIN cola[term.cola] : cola[term.cola][i] = p}

NextQueueMutant == [NEW |-> "EXIT", EXIT |-> "READY", READY |-> "NEW"]
NextQueue == [NEW |-> "BLOCK", BLOCK |-> "READY", READY |-> "NEW"]

\* On to the next list, or back to the prompt after the last one.
AfterQueue(stop) ==
  IF term.cola = "READY" /\ stop
  THEN [at |-> "idle", cola |-> "NEW", pid |-> 0, i |-> 0, nodo |-> 0, aux |-> 0, stop |-> FALSE]
  ELSE [term EXCEPT !.at = "scan", !.cola = NextQueue[@], !.i = 0, !.aux = 0, !.stop = stop]

KillFinds ==
  /\ term.at = "scan"
  /\ Positions(term.pid) # {}
  /\ term' = [term EXCEPT !.at = "pop", !.i = Lowest(Positions(term.pid))]
  /\ UNCHANGED <<cola, tablas, clientes, mutex, main, read_fds, red>>

KillMisses ==
  /\ term.at = "scan"
  /\ Positions(term.pid) = {}
  /\ term' = AfterQueue(term.stop)
  /\ UNCHANGED <<cola, tablas, clientes, mutex, main, read_fds, red>>

\* get_node of the position, whatever is there by now.
KillFindsNode ==
  /\ term.at = "pop"
  /\ IF term.i \in DOMAIN cola[term.cola]
     THEN /\ term' = [term EXCEPT !.at = "take", !.nodo = cola[term.cola][term.i]]
          /\ UNCHANGED main
     ELSE MainGoes("crashed") /\ UNCHANGED term   \* aux == NULL is dereferenced
  /\ UNCHANGED <<cola, tablas, clientes, mutex, read_fds, red>>

KillPopsMutant ==
  /\ term.at = "take" /\ term.nodo \in Range(cola[term.cola])
  /\ exitCode' = [exitCode EXCEPT ![term.nodo] = ExitKilled]
  /\ term' = [term EXCEPT !.at = "append", !.aux = term.nodo, !.nodo = 0]
  /\ UNCHANGED <<cola, codes_ms, generatorPid, multipg_level, clientes, mutex, main,
                 read_fds, red>>

\* remove_node, and the exit code.
KillPops ==
  /\ term.at = "take" /\ term.nodo \in Range(cola[term.cola])
  /\ cola' = [cola EXCEPT ![term.cola] = Removed(@, term.nodo)]
  /\ exitCode' = [exitCode EXCEPT ![term.nodo] = ExitKilled]
  /\ term' = [term EXCEPT !.at = "append", !.aux = term.nodo, !.nodo = 0]
  /\ UNCHANGED <<codes_ms, generatorPid, multipg_level, clientes, mutex, main, read_fds, red>>

\* remove_node of a node the main thread has removed since it was found.
KillTakesAgain ==
  /\ term.at = "take" /\ term.nodo \notin Range(cola[term.cola])
  /\ term' = [term EXCEPT !.at = "corrupt"]
  /\ UNCHANGED <<cola, tablas, clientes, mutex, main, read_fds, red>>

\* The main thread is at a call that walks along a list, or has found its tail.
MainInside(q) ==
  \/ \E c \in Consoles : /\ Serving(c) /\ Head(inbox[c]).opcode = "OP_NEW_PROGRAM"
                         /\ Lockable /\ q = "NEW"
  \/ \E c \in Cpus : Serving(c) /\ Lockable
  \/ main.at = "destroy" /\ main.rest # <<>> /\ q # "EXIT"
  \/ main.at = "end"
  \/ main.at = "admitted" /\ q = IF main.res THEN "READY" ELSE "EXIT"

\* The main thread is about to free a node of a list.
MainFrees(q) ==
  \/ main.at = "take_new" /\ q = "NEW"
  \/ main.at = "take_ready" /\ q = "READY"
  \/ main.at = "end"

\* One thread frees a node the other one walks over or appends to; or both have
\* read that pcb_exit has no tail, and append.
Clashes ==
  /\ \/ term.at = "take" /\ MainInside(term.cola)
     \/ term.at \in {"scan", "pop"} /\ MainFrees(term.cola)
     \/ term.at = "append" /\ cola["EXIT"] = <<>> /\ MainInside("EXIT")
  /\ term' = [term EXCEPT !.at = "corrupt", !.nodo = 0]
  /\ UNCHANGED <<cola, tablas, clientes, mutex, main, read_fds, red>>

KillAppends ==
  /\ term.at = "append"
  /\ cola' = [cola EXCEPT !["EXIT"] = Append(@, term.aux)]
  /\ term' = AfterQueue(TRUE)
  /\ UNCHANGED <<tablas, clientes, mutex, main, read_fds, red>>

----------------------------------------------------------------------------
MainThread ==
  \/ Select \/ Accepts
  \/ \E c \in Consoles : NewProgram(c) \/ ConsoleGone(c)
  \/ \E c \in Cpus : ProgramEnds(c)
  \/ LooksUp \/ EndsOrphan \/ ClosesConsole
  \/ LocksPlanning \/ Admits \/ AdmitsNone
  \/ \E granted \in BOOLEAN : AsksForPages(granted)
  \/ EntersSystem \/ CanDispatch \/ Dispatches \/ UnlocksPlanning
  \/ FindsNew \/ FindsReady \/ TakesAgain

Kill == \/ KillFinds \/ KillMisses \/ KillPops \/ KillAppends
        \/ KillFindsNode \/ KillTakesAgain \/ Clashes

Terminal ==
  \/ \E level \in Levels : MultipgCommand(level)
  \/ StopCommand \/ StopsPlanning \/ RestartCommand
  \/ \E p \in Pids : KillCommand(p)
  \/ Kill

PeersStep ==
  \/ \E f \in Peers : Connects(f)
  \/ \E c \in Consoles : SubmitsProgram(c) \/ Disconnects(c)
  \/ \E c \in Cpus : FinishesProgram(c)

\* The threads have used the same node, one of them after the other freed it.
Corrupt == main.at = "corrupt" \/ term.at = "corrupt"

\* A segmentation fault in either thread is the end of the process; what comes
\* of a node that is used when it is free is not said.
Alive == main.at # "crashed" /\ ~Corrupt

Next == Alive /\ (MainThread \/ Terminal \/ PeersStep)

Spec == Init /\ [][Next]_vars

\* The threads run, connections are made and programs come to their end;
\* nobody has to submit, type or disconnect.
FairSpec == /\ Spec
            /\ WF_vars(Alive /\ MainThread)
            /\ WF_vars(Alive /\ (Kill \/ StopsPlanning))
            /\ \A f \in Peers : WF_vars(Alive /\ Connects(f))
            /\ \A c \in Cpus : WF_vars(Alive /\ FinishesProgram(c))

----------------------------------------------------------------------------
(* Properties.                                                             *)

Places == {"select", "serve", "destroy", "end", "admit", "pop_new", "take_new", "admitted",
           "dispatch", "pop_ready", "take_ready", "crashed", "corrupt"}

ProgramIds == Nat \ {0}

Messages == [opcode : {"OP_NEW_PROGRAM", "OP_UNDEFINED"}, pid : {0}]
              \cup [opcode : {"OP_CPU_PROGRAM_END"}, pid : ProgramIds]

\* What each part of the state may hold.
TypeOK ==
  /\ cola \in [Status -> Seq(ProgramIds)]
  /\ codes_ms \in Seq(ProgramIds)
  /\ generatorPid \in Nat
  /\ exitCode \in [Pids -> {ExitSuccessful, ExitResourceFail, ExitKilled, ExitConsoleKilled}]
  /\ multipg_level \in Nat
  /\ consolas_conectadas \in Seq(Consoles)
  /\ pids \in [Consoles -> Seq(ProgramIds)]
  /\ cpu_conectadas \in Seq(Cpus) /\ cpu_executing \in Seq(Cpus)
  /\ mutex \in {"free", "main", "terminal"}
  /\ main \in [at : Places, pid : Nat, code : Nat, nodo : Nat, res : BOOLEAN,
               rest : Seq(ProgramIds)]
  /\ read_fds \in SUBSET (Peers \cup {SvSock})
  /\ term \in [at : {"idle", "locking", "scan", "pop", "take", "append", "corrupt"},
               cola : {"NEW", "BLOCK", "READY"}, pid : Nat, i : Nat, nodo : Nat, aux : Nat,
               stop : BOOLEAN]
  /\ peer \in [Peers -> {"out", "backlog", "open", "closed"}]
  /\ inbox \in [Peers -> Seq(Messages)]
  /\ en_cpu \in [Cpus -> Nat]
  /\ paginas \in [Pids -> Nat]
  /\ avisos \in [Pids -> Seq({ExitSuccessful, ExitConsoleKilled})]
  /\ enviados \in Nat

Before(s, t) == \A p \in Range(s), q \in Range(t) : p < q

\* First come, first served, whatever consoles and operator do: the programs in
\* the exec list, then the ready list, then on their way from one list to the
\* next in planificacion, then the new list are in the order they arrived in.
FifoOrder ==
  /\ \A q \in {"NEW", "READY", "EXEC"} : Increasing(cola[q])
  /\ Before(cola["EXEC"], cola["READY"])
  /\ Before(cola["EXEC"], cola["NEW"])
  /\ Before(cola["READY"], cola["NEW"])
  /\ main.at = "admitted" =>
       /\ Before(cola["EXEC"], <<main.pid>>) /\ Before(cola["READY"], <<main.pid>>)
       /\ Before(<<main.pid>>, cola["NEW"])

\* What a thread has taken out of one list and not yet put in another; once it
\* has removed a node again, also the PCB of that node.
MainHas(p) == p = main.pid \/ (main.at = "corrupt" /\ p = main.nodo)
TermHas(p) == p = term.aux \/ (term.at = "corrupt" /\ p = term.nodo)

\* Who has the PCB of p: positions in the lists, and threads.
Holders(p) ==
  (UNION {{<<q, i>> : i \in {j \in DOMAIN cola[q] : cola[q][j] = p}} : q \in Status})
    \cup (IF MainHas(p) THEN {<<"main", 0>>} ELSE {})
    \cup (IF TermHas(p) THEN {<<"terminal", 0>>} ELSE {})

\* No PCB is lost and none is in two lists, or twice in one: the lists of
\* pcbutils.c's status_queue partition the programs.  And console.c:9, "kill
\* <pid> - finaliza el programa correspondiente al PID ingresado": what the
\* operator has taken to end it, the planner does not have as well.
OnePlace == \A p \in 1..generatorPid : Cardinality(Holders(p)) = 1

\* With "kill" that much is left of it: until the threads come to use the same
\* node, every PCB is in one place, although "kill" takes out what it finds at a
\* position that may be another program's by then.
OnePlaceUntilClash == ~Corrupt => OnePlace

\* What a CPU owes the Kernel: the program it runs, or whose end is on its way.
Job(c) == IF en_cpu[c] # 0 THEN en_cpu[c]
          ELSE IF inbox[c] # <<>> THEN Head(inbox[c]).pid ELSE 0

\* The k-th program of the exec list runs on the k-th CPU of cpu_executing, and
\* the CPUs in cpu_conectadas are idle: a CPU never gets a second program, and
\* no program in the exec list is without one.
ExecMatchesCpus ==
  /\ Len(cola["EXEC"]) = Len(cpu_executing)
  /\ \A k \in DOMAIN cpu_executing : Job(cpu_executing[k]) = cola["EXEC"][k]
  /\ \A c \in Range(cpu_conectadas) : Job(c) = 0

\* The pages of a program hold its own code: codes_ms and pcb_new, two lists
\* popped one after the other, stay in step.
OwnCode == \A p \in Pids : paginas[p] \in {0, p}

InMemory == Range(cola["READY"]) \cup Range(cola["EXEC"]) \cup Range(cola["BLOCK"])
              \cup (IF main.res THEN {main.pid} ELSE {})

\* Exactly the programs in the system have pages in Memoria: INIPRO and FINPRO
\* pair up on every path.
PagesMatchQueues == {p \in Pids : paginas[p] # 0} = InMemory

\* The planner never dereferences the NULL an empty list gives.
KernelSurvives == Alive

\* The planner never lacks the code of a program that waits, not even when
\* "kill" takes programs out of pcb_new behind its back.
CodesKeepUp ==
  Alive => Len(cola["NEW"]) <= Len(codes_ms) + (IF main.at \in {"pop_new", "take_new"}
                                                THEN 1 ELSE 0)

\* The owner of a program is told of its end at most once, and only of a
\* program that has ended.
ToldOnce == \A p \in Pids : avisos[p] # <<>> =>
              Len(avisos[p]) = 1 /\ p \in Range(cola["EXIT"])

\* When a console leaves, each of its programs destroy_console has gone through
\* is over or is running its last time on a CPU.
OrphansEnd ==
  main.at = "destroy" =>
    \A p \in Range(pids[Lowest(read_fds)]) \ Range(main.rest) :
      p \in Range(cola["EXIT"]) \cup Range(cola["EXEC"])

\* The programs in the system, and the one being admitted, never exceed the
\* degree of multiprogramming (as long as nobody changes it).
DegreeRespected == InSystem + (IF main.res THEN 1 ELSE 0) <= multipg_level

\* While the terminal holds the planning stopped no program arrives, is
\* admitted, dispatched or ended by its CPU.
PlanningStopped ==
  [][mutex = "terminal" /\ mutex' = "terminal" =>
       /\ generatorPid' = generatorPid
       /\ Range(cola'["READY"]) \subseteq Range(cola["READY"])
       /\ cola'["EXEC"] = cola["EXEC"]]_vars

\* A program that is over stays over.
ExitIsFinal == [][Range(cola["EXIT"]) \subseteq Range(cola'["EXIT"])]_vars

\* Every submitted program ends, in order of arrival or not, when the threads
\* run and the CPUs end what they run.
EverySubmittedEnds ==
  \A k \in 1..MaxPids : (enviados >= k) ~> (Len(cola["EXIT"]) >= k)

----------------------------------------------------------------------------
(* What strengthens TypeOK and FifoOrder into inductive invariants.        *)

\* Between its steps each thread still has what it looked at before them.
InHand ==
  /\ \A f \in read_fds \ {SvSock} : inbox[f] # <<>>
  /\ SvSock \in read_fds => \E f \in Peers : peer[f] = "backlog"
  /\ main.at \in {"destroy", "end"} => Lowest(read_fds) \in read_fds \cap Consoles
  /\ main.at = "end" => main.rest # <<>>
  /\ main.at \in {"pop_new", "take_new"} => main.code # 0
  /\ main.at \in {"take_new", "take_ready"} => main.nodo # 0
  /\ main.at = "admitted" => main.pid # 0
  /\ main.at \in {"pop_ready", "take_ready"} => cpu_conectadas # <<>>
  /\ term.at = "take" => term.nodo # 0
  /\ term.at = "append" => term.aux # 0

\* The programs not yet over have been numbered already.
Numbered ==
  /\ \A q \in {"NEW", "READY", "EXEC"} : \A p \in Range(cola[q]) : p <= generatorPid
  /\ main.at = "admitted" => main.pid <= generatorPid

\* While the main thread has the first node of a list in its hand, nothing comes
\* before it there.
FirstInHand ==
  /\ main.at = "take_new" => \A p \in Range(cola["NEW"]) : main.nodo <= p
  /\ main.at = "take_ready" => \A p \in Range(cola["READY"]) : main.nodo <= p

Line == {"NEW", "READY", "EXEC"}

\* A thread has a program in its hand only between two lists.
BetweenLists ==
  /\ main.pid # 0 => main.at \in {"admitted", "crashed"}
  /\ main.res => main.pid # 0
  /\ term.aux # 0 => term.at \in {"append", "corrupt"}

\* What is over, or in the hand of a thread, is nowhere in the line.
OutOfLine ==
  /\ cola["BLOCK"] = <<>>
  /\ \A q \in Line : \A p \in Range(cola[q]) :
       p \notin Range(cola["EXIT"]) /\ p # main.pid /\ p # term.aux
  /\ main.pid # 0 => main.pid \notin Range(cola["EXIT"]) /\ main.pid # term.aux
  /\ \A p \in Range(cola["EXIT"]) \cup {main.pid, term.aux} : p <= generatorPid

\* A CPU sends nothing but the end of the program it ran.
TellsEnd(c) ==
  inbox[c] # <<>> =>
    en_cpu[c] = 0 /\ Len(inbox[c]) = 1 /\ Head(inbox[c]).opcode = "OP_CPU_PROGRAM_END"

\* A CPU is idle or runs one program; the program destroy_console is about to
\* end runs on none.
CpusKnown ==
  /\ \A c \in Cpus : TellsEnd(c)
  /\ IsInjective(cpu_conectadas) /\ IsInjective(cpu_executing)
  /\ Range(cpu_conectadas) \cap Range(cpu_executing) = {}
  /\ \A c \in Range(cpu_conectadas) \cup Range(cpu_executing) : peer[c] = "open"
  /\ \A c \in Cpus \ Range(cpu_executing) : Job(c) = 0
  /\ main.at = "end" => Head(main.rest) \notin Range(cola["EXEC"])

\* Who submitted a program is the only one to own it; a console that is being
\* destroyed is no longer connected.
Owners ==
  /\ \A c \in Consoles : \A p \in Range(pids[c]) : p <= generatorPid
  /\ \A c, d \in Consoles : c # d => Range(pids[c]) \cap Range(pids[d]) = {}
  /\ main.at \in {"destroy", "end"} =>
       /\ Lowest(read_fds) \notin Range(consolas_conectadas)
       /\ Range(main.rest) \subseteq Range(pids[Lowest(read_fds)])

\* Every program is somewhere, and once among those that are over.
Somewhere ==
  /\ IsInjective(cola["EXIT"]) /\ term.aux \notin Range(cola["EXIT"])
  /\ \A p \in 1..generatorPid : Queued(p) \/ p = main.pid \/ p = term.aux

\* What has not been allowed has not happened.
OnlyAllowed ==
  /\ "kill" \notin Allowed => term.at \in {"idle", "locking"}
  /\ "logout" \notin Allowed =>
       /\ main.at \notin {"destroy", "end"}
       /\ \A c \in Consoles : \A k \in DOMAIN inbox[c] : inbox[c][k].opcode # "OP_UNDEFINED"

\* OrphansEnd, and the same while destroy_console is within end_program.
OrphansDone ==
  main.at \in {"destroy", "end"} =>
    \A p \in Range(pids[Lowest(read_fds)]) \ Range(main.rest) :
      p \in Range(cola["EXIT"]) \cup Range(cola["EXEC"])

\* Within planificacion the main thread holds the lock.
LockHeld ==
  main.at \in {"admit", "pop_new", "take_new", "admitted", "dispatch", "pop_ready", "take_ready"}
    => mutex = "main"

\* What planificacion has tested still holds when it acts on it.
StillThere ==
  /\ main.at = "pop_new" => cola["NEW"] # <<>>
  /\ main.at = "take_new" => main.nodo \in Range(cola["NEW"])
  /\ main.at = "pop_ready" => cola["READY"] # <<>>
  /\ main.at = "take_ready" => main.nodo \in Range(cola["READY"])

\* One more program fits while one is admitted.
RoomForOne == main.at \in {"pop_new", "take_new"} => InSystem < multipg_level

\* codes_ms has the codes of the programs of pcb_new, in the same order.
CodesInStep ==
  cola["NEW"] = IF main.at \in {"pop_new", "take_new"} THEN <<main.code>> \o codes_ms
                                                      ELSE codes_ms

\* No more programs are numbered than were submitted.
Pending == UNION {{c} \X {k \in DOMAIN inbox[c] : inbox[c][k].opcode = "OP_NEW_PROGRAM"} :
                  c \in Consoles}

Submitted == generatorPid + Cardinality(Pending) <= enviados /\ enviados <= MaxPids

----------------------------------------------------------------------------
(* What the documentation says and the code does not do.                   *)

\* console.c:10, "multipg <deg> - cambia del grado de multiprogramación del
\* sistema": while the system has fewer programs than its degree, none waits.
DegreeTakesEffect ==
  (cola["NEW"] # <<>> /\ InSystem < multipg_level)
     ~> (cola["NEW"] = <<>> \/ InSystem >= multipg_level)
=============================================================================
