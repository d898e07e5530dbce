# A verification development for ESTheR (tp-2017-1c-System-Buzz)

ESTheR is a distributed simulation of an operating system in C: programs written
in the teaching language AnSISOP are submitted at consoles, scheduled by a
kernel process, executed by CPU processes and held in the frames of a memory
process. This directory has TLA+ models of it, the TLC runs that check them and
proofs for TLAPS. Names follow the source (Spanish and English mixed, as there).

## The system

| Part | State | Operations | Talks to |
|---|---|---|---|
| Kernel, main thread (`Kernel.c`, `server.c`, `exitcode.c`, `pcbutils.c`) | lists `pcb_new`, `pcb_ready`, `pcb_exec`, `pcb_block`, `pcb_exit`; `codes_ms` (texts of programs not admitted yet); `consolas_conectadas`, `cpu_conectadas` (idle), `cpu_executing`; `multipg_level`; `mutex_planificacion` | one pass per `select`: accept, take new programs, handle what CPUs send, bury consoles; then `planificacion`: admit at most one program (pages and text to Memoria), dispatch while there is a ready program and an idle CPU | consoles, CPUs (sockets, asynchronous), Memoria (request and reply) |
| Kernel, terminal thread (`console.c`) | the same lists | `kill`, `multipg`, `stop`, `restart`, and commands that print | shares memory with the main thread; takes the lock only for `stop`/`restart` |
| Kernel, system calls (`syscall.c`) | semaphores, their queues, shared variables | end of program, wait, signal, read and write of a shared variable | CPUs |
| Memoria (`server.c`, `page_table.c`) | page table (owner and page of each frame), main memory | `set_pages`, `clear_pages`, `get_frame`, `get_bytes`, `set_bytes`; one thread per client, no lock | Kernel, CPUs |
| Memoria, cache (`cache.c`) | list of entries in order of use | write, read, flush | created and flushed, not yet called by the server |
| Memoria, hash table (`hash_table.c`) | array of rows | add, search, delete | created, never used |
| CPU (`CPU.c`) | the PCB it runs: program counter, index of the stack | fetch and execute until the end, overflow or quantum; AnSISOP primitives | Kernel, Memoria |
| Consola (`Consola/src`) | list of its programs, one handler thread each, a receiver thread | run, kill, logout | Kernel |
| Common | linked lists with a mutex, packets and serialization, sockets, threads | | everything |
| File_System | a stub | | |

What is hard here: two Kernel threads on the same lists with and without the
lock; clients that leave while their programs are anywhere; two lists that must
stay in step (`codes_ms` and `pcb_new`, `pcb_exec` and `cpu_executing`); a page
table shared by threads with no lock at all; a CPU and a Kernel that each
believe something about who runs what; PCBs freed while a list still has them;
a console whose threads free programs under each other. `PROJECT.json` lists the hazards with
their lines.

What makes each part correct:

- *scheduler*: every PCB in exactly one list; first come, first served; never
  more programs than the degree of multiprogramming; a CPU runs one program and
  the Kernel knows which; a program in the system has pages, with its own text,
  and one out of it has none; owners are told of an end once; every submitted
  program ends;
- *terminal*: commands act on the program that was named, terminate, and `stop`
  stops;
- *Memoria*: each program has an address space of its own that nobody else
  writes, whole while the program lives and given back when it ends;
- *cache*: a hit gives what was last written; limits per program; LRU;
- *CPU*: a function returns to its caller, variables do not overlap;
- *system calls*: who is blocked waits at the semaphore its line names, and only
  such programs wait;
- *serialization*: who receives a PCB has the one that was sent;
- *lists*: nodes are one list in both directions, whoever works on it;
- *Consola*: each pid belongs to the program that asked for it, and a program
  that ended is reported once.

## The modules

| Module | What it is |
|---|---|
| `Mlist` | what the calls of `mlist.c` do to the sequence of elements |
| `MlistProofs` | theorems about those operators |
| `Planificador` | the Kernel's two threads, with their peers |
| `PlanificadorProofs` | theorems about `Planificador`: types and order of arrival; where the PCBs are and who is told of their end; what the Kernel's counts and lists say of each other and of Memoria |
| `ProgramSpaces` | abstract: what Memoria promises its clients |
| `Memoria` | page table, threads and clients; implements `ProgramSpaces` |
| `MCMemoria` | symmetry of the CPUs for TLC |
| `MemoriaProofs` | theorems about `Memoria`: its page table and who uses it; the bytes: it implements `ProgramSpaces`, and CPUs get their own text |
| `Cache` | Memoria's cache |
| `CacheProofs` | theorems about `Cache` |
| `Ansisop` | external: lines of a program and the primitives the parser calls for them |
| `Llamadas` | abstract: running a program with an activation for each call |
| `Ejecucion` | the CPU's loop and primitives; implements `Llamadas` |
| `EjecucionProofs` | theorems about `Ejecucion`: its stack, its calls, the PCB it sends, and that it implements `Llamadas` |
| `MCEjecucion` | the programs TLC gives to `Ejecucion` |
| `Serial` | packing and unpacking a PCB, byte by byte; used by `Ejecucion` |
| `SerialProofs` | theorems about `Serial`: what is unpacked is what was packed |
| `Semaforos` | `gestion_syscall` and the primitives of the CPUs that call it |
| `MCSemaforos` | the programs TLC gives to `Semaforos` |
| `SemaforosProofs` | theorems about `Semaforos` |
| `ListaEnlazada` | the nodes behind an `mlist` |
| `Consola` | a console: terminal, receiver and handlers; its list implements `Mlist` |
| `ConsolaProofs` | theorems about `ListaEnlazada` and `Consola` |

### Planificador

The main thread is a program counter `main.at` with the places `select`, `serve`
(the pass over the descriptors), `destroy`/`end` (inside `destroy_console`),
`admit`, `pop_new`, `take_new`, `admitted`, `dispatch`, `pop_ready`, `take_ready`
(inside `planificacion`), `crashed` (it dereferenced the NULL of an empty list) and
`corrupt` (below). The terminal thread is `term`. A step is one list call, or a
longer section when the other thread touches nothing it uses; and `mlist_pop` is
two, since `get_node` finds the node with no lock and `remove_node` then takes it out
under the lock of the list and frees it:

- the sections under `mutex_planificacion` that only append to lists, or touch
  `pcb_exec` and `pcb_exit` alone, where `kill` never looks, are one step
  (`NewProgram`, `ProgramEnds`);
- `destroy_console`, which takes no lock, is a step for the console, two for
  each of its programs (look-up, end) and one to close;
- `planificacion` is cut at every list `kill` may touch: the test of line 125,
  the pop of the code, the node of the PCB (`FindsNew`), its removal with the
  conversation with Memoria (`AsksForPages`), the append; and for dispatching the
  test of line 199, the node (`FindsReady`) and the rest of its body;
- `kill` is cut into the search of one list, the node at the position found
  (`KillFindsNode`), its removal (`KillPops`) and the append.

Both threads may so hold the same node. The one that comes second removes what is
free already and takes a PCB the other one has too (`TakesAgain`, `KillTakesAgain`). In
the same way a thread may free a node the other one is walking over, or both may find
`pcb_exit` empty and append to it (`Clashes`, with `MainInside` and `MainFrees` for where the
main thread is). What a program does after that is undefined: the behaviour ends, in
`corrupt`. What is checked with `kill` is what holds up to there; that it gets
there is in the known disagreements below. The search of one list by
`kill` is a single step; what its calls of `mlist_length` and `mlist_get` could meet in between is
a node being freed, which is `Clashes`.

Sockets are FIFO sequences of messages (`inbox`), the reply of Memoria is part
of the step that asks (the Kernel blocks for it), and what Memoria does with
the pages is summed up in `paginas`: whose text they hold. `Allowed` says which
disturbances an instance has, so that each run asks one question.

`peer[f]` goes `out`, `backlog`, `open`, `closed`: each client connects once. A
CPU does not disconnect and descriptors are not reused.

### Memoria and ProgramSpaces

`page_table`, `main` and one record `hilo[c]` per client's thread: the request it
serves and its place in it. A step is one row of the table, with owner and page
written in two steps, so that every interleaving of `set_pages`, `clear_pages`
and the look-ups of other clients occurs. Copying bytes is one step;
`FramesApart` says no two threads copy in one frame at a time, so nothing finer
could be seen. The Kernel side of the model is the traffic `planificacion` and
`end_program` produce; the CPU side is fetch, read and write.

A byte stands for what it means, `<<program, address, value>>`. The refinement
mapping `espacio` is, for each program in memory, the bytes found through
`get_frame`; `pedido` the request until its copy; `leido` the reply. So
`ImplementsSpaces` says that the copy, which happens several steps after the
look-up, acts as a single access to the program's space as it is at that time.

### Cache

The three operations, each one step: one thread would call them. `escrito` (what
each page was last written with) is a history variable.

### Ejecucion and Llamadas

`ejecutarPrograma` is the place `en` (`libre`: waits for the Kernel; `bucle`: the
test of line 97; `linea`: within a line) and `linea`, the primitives the line has
still to call. A step is one primitive. What a line calls is the work of the
library ansisop-parser, which is not in the repository; `Ansisop` has it as the
primitives of `CPU.h` use it.

The code keeps page and offset of every variable and only ever puts them
together again, so a position here is a byte of the stack; `memoria` has the
values at those a variable can have. `asignar` packs a value in 16 bits. The
reading and writing of stack pages is part of the step, since nobody else uses
them (`Memoria`). `Volver` resets what is not read again before the next PCB
replaces it, the code's leftovers being of no consequence.

`Llamadas` has an activation for each call, with its variables, its arguments
and where it goes back to. The refinement mapping reads the activations off the
index of the stack and `memoria`; the instruction after the line is the program
counter, plus one within a line. `ImplementsCalls` so says that positions,
stack pointer, program counter and flags, each kept by several primitives, come
to calls that do not disturb each other, ends that are reported once and quanta
that are exact.

The programs given are well formed, as those of `Scripts/` are (two labels apart):
a name is declared once and before use, main declares before its first call, a
function that returns a value is called for one, values fit in 16 bits, and there is
one label, which is also the first. `BienHecho` says so of every line when it is
done. That is not of the program's text alone: it takes that the CPU comes to the
line with the context the program had in mind, which is why it is checked. What
happens with other programs is under the known disagreements.

### Serial

The functions of `serial.c` that pack and unpack a PCB, as operators from values to
sequences of bytes and back. The side that reads walks over the buffer by the
widths it knows, so a wrong width anywhere spoils what is behind it. `PcbTravels`
evaluates them in every state of `Ejecucion`, on the PCB the CPU has just then:
with calls under way, with arguments, and at every program counter. Whoever packs a PCB
does so in a buffer of `BUFFER_CAPACITY` bytes (`CPU.c:77`, `Kernel.c:200`) and does not look
whether there is room; `CabeEnBuffer` is that there is, and `PcbTravels` asks for it
too. Characters stand
for themselves; of the letters of a format only those a PCB uses are there.

### Semaforos

The Kernel unpacks the PCB of each request to newly allocated memory and frees the
ones it takes out of its lists, so the lists hold addresses (`Dirs`) and `pcb` is
the heap. `free` writes over the first field, `idProcess`, so what was freed
reads as nobody's PCB; `alloc` may give out such an address while a list still has
it (`Alloc`), and the list then holds the PCB of another program. A CPU that gets
nobody's PCB, or goes on with a program whose pages were given back, fetches what
is in frame 0 (`page_table.c:74`) and is `perdida`: what the parser makes of those
bytes is not in the repository.

The Kernel's main thread is in `select`, serves the CPUs of a pass (`pasada`) in
the order of their descriptors, or dispatches (`planifica`). A CPU that makes a
system call goes on running, except to wait for the value of a variable; what it
sends and what the Kernel sends are FIFO sequences. Programs have been admitted
before, and have no loops: how they come is in `Planificador`, what a jump
does in `Ejecucion`. Names are found among `SEM_IDS` and `SHARED_VARS`.

### ListaEnlazada and Consola

`ListaEnlazada` has the fields of `struct mlist` and of its nodes, and what
`insert_after` and `remove_node` do to them. `Consola` uses them between threads:
a step is one relinking under the lock, or one reading of a field that others may
write: the tail in `mlist_append`, the node a traversal is at, the status of a
program, its semaphore, `console.active`. The thread that is in `mlist_clear` has
the lock (`mutex`). `thread_kill` is a signal, which only matters to a thread
in `recv` (it fails, and reads as `OP_UNDEFINED`) or in `sem_wait`, and a join,
which returns at once for the thread itself. The Kernel of this module numbers the
runs in their order and ends each program once; `OP_PROGRAM_KILLED` it ignores.

What was freed may hold anything. To use it, or NULL, takes the model to
`vida = "rota"`, and the properties are about the states before. `ImplementsMlist`
says that, read from head to tail, the nodes go through the steps of `Mlist`:
`Append`, or `Without` an element. `HandlersOutlived` and `WakeUpsKept` leave
out the states after a handler began before its program was in the list
(`Confundido`), and `OwnPid` also assumes that a run is typed once the one before
has its pid (`Apurado = FALSE`): see the known disagreements for both.

## The runs

| Run | Instance | Checks | Shows |
|---|---|---|---|
| `planificador_base` | 2 consoles, 2 CPUs, degree 2, 3 programs, nothing odd | `TypeOK DegreeRespected OwnCode ExecMatchesCpus EverySubmittedEnds` | with nobody at the terminal the scheduler is right |
| `planificador_logout` | the same with consoles that leave, refusals, stop/restart | `PagesMatchQueues ToldOnce OnePlace OrphansEnd KernelSurvives PlanningStopped` | leaving consoles and refusals leak nothing, and nobody is forgotten |
| `planificador_kill` | 2 consoles, 1 CPU, refusals, and every command: kill, multipg 0 or 2, stop (also twice), restart (also while not stopped) | `FifoOrder OnePlaceUntilClash CodesKeepUp ExitIsFinal` | what survives the race with the terminal, until the threads use the same node |
| `planificador_multipg` | multipg, fair | violates `DegreeTakesEffect` | the planner sleeps below its degree |
| `planificador_code_swap` | kill | violates `OwnCode` | programs run each other's text |
| `memoria_base` | 4 frames of 2 bytes, 2 CPUs, texts of 1 and 3 bytes, 3 programs | `TypeOK PagesWhole FrameInHand FramesApart FetchesOwnCode ImplementsSpaces` | address spaces are private and whole without a lock |
| `memoria_straddling` | instructions across pages | violates `FetchesOwnCode` | reads on in another page's frame |
| `cache_base` | 3 entries, 2 per program, 2 programs, 3 pages | `TypeOK HoldsLastWritten OneEntryPerPage MaxPerProgram KeptWhileRoom` | hits are right, limits hold |
| `ejecucion_base` | 6 variables fit; the programs of `Scripts/` and every small one with one function | `TypeOK StackApart CallersWait ImplementsCalls PcbTravels BienHecho` | one stack of bytes acts as an activation per call, and a PCB arrives as it was sent |
| `ejecucion_etiquetas` | `Scripts/stackoverflow.ansisop` | violates `JumpsReachTheirLabel` | only the first label is ever found |
| `consola_base` | 2 runs, kills of any pid, logout, a Kernel that ends programs or closes | `TypeOK ListWhole ImplementsMlist OwnPid HandlersOutlived WakeUpsKept` | the list stays whole between threads; handlers, wake-ups and pids are in order |
| `semaforos_base` | 2 CPUs and six pairs of programs | `TypeOK BlockedAtTheirSemaphore` | `pcb_block` and the queues agree |

**Bounds and why they are enough.** *Planificador*: three programs with degree 2
have one waiting while two run, which is what every property about waiting,
popping and order needs; two consoles so that one may leave while the other
works; descriptors 5..8 alternate consoles and CPUs so that a pass serves both
kinds before and after each other. One CPU in the kill run is enough to have a
ready list that is not empty. *Memoria*: with four frames a program of one text
page takes two and one of two pages takes three, so that programs are refused,
and frames are freed and given again in another order; two CPUs run while the
Kernel loads a third program. *Cache*: three pages per program with two entries
allowed reach the limit; six pages compete for three entries. *Ejecucion*: two pages of
12 bytes hold six variables, so that main and two calls fit, on both pages, and
recursion overflows on an argument if main has two variables and on a variable
if it has three; new pages hold 0 or 1 (`Relleno`); no program
without an end counts, so values stay within `Valores`, -1 to 8. Quanta of 0, 6
and 9 cut programs between lines of main and of a function. *Consola*: two runs are
enough for a list with a first, a last and a neighbour, for a kill of one while
the other ends, and for `MAX_PROGRAMS` to be reached; with more runs there are only
more neighbours. *Semaforos*: pairs of programs so that one waits before or
after the other signals, twice on one semaphore or on two in opposite orders, reads
a variable twice (the second time the Kernel has sent it a PCB) or assigns one;
semaphore `a` starts at 0 and `b` at 2, which lets one wait through; six addresses,
which never run out. `MaxPids`, `Levels`,
`CodeSizes`, `Values`, `Contents`, `Programas`, `Valores`, `Relleno`, `Nodos`,
`MaxPrograms`, `Textos` and `Dirs` are the only bounds; all are constants. `CHECK_DEADLOCK FALSE` where the system stops for good: every program
submitted, nobody typing, the Kernel in `select`; a CPU the Kernel believes
to be running after an overflow; a console that has ended, crashed or locked
itself up; programs that are over or blocked.

**Fairness.** `FairSpec` of `Planificador`: the main thread runs when it can
(the scheduler of the host; it blocks only in `select` and in the lock), the
terminal finishes a command it began, a connection under way is made, and a
CPU comes to the end of its program (AnSISOP programs may loop: for those
nothing is claimed). Nobody is assumed to submit, type or leave. No strong
fairness. The violation of liveness (`planificador_multipg`) is found under the
same fairness. The other modules state no fairness: all that is said of them is
safety.

Symmetry is used for the CPUs of `Memoria` (safety and a refinement without
liveness only). In `Planificador` descriptors are ordered, so there is none.

## Known disagreements without a run

Met while modelling, in the code but not worth a run each:

- `kill` looks a program up in a list and then pops the same position, with no
  lock (`console.c:84-89`): a dispatch or an admission in between moves the list,
  and another program than the one typed is taken out, where line 9 has "finaliza
  el programa correspondiente al PID ingresado".
- `mlist_pop` looks its node up before it locks the list (`mlist.c:115`): `kill`
  (`console.c:87`, `109`) and `planificacion` (`Kernel.c:130`, `201`) may both have
  found the same one. Then one PCB is in `pcb_exit` and also admitted or with a CPU, the
  length of the list is one too small and the node is freed twice: `OnePlace` is violated
  with `Allowed = {"kill"}`, by one console, one CPU and two programs.
- Lists with a lock are also walked, and their tails read, without it (`mlist.c:82`,
  `276`, `295`): a node may be freed under a thread that walks over it, and of two
  threads that find `pcb_exit` empty the second appends to a NULL tail. In the model
  these are `Clashes`.
- After a stack overflow the CPU goes back to wait for the Kernel without sending
  it anything (`CPU.c:116`, the call is commented out), and the Kernel keeps
  program and CPU in its lists for good, where line 194 has "Se finaliza el
  proceso". `ImplementsCalls` has it as the code does (`desborda`, no `avisos`), so
  that no property catches it.
- The entry replaced is meant to be the least recently used (`cache.c:62`); a
  read moves its entry to the end (`cache.c:90`) but a write does not:
  a page just written may be the one replaced. No property is about that order.
- A quantum that is over is reported as the end of the program
  (`CPU.c:106`), and `end_program` ends it. `Llamadas` has it as the code does, so
  that no property catches it.
- `kill` of a program that runs, is over or never was walks the three lists for
  ever (`console.c:83`), where the help of line 9 promises an end. In the model
  `term` goes round from the last list to the first.
- A second `stop` locks a mutex the terminal itself holds (`console.c:119`), after
  which the `restart` of line 12 can never be typed: `StopsPlanning` is disabled
  for good (`"twice"`).
- A `restart` that follows no `stop` frees the lock of the main thread
  (`console.c:121`), so that a `stop` typed while a section runs stops nothing:
  with `"stray"`, `PlanningStopped` is violated.
- A text that exactly fills its last page has it sent with size 0, which Memoria
  refuses (`Kernel.c:155`): `FetchesOwnCode` is violated with `CodeSizes = {2}`.
- `kill` of a ready program appends it to the exit list without telling Memoria
  (`console.c:75`), so its pages are not given back: `PagesMatchQueues` is
  violated when `"kill"` is allowed.
- The programs of a console that leaves get its code whatever they ended with
  (`server.c:89`), where `structures.h:59` has the exit code tell how a program
  ended.
- Memoria knows a program by `usrpid`, one byte (`protocol.h:37`): programs 1 and
  257 share their pages, and program 256, there number 0, is refused.
- `finalizar` and `retornar` take the last context for that of main: if main
  declares nothing before its first call, that function's end ends the program.
- `retornar` in a function called without a value writes it at position 0, the
  first variable of main (`t_stack_create`).
- A value is sent as 16 bits (`CPU.c:329`), a variable being 4 bytes.
- The number of an argument is compared with `>` (`CPU.c:266`), so that the one
  after the last is the NULL of `list_get`.
- An argument that does not fit is still assigned, at position -1: page 0,
  offset -1 (`CPU.c:193`).
- `wait` decrements first and then asks for more than 0 (`syscall.c:28`): a
  semaphore of 1 blocks its first user. A PCB that is awakened is at the line of
  the wait, and waits again; the CPU that made the request goes on from there all the
  while (`CPU.c:513`), since `procesoBloqueado`, for which `CPU.c:109` has "Finalizo
  ejecucion por proceso bloqueado", is never set. That a blocked program does not run
  is violated in the instance of `semaforos_base`.
- `signal` appends its caller to the queue before it takes the first one from it
  (`syscall.c:37-40`), so that a queue never gets shorter and a signal with nobody
  waiting queues, and awakens, its own caller.
- The PCB that is awakened goes to `pcb_ready` and is freed in the same call
  (`syscall.c:41-46`), being the one found in `pcb_block`: what is dispatched is
  freed memory.
- After a shared variable is used its program is in no list (`syscall.c:76`), and its
  CPU is taken for idle: the PCB the Kernel sends it next is read as the value
  if the program asks for another (`CPU.c:484`), and that program is lost.
- A CPU is taken for idle after every system call and so may be in
  `cpu_conectadas` twice (`server.c:123`), with two PCBs in its socket.
- The end of a program that stays alive in another PCB (a wait that was let
  through) gives its pages back under the CPU that runs the other one.
- `serial_pack_pcb` does not look at the 1024 bytes of its callers' buffers
  (`CPU.c:77`, `Kernel.c:200`): a header of 18 bytes, 4 for each instruction, 4 and the name for each
  label, 12 for each call and 7 for each variable are soon more, with 252
  instructions for one. `PcbTravels` is violated by a program of that size.
- A call of a function without arguments that declares nothing takes no byte of the stack
  (`CPU.c:370`), so that such calls go on with no stack overflow, until the PCB does not fit
  in a buffer.
- The number of an argument is never set (`definirVariable`), so that all the
  arguments of a PCB have the same one.
- The handler of a program starts before the program is in the list
  (`Consola.c:28`), and takes for its own the last one there: NULL for the
  first run, else the program before it.
- Two runs typed one after the other: the pid of the first is given to the second
  (`message_receiver.c:24`). Without the assumption `~Apurado` in it, `OwnPid` is
  violated with `Apurado = TRUE`.
- `kill` does not kill: the Kernel has no case for `OP_PROGRAM_KILLED`
  (`server.c:61`), and when the program ends by itself, the receiver does not find
  it and writes through NULL (`message_receiver.c:31`).
- A program killed before its handler first looks at its status is reported as
  ended (`program_handler.c:46`).
- `logout` joins the receiver, whose signal is lost if it is between the test of
  `active` and `recv` (`Consola.c:55`): it then waits until the Kernel sends
  something. And `mlist_clear` joins handlers with the lock held, while one
  that ends waits for it in `remove_node` (`mlist.c:216`): both for good.

## What is proved

With TLAPS, for all values of the constants that satisfy the modules' named
assumptions: any consoles, CPUs, programs, frames and sizes. Where a theorem has a
hypothesis of its own, it is because the property fails without it, and the
disagreement behind it is above.

**The scheduler** (`PlanificadorProofs`).

| Theorem | States | If | Because otherwise |
|---|---|---|---|
| `TypeCorrect` | `TypeOK` | | |
| `Fifo` | `FifoOrder` | | |
| `ExitFinal` | `ExitIsFinal` | | |
| `ExecMatches` | `ExecMatchesCpus` | | |
| `OwnerToldOnce` | `ToldOnce` | | |
| `CodesSuffice` | `CodesKeepUp` | | |
| `OneUntilClash` | `OnePlaceUntilClash` | not both `kill` and `logout` in `Allowed` | both threads may append one PCB to `pcb_exit` |
| `OneAtATime` | `OnePlace` | no `kill` | both threads may take the same node out |
| `Survives` | `KernelSurvives` | no `kill` | it pops between a test and a pop of the main thread, which finds NULL |
| `OrphansOver` | `OrphansEnd` | no `kill` | it has a PCB in hand where `destroy_console` does not look |
| `PagesMatch` | `PagesMatchQueues` | no `kill` | it leaves the pages of a ready program in Memoria |
| `CodesOwned` | `OwnCode` | no `kill`, no `logout` | both take a PCB from `pcb_new` and leave its text in `codes_ms` |
| `DegreeHolds` | `DegreeRespected` | no `multipg` | the level may be lowered under programs that run |
| `StopStops` | `PlanningStopped` | no stray `restart` | it frees the lock of the main thread |

- The type invariant needs `InHand`: between its steps each thread still has what it
  looked at before them (the message of a descriptor to be served, the connection to
  be accepted, the program being ended). Without it `Head(inbox[c])` could be of an
  empty sequence and typing would be lost.
- `FifoOrder` needs `Numbered`, that lists only have pids given already, so that a new
  program goes last, and `FirstInHand`, that nothing comes before a node the main thread
  has found first in its list. `kill` is no special case: removing at any position keeps a
  list increasing.
- `OnePlaceUntilClash` is about cardinalities, and what is inductive are the facts from which
  they follow, in all states, `corrupt` included: each list has a program once (`Line`), no two lists have one
  (`BetweenLists`), a program that a thread has in hand is in none (`OutOfLine`),
  and every program that was accepted is somewhere (`Somewhere`). A thread that holds a
  node has nothing in hand yet: the PCB is still the list's. Without `kill` there is
  nobody to clash with, and `OneAtATime` follows. That the owner is
  told once rests on `TellsEnd`: who is not told yet is not over.
- `ExecMatchesCpus` and the end of a program rest on `Owners` and `CpusKnown`: a CPU
  is idle, running or about to be accepted, and one of these only.
- `DegreeRespected` and `KernelSurvives` are about a test and an act with steps in
  between: `RoomForOne` and `StillThere` say that the test still holds at the act,
  which is what the lock and the thread's own order of steps are worth (`LockHeld`).
- `OwnCode` and `CodesKeepUp` say of two lists that they go in step: `CodesInStep`,
  `Pending` and `Submitted` number the texts as the programs are numbered. Removing
  from both at one position is `WithoutInStep` of `MlistProofs`.
- `PagesMatchQueues` and `OrphansEnd` use what is proved of places, and `OrphansDone`:
  the programs `destroy_console` has passed over are over.
- `MlistProofs`: `WithoutProperties`, `PoppedIncreasing`... what removal and pop do to a
  list. `Without` is defined by ranks, not by recursion, so that this can be proved;
  the lemmas `LeastNatural` to `RankReached` show the ranks enumerate the positions
  that stay.

**The cache** (`CacheProofs`). `CacheTypes`, `NoStaleHit`, `OneEntry`, `ShareKept` and the action
property `RoomUsedFirst`, without hypotheses. The properties are inductive together
with the types. A read rebuilds the list: the entry it found goes to the end and the
ones behind move up. `ShareKept` is shown by an injection from the new places of a
program's entries to the old ones.

**Memoria** (`MemoriaProofs`). `MemoriaTypes`, and for `PidsFit` (the pids fit in `usrpid`; pid
`UsrpidValues + 1` has the pages of pid 1) `PagesAreWhole`, `FrameStaysInHand` and
`FramesAreApart`. There is no lock to argue from; the argument is who asks for what:

- The Kernel waits for one answer at a time (`KernelTalks`), and a CPU only asks for
  pages of the program it runs, which is in memory until the CPU sends it back
  (`CpusTalk`). So `set_pages` and `clear_pages` run alone, and never for a program
  that somebody looks for.
- In the middle of `set_pages` for p, the rows of p have the pages from `hilo.pages`
  up, each once, all behind the row the thread is at, and there are enough free
  rows ahead (`Assigned`); in the middle of `clear_pages` no row behind is p's
  (`Cleared`). All other rows are free or of programs in memory (`Owned`), which have
  their pages each once (`Numbers`).
- A look-up in progress has not gone past the row it looks for, and one that has
  found it still has it (`RequestsHeld`), because nobody writes that row.
  `FramesApart` follows: two threads in `copy` hold different programs' pages.

On these rest `MemoriaImplementsSpaces` (`Spec => ImplementsSpaces`), if no instruction
crosses the end of a page, and `CpusFetchOwnCode` (`FetchesOwnCode`), if moreover no text
exactly fills its last page (`LastPageShort`). Neither holds without the first (`memoria_straddling`),
nor the second without the other (`CodeSizes = {2}`).

- `Aims` says what is asked for: the Kernel stores the page it is at, with its text; a
  CPU stays within a page, writes behind the text and reads no text past its end.
- `Cell(p, a)` is where byte a of the space of p is. `CellsApart`: no two bytes of the
  spaces share a cell, since frames are owned once and a division by the page size has
  one quotient and one rest. `CellsKept`: while a program is in memory its cells do not
  move, whatever rows other programs get or lose (`RowsKept`).
- `ReadIs` and `WriteIs` then say that a copy to or from a frame is one to or from the
  space at `Address(c)`, and each step is one of `ProgramSpaces` or a stutter: a look-up
  and all of `set_pages` and `clear_pages` stutter, the copy is the access.
  The program's space appears when the Kernel learns of the pages, and goes when it
  asks to have them cleared. That no request meets a space that goes is part of the
  abstract specification, and is shown here.
- `TextStored` is what makes the text whole: what has been stored so far stays, and a page
  the Kernel has the answer for is stored before `pag` counts it.

`NothingAssumption` (the value for "no request" is no request) holds of a model value.

**The CPU** (`EjecucionProofs`). `EjecucionTypes`, `StackIsApart`, and `CallersDoWait` if in every state
`Declara`: the variable that a call is for is one its caller has declared. (A name
that is not declared is at position `EXIT_FAILURE`, and the value goes there.) The
programs of the runs satisfy it. `ProgramasAssumption` is all that is assumed of a
program: it is what the parser may produce, and its last line does not fall off the
end of the code (`Codigos` in `Ansisop`).

- `StackApart` compares any two variables of any two calls, and what is inductive is
  where each context lies. `Base(k)` is the number of variables declared below context
  k, in bytes; `Capas` says that the variables of a context are between its base and the
  next one, that positions are multiples of 4, and that the stack pointer is the base
  of the context that would come next. A declaration moves the last boundary only
  (`SeDeclara`), a call opens an empty layer (`SeAbre`), and `finalizar` gives back
  exactly one layer (`SeCierra`), which is a fact about cardinalities: the variables
  below are counted, and so are those of the context that goes.
- Types need to know that there always is a next line: `EnPrograma` says where the
  program is, at a line it has or within one that is not its last unless it jumps or
  ends. `retPos` is a line that calls a function, hence never the last, and one may
  go on behind it.
- `CallersWait` is inductive with these: a primitive adds to the last context and leaves
  those of the callers as they are (`Conserva`).

`CallsAreImplemented`: `Spec /\ []BienHecho => ImplementsCalls`. The CPU implements
`Llamadas`, for every program, stack and quantum, in the behaviours in which `BienHecho`
holds: it keeps the known disagreements out, and the runs show
that programs satisfy it. Overflows, cut quanta and calls without variables are included.

- `Rumbo` is what is inductive under `BienHecho`: `IInv`; `Fases`, what the two flags and
  `ocupada` tell at each place of the loop (`FasesStep`, which needs no hypothesis);
  `CallersWait`, for the place a value is returned to; and `Contenido`, that the names of
  a call are apart and every place of the stack has a value.
- `Activacion(c, mem)` reads an activation off a context, and `Visto` is the mapping without
  its cases. What is written at one place changes one name of one call: a context
  that has the place gets one assignment (`Puesta`) and any other none (`NoCambia`),
  by the layers of `StackApart`. `UnaVariableMas` and `UnArgumentoMas` are the same for a
  declaration and an argument, `CerrarRef` for the end of a call.
- The abstract calls overflow when the cells declared are as many as fit, the CPU when the
  stack pointer is at its end. `HayLugar` is that these agree, by counting the variables of all
  contexts with a bijection onto the layers below the pointer (`CuantasDeclaradas`).
- Then one lemma for each action (`RecibirRef`, `LlamarRef`, `RetornarRef`...), with `RefStep`
  to put them together.

**The PCB on its way** (`SerialProofs`, `EjecucionProofs`). `PcbUnpacks`: `serial_unpack_pcb` gives back
every PCB that was packed, of whatever length, if it is in `PcbsH`: its numbers and counts
fit in 16 bits and its names, with their final 0, in the 64 bytes of `tag`. From it
`PcbsDoTravel`: `PcbTravels` holds in every state of a CPU in which the PCB fits in the
1024 bytes it is packed in (`CabeEnBuffer`), if the numbers of the programs and the size of the
stack fit in 16 bits (`CabenEn16Bits`); the programs of the runs do. That the contexts are few enough
to be counted follows from the buffer: each takes a byte of it at least (`OneByteEach`,
`StackIsLong`, `PcbIsLong`). In these models a label is one
character, so `PcbUnpacks` says more of names than `PcbsDoTravel` does.

- `Esta(buf, t, b)` says that the bytes b are in the buffer behind the first t, and that is
  all a reader knows. For each piece, a number, a position, a list of variables, a
  context, a label, one lemma says what bytes the packing makes (`PackedVars`,
  `PackedContext`...) and one what the unpacking finds there and how far it has come
  (`ReadVars`, `ReadContext`...).
- A list is packed as its pieces one behind the other, with where each begins
  (`FlattenRuns`, `Flattened`; `FixedPieces` for pieces of one width), and unpacked by a
  loop that has only the end of the last piece to go by. `LoopFollows` is the induction
  over its rounds: what it has after k of them is the first k elements and where the
  next begins (`OneMoreRead`, `AllRead`). `OneByOne`, on which that rests, is induction over
  an interval for a set instead of for an operator, since the latter cannot be used.
- The loops of `Serial` are recursive functions, not folds, so that a round can be named.
- That the PCBs of a CPU are in `PcbsH` needs more than the types. `Alcance` says where a
  program counter and a return position may be, `Regreso` (a line, or -1: before the first,
  where a jump to line 0 puts it and where the context of main comes from), and where a value may
  go to, `Destinos`; it is inductive together with `IInv`. `PocasVivas` counts: the variables of one
  call are some of those declared, which fit in the stack.

**The console** (`ConsolaProofs`). `TypeCorrect`, `ListStaysWhole`, `ListImplements` (`Spec =>
ImplementsMlist`), `HandlersOutlive`, `WakeUpsAreKept` and `EachItsOwnPid`, for any number of
runs. Nothing is assumed but that nodes are numbered as the runs are
(`RunsAssumption`); what breaks a property is a hypothesis of the property itself
(`Confundido`, `Apurado`), because it is about what has happened so far.

- `Linked(list, s)` says that the nodes are the sequence s in both directions, and
  everything else untied. The lemmas about `insert_after` and `remove_node` give the
  sequence of the list after them; `Orden`, the sequence read from the head, is then the
  witness of the refinement.
- The tail is read before the lock is taken, so `ListInv` says that the thread in
  `mlist_append` has the tail in its hand *if that node is still there*. If it is not,
  the append uses what was freed, and the model has left the states spoken of.
- `ClearAlone` is what the lock is worth while one thread is in `mlist_clear`, which joins
  handlers with it held: who may be where then.
- A program is freed by its own handler, or once that has ended (`FreedBy`), and before
  its node goes (`FreedFirst`, `Unlinked`); these three are inductive, and
  `HandlersOutlived` is what follows for a handler.
- `OwnPid` cannot be shown from what it says of pids that are set. The receiver gives a
  pid to the last program of the list, so that one must be the one it was given
  for: `LastWaits` says that only the last run may be without a pid, `Waits` and
  `Unsent` that until then nobody has touched it, `PidOnce` and `OnItsWay` that its
  pid comes once.

**The semaphores** (`SemaforosProofs`). `TypeCorrect` and `BlockedWhereQueued`, without hypotheses, for
programs whose last line is `end` (`TextosAssumption`).

- For types, what has to be carried along is that each PCB is at a line of its program,
  wherever it is: in the heap, in a CPU, in a request or on its way to a CPU
  (`EnLinea`). A CPU that waits for a value is at a line that asks for one
  (`Cpu1`), hence not at the last: the line after it exists.
- `BlockedAtTheirSemaphore` is inductive with the types. What a request does to the
  heap is said once (`Received`): a PCB that is still allocated is what it was, or it is the
  one of the request, at an address that no list had. A wait adds the PCB to both
  sides. A signal takes the first of a queue by its position and the PCB out of
  `pcb_block` by its id: the two agree since the PCB at that address, if it is in
  the list, is found there and freed (`Freed`), and whoever is not freed stays where
  it was (`NotFreed`). The history variable `reusadas` is what keeps out the addresses of
  which this is not so.

Only model-checked: liveness (`EverySubmittedEnds`) and what the runs show to be
violated. Liveness is beyond the prover. Every invariant,
action property and refinement of the runs that pass is proved, but for the condition
`BienHecho`, which is about the programs given.

## What is not modelled

- Pointers and the heap of AnSISOP programs, and files: the code has no primitives
  for them. File_System, `memlayer.c`, `queue.c` and `stack.c` are stubs or unused,
  and so are the operations of `mlist.c` other than those of `Mlist`.
- The hash table of Memoria, which nothing calls: its functions are not yet in a
  state to have properties (`table_complete` starts its loop at an uninitialised
  index, `add_element` tests a slot it does not write).
- CPUs that disconnect, and the end of a client's thread in Memoria: what happens
  then depends on descriptors being reused and on SIGPIPE. Partial reads and clients
  that crash in the middle of a packet.
- The debug command of the console, which imitates messages of the Kernel, and
  printing, for which the Kernel has no message.
- In `Semaforos`: programs that loop (a signal then makes the value of its semaphore
  grow without bound), names that are not configured, and the text of names, which
  travels without its final 0 (`syscall.c:19`). `kill` and a leaving console do to
  the queues of the semaphores what the end of a program does.
- Numbers of 8, 32 and 64 bits and floats in `serial.c`; the fixed header.
- Logging, parsing of configuration files and what is printed.

## The plan

Modelling and proving have come to what the code and the prover allow: left to TLC alone
is liveness. What would add to it is in the code, not here: once the known
disagreements are mended, the hypotheses that stand for them (`BienHecho`, `Apurado`,
`Confundido`, `Corrupt`) can go, and the properties that runs now show to be violated
become ones to prove.
