------------------------------ MODULE Memoria ------------------------------
(***************************************************************************)
(* The Memoria process: its page table (page_table.c) and the thread it    *)
(* runs for each client (server.c), which share the table and the main     *)
(* memory without a lock, with the two kinds of clients it has: the Kernel *)
(* (planificacion and end_program) starts, loads and ends programs; a CPU  *)
(* reads their instructions and reads and writes their variables.          *)
(*                                                                         *)
(* A step is one row of the page table, and within a row one column when   *)
(* it is written; the copy of the bytes is one step, which FramesApart     *)
(* justifies.  Every client waits for the answer to its last request.      *)
(* Sizes are in bytes; a byte is what it stands for: <<program, address,   *)
(* value>>, with the value 0 for the text of the program.                  *)
(***************************************************************************)
EXTENDS Integers, Sequences, FiniteSets

CONSTANTS Kernel, Cpus,    \* the clients
          Marcos,          \* MARCOS: frames
          MarcoSize,       \* MARCO_SIZE: bytes in a frame and in a page
          StackSize,       \* STACK_SIZE: pages of the stack of a program
          VarSize,         \* tamanioVariable
          UsrpidValues,    \* values of header_t.usrpid: 256
          MaxPids,         \* bound: programs
          CodeSizes,       \* bound: sizes of their texts
          Values,          \* bound: values assigned to variables
          Straddling,      \* may an instruction cross the end of a page?
          Nothing

\* As in the metadata files, variables do not cross the end of a page.
ASSUME SizesAssumption == /\ Marcos \in Nat \ {0} /\ MarcoSize \in Nat \ {0}
                          /\ StackSize \in Nat \ {0} /\ VarSize \in Nat \ {0}
                          /\ MarcoSize % VarSize = 0 /\ UsrpidValues \in Nat \ {0}
ASSUME BoundsAssumption == /\ MaxPids \in Nat
                           /\ CodeSizes \subseteq Nat \ {0}
                           /\ Values \subseteq Nat \ {0}
                           /\ Straddling \in BOOLEAN
ASSUME ClientsAssumption == Kernel \notin Cpus
\* Nothing is not a request.
ASSUME NothingAssumption ==
  Nothing \notin [op : {"OP_ME_SOLBYTPAG", "OP_ME_ALMBYTPAG"}, pid : Nat, address : Nat,
                  size : Nat, datos : Seq(Nat \X Nat \X Nat)]

Clients == {Kernel} \cup Cpus
Pids    == 1..MaxPids
Rows    == 0..(Marcos - 1)
Estados == {"new", "asking", "loading", "ready", "exec", "ending", "freeing", "over"}

VARIABLES page_table,   \* owner and page of each frame; owner 0: free
          main,         \* the bytes of the main memory
          hilo,         \* each client's thread: its request and how far it is
          programa,     \* what the Kernel knows of each program
          en_cpu        \* the program each CPU runs, 0 if none

vars == <<page_table, main, hilo, programa, en_cpu>>

Nobody == <<0, 0, 0>>   \* alloc clears the memory

Idle == [at |-> "idle", op |-> "none", usrpid |-> 0, pages |-> 0, page |-> 0, offset |-> 0,
         size |-> 0, datos |-> <<>>, i |-> 0, frame |-> 0, res |-> 0]

Init ==
  /\ page_table = [i \in Rows |-> [pid |-> 0, page |-> 0]]
  /\ main = [b \in 0..(Marcos * MarcoSize - 1) |-> Nobody]
  /\ hilo = [c \in Clients |-> Idle]
  /\ programa = [p \in Pids |-> [estado |-> "new", size |-> 0, pag |-> 0, huerfano |-> FALSE]]
  /\ en_cpu = [c \in Cpus |-> 0]

\* The header has one byte for the identifier of the program.
Usrpid(p) == p % UsrpidValues

PagesCode(size) == (size \div MarcoSize) + (IF size % MarcoSize # 0 THEN 1 ELSE 0)

Text(p, address, size) == [k \in 1..size |-> <<p, address + k - 1, 0>>]

\* A request reaches the thread of the client.
Request(c, request) == hilo' = [hilo EXCEPT ![c] = request]

Answered(c) == hilo[c].at = "answered"

TakesAnswer(c) == hilo' = [hilo EXCEPT ![c] = Idle]

Becomes(p, estado) == programa' = [programa EXCEPT ![p].estado = estado]

----------------------------------------------------------------------------
(* The Kernel.  Its main thread does one thing at a time.                  *)

KernelFree == /\ hilo[Kernel].at = "idle"
              /\ \A p \in Pids : programa[p].estado \notin {"asking", "loading", "freeing"}

\* OP_ME_INIPRO for the oldest program that waits.
AsksForPages(p, size) ==
  /\ KernelFree
  /\ programa[p].estado = "new"
  /\ \A q \in Pids : q < p => programa[q].estado # "new"
  /\ programa' = [programa EXCEPT ![p].estado = "asking", ![p].size = size]
  /\ Request(Kernel, [Idle EXCEPT !.at = "start", !.op = "OP_ME_INIPRO",
                        !.usrpid = Usrpid(p), !.pages = PagesCode(size) + StackSize])
  /\ UNCHANGED <<page_table, main, en_cpu>>

GetsPages(p) ==
  /\ programa[p].estado = "asking" /\ Answered(Kernel)
  /\ Becomes(p, IF hilo[Kernel].res # 0 THEN "loading" ELSE "over")
  /\ TakesAnswer(Kernel)
  /\ UNCHANGED <<page_table, main, en_cpu>>

\* The last page gets what is left over after the full ones.
SizeOfPage(p) == IF programa[p].pag < PagesCode(programa[p].size) - 1
                 THEN MarcoSize ELSE programa[p].size % MarcoSize

\* OP_ME_ALMBYTPAG for the next page of the text.
StoresCode(p) ==
  /\ programa[p].estado = "loading" /\ hilo[Kernel].at = "idle"
  /\ programa[p].pag < PagesCode(programa[p].size)
  /\ LET pag == programa[p].pag
     IN  Request(Kernel, [Idle EXCEPT !.at = "find", !.op = "OP_ME_ALMBYTPAG",
                            !.usrpid = Usrpid(p), !.page = pag, !.offset = 0,
                            !.size = SizeOfPage(p),
                            !.datos = Text(p, pag * MarcoSize, SizeOfPage(p))])
  /\ UNCHANGED <<page_table, main, programa, en_cpu>>

\* ... and then, always in vain, for the empty index of its stack.
StoresStack(p) ==
  /\ programa[p].estado = "loading" /\ hilo[Kernel].at = "idle"
  /\ programa[p].pag = PagesCode(programa[p].size)
  /\ Request(Kernel, [Idle EXCEPT !.at = "find", !.op = "OP_ME_ALMBYTPAG",
                        !.usrpid = Usrpid(p), !.page = 0, !.offset = 0, !.size = 0,
                        !.datos = <<>>])
  /\ UNCHANGED <<page_table, main, programa, en_cpu>>

\* Whether a page could be stored is only logged.
PageStored(p) ==
  /\ programa[p].estado = "loading" /\ Answered(Kernel)
  /\ programa' = IF programa[p].pag < PagesCode(programa[p].size)
                 THEN [programa EXCEPT ![p].pag = @ + 1]
                 ELSE [programa EXCEPT ![p].estado = "ready"]
  /\ TakesAnswer(Kernel)
  /\ UNCHANGED <<page_table, main, en_cpu>>

Dispatches(p, c) ==
  /\ KernelFree
  /\ programa[p].estado = "ready" /\ en_cpu[c] = 0
  /\ Becomes(p, "exec")
  /\ en_cpu' = [en_cpu EXCEPT ![c] = p]
  /\ UNCHANGED <<page_table, main, hilo>>

\* end_program sends OP_ME_FINPRO: the CPU is done with the program ...
EndsProgram(p) ==
  /\ KernelFree
  /\ programa[p].estado = "ending"
  /\ Becomes(p, "freeing")
  /\ Request(Kernel, [Idle EXCEPT !.at = "clear", !.op = "OP_ME_FINPRO",
                        !.usrpid = Usrpid(p)])
  /\ UNCHANGED <<page_table, main, en_cpu>>

EndsOrphanMutant(p) ==
  /\ KernelFree
  /\ programa[p].estado \in {"ready", "exec", "over"} /\ ~programa[p].huerfano
  /\ programa' = [programa EXCEPT ![p].estado = "freeing", ![p].huerfano = TRUE]
  /\ Request(Kernel, [Idle EXCEPT !.at = "clear", !.op = "OP_ME_FINPRO",
                        !.usrpid = Usrpid(p)])
  /\ UNCHANGED <<page_table, main, en_cpu>>

\* ... or its console has left, and then even if the program is over already.
\* (Programs that still wait for admission: see Planificador.)
EndsOrphan(p) ==
  /\ KernelFree
  /\ programa[p].estado \in {"ready", "over"} /\ ~programa[p].huerfano
  /\ programa' = [programa EXCEPT ![p].estado = "freeing", ![p].huerfano = TRUE]
  /\ Request(Kernel, [Idle EXCEPT !.at = "clear", !.op = "OP_ME_FINPRO",
                        !.usrpid = Usrpid(p)])
  /\ UNCHANGED <<page_table, main, en_cpu>>

PagesFreed(p) ==
  /\ programa[p].estado = "freeing" /\ Answered(Kernel)
  /\ Becomes(p, "over")
  /\ TakesAnswer(Kernel)
  /\ UNCHANGED <<page_table, main, en_cpu>>

----------------------------------------------------------------------------
(* A CPU that runs a program.                                              *)

Runs(c) == en_cpu[c] # 0 /\ hilo[c].at = "idle"

\* pedirProximaInstruccionAMemoria: the page of the first byte, the whole size.
FetchesInstruction(c, start, size) ==
  /\ Runs(c)
  /\ start + size <= programa[en_cpu[c]].size
  /\ Straddling \/ (start % MarcoSize) + size <= MarcoSize
  /\ Request(c, [Idle EXCEPT !.at = "find", !.op = "OP_ME_SOLBYTPAG",
                   !.usrpid = Usrpid(en_cpu[c]), !.page = start \div MarcoSize,
                   !.offset = start % MarcoSize, !.size = size])
  /\ UNCHANGED <<page_table, main, programa, en_cpu>>

StackPageMutant(p, position) == position \div MarcoSize
\* The stack comes after the pages of the text.
StackPage(p, position) == (position \div MarcoSize) + PagesCode(programa[p].size)

\* definirVariable keeps the variables inside the pages of the stack.
Variables == {position \in 0..(StackSize * MarcoSize - VarSize) : position % VarSize = 0}

\* dereferenciar
ReadsVariable(c, position) ==
  /\ Runs(c)
  /\ Request(c, [Idle EXCEPT !.at = "find", !.op = "OP_ME_SOLBYTPAG",
                   !.usrpid = Usrpid(en_cpu[c]), !.page = StackPage(en_cpu[c], position),
                   !.offset = position % MarcoSize, !.size = VarSize])
  /\ UNCHANGED <<page_table, main, programa, en_cpu>>

\* asignar: request and value go in two packets; the thread reads both first.
\* An "h" packs two bytes of the value: what Memoria copies as the others is not
\* in the packet, and dereferenciar does not look at it.
ShortSize == 2

AssignsVariable(c, position, value) ==
  /\ Runs(c)
  /\ Request(c, [Idle EXCEPT !.at = "find", !.op = "OP_ME_ALMBYTPAG",
                   !.usrpid = Usrpid(en_cpu[c]), !.page = StackPage(en_cpu[c], position),
                   !.offset = position % MarcoSize, !.size = VarSize,
                   !.datos = [k \in 1..VarSize |-> IF k <= ShortSize
                                                    THEN <<en_cpu[c], position + k - 1, value>>
                                                    ELSE Nobody]])
  /\ UNCHANGED <<page_table, main, programa, en_cpu>>

CpuGetsAnswer(c) ==
  /\ Answered(c)
  /\ TakesAnswer(c)
  /\ UNCHANGED <<page_table, main, programa, en_cpu>>

\* finalizar sends the PCB back to the Kernel.
FinishesProgram(c) ==
  /\ Runs(c)
  /\ Becomes(en_cpu[c], "ending")
  /\ en_cpu' = [en_cpu EXCEPT ![c] = 0]
  /\ UNCHANGED <<page_table, main, hilo>>

----------------------------------------------------------------------------
(* The threads of Memoria.                                                 *)

Answers(c, res) == hilo' = [hilo EXCEPT ![c].at = "answered", ![c].res = res]

NextRow(c) == hilo' = [hilo EXCEPT ![c].i = @ + 1]

FreeRows == {i \in Rows : page_table[i].pid = 0}

\* set_pages counts the free frames; only the Kernel's thread changes them.
SetPagesCounts(c) ==
  /\ hilo[c].at = "start"
  /\ IF hilo[c].usrpid <= 0 \/ hilo[c].pages <= 0 \/ Cardinality(FreeRows) < hilo[c].pages
     THEN Answers(c, 0)
     ELSE hilo' = [hilo EXCEPT ![c].at = "assign"]
  /\ UNCHANGED <<page_table, main, programa, en_cpu>>

SetsOwnerMutant(c) ==
  /\ hilo[c].at = "assign" /\ hilo[c].i < Marcos /\ hilo[c].pages > 0
  /\ page_table' = [page_table EXCEPT ![hilo[c].i].pid = hilo[c].usrpid]
  /\ hilo' = [hilo EXCEPT ![c].at = "number"]
  /\ UNCHANGED <<main, programa, en_cpu>>

\* ... gives the first free one to the program ...
SetsOwner(c) ==
  /\ hilo[c].at = "assign" /\ hilo[c].i < Marcos /\ hilo[c].pages > 0
  /\ IF page_table[hilo[c].i].pid = 0
     THEN /\ page_table' = [page_table EXCEPT ![hilo[c].i].pid = hilo[c].usrpid]
          /\ hilo' = [hilo EXCEPT ![c].at = "number"]
     ELSE UNCHANGED page_table /\ NextRow(c)
  /\ UNCHANGED <<main, programa, en_cpu>>

\* ... as its last page, and so on down to its first.
NumbersPage(c) ==
  /\ hilo[c].at = "number"
  /\ page_table' = [page_table EXCEPT ![hilo[c].i].page = hilo[c].pages - 1]
  /\ hilo' = [hilo EXCEPT ![c].at = "assign", ![c].i = @ + 1, ![c].pages = @ - 1]
  /\ UNCHANGED <<main, programa, en_cpu>>

PagesSet(c) ==
  /\ hilo[c].at = "assign" /\ (hilo[c].i = Marcos \/ hilo[c].pages = 0)
  /\ Answers(c, 1)
  /\ UNCHANGED <<page_table, main, programa, en_cpu>>

\* clear_pages
ClearsOwner(c) ==
  /\ hilo[c].at = "clear" /\ hilo[c].usrpid > 0 /\ hilo[c].i < Marcos
  /\ IF page_table[hilo[c].i].pid = hilo[c].usrpid
     THEN /\ page_table' = [page_table EXCEPT ![hilo[c].i].pid = 0]
          /\ hilo' = [hilo EXCEPT ![c].at = "zero"]
     ELSE UNCHANGED page_table /\ NextRow(c)
  /\ UNCHANGED <<main, programa, en_cpu>>

ClearsPageMutant(c) ==
  /\ hilo[c].at = "zero"
  /\ page_table' = [page_table EXCEPT ![hilo[c].i].page = 0]
  /\ hilo' = [hilo EXCEPT ![c].at = "answered", ![c].res = 1]
  /\ UNCHANGED <<main, programa, en_cpu>>

ClearsPage(c) ==
  /\ hilo[c].at = "zero"
  /\ page_table' = [page_table EXCEPT ![hilo[c].i].page = 0]
  /\ hilo' = [hilo EXCEPT ![c].at = "clear", ![c].i = @ + 1]
  /\ UNCHANGED <<main, programa, en_cpu>>

PagesCleared(c) ==
  /\ hilo[c].at = "clear" /\ (hilo[c].usrpid <= 0 \/ hilo[c].i = Marcos)
  /\ Answers(c, IF hilo[c].usrpid <= 0 THEN 0 ELSE 1)
  /\ UNCHANGED <<page_table, main, programa, en_cpu>>

HoldsPageMutant(c, i) == page_table[i].page = hilo[c].page
HoldsPage(c, i) == page_table[i] = [pid |-> hilo[c].usrpid, page |-> hilo[c].page]

GetFrameMutant(c) ==
  /\ hilo[c].at = "find"
  /\ LET invalid == hilo[c].usrpid <= 0 \/ hilo[c].page \notin Rows
     IN  hilo' = IF invalid \/ hilo[c].i = Marcos
                 THEN [hilo EXCEPT ![c].at = "copy", ![c].frame = 0]
                 ELSE IF HoldsPage(c, hilo[c].i)
                 THEN [hilo EXCEPT ![c].at = "copy", ![c].frame = hilo[c].i + 1]
                 ELSE [hilo EXCEPT ![c].i = @ + 1]
  /\ UNCHANGED <<page_table, main, programa, en_cpu>>

\* get_frame: the first row that matches, or 0 when there is none.
GetFrame(c) ==
  /\ hilo[c].at = "find"
  /\ LET invalid == hilo[c].usrpid <= 0 \/ hilo[c].page \notin Rows
     IN  hilo' = IF invalid \/ hilo[c].i = Marcos
                 THEN [hilo EXCEPT ![c].at = "copy", ![c].frame = 0]
                 ELSE IF HoldsPage(c, hilo[c].i)
                 THEN [hilo EXCEPT ![c].at = "copy", ![c].frame = hilo[c].i]
                 ELSE [hilo EXCEPT ![c].i = @ + 1]
  /\ UNCHANGED <<page_table, main, programa, en_cpu>>

Base(c) == hilo[c].frame * MarcoSize + hilo[c].offset

\* get_bytes, past the end of the frame if so asked.  (Past the end of the
\* memory it reads what the heap has there: Nobody stands for it.)
GetBytes(c) ==
  /\ hilo[c].at = "copy" /\ hilo[c].op = "OP_ME_SOLBYTPAG"
  /\ hilo' = IF hilo[c].size <= 0 THEN [hilo EXCEPT ![c].at = "answered", ![c].res = 0]
             ELSE [hilo EXCEPT ![c].at = "answered", ![c].res = 1,
                    ![c].datos = [k \in 1..hilo[c].size |->
                                    IF Base(c) + k - 1 \in DOMAIN main
                                    THEN main[Base(c) + k - 1] ELSE Nobody]]
  /\ UNCHANGED <<page_table, main, programa, en_cpu>>

\* set_bytes (here within the frame: SizesAssumption and SizeOfPage)
SetBytes(c) ==
  /\ hilo[c].at = "copy" /\ hilo[c].op = "OP_ME_ALMBYTPAG"
  /\ IF hilo[c].size <= 0 THEN Answers(c, 0) /\ UNCHANGED main
     ELSE /\ main' = [b \in DOMAIN main |-> IF b - Base(c) + 1 \in 1..hilo[c].size
                                            THEN hilo[c].datos[b - Base(c) + 1] ELSE main[b]]
          /\ Answers(c, 1)
  /\ UNCHANGED <<page_table, programa, en_cpu>>

----------------------------------------------------------------------------
KernelStep ==
  \E p \in Pids :
    \/ \E size \in CodeSizes : AsksForPages(p, size)
    \/ GetsPages(p) \/ StoresCode(p) \/ StoresStack(p) \/ PageStored(p)
    \/ \E c \in Cpus : Dispatches(p, c)
    \/ EndsProgram(p) \/ EndsOrphan(p) \/ PagesFreed(p)

CpuStep(c) ==
  \/ en_cpu[c] # 0 /\ \E first, size \in 1..programa[en_cpu[c]].size :
                       FetchesInstruction(c, first - 1, size)
  \/ \E position \in Variables :
       ReadsVariable(c, position) \/ \E value \in Values : AssignsVariable(c, position, value)
  \/ CpuGetsAnswer(c) \/ FinishesProgram(c)

ThreadStep(c) ==
  \/ SetPagesCounts(c) \/ SetsOwner(c) \/ NumbersPage(c) \/ PagesSet(c)
  \/ ClearsOwner(c) \/ ClearsPage(c) \/ PagesCleared(c)
  \/ GetFrame(c) \/ GetBytes(c) \/ SetBytes(c)

Next == KernelStep \/ (\E c \in Cpus : CpuStep(c)) \/ (\E c \in Clients : ThreadStep(c))

Spec == Init /\ [][Next]_vars

----------------------------------------------------------------------------
(* Properties.                                                             *)

Bytes == Pids \X Nat \X (Values \cup {0}) \cup {Nobody}

\* What each part of the state may hold.
TypeOK ==
  /\ page_table \in [Rows -> [pid : 0..(UsrpidValues - 1), page : Nat]]
  /\ main \in [0..(Marcos * MarcoSize - 1) -> Bytes]
  /\ DOMAIN hilo = Clients
  /\ \A c \in Clients : hilo[c].i \in 0..Marcos /\ hilo[c].frame \in Rows
                        /\ hilo[c].datos \in Seq(Bytes)
  /\ programa \in [Pids -> [estado : Estados, size : Nat, pag : Nat, huerfano : BOOLEAN]]
  /\ en_cpu \in [Cpus -> Pids \cup {0}]

InMemory(p) == programa[p].estado \in {"loading", "ready", "exec", "ending"}

PagesOf(p) == PagesCode(programa[p].size) + StackSize

RowsOf(p) == {i \in Rows : page_table[i].pid = Usrpid(p)}

\* The pages of a program in the system are 0, 1 ... each in exactly one frame,
\* and every other frame is free: none leaks and none is given away twice.
\* (While no thread is in set_pages or clear_pages.)
PagesWhole ==
  hilo[Kernel].op \notin {"OP_ME_INIPRO", "OP_ME_FINPRO"} =>
    /\ \A p \in Pids : InMemory(p) =>
         /\ {page_table[i].page : i \in RowsOf(p)} = 0..(PagesOf(p) - 1)
         /\ Cardinality(RowsOf(p)) = PagesOf(p)
    /\ \A i \in Rows : page_table[i].pid # 0 => \E p \in Pids : InMemory(p) /\ i \in RowsOf(p)

\* When a thread gets to copy, the frame it looked up earlier is still that of
\* the page it was asked for: get_frame's answer never goes stale, though the
\* Kernel's thread sets and clears pages at the same time.
FrameInHand ==
  \A c \in Clients : hilo[c].at = "copy" => HoldsPage(c, hilo[c].frame)

\* Two threads never copy to or from one frame at a time.
FramesApart ==
  \A c, d \in Clients : c # d /\ hilo[c].at = "copy" /\ hilo[d].at = "copy" =>
                          hilo[c].frame # hilo[d].frame

\* CPU.c:151, "Recibo proxima instruccion a ejecutar": what the CPU gets is the
\* text of the instruction it asked for.
FetchesOwnCode ==
  \A c \in Cpus :
    LET p == en_cpu[c]
    IN  Answered(c) /\ hilo[c].op = "OP_ME_SOLBYTPAG"
          /\ hilo[c].page < PagesCode(programa[p].size) =>
        hilo[c].datos = Text(p, hilo[c].page * MarcoSize + hilo[c].offset, hilo[c].size)

----------------------------------------------------------------------------
(* What the invariants rest on.                                            *)

\* One byte is enough for the programs (257 would share the pages of 1).
PidsFit == MaxPids < UsrpidValues

Busy(p) == programa[p].estado \in {"asking", "loading", "freeing"}

\* The Kernel waits for Memoria for one program at a time, and what its thread
\* in Memoria is at tells where the program is.
KernelTalks ==
  /\ \A p, q \in Pids : Busy(p) /\ Busy(q) => p = q
  /\ (\A p \in Pids : ~Busy(p)) => hilo[Kernel].at = "idle"
  /\ hilo[Kernel].at = "idle" => hilo[Kernel].op = "none"
  /\ \A p \in Pids : Busy(p) /\ hilo[Kernel].at # "idle" => hilo[Kernel].usrpid = p
  /\ \A p \in Pids : programa[p].estado = "asking" =>
       /\ hilo[Kernel].op = "OP_ME_INIPRO"
       /\ hilo[Kernel].at \in {"start", "assign", "number", "answered"}
  /\ \A p \in Pids : programa[p].estado = "freeing" =>
       /\ hilo[Kernel].op = "OP_ME_FINPRO"
       /\ hilo[Kernel].at \in {"clear", "zero", "answered"}
  /\ \A p \in Pids : programa[p].estado = "loading" =>
       /\ hilo[Kernel].at \in {"idle", "find", "copy", "answered"}
       /\ hilo[Kernel].at # "idle" => hilo[Kernel].op = "OP_ME_ALMBYTPAG"

\* A CPU asks for the pages of the program it runs, which no other CPU runs.
CpusTalk ==
  \A c \in Cpus :
    /\ hilo[c].at \in {"idle", "find", "copy", "answered"}
    /\ hilo[c].at # "idle" => /\ en_cpu[c] # 0 /\ hilo[c].usrpid = en_cpu[c]
                              /\ hilo[c].op \in {"OP_ME_SOLBYTPAG", "OP_ME_ALMBYTPAG"}
    /\ en_cpu[c] # 0 => programa[en_cpu[c]].estado = "exec"
    /\ \A d \in Cpus : en_cpu[c] # 0 /\ en_cpu[d] = en_cpu[c] => d = c

\* A thread that looks for a page, or has found it, was asked for one that a
\* program in memory has, and has not gone past it.
Held(c) ==
  /\ hilo[c].usrpid \in Pids /\ InMemory(hilo[c].usrpid)
  /\ hilo[c].page < PagesOf(hilo[c].usrpid)
  /\ IF hilo[c].at = "copy" THEN HoldsPage(c, hilo[c].frame)
     ELSE \E r \in Rows : hilo[c].i <= r /\ HoldsPage(c, r)

RequestsHeld == \A c \in Clients : hilo[c].at \in {"find", "copy"} => Held(c)

Mine(p) == {r \in Rows : page_table[r].pid = p}

FreeFrom(i) == {r \in Rows : i <= r /\ page_table[r].pid = 0}

\* The rows of S have the pages from first to last - 1, each once.
Numbers(S, first, last) ==
  /\ \A r \in S : first <= page_table[r].page /\ page_table[r].page < last
  /\ \A n \in first..(last - 1) : \E r \in S : page_table[r].page = n
  /\ \A r, t \in S : page_table[r].page = page_table[t].page => r = t

\* set_pages in the middle of its work for p.
Assigned(p) ==
  LET thread == hilo[Kernel]
  IN  /\ thread.at = "start" => /\ Mine(p) = {} /\ thread.i = 0
                                /\ thread.pages = PagesOf(p)
      /\ thread.at = "assign" =>
           /\ thread.pages <= PagesOf(p) /\ Numbers(Mine(p), thread.pages, PagesOf(p))
           /\ \A r \in Mine(p) : r < thread.i
           /\ thread.pages <= Cardinality(FreeFrom(thread.i))
      /\ thread.at = "number" =>
           /\ thread.i \in Mine(p) /\ thread.pages <= PagesOf(p)
           /\ Numbers(Mine(p) \ {thread.i}, thread.pages, PagesOf(p))
           /\ \A r \in Mine(p) : r <= thread.i
           /\ thread.pages <= Cardinality(FreeFrom(thread.i + 1)) + 1
      /\ thread.at = "answered" =>
           IF thread.res # 0 THEN Numbers(Mine(p), 0, PagesOf(p)) ELSE Mine(p) = {}

\* clear_pages in the middle of its work for p.
Cleared(p) ==
  LET thread == hilo[Kernel]
  IN  /\ thread.at = "clear" => \A r \in Mine(p) : thread.i <= r
      /\ thread.at = "zero" => /\ page_table[thread.i].pid = 0
                               /\ \A r \in Mine(p) : thread.i < r
      /\ thread.at = "answered" => Mine(p) = {}

\* Every row is free or of a program that has pages, or gets or loses them.
Owned ==
  \A r \in Rows : LET p == page_table[r].pid
                  IN  p # 0 => p \in Pids /\ (InMemory(p) \/ programa[p].estado \in {"asking", "freeing"})

TableInHand ==
  \A p \in Pids :
    /\ InMemory(p) => Numbers(Mine(p), 0, PagesOf(p))
    /\ programa[p].estado = "asking" => Assigned(p)
    /\ programa[p].estado = "freeing" => Cleared(p)

----------------------------------------------------------------------------
(* Memoria implements the spaces of the programs.                          *)

\* The frame of a page, as get_frame finds it.
FrameOf(p, page) ==
  LET found == {i \in Rows : page_table[i] = [pid |-> Usrpid(p), page |-> page]}
  IN  IF found = {} THEN 0 ELSE CHOOSE i \in found : \A j \in found : i <= j

espacio == [p \in Pids |->
  IF ~InMemory(p) THEN <<>>
  ELSE [a \in 0..(PagesOf(p) * MarcoSize - 1) |->
          main[FrameOf(p, a \div MarcoSize) * MarcoSize + (a % MarcoSize)]]]

Asker(c) == IF c = Kernel THEN CHOOSE p \in Pids : programa[p].estado = "loading" ELSE en_cpu[c]

pedido == [c \in Clients |->
  IF hilo[c].at \notin {"find", "copy"} THEN Nothing
  ELSE [op |-> hilo[c].op, pid |-> Asker(c),
        address |-> hilo[c].page * MarcoSize + hilo[c].offset, size |-> hilo[c].size,
        datos |-> IF hilo[c].op = "OP_ME_ALMBYTPAG" THEN hilo[c].datos ELSE <<>>]]

leido == [c \in Clients |->
  IF Answered(c) /\ hilo[c].op = "OP_ME_SOLBYTPAG" THEN hilo[c].datos ELSE <<>>]

Spaces == INSTANCE ProgramSpaces

\* operations.h: the page table and the threads that share it give every program
\* the address space ProgramSpaces describes.
ImplementsSpaces == Spaces!Spec
=============================================================================
