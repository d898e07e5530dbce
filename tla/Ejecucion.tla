----------------------------- MODULE Ejecucion -----------------------------
(***************************************************************************)
(* A CPU that runs programs (CPU.c): the loop of ejecutarPrograma, and the *)
(* primitives that keep the index of the stack, the stack pointer and the  *)
(* program counter of the PCB.  A step is one primitive; the requests to   *)
(* Memoria it makes are part of it, since only this CPU uses the stack     *)
(* pages of the program (Memoria.tla shows that nobody else does).         *)
(*                                                                         *)
(* Positions of variables are bytes of the stack: the code keeps page and  *)
(* offset and only ever puts them together again.  Memoria holds the       *)
(* values at the positions a variable can have, one every TamanioVariable. *)
(***************************************************************************)
EXTENDS Ansisop, Serial

CONSTANTS Programas,       \* the programs the Kernel may send
          StackSize,       \* STACK_SIZE: pages of the stack
          TamanioPagina,   \* bytes of a page
          Valores,         \* bound: the values of the variables of these programs
          Relleno          \* bound: what new stack pages may hold

ASSUME SizesAssumption == StackSize \in Nat /\ TamanioPagina \in Nat
ASSUME ProgramasAssumption == Programas \subseteq Codigos
ASSUME ValoresAssumption == Valores \subseteq Int /\ Relleno \subseteq Valores

TamanioVariable == 4    \* sizeof(int)
ExitFailure     == 1
Basura          == 0    \* what a position reads as after its bytes were mixed
Ancho           == 16   \* serial_pack "h"

Posiciones == {d \in 0..(StackSize * TamanioPagina - TamanioVariable) :
                 d % TamanioVariable = 0}

VARIABLES pcbActual,      \* PC, stack pointer and stack of the program
          memoria,        \* the values in its stack pages
          programa,       \* its code, its labels, its quantum
          linea,          \* the primitives the line has still to call
          en,             \* "libre": waits for the Kernel; "bucle": line 97; "linea"
          i,              \* instructions begun, counted if there is a quantum
          huboStackOver, finPrograma,
          avisos,         \* OP_CPU_PROGRAM_END sent for the program
          ocupada         \* the Kernel has the CPU in cpu_executing

flags == <<huboStackOver, finPrograma>>
kernel == <<avisos, ocupada>>
vars == <<pcbActual, memoria, programa, linea, en, i, flags, kernel>>

Vacio == [PC |-> 0, stackPointer |-> 0, stack |-> <<>>]
Nada  == [d \in Posiciones |-> 0]

Init ==
  /\ pcbActual = Vacio /\ memoria = Nada
  /\ programa = SinPrograma /\ linea = <<>> /\ en = "libre" /\ i = 1
  /\ huboStackOver = FALSE /\ finPrograma = FALSE
  /\ avisos = 0 /\ ocupada = FALSE

----------------------------------------------------------------------------
(* Values, through Memoria.                                                *)

\* asignar sends 16 bits of the value, and dereferenciar reads them back.
Envuelve(v) == ((v + 2^(Ancho - 1)) % 2^Ancho) - 2^(Ancho - 1)

Contexto == Last(pcbActual.stack)

\* A name that was not declared is at EXIT_FAILURE.  An argument one past the
\* last is the NULL of list_get, and left undefined here.
ObtenerPosicionVariable(id) ==
  IF pcbActual.stack = <<>> THEN ExitFailure
  ELSE IF EsArgumento(id)
       THEN IF id[2] > Len(Contexto.args) THEN ExitFailure ELSE Contexto.args[id[2] + 1]
       ELSE LET halladas == {k \in DOMAIN Contexto.vars : Contexto.vars[k].id = id}
            IN  IF halladas = {} THEN ExitFailure
                ELSE Contexto.vars[CHOOSE k \in halladas : \A j \in halladas : k <= j].pos

Dereferenciar(d) == IF d \in Posiciones THEN memoria[d] ELSE Basura

\* Bytes written between two positions spoil both of them.
Asignada(d, v) ==
  [x \in Posiciones |-> IF x = d THEN Envuelve(v)
                        ELSE IF x < d + TamanioVariable /\ d < x + TamanioVariable THEN Basura
                        ELSE memoria[x]]

Valor(y) == IF y[1] = "lit" THEN y[2] ELSE Dereferenciar(ObtenerPosicionVariable(y))

----------------------------------------------------------------------------
(* The loop.                                                               *)

\* OP_KE_SEND_PCB: the PCB crear_pcb_proceso made, and stack pages with
\* whatever their frames hold.
RecibirPCB(p) ==
  /\ en = "libre" /\ ~ocupada
  /\ programa' = p
  /\ pcbActual' = [PC |-> p.inicio, stackPointer |-> 0, stack |-> <<>>]
  /\ \E v \in Relleno : memoria' = [d \in Posiciones |-> v]
  /\ en' = "bucle" /\ i' = 1 /\ avisos' = 0 /\ ocupada' = TRUE
  /\ UNCHANGED <<linea, flags>>

PedirProximaInstruccion ==
  /\ en = "bucle"
  /\ i <= programa.quantum \/ programa.quantum = 0
  /\ linea' = Primitivas(Instruccion(programa, pcbActual.PC))
  /\ en' = "linea"
  /\ UNCHANGED <<pcbActual, memoria, programa, i, flags, kernel>>

\* finalizarPor: the Kernel takes it for the end of the program and has the
\* CPU back among those connected.
FinalizarPor == avisos' = avisos + 1 /\ ocupada' = FALSE

\* Back to recibirMensajesDeKernel.  pcbActual is not read again before the
\* next one replaces it, and the pages are the Kernel's to give away.
Volver ==
  /\ en' = "libre"
  /\ pcbActual' = Vacio /\ memoria' = Nada /\ programa' = SinPrograma

FinDeQuantum ==
  /\ en = "bucle"
  /\ i > programa.quantum /\ programa.quantum # 0
  /\ FinalizarPor
  /\ Volver
  /\ UNCHANGED <<linea, i, flags>>

\* The end of the line: verificarTerminarEjecucion.
TerminarEjecucionMutant ==
  /\ en = "linea" /\ linea = <<>>
  /\ huboStackOver \/ finPrograma
  /\ Volver
  /\ IF huboStackOver THEN huboStackOver' = FALSE /\ UNCHANGED finPrograma
                      ELSE UNCHANGED flags
  /\ UNCHANGED <<linea, i, kernel>>

TerminarEjecucion ==
  /\ en = "linea" /\ linea = <<>>
  /\ huboStackOver \/ finPrograma
  /\ Volver
  /\ IF huboStackOver THEN huboStackOver' = FALSE /\ UNCHANGED finPrograma
                      ELSE finPrograma' = FALSE /\ UNCHANGED huboStackOver
  /\ UNCHANGED <<linea, i, kernel>>

Continuar ==
  /\ en = "linea" /\ linea = <<>> /\ ~huboStackOver /\ ~finPrograma
  /\ pcbActual' = [pcbActual EXCEPT !.PC = @ + 1]
  /\ i' = IF programa.quantum = 0 THEN i ELSE i + 1
  /\ en' = "bucle"
  /\ UNCHANGED <<memoria, programa, linea, flags, kernel>>

----------------------------------------------------------------------------
(* The primitives.                                                         *)

Toca(op) == en = "linea" /\ linea # <<>> /\ Head(linea).op = op

NuevoContexto(retPos, retVar) ==
  [args |-> <<>>, vars |-> <<>>, retPos |-> retPos, retVar |-> retVar]

DesbordaMutant == pcbActual.stackPointer > StackSize * TamanioPagina

Desborda == pcbActual.stackPointer + TamanioVariable > StackSize * TamanioPagina

Ampliado(c, id, pos) ==
  IF EsArgumento(id) THEN [c EXCEPT !.args = Append(c.args, pos)]
  ELSE [c EXCEPT !.vars = Append(c.vars, [id |-> id, pos |-> pos])]

ConVariableMutant(pila, id, pos) == [pila EXCEPT ![1] = Ampliado(pila[1], id, pos)]

ConVariable(pila, id, pos) == [pila EXCEPT ![Len(pila)] = Ampliado(pila[Len(pila)], id, pos)]

\* definirVariable.  What a program declares outside of any function opens the
\* first context.
Definida(id) ==
  LET pila == IF pcbActual.stack = <<>> THEN <<NuevoContexto(-1, 0)>> ELSE pcbActual.stack
      pos  == pcbActual.stackPointer
  IN  [pcbActual EXCEPT !.stack = ConVariable(pila, id, pos),
                        !.stackPointer = pos + TamanioVariable]

DefinirVariable ==
  /\ Toca("definirVariable")
  /\ IF Desborda THEN huboStackOver' = TRUE /\ UNCHANGED pcbActual
                 ELSE pcbActual' = Definida(Head(linea).id) /\ UNCHANGED huboStackOver
  /\ linea' = Tail(linea)
  /\ UNCHANGED <<memoria, programa, en, i, finPrograma, kernel>>

\* The parser defines an argument and assigns it where definirVariable said,
\* which is -1 if there was no room.
PasarArgumento ==
  /\ Toca("pasar")
  /\ IF Desborda
     THEN /\ huboStackOver' = TRUE /\ memoria' = Asignada(-1, Head(linea).valor)
          /\ UNCHANGED pcbActual
     ELSE /\ pcbActual' = Definida(Arg(Head(linea).n))
          /\ memoria' = Asignada(pcbActual.stackPointer, Head(linea).valor)
          /\ UNCHANGED huboStackOver
  /\ linea' = Tail(linea)
  /\ UNCHANGED <<programa, en, i, finPrograma, kernel>>

Asignar ==
  /\ Toca("asignar")
  /\ LET l == Head(linea)
     IN  memoria' = Asignada(ObtenerPosicionVariable(l.x), Valor(l.y) + l.signo * Valor(l.z))
  /\ linea' = Tail(linea)
  /\ UNCHANGED <<pcbActual, programa, en, i, flags, kernel>>

\* busquedaEtiqueta returns in the first round of its loop.
BusquedaEtiqueta(etiqueta) ==
  IF programa.indexTag # <<>> /\ programa.indexTag[1].name = etiqueta
  THEN programa.indexTag[1].PC ELSE -1

\* The PC after irAlLabel; the loop adds 1 to it.
IrAlLabel(etiqueta) ==
  LET numeroInstr == BusquedaEtiqueta(etiqueta)
  IN  IF numeroInstr = -1 THEN pcbActual.PC ELSE numeroInstr - 1

Saltar ==
  /\ Toca("irAlLabel")
  /\ pcbActual' = IF Valor(Head(linea).si) # 0
                  THEN [pcbActual EXCEPT !.PC = IrAlLabel(Head(linea).etiqueta)]
                  ELSE pcbActual
  /\ linea' = Tail(linea)
  /\ UNCHANGED <<memoria, programa, en, i, flags, kernel>>

\* llamarConRetorno and llamarSinRetorno, which leaves the position 0 that
\* t_stack_create put there.
LlamarMutant ==
  /\ Toca("llamar")
  /\ LET l      == Head(linea)
         retVar == IF l.ret = Nadie THEN 0 ELSE ObtenerPosicionVariable(l.ret)
     IN  /\ linea' = Argumentos([k \in DOMAIN l.args |-> Valor(l.args[k])])
         /\ pcbActual' = [pcbActual EXCEPT
              !.stack = Append(@, NuevoContexto(pcbActual.PC + 1, retVar)),
              !.PC = IrAlLabel(l.etiqueta)]
  /\ UNCHANGED <<memoria, programa, en, i, flags, kernel>>

Llamar ==
  /\ Toca("llamar")
  /\ LET l      == Head(linea)
         retVar == IF l.ret = Nadie THEN 0 ELSE ObtenerPosicionVariable(l.ret)
     IN  /\ linea' = Argumentos([k \in DOMAIN l.args |-> Valor(l.args[k])])
         /\ pcbActual' = [pcbActual EXCEPT
              !.stack = Append(@, NuevoContexto(pcbActual.PC, retVar)),
              !.PC = IrAlLabel(l.etiqueta)]
  /\ UNCHANGED <<memoria, programa, en, i, flags, kernel>>

LibreMutant == IF pcbActual.stack = <<>> THEN pcbActual.stackPointer
               ELSE pcbActual.stackPointer - TamanioVariable * Len(Contexto.vars)

Vivas(c) == Len(c.args) + Len(c.vars)

\* The stack pointer without what the last context has declared.
Libre == IF pcbActual.stack = <<>> THEN pcbActual.stackPointer
         ELSE pcbActual.stackPointer - TamanioVariable * Vivas(Contexto)

\* What finalizar and the end of retornar do: the last context goes with its
\* variables; with no context left the program is over, otherwise it goes on
\* behind the call.  list_remove gives NULL if there was no context at all.
CerrarContexto ==
  LET pila    == IF pcbActual.stack = <<>> THEN <<>> ELSE Front(pcbActual.stack)
      cerrado == [pcbActual EXCEPT !.stack = pila, !.stackPointer = Libre]
  IN  /\ IF pila = <<>>
         THEN finPrograma' = TRUE /\ FinalizarPor /\ pcbActual' = cerrado
         ELSE pcbActual' = [cerrado EXCEPT !.PC = Contexto.retPos]
              /\ UNCHANGED <<finPrograma, kernel>>
      /\ linea' = Tail(linea)
      /\ UNCHANGED <<programa, en, i, huboStackOver>>

Finalizar ==
  /\ Toca("finalizar")
  /\ CerrarContexto
  /\ UNCHANGED memoria

Retornar ==
  /\ Toca("retornar")
  /\ memoria' = Asignada(Contexto.retVar, Valor(Head(linea).y))
  /\ CerrarContexto

Next ==
  \/ \E p \in Programas : RecibirPCB(p)
  \/ PedirProximaInstruccion \/ FinDeQuantum \/ TerminarEjecucion \/ Continuar
  \/ DefinirVariable \/ PasarArgumento \/ Asignar \/ Saltar \/ Llamar
  \/ Finalizar \/ Retornar

Spec == Init /\ [][Next]_vars

----------------------------------------------------------------------------
(* Properties.                                                             *)

TypeOK ==
  /\ pcbActual.PC \in Int /\ pcbActual.stackPointer \in 0..(StackSize * TamanioPagina)
  /\ \A k \in DOMAIN pcbActual.stack :
       LET c == pcbActual.stack[k]
       IN  /\ c.retPos \in Int /\ c.retVar \in Nat
           /\ \A j \in DOMAIN c.args : c.args[j] \in Posiciones
           /\ \A j \in DOMAIN c.vars : c.vars[j].pos \in Posiciones
  /\ \A d \in Posiciones : memoria[d] \in Int
  /\ programa \in Programas \cup {SinPrograma}
  /\ en \in {"libre", "bucle", "linea"} /\ i \in Nat \ {0}
  /\ huboStackOver \in BOOLEAN /\ finPrograma \in BOOLEAN /\ ocupada \in BOOLEAN
  /\ avisos \in Nat

\* definirVariable and finalizar: what a call has declared lies above all its
\* callers have, no two variables share a byte, and the stack pointer is right
\* behind the last of them, however calls, returns and overflows went.
Declaradas ==
  UNION {{<<k, "arg", j>> : j \in DOMAIN pcbActual.stack[k].args} \cup
         {<<k, "var", j>> : j \in DOMAIN pcbActual.stack[k].vars} :
         k \in DOMAIN pcbActual.stack}

Pos(x) == IF x[2] = "arg" THEN pcbActual.stack[x[1]].args[x[3]]
                          ELSE pcbActual.stack[x[1]].vars[x[3]].pos

StackApart ==
  /\ pcbActual.stackPointer = TamanioVariable * Cardinality(Declaradas)
  /\ \A x \in Declaradas :
       /\ Pos(x) + TamanioVariable <= pcbActual.stackPointer
       /\ \A y \in Declaradas : x[1] < y[1] => Pos(x) < Pos(y)
       /\ \A y \in Declaradas : x # y => Pos(x) # Pos(y)

\* llamarConRetorno, llamarSinRetorno: a call under way began at an instruction
\* that calls a function, and its value will go to the variable of the caller
\* that is named there, which the caller still has.
CallersWait ==
  \A k \in DOMAIN pcbActual.stack \ {1} :
    LET c     == pcbActual.stack[k]
        quien == pcbActual.stack[k - 1]
        l     == Instruccion(programa, c.retPos)
    IN  /\ l.op = "llamar"
        /\ l.ret # Nadie => \E j \in DOMAIN quien.vars :
                              quien.vars[j] = [id |-> l.ret, pos |-> c.retVar]

\* structures.h:55, indexTag has all the labels of the program: a call, or a jump
\* that is taken, goes on at the label it names.
EtiquetaDe(nombre) == (CHOOSE t \in ToSet(programa.indexTag) : t.name = nombre).PC

JumpsReachTheirLabel ==
  [][Llamar \/ (Saltar /\ Valor(Head(linea).si) # 0)
       => pcbActual'.PC + 1 = EtiquetaDe(Head(linea).etiqueta)]_vars

\* The PCB that finalizarPor and the system calls send.  What the Kernel fixes
\* once and the CPU does not look at here has a fixed value, and the name of a
\* label is one character.
pcb ==
  LET mempos(d)  == [page |-> d \div TamanioPagina, offset |-> d % TamanioPagina,
                     size |-> TamanioVariable]
      Campos(c)  == [retPos |-> c.retPos, retVar |-> mempos(c.retVar),
                     args   |-> [j \in DOMAIN c.args |-> [id |-> Nadie, mempos |-> mempos(c.args[j])]],
                     vars   |-> [j \in DOMAIN c.vars |->
                                   [id |-> c.vars[j].id, mempos |-> mempos(c.vars[j].pos)]]]
  IN  [idProcess |-> 1, status |-> 2, pagesCode |-> 1, exitCode |-> 0,
       PC        |-> pcbActual.PC, quantum |-> programa.quantum,
       indexCode |-> [k \in DOMAIN programa.codigo |-> [start |-> 9 * k, offset |-> 9]],
       indexTag  |-> [k \in DOMAIN programa.indexTag |->
                        [name |-> <<programa.indexTag[k].name>>, PC |-> programa.indexTag[k].PC]],
       stack     |-> [k \in DOMAIN pcbActual.stack |-> Campos(pcbActual.stack[k])],
       stackPointer |-> pcbActual.stackPointer]

\* serial_pack_pcb and serial_unpack_pcb: wherever in one of these programs, and
\* however deep in its calls, the CPU sends the PCB (finalizarPor, a system
\* call), the PCB fits in the buffer it is packed in, and who receives it has
\* the same program counter, labels, index of code and stack.
PcbTravels ==
  en # "libre" => CabeEnBuffer(pcb) /\ SerialUnpackPcb(SerialPackPcb(pcb)) = pcb

----------------------------------------------------------------------------
(* What the invariants rest on.                                            *)

\* The bytes below what context k has declared.
Base(k) == TamanioVariable * Cardinality({x \in Declaradas : x[1] < k})

\* The variables of a context fill the bytes between its base and the next one.
Capas ==
  /\ IsFiniteSet(Declaradas)
  /\ pcbActual.stackPointer = Base(Len(pcbActual.stack) + 1)
  /\ \A x \in Declaradas : /\ Base(x[1]) <= Pos(x) /\ Pos(x) + TamanioVariable <= Base(x[1] + 1)
                           /\ Pos(x) % TamanioVariable = 0
  /\ \A x, y \in Declaradas : Pos(x) = Pos(y) => x = y

Ejecutables == {l \in Lineas : l.op \notin {"variables", "otra"}}

Pasos == [op : {"definirVariable"}, id : Letras] \cup [op : {"pasar"}, n : Nat, valor : Int]

\* Where the program is: at a line it has, or within one, whose instruction has
\* still to be done or is followed by the one behind it.
EnPrograma ==
  /\ en # "libre" => programa \in Programas
  /\ en = "libre" => pcbActual.stack = <<>>
  /\ en # "linea" => linea = <<>>
  /\ en = "bucle" => pcbActual.PC \in Lugares(programa)
  /\ en = "linea" =>
       \/ /\ linea \in Seq(Pasos)
          /\ finPrograma \/ pcbActual.PC + 1 \in Lugares(programa)
       \/ /\ pcbActual.PC \in Lugares(programa)
          /\ linea = <<Instruccion(programa, pcbActual.PC)>> /\ Head(linea) \in Ejecutables
  /\ \A k \in DOMAIN pcbActual.stack \ {1} :
       LET d == pcbActual.stack[k].retPos
       IN  d \in Lugares(programa) /\ Instruccion(programa, d).op = "llamar"

\* A program has declared the variable that is to have the value of a call.
Declara ==
  Toca("llamar") /\ Head(linea).ret # Nadie =>
    /\ pcbActual.stack # <<>>
    /\ \E j \in DOMAIN Contexto.vars : Contexto.vars[j].id = Head(linea).ret

----------------------------------------------------------------------------
(* What the CPU implements.                                                *)

estado == IF huboStackOver \/ (en = "libre" /\ ocupada) THEN "desborda"
          ELSE IF en = "libre" \/ finPrograma THEN "libre" ELSE "corre"

Activacion(c, mem) ==
  [vars   |-> [id \in {v.id : v \in ToSet(c.vars)} |->
                 mem[(CHOOSE v \in ToSet(c.vars) : v.id = id).pos]],
   args   |-> [j \in DOMAIN c.args |-> mem[c.args[j]]],
   vuelve |-> c.retPos + 1]

\* While main has declared nothing it has no context.
activaciones ==
  LET pila == IF pcbActual.stack = <<>> THEN <<NuevoContexto(-1, 0)>> ELSE pcbActual.stack
  IN  IF estado = "corre" THEN [k \in DOMAIN pila |-> Activacion(pila[k], memoria)] ELSE <<>>

programaVisto == IF estado = "corre" THEN programa ELSE SinPrograma
lineaVista    == IF estado = "corre" THEN linea ELSE <<>>

\* The program counter is that of the line while the line is being done.
siguiente == IF estado # "corre" THEN 0
             ELSE IF en = "linea" THEN pcbActual.PC + 1 ELSE pcbActual.PC

leidas == IF estado # "corre" \/ programa.quantum = 0 THEN 0
          ELSE IF en = "linea" THEN i ELSE i - 1

Meaning == INSTANCE Llamadas WITH
  programa <- programaVisto, linea <- lineaVista,
  Capacidad <- (StackSize * TamanioPagina) \div TamanioVariable

\* CPU.c keeps the variables of all calls in one stack of bytes; that is the
\* same as an activation for each call.
ImplementsCalls == Meaning!Spec
----------------------------------------------------------------------------
(* What it takes of a program: the known disagreements do not arise.       *)

\* A name the last context has declared, or a number.
Vale(y) ==
  \/ y[1] = "lit"
  \/ /\ pcbActual.stack # <<>>
     /\ \/ y[1] = "var" /\ \E j \in DOMAIN Contexto.vars : Contexto.vars[j].id = y
        \/ y[1] = "arg" /\ y[2] < Len(Contexto.args)

\* A value that asignar does not cut.
Cabe(v) == v \in Valores /\ Envuelve(v) = v

\* A label that busquedaEtiqueta finds, being the first, and the only one of its name.
Primera(nombre) ==
  /\ programa.indexTag # <<>> /\ programa.indexTag[1].name = nombre
  /\ \A t \in ToSet(programa.indexTag) : t.name = nombre => t = programa.indexTag[1]

\* obtenerPosicionVariable, definirVariable: a name that a line uses is in the
\* context of the call the line is in, and only once, its values fit in 16 bits,
\* and labels are found; main has a context when it calls, and a function that
\* returns a value was called for one.  Programs are written like that; the CPU
\* has to keep it so, through calls, returns and jumps.
BienHecho ==
  estado = "corre" /\ linea # <<>> =>
    LET l == Head(linea)
    IN  /\ l.op = "definirVariable" /\ pcbActual.stack # <<>> =>
             \A j \in DOMAIN Contexto.vars : Contexto.vars[j].id # l.id
        /\ l.op = "pasar" => Cabe(l.valor)
        /\ l.op = "asignar" => /\ Vale(l.x) /\ Vale(l.y) /\ Vale(l.z)
                               /\ Cabe(Valor(l.y) + l.signo * Valor(l.z))
        /\ l.op = "irAlLabel" => Vale(l.si) /\ Primera(l.etiqueta)
        /\ l.op = "llamar" => /\ pcbActual.stack # <<>> /\ Primera(l.etiqueta)
                              /\ \A k \in DOMAIN l.args : Vale(l.args[k])
                              /\ l.ret # Nadie => Vale(l.ret)
        /\ l.op = "retornar" /\ Len(pcbActual.stack) > 1 =>
             /\ Vale(l.y) /\ Cabe(Valor(l.y))
             /\ Instruccion(programa, Contexto.retPos).ret # Nadie
=============================================================================
