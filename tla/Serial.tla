------------------------------- MODULE Serial -------------------------------
(***************************************************************************)
(* How a PCB travels between Kernel and CPU (serial.c).  A buffer is a     *)
(* sequence of bytes.  tam is how far into it the code has come: one side  *)
(* writes the fields one behind the other, the other side walks over them  *)
(* by the widths it knows, and nothing in the buffer says what is where.   *)
(*                                                                         *)
(* Characters stand for themselves.  Of the letters of a format these are  *)
(* the ones a PCB uses: "h", "c", "s".                                     *)
(***************************************************************************)
EXTENDS Integers, SequencesExt

MaxTag == 64    \* "64s"
BUFFER_CAPACITY == 1024

----------------------------------------------------------------------------
(* serial_pack and serial_unpack.                                          *)

\* packi16: the two low bytes of each number, the higher one first.
EmpacaH(numeros) ==
  [k \in 1..(2 * Len(numeros)) |->
     LET i == numeros[(k + 1) \div 2] % 2^16
     IN  IF k % 2 = 1 THEN i \div 2^8 ELSE i % 2^8]

EmpacaS(texto) == EmpacaH(<<Len(texto)>>) \o texto

LeeSinSigno(buf, tam) == buf[tam + 1] * 2^8 + buf[tam + 2]

\* unpacki16
LeeH(buf, tam) ==
  LET i2 == LeeSinSigno(buf, tam) IN IF i2 < 2^15 THEN i2 ELSE i2 - 2^16

\* The name that is left of the text at tam, with room for the final 0.
LeeTag(buf, tam) ==
  LET len   == LeeSinSigno(buf, tam)
      count == IF len > MaxTag THEN MaxTag - 1 ELSE len
  IN  SubSeq(buf, tam + 3, tam + 2 + count)

----------------------------------------------------------------------------
(* The stack: contexts with their arguments and variables.                 *)

EmpacaPos(p) == EmpacaH(<<p.page, p.offset, p.size>>)

LeePosMutant(buf, tam) ==
  [page |-> LeeH(buf, tam), size |-> LeeH(buf, tam + 2), offset |-> LeeH(buf, tam + 4)]

LeePos(buf, tam) ==
  [page |-> LeeH(buf, tam), offset |-> LeeH(buf, tam + 2), size |-> LeeH(buf, tam + 4)]

SerialPackVars(lista) ==
  EmpacaH(<<Len(lista)>>)
  \o FlattenSeq([k \in DOMAIN lista |-> <<lista[k].id>> \o EmpacaPos(lista[k].mempos)])

SerialUnpackVars(buf, tam) ==
  LET n == LeeH(buf, tam)
  IN  [lista |-> [k \in 1..n |-> [id     |-> buf[tam + 7 * k - 4],
                                  mempos |-> LeePos(buf, tam + 7 * k - 4)]],
       tam   |-> tam + 2 + 7 * n]

SerialPackStack(stack) ==
  EmpacaH(<<Len(stack)>>)
  \o FlattenSeq([k \in DOMAIN stack |->
       EmpacaH(<<stack[k].retPos>>) \o SerialPackVars(stack[k].args)
       \o SerialPackVars(stack[k].vars) \o EmpacaPos(stack[k].retVar)])

\* One more context behind those read so far.
LeeContexto(buf, leido) ==
  LET args == SerialUnpackVars(buf, leido.tam + 2)
      vars == SerialUnpackVars(buf, args.tam)
  IN  [tam   |-> vars.tam + 6,
       lista |-> Append(leido.lista, [retPos |-> LeeH(buf, leido.tam),
                                      args   |-> args.lista, vars |-> vars.lista,
                                      retVar |-> LeePos(buf, vars.tam)])]

SerialUnpackStack(buf, tam) ==
  LET n == LeeH(buf, tam)
      leido[k \in 0..n] == IF k = 0 THEN [tam |-> tam + 2, lista |-> <<>>]
                                    ELSE LeeContexto(buf, leido[k - 1])
  IN  leido[n].lista

----------------------------------------------------------------------------
(* The PCB.                                                                *)

SerialPackPcb(pcb) ==
  EmpacaH(<<pcb.idProcess, pcb.PC, pcb.quantum, pcb.status, pcb.pagesCode,
            Len(pcb.indexCode), Len(pcb.indexTag), pcb.stackPointer, pcb.exitCode>>)
  \o EmpacaH(FlattenSeq([k \in DOMAIN pcb.indexCode |->
                           <<pcb.indexCode[k].start, pcb.indexCode[k].offset>>]))
  \o FlattenSeq([k \in DOMAIN pcb.indexTag |->
                   EmpacaS(pcb.indexTag[k].name) \o EmpacaH(<<pcb.indexTag[k].PC>>)])
  \o SerialPackStack(pcb.stack)

\* Whoever packs a PCB does so in an unsigned char[BUFFER_CAPACITY], and
\* serial_pack_pcb writes on whether or not there is room.
CabeEnBuffer(pcb) == Len(SerialPackPcb(pcb)) <= BUFFER_CAPACITY

\* tam goes on by what is left of a name, not by what was sent.
LeeEtiqueta(buf, leido) ==
  LET name == LeeTag(buf, leido.tam)
      tam  == leido.tam + Len(name) + 2
  IN  [tam |-> tam + 2, lista |-> Append(leido.lista, [name |-> name, PC |-> LeeH(buf, tam)])]

LeeEtiquetas(buf, tam, n) ==
  LET leido[k \in 0..n] == IF k = 0 THEN [tam |-> tam, lista |-> <<>>]
                                    ELSE LeeEtiqueta(buf, leido[k - 1])
  IN  leido[n]

SerialUnpackPcb(buf) ==
  LET campo(k) == LeeH(buf, 2 * (k - 1))
      codigo   == [k \in 1..campo(6) |-> [start  |-> LeeH(buf, 4 * k + 14),
                                          offset |-> LeeH(buf, 4 * k + 16)]]
      tags     == LeeEtiquetas(buf, 18 + 4 * Len(codigo), campo(7))
  IN  [idProcess |-> campo(1), PC |-> campo(2), quantum |-> campo(3), status |-> campo(4),
       pagesCode |-> campo(5), stackPointer |-> campo(8), exitCode |-> campo(9),
       indexCode |-> codigo, indexTag |-> tags.lista,
       stack     |-> SerialUnpackStack(buf, tags.tam)]
=============================================================================
