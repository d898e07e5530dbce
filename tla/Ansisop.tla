------------------------------ MODULE Ansisop ------------------------------
(***************************************************************************)
(* What the CPU needs to know of an AnSISOP program.  The text is analysed *)
(* by the library ansisop-parser, which is not in this repository: it      *)
(* numbers the instructions, finds the labels and, for each line, calls    *)
(* the primitives that CPU.h hands to it.                                  *)
(*                                                                         *)
(* A program is a record: codigo, its instructions, the first one number   *)
(* 0; inicio, where "begin" is; indexTag, its labels and functions; and    *)
(* the quantum it is given.                                                *)
(***************************************************************************)
EXTENDS Integers, SequencesExt

\* Names and operands: a variable by its letter, an argument by its digit.
Var(letra) == <<"var", letra>>
Arg(cifra) == <<"arg", cifra>>
Lit(n)     == <<"lit", n>>
Nadie      == <<"nadie", 0>>

EsArgumento(id) == id[1] = "arg"

\* The lines, by the primitive that does their work.
Variables(ids)           == [op |-> "variables", ids |-> ids]
Suma(x, y, z)            == [op |-> "asignar", x |-> x, y |-> y, signo |-> 1, z |-> z]
Resta(x, y, z)           == [op |-> "asignar", x |-> x, y |-> y, signo |-> -1, z |-> z]
Goto(etiqueta)           == [op |-> "irAlLabel", etiqueta |-> etiqueta, si |-> Lit(1)]
Jnz(si, etiqueta)        == [op |-> "irAlLabel", etiqueta |-> etiqueta, si |-> si]
Llama(ret, funcion, args) == [op |-> "llamar", etiqueta |-> funcion, args |-> args, ret |-> ret]
Return(y)                == [op |-> "retornar", y |-> y]
End                      == [op |-> "finalizar"]
Otra                     == [op |-> "otra"]   \* print, wait, signal...

\* The primitives a line calls.  The arguments of a function are values of the
\* caller, so they are known only when it is called: Argumentos.
Primitivas(linea) ==
  CASE linea.op = "variables" -> [k \in DOMAIN linea.ids |->
                                    [op |-> "definirVariable", id |-> linea.ids[k]]]
    [] linea.op = "otra"      -> <<>>
    [] OTHER                  -> <<linea>>

Argumentos(valores) ==
  [k \in DOMAIN valores |-> [op |-> "pasar", n |-> k - 1, valor |-> valores[k]]]

SinPrograma == [codigo |-> <<>>, inicio |-> 0, indexTag |-> <<>>, quantum |-> 0]

Instruccion(p, pc) == p.codigo[pc + 1]
----------------------------------------------------------------------------
(* What the parser takes for a program.                                    *)

Letras    == {"var"} \X STRING
Nombres   == Letras \cup ({"arg"} \X Nat)
Operandos == Nombres \cup ({"lit"} \X Int)

Lineas ==
  [op : {"variables"}, ids : Seq(Letras)] \cup
  [op : {"asignar"}, x : Nombres, y : Operandos, signo : {1, -1}, z : Operandos] \cup
  [op : {"irAlLabel"}, etiqueta : STRING, si : Operandos] \cup
  [op : {"llamar"}, etiqueta : STRING, args : Seq(Operandos), ret : Letras \cup {Nadie}] \cup
  [op : {"retornar"}, y : Operandos] \cup [op : {"finalizar", "otra"}]

Lugares(p) == 0..(Len(p.codigo) - 1)

\* No line goes on behind the last one: it ends a function or main, or always
\* goes to the label that is found.
Cerrado(p) ==
  LET l == Last(p.codigo)
  IN  \/ l.op \in {"finalizar", "retornar"}
      \/ /\ l.op = "irAlLabel" /\ l.si[1] = "lit" /\ l.si[2] # 0
         /\ p.indexTag # <<>> /\ p.indexTag[1].name = l.etiqueta

Codigos ==
  {p \in [codigo : Seq(Lineas), inicio : Nat, quantum : Nat,
          indexTag : Seq([name : STRING, PC : Nat])] :
     /\ p.inicio \in Lugares(p) /\ Cerrado(p)
     /\ p.indexTag # <<>> => p.indexTag[1].PC \in Lugares(p)}
=============================================================================
