------------------------------ MODULE Llamadas ------------------------------
(***************************************************************************)
(* What running a program means: every call has an activation of its own   *)
(* with the variables and arguments it declares; a name is looked up in    *)
(* the last activation; a function goes back behind its call, with its     *)
(* value in the variable the caller named; jumps and calls reach their     *)
(* label.  There is room for Capacidad variables and no more.  A program   *)
(* that runs to its end, or out of its quantum, is reported to the Kernel  *)
(* once.                                                                   *)
(***************************************************************************)
EXTENDS Ansisop

CONSTANTS Programas, Capacidad, Valores

VARIABLES programa,     \* the program
          siguiente,    \* the instruction after the current line
          linea,        \* the primitives the line has still to call
          activaciones, \* the calls under way, main first
          estado,       \* "libre", "corre", or "desborda"
          avisos,       \* how often the Kernel was told that it is over
          leidas        \* instructions read, if there is a quantum

vars == <<programa, siguiente, linea, activaciones, estado, avisos, leidas>>

Principal == [vars |-> <<>>, args |-> <<>>, vuelve |-> 0]

Init == /\ programa = SinPrograma /\ siguiente = 0 /\ linea = <<>> /\ activaciones = <<>>
        /\ estado = "libre" /\ avisos = 0 /\ leidas = 0

Actual == Last(activaciones)

Lookup(a, y) == CASE y[1] = "lit" -> y[2]
                  [] y[1] = "var" -> a.vars[y]
                  [] y[1] = "arg" -> a.args[y[2] + 1]

Assign(a, x, v) == IF EsArgumento(x) THEN [a EXCEPT !.args[x[2] + 1] = v]
                                     ELSE [a EXCEPT !.vars[x] = v]

WithLast(a) == Front(activaciones) \o <<a>>

Declared == UNION {{<<k, "arg", x>> : x \in DOMAIN activaciones[k].args} \cup
                   {<<k, "var", x>> : x \in DOMAIN activaciones[k].vars} :
                   k \in DOMAIN activaciones}
Room == Cardinality(Declared) < Capacidad

Etiqueta(nombre) ==
  (CHOOSE t \in ToSet(programa.indexTag) : t.name = nombre).PC

Starts(p) ==
  /\ estado = "libre"
  /\ programa' = p /\ siguiente' = p.inicio /\ linea' = <<>> /\ estado' = "corre"
  /\ activaciones' = <<Principal>> /\ avisos' = 0 /\ leidas' = 0

Reads ==
  /\ estado = "corre" /\ linea = <<>>
  /\ programa.quantum = 0 \/ leidas < programa.quantum
  /\ linea' = Primitivas(Instruccion(programa, siguiente))
  /\ siguiente' = siguiente + 1
  /\ leidas' = IF programa.quantum = 0 THEN 0 ELSE leidas + 1
  /\ UNCHANGED <<programa, activaciones, estado, avisos>>

Does(op) == estado = "corre" /\ linea # <<>> /\ Head(linea).op = op

Declares(v) ==
  /\ Does("definirVariable") /\ Room
  /\ activaciones' = WithLast([Actual EXCEPT !.vars =
       [x \in DOMAIN @ \cup {Head(linea).id} |-> IF x = Head(linea).id THEN v ELSE @[x]]])
  /\ linea' = Tail(linea)
  /\ UNCHANGED <<programa, siguiente, estado, avisos, leidas>>

Passes ==
  /\ Does("pasar") /\ Room
  /\ activaciones' = WithLast([Actual EXCEPT !.args = Append(@, Head(linea).valor)])
  /\ linea' = Tail(linea)
  /\ UNCHANGED <<programa, siguiente, estado, avisos, leidas>>

Assigns ==
  /\ Does("asignar")
  /\ LET l == Head(linea)
     IN  activaciones' = WithLast(Assign(Actual, l.x,
                           Lookup(Actual, l.y) + l.signo * Lookup(Actual, l.z)))
  /\ linea' = Tail(linea)
  /\ UNCHANGED <<programa, siguiente, estado, avisos, leidas>>

Jumps ==
  /\ Does("irAlLabel")
  /\ siguiente' = IF Lookup(Actual, Head(linea).si) # 0
                  THEN Etiqueta(Head(linea).etiqueta) ELSE siguiente
  /\ linea' = Tail(linea)
  /\ UNCHANGED <<programa, activaciones, estado, avisos, leidas>>

Calls ==
  /\ Does("llamar")
  /\ LET l == Head(linea)
     IN  /\ linea' = Argumentos([k \in DOMAIN l.args |-> Lookup(Actual, l.args[k])])
         /\ siguiente' = Etiqueta(l.etiqueta)
  /\ activaciones' = Append(activaciones, [Principal EXCEPT !.vuelve = siguiente])
  /\ UNCHANGED <<programa, estado, avisos, leidas>>

Stops(result, told) ==
  /\ estado' = result /\ avisos' = avisos + told
  /\ siguiente' = 0 /\ linea' = <<>> /\ activaciones' = <<>> /\ leidas' = 0
  /\ programa' = SinPrograma

\* The call that is over goes back to its caller, which may get a value.
Leaves(caller) ==
  IF Len(activaciones) = 1 THEN Stops("libre", 1)
  ELSE /\ activaciones' = SubSeq(activaciones, 1, Len(activaciones) - 2) \o <<caller>>
       /\ siguiente' = Actual.vuelve /\ linea' = Tail(linea)
       /\ UNCHANGED <<programa, estado, avisos, leidas>>

Caller == activaciones[Len(activaciones) - 1]

Returns ==
  /\ Does("retornar")
  /\ Leaves(IF Len(activaciones) = 1 THEN Actual
            ELSE LET x == Instruccion(programa, Actual.vuelve - 1).ret
                 IN  IF x = Nadie THEN Caller
                     ELSE Assign(Caller, x, Lookup(Actual, Head(linea).y)))

Ends ==
  /\ Does("finalizar")
  /\ Leaves(IF Len(activaciones) = 1 THEN Actual ELSE Caller)

Overflows ==
  /\ Does("definirVariable") \/ Does("pasar")
  /\ ~Room
  /\ Stops("desborda", 0)

OutOfQuantum ==
  /\ estado = "corre" /\ linea = <<>> /\ leidas = programa.quantum /\ leidas > 0
  /\ Stops("libre", 1)

Next == \/ \E p \in Programas : Starts(p)
        \/ Reads \/ (\E v \in Valores : Declares(v)) \/ Passes \/ Assigns \/ Jumps
        \/ Calls \/ Returns \/ Ends \/ Overflows \/ OutOfQuantum

Spec == Init /\ [][Next]_vars
=============================================================================
