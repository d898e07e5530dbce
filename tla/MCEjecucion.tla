---------------------------- MODULE MCEjecucion ----------------------------
(* Programs for Ejecucion: those of Scripts/, with less to count, and all  *)
(* the small ones with one function.  Every name is declared before it is  *)
(* used, and a function that returns a value is called for one.            *)
EXTENDS Ejecucion

A == Var("a")
B == Var("b")
C == Var("c")
D == Arg(0)

Programa(codigo, inicio, tags, quantum) ==
  [codigo |-> codigo, inicio |-> inicio, indexTag |-> tags, quantum |-> quantum]

Tag(nombre, pc) == [name |-> nombre, PC |-> pc]

\* Scripts/facil.ansisop
Facil == Programa(<<Variables(<<A, B>>), Suma(A, Lit(3), Lit(0)), Suma(B, Lit(2), Lit(0)),
                    Suma(A, B, Lit(1)), End>>, 0, <<>>, 0)

\* Scripts/for.ansisop, to 3
For == Programa(<<Variables(<<A, B, C>>), Suma(A, Lit(0), Lit(0)), Suma(B, Lit(3), Lit(0)),
                  Suma(A, A, Lit(1)), Otra, Resta(C, B, A), Jnz(C, "inicio"), End>>,
                0, <<Tag("inicio", 3)>>, 0)

\* Scripts/productor.ansisop
Productor(q) == Programa(<<Otra, Otra, Otra, Goto("etiqueta")>>, 0,
                         <<Tag("etiqueta", 0)>>, q)

\* Scripts/stackoverflow.ansisop: f is the first of its labels.
StackOverflow ==
  Programa(<<Llama(Nadie, "f", <<>>), End,
             Variables(<<A>>), Suma(A, Lit(1), Lit(0)), Otra, Llama(Nadie, "g", <<>>), End,
             Variables(<<A>>), Suma(A, Lit(0), Lit(0)), Otra, Llama(Nadie, "f", <<>>), End>>,
           0, <<Tag("f", 2), Tag("g", 7)>>, 0)

\* begin, two lines and end; with one function, before or behind.
EnMain(conValor) ==
  {Suma(A, Lit(1), Lit(0)), Suma(B, A, Lit(1)), Suma(A, B, Lit(0))}
  \cup IF conValor THEN {Llama(B, "f", <<A>>), Llama(A, "f", <<B>>)}
                   ELSE {Llama(Nadie, "f", <<B>>)}

EnFuncion(conValor) ==
  {Suma(C, D, Lit(1)), Suma(D, C, Lit(0)),
   Llama(IF conValor THEN C ELSE Nadie, "f", <<D>>)}

Fin(conValor) == IF conValor THEN {Return(C), Return(D)} ELSE {End}

\* With C declared too, the stack is full on a variable, else on an argument.
Main(ids, uno, dos) == <<Variables(ids), Suma(A, Lit(2), Lit(0)), Suma(B, Lit(0), Lit(0)),
                         uno, dos, End>>
Funcion(una, fin) == <<Variables(<<C>>), Suma(C, D, Lit(0)), una, fin>>

Pequenos ==
  UNION {{Programa(Main(<<A, B>>, uno, dos) \o Funcion(una, fin), 0, <<Tag("f", 6)>>, q) :
            uno \in EnMain(v), dos \in EnMain(v), una \in EnFuncion(v), fin \in Fin(v),
            q \in {0, 9}} \cup
         {Programa(Funcion(una, fin) \o Main(<<A, B, C>>, uno, dos), 4, <<Tag("f", 0)>>, 0) :
            uno \in EnMain(v), dos \in EnMain(v), una \in EnFuncion(v), fin \in Fin(v)} :
         v \in BOOLEAN}

MCProgramas == {Facil, For, Productor(0), Productor(6)} \cup Pequenos
MCValores == -1..8

SoloStackOverflow == {StackOverflow}
=============================================================================
