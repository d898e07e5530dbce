--------------------------- MODULE ProgramSpaces ---------------------------
(***************************************************************************)
(* What Memoria promises the Kernel and the CPUs (Memoria/src/operations.h *)
(* and the use CPU.c makes of it): every program in the system has an      *)
(* address space of its own; what a client reads at an address is what was *)
(* last written there for that program, whatever the other clients do, and *)
(* a space is never taken away under a request.                            *)
(***************************************************************************)
EXTENDS Integers, Sequences

CONSTANTS Pids, Clients, Nothing

VARIABLES espacio,   \* the bytes of each program, by address; none: NoSpace
          pedido,    \* the read or write each client waits for, or Nothing
          leido      \* what each client has read and not used yet

vars == <<espacio, pedido, leido>>

NoSpace == <<>>

Init == /\ espacio = [p \in Pids |-> NoSpace]
        /\ pedido = [c \in Clients |-> Nothing]
        /\ leido = [c \in Clients |-> <<>>]

Free(p) == \A c \in Clients : pedido[c] # Nothing => pedido[c].pid # p

\* A new space holds whatever is in the frames it gets.
AllocProgram(p) ==
  /\ espacio[p] = NoSpace /\ espacio'[p] # NoSpace
  /\ espacio' = [espacio EXCEPT ![p] = espacio'[p]]
  /\ UNCHANGED <<pedido, leido>>

FreeProgram(p) ==
  /\ Free(p)
  /\ espacio' = [espacio EXCEPT ![p] = NoSpace]
  /\ UNCHANGED <<pedido, leido>>

\* A request names a program, the address of its first byte and a size.
Asks(c) ==
  /\ pedido[c] = Nothing /\ pedido'[c] # Nothing
  /\ LET r == pedido'[c]
     IN  /\ r.pid \in Pids
         /\ \A k \in 1..r.size : r.address + k - 1 \in DOMAIN espacio[r.pid]
  /\ pedido' = [pedido EXCEPT ![c] = pedido'[c]]
  /\ UNCHANGED <<espacio, leido>>

ReadFromPage(c) ==
  /\ pedido[c] # Nothing /\ pedido[c].op = "OP_ME_SOLBYTPAG"
  /\ LET r == pedido[c]
     IN  leido' = [leido EXCEPT ![c] =
                     [k \in 1..r.size |-> espacio[r.pid][r.address + k - 1]]]
  /\ pedido' = [pedido EXCEPT ![c] = Nothing]
  /\ UNCHANGED espacio

WriteToPage(c) ==
  /\ pedido[c] # Nothing /\ pedido[c].op = "OP_ME_ALMBYTPAG"
  /\ LET r == pedido[c]
     IN  espacio' = [espacio EXCEPT ![r.pid] =
           [a \in DOMAIN @ |-> IF a - r.address + 1 \in 1..r.size
                               THEN r.datos[a - r.address + 1] ELSE @[a]]]
  /\ pedido' = [pedido EXCEPT ![c] = Nothing]
  /\ UNCHANGED leido

Uses(c) ==
  /\ leido' = [leido EXCEPT ![c] = <<>>]
  /\ UNCHANGED <<espacio, pedido>>

Next == \/ \E p \in Pids : AllocProgram(p) \/ FreeProgram(p)
        \/ \E c \in Clients : Asks(c) \/ Uses(c) \/ ReadFromPage(c) \/ WriteToPage(c)

Spec == Init /\ [][Next]_vars
=============================================================================
