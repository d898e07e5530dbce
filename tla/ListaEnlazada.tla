---------------------------- MODULE ListaEnlazada ----------------------------
(***************************************************************************)
(* The linked nodes behind an mlist (mlist.c).  A list is a record of the  *)
(* fields of struct mlist and of those of the nodes there are: next and    *)
(* prev give the neighbours of a node, Null where the code has NULL.       *)
(* Mlist.tla is the same list seen as the sequence of its elements.        *)
(***************************************************************************)
EXTENDS Integers, Sequences

CONSTANT Nodos        \* node_t: the nodes that may be allocated
ASSUME NodosAssumption == Nodos \subseteq Nat \ {0}

Null == 0

MlistCreate == [head |-> Null, tail |-> Null, length |-> 0,
                next |-> [n \in Nodos |-> Null], prev |-> [n \in Nodos |-> Null]]

MlistEmpty(list) == list.length = 0

MlistLast(list) == IF MlistEmpty(list) THEN Null ELSE list.tail

InsertAfterMutant(list, base, new) ==
  IF MlistEmpty(list)
  THEN [list EXCEPT !.head = new, !.tail = new, !.length = 1]
  ELSE LET sigue == list.next[base]
       IN  [list EXCEPT
              !.next   = [@ EXCEPT ![new] = sigue],
              !.prev   = [n \in Nodos |-> IF n = new THEN base
                                          ELSE IF n = sigue THEN new ELSE @[n]],
              !.tail   = IF sigue = Null THEN new ELSE @,
              !.length = @ + 1]

\* What insert_after does under the lock with a node create_node has just
\* made: the first of the list, or behind base, whether that is the last or not.
InsertAfter(list, base, new) ==
  IF MlistEmpty(list)
  THEN [list EXCEPT !.head = new, !.tail = new, !.length = 1]
  ELSE LET sigue == list.next[base]
       IN  [list EXCEPT
              !.next   = [@ EXCEPT ![new] = sigue, ![base] = new],
              !.prev   = [n \in Nodos |-> IF n = new THEN base
                                          ELSE IF n = sigue THEN new ELSE @[n]],
              !.tail   = IF sigue = Null THEN new ELSE @,
              !.length = @ + 1]

RemoveNodeMutant(list, node) ==
  LET antes == list.prev[node]
      sigue == list.next[node]
  IN  [list EXCEPT
         !.next   = [n \in Nodos |-> IF n = antes THEN sigue ELSE @[n]],
         !.prev   = [n \in Nodos |-> IF n = sigue THEN antes ELSE @[n]],
         !.head   = IF node = @ THEN sigue ELSE @,
         !.length = @ - 1]

\* What remove_node does under the lock.  The node is free afterwards; its
\* fields are as create_node leaves those of the next one in its place.
RemoveNode(list, node) ==
  LET antes == list.prev[node]
      sigue == list.next[node]
  IN  [list EXCEPT
         !.next   = [n \in Nodos |-> IF n = node THEN Null
                                     ELSE IF n = antes THEN sigue ELSE @[n]],
         !.prev   = [n \in Nodos |-> IF n = node THEN Null
                                     ELSE IF n = sigue THEN antes ELSE @[n]],
         !.head   = IF node = @ THEN sigue ELSE @,
         !.tail   = IF node = @ THEN antes ELSE @,
         !.length = @ - 1]

----------------------------------------------------------------------------
(* The sequence of the nodes, by the links of one direction.               *)

Vecino(links, n) == IF n = Null THEN Null ELSE links[n]

Adelante(list) ==
  LET f[k \in 1..list.length] == IF k = 1 THEN list.head ELSE Vecino(list.next, f[k - 1])
  IN  f

Atras(list) ==
  LET f[k \in 1..list.length] ==
        IF k = list.length THEN list.tail ELSE Vecino(list.prev, f[k + 1])
  IN  f

\* Both directions give the same nodes, as many as length says, and end there.
Entera(list) ==
  /\ list.length >= 0
  /\ Adelante(list) = Atras(list)
  /\ \A k \in 1..list.length : Adelante(list)[k] \in Nodos
  /\ \A j, k \in 1..list.length : j # k => Adelante(list)[j] # Adelante(list)[k]
  /\ Vecino(list.next, list.tail) = Null /\ Vecino(list.prev, list.head) = Null
  /\ list.length = 0 => list.head = Null /\ list.tail = Null
=============================================================================
