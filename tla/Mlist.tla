------------------------------- MODULE Mlist -------------------------------
(***************************************************************************)
(* The list library of Common/mlist.c, as far as the processes use it: a   *)
(* list is the sequence of its elements, and an operator here is what a    *)
(* call does once it has the mutex of the list.  What it has found before  *)
(* that (mlist_append the tail, mlist_pop and mlist_remove a node) is up   *)
(* to the modules that have several threads.  mlist_append, mlist_length   *)
(* and mlist_empty are Append, Len and s = <<>>; positions count from 1    *)
(* here and from 0 in the code.                                            *)
(***************************************************************************)
EXTENDS Integers, Sequences, FiniteSets, Functions

Kept(s, p)    == {i \in DOMAIN s : s[i] # p}
Rank(s, p, i) == Cardinality({j \in 1..i : j \in Kept(s, p)})

\* mlist_remove with an equality as the condition: it does not stop at the
\* first match, so every element equal to p leaves the list and the others
\* keep their order.  (A definition without recursion, so that tlapm can
\* reason about it: the k-th element that stays is the one of rank k.)
Without(s, p) ==
  [k \in 1..Cardinality(Kept(s, p)) |->
     s[CHOOSE i \in Kept(s, p) : Rank(s, p, i) = k]]

\* The list without the node at a position.
Popped(s, i) == [k \in 1..(Len(s) - 1) |-> IF k < i THEN s[k] ELSE s[k + 1]]

\* remove_node of the node of p, wherever it is by now.
Removed(s, p) == Popped(s, CHOOSE i \in DOMAIN s : s[i] = p)

Increasing(s) == \A i, j \in DOMAIN s : i < j => s[i] < s[j]
=============================================================================
