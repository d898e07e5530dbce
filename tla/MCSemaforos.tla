---------------------------- MODULE MCSemaforos ----------------------------
(***************************************************************************)
(* Pairs of programs with the lines that meet in syscall.c: waits on two   *)
(* semaphores, of which one starts above zero, signals, and one variable.  *)
(***************************************************************************)
EXTENDS Semaforos

MCTextos == {
  <<<<Wait("a"), Wait("b"), End>>, <<Wait("b"), Wait("a"), End>>>>,
  <<<<Wait("a"), End>>, <<Wait("b"), Signal("a"), End>>>>,
  <<<<Wait("a"), Wait("a"), End>>, <<Signal("a"), Signal("a"), End>>>>,
  <<<<Obtiene("x"), Obtiene("x"), End>>, <<Wait("b"), Asigna("x"), End>>>>,
  <<<<Wait("b"), Obtiene("x"), End>>, <<Wait("a"), Asigna("x"), End>>>>,
  <<<<Wait("b"), Asigna("x"), End>>, <<Asigna("x"), Wait("b"), End>>>>}

\* SEM_INIT: b lets one wait through.
MCSemInit == [s \in SemIds |-> IF s = "a" THEN 0 ELSE 2]
=============================================================================
