-------------------------- MODULE EjecucionProofs --------------------------
(***************************************************************************)
(* The stack of a program, whatever it calls and wherever it overflows:    *)
(* each context has the bytes between its base and the next one's, and     *)
(* each call under way knows where it came from.  Together they act as an  *)
(* activation for each call (Llamadas).                                    *)
(***************************************************************************)
EXTENDS Ejecucion, MlistProofs, SerialProofs

----------------------------------------------------------------------------
(* What a stack declares.                                                  *)

Contextos == [args : Seq(Nat), vars : Seq([id : Nombres, pos : Nat]),
              retPos : Int, retVar : Nat]

Pilas == Seq(Contextos)

DeContexto(c, k) == {<<k, "arg", j>> : j \in DOMAIN c.args} \cup
                    {<<k, "var", j>> : j \in DOMAIN c.vars}

De(pila) == UNION {DeContexto(pila[k], k) : k \in DOMAIN pila}

Lugar(pila, x) == IF x[2] = "arg" THEN pila[x[1]].args[x[3]] ELSE pila[x[1]].vars[x[3]].pos

Hasta(pila, k) == TamanioVariable * Cardinality({x \in De(pila) : x[1] < k})

\* The layers of the stack: Capas of Ejecucion for a stack and a stack pointer.
EnCapas(pila, sp) ==
  /\ IsFiniteSet(De(pila))
  /\ sp = Hasta(pila, Len(pila) + 1)
  /\ \A x \in De(pila) :
       /\ Hasta(pila, x[1]) <= Lugar(pila, x)
       /\ Lugar(pila, x) + TamanioVariable <= Hasta(pila, x[1] + 1)
       /\ Lugar(pila, x) % TamanioVariable = 0
  /\ \A x, y \in De(pila) : Lugar(pila, x) = Lugar(pila, y) => x = y

LEMMA CapasDePila == Capas <=> EnCapas(pcbActual.stack, pcbActual.stackPointer)
BY DEF Capas, EnCapas, Declaradas, De, DeContexto, Base, Hasta, Pos, Lugar

LEMMA Largos ==
  ASSUME NEW pila \in Pilas
  PROVE  /\ Len(pila) \in Nat /\ DOMAIN pila = 1..Len(pila)
         /\ \A k \in 1..Len(pila) :
              /\ pila[k] \in Contextos
              /\ pila[k].args \in Seq(Nat) /\ pila[k].vars \in Seq([id : Nombres, pos : Nat])
              /\ Len(pila[k].args) \in Nat /\ DOMAIN pila[k].args = 1..Len(pila[k].args)
              /\ Len(pila[k].vars) \in Nat /\ DOMAIN pila[k].vars = 1..Len(pila[k].vars)
<1>1. Len(pila) \in Nat /\ DOMAIN pila = 1..Len(pila)
  BY LenProperties DEF Pilas
<1>2. ASSUME NEW k \in 1..Len(pila)
      PROVE  /\ pila[k] \in Contextos
             /\ pila[k].args \in Seq(Nat) /\ pila[k].vars \in Seq([id : Nombres, pos : Nat])
  <2>1. pila[k] \in Contextos
    BY ElementOfSeq DEF Pilas
  <2> QED BY <2>1 DEF Contextos
<1> QED BY <1>1, <1>2, LenProperties

LEMMA DeMiembros ==
  ASSUME NEW pila \in Pilas, NEW x
  PROVE  x \in De(pila) <=>
           \E k \in 1..Len(pila) : \/ \E j \in 1..Len(pila[k].args) : x = <<k, "arg", j>>
                                   \/ \E j \in 1..Len(pila[k].vars) : x = <<k, "var", j>>
<1>1. \A k \in 1..Len(pila) :
        x \in DeContexto(pila[k], k) <=>
          \/ \E j \in 1..Len(pila[k].args) : x = <<k, "arg", j>>
          \/ \E j \in 1..Len(pila[k].vars) : x = <<k, "var", j>>
  BY Largos DEF DeContexto
<1> QED BY <1>1, Largos DEF De

LEMMA DeTipos ==
  ASSUME NEW pila \in Pilas, NEW x \in De(pila)
  PROVE  /\ x[1] \in 1..Len(pila) /\ Lugar(pila, x) \in Nat
         /\ x = <<x[1], x[2], x[3]>>
         /\ \/ x[2] = "arg" /\ x[3] \in 1..Len(pila[x[1]].args)
            \/ x[2] = "var" /\ x[3] \in 1..Len(pila[x[1]].vars)
<1>1. PICK k \in 1..Len(pila) : \/ \E j \in 1..Len(pila[k].args) : x = <<k, "arg", j>>
                                \/ \E j \in 1..Len(pila[k].vars) : x = <<k, "var", j>>
  BY DeMiembros
<1>2. pila[k].args \in Seq(Nat) /\ pila[k].vars \in Seq([id : Nombres, pos : Nat])
  BY Largos
<1>3. ASSUME NEW j \in 1..Len(pila[k].args), x = <<k, "arg", j>>
      PROVE  /\ x[1] \in 1..Len(pila) /\ Lugar(pila, x) \in Nat
             /\ x = <<x[1], x[2], x[3]>>
             /\ \/ x[2] = "arg" /\ x[3] \in 1..Len(pila[x[1]].args)
                \/ x[2] = "var" /\ x[3] \in 1..Len(pila[x[1]].vars)
  <2>1. pila[k].args[j] \in Nat
    BY <1>2, ElementOfSeq
  <2> QED BY <1>3, <2>1 DEF Lugar
<1>4. ASSUME NEW j \in 1..Len(pila[k].vars), x = <<k, "var", j>>
      PROVE  /\ x[1] \in 1..Len(pila) /\ Lugar(pila, x) \in Nat
             /\ x = <<x[1], x[2], x[3]>>
             /\ \/ x[2] = "arg" /\ x[3] \in 1..Len(pila[x[1]].args)
                \/ x[2] = "var" /\ x[3] \in 1..Len(pila[x[1]].vars)
  <2>1. pila[k].vars[j] \in [id : Nombres, pos : Nat]
    BY <1>2, ElementOfSeq
  <2> QED BY <1>4, <2>1 DEF Lugar
<1> QED BY <1>1, <1>3, <1>4

\* Bases count, so they are numbers and do not go down.
LEMMA BasesCrecen ==
  ASSUME NEW pila \in Pilas, IsFiniteSet(De(pila))
  PROVE  /\ \A k \in Int : /\ Hasta(pila, k) \in Nat /\ IsFiniteSet({x \in De(pila) : x[1] < k})
                           /\ Cardinality({x \in De(pila) : x[1] < k}) \in Nat
         /\ \A k, l \in Int : k <= l => Hasta(pila, k) <= Hasta(pila, l)
         /\ Hasta(pila, Len(pila) + 1) = TamanioVariable * Cardinality(De(pila))
<1> DEFINE Abajo(k) == {x \in De(pila) : x[1] < k}
<1>0. \A k : Hasta(pila, k) = TamanioVariable * Cardinality(Abajo(k))
  BY DEF Hasta
<1>1. \A k : Abajo(k) \in SUBSET De(pila)
  OBVIOUS
<1>2. \A k, l \in Int : k <= l => Abajo(k) \in SUBSET Abajo(l)
  BY DeTipos, Largos
<1>3. Abajo(Len(pila) + 1) = De(pila)
  BY DeTipos, Largos
<1> HIDE DEF Abajo
<1>4. \A k : IsFiniteSet(Abajo(k)) /\ Cardinality(Abajo(k)) \in Nat
  BY <1>1, FS_Subset, FS_CardinalityType
<1>5. \A k, l \in Int : k <= l => Cardinality(Abajo(k)) <= Cardinality(Abajo(l))
  BY <1>2, <1>4, FS_Subset
<1>6. \A k \in Int : Hasta(pila, k) \in Nat
  BY <1>0, <1>4 DEF TamanioVariable
<1>7. \A k, l \in Int : k <= l => Hasta(pila, k) <= Hasta(pila, l)
  BY <1>0, <1>4, <1>5 DEF TamanioVariable
<1>8. Hasta(pila, Len(pila) + 1) = TamanioVariable * Cardinality(De(pila))
  BY <1>0, <1>3
<1> QED BY <1>4, <1>6, <1>7, <1>8 DEF Abajo

\* What the property says of a stack follows from its layers.
LEMMA CapasApartan ==
  ASSUME NEW pila \in Pilas, NEW sp, EnCapas(pila, sp)
  PROVE  /\ sp = TamanioVariable * Cardinality(De(pila)) /\ sp \in Nat
         /\ \A x \in De(pila) :
              /\ Lugar(pila, x) + TamanioVariable <= sp
              /\ \A y \in De(pila) : x[1] < y[1] => Lugar(pila, x) < Lugar(pila, y)
              /\ \A y \in De(pila) : x # y => Lugar(pila, x) # Lugar(pila, y)
<1>1. /\ \A k \in Int : Hasta(pila, k) \in Nat
      /\ \A k, l \in Int : k <= l => Hasta(pila, k) <= Hasta(pila, l)
      /\ sp = Hasta(pila, Len(pila) + 1)
      /\ sp = TamanioVariable * Cardinality(De(pila)) /\ Len(pila) \in Nat
  BY BasesCrecen, Largos DEF EnCapas
<1>2. ASSUME NEW x \in De(pila)
      PROVE  /\ x[1] \in 1..Len(pila) /\ Lugar(pila, x) \in Nat
             /\ Hasta(pila, x[1]) <= Lugar(pila, x)
             /\ Lugar(pila, x) + TamanioVariable <= Hasta(pila, x[1] + 1)
  BY DeTipos DEF EnCapas
<1>3. ASSUME NEW x \in De(pila) PROVE Lugar(pila, x) + TamanioVariable <= sp
  <2>1. PICK k \in Int : k = x[1] + 1 /\ k <= Len(pila) + 1
    <3>1. x[1] \in 1..Len(pila) /\ Len(pila) \in Nat
      BY <1>1, <1>2
    <3> QED BY <3>1
  <2>2. /\ Lugar(pila, x) \in Nat /\ Lugar(pila, x) + TamanioVariable <= Hasta(pila, k)
        /\ Hasta(pila, k) \in Nat
    BY <1>1, <1>2, <2>1
  <2>3. Hasta(pila, k) <= sp /\ sp \in Nat
    <3> DEFINE n == Len(pila) + 1
    <3>1. n \in Int /\ k <= n
      BY <1>1, <2>1
    <3> HIDE DEF n
    <3>2. Hasta(pila, k) <= Hasta(pila, n) /\ Hasta(pila, n) \in Nat
      BY <1>1, <3>1
    <3> QED BY <1>1, <3>2 DEF n
  <2> QED BY <2>2, <2>3 DEF TamanioVariable
<1>4. ASSUME NEW x \in De(pila), NEW y \in De(pila), x[1] < y[1]
      PROVE  Lugar(pila, x) < Lugar(pila, y)
  <2>1. PICK k \in Int, l \in Int : k = x[1] + 1 /\ l = y[1] /\ k <= l
    <3>1. x[1] \in Int /\ y[1] \in Int
      BY <1>2
    <3> QED BY <1>4, <3>1
  <2>2. /\ Lugar(pila, x) \in Nat /\ Lugar(pila, x) + TamanioVariable <= Hasta(pila, k)
        /\ Lugar(pila, y) \in Nat /\ Hasta(pila, l) <= Lugar(pila, y)
        /\ Hasta(pila, k) \in Nat /\ Hasta(pila, l) \in Nat
    BY <1>1, <1>2, <2>1
  <2>3. Hasta(pila, k) <= Hasta(pila, l)
    BY <1>1, <2>1
  <2> QED BY <2>2, <2>3 DEF TamanioVariable
<1> QED BY <1>1, <1>3, <1>4, SMTT(30) DEF EnCapas

LEMMA SinPila == ASSUME NEW pila, pila = <<>> PROVE EnCapas(pila, 0) /\ pila \in Pilas
<1>1. De(pila) = {} /\ Len(pila) = 0 /\ pila \in Pilas
  BY DEF De, Pilas
<1>2. Hasta(pila, 1) = 0
  <2>1. {x \in De(pila) : x[1] < 1} = {}
    BY <1>1
  <2> QED BY <2>1, FS_EmptySet DEF Hasta, TamanioVariable
<1> QED BY <1>1, <1>2, FS_EmptySet DEF EnCapas

\* Llamar: a context that declares nothing yet.
LEMMA SeAbre ==
  ASSUME NEW pila \in Pilas, NEW sp, EnCapas(pila, sp),
         NEW c \in Contextos, c.args = <<>>, c.vars = <<>>
  PROVE  EnCapas(Append(pila, c), sp) /\ Append(pila, c) \in Pilas
<1> DEFINE t == Append(pila, c)  n == Len(pila)
<1>1. /\ t \in Pilas /\ Len(t) = n + 1 /\ n \in Nat /\ t[n + 1] = c
      /\ \A k \in 1..n : t[k] = pila[k]
  BY AppendProperties DEF Pilas
<1> HIDE DEF t
<1>2. \A x : x \in De(t) <=> x \in De(pila)
  <2> TAKE x
  <2>1. ASSUME NEW k \in 1..Len(pila) PROVE k \in 1..Len(t) /\ t[k] = pila[k]
    BY <1>1
  <2>2. ASSUME NEW k \in 1..Len(t) PROVE k \in 1..Len(pila) \/ (Len(t[k].args) = 0 /\ Len(t[k].vars) = 0)
    BY <1>1
  <2>3. x \in De(pila) => x \in De(t)
    BY <1>1, <2>1, DeMiembros
  <2>4. x \in De(t) => x \in De(pila)
    BY <1>1, <2>1, <2>2, DeMiembros
  <2> QED BY <2>3, <2>4
<1>3. De(t) = De(pila)
  BY <1>2
<1>4. \A x \in De(pila) : Lugar(t, x) = Lugar(pila, x)
  BY <1>1, DeTipos DEF Lugar
<1>5. \A k : Hasta(t, k) = Hasta(pila, k)
  BY <1>3 DEF Hasta
<1>6. Hasta(t, Len(t) + 1) = Hasta(pila, Len(pila) + 1)
  BY <1>1, <1>3, BasesCrecen DEF EnCapas
<1> QED BY <1>1, <1>3, <1>4, <1>5, <1>6 DEF EnCapas, t

\* definirVariable: one more variable, at the stack pointer.
LEMMA UnaMas ==
  ASSUME NEW pila \in Pilas, NEW t \in Pilas, NEW sp, EnCapas(pila, sp),
         Len(t) = Len(pila), Len(pila) > 0, NEW nuevo, nuevo \notin De(pila),
         De(t) = De(pila) \cup {nuevo}, nuevo[1] = Len(pila), Lugar(t, nuevo) = sp,
         \A x \in De(pila) : Lugar(t, x) = Lugar(pila, x)
  PROVE  EnCapas(t, sp + TamanioVariable)
<1> DEFINE n == Len(pila)
<1>1. /\ n \in Nat /\ \A x \in De(pila) : x[1] \in 1..n /\ Lugar(pila, x) \in Nat
      /\ IsFiniteSet(De(pila)) /\ Cardinality(De(pila)) \in Nat
      /\ \A k \in Int : Hasta(pila, k) \in Nat
      /\ \A k, l \in Int : k <= l => Hasta(pila, k) <= Hasta(pila, l)
      /\ sp = Hasta(pila, n + 1) /\ sp = TamanioVariable * Cardinality(De(pila))
  BY DeTipos, Largos, BasesCrecen, FS_CardinalityType DEF EnCapas
<1>2. IsFiniteSet(De(t)) /\ Cardinality(De(t)) = Cardinality(De(pila)) + 1
  <2>1. IsFiniteSet(De(pila))
    BY <1>1
  <2>2. /\ IsFiniteSet(De(pila) \cup {nuevo})
        /\ Cardinality(De(pila) \cup {nuevo}) = Cardinality(De(pila)) + 1
    BY <2>1, FS_AddElement
  <2> QED BY <2>2
<1>3. Hasta(t, n + 1) = sp + TamanioVariable /\ \A k \in Int : Hasta(t, k) \in Nat
  <2>1. /\ Hasta(t, Len(t) + 1) = TamanioVariable * Cardinality(De(t))
        /\ \A k \in Int : Hasta(t, k) \in Nat
    BY <1>2, BasesCrecen
  <2> QED BY <1>1, <1>2, <2>1 DEF TamanioVariable
<1>4. ASSUME NEW k \in 1..n PROVE Hasta(t, k) = Hasta(pila, k)
  <2>1. ~(nuevo[1] < k)
    BY <1>1
  <2>2. {x \in De(t) : x[1] < k} = {x \in De(pila) : x[1] < k}
    BY <2>1
  <2> QED BY <2>2 DEF Hasta
<1>5. ASSUME NEW x \in De(t)
      PROVE  /\ Hasta(t, x[1]) <= Lugar(t, x)
             /\ Lugar(t, x) + TamanioVariable <= Hasta(t, x[1] + 1)
             /\ Lugar(t, x) % TamanioVariable = 0
  <2>1. CASE x = nuevo
    <3>1. n \in 1..n /\ Hasta(pila, n) <= Hasta(pila, n + 1)
      BY <1>1
    <3>2. sp % TamanioVariable = 0 /\ sp \in Nat
      BY <1>1 DEF TamanioVariable
    <3>3. Hasta(t, n) <= sp
      BY <1>1, <1>4, <3>1
    <3>4. sp + TamanioVariable <= Hasta(t, n + 1)
      BY <1>3, <3>2 DEF TamanioVariable
    <3> QED BY <2>1, <3>2, <3>3, <3>4
  <2>2. CASE x \in De(pila)
    <3> DEFINE k == x[1]
    <3>1. /\ k \in 1..n /\ Hasta(pila, k) <= Lugar(pila, x)
          /\ Lugar(pila, x) + TamanioVariable <= Hasta(pila, k + 1)
          /\ Lugar(pila, x) % TamanioVariable = 0 /\ Lugar(pila, x) \in Nat
          /\ Lugar(t, x) = Lugar(pila, x)
      BY <1>1, <2>2 DEF EnCapas
    <3> HIDE DEF k
    <3>2. Hasta(t, k) = Hasta(pila, k)
      BY <1>4, <3>1
    <3>3. Hasta(pila, k + 1) <= Hasta(t, k + 1)
      <4>1. CASE k = n
        BY <1>1, <1>3, <4>1 DEF TamanioVariable
      <4>2. CASE k # n
        <5>1. k + 1 \in 1..n
          BY <1>1, <3>1, <4>2
        <5> QED BY <1>1, <1>4, <5>1
      <4> QED BY <4>1, <4>2
    <3>4. Hasta(pila, k + 1) \in Nat /\ Hasta(t, k + 1) \in Nat
      BY <1>1, <1>3, <3>1
    <3>5. Lugar(t, x) + TamanioVariable <= Hasta(t, k + 1)
      BY <3>1, <3>3, <3>4 DEF TamanioVariable
    <3> QED BY <3>1, <3>2, <3>5 DEF k
  <2> QED BY <2>1, <2>2
<1>6. \A x \in De(pila) : Lugar(t, x) < sp
  BY <1>1, CapasApartan, SMTT(30) DEF TamanioVariable
<1>7. ASSUME NEW x \in De(t), NEW y \in De(t), Lugar(t, x) = Lugar(t, y) PROVE x = y
  <2>1. CASE x \in De(pila) /\ y \in De(pila)
    <3>1. Lugar(pila, x) = Lugar(pila, y)
      BY <1>7, <2>1
    <3> QED BY <2>1, <3>1 DEF EnCapas
  <2>2. CASE x = nuevo /\ y \in De(pila)
    BY <1>1, <1>6, <1>7, <2>2
  <2>3. CASE x \in De(pila) /\ y = nuevo
    BY <1>1, <1>6, <1>7, <2>3
  <2> QED BY <2>1, <2>2, <2>3
<1> QED BY <1>2, <1>3, <1>5, <1>7 DEF EnCapas

LEMMA Tramos == ASSUME NEW m \in Nat, NEW n \in Nat, m <= n PROVE 1..m \subseteq 1..n
OBVIOUS

\* The last context has one argument or one variable more.
Crece(pila, t, n, a) ==
  /\ n = Len(pila) /\ n = Len(t) /\ n > 0
  /\ \A k \in 1..n : k # n => t[k] = pila[k]
  /\ Len(t[n].args) = Len(pila[n].args) + a
  /\ Len(t[n].vars) = Len(pila[n].vars) + (1 - a)
  /\ \A j \in 1..Len(pila[n].args) : t[n].args[j] = pila[n].args[j]
  /\ \A j \in 1..Len(pila[n].vars) : t[n].vars[j] = pila[n].vars[j]

Nuevo(t, n, a) == IF a = 1 THEN <<n, "arg", Len(t[n].args)>> ELSE <<n, "var", Len(t[n].vars)>>

LEMMA Alargada ==
  ASSUME NEW pila \in Pilas, NEW t \in Pilas, NEW n \in Nat, NEW a \in {0, 1},
         Crece(pila, t, n, a)
  PROVE  /\ Nuevo(t, n, a) \notin De(pila) /\ De(t) = De(pila) \cup {Nuevo(t, n, a)}
         /\ \A x \in De(pila) : Lugar(t, x) = Lugar(pila, x)
<1> DEFINE nuevo == Nuevo(t, n, a)
<1> USE DEF Crece, Nuevo
<1>1. /\ n \in 1..n /\ Len(pila[n].args) \in Nat /\ Len(pila[n].vars) \in Nat
      /\ \A k \in 1..n : k # n => t[k].args = pila[k].args /\ t[k].vars = pila[k].vars
  BY Largos
<1>2. nuevo \notin De(pila)
  <2>1. CASE a = 1
    <3>1. nuevo = <<n, "arg", Len(pila[n].args) + 1>>
      BY <2>1
    <3> QED BY <1>1, <3>1, DeTipos
  <2>2. CASE a = 0
    <3>1. nuevo = <<n, "var", Len(pila[n].vars) + 1>>
      BY <1>1, <2>2
    <3> QED BY <1>1, <3>1, DeTipos, SMTT(30)
  <2> QED BY <2>1, <2>2
<1>3. ASSUME NEW x \in De(t) PROVE x \in De(pila) \/ x = nuevo
  <2>1. PICK k \in 1..n : \/ \E j \in 1..Len(t[k].args) : x = <<k, "arg", j>>
                          \/ \E j \in 1..Len(t[k].vars) : x = <<k, "var", j>>
    BY DeMiembros
  <2>2. CASE k # n
    BY <1>1, <2>1, <2>2, DeMiembros
  <2>3. ASSUME k = n, NEW j \in 1..Len(t[n].args), x = <<n, "arg", j>>
        PROVE  x \in De(pila) \/ x = nuevo
    <3>1. CASE j \in 1..Len(pila[n].args)
      BY <1>1, <2>3, <3>1, DeMiembros
    <3>2. CASE j \notin 1..Len(pila[n].args)
      <4>1. a = 1 /\ j = Len(t[n].args)
        BY <1>1, <2>3, <3>2, SMTT(30)
      <4> QED BY <2>3, <4>1
    <3> QED BY <3>1, <3>2
  <2>4. ASSUME k = n, NEW j \in 1..Len(t[n].vars), x = <<n, "var", j>>
        PROVE  x \in De(pila) \/ x = nuevo
    <3>1. CASE j \in 1..Len(pila[n].vars)
      BY <1>1, <2>4, <3>1, DeMiembros
    <3>2. CASE j \notin 1..Len(pila[n].vars)
      <4>1. a = 0 /\ j = Len(t[n].vars)
        BY <1>1, <2>4, <3>2, SMTT(30)
      <4> QED BY <2>4, <4>1
    <3> QED BY <3>1, <3>2
  <2> QED BY <2>1, <2>2, <2>3, <2>4
<1>4. ASSUME NEW x \in De(pila) PROVE x \in De(t)
  <2>1. PICK k \in 1..Len(pila) : \/ \E j \in 1..Len(pila[k].args) : x = <<k, "arg", j>>
                                  \/ \E j \in 1..Len(pila[k].vars) : x = <<k, "var", j>>
    BY ONLY pila \in Pilas, x \in De(pila), DeMiembros
  <2>2. 1..Len(pila[k].args) \subseteq 1..Len(t[k].args)
        /\ 1..Len(pila[k].vars) \subseteq 1..Len(t[k].vars)
    <3>1. CASE k = n
      <4>1. /\ Len(t[n].args) \in Nat /\ Len(pila[n].args) \in Nat
            /\ Len(pila[n].args) <= Len(t[n].args)
        BY <1>1
      <4>2. /\ Len(t[n].vars) \in Nat /\ Len(pila[n].vars) \in Nat
            /\ Len(pila[n].vars) <= Len(t[n].vars)
        BY <1>1
      <4> QED BY ONLY <3>1, <4>1, <4>2, Tramos
    <3>2. CASE k # n
      BY <1>1, <3>2
    <3> QED BY <3>1, <3>2
  <2> QED BY <2>1, <2>2, DeMiembros
<1>5. nuevo \in De(t)
  <2>1. CASE a = 1
    <3>1. Len(t[n].args) \in 1..Len(t[n].args)
      BY <1>1, <2>1
    <3> QED BY <1>1, <2>1, <3>1, DeMiembros
  <2>2. CASE a = 0
    <3>1. Len(t[n].vars) \in 1..Len(t[n].vars)
      BY <1>1, <2>2
    <3> QED BY <1>1, <2>2, <3>1, DeMiembros
  <2> QED BY <2>1, <2>2
<1>6. ASSUME NEW x \in De(pila) PROVE Lugar(t, x) = Lugar(pila, x)
  <2>1. /\ x[1] \in 1..n
        /\ \/ x[2] = "arg" /\ x[3] \in 1..Len(pila[x[1]].args)
           \/ x[2] = "var" /\ x[3] \in 1..Len(pila[x[1]].vars)
    BY DeTipos
  <2>2. CASE x[1] = n
    <3>1. CASE x[2] = "arg"
      BY <2>1, <2>2, <3>1, SMTT(30) DEF Lugar
    <3>2. CASE x[2] # "arg"
      BY <2>1, <2>2, <3>2 DEF Lugar
    <3> QED BY <3>1, <3>2
  <2>3. CASE x[1] # n
    <3>1. t[x[1]] = pila[x[1]]
      BY <2>1, <2>3
    <3> QED BY <3>1 DEF Lugar
  <2> QED BY <2>2, <2>3
<1> QED BY <1>2, <1>3, <1>4, <1>5, <1>6

\* definirVariable, in the last context.
LEMMA SeDeclara ==
  ASSUME NEW pila \in Pilas, Len(pila) > 0, NEW sp, EnCapas(pila, sp), NEW id \in Nombres
  PROVE  /\ ConVariable(pila, id, sp) \in Pilas
         /\ EnCapas(ConVariable(pila, id, sp), sp + TamanioVariable)
         /\ Len(ConVariable(pila, id, sp)) = Len(pila)
         /\ \A k \in 1..Len(pila) :
              LET antes == pila[k]  despues == ConVariable(pila, id, sp)[k]
              IN  /\ despues.retPos = antes.retPos /\ despues.retVar = antes.retVar
                  /\ Len(antes.vars) <= Len(despues.vars)
                  /\ \A j \in 1..Len(antes.vars) : despues.vars[j] = antes.vars[j]
<1> DEFINE n == Len(pila)  t == ConVariable(pila, id, sp)  c == pila[n]
           d == Ampliado(c, id, sp)  v == [id |-> id, pos |-> sp]
<1>1. /\ n \in Nat /\ n \in 1..n /\ n > 0 /\ sp \in Nat /\ c \in Contextos
      /\ c.args \in Seq(Nat) /\ c.vars \in Seq([id : Nombres, pos : Nat])
      /\ Len(c.args) \in Nat /\ Len(c.vars) \in Nat
  <2>1. n \in Nat /\ n \in 1..n
    BY Largos
  <2> QED BY <2>1, Largos, CapasApartan
<1>2. /\ Append(c.args, sp) \in Seq(Nat) /\ Len(Append(c.args, sp)) = Len(c.args) + 1
      /\ Append(c.args, sp)[Len(c.args) + 1] = sp
      /\ \A j \in 1..Len(c.args) : Append(c.args, sp)[j] = c.args[j]
  BY <1>1, AppendProperties
<1>3. /\ Append(c.vars, v) \in Seq([id : Nombres, pos : Nat])
      /\ Len(Append(c.vars, v)) = Len(c.vars) + 1
      /\ Append(c.vars, v)[Len(c.vars) + 1] = v
      /\ \A j \in 1..Len(c.vars) : Append(c.vars, v)[j] = c.vars[j]
  <2>1. v \in [id : Nombres, pos : Nat]
    BY <1>1
  <2> QED BY <1>1, <2>1, AppendProperties
<1>4. v.pos = sp
  OBVIOUS
<1> HIDE DEF v
<1>5. PICK a \in {0, 1} :
        /\ d \in Contextos /\ d.retPos = c.retPos /\ d.retVar = c.retVar
        /\ Len(d.args) = Len(c.args) + a /\ Len(d.vars) = Len(c.vars) + (1 - a)
        /\ \A j \in 1..Len(c.args) : d.args[j] = c.args[j]
        /\ \A j \in 1..Len(c.vars) : d.vars[j] = c.vars[j]
        /\ IF a = 1 THEN d.args[Len(d.args)] = sp ELSE d.vars[Len(d.vars)].pos = sp
  <2>1. CASE EsArgumento(id)
    <3>1. d = [c EXCEPT !.args = Append(c.args, sp)]
      BY <2>1 DEF Ampliado
    <3> HIDE DEF c, d
    <3>2. /\ d \in Contextos /\ d.retPos = c.retPos /\ d.retVar = c.retVar
          /\ d.args = Append(c.args, sp) /\ d.vars = c.vars
      BY <1>1, <1>2, <3>1 DEF Contextos
    <3> QED BY <1>1, <1>2, <3>2
  <2>2. CASE ~EsArgumento(id)
    <3>1. d = [c EXCEPT !.vars = Append(c.vars, v)]
      BY <2>2 DEF Ampliado, v
    <3> HIDE DEF c, d
    <3>2. /\ d \in Contextos /\ d.retPos = c.retPos /\ d.retVar = c.retVar
          /\ d.vars = Append(c.vars, v) /\ d.args = c.args
      BY <1>1, <1>3, <3>1 DEF Contextos
    <3> QED BY <1>1, <1>3, <1>4, <3>2
  <2> QED BY <2>1, <2>2
<1>6. /\ t \in Pilas /\ Len(t) = n /\ t[n] = d /\ \A k \in 1..n : k # n => t[k] = pila[k]
  <2>1. t = [pila EXCEPT ![n] = d]
    BY DEF ConVariable
  <2> HIDE DEF t, d
  <2> QED BY <1>1, <1>5, <2>1, ExceptSeq DEF Pilas
<1> DEFINE nuevo == Nuevo(t, n, a)
<1> HIDE DEF t, d
<1>7. /\ nuevo \notin De(pila) /\ De(t) = De(pila) \cup {nuevo}
      /\ \A x \in De(pila) : Lugar(t, x) = Lugar(pila, x)
  <2>1. Crece(pila, t, n, a)
    BY <1>1, <1>5, <1>6 DEF Crece
  <2>2. pila \in Pilas /\ t \in Pilas /\ n \in Nat /\ a \in {0, 1}
    BY <1>1, <1>6
  <2> HIDE DEF n
  <2> QED BY <2>1, <2>2, Alargada
<1>8. nuevo[1] = n /\ Lugar(t, nuevo) = sp
  BY <1>5, <1>6 DEF Lugar, Nuevo
<1>9. EnCapas(t, sp + TamanioVariable)
  <2> HIDE DEF nuevo
  <2> QED BY <1>1, <1>6, <1>7, <1>8, UnaMas
<1>10. ASSUME NEW k \in 1..n
       PROVE  /\ t[k].retPos = pila[k].retPos /\ t[k].retVar = pila[k].retVar
              /\ Len(pila[k].vars) <= Len(t[k].vars)
              /\ \A j \in 1..Len(pila[k].vars) : t[k].vars[j] = pila[k].vars[j]
  <2>1. CASE k = n
    BY <1>1, <1>5, <1>6, <2>1, SMTT(30)
  <2>2. CASE k # n
    <3>1. Len(pila[k].vars) \in Nat
      BY Largos
    <3> QED BY <1>6, <2>2, <3>1
  <2> QED BY <2>1, <2>2
<1> QED BY <1>6, <1>9, <1>10 DEF t

----------------------------------------------------------------------------
(* finalizar, retornar: the last context goes.                             *)

Puestos(k, s, n) == {<<k, s, j>> : j \in 1..n}

LEMMA Cuenta ==
  ASSUME NEW n \in Nat, NEW k, NEW s
  PROVE  IsFiniteSet(Puestos(k, s, n)) /\ Cardinality(Puestos(k, s, n)) = n
<1> DEFINE T == {<<k, s, j>> : j \in 1..n}  f == [j \in 1..n |-> <<k, s, j>>]
<1>1. f \in Bijection(1..n, T)
  <2>1. f \in [1..n -> T] /\ \A t \in T : \E j \in 1..n : f[j] = t
    OBVIOUS
  <2>2. \A x, y \in 1..n : f[x] = f[y] => x = y
    OBVIOUS
  <2> QED BY <2>1, <2>2 DEF Bijection, Injection, Surjection, IsInjective
<1>2. IsFiniteSet(1..n) /\ Cardinality(1..n) = n
  BY FS_Interval
<1>3. ExistsBijection(1..n, T)
  BY <1>1 DEF ExistsBijection
<1> HIDE DEF T
<1>4. IsFiniteSet(T) /\ Cardinality(T) = n
  BY <1>2, <1>3, FS_Bijection
<1> QED BY <1>4 DEF T, Puestos

LEMMA Suman == ASSUME NEW x \in Nat, NEW y \in Nat PROVE x + y \in Nat
OBVIOUS

LEMMA DeUno ==
  ASSUME NEW c \in Contextos, NEW k
  PROVE  /\ IsFiniteSet(DeContexto(c, k)) /\ Cardinality(DeContexto(c, k)) = Vivas(c)
         /\ Vivas(c) \in Nat
<1> DEFINE A == Puestos(k, "arg", Len(c.args))  V == Puestos(k, "var", Len(c.vars))
<1>1. Len(c.args) \in Nat /\ Len(c.vars) \in Nat /\ DeContexto(c, k) = A \cup V
  <2>1. c.args \in Seq(Nat) /\ c.vars \in Seq([id : Nombres, pos : Nat])
    BY DEF Contextos
  <2>2. /\ Len(c.args) \in Nat /\ DOMAIN c.args = 1..Len(c.args)
        /\ Len(c.vars) \in Nat /\ DOMAIN c.vars = 1..Len(c.vars)
    BY <2>1, LenProperties
  <2> QED BY <2>2 DEF DeContexto, Puestos
<1>2. IsFiniteSet(A) /\ Cardinality(A) = Len(c.args)
  BY <1>1, Cuenta
<1>3. IsFiniteSet(V) /\ Cardinality(V) = Len(c.vars)
  BY <1>1, Cuenta
<1>4. A \cap V = {}
  BY DEF Puestos
<1>5. PICK a \in Nat, v \in Nat : a = Len(c.args) /\ v = Len(c.vars)
  BY <1>1
<1> HIDE DEF A, V
<1>6. /\ IsFiniteSet(A \cup V)
      /\ Cardinality(A \cup V) = Cardinality(A) + Cardinality(V) - Cardinality({})
  <2>1. /\ IsFiniteSet(A \cup V)
        /\ Cardinality(A \cup V) = Cardinality(A) + Cardinality(V) - Cardinality(A \cap V)
    BY ONLY <1>2, <1>3, FS_Union
  <2> QED BY ONLY <2>1, <1>4
<1>7. Cardinality(A \cup V) = a + v
  <2>1. Cardinality(A) = a /\ Cardinality(V) = v
    BY ONLY <1>2, <1>3, <1>5
  <2> QED BY ONLY a \in Nat, v \in Nat, <2>1, <1>6, FS_EmptySet
<1>8. a + v = Vivas(c)
  BY ONLY <1>5 DEF Vivas
<1>9. Vivas(c) \in Nat
  BY ONLY <1>8, a \in Nat, v \in Nat
<1> QED BY ONLY <1>1, <1>6, <1>7, <1>8, <1>9

LEMMA SeCierra ==
  ASSUME NEW pila \in Pilas, NEW n \in Nat, n = Len(pila), n > 0, NEW sp, EnCapas(pila, sp)
  PROVE  LET c == pila[n]
             t == Front(pila)
             q == sp - TamanioVariable * Vivas(c)
         IN  /\ t \in Pilas /\ Len(t) = n - 1 /\ \A k \in 1..(n - 1) : t[k] = pila[k]
             /\ EnCapas(t, q) /\ q \in 0..sp
<1> DEFINE c == pila[n]  t == Front(pila)  a == Vivas(c)
           q == sp - TamanioVariable * a
<1>1. /\ t \in Pilas /\ Len(t) = n - 1 /\ \A k \in 1..(n - 1) : t[k] = pila[k]
  <2>1. t = SubSeq(pila, 1, n - 1)
    BY DEF Front
  <2> HIDE DEF t
  <2> QED BY <2>1, SubSeqProperties DEF Pilas
<1>2. c \in Contextos
  BY Largos
<1> HIDE DEF t, c
<1>3. De(t) = {x \in De(pila) : x[1] < n} /\ De(pila) = De(t) \cup DeContexto(c, n)
  <2>1. ASSUME NEW x PROVE x \in De(t) <=> x \in De(pila) /\ x[1] < n
    <3>1. n - 1 \in Nat /\ \A k \in 1..n : k < n <=> k \in 1..(n - 1)
      OBVIOUS
    <3>2. x \in De(t) <=> \E k \in 1..(n - 1) :
                              \/ \E j \in 1..Len(pila[k].args) : x = <<k, "arg", j>>
                              \/ \E j \in 1..Len(pila[k].vars) : x = <<k, "var", j>>
      <4>1. x \in De(t) <=> \E k \in 1..(n - 1) :
                                \/ \E j \in 1..Len(t[k].args) : x = <<k, "arg", j>>
                                \/ \E j \in 1..Len(t[k].vars) : x = <<k, "var", j>>
        BY ONLY <1>1, DeMiembros
      <4> QED BY <1>1, <4>1
    <3>3. x \in De(pila) <=> \E k \in 1..n :
                              \/ \E j \in 1..Len(pila[k].args) : x = <<k, "arg", j>>
                              \/ \E j \in 1..Len(pila[k].vars) : x = <<k, "var", j>>
      BY DeMiembros
    <3> QED BY <3>1, <3>2, <3>3
  <2>2. De(pila) = De(t) \cup DeContexto(c, n)
    <3>1. 1..n = 1..(n - 1) \cup {n} /\ DOMAIN pila = 1..n /\ DOMAIN t = 1..(n - 1)
      BY <1>1, Largos
    <3>2. \A k \in 1..(n - 1) : DeContexto(t[k], k) = DeContexto(pila[k], k)
      BY <1>1
    <3> QED BY <3>1, <3>2 DEF De, c
  <2> QED BY <2>1, <2>2
<1>4. ASSUME NEW k \in Int, k <= n PROVE Hasta(t, k) = Hasta(pila, k)
  <2>1. \A x \in De(pila) : x[1] \in Int
    BY DeTipos
  <2>2. {x \in De(t) : x[1] < k} = {x \in De(pila) : x[1] < k}
    BY <1>3, <1>4, <2>1
  <2> QED BY <2>2 DEF Hasta
<1>5. /\ IsFiniteSet(De(t)) /\ Cardinality(De(t)) \in Nat
      /\ Cardinality(De(pila)) = Cardinality(De(t)) + a
  <2>1. IsFiniteSet(De(pila)) /\ De(t) \in SUBSET De(pila)
    BY <1>3 DEF EnCapas
  <2>2. IsFiniteSet(De(t)) /\ Cardinality(De(t)) \in Nat
    BY <2>1, FS_Subset, FS_CardinalityType
  <2>3. IsFiniteSet(DeContexto(c, n)) /\ Cardinality(DeContexto(c, n)) = a
    BY <1>2, DeUno
  <2>4. De(t) \cap DeContexto(c, n) = {}
    BY <1>3 DEF DeContexto
  <2>6. a \in Nat
    BY <1>2, DeUno
  <2> HIDE DEF a
  <2>5. Cardinality(De(t) \cup DeContexto(c, n)) = Cardinality(De(t)) + a - Cardinality({})
    BY <2>2, <2>3, <2>4, FS_Union
  <2> QED BY ONLY <1>3, <2>2, <2>5, <2>6, FS_EmptySet
<1>6. q = TamanioVariable * Cardinality(De(t)) /\ q \in 0..sp
  <2>1. sp = TamanioVariable * Cardinality(De(pila))
    BY CapasApartan
  <2>2. a \in Nat
    BY <1>2, DeUno
  <2> HIDE DEF a
  <2> QED BY ONLY <1>5, <2>1, <2>2 DEF TamanioVariable
<1>7. q = Hasta(t, Len(t) + 1)
  BY <1>1, <1>5, <1>6, BasesCrecen
<1>8. ASSUME NEW x \in De(t)
      PROVE  /\ x \in De(pila) /\ Lugar(t, x) = Lugar(pila, x)
             /\ Hasta(t, x[1]) = Hasta(pila, x[1]) /\ Hasta(t, x[1] + 1) = Hasta(pila, x[1] + 1)
  <2>1. x \in De(pila) /\ x[1] < n /\ x[1] \in 1..n
    BY <1>3, DeTipos
  <2>2. Lugar(t, x) = Lugar(pila, x)
    BY <1>1, <2>1 DEF Lugar
  <2> QED BY <1>4, <2>1, <2>2
<1>9. EnCapas(t, q)
  <2> HIDE DEF q
  <2> QED BY <1>5, <1>7, <1>8 DEF EnCapas
<1> QED BY <1>1, <1>6, <1>9 DEF t, c

----------------------------------------------------------------------------
(* Where the program is.                                                   *)

LEMMA LineaTipos ==
  ASSUME NEW l \in Lineas
  PROVE  /\ l.op \in {"variables", "asignar", "irAlLabel", "llamar", "retornar",
                      "finalizar", "otra"}
         /\ l.op = "variables" => l.ids \in Seq(Letras)
         /\ l.op = "asignar" => /\ l.x \in Nombres /\ l.y \in Operandos /\ l.z \in Operandos
                                /\ l.signo \in {1, -1}
         /\ l.op = "irAlLabel" => l.si \in Operandos
         /\ l.op = "llamar" => l.args \in Seq(Operandos) /\ l.ret \in Letras \cup {Nadie}
         /\ l.op = "retornar" => l.y \in Operandos
BY DEF Lineas

LEMMA CodigoTipos ==
  ASSUME NEW p \in Programas
  PROVE  /\ p.codigo \in Seq(Lineas) /\ p.inicio \in Lugares(p) /\ p.quantum \in Nat
         /\ Len(p.codigo) \in Nat /\ Len(p.codigo) > 0 /\ Cerrado(p)
         /\ p.indexTag # <<>> => p.indexTag[1].PC \in Lugares(p)
         /\ \A d \in Lugares(p) : d \in Nat /\ Instruccion(p, d) \in Lineas
<1>1. p \in Codigos
  BY ProgramasAssumption
<1>2. /\ p.codigo \in Seq(Lineas) /\ p.inicio \in Lugares(p) /\ p.quantum \in Nat
      /\ Cerrado(p)
      /\ p.indexTag # <<>> => p.indexTag[1].PC \in Lugares(p)
  BY <1>1 DEF Codigos
<1>3. Len(p.codigo) \in Nat
  BY <1>2, LenProperties
<1>4. ASSUME NEW d \in Lugares(p) PROVE d \in Nat /\ Instruccion(p, d) \in Lineas
  <2>1. d \in Nat /\ d + 1 \in 1..Len(p.codigo)
    BY <1>3 DEF Lugares
  <2> QED BY <1>2, <2>1, ElementOfSeq DEF Instruccion
<1> QED BY <1>2, <1>3, <1>4 DEF Lugares

\* What does not end a function, end the program or jump is not the last line.
LEMMA NoEsElUltimo ==
  ASSUME NEW p \in Programas, NEW d \in Lugares(p),
         \/ Instruccion(p, d).op \notin {"finalizar", "retornar", "irAlLabel"}
         \/ /\ Instruccion(p, d).op = "irAlLabel"
            /\ \/ p.indexTag = <<>> \/ p.indexTag[1].name # Instruccion(p, d).etiqueta
               \/ Instruccion(p, d).si[1] = "lit" /\ Instruccion(p, d).si[2] = 0
               \/ Instruccion(p, d).si[1] # "lit"
  PROVE  d + 1 \in Lugares(p)
<1>1. Len(p.codigo) \in Nat /\ Len(p.codigo) > 0 /\ d \in Nat /\ Cerrado(p)
  BY CodigoTipos
<1>2. CASE d + 1 = Len(p.codigo)
  <2>1. Instruccion(p, d) = Last(p.codigo)
    BY <1>2 DEF Instruccion, Last
  <2> QED BY <1>1, <2>1 DEF Cerrado
<1> QED BY <1>1, <1>2 DEF Lugares

\* busquedaEtiqueta finds a line of the program or nothing.
LEMMA SaltaBien ==
  ASSUME programa \in Programas, NEW etiqueta, pcbActual.PC \in Int
  PROVE  /\ IrAlLabel(etiqueta) \in Int
         /\ IF programa.indexTag # <<>> /\ programa.indexTag[1].name = etiqueta
            THEN IrAlLabel(etiqueta) + 1 \in Lugares(programa)
            ELSE IrAlLabel(etiqueta) = pcbActual.PC
<1>1. CASE programa.indexTag # <<>> /\ programa.indexTag[1].name = etiqueta
  <2>1. programa.indexTag[1].PC \in Lugares(programa) /\ programa.indexTag[1].PC \in Nat
    BY <1>1, CodigoTipos
  <2>2. BusquedaEtiqueta(etiqueta) = programa.indexTag[1].PC
    BY <1>1 DEF BusquedaEtiqueta
  <2>3. IrAlLabel(etiqueta) = programa.indexTag[1].PC - 1
    BY <2>1, <2>2 DEF IrAlLabel
  <2> QED BY <1>1, <2>1, <2>3
<1>2. CASE ~(programa.indexTag # <<>> /\ programa.indexTag[1].name = etiqueta)
  <2>1. BusquedaEtiqueta(etiqueta) = -1
    BY <1>2 DEF BusquedaEtiqueta
  <2> QED BY <1>2, <2>1 DEF IrAlLabel
<1> QED BY <1>1, <1>2

----------------------------------------------------------------------------
(* Values.                                                                 *)

LEMMA ValorEntero ==
  ASSUME memoria \in [Posiciones -> Int], NEW y \in Operandos
  PROVE  Valor(y) \in Int
<1>1. ASSUME NEW d PROVE Dereferenciar(d) \in Int
  BY DEF Dereferenciar, Basura
<1>2. y[1] = "lit" => y[2] \in Int
  BY DEF Operandos, Nombres, Letras
<1> QED BY <1>1, <1>2 DEF Valor

LEMMA AsignadaEntera ==
  ASSUME memoria \in [Posiciones -> Int], NEW d, NEW v \in Int
  PROVE  Asignada(d, v) \in [Posiciones -> Int]
<1>1. Envuelve(v) \in Int
  BY DEF Envuelve, Ancho
<1> QED BY <1>1 DEF Asignada, Basura

\* obtenerPosicionVariable gives a position, and that of a variable the last
\* context has declared if it is asked for one.
LEMMA PosicionDe ==
  ASSUME pcbActual.stack \in Pilas, NEW id \in Letras
  PROVE  /\ ObtenerPosicionVariable(id) \in Nat
         /\ pcbActual.stack # <<>> /\ (\E j \in DOMAIN Contexto.vars : Contexto.vars[j].id = id)
              => \E j \in DOMAIN Contexto.vars :
                   Contexto.vars[j] = [id |-> id, pos |-> ObtenerPosicionVariable(id)]
<1>1. CASE pcbActual.stack = <<>>
  BY <1>1 DEF ObtenerPosicionVariable, ExitFailure
<1>2. CASE pcbActual.stack # <<>>
  <2> DEFINE vs == Contexto.vars  halladas == {k \in DOMAIN vs : vs[k].id = id}
             k0 == CHOOSE k \in halladas : \A j \in halladas : k <= j
  <2>1. Len(pcbActual.stack) \in 1..Len(pcbActual.stack)
    BY <1>2, Largos, EmptySeq DEF Pilas
  <2>2. vs \in Seq([id : Nombres, pos : Nat]) /\ DOMAIN vs = 1..Len(vs) /\ Len(vs) \in Nat
    BY <2>1, Largos DEF Contexto, Last
  <2>3. ~EsArgumento(id)
    BY DEF EsArgumento, Letras
  <2>4. ObtenerPosicionVariable(id) = IF halladas = {} THEN ExitFailure ELSE vs[k0].pos
    BY <1>2, <2>3 DEF ObtenerPosicionVariable
  <2> HIDE DEF vs
  <2>5. ASSUME halladas # {}
        PROVE  /\ k0 \in DOMAIN vs /\ vs[k0].id = id /\ vs[k0].pos \in Nat
               /\ vs[k0] = [id |-> id, pos |-> vs[k0].pos]
    <3>1. halladas \in SUBSET Nat
      BY <2>2
    <3>2. k0 \in halladas
      <4> HIDE DEF halladas
      <4>1. \E k \in halladas : \A j \in halladas : k <= j
        BY <2>5, <3>1, LeastNatural
      <4> QED BY <4>1
    <3>3. vs[k0] \in [id : Nombres, pos : Nat]
      BY <2>2, <3>2, ElementOfSeq
    <3> QED BY <3>2, <3>3
  <2>6. CASE halladas = {}
    BY <2>4, <2>6 DEF ExitFailure, vs
  <2>7. CASE halladas # {}
    <3> HIDE DEF k0, halladas
    <3> QED BY <2>4, <2>5, <2>7 DEF vs
  <2> QED BY <2>6, <2>7
<1> QED BY <1>1, <1>2

----------------------------------------------------------------------------
(* The invariant.                                                          *)

Limite == StackSize * TamanioPagina

Tipos ==
  /\ pcbActual \in [PC : Int, stackPointer : 0..Limite, stack : Pilas]
  /\ memoria \in [Posiciones -> Int]
  /\ programa \in Programas \cup {SinPrograma}
  /\ en \in {"libre", "bucle", "linea"} /\ i \in Nat \ {0}
  /\ huboStackOver \in BOOLEAN /\ finPrograma \in BOOLEAN /\ ocupada \in BOOLEAN
  /\ avisos \in Nat

IInv == Tipos /\ Capas /\ EnPrograma

LEMMA IInvTypeOK == IInv => TypeOK
<1> SUFFICES ASSUME IInv PROVE TypeOK
  OBVIOUS
<1> DEFINE pila == pcbActual.stack  sp == pcbActual.stackPointer
<1>1. pila \in Pilas /\ sp \in 0..Limite /\ Limite \in Nat /\ EnCapas(pila, sp)
  BY CapasDePila, SizesAssumption DEF IInv, Tipos, Limite
<1>2. ASSUME NEW x \in De(pila) PROVE Lugar(pila, x) \in Posiciones
  <2>1. /\ Lugar(pila, x) \in Nat /\ Lugar(pila, x) + TamanioVariable <= sp
        /\ Lugar(pila, x) % TamanioVariable = 0
    BY <1>1, CapasApartan, DeTipos DEF EnCapas
  <2>2. Lugar(pila, x) \in 0..(Limite - TamanioVariable)
    BY <1>1, <2>1 DEF TamanioVariable
  <2> QED BY <2>1, <2>2 DEF Posiciones, Limite
<1>3. ASSUME NEW k \in 1..Len(pila)
      PROVE  /\ pila[k].retPos \in Int /\ pila[k].retVar \in Nat
             /\ \A j \in DOMAIN pila[k].args : pila[k].args[j] \in Posiciones
             /\ \A j \in DOMAIN pila[k].vars : pila[k].vars[j].pos \in Posiciones
  <2>1. pila[k] \in Contextos
    BY <1>1, Largos
  <2>2. ASSUME NEW j \in 1..Len(pila[k].args) PROVE pila[k].args[j] \in Posiciones
    <3> DEFINE x == <<k, "arg", j>>
    <3>1. x \in De(pila)
      BY <1>1, DeMiembros
    <3>2. Lugar(pila, x) = pila[k].args[j]
      BY DEF Lugar
    <3> QED BY <1>2, <3>1, <3>2
  <2>3. ASSUME NEW j \in 1..Len(pila[k].vars) PROVE pila[k].vars[j].pos \in Posiciones
    <3> DEFINE x == <<k, "var", j>>
    <3>1. x \in De(pila)
      BY <1>1, DeMiembros
    <3>2. Lugar(pila, x) = pila[k].vars[j].pos
      BY DEF Lugar
    <3> QED BY <1>2, <3>1, <3>2
  <2>4. /\ DOMAIN pila[k].args = 1..Len(pila[k].args)
        /\ DOMAIN pila[k].vars = 1..Len(pila[k].vars)
    BY <1>1, Largos
  <2> QED BY <2>1, <2>2, <2>3, <2>4 DEF Contextos
<1>4. DOMAIN pila = 1..Len(pila)
  BY <1>1, Largos
<1> QED BY <1>1, <1>3, <1>4 DEF TypeOK, IInv, Tipos, Limite

LEMMA IInvStackApart == IInv => StackApart
<1> SUFFICES ASSUME IInv PROVE StackApart
  OBVIOUS
<1> DEFINE pila == pcbActual.stack  sp == pcbActual.stackPointer
<1>1. pila \in Pilas /\ EnCapas(pila, sp)
  BY CapasDePila DEF IInv, Tipos
<1>2. Declaradas = De(pila) /\ \A x : Pos(x) = Lugar(pila, x)
  BY DEF Declaradas, De, DeContexto, Pos, Lugar
<1>3. /\ sp = TamanioVariable * Cardinality(De(pila))
      /\ \A x \in De(pila) :
           /\ Lugar(pila, x) + TamanioVariable <= sp
           /\ \A y \in De(pila) : x[1] < y[1] => Lugar(pila, x) < Lugar(pila, y)
           /\ \A y \in De(pila) : x # y => Lugar(pila, x) # Lugar(pila, y)
  BY <1>1, CapasApartan
<1> QED BY <1>2, <1>3 DEF StackApart

LEMMA InitIInv == Init => IInv
<1> SUFFICES ASSUME Init PROVE IInv
  OBVIOUS
<1>1. pcbActual.stack = <<>> /\ pcbActual.stackPointer = 0 /\ pcbActual.PC = 0
  BY DEF Init, Vacio
<1>2. pcbActual.stack \in Pilas /\ Capas
  BY <1>1, SinPila, CapasDePila
<1>3. pcbActual \in [PC : Int, stackPointer : 0..Limite, stack : Pilas]
  BY <1>1, <1>2, SizesAssumption DEF Init, Vacio, Limite
<1>4. memoria \in [Posiciones -> Int]
  BY DEF Init, Nada
<1>6. Tipos
  <2>1. programa = SinPrograma /\ en = "libre" /\ i = 1 /\ avisos = 0
    BY DEF Init
  <2>2. huboStackOver = FALSE /\ finPrograma = FALSE /\ ocupada = FALSE
    BY DEF Init
  <2>3. /\ programa \in Programas \cup {SinPrograma} /\ en \in {"libre", "bucle", "linea"}
        /\ i \in Nat \ {0} /\ avisos \in Nat
    BY ONLY <2>1
  <2>4. huboStackOver \in BOOLEAN /\ finPrograma \in BOOLEAN /\ ocupada \in BOOLEAN
    BY ONLY <2>2
  <2> QED BY ONLY <1>3, <1>4, <2>3, <2>4 DEF Tipos
<1>5. EnPrograma
  BY <1>1 DEF EnPrograma, Init
<1> QED BY <1>2, <1>6, <1>5 DEF IInv

\* What the steps of a line have in common.  The last conjunct says when the
\* line that is being done can be left behind.
LEMMA EnLinea ==
  ASSUME IInv, en = "linea", linea # <<>>
  PROVE  /\ programa \in Programas
         /\ \/ /\ linea \in Seq(Pasos) /\ Head(linea) \in Pasos /\ Tail(linea) \in Seq(Pasos)
               /\ finPrograma \/ pcbActual.PC + 1 \in Lugares(programa)
            \/ /\ pcbActual.PC \in Lugares(programa)
               /\ Head(linea) = Instruccion(programa, pcbActual.PC)
               /\ Head(linea) \in Lineas /\ Tail(linea) = <<>>
               /\ Head(linea).op \in {"asignar", "irAlLabel", "llamar", "retornar", "finalizar"}
<1>1. programa \in Programas
  BY DEF IInv, EnPrograma
<1>2. CASE /\ linea \in Seq(Pasos)
           /\ finPrograma \/ pcbActual.PC + 1 \in Lugares(programa)
  <2>1. Head(linea) \in Pasos /\ Tail(linea) \in Seq(Pasos)
    BY <1>2, HeadTailProperties
  <2> QED BY <1>1, <1>2, <2>1
<1>3. CASE /\ pcbActual.PC \in Lugares(programa)
           /\ linea = <<Instruccion(programa, pcbActual.PC)>> /\ Head(linea) \in Ejecutables
  <2>1. Head(linea) = Instruccion(programa, pcbActual.PC) /\ Tail(linea) = <<>>
    BY <1>3
  <2>2. Head(linea) \in Lineas /\ Head(linea).op \notin {"variables", "otra"}
    BY <1>3 DEF Ejecutables
  <2> QED BY <1>1, <1>3, <2>1, <2>2, LineaTipos
<1> QED BY <1>2, <1>3 DEF IInv, EnPrograma

----------------------------------------------------------------------------
(* The loop.                                                               *)

LEMMA CapasDespues == Capas' <=> EnCapas(pcbActual'.stack, pcbActual'.stackPointer)
BY DEF Capas, EnCapas, Declaradas, De, DeContexto, Base, Hasta, Pos, Lugar

\* Steps that leave the stack alone.
LEMMA MismaPila ==
  ASSUME IInv, pcbActual' \in [PC : Int, stackPointer : 0..Limite, stack : Pilas],
         pcbActual'.stack = pcbActual.stack, pcbActual'.stackPointer = pcbActual.stackPointer
  PROVE  Capas'
BY CapasDePila, CapasDespues DEF IInv

\* And those that start without one.
LEMMA PilaVacia ==
  ASSUME NEW pc \in Int, pcbActual' = [PC |-> pc, stackPointer |-> 0, stack |-> <<>>]
  PROVE  /\ Capas' /\ pcbActual' \in [PC : Int, stackPointer : 0..Limite, stack : Pilas]
         /\ pcbActual'.stack = <<>>
<1>1. pcbActual'.stack = <<>> /\ pcbActual'.stackPointer = 0 /\ pcbActual'.PC = pc
  OBVIOUS
<1>2. EnCapas(pcbActual'.stack, 0) /\ pcbActual'.stack \in Pilas
  BY <1>1, SinPila
<1>3. Limite \in Nat
  BY SizesAssumption DEF Limite
<1> QED BY <1>1, <1>2, <1>3, CapasDespues

LEMMA RecibirInv == ASSUME IInv, NEW p \in Programas, RecibirPCB(p) PROVE IInv'
<1> USE DEF RecibirPCB
<1>1. p.inicio \in Lugares(p) /\ p.inicio \in Int
  BY CodigoTipos
<1>2. /\ Capas' /\ pcbActual' \in [PC : Int, stackPointer : 0..Limite, stack : Pilas]
      /\ pcbActual'.stack = <<>>
  BY <1>1, PilaVacia
<1>3. memoria' \in [Posiciones -> Int]
  BY ValoresAssumption
<1>4. Tipos'
  BY <1>2, <1>3 DEF IInv, Tipos, flags
<1>5. pcbActual'.PC = p.inicio /\ linea' = <<>>
  BY DEF IInv, EnPrograma
<1>6. EnPrograma'
  BY <1>1, <1>2, <1>5 DEF EnPrograma
<1> QED BY <1>2, <1>4, <1>6 DEF IInv

LEMMA VolverInv ==
  ASSUME IInv, Volver, en # "libre", linea = <<>>, linea' = linea, i' = i,
         huboStackOver' \in BOOLEAN, finPrograma' \in BOOLEAN, ocupada' \in BOOLEAN,
         avisos' \in Nat
  PROVE  IInv'
<1> USE DEF Volver, Vacio
<1>1. /\ Capas' /\ pcbActual' \in [PC : Int, stackPointer : 0..Limite, stack : Pilas]
      /\ pcbActual'.stack = <<>>
  BY PilaVacia
<1>2. memoria' \in [Posiciones -> Int]
  BY DEF Nada
<1>3. Tipos'
  BY <1>1, <1>2 DEF IInv, Tipos
<1>4. EnPrograma'
  BY <1>1 DEF EnPrograma
<1> QED BY <1>1, <1>3, <1>4 DEF IInv

LEMMA TrasAviso ==
  ASSUME IInv, FinalizarPor
  PROVE  avisos' \in Nat /\ ocupada' \in BOOLEAN
<1>1. avisos' \in Nat
  <2>1. avisos \in Nat /\ avisos' = avisos + 1
    BY DEF IInv, Tipos, FinalizarPor
  <2> QED BY ONLY <2>1
<1>2. ocupada' \in BOOLEAN
  <2>1. ocupada' = FALSE
    BY DEF FinalizarPor
  <2> QED BY ONLY <2>1
<1> QED BY <1>1, <1>2

LEMMA FinDeQuantumInv == ASSUME IInv, FinDeQuantum PROVE IInv'
<1>1. huboStackOver' \in BOOLEAN /\ finPrograma' \in BOOLEAN
  BY DEF FinDeQuantum, flags, IInv, Tipos
<1>2. avisos' \in Nat /\ ocupada' \in BOOLEAN
  BY TrasAviso DEF FinDeQuantum
<1>3. Volver /\ en # "libre" /\ linea = <<>> /\ linea' = linea /\ i' = i
  BY DEF FinDeQuantum, IInv, EnPrograma
<1> QED BY ONLY IInv, <1>1, <1>2, <1>3, VolverInv

LEMMA TerminarInv == ASSUME IInv, TerminarEjecucion PROVE IInv'
<1>1. huboStackOver' \in BOOLEAN /\ finPrograma' \in BOOLEAN
  BY DEF TerminarEjecucion, flags, IInv, Tipos
<1>2. avisos' \in Nat /\ ocupada' \in BOOLEAN
  BY DEF TerminarEjecucion, kernel, IInv, Tipos
<1>3. Volver /\ en # "libre" /\ linea = <<>> /\ linea' = linea /\ i' = i
  BY DEF TerminarEjecucion
<1> QED BY ONLY IInv, <1>1, <1>2, <1>3, VolverInv

LEMMA PedirInv == ASSUME IInv, PedirProximaInstruccion PROVE IInv'
<1> USE DEF PedirProximaInstruccion
<1> DEFINE l == Instruccion(programa, pcbActual.PC)
<1>1. /\ programa \in Programas /\ pcbActual.PC \in Lugares(programa) /\ l \in Lineas
      /\ linea' = Primitivas(l)
  BY CodigoTipos DEF IInv, EnPrograma
<1>2. Tipos' /\ Capas'
  BY MismaPila DEF IInv, Tipos, flags, kernel
<1>3. \/ linea' \in Seq(Pasos) /\ pcbActual.PC + 1 \in Lugares(programa)
      \/ linea' = <<l>> /\ Head(linea') \in Ejecutables
  <2>1. CASE l.op = "variables"
    <3>1. l.ids \in Seq(Letras) /\ DOMAIN l.ids = 1..Len(l.ids) /\ Len(l.ids) \in Nat
      BY <1>1, <2>1, LineaTipos, LenProperties
    <3>2. linea' = [k \in 1..Len(l.ids) |-> [op |-> "definirVariable", id |-> l.ids[k]]]
      BY <1>1, <2>1, <3>1 DEF Primitivas
    <3>3. \A k \in 1..Len(l.ids) : [op |-> "definirVariable", id |-> l.ids[k]] \in Pasos
      BY <3>1, ElementOfSeq DEF Pasos
    <3>4. linea' \in Seq(Pasos)
      BY <3>1, <3>2, <3>3, IsASeq
    <3> QED BY <1>1, <2>1, <3>4, NoEsElUltimo
  <2>2. CASE l.op = "otra"
    <3>1. linea' = <<>>
      BY <1>1, <2>2 DEF Primitivas
    <3>2. linea' \in Seq(Pasos)
      BY <3>1
    <3> QED BY <1>1, <2>2, <3>2, NoEsElUltimo
  <2>3. CASE l.op \notin {"variables", "otra"}
    <3>1. linea' = <<l>>
      BY <1>1, <2>3 DEF Primitivas
    <3>2. l \in Ejecutables
      BY <1>1, <2>3 DEF Ejecutables
    <3> HIDE DEF l
    <3> QED BY <3>1, <3>2
  <2> QED BY <2>1, <2>2, <2>3
<1>4. EnPrograma'
  BY <1>1, <1>3 DEF IInv, EnPrograma
<1> QED BY <1>2, <1>4 DEF IInv

LEMMA ContinuarInv == ASSUME IInv, Continuar PROVE IInv'
<1> USE DEF Continuar
<1>1. pcbActual.PC + 1 \in Lugares(programa) /\ programa \in Programas
  <2>1. ~(linea = <<Instruccion(programa, pcbActual.PC)>>)
    OBVIOUS
  <2> QED BY <2>1 DEF IInv, EnPrograma
<1>2. /\ pcbActual' \in [PC : Int, stackPointer : 0..Limite, stack : Pilas]
      /\ pcbActual'.PC = pcbActual.PC + 1 /\ pcbActual'.stack = pcbActual.stack
      /\ pcbActual'.stackPointer = pcbActual.stackPointer
  BY DEF IInv, Tipos
<1>3. Tipos'
  BY <1>2 DEF IInv, Tipos, flags, kernel
<1>4. Capas'
  BY <1>2, MismaPila
<1>5. EnPrograma'
  BY <1>1, <1>2 DEF IInv, EnPrograma
<1> QED BY <1>3, <1>4, <1>5 DEF IInv

----------------------------------------------------------------------------
(* The primitives.                                                         *)

LEMMA ContextoNuevo ==
  ASSUME NEW retPos \in Int, NEW retVar \in Nat
  PROVE  LET c == NuevoContexto(retPos, retVar)
         IN  /\ c \in Contextos /\ c.args = <<>> /\ c.vars = <<>>
             /\ c.retPos = retPos /\ c.retVar = retVar
<1>1. <<>> \in Seq(Nat) /\ <<>> \in Seq([id : Nombres, pos : Nat])
  OBVIOUS
<1> QED BY <1>1 DEF NuevoContexto, Contextos

\* The stack definirVariable adds a variable to.
PilaAbierta == IF pcbActual.stack = <<>> THEN <<NuevoContexto(-1, 0)>> ELSE pcbActual.stack

LEMMA AbiertaBien ==
  ASSUME IInv
  PROVE  /\ PilaAbierta \in Pilas /\ EnCapas(PilaAbierta, pcbActual.stackPointer)
         /\ Len(PilaAbierta) \in Nat /\ Len(PilaAbierta) > 0
         /\ \A k \in 1..Len(PilaAbierta) : k # 1 => /\ k \in 1..Len(pcbActual.stack)
                                                    /\ k - 1 \in 1..Len(pcbActual.stack)
                                                    /\ PilaAbierta = pcbActual.stack
<1> DEFINE pila == pcbActual.stack  sp == pcbActual.stackPointer
<1>1. pila \in Pilas /\ EnCapas(pila, sp)
  BY CapasDePila DEF IInv, Tipos
<1>2. CASE pila = <<>>
  <2> DEFINE c == NuevoContexto(-1, 0)
  <2>1. c \in Contextos /\ c.args = <<>> /\ c.vars = <<>>
    <3>1. -1 \in Int /\ 0 \in Nat
      OBVIOUS
    <3> QED BY <3>1, ContextoNuevo
  <2> HIDE DEF c
  <2>2. EnCapas(Append(pila, c), sp) /\ Append(pila, c) \in Pilas
    BY <1>1, <2>1, SeAbre
  <2>3. Append(pila, c) = <<c>> /\ Len(<<c>>) = 1
    BY <1>2
  <2>4. PilaAbierta = <<c>>
    BY <1>2 DEF PilaAbierta, c
  <2> QED BY <2>2, <2>3, <2>4
<1>3. CASE pila # <<>>
  <2>1. PilaAbierta = pila
    BY <1>3 DEF PilaAbierta
  <2>2. Len(pila) \in Nat /\ Len(pila) > 0
    BY <1>1, <1>3, Largos, EmptySeq DEF Pilas
  <2> QED BY <1>1, <2>1, <2>2
<1> QED BY <1>2, <1>3

\* definirVariable, whoever calls it.
LEMMA DefinidaBien ==
  ASSUME IInv, NEW id \in Nombres, ~Desborda, pcbActual' = Definida(id)
  PROVE  /\ Capas' /\ pcbActual' \in [PC : Int, stackPointer : 0..Limite, stack : Pilas]
         /\ pcbActual'.PC = pcbActual.PC
         /\ \A k \in DOMAIN pcbActual'.stack \ {1} :
              /\ k \in DOMAIN pcbActual.stack /\ k - 1 \in DOMAIN pcbActual.stack
              /\ pcbActual'.stack[k].retPos = pcbActual.stack[k].retPos
              /\ pcbActual'.stack[k].retVar = pcbActual.stack[k].retVar
              /\ \A j \in DOMAIN pcbActual.stack[k - 1].vars :
                   /\ j \in DOMAIN pcbActual'.stack[k - 1].vars
                   /\ pcbActual'.stack[k - 1].vars[j] = pcbActual.stack[k - 1].vars[j]
<1> DEFINE sp == pcbActual.stackPointer  t == ConVariable(PilaAbierta, id, sp)
           n == Len(PilaAbierta)
<1>1. /\ pcbActual' = [PC |-> pcbActual.PC, stackPointer |-> sp + TamanioVariable, stack |-> t]
      /\ pcbActual.PC \in Int /\ sp \in 0..Limite
  <2>1. pcbActual' = [pcbActual EXCEPT !.stack = t, !.stackPointer = sp + TamanioVariable]
    BY Zenon DEF Definida, PilaAbierta
  <2>2. pcbActual \in [PC : Int, stackPointer : 0..Limite, stack : Pilas]
    BY DEF IInv, Tipos
  <2> HIDE DEF t
  <2> QED BY <2>1, <2>2
<1>2. sp + TamanioVariable \in 0..Limite
  <2>1. Limite \in Nat /\ sp \in Nat
    BY <1>1, SizesAssumption DEF Limite
  <2>2. ~(sp + TamanioVariable > Limite)
    BY DEF Desborda, Limite
  <2> QED BY <2>1, <2>2 DEF TamanioVariable
<1>3. /\ PilaAbierta \in Pilas /\ EnCapas(PilaAbierta, sp) /\ n \in Nat /\ n > 0
  BY AbiertaBien
<1>4. /\ t \in Pilas /\ EnCapas(t, sp + TamanioVariable) /\ Len(t) = n
      /\ \A k \in 1..n :
           /\ t[k].retPos = PilaAbierta[k].retPos /\ t[k].retVar = PilaAbierta[k].retVar
           /\ Len(PilaAbierta[k].vars) <= Len(t[k].vars)
           /\ \A j \in 1..Len(PilaAbierta[k].vars) : t[k].vars[j] = PilaAbierta[k].vars[j]
  BY <1>3, SeDeclara
<1> HIDE DEF t
<1>5. /\ pcbActual'.PC = pcbActual.PC /\ pcbActual'.stack = t
      /\ pcbActual'.stackPointer = sp + TamanioVariable
  BY <1>1
<1>6. pcbActual' \in [PC : Int, stackPointer : 0..Limite, stack : Pilas]
  BY <1>1, <1>2, <1>4
<1>7. Capas'
  BY <1>4, <1>5, CapasDespues
<1>8. ASSUME NEW k \in DOMAIN t \ {1}
      PROVE  /\ k \in DOMAIN pcbActual.stack /\ k - 1 \in DOMAIN pcbActual.stack
             /\ t[k].retPos = pcbActual.stack[k].retPos
             /\ t[k].retVar = pcbActual.stack[k].retVar
             /\ \A j \in DOMAIN pcbActual.stack[k - 1].vars :
                  /\ j \in DOMAIN t[k - 1].vars
                  /\ t[k - 1].vars[j] = pcbActual.stack[k - 1].vars[j]
  <2>1. k \in 1..n /\ k # 1 /\ k - 1 \in 1..n
    BY <1>3, <1>4, Largos
  <2>2. /\ PilaAbierta = pcbActual.stack /\ k \in DOMAIN pcbActual.stack
        /\ k - 1 \in DOMAIN pcbActual.stack
    BY <2>1, AbiertaBien, Largos DEF IInv, Tipos
  <2>3. ASSUME NEW j \in DOMAIN PilaAbierta[k - 1].vars
        PROVE  j \in DOMAIN t[k - 1].vars /\ t[k - 1].vars[j] = PilaAbierta[k - 1].vars[j]
    <3>1. /\ Len(t[k - 1].vars) \in Nat /\ DOMAIN t[k - 1].vars = 1..Len(t[k - 1].vars)
          /\ Len(PilaAbierta[k - 1].vars) \in Nat
          /\ DOMAIN PilaAbierta[k - 1].vars = 1..Len(PilaAbierta[k - 1].vars)
      BY <1>3, <1>4, <2>1, Largos
    <3>2. /\ Len(PilaAbierta[k - 1].vars) <= Len(t[k - 1].vars)
          /\ t[k - 1].vars[j] = PilaAbierta[k - 1].vars[j]
      BY <1>4, <2>1, <3>1
    <3> QED BY ONLY <3>1, <3>2, j \in DOMAIN PilaAbierta[k - 1].vars, Tramos
  <2> QED BY <1>4, <2>1, <2>2, <2>3
<1> QED BY <1>5, <1>6, <1>7, <1>8

\* The operation of the line: what is known when a primitive's turn has come.
LEMMA EnPasos ==
  ASSUME IInv, en = "linea", linea # <<>>, Head(linea).op \in {"definirVariable", "pasar"}
  PROVE  /\ programa \in Programas /\ Tail(linea) \in Seq(Pasos) /\ Head(linea) \in Pasos
         /\ finPrograma \/ pcbActual.PC + 1 \in Lugares(programa)
BY EnLinea

LEMMA EnInstruccion ==
  ASSUME IInv, en = "linea", linea # <<>>, Head(linea).op \notin {"definirVariable", "pasar"}
  PROVE  /\ programa \in Programas /\ pcbActual.PC \in Lugares(programa)
         /\ Head(linea) = Instruccion(programa, pcbActual.PC)
         /\ Head(linea) \in Lineas /\ Tail(linea) = <<>>
         /\ Head(linea).op \in {"asignar", "irAlLabel", "llamar", "retornar", "finalizar"}
<1>1. \A x \in Pasos : x.op \in {"definirVariable", "pasar"}
  BY DEF Pasos
<1> QED BY <1>1, EnLinea

LEMMA DefinirInv == ASSUME IInv, DefinirVariable PROVE IInv'
<1> USE DEF DefinirVariable
<1>1. /\ programa \in Programas /\ linea' \in Seq(Pasos) /\ Head(linea) \in Pasos
      /\ finPrograma \/ pcbActual.PC + 1 \in Lugares(programa)
  BY EnPasos DEF Toca
<1>2. UNCHANGED <<memoria, programa, en, i, finPrograma, avisos, ocupada>> /\ en = "linea"
  BY DEF kernel, Toca
<1>3. CASE Desborda
  <2>1. pcbActual' = pcbActual /\ huboStackOver' \in BOOLEAN
    BY <1>3
  <2>2. Tipos'
    BY <1>2, <2>1 DEF IInv, Tipos
  <2>3. Capas'
    BY <2>1, MismaPila DEF IInv, Tipos
  <2>4. EnPrograma'
    BY <1>1, <1>2, <2>1 DEF IInv, EnPrograma
  <2> QED BY <2>2, <2>3, <2>4 DEF IInv
<1>4. CASE ~Desborda
  <2>1. Head(linea).id \in Nombres
    BY <1>1 DEF Toca, Pasos, Nombres
  <2>2. pcbActual' = Definida(Head(linea).id) /\ huboStackOver' = huboStackOver
    BY <1>4
  <2>3. /\ Capas' /\ pcbActual' \in [PC : Int, stackPointer : 0..Limite, stack : Pilas]
        /\ pcbActual'.PC = pcbActual.PC
        /\ \A k \in DOMAIN pcbActual'.stack \ {1} :
             /\ k \in DOMAIN pcbActual.stack
             /\ pcbActual'.stack[k].retPos = pcbActual.stack[k].retPos
    BY <1>4, <2>1, <2>2, DefinidaBien
  <2>4. Tipos'
    BY <1>2, <2>2, <2>3 DEF IInv, Tipos
  <2>5. EnPrograma'
    BY <1>1, <1>2, <2>3 DEF IInv, EnPrograma
  <2> QED BY <2>3, <2>4, <2>5 DEF IInv
<1> QED BY <1>3, <1>4

LEMMA PasarInv == ASSUME IInv, PasarArgumento PROVE IInv'
<1> USE DEF PasarArgumento
<1>1. /\ programa \in Programas /\ linea' \in Seq(Pasos) /\ Head(linea) \in Pasos
      /\ finPrograma \/ pcbActual.PC + 1 \in Lugares(programa)
  BY EnPasos DEF Toca
<1>2. UNCHANGED <<programa, en, i, finPrograma, avisos, ocupada>> /\ en = "linea"
  BY DEF kernel, Toca
<1>3. Head(linea).n \in Nat /\ Head(linea).valor \in Int
  BY <1>1 DEF Toca, Pasos
<1>4. memoria' \in [Posiciones -> Int] /\ huboStackOver' \in BOOLEAN
  <2>1. \A d : Asignada(d, Head(linea).valor) \in [Posiciones -> Int]
    BY <1>3, AsignadaEntera DEF IInv, Tipos
  <2> QED BY <2>1 DEF IInv, Tipos
<1>5. CASE Desborda
  <2>1. pcbActual' = pcbActual
    BY <1>5
  <2>2. Tipos'
    BY <1>2, <1>4, <2>1 DEF IInv, Tipos
  <2>3. Capas'
    BY <2>1, MismaPila DEF IInv, Tipos
  <2>4. EnPrograma'
    BY <1>1, <1>2, <2>1 DEF IInv, EnPrograma
  <2> QED BY <2>2, <2>3, <2>4 DEF IInv
<1>6. CASE ~Desborda
  <2>1. Arg(Head(linea).n) \in Nombres
    BY <1>3 DEF Arg, Nombres
  <2>2. pcbActual' = Definida(Arg(Head(linea).n))
    BY <1>6
  <2>3. /\ Capas' /\ pcbActual' \in [PC : Int, stackPointer : 0..Limite, stack : Pilas]
        /\ pcbActual'.PC = pcbActual.PC
        /\ \A k \in DOMAIN pcbActual'.stack \ {1} :
             /\ k \in DOMAIN pcbActual.stack
             /\ pcbActual'.stack[k].retPos = pcbActual.stack[k].retPos
    BY <1>6, <2>1, <2>2, DefinidaBien
  <2>4. Tipos'
    BY <1>2, <1>4, <2>3 DEF IInv, Tipos
  <2>5. EnPrograma'
    BY <1>1, <1>2, <2>3 DEF IInv, EnPrograma
  <2> QED BY <2>3, <2>4, <2>5 DEF IInv
<1> QED BY <1>5, <1>6

LEMMA AsignarInv == ASSUME IInv, Asignar PROVE IInv'
<1> USE DEF Asignar
<1>1. /\ programa \in Programas /\ pcbActual.PC \in Lugares(programa) /\ linea' = <<>>
      /\ Head(linea) = Instruccion(programa, pcbActual.PC) /\ Head(linea) \in Lineas
  BY EnInstruccion DEF Toca
<1>2. /\ UNCHANGED <<pcbActual, programa, en, i, huboStackOver, finPrograma, avisos, ocupada>>
      /\ en = "linea"
  BY DEF flags, kernel, Toca
<1>3. memoria' \in [Posiciones -> Int]
  <2> DEFINE l == Head(linea)
  <2>1. l.y \in Operandos /\ l.z \in Operandos /\ l.signo \in {1, -1}
    BY <1>1, LineaTipos DEF Toca
  <2>2. Valor(l.y) \in Int /\ Valor(l.z) \in Int
    BY <2>1, ValorEntero DEF IInv, Tipos
  <2>3. Valor(l.y) + l.signo * Valor(l.z) \in Int
    BY <2>1, <2>2
  <2> HIDE DEF l
  <2> QED BY <2>3, AsignadaEntera DEF IInv, Tipos, l
<1>4. Tipos'
  BY <1>2, <1>3 DEF IInv, Tipos
<1>5. Capas'
  BY <1>2, MismaPila DEF IInv, Tipos
<1>6. pcbActual.PC + 1 \in Lugares(programa)
  BY <1>1, NoEsElUltimo DEF Toca
<1>7. linea' \in Seq(Pasos)
  BY ONLY <1>1
<1>8. EnPrograma'
  BY <1>1, <1>2, <1>6, <1>7 DEF IInv, EnPrograma
<1> QED BY <1>4, <1>5, <1>8 DEF IInv

LEMMA SaltarInv == ASSUME IInv, Saltar PROVE IInv'
<1> USE DEF Saltar
<1> DEFINE l == Head(linea)
<1>1. /\ programa \in Programas /\ pcbActual.PC \in Lugares(programa) /\ linea' = <<>>
      /\ l = Instruccion(programa, pcbActual.PC) /\ l \in Lineas /\ l.op = "irAlLabel"
  BY EnInstruccion DEF Toca
<1>2. /\ UNCHANGED <<memoria, programa, en, i, huboStackOver, finPrograma, avisos, ocupada>>
      /\ en = "linea"
  BY DEF flags, kernel, Toca
<1>3. pcbActual \in [PC : Int, stackPointer : 0..Limite, stack : Pilas]
  BY DEF IInv, Tipos
<1>4. /\ pcbActual' \in [PC : Int, stackPointer : 0..Limite, stack : Pilas]
      /\ pcbActual'.stack = pcbActual.stack
      /\ pcbActual'.stackPointer = pcbActual.stackPointer
      /\ pcbActual'.PC = IF Valor(l.si) # 0 THEN IrAlLabel(l.etiqueta) ELSE pcbActual.PC
  <2>1. CASE Valor(l.si) # 0
    <3>1. IrAlLabel(l.etiqueta) \in Int
      BY <1>1, <1>3, SaltaBien
    <3>2. pcbActual' = [pcbActual EXCEPT !.PC = IrAlLabel(l.etiqueta)]
      BY <2>1
    <3> HIDE DEF l
    <3> QED BY <1>3, <2>1, <3>1, <3>2
  <2>2. CASE Valor(l.si) = 0
    BY <1>3, <2>2
  <2> QED BY <2>1, <2>2
<1>5. pcbActual'.PC + 1 \in Lugares(programa)
  <2>1. CASE /\ Valor(l.si) # 0
             /\ programa.indexTag # <<>> /\ programa.indexTag[1].name = l.etiqueta
    <3>1. IrAlLabel(l.etiqueta) + 1 \in Lugares(programa)
      BY <1>1, <1>3, <2>1, SaltaBien
    <3> HIDE DEF l
    <3> QED BY <1>4, <2>1, <3>1
  <2>2. CASE Valor(l.si) = 0
    <3>1. l.si[1] = "lit" => l.si[2] = 0
      BY <2>2 DEF Valor
    <3>2. pcbActual.PC + 1 \in Lugares(programa)
      BY <1>1, <3>1, NoEsElUltimo
    <3> HIDE DEF l
    <3> QED BY <1>4, <2>2, <3>2
  <2>3. CASE ~(programa.indexTag # <<>> /\ programa.indexTag[1].name = l.etiqueta)
    <3>1. IrAlLabel(l.etiqueta) = pcbActual.PC
      BY <1>1, <1>3, <2>3, SaltaBien
    <3>2. pcbActual.PC + 1 \in Lugares(programa)
      BY <1>1, <2>3, NoEsElUltimo
    <3> HIDE DEF l
    <3> QED BY <1>4, <3>1, <3>2
  <2> QED BY <2>1, <2>2, <2>3
<1>6. Tipos'
  BY <1>2, <1>4 DEF IInv, Tipos
<1>7. Capas'
  BY <1>4, MismaPila
<1>8. linea' \in Seq(Pasos)
  BY ONLY <1>1
<1>9. EnPrograma'
  BY <1>1, <1>2, <1>4, <1>5, <1>8 DEF IInv, EnPrograma
<1> QED BY <1>6, <1>7, <1>9 DEF IInv

\* What a call puts on the stack.
LEMMA LlamarPila ==
  ASSUME IInv, Llamar
  PROVE  /\ programa \in Programas /\ pcbActual.PC \in Lugares(programa)
         /\ Head(linea) = Instruccion(programa, pcbActual.PC) /\ Head(linea).op = "llamar"
         /\ Capas' /\ pcbActual' \in [PC : Int, stackPointer : 0..Limite, stack : Pilas]
         /\ pcbActual'.PC = IrAlLabel(Head(linea).etiqueta)
         /\ Len(pcbActual.stack) \in Nat
         /\ Len(pcbActual'.stack) = Len(pcbActual.stack) + 1
         /\ \A k \in 1..Len(pcbActual.stack) : pcbActual'.stack[k] = pcbActual.stack[k]
         /\ LET c == pcbActual'.stack[Len(pcbActual.stack) + 1]
            IN  /\ c.retPos = pcbActual.PC
                /\ Head(linea).ret # Nadie => /\ Head(linea).ret \in Letras
                                              /\ c.retVar = ObtenerPosicionVariable(Head(linea).ret)
<1> DEFINE l == Head(linea)  pila == pcbActual.stack
           retVar == IF l.ret = Nadie THEN 0 ELSE ObtenerPosicionVariable(l.ret)
           c == NuevoContexto(pcbActual.PC, retVar)
<1>1. /\ programa \in Programas /\ pcbActual.PC \in Lugares(programa)
      /\ l = Instruccion(programa, pcbActual.PC) /\ l \in Lineas /\ l.op = "llamar"
  BY EnInstruccion DEF Toca, Llamar
<1>2. /\ pcbActual \in [PC : Int, stackPointer : 0..Limite, stack : Pilas]
      /\ pila \in Pilas /\ EnCapas(pila, pcbActual.stackPointer) /\ pcbActual.PC \in Int
  BY CapasDePila DEF IInv, Tipos
<1>3. l.ret \in Letras \cup {Nadie}
  BY <1>1, LineaTipos
<1>4. retVar \in Nat
  BY <1>2, <1>3, PosicionDe
<1>5. pcbActual' = [pcbActual EXCEPT !.stack = Append(pila, c), !.PC = IrAlLabel(l.etiqueta)]
  BY DEF Llamar
<1> HIDE DEF l, retVar
<1>6. /\ c \in Contextos /\ c.args = <<>> /\ c.vars = <<>>
      /\ c.retPos = pcbActual.PC /\ c.retVar = retVar
  BY <1>2, <1>4, ContextoNuevo
<1> HIDE DEF c
<1>7. EnCapas(Append(pila, c), pcbActual.stackPointer) /\ Append(pila, c) \in Pilas
  BY <1>2, <1>6, SeAbre
<1>8. IrAlLabel(l.etiqueta) \in Int
  BY <1>1, <1>2, SaltaBien
<1>9. /\ pcbActual' \in [PC : Int, stackPointer : 0..Limite, stack : Pilas]
      /\ pcbActual'.stack = Append(pila, c) /\ pcbActual'.PC = IrAlLabel(l.etiqueta)
      /\ pcbActual'.stackPointer = pcbActual.stackPointer
  BY <1>2, <1>5, <1>7, <1>8
<1>10. Capas'
  BY <1>7, <1>9, CapasDespues
<1>11. /\ Len(pila) \in Nat /\ Len(Append(pila, c)) = Len(pila) + 1
       /\ \A k \in 1..Len(pila) : Append(pila, c)[k] = pila[k]
       /\ Append(pila, c)[Len(pila) + 1] = c
  BY <1>2, <1>6, LenProperties, AppendProperties DEF Pilas
<1>12. l.ret # Nadie => l.ret \in Letras /\ c.retVar = ObtenerPosicionVariable(l.ret)
  BY <1>3, <1>6 DEF retVar
<1> QED BY <1>1, <1>6, <1>9, <1>10, <1>11, <1>12 DEF l

LEMMA LlamarInv == ASSUME IInv, Llamar PROVE IInv'
<1> DEFINE l == Head(linea)  n == Len(pcbActual.stack)
<1>1. /\ programa \in Programas /\ pcbActual.PC \in Lugares(programa)
      /\ l = Instruccion(programa, pcbActual.PC) /\ l.op = "llamar"
      /\ Capas' /\ pcbActual' \in [PC : Int, stackPointer : 0..Limite, stack : Pilas]
      /\ pcbActual'.PC = IrAlLabel(l.etiqueta) /\ n \in Nat
      /\ Len(pcbActual'.stack) = n + 1
      /\ \A k \in 1..n : pcbActual'.stack[k] = pcbActual.stack[k]
      /\ pcbActual'.stack[n + 1].retPos = pcbActual.PC
  BY LlamarPila
<1>2. /\ UNCHANGED <<memoria, programa, en, i, huboStackOver, finPrograma, avisos, ocupada>>
      /\ en = "linea"
  BY DEF Llamar, flags, kernel, Toca
<1>3. pcbActual'.PC + 1 \in Lugares(programa)
  <2>1. CASE programa.indexTag # <<>> /\ programa.indexTag[1].name = l.etiqueta
    BY <1>1, <2>1, SaltaBien DEF IInv, Tipos
  <2>2. CASE ~(programa.indexTag # <<>> /\ programa.indexTag[1].name = l.etiqueta)
    <3>1. IrAlLabel(l.etiqueta) = pcbActual.PC
      BY <1>1, <2>2, SaltaBien DEF IInv, Tipos
    <3>2. pcbActual.PC + 1 \in Lugares(programa)
      BY <1>1, NoEsElUltimo
    <3> QED BY <1>1, <3>1, <3>2
  <2> QED BY <2>1, <2>2
<1>4. linea' \in Seq(Pasos)
  <2>1. l.args \in Seq(Operandos)
    BY <1>1, CodigoTipos, LineaTipos
  <2>2. Len(l.args) \in Nat /\ DOMAIN l.args = 1..Len(l.args)
    BY <2>1, LenProperties
  <2>3. \A k \in 1..Len(l.args) : Valor(l.args[k]) \in Int
    BY <2>1, ElementOfSeq, ValorEntero DEF IInv, Tipos
  <2>4. linea' = [k \in 1..Len(l.args) |->
                    [op |-> "pasar", n |-> k - 1, valor |-> Valor(l.args[k])]]
    <3>1. linea' = Argumentos([k \in DOMAIN l.args |-> Valor(l.args[k])])
      BY DEF Llamar
    <3> QED BY <2>2, <3>1 DEF Argumentos
  <2>5. \A k \in 1..Len(l.args) :
          [op |-> "pasar", n |-> k - 1, valor |-> Valor(l.args[k])] \in Pasos
    BY <2>2, <2>3 DEF Pasos
  <2> QED BY <2>2, <2>4, <2>5, IsASeq
<1>5. Tipos'
  BY <1>1, <1>2 DEF IInv, Tipos
<1>6. ASSUME NEW k \in DOMAIN pcbActual'.stack \ {1}
      PROVE  /\ pcbActual'.stack[k].retPos \in Lugares(programa)
             /\ Instruccion(programa, pcbActual'.stack[k].retPos).op = "llamar"
  <2>1. k \in 1..n \/ k = n + 1
    BY <1>1, Largos
  <2>2. CASE k \in 1..n
    <3>1. k \in DOMAIN pcbActual.stack \ {1} /\ pcbActual'.stack[k] = pcbActual.stack[k]
      BY <1>1, <2>2, Largos DEF IInv, Tipos
    <3> QED BY <3>1 DEF IInv, EnPrograma
  <2>3. CASE k = n + 1
    BY <1>1, <2>3
  <2> QED BY <2>1, <2>2, <2>3
<1>7. EnPrograma'
  BY <1>1, <1>2, <1>3, <1>4, <1>6 DEF EnPrograma
<1> QED BY <1>1, <1>5, <1>7 DEF IInv

\* What the end of a function or of the program leaves of the stack.
LEMMA CerrarPila ==
  ASSUME IInv, CerrarContexto
  PROVE  LET pila == pcbActual.stack
             t    == pcbActual'.stack
         IN  /\ Capas' /\ pcbActual' \in [PC : Int, stackPointer : 0..Limite, stack : Pilas]
             /\ Len(t) \in Nat /\ Len(t) <= Len(pila)
             /\ \A k \in 1..Len(t) : k \in 1..Len(pila) /\ t[k] = pila[k]
             /\ \/ t = <<>> /\ finPrograma' = TRUE /\ FinalizarPor
                \/ /\ UNCHANGED <<finPrograma, avisos, ocupada>>
                   /\ Len(pila) \in DOMAIN pila \ {1}
                   /\ pcbActual'.PC = pila[Len(pila)].retPos
<1> DEFINE pila == pcbActual.stack  sp == pcbActual.stackPointer
           u == IF pila = <<>> THEN <<>> ELSE Front(pila)
           cerrado == [pcbActual EXCEPT !.stack = u, !.stackPointer = Libre]
<1>1. /\ pcbActual \in [PC : Int, stackPointer : 0..Limite, stack : Pilas]
      /\ pila \in Pilas /\ EnCapas(pila, sp) /\ Len(pila) \in Nat /\ sp \in 0..Limite
      /\ Limite \in Nat
  BY CapasDePila, Largos, SizesAssumption DEF IInv, Tipos, Limite
<1>2. /\ u \in Pilas /\ EnCapas(u, Libre) /\ Libre \in 0..Limite
      /\ Len(u) \in Nat /\ Len(u) <= Len(pila)
      /\ \A k \in 1..Len(u) : k \in 1..Len(pila) /\ u[k] = pila[k]
      /\ u # <<>> => Len(pila) > 1 /\ Contexto = pila[Len(pila)]
  <2>1. CASE pila = <<>>
    <3>1. u = pila /\ Libre = sp
      BY <2>1 DEF Libre
    <3>2. Len(u) = 0 /\ u = <<>>
      BY <2>1
    <3> HIDE DEF u, pila, sp
    <3> QED BY <1>1, <3>1, <3>2
  <2>2. CASE pila # <<>>
    <3> DEFINE n == Len(pila)
    <3>1. n \in Nat /\ n > 0 /\ u = Front(pila) /\ Contexto = pila[n]
      BY <1>1, <2>2, EmptySeq DEF Pilas, Contexto, Last
    <3>2. Libre = sp - TamanioVariable * Vivas(pila[n])
      BY <2>2, <3>1 DEF Libre
    <3>3. /\ u \in Pilas /\ Len(u) = n - 1 /\ \A k \in 1..(n - 1) : u[k] = pila[k]
          /\ EnCapas(u, Libre) /\ Libre \in 0..sp
      BY <1>1, <3>1, <3>2, SeCierra
    <3> HIDE DEF u, pila, sp, n
    <3>4. Libre \in 0..Limite
      BY <1>1, <3>3
    <3>5. Len(u) \in Nat /\ Len(u) <= n /\ \A k \in 1..Len(u) : k \in 1..n /\ u[k] = pila[k]
      BY <3>1, <3>3
    <3>6. n = 1 => u = <<>>
      BY <3>3, EmptySeq DEF Pilas
    <3>7. u # <<>> => n > 1 /\ Contexto = pila[n]
      BY <3>1, <3>6
    <3> QED BY <3>3, <3>4, <3>5, <3>7 DEF n
  <2> QED BY <2>1, <2>2
<1>3. /\ cerrado \in [PC : Int, stackPointer : 0..Limite, stack : Pilas]
      /\ cerrado.stack = u /\ cerrado.stackPointer = Libre
  <2> HIDE DEF u
  <2> QED BY <1>1, <1>2
<1>4. \/ pcbActual' = cerrado /\ u = <<>> /\ finPrograma' = TRUE /\ FinalizarPor
      \/ /\ u # <<>> /\ pcbActual' = [cerrado EXCEPT !.PC = Contexto.retPos]
         /\ UNCHANGED <<finPrograma, avisos, ocupada>>
  BY DEF CerrarContexto, kernel
<1> HIDE DEF cerrado, u
<1>5. CASE pcbActual' = cerrado /\ u = <<>> /\ finPrograma' = TRUE /\ FinalizarPor
  <2>1. Capas'
    BY <1>2, <1>3, <1>5, CapasDespues
  <2> QED BY <1>2, <1>3, <1>5, <2>1
<1>6. CASE /\ u # <<>> /\ pcbActual' = [cerrado EXCEPT !.PC = Contexto.retPos]
           /\ UNCHANGED <<finPrograma, avisos, ocupada>>
  <2>1. Contexto = pila[Len(pila)] /\ Len(pila) \in DOMAIN pila \ {1}
    <3>1. Len(pila) > 1 /\ Contexto = pila[Len(pila)] /\ Len(pila) \in Nat
      BY <1>1, <1>2, <1>6
    <3>2. Len(pila) \in 1..Len(pila)
      BY <3>1
    <3> QED BY <1>1, <3>1, <3>2, Largos
  <2>2. pila[Len(pila)].retPos \in Int
    BY <1>1, <2>1, Largos DEF Contextos
  <2>3. /\ pcbActual' \in [PC : Int, stackPointer : 0..Limite, stack : Pilas]
        /\ pcbActual'.stack = u /\ pcbActual'.stackPointer = Libre
        /\ pcbActual'.PC = pila[Len(pila)].retPos
    BY <1>3, <1>6, <2>1, <2>2
  <2>4. Capas'
    BY <1>2, <2>3, CapasDespues
  <2> QED BY <1>2, <1>6, <2>1, <2>3, <2>4
<1> QED BY <1>4, <1>5, <1>6

LEMMA CerrarInv ==
  ASSUME IInv, CerrarContexto, memoria' \in [Posiciones -> Int], en = "linea",
         linea # <<>>, Head(linea).op \in {"finalizar", "retornar"}
  PROVE  IInv'
<1> DEFINE pila == pcbActual.stack  t == pcbActual'.stack
<1>1. /\ Capas' /\ pcbActual' \in [PC : Int, stackPointer : 0..Limite, stack : Pilas]
      /\ Len(t) \in Nat /\ Len(t) <= Len(pila)
      /\ \A k \in 1..Len(t) : k \in 1..Len(pila) /\ t[k] = pila[k]
      /\ \/ t = <<>> /\ finPrograma' = TRUE /\ FinalizarPor
         \/ /\ UNCHANGED <<finPrograma, avisos, ocupada>>
            /\ Len(pila) \in DOMAIN pila \ {1}
            /\ pcbActual'.PC = pila[Len(pila)].retPos
  BY CerrarPila
<1>2. UNCHANGED <<programa, en, i, huboStackOver>> /\ linea' = Tail(linea)
  BY DEF CerrarContexto
<1>3. programa \in Programas /\ linea' = <<>>
  BY <1>2, EnInstruccion
<1>4. linea' \in Seq(Pasos)
  BY ONLY <1>3
<1>5. finPrograma' \in BOOLEAN /\ ocupada' \in BOOLEAN /\ avisos' \in Nat
  <2>1. finPrograma \in BOOLEAN /\ ocupada \in BOOLEAN /\ avisos \in Nat
    BY DEF IInv, Tipos
  <2>2. CASE finPrograma' = TRUE /\ FinalizarPor
    BY <2>2, TrasAviso
  <2>3. CASE UNCHANGED <<finPrograma, avisos, ocupada>>
    BY <2>1, <2>3
  <2> QED BY <1>1, <2>2, <2>3
<1>6. Tipos'
  BY <1>1, <1>2, <1>5 DEF IInv, Tipos
<1>7. \A k \in DOMAIN pila \ {1} : /\ pila[k].retPos \in Lugares(programa)
                                   /\ Instruccion(programa, pila[k].retPos).op = "llamar"
  BY DEF IInv, EnPrograma
<1>8. finPrograma' \/ pcbActual'.PC + 1 \in Lugares(programa)
  <2>1. CASE finPrograma' = TRUE
    BY <2>1
  <2>2. CASE /\ Len(pila) \in DOMAIN pila \ {1}
             /\ pcbActual'.PC = pila[Len(pila)].retPos
    BY <1>3, <1>7, <2>2, NoEsElUltimo
  <2> QED BY <1>1, <2>1, <2>2
<1>9. \A k \in DOMAIN t \ {1} : k \in DOMAIN pila \ {1} /\ t[k] = pila[k]
  BY <1>1, Largos DEF IInv, Tipos
<1>10. EnPrograma'
  BY <1>2, <1>3, <1>4, <1>7, <1>8, <1>9 DEF IInv, EnPrograma
<1> QED BY <1>1, <1>6, <1>10 DEF IInv

LEMMA FinalizarInv == ASSUME IInv, Finalizar PROVE IInv'
BY CerrarInv DEF Finalizar, Toca, IInv, Tipos

LEMMA RetornarInv == ASSUME IInv, Retornar PROVE IInv'
<1>1. /\ en = "linea" /\ linea # <<>> /\ Head(linea).op = "retornar" /\ CerrarContexto
      /\ memoria' = Asignada(Contexto.retVar, Valor(Head(linea).y))
  BY DEF Retornar, Toca
<1>2. Head(linea).y \in Operandos
  BY <1>1, EnInstruccion, LineaTipos
<1>3. memoria' \in [Posiciones -> Int]
  <2>1. Valor(Head(linea).y) \in Int
    BY <1>2, ValorEntero DEF IInv, Tipos
  <2> QED BY <1>1, <2>1, AsignadaEntera DEF IInv, Tipos
<1> QED BY <1>1, <1>3, CerrarInv

LEMMA IInvStep == IInv /\ [Next]_vars => IInv'
<1> SUFFICES ASSUME IInv, [Next]_vars PROVE IInv'
  OBVIOUS
<1>1. ASSUME NEW p \in Programas, RecibirPCB(p) PROVE IInv'
  BY <1>1, RecibirInv
<1>2. CASE PedirProximaInstruccion
  BY <1>2, PedirInv
<1>3. CASE FinDeQuantum
  BY <1>3, FinDeQuantumInv
<1>4. CASE TerminarEjecucion
  BY <1>4, TerminarInv
<1>5. CASE Continuar
  BY <1>5, ContinuarInv
<1>6. CASE DefinirVariable
  BY <1>6, DefinirInv
<1>7. CASE PasarArgumento
  BY <1>7, PasarInv
<1>8. CASE Asignar
  BY <1>8, AsignarInv
<1>9. CASE Saltar
  BY <1>9, SaltarInv
<1>10. CASE Llamar
  BY <1>10, LlamarInv
<1>11. CASE Finalizar
  BY <1>11, FinalizarInv
<1>12. CASE Retornar
  BY <1>12, RetornarInv
<1>13. CASE UNCHANGED vars
  <2>1. UNCHANGED <<pcbActual, memoria, programa, linea, en, i, huboStackOver, finPrograma,
                    avisos, ocupada>>
    BY <1>13 DEF vars, flags, kernel
  <2>2. Tipos'
    BY <2>1 DEF IInv, Tipos
  <2>3. Capas'
    BY <2>1, MismaPila DEF IInv, Tipos
  <2>4. EnPrograma'
    BY <2>1 DEF IInv, EnPrograma
  <2> QED BY <2>2, <2>3, <2>4 DEF IInv
<1> QED BY <1>1, <1>2, <1>3, <1>4, <1>5, <1>6, <1>7, <1>8, <1>9, <1>10, <1>11, <1>12, <1>13
        DEF Next

----------------------------------------------------------------------------
(* The theorems.                                                           *)

\* Whatever the program does, its variables are in the pages of its stack and
\* the stack pointer stays within them: definirVariable refuses what does not
\* fit, and finalizar gives back what its context has declared and no more.
THEOREM EjecucionTypes == Spec => []TypeOK
BY InitIInv, IInvStep, IInvTypeOK, PTL DEF Spec

\* The variables of all calls under way share no byte and lie in the order of the
\* calls, and the stack pointer is right behind them, through calls, returns,
\* overflows, the ends of programs and the programs that come after them.
THEOREM StackIsApart == Spec => []StackApart
BY InitIInv, IInvStep, IInvStackApart, PTL DEF Spec

\* The primitives that leave the calls under way as they are, or end some.
Conserva ==
  \A k \in DOMAIN pcbActual'.stack \ {1} :
    /\ k \in DOMAIN pcbActual.stack /\ k - 1 \in DOMAIN pcbActual.stack
    /\ pcbActual'.stack[k].retPos = pcbActual.stack[k].retPos
    /\ pcbActual'.stack[k].retVar = pcbActual.stack[k].retVar
    /\ \A j \in DOMAIN pcbActual.stack[k - 1].vars :
         /\ j \in DOMAIN pcbActual'.stack[k - 1].vars
         /\ pcbActual'.stack[k - 1].vars[j] = pcbActual.stack[k - 1].vars[j]

LEMMA SiguenEsperando ==
  ASSUME CallersWait, Conserva, programa' = programa
  PROVE  CallersWait'
<1> SUFFICES ASSUME NEW k \in DOMAIN pcbActual'.stack \ {1}
             PROVE  LET c     == pcbActual'.stack[k]
                        quien == pcbActual'.stack[k - 1]
                        l     == Instruccion(programa, c.retPos)
                    IN  /\ l.op = "llamar"
                        /\ l.ret # Nadie => \E j \in DOMAIN quien.vars :
                                              quien.vars[j] = [id |-> l.ret, pos |-> c.retVar]
  BY DEF CallersWait, Instruccion
<1> DEFINE l == Instruccion(programa, pcbActual'.stack[k].retPos)
<1>1. k \in DOMAIN pcbActual.stack \ {1} /\ l = Instruccion(programa, pcbActual.stack[k].retPos)
  BY DEF Conserva
<1>2. /\ l.op = "llamar"
      /\ l.ret # Nadie => \E j \in DOMAIN pcbActual.stack[k - 1].vars :
           pcbActual.stack[k - 1].vars[j] = [id |-> l.ret, pos |-> pcbActual.stack[k].retVar]
  BY <1>1 DEF CallersWait
<1>3. ASSUME l.ret # Nadie
      PROVE  \E j \in DOMAIN pcbActual'.stack[k - 1].vars :
               pcbActual'.stack[k - 1].vars[j] = [id |-> l.ret, pos |-> pcbActual'.stack[k].retVar]
  <2>1. PICK j \in DOMAIN pcbActual.stack[k - 1].vars :
          pcbActual.stack[k - 1].vars[j] = [id |-> l.ret, pos |-> pcbActual.stack[k].retVar]
    BY <1>2, <1>3
  <2> QED BY <2>1 DEF Conserva
<1> QED BY <1>2, <1>3

\* Steps that leave the whole stack, or nothing of it.
LEMMA PilaIgual ==
  ASSUME IInv, pcbActual'.stack = pcbActual.stack
  PROVE  Conserva
<1>1. pcbActual.stack \in Pilas
  BY DEF IInv, Tipos
<1>2. DOMAIN pcbActual.stack = 1..Len(pcbActual.stack) /\ Len(pcbActual.stack) \in Nat
  BY <1>1, Largos
<1>3. \A k \in DOMAIN pcbActual.stack \ {1} : k - 1 \in DOMAIN pcbActual.stack
  BY <1>2
<1> QED BY <1>3 DEF Conserva

LEMMA CerrarConserva == ASSUME IInv, CerrarContexto PROVE Conserva
<1> DEFINE pila == pcbActual.stack  t == pcbActual'.stack
<1>1. /\ t \in Pilas /\ Len(t) \in Nat
      /\ \A k \in 1..Len(t) : k \in 1..Len(pila) /\ t[k] = pila[k]
  BY CerrarPila
<1>2. DOMAIN t = 1..Len(t) /\ DOMAIN pila = 1..Len(pila)
  BY <1>1, Largos DEF IInv, Tipos
<1>3. \A k \in DOMAIN t \ {1} : k \in DOMAIN t /\ k - 1 \in DOMAIN t
  BY <1>1, <1>2
<1>4. \A k \in DOMAIN t : k \in DOMAIN pila /\ t[k] = pila[k]
  BY <1>1, <1>2
<1> HIDE DEF t, pila
<1>5. \A k \in DOMAIN t \ {1} : /\ k \in DOMAIN pila /\ k - 1 \in DOMAIN pila
                                /\ t[k] = pila[k] /\ t[k - 1] = pila[k - 1]
  BY <1>3, <1>4
<1> QED BY <1>5 DEF Conserva, t, pila

LEMMA LlamarEspera == ASSUME IInv, Declara, CallersWait, Llamar PROVE CallersWait'
<1> DEFINE l == Head(linea)  n == Len(pcbActual.stack)  t == pcbActual'.stack
<1>1. /\ programa \in Programas /\ l = Instruccion(programa, pcbActual.PC) /\ l.op = "llamar"
      /\ t \in Pilas /\ n \in Nat /\ Len(t) = n + 1
      /\ \A k \in 1..n : t[k] = pcbActual.stack[k]
      /\ t[n + 1].retPos = pcbActual.PC
      /\ l.ret # Nadie => l.ret \in Letras /\ t[n + 1].retVar = ObtenerPosicionVariable(l.ret)
  BY LlamarPila
<1>2. programa' = programa
  BY DEF Llamar
<1>3. ASSUME NEW k \in DOMAIN t \ {1}
      PROVE  LET m == Instruccion(programa, t[k].retPos)
             IN  /\ m.op = "llamar"
                 /\ m.ret # Nadie => \E j \in DOMAIN t[k - 1].vars :
                                       t[k - 1].vars[j] = [id |-> m.ret, pos |-> t[k].retVar]
  <2>1. k \in 1..(n + 1) /\ k # 1 /\ k - 1 \in 1..n
    BY <1>1, Largos
  <2>2. CASE k \in 1..n
    <3>1. k \in DOMAIN pcbActual.stack \ {1}
      BY <2>1, <2>2, Largos DEF IInv, Tipos
    <3>2. t[k] = pcbActual.stack[k] /\ t[k - 1] = pcbActual.stack[k - 1]
      BY <1>1, <2>1, <2>2
    <3> HIDE DEF t
    <3> QED BY <3>1, <3>2 DEF CallersWait
  <2>3. CASE k = n + 1
    <3>1. /\ Instruccion(programa, t[k].retPos) = l
          /\ t[k - 1] = pcbActual.stack[n] /\ pcbActual.stack # <<>>
      <4>1. k - 1 = n /\ n \in 1..n
        BY <1>1, <2>1, <2>3
      <4> QED BY <1>1, <2>3, <4>1
    <3>2. ASSUME l.ret # Nadie
          PROVE  \E j \in DOMAIN t[k - 1].vars :
                   t[k - 1].vars[j] = [id |-> l.ret, pos |-> t[k].retVar]
      <4>1. Contexto = pcbActual.stack[n]
        BY DEF Contexto, Last
      <4>2. \E j \in DOMAIN Contexto.vars : Contexto.vars[j].id = l.ret
        BY <3>2 DEF Declara, Llamar
      <4>3. pcbActual.stack \in Pilas /\ l.ret \in Letras
        BY <1>1, <3>2 DEF IInv, Tipos
      <4>4. \E j \in DOMAIN Contexto.vars :
              Contexto.vars[j] = [id |-> l.ret, pos |-> ObtenerPosicionVariable(l.ret)]
        BY <3>1, <4>2, <4>3, PosicionDe
      <4>5. t[k].retVar = ObtenerPosicionVariable(l.ret)
        BY <1>1, <2>3, <3>2
      <4> HIDE DEF l, t, n
      <4> QED BY <3>1, <4>1, <4>4, <4>5
    <3> HIDE DEF l, t
    <3> QED BY <1>1, <3>1, <3>2
  <2> QED BY <2>1, <2>2, <2>3
<1> QED BY <1>2, <1>3 DEF CallersWait, Instruccion

LEMMA EsperanStep == IInv /\ Declara /\ CallersWait /\ [Next]_vars => CallersWait'
<1> SUFFICES ASSUME IInv, Declara, CallersWait, [Next]_vars PROVE CallersWait'
  OBVIOUS
<1>1. CASE pcbActual'.stack = <<>>
  BY <1>1 DEF CallersWait
<1>2. CASE Conserva /\ programa' = programa
  BY <1>2, SiguenEsperando
<1>3. ASSUME NEW p \in Programas, RecibirPCB(p) PROVE pcbActual'.stack = <<>>
  BY <1>3 DEF RecibirPCB
<1>4. CASE FinDeQuantum \/ TerminarEjecucion
  <2>1. pcbActual'.stack = <<>>
    BY <1>4 DEF FinDeQuantum, TerminarEjecucion, Volver, Vacio
  <2> QED BY <1>1, <2>1
<1>5. CASE PedirProximaInstruccion \/ Asignar \/ UNCHANGED vars
  <2>1. pcbActual' = pcbActual /\ programa' = programa
    BY <1>5 DEF PedirProximaInstruccion, Asignar, vars
  <2> QED BY <1>2, <2>1, PilaIgual
<1>6. CASE Continuar \/ Saltar
  <2>1. pcbActual \in [PC : Int, stackPointer : 0..Limite, stack : Pilas]
    BY DEF IInv, Tipos
  <2>2. pcbActual'.stack = pcbActual.stack /\ programa' = programa
    BY <1>6, <2>1 DEF Continuar, Saltar
  <2> QED BY <1>2, <2>2, PilaIgual
<1>7. CASE DefinirVariable
  <2>1. programa' = programa /\ Head(linea).id \in Nombres
    <3>1. Head(linea) \in Pasos
      BY <1>7, EnPasos DEF DefinirVariable, Toca
    <3> QED BY <1>7, <3>1 DEF DefinirVariable, Toca, Pasos, Nombres
  <2>2. CASE Desborda
    BY <1>2, <1>7, <2>1, <2>2, PilaIgual DEF DefinirVariable
  <2>3. CASE ~Desborda
    <3>1. pcbActual' = Definida(Head(linea).id)
      BY <1>7, <2>3 DEF DefinirVariable
    <3>2. Conserva
      BY <2>1, <2>3, <3>1, DefinidaBien DEF Conserva
    <3> QED BY <1>2, <2>1, <3>2
  <2> QED BY <2>2, <2>3
<1>8. CASE PasarArgumento
  <2>1. programa' = programa /\ Arg(Head(linea).n) \in Nombres
    <3>1. Head(linea) \in Pasos
      BY <1>8, EnPasos DEF PasarArgumento, Toca
    <3> QED BY <1>8, <3>1 DEF PasarArgumento, Toca, Pasos, Nombres, Arg
  <2>2. CASE Desborda
    BY <1>2, <1>8, <2>1, <2>2, PilaIgual DEF PasarArgumento
  <2>3. CASE ~Desborda
    <3>1. pcbActual' = Definida(Arg(Head(linea).n))
      BY <1>8, <2>3 DEF PasarArgumento
    <3>2. Conserva
      BY <2>1, <2>3, <3>1, DefinidaBien DEF Conserva
    <3> QED BY <1>2, <2>1, <3>2
  <2> QED BY <2>2, <2>3
<1>9. CASE Llamar
  BY <1>9, LlamarEspera
<1>10. CASE Finalizar \/ Retornar
  <2>1. CerrarContexto /\ programa' = programa
    BY <1>10 DEF Finalizar, Retornar, CerrarContexto
  <2> QED BY <1>2, <2>1, CerrarConserva
<1> QED BY <1>1, <1>3, <1>4, <1>5, <1>6, <1>7, <1>8, <1>9, <1>10 DEF Next

\* In programs that declare the variables their calls are for, a call under way
\* knows the line it was made in, and its value will go to the variable of the
\* caller named there, which finalizar and retornar have not taken away.
THEOREM CallersDoWait == Spec /\ []Declara => []CallersWait
<1>1. Init => CallersWait
  BY DEF Init, Vacio, CallersWait
<1> QED BY <1>1, InitIInv, IInvStep, EsperanStep, PTL DEF Spec
----------------------------------------------------------------------------
(* What a PCB carries of the program: where it is, where its calls go back *)
(* to, and where their values go.                                          *)

Regreso(p) == {-1} \cup Lugares(p)
Destinos   == {0, ExitFailure} \cup Posiciones

ConDestino(c) == c.retPos \in Regreso(programa) /\ c.retVar \in Destinos

Alcance ==
  /\ en # "libre" => pcbActual.PC \in Regreso(programa)
  /\ \A k \in DOMAIN pcbActual.stack : ConDestino(pcbActual.stack[k])

LEMMA Antes ==
  ASSUME NEW p \in Programas, NEW d \in Int, d + 1 \in Lugares(p)
  PROVE  d \in Regreso(p)
<1>1. Len(p.codigo) \in Nat
  BY CodigoTipos
<1> QED BY <1>1 DEF Regreso, Lugares

\* All that is left to see of a program counter is the end of the program.
LEMMA AlcanzaPC ==
  ASSUME IInv', en' # "libre",
         finPrograma' /\ en' = "linea" => pcbActual'.PC \in Regreso(programa')
  PROVE  pcbActual'.PC \in Regreso(programa')
<1>1. programa' \in Programas /\ pcbActual'.PC \in Int /\ en' \in {"libre", "bucle", "linea"}
  BY DEF IInv, EnPrograma, Tipos
<1>2. CASE pcbActual'.PC + 1 \in Lugares(programa')
  BY <1>1, <1>2, Antes
<1>3. CASE pcbActual'.PC \in Lugares(programa')
  BY <1>3 DEF Regreso
<1> QED BY <1>1, <1>2, <1>3 DEF IInv, EnPrograma

\* Steps within a line that leave the program counter, or set it to a line.
LEMMA AlcanzaMismo ==
  ASSUME IInv', Alcance, en # "libre", programa' = programa,
         pcbActual'.PC = pcbActual.PC \/ ~finPrograma',
         \A k \in DOMAIN pcbActual'.stack :
           \/ k \in DOMAIN pcbActual.stack
              /\ pcbActual'.stack[k].retPos = pcbActual.stack[k].retPos
              /\ pcbActual'.stack[k].retVar = pcbActual.stack[k].retVar
           \/ ConDestino(pcbActual'.stack[k])
  PROVE  Alcance'
<1>1. en' # "libre" => pcbActual'.PC \in Regreso(programa')
  BY AlcanzaPC DEF Alcance
<1>2. ASSUME NEW k \in DOMAIN pcbActual'.stack
      PROVE  /\ pcbActual'.stack[k].retPos \in Regreso(programa')
             /\ pcbActual'.stack[k].retVar \in Destinos
  BY <1>2 DEF Alcance, ConDestino
<1> QED BY <1>1, <1>2 DEF Alcance, ConDestino

\* Steps that start or leave a program.
LEMMA AlcanzaSinPila ==
  ASSUME IInv', pcbActual'.stack = <<>>, ~(finPrograma' /\ en' = "linea")
  PROVE  Alcance'
<1>1. en' # "libre" => pcbActual'.PC \in Regreso(programa')
  BY AlcanzaPC
<1>2. DOMAIN pcbActual'.stack = {}
  OBVIOUS
<1> QED BY <1>1, <1>2 DEF Alcance

LEMMA DefinidaAlcanza ==
  ASSUME IInv, IInv', Alcance, NEW id \in Nombres, pcbActual' = Definida(id), en # "libre",
         programa' = programa
  PROVE  Alcance'
<1> DEFINE sp == pcbActual.stackPointer  t == ConVariable(PilaAbierta, id, sp)
           n == Len(PilaAbierta)
<1>1. /\ pcbActual'.PC = pcbActual.PC /\ pcbActual'.stack = t
  <2>1. pcbActual' = [pcbActual EXCEPT !.stack = t, !.stackPointer = sp + TamanioVariable]
    BY Zenon DEF Definida, PilaAbierta
  <2>2. pcbActual \in [PC : Int, stackPointer : 0..Limite, stack : Pilas]
    BY DEF IInv, Tipos
  <2> HIDE DEF t
  <2> QED BY <2>1, <2>2
<1>2. /\ PilaAbierta \in Pilas /\ EnCapas(PilaAbierta, sp) /\ n \in Nat /\ n > 0
  BY AbiertaBien
<1>3. /\ t \in Pilas /\ Len(t) = n
      /\ \A k \in 1..n :
           /\ t[k].retPos = PilaAbierta[k].retPos /\ t[k].retVar = PilaAbierta[k].retVar
  BY <1>2, SeDeclara
<1> HIDE DEF t
<1>4. ASSUME NEW k \in 1..n
      PROVE  \/ /\ k \in DOMAIN pcbActual.stack
                /\ t[k].retPos = pcbActual.stack[k].retPos
                /\ t[k].retVar = pcbActual.stack[k].retVar
             \/ ConDestino(t[k])
  <2>1. CASE pcbActual.stack = <<>>
    <3> DEFINE c == NuevoContexto(-1, 0)
    <3>1. PilaAbierta = <<c>>
      BY <2>1 DEF PilaAbierta
    <3>2. c.retPos = -1 /\ c.retVar = 0
      BY DEF NuevoContexto
    <3> HIDE DEF c
    <3>3. PilaAbierta[k] = c
      BY <3>1
    <3>4. t[k].retPos = -1 /\ t[k].retVar = 0
      BY <1>3, <3>2, <3>3
    <3> QED BY <3>4 DEF ConDestino, Regreso, Destinos
  <2>2. CASE pcbActual.stack # <<>>
    <3>1. PilaAbierta = pcbActual.stack
      BY <2>2 DEF PilaAbierta
    <3> QED BY <1>2, <1>3, <3>1, Largos
  <2> QED BY <2>1, <2>2
<1>5. DOMAIN t = 1..n
  BY <1>3, Largos
<1> HIDE DEF n
<1>6. \A k \in DOMAIN pcbActual'.stack :
        \/ k \in DOMAIN pcbActual.stack
           /\ pcbActual'.stack[k].retPos = pcbActual.stack[k].retPos
           /\ pcbActual'.stack[k].retVar = pcbActual.stack[k].retVar
        \/ ConDestino(pcbActual'.stack[k])
  BY <1>1, <1>4, <1>5
<1> QED BY <1>1, <1>6, AlcanzaMismo


LEMMA PosicionAlcanza ==
  ASSUME IInv, NEW id \in Letras PROVE ObtenerPosicionVariable(id) \in Destinos
<1> DEFINE d == ObtenerPosicionVariable(id)
<1>1. CASE pcbActual.stack = <<>>
  BY <1>1 DEF ObtenerPosicionVariable, Destinos
<1>2. CASE pcbActual.stack # <<>>
  <2> DEFINE vs == Contexto.vars  halladas == {k \in DOMAIN vs : vs[k].id = id}
             k0 == CHOOSE k \in halladas : \A j \in halladas : k <= j
  <2>1. pcbActual.stack \in Pilas /\ Len(pcbActual.stack) \in DOMAIN pcbActual.stack
    BY <1>2, Largos, EmptySeq DEF Pilas, IInv, Tipos
  <2>2. /\ \A j \in DOMAIN vs : vs[j].pos \in Posiciones
        /\ DOMAIN vs \in SUBSET Nat
    <3>1. vs = pcbActual.stack[Len(pcbActual.stack)].vars
      BY DEF Contexto, Last
    <3>2. TypeOK
      BY IInvTypeOK
    <3> HIDE DEF vs
    <3>3. DOMAIN vs = 1..Len(vs) /\ Len(vs) \in Nat
      BY <2>1, <3>1, Largos
    <3> QED BY <2>1, <3>1, <3>2, <3>3 DEF TypeOK
  <2>3. ~EsArgumento(id)
    BY DEF EsArgumento, Letras
  <2>4. d = IF halladas = {} THEN ExitFailure ELSE vs[k0].pos
    BY <1>2, <2>3 DEF ObtenerPosicionVariable
  <2> HIDE DEF vs, d
  <2>5. ASSUME halladas # {} PROVE k0 \in DOMAIN vs
    <3>1. halladas \in SUBSET Nat
      BY <2>2
    <3>2. k0 \in halladas
      <4> HIDE DEF halladas
      <4>1. \E k \in halladas : \A j \in halladas : k <= j
        BY <2>5, <3>1, LeastNatural
      <4> QED BY <4>1
    <3> QED BY <3>2
  <2> HIDE DEF k0, halladas
  <2>6. d \in Destinos
    BY <2>2, <2>4, <2>5 DEF Destinos
  <2> QED BY <2>6 DEF d
<1> QED BY <1>1, <1>2

LEMMA LlamarAlcanza == ASSUME IInv, IInv', Alcance, Llamar PROVE Alcance'
<1> DEFINE n == Len(pcbActual.stack)  c == pcbActual'.stack[n + 1]
<1>1. /\ programa \in Programas /\ pcbActual.PC \in Lugares(programa) /\ n \in Nat
      /\ Head(linea).op = "llamar"
      /\ pcbActual' \in [PC : Int, stackPointer : 0..Limite, stack : Pilas]
      /\ Len(pcbActual'.stack) = n + 1
      /\ \A k \in 1..n : pcbActual'.stack[k] = pcbActual.stack[k]
      /\ c.retPos = pcbActual.PC
  BY LlamarPila
<1>2. c.retVar \in Destinos
  <2> DEFINE retVar == IF Head(linea).ret = Nadie THEN 0
                       ELSE ObtenerPosicionVariable(Head(linea).ret)
  <2>1. retVar \in Destinos
    <3>1. Head(linea).ret \in Letras \cup {Nadie}
      BY EnInstruccion, LineaTipos DEF Toca, Llamar
    <3> QED BY <3>1, PosicionAlcanza DEF Destinos
  <2>2. pcbActual' = [pcbActual EXCEPT
              !.stack = Append(@, NuevoContexto(pcbActual.PC, retVar)),
              !.PC = IrAlLabel(Head(linea).etiqueta)]
    BY DEF Llamar
  <2> HIDE DEF retVar
  <2>3. pcbActual \in [PC : Int, stackPointer : 0..Limite, stack : Pilas]
    BY DEF IInv, Tipos
  <2>4. pcbActual'.stack = Append(pcbActual.stack, NuevoContexto(pcbActual.PC, retVar))
    BY <2>2, <2>3
  <2>5. c = NuevoContexto(pcbActual.PC, retVar)
    BY <2>3, <2>4 DEF Pilas
  <2>6. NuevoContexto(pcbActual.PC, retVar).retVar = retVar
    BY DEF NuevoContexto
  <2> QED BY <2>1, <2>5, <2>6
<1>3. en = "linea" /\ programa' = programa /\ en' = en /\ finPrograma' = finPrograma
  BY DEF Llamar, Toca, flags
<1>4. ConDestino(c)
  BY <1>1, <1>2 DEF ConDestino, Regreso
<1>5. DOMAIN pcbActual.stack = 1..n /\ DOMAIN pcbActual'.stack = 1..(n + 1)
  BY <1>1, Largos DEF IInv, Tipos
<1>6. \A k \in DOMAIN pcbActual'.stack :
        \/ k \in DOMAIN pcbActual.stack
           /\ pcbActual'.stack[k].retPos = pcbActual.stack[k].retPos
           /\ pcbActual'.stack[k].retVar = pcbActual.stack[k].retVar
        \/ ConDestino(pcbActual'.stack[k])
  <2> HIDE DEF n
  <2>1. \A k \in 1..(n + 1) : k \in 1..n \/ k = n + 1
    BY <1>1
  <2> QED BY <1>1, <1>4, <1>5, <2>1
<1>7. pcbActual'.PC \in Regreso(programa)
  <2>1. pcbActual'.PC = IrAlLabel(Head(linea).etiqueta) /\ pcbActual.PC \in Int
    BY LlamarPila DEF IInv, Tipos
  <2>2. IrAlLabel(Head(linea).etiqueta) \in Int
        /\ \/ IrAlLabel(Head(linea).etiqueta) + 1 \in Lugares(programa)
           \/ IrAlLabel(Head(linea).etiqueta) = pcbActual.PC
    BY <1>1, <2>1, SaltaBien
  <2> QED BY <1>1, <2>1, <2>2, Antes DEF Regreso
<1> HIDE DEF c
<1>8. ASSUME NEW k \in DOMAIN pcbActual'.stack
      PROVE  /\ pcbActual'.stack[k].retPos \in Regreso(programa')
             /\ pcbActual'.stack[k].retVar \in Destinos
  BY <1>3, <1>6 DEF Alcance, ConDestino
<1> QED BY <1>3, <1>7, <1>8 DEF Alcance, ConDestino

LEMMA SaltarAlcanza == ASSUME IInv, IInv', Alcance, Saltar PROVE Alcance'
<1>1. /\ programa \in Programas /\ pcbActual.PC \in Lugares(programa) /\ pcbActual.PC \in Int
  BY EnInstruccion DEF Saltar, Toca, IInv, Tipos
<1>2. en = "linea" /\ programa' = programa /\ en' = en
  BY DEF Saltar, Toca
<1>3. /\ pcbActual'.stack = pcbActual.stack
      /\ pcbActual'.PC \in {pcbActual.PC, IrAlLabel(Head(linea).etiqueta)}
  <2>1. pcbActual \in [PC : Int, stackPointer : 0..Limite, stack : Pilas]
    BY DEF IInv, Tipos
  <2> QED BY <2>1 DEF Saltar
<1>4. pcbActual'.PC \in Regreso(programa)
  <2>1. IrAlLabel(Head(linea).etiqueta) \in Int
        /\ \/ IrAlLabel(Head(linea).etiqueta) + 1 \in Lugares(programa)
           \/ IrAlLabel(Head(linea).etiqueta) = pcbActual.PC
    BY <1>1, SaltaBien
  <2> QED BY <1>1, <1>3, <2>1, Antes DEF Regreso
<1> QED BY <1>2, <1>3, <1>4 DEF Alcance, ConDestino

LEMMA CerrarAlcanza ==
  ASSUME IInv, IInv', Alcance, CerrarContexto, en = "linea", linea # <<>>,
         Head(linea).op \in {"finalizar", "retornar"}
  PROVE  Alcance'
<1>1. /\ Len(pcbActual'.stack) \in Nat
      /\ pcbActual' \in [PC : Int, stackPointer : 0..Limite, stack : Pilas]
      /\ \A k \in 1..Len(pcbActual'.stack) :
           k \in 1..Len(pcbActual.stack) /\ pcbActual'.stack[k] = pcbActual.stack[k]
  BY CerrarPila
<1>2. programa' = programa /\ en' = en
  BY DEF CerrarContexto
<1>3. \A k \in DOMAIN pcbActual'.stack :
        k \in DOMAIN pcbActual.stack /\ pcbActual'.stack[k] = pcbActual.stack[k]
  BY <1>1, Largos DEF IInv, Tipos
<1>4. pcbActual'.PC \in Regreso(programa)
  <2>1. pcbActual \in [PC : Int, stackPointer : 0..Limite, stack : Pilas]
    BY DEF IInv, Tipos
  <2> DEFINE u == IF pcbActual.stack = <<>> THEN <<>> ELSE Front(pcbActual.stack)
  <2>2. \/ pcbActual' = [pcbActual EXCEPT !.stack = u, !.stackPointer = Libre]
        \/ /\ u # <<>>
           /\ pcbActual' = [[pcbActual EXCEPT !.stack = u, !.stackPointer = Libre]
                              EXCEPT !.PC = Contexto.retPos]
    BY DEF CerrarContexto
  <2>3. u # <<>> => Contexto.retPos \in Regreso(programa)
    <3>1. u # <<>> => pcbActual.stack # <<>>
      OBVIOUS
    <3>2. pcbActual.stack # <<>> => Len(pcbActual.stack) \in DOMAIN pcbActual.stack
      BY <2>1, Largos, EmptySeq DEF Pilas
    <3> HIDE DEF u
    <3> QED BY <3>1, <3>2 DEF Alcance, ConDestino, Contexto, Last
  <2> HIDE DEF u
  <2>4. \/ pcbActual'.PC = pcbActual.PC
        \/ u # <<>> /\ pcbActual'.PC = Contexto.retPos
    BY <2>1, <2>2
  <2> QED BY <2>3, <2>4 DEF Alcance
<1> QED BY <1>2, <1>3, <1>4 DEF Alcance, ConDestino

LEMMA InitAlcance == Init => Alcance
BY DEF Init, Vacio, Alcance

LEMMA AlcanceStep == IInv /\ IInv' /\ Alcance /\ [Next]_vars => Alcance'
<1> SUFFICES ASSUME IInv, IInv', Alcance, [Next]_vars PROVE Alcance'
  OBVIOUS
<1>1. ASSUME NEW p \in Programas, RecibirPCB(p) PROVE Alcance'
  <2>1. pcbActual'.stack = <<>> /\ en' = "bucle"
    BY <1>1 DEF RecibirPCB
  <2> QED BY <2>1, AlcanzaSinPila
<1>2. CASE PedirProximaInstruccion
  <2>1. en # "libre" /\ UNCHANGED <<pcbActual, programa>>
    BY <1>2 DEF PedirProximaInstruccion
  <2> QED BY <2>1 DEF Alcance, ConDestino
<1>3. CASE FinDeQuantum \/ TerminarEjecucion
  <2>1. pcbActual'.stack = <<>> /\ en' = "libre"
    BY <1>3 DEF FinDeQuantum, TerminarEjecucion, Volver, Vacio
  <2> QED BY <2>1, AlcanzaSinPila
<1>4. CASE Continuar
  <2>1. /\ en # "libre" /\ programa' = programa /\ finPrograma' = finPrograma /\ ~finPrograma
        /\ pcbActual'.stack = pcbActual.stack
    BY <1>4 DEF Continuar, flags, IInv, Tipos
  <2> QED BY <2>1, AlcanzaMismo
<1>5. CASE DefinirVariable \/ PasarArgumento
  <2>1. en # "libre" /\ programa' = programa
    BY <1>5 DEF DefinirVariable, PasarArgumento, Toca
  <2>2. CASE pcbActual' = pcbActual
    BY <2>1, <2>2, AlcanzaMismo
  <2>3. CASE DefinirVariable /\ ~Desborda
    <3>1. Head(linea).id \in Nombres /\ pcbActual' = Definida(Head(linea).id)
      <4>1. Head(linea) \in Pasos
        BY <2>3, EnPasos DEF DefinirVariable, Toca
      <4> QED BY <2>3, <4>1 DEF DefinirVariable, Toca, Pasos, Nombres
    <3> QED BY <2>1, <3>1, DefinidaAlcanza
  <2>4. CASE PasarArgumento /\ ~Desborda
    <3>1. Arg(Head(linea).n) \in Nombres /\ pcbActual' = Definida(Arg(Head(linea).n))
      <4>1. Head(linea) \in Pasos
        BY <2>4, EnPasos DEF PasarArgumento, Toca
      <4>2. Head(linea).n \in Nat
        BY <2>4, <4>1 DEF PasarArgumento, Toca, Pasos
      <4> QED BY <2>4, <4>2 DEF PasarArgumento, Arg, Nombres
    <3> QED BY <2>1, <3>1, DefinidaAlcanza
  <2> QED BY <1>5, <2>2, <2>3, <2>4 DEF DefinirVariable, PasarArgumento
<1>6. CASE Asignar
  <2>1. en # "libre" /\ UNCHANGED <<pcbActual, programa>>
    BY <1>6 DEF Asignar, Toca
  <2> QED BY <2>1, AlcanzaMismo
<1>7. CASE Saltar
  BY <1>7, SaltarAlcanza
<1>8. CASE Llamar
  BY <1>8, LlamarAlcanza
<1>9. CASE Finalizar \/ Retornar
  BY <1>9, CerrarAlcanza DEF Finalizar, Retornar, Toca
<1>10. CASE UNCHANGED vars
  <2>1. UNCHANGED <<pcbActual, programa, en>>
    BY <1>10 DEF vars
  <2> QED BY <2>1 DEF Alcance, ConDestino
<1> QED BY <1>1, <1>2, <1>3, <1>4, <1>5, <1>6, <1>7, <1>8, <1>9, <1>10 DEF Next

----------------------------------------------------------------------------
(* The PCB on its way.                                                     *)

\* The programs and stacks whose numbers serial_pack can carry.
CabenEn16Bits ==
  /\ TamanioPagina > 0 /\ Limite < 2^15
  /\ \A p \in Programas :
       /\ p.quantum < 2^15 /\ 9 * Len(p.codigo) < 2^15 /\ Len(p.indexTag) < 2^15
       /\ \A k \in DOMAIN p.indexTag : p.indexTag[k].PC < 2^15

CaracteresH == STRING \cup Nombres \cup {Nadie}

Mempos(d) == [page |-> d \div TamanioPagina, offset |-> d % TamanioPagina,
              size |-> TamanioVariable]

ArgsDe(c) == [j \in DOMAIN c.args |-> [id |-> Nadie, mempos |-> Mempos(c.args[j])]]
VarsDe(c) == [j \in DOMAIN c.vars |-> [id |-> c.vars[j].id, mempos |-> Mempos(c.vars[j].pos)]]

CamposDe(c) == [retPos |-> c.retPos, retVar |-> Mempos(c.retVar),
                args |-> ArgsDe(c), vars |-> VarsDe(c)]

LEMMA Caben ==
  /\ \A n \in Int : -1 <= n /\ n < 2^15 => n \in Numeros
  /\ \A n \in Nat : n < 2^15 => n \in Cuantos
BY Powers DEF Numeros, Cuantos

LEMMA CabeResto ==
  ASSUME NEW d \in Nat, NEW m \in Nat, m > 0
  PROVE  /\ d \div m \in Nat /\ d \div m <= d /\ d % m \in Nat /\ d % m <= d
<1>1. d = m * (d \div m) + (d % m) /\ d \div m \in Int /\ d % m \in 0..(m - 1)
  OBVIOUS
<1> DEFINE q == d \div m  r == d % m
<1> HIDE DEF q, r
<1>2. q \in Int /\ r \in Nat /\ d = m * q + r /\ r < m
  BY <1>1 DEF q, r
<1>3. q >= 0
  <2>1. ASSUME q <= -1 PROVE FALSE
    <3>1. m * q <= -m
      BY <1>2, <2>1
    <3> QED BY <1>2, <3>1
  <2> QED BY <1>2, <2>1
<1>4. m * q >= q
  BY <1>2, <1>3
<1>5. q \in Nat /\ q <= d /\ r \in Nat /\ r <= d
  BY <1>2, <1>3, <1>4
<1> QED BY <1>5 DEF q, r

LEMMA MemposCabe ==
  ASSUME CabenEn16Bits, NEW d \in Destinos PROVE Mempos(d) \in PosH
<1>1. d \in Nat /\ d < 2^15
  <2>1. Limite \in Nat /\ Limite < 32768
    BY SizesAssumption, Powers DEF Limite, CabenEn16Bits
  <2>2. d \in Posiciones => d \in Nat /\ d <= Limite
    BY <2>1 DEF Posiciones, Limite, TamanioVariable
  <2>3. d \notin Posiciones => d = 0 \/ d = 1
    BY DEF Destinos, ExitFailure
  <2> QED BY <2>1, <2>2, <2>3, Powers
<1>2. TamanioPagina \in Nat /\ TamanioPagina > 0
  BY SizesAssumption DEF CabenEn16Bits
<1>3. /\ d \div TamanioPagina \in Nat /\ d \div TamanioPagina <= d
      /\ d % TamanioPagina \in Nat /\ d % TamanioPagina <= d
  BY <1>1, <1>2, CabeResto
<1>4. \A n \in Nat : n <= d => n \in Numeros
  BY <1>1, Powers, Caben
<1>5. TamanioVariable \in Numeros
  BY Powers DEF TamanioVariable, Numeros
<1> QED BY <1>3, <1>4, <1>5 DEF Mempos, PosH

\* No context has declared more than the pages of the stack have room for.
LEMMA PocasVivas ==
  ASSUME IInv, CabenEn16Bits, NEW k \in 1..Len(pcbActual.stack)
  PROVE  /\ Len(pcbActual.stack[k].args) \in Cuantos
         /\ Len(pcbActual.stack[k].vars) \in Cuantos
<1> DEFINE pila == pcbActual.stack  sp == pcbActual.stackPointer  c == pila[k]
           A == Len(c.args)  V == Len(c.vars)  todas == Cardinality(De(pila))
<1>1. /\ pila \in Pilas /\ EnCapas(pila, sp) /\ sp \in 0..Limite /\ c \in Contextos
      /\ A \in Nat /\ V \in Nat /\ k \in DOMAIN pila
  BY CapasDePila, Largos DEF IInv, Tipos
<1>2. Limite \in Nat /\ Limite < 32768
  BY SizesAssumption, Powers DEF Limite, CabenEn16Bits
<1>3. sp = TamanioVariable * todas /\ IsFiniteSet(De(pila)) /\ sp \in Nat
  BY <1>1, CapasApartan DEF EnCapas
<1>4. todas \in Nat
  BY <1>3, FS_CardinalityType
<1>5. DeContexto(c, k) \subseteq De(pila)
  BY <1>1 DEF De
<1>6. Cardinality(DeContexto(c, k)) <= todas
  BY <1>3, <1>5, FS_Subset
<1>7. Cardinality(DeContexto(c, k)) = A + V
  BY <1>1, DeUno DEF Vivas
<1> HIDE DEF pila, sp, c, A, V, todas
<1>8. A + V <= todas /\ 4 * todas <= Limite
  BY <1>1, <1>3, <1>6, <1>7 DEF TamanioVariable
<1>9. A < 32768 /\ V < 32768
  BY <1>1, <1>2, <1>4, <1>8
<1>10. A \in Cuantos /\ V \in Cuantos
  BY <1>1, <1>9, Powers, Caben
<1> QED BY <1>10 DEF A, V, c, pila

LEMMA ContextoCabe ==
  ASSUME IInv, Alcance, CabenEn16Bits, programa \in Programas,
         NEW k \in 1..Len(pcbActual.stack)
  PROVE  CamposDe(pcbActual.stack[k]) \in ContextosH(CaracteresH)
<1> DEFINE pila == pcbActual.stack  c == pila[k]
<1>1. /\ pila \in Pilas /\ DOMAIN pila = 1..Len(pila) /\ c \in Contextos
      /\ Len(c.args) \in Nat /\ DOMAIN c.args = 1..Len(c.args)
      /\ Len(c.vars) \in Nat /\ DOMAIN c.vars = 1..Len(c.vars)
      /\ c.vars \in Seq([id : Nombres, pos : Nat])
  BY Largos DEF IInv, Tipos
<1>2. Len(c.args) \in Cuantos /\ Len(c.vars) \in Cuantos
  BY PocasVivas
<1>3. /\ \A j \in DOMAIN c.args : c.args[j] \in Posiciones
      /\ \A j \in DOMAIN c.vars : c.vars[j].pos \in Posiciones
  BY <1>1, IInvTypeOK DEF TypeOK
<1>4. c.retPos \in Regreso(programa) /\ c.retVar \in Destinos
  BY <1>1 DEF Alcance, ConDestino
<1> HIDE DEF c
<1>5. c.retPos \in Numeros
  <2>1. Len(programa.codigo) \in Nat /\ 9 * Len(programa.codigo) < 2^15
    BY CodigoTipos DEF CabenEn16Bits
  <2>2. c.retPos \in Int /\ -1 <= c.retPos /\ c.retPos < 2^15
    BY <1>4, <2>1, Powers DEF Regreso, Lugares
  <2> QED BY <2>2, Caben
<1>6. Mempos(c.retVar) \in PosH
  BY <1>4, MemposCabe
<1>7. ArgsDe(c) \in VariablesH(CaracteresH)
  <2>1. \A j \in 1..Len(c.args) :
          [id |-> Nadie, mempos |-> Mempos(c.args[j])] \in [id : CaracteresH, mempos : PosH]
    BY <1>1, <1>3, MemposCabe DEF Destinos, CaracteresH
  <2>2. ArgsDe(c) = [j \in 1..Len(c.args) |-> [id |-> Nadie, mempos |-> Mempos(c.args[j])]]
    BY <1>1 DEF ArgsDe
  <2>3. ArgsDe(c) \in Seq([id : CaracteresH, mempos : PosH])
    BY <1>1, <2>1, <2>2, IsASeq
  <2>4. Len(ArgsDe(c)) = Len(c.args)
    BY <1>1, <2>2, <2>3, LenProperties
  <2> QED BY <1>2, <2>3, <2>4 DEF VariablesH, Listas
<1>8. VarsDe(c) \in VariablesH(CaracteresH)
  <2>1. ASSUME NEW j \in 1..Len(c.vars)
        PROVE  [id |-> c.vars[j].id, mempos |-> Mempos(c.vars[j].pos)]
                 \in [id : CaracteresH, mempos : PosH]
    <3>1. c.vars[j] \in [id : Nombres, pos : Nat]
      BY <1>1, ElementOfSeq
    <3>2. Mempos(c.vars[j].pos) \in PosH
      BY <1>1, <1>3, MemposCabe DEF Destinos
    <3> QED BY <3>1, <3>2 DEF CaracteresH
  <2>2. VarsDe(c) = [j \in 1..Len(c.vars) |->
                       [id |-> c.vars[j].id, mempos |-> Mempos(c.vars[j].pos)]]
    BY <1>1 DEF VarsDe
  <2>3. VarsDe(c) \in Seq([id : CaracteresH, mempos : PosH])
    BY <1>1, <2>1, <2>2, IsASeq
  <2>4. Len(VarsDe(c)) = Len(c.vars)
    BY <1>1, <2>2, <2>3, LenProperties
  <2> QED BY <1>2, <2>3, <2>4 DEF VariablesH, Listas
<1>9. CamposDe(c) \in ContextosH(CaracteresH)
  BY <1>5, <1>6, <1>7, <1>8 DEF CamposDe, ContextosH
<1> QED BY <1>9 DEF c

LEMMA IndiceCabe ==
  ASSUME CabenEn16Bits, NEW p \in Programas
  PROVE  [k \in DOMAIN p.codigo |-> [start |-> 9 * k, offset |-> 9]]
           \in Listas([start : Numeros, offset : Numeros])
<1> DEFINE n == Len(p.codigo)  I == [start : Numeros, offset : Numeros]
           s == [k \in 1..n |-> [start |-> 9 * k, offset |-> 9]]
<1>1. p.codigo \in Seq(Lineas) /\ n \in Nat /\ DOMAIN p.codigo = 1..n /\ 9 * n < 32768
  BY CodigoTipos, LenProperties, Powers DEF CabenEn16Bits
<1> HIDE DEF n
<1>2. ASSUME NEW k \in 1..n PROVE [start |-> 9 * k, offset |-> 9] \in I
  <2>1. 9 * k \in Int /\ -1 <= 9 * k /\ 9 * k < 32768
    BY <1>1
  <2>2. 9 * k \in Numeros /\ 9 \in Numeros
    BY <2>1, Caben, Powers
  <2> QED BY <2>2
<1> HIDE DEF I
<1>3. s \in Seq(I)
  BY <1>1, <1>2, IsASeq
<1>4. Len(s) = n
  BY <1>1, <1>3, LenProperties
<1>5. n \in Cuantos
  <2>1. n < 32768
    BY <1>1
  <2> QED BY <1>1, <2>1, Caben, Powers
<1> QED BY <1>1, <1>3, <1>4, <1>5 DEF Listas, I

LEMMA EtiquetasCaben ==
  ASSUME CabenEn16Bits, NEW p \in Programas
  PROVE  [k \in DOMAIN p.indexTag |-> [name |-> <<p.indexTag[k].name>>, PC |-> p.indexTag[k].PC]]
           \in Listas([name : NombresH(CaracteresH), PC : Numeros])
<1> DEFINE tags == p.indexTag  n == Len(tags)  I == [name : NombresH(CaracteresH), PC : Numeros]
           s == [k \in 1..n |-> [name |-> <<tags[k].name>>, PC |-> tags[k].PC]]
<1>1. tags \in Seq([name : STRING, PC : Nat])
  <2>1. p \in Codigos
    BY ProgramasAssumption
  <2> QED BY <2>1 DEF Codigos
<1>2. n \in Nat /\ DOMAIN tags = 1..n
  BY <1>1, LenProperties
<1>3. n < 2^15 /\ \A k \in DOMAIN tags : tags[k].PC < 2^15
  BY DEF CabenEn16Bits
<1> HIDE DEF n, tags
<1>4. ASSUME NEW k \in 1..n PROVE [name |-> <<tags[k].name>>, PC |-> tags[k].PC] \in I
  <2>1. tags[k] \in [name : STRING, PC : Nat]
    BY <1>1, <1>2, ElementOfSeq DEF n
  <2>2. tags[k].PC \in Numeros
    <3>1. tags[k].PC \in Int /\ -1 <= tags[k].PC /\ tags[k].PC < 2^15
      BY <1>2, <1>3, <2>1
    <3> QED BY <3>1, Caben
  <2>3. <<tags[k].name>> \in NombresH(CaracteresH)
    <3>1. tags[k].name \in CaracteresH
      BY <2>1 DEF CaracteresH
    <3>2. <<tags[k].name>> \in Seq(CaracteresH) /\ Len(<<tags[k].name>>) = 1
      BY <3>1
    <3> QED BY <3>2 DEF NombresH, MaxTag
  <2> QED BY <2>2, <2>3
<1> HIDE DEF I
<1>5. s \in Seq(I)
  BY <1>2, <1>4, IsASeq
<1>6. Len(s) = n
  BY <1>2, <1>5, LenProperties
<1>7. n \in Cuantos
  BY <1>2, <1>3, Caben
<1> QED BY <1>2, <1>5, <1>6, <1>7 DEF Listas, I, tags

LEMMA PcbCabe ==
  ASSUME IInv, Alcance, CabenEn16Bits, en # "libre", CabeEnBuffer(pcb)
  PROVE  pcb \in PcbsH(CaracteresH)
<1> DEFINE pila == pcbActual.stack  n == Len(pila)  S == ContextosH(CaracteresH)
           codigo == [k \in DOMAIN programa.codigo |-> [start |-> 9 * k, offset |-> 9]]
           tags == [k \in DOMAIN programa.indexTag |->
                      [name |-> <<programa.indexTag[k].name>>, PC |-> programa.indexTag[k].PC]]
           stack == [k \in 1..n |-> CamposDe(pila[k])]
<1>1. /\ programa \in Programas /\ pila \in Pilas /\ n \in Nat /\ DOMAIN pila = 1..n
      /\ pcbActual.stackPointer \in 0..Limite /\ Limite \in Nat
      /\ pcbActual.PC \in Regreso(programa)
  BY Largos, SizesAssumption DEF IInv, Tipos, EnPrograma, Alcance, Limite
<1>2. pcb = [idProcess |-> 1, status |-> 2, pagesCode |-> 1, exitCode |-> 0,
             PC |-> pcbActual.PC, quantum |-> programa.quantum, indexCode |-> codigo,
             indexTag |-> tags, stack |-> stack, stackPointer |-> pcbActual.stackPointer]
  BY <1>1 DEF pcb, CamposDe, ArgsDe, VarsDe, Mempos
<1>3. codigo \in Listas([start : Numeros, offset : Numeros])
  BY <1>1, IndiceCabe
<1>4. tags \in Listas([name : NombresH(CaracteresH), PC : Numeros])
  BY <1>1, EtiquetasCaben
<1>5. stack \in Seq(S) /\ Len(stack) = n
  <2>1. \A k \in 1..n : CamposDe(pila[k]) \in S
    BY <1>1, ContextoCabe
  <2> HIDE DEF S, n, pila
  <2>2. stack \in Seq(S)
    BY <1>1, <2>1, IsASeq
  <2> QED BY <1>1, <2>2, LenProperties
<1>6. pcbActual.PC \in Numeros
  <2>1. Len(programa.codigo) \in Nat /\ 9 * Len(programa.codigo) < 2^15
    BY <1>1, CodigoTipos DEF CabenEn16Bits
  <2>2. pcbActual.PC \in Int /\ -1 <= pcbActual.PC /\ pcbActual.PC < 2^15
    BY <1>1, <2>1, Powers DEF Regreso, Lugares
  <2> QED BY <2>2, Caben
<1>7. programa.quantum \in Numeros
  <2>1. programa.quantum \in Nat /\ programa.quantum < 2^15
    BY <1>1, CodigoTipos DEF CabenEn16Bits
  <2>2. programa.quantum \in Cuantos
    BY <2>1, Caben
  <2> QED BY <2>2, CountsFit
<1>8. pcbActual.stackPointer \in Numeros
  <2>1. Limite < 2^15
    BY DEF CabenEn16Bits
  <2>2. pcbActual.stackPointer \in Cuantos
    BY <1>1, <2>1, Powers, Caben
  <2> QED BY <2>2, CountsFit
<1>9. 0 \in Numeros /\ 1 \in Numeros /\ 2 \in Numeros
  BY Caben, Powers
<1> HIDE DEF codigo, tags, stack, S, n, pila
\* The buffer bounds the calls: one that declares nothing takes no room of the
\* memory, but its context is packed with the rest.
<1>10. stack \in Listas(S)
  <2> DEFINE q == [pcb EXCEPT !.stack = <<>>]
  <2>1. q = [idProcess |-> 1, status |-> 2, pagesCode |-> 1, exitCode |-> 0,
             PC |-> pcbActual.PC, quantum |-> programa.quantum, indexCode |-> codigo,
             indexTag |-> tags, stack |-> <<>>, stackPointer |-> pcbActual.stackPointer]
    BY <1>2
  <2>2. <<>> \in Listas(S)
    <3>1. 0 \in Cuantos
      BY Caben, Powers
    <3>2. <<>> \in Seq(S) /\ Len(<<>>) = 0
      OBVIOUS
    <3> QED BY <3>1, <3>2 DEF Listas
  <2>3. q \in PcbsH(CaracteresH)
    BY <1>3, <1>4, <1>6, <1>7, <1>8, <1>9, <2>1, <2>2 DEF PcbsH, S
  <2>4. pcb.stack = stack /\ DOMAIN pcb = DOMAIN q
    BY <1>2, <2>1
  <2>5. Len(stack) <= Len(SerialPackPcb(pcb))
    BY <1>5, <2>3, <2>4, PcbIsLong DEF S
  <2>6. SerialPackPcb(pcb) \in Seq(Int \cup CaracteresH)
    BY <1>5, <2>3, <2>4, PcbIsLong DEF S
  <2>7. Len(SerialPackPcb(pcb)) \in Nat /\ Len(SerialPackPcb(pcb)) <= 1024
    BY <2>6, LenProperties DEF CabeEnBuffer, BUFFER_CAPACITY
  <2>8. n < 2^15
    BY <1>1, <1>5, <2>5, <2>7, Powers
  <2>9. n \in Cuantos
    BY <1>1, <2>8, Caben
  <2> QED BY <1>5, <2>9 DEF Listas
<1> QED BY <1>2, <1>3, <1>4, <1>6, <1>7, <1>8, <1>9, <1>10 DEF PcbsH, S

\* Wherever in a program, and however deep in its calls, a CPU sends a PCB, who
\* receives it has the same program counter, labels, index of code and stack, if
\* the PCB fits in the BUFFER_CAPACITY bytes of the buffer it is packed in and
\* the numbers of the program fit in 16 bits.
THEOREM PcbsDoTravel ==
  Spec => [](CabenEn16Bits /\ (en # "libre" => CabeEnBuffer(pcb)) => PcbTravels)
<1>1. IInv /\ Alcance =>
        (CabenEn16Bits /\ (en # "libre" => CabeEnBuffer(pcb)) => PcbTravels)
  BY PcbCabe, PcbUnpacks DEF PcbTravels
<1> QED BY <1>1, InitIInv, IInvStep, InitAlcance, AlcanceStep, PTL DEF Spec
----------------------------------------------------------------------------
(* What a program is doing, of which the flags tell only a part.           *)

Fases ==
  /\ en # "linea" => ~huboStackOver /\ ~finPrograma
  /\ en # "libre" /\ ~finPrograma => ocupada
  /\ finPrograma => ~ocupada /\ linea = <<>> /\ ~huboStackOver
  /\ huboStackOver => linea \in Seq(Pasos)
  /\ programa.quantum # 0 => /\ en = "bucle" => i <= programa.quantum + 1
                             /\ en = "linea" => i <= programa.quantum

LEMMA CorreSi ==
  ASSUME IInv, Fases
  PROVE  /\ estado = "corre" <=> en # "libre" /\ ~huboStackOver /\ ~finPrograma
         /\ estado \in {"corre", "libre", "desborda"}
         /\ estado = "desborda" <=> huboStackOver \/ (en = "libre" /\ ocupada)
BY DEF estado

\* After an overflow only the rest of the declarations is done.
LEMMA SinDesborde ==
  ASSUME IInv, Fases, en = "linea", linea # <<>>, Head(linea).op \notin {"definirVariable", "pasar"}
  PROVE  ~huboStackOver /\ ~finPrograma
<1>1. \A x \in Pasos : x.op \in {"definirVariable", "pasar"}
  BY DEF Pasos
<1>2. linea \notin Seq(Pasos)
  <2>1. linea \in Seq(Pasos) => Head(linea) \in Pasos
    BY HeadTailProperties
  <2> QED BY <1>1, <2>1
<1> QED BY <1>2 DEF Fases

LEMMA CierraFases ==
  ASSUME IInv, Fases, CerrarContexto, en = "linea", linea # <<>>,
         Head(linea).op \in {"finalizar", "retornar"}
  PROVE  Fases'
<1>1. ~huboStackOver /\ ~finPrograma /\ linea' = <<>>
  BY SinDesborde, EnInstruccion DEF CerrarContexto
<1>2. UNCHANGED <<programa, en, i, huboStackOver>>
  BY DEF CerrarContexto
<1>3. CASE finPrograma' = TRUE /\ FinalizarPor
  <2>1. ~ocupada' /\ finPrograma'
    BY <1>3 DEF FinalizarPor
  <2> QED BY <1>1, <1>2, <2>1 DEF Fases
<1>4. CASE UNCHANGED <<finPrograma, kernel>>
  BY <1>1, <1>2, <1>4 DEF Fases, kernel
<1> QED BY <1>3, <1>4 DEF CerrarContexto

LEMMA InitFases == Init => Fases
BY DEF Init, Fases, SinPrograma

LEMMA FasesStep == IInv /\ Fases /\ [Next]_vars => Fases'
<1> SUFFICES ASSUME IInv, Fases, [Next]_vars PROVE Fases'
  OBVIOUS
<1>1. /\ huboStackOver \in BOOLEAN /\ finPrograma \in BOOLEAN /\ ocupada \in BOOLEAN
      /\ i \in Nat /\ en \in {"libre", "bucle", "linea"}
  BY DEF IInv, Tipos
<1>2. ASSUME NEW p \in Programas, RecibirPCB(p) PROVE Fases'
  <2>1. /\ en = "libre" /\ en' = "bucle" /\ programa' = p /\ i' = 1 /\ ocupada' = TRUE
        /\ UNCHANGED <<huboStackOver, finPrograma>> /\ p.quantum \in Nat
    BY <1>2, CodigoTipos DEF RecibirPCB, flags
  <2> QED BY <2>1 DEF Fases
<1>3. CASE PedirProximaInstruccion
  <2>1. /\ en = "bucle" /\ en' = "linea" /\ (i <= programa.quantum \/ programa.quantum = 0)
        /\ UNCHANGED <<programa, i, huboStackOver, finPrograma, ocupada>>
    BY <1>3 DEF PedirProximaInstruccion, flags, kernel
  <2> QED BY <2>1 DEF Fases
<1>4. CASE FinDeQuantum \/ TerminarEjecucion
  <2>1. en' = "libre" /\ programa'.quantum = 0 /\ ~huboStackOver' /\ ~finPrograma'
    <3>1. en' = "libre" /\ programa' = SinPrograma
      BY <1>4 DEF FinDeQuantum, TerminarEjecucion, Volver
    <3>2. ~huboStackOver' /\ ~finPrograma'
      BY <1>1, <1>4 DEF FinDeQuantum, TerminarEjecucion, flags, Fases
    <3> QED BY <3>1, <3>2 DEF SinPrograma
  <2> QED BY <2>1 DEF Fases
<1>5. CASE Continuar
  <2>1. /\ en = "linea" /\ en' = "bucle" /\ ~huboStackOver /\ ~finPrograma
        /\ UNCHANGED <<programa, huboStackOver, finPrograma, ocupada>>
        /\ i' = IF programa.quantum = 0 THEN i ELSE i + 1
        /\ programa.quantum \in Nat
    BY <1>5, CodigoTipos DEF Continuar, flags, kernel, IInv, EnPrograma
  <2> QED BY <1>1, <2>1 DEF Fases
<1>6. CASE DefinirVariable \/ PasarArgumento
  <2>1. /\ linea' \in Seq(Pasos) /\ linea # <<>> /\ en = "linea"
        /\ UNCHANGED <<programa, en, i, finPrograma, ocupada>>
    BY <1>6, EnPasos DEF DefinirVariable, PasarArgumento, Toca, kernel
  <2> QED BY <2>1 DEF Fases
<1>7. CASE Asignar \/ Saltar \/ Llamar
  <2>1. ~huboStackOver /\ ~finPrograma /\ en = "linea"
    BY <1>7, SinDesborde DEF Asignar, Saltar, Llamar, Toca
  <2>2. UNCHANGED <<programa, en, i, huboStackOver, finPrograma, ocupada>>
    BY <1>7 DEF Asignar, Saltar, Llamar, flags, kernel
  <2> QED BY <2>1, <2>2 DEF Fases
<1>8. CASE Finalizar \/ Retornar
  BY <1>8, CierraFases DEF Finalizar, Retornar, Toca
<1>9. CASE UNCHANGED vars
  BY <1>9 DEF vars, flags, kernel, Fases
<1> QED BY <1>2, <1>3, <1>4, <1>5, <1>6, <1>7, <1>8, <1>9 DEF Next

\* Programs that are well formed declare what their calls are for.
LEMMA BienDeclara == IInv /\ Fases /\ BienHecho => Declara
<1> SUFFICES ASSUME IInv, Fases, BienHecho, Toca("llamar"), Head(linea).ret # Nadie
             PROVE  /\ pcbActual.stack # <<>>
                    /\ \E j \in DOMAIN Contexto.vars : Contexto.vars[j].id = Head(linea).ret
  BY DEF Declara
<1>1. en = "linea" /\ linea # <<>> /\ Head(linea).op = "llamar"
  BY DEF Toca
<1>2. estado = "corre"
  BY <1>1, SinDesborde, CorreSi
<1>3. Vale(Head(linea).ret) /\ pcbActual.stack # <<>>
  BY <1>1, <1>2 DEF BienHecho
<1>4. Head(linea).ret[1] = "var"
  <2>1. Head(linea).ret \in Letras
    BY <1>1, EnInstruccion, LineaTipos
  <2> QED BY <2>1 DEF Letras
<1> QED BY <1>3, <1>4 DEF Vale

----------------------------------------------------------------------------
(* The activation a context stands for.                                    *)

Ids(c) == {c.vars[j].id : j \in DOMAIN c.vars}

ValoresDe(c, mem) == Activacion(c, mem).vars

Unicos(c) == \A j, k \in DOMAIN c.vars : c.vars[j].id = c.vars[k].id => j = k

LEMMA VarsSon ==
  ASSUME NEW c, Unicos(c), NEW mem
  PROVE  /\ ValoresDe(c, mem) = [id \in Ids(c) |-> ValoresDe(c, mem)[id]]
         /\ \A j \in DOMAIN c.vars : ValoresDe(c, mem)[c.vars[j].id] = mem[c.vars[j].pos]
         /\ Activacion(c, mem) = [vars   |-> ValoresDe(c, mem),
                                  args   |-> [j \in DOMAIN c.args |-> mem[c.args[j]]],
                                  vuelve |-> c.retPos + 1]
<1> DEFINE I == {v.id : v \in ToSet(c.vars)}
           e(id) == mem[(CHOOSE v \in ToSet(c.vars) : v.id = id).pos]
<1>1. ValoresDe(c, mem) = [id \in I |-> e(id)]
  BY DEF ValoresDe, Activacion
<1>2. ToSet(c.vars) = {c.vars[j] : j \in DOMAIN c.vars}
  BY DEF ToSet
<1>3. I = Ids(c)
  BY <1>2 DEF Ids
<1>4. ASSUME NEW j \in DOMAIN c.vars
      PROVE  e(c.vars[j].id) = mem[c.vars[j].pos]
  <2> DEFINE v0 == CHOOSE v \in ToSet(c.vars) : v.id = c.vars[j].id
  <2>1. v0 \in ToSet(c.vars) /\ v0.id = c.vars[j].id
    BY <1>2
  <2>2. v0 = c.vars[j]
    <3> HIDE DEF v0
    <3>1. PICK k \in DOMAIN c.vars : v0 = c.vars[k]
      BY <1>2, <2>1
    <3>2. k = j
      BY <2>1, <3>1 DEF Unicos
    <3> QED BY <3>1, <3>2
  <2>3. e(c.vars[j].id) = mem[v0.pos]
    OBVIOUS
  <2> HIDE DEF v0, e
  <2> QED BY <2>2, <2>3
<1> HIDE DEF e, I
<1>5. ValoresDe(c, mem) = [id \in Ids(c) |-> ValoresDe(c, mem)[id]]
  BY <1>1, <1>3
<1>6. \A j \in DOMAIN c.vars : ValoresDe(c, mem)[c.vars[j].id] = e(c.vars[j].id)
  BY <1>1, <1>3 DEF Ids
<1>7. Activacion(c, mem) = [vars   |-> ValoresDe(c, mem),
                            args   |-> [j \in DOMAIN c.args |-> mem[c.args[j]]],
                            vuelve |-> c.retPos + 1]
  BY DEF Activacion, ValoresDe
<1> QED BY <1>4, <1>5, <1>6, <1>7

LEMMA MismaFuncion ==
  ASSUME NEW S, NEW f, NEW g, f = [x \in S |-> f[x]], g = [x \in S |-> g[x]],
         \A x \in S : f[x] = g[x]
  PROVE  f = g
OBVIOUS

\* The values of its variables make the activation of a context.
LEMMA ActivacionEs ==
  ASSUME NEW c, Unicos(c), NEW mem, NEW f, NEW r,
         f = [id \in Ids(c) |-> f[id]], \A j \in DOMAIN c.vars : f[c.vars[j].id] = mem[c.vars[j].pos],
         r = [j \in DOMAIN c.args |-> r[j]], \A j \in DOMAIN c.args : r[j] = mem[c.args[j]]
  PROVE  Activacion(c, mem) = [vars |-> f, args |-> r, vuelve |-> c.retPos + 1]
<1>1. PICK g : g = ValoresDe(c, mem)
  OBVIOUS
<1>2. /\ g = [id \in Ids(c) |-> g[id]]
      /\ \A j \in DOMAIN c.vars : g[c.vars[j].id] = mem[c.vars[j].pos]
      /\ Activacion(c, mem) = [vars |-> g, args |-> [j \in DOMAIN c.args |-> mem[c.args[j]]],
                               vuelve |-> c.retPos + 1]
  BY <1>1, VarsSon
<1>3. \A id \in Ids(c) : g[id] = f[id]
  <2>1. \A j \in DOMAIN c.vars : g[c.vars[j].id] = f[c.vars[j].id]
    BY <1>2
  <2> QED BY ONLY <2>1 DEF Ids
<1>4. g = f
  BY ONLY <1>2, <1>3, f = [id \in Ids(c) |-> f[id]], MismaFuncion
<1>5. r = [j \in DOMAIN c.args |-> mem[c.args[j]]]
  <2>1. PICK s : s = [j \in DOMAIN c.args |-> mem[c.args[j]]]
    OBVIOUS
  <2>2. s = [j \in DOMAIN c.args |-> s[j]] /\ \A j \in DOMAIN c.args : r[j] = s[j]
    BY <2>1
  <2>3. r = s
    BY ONLY <2>2, r = [j \in DOMAIN c.args |-> r[j]], MismaFuncion
  <2> QED BY <2>1, <2>3
<1> QED BY <1>2, <1>4, <1>5

\* The name y is at the position d.
NombreEn(c, y, d) ==
  IF EsArgumento(y) THEN y[2] + 1 \in DOMAIN c.args /\ c.args[y[2] + 1] = d
  ELSE \E j \in DOMAIN c.vars : c.vars[j].id = y /\ c.vars[j].pos = d

\* What a context has declared: each at its place.
Sitios(c) == {c.args[j] : j \in DOMAIN c.args} \cup {c.vars[j].pos : j \in DOMAIN c.vars}

Repartido(c) ==
  /\ \A j, k \in DOMAIN c.args : c.args[j] = c.args[k] => j = k
  /\ \A j, k \in DOMAIN c.vars : c.vars[j].pos = c.vars[k].pos => j = k
  /\ \A j \in DOMAIN c.args, k \in DOMAIN c.vars : c.args[j] # c.vars[k].pos

\* What happens to memory elsewhere does not matter.
LEMMA ActivacionIgual ==
  ASSUME NEW c, Unicos(c), NEW mem, NEW mem2, \A d \in Sitios(c) : mem2[d] = mem[d]
  PROVE  Activacion(c, mem2) = Activacion(c, mem)
<1>1. PICK f, r : f = ValoresDe(c, mem) /\ r = [j \in DOMAIN c.args |-> mem[c.args[j]]]
  OBVIOUS
<1>2. /\ f = [id \in Ids(c) |-> f[id]]
      /\ \A j \in DOMAIN c.vars : f[c.vars[j].id] = mem[c.vars[j].pos]
      /\ Activacion(c, mem) = [vars |-> f, args |-> r, vuelve |-> c.retPos + 1]
  BY <1>1, VarsSon
<1>3. /\ \A j \in DOMAIN c.vars : mem2[c.vars[j].pos] = mem[c.vars[j].pos]
      /\ \A j \in DOMAIN c.args : mem2[c.args[j]] = mem[c.args[j]]
  BY DEF Sitios
<1>4. \A j \in DOMAIN c.vars : f[c.vars[j].id] = mem2[c.vars[j].pos]
  BY <1>2, <1>3
<1>5. r = [j \in DOMAIN c.args |-> r[j]] /\ \A j \in DOMAIN c.args : r[j] = mem2[c.args[j]]
  BY <1>1, <1>3
<1>6. Activacion(c, mem2) = [vars |-> f, args |-> r, vuelve |-> c.retPos + 1]
  <2>1. f = [id \in Ids(c) |-> f[id]]
    BY <1>2
  <2>2. r = [j \in DOMAIN c.args |-> r[j]]
    BY <1>5
  <2>3. \A j \in DOMAIN c.args : r[j] = mem2[c.args[j]]
    BY <1>5
  <2> QED BY ONLY Unicos(c), <2>1, <2>2, <2>3, <1>4, ActivacionEs
<1> QED BY <1>2, <1>6

\* A name is looked up where the CPU finds it.
LEMMA Buscada ==
  ASSUME NEW c, Unicos(c), NEW mem, NEW y \in Nombres, NEW d, NombreEn(c, y, d)
  PROVE  Meaning!Lookup(Activacion(c, mem), y) = mem[d]
<1>1. PICK f, r, a : /\ f = ValoresDe(c, mem) /\ r = [j \in DOMAIN c.args |-> mem[c.args[j]]]
                     /\ a = Activacion(c, mem)
  OBVIOUS
<1>2. /\ \A j \in DOMAIN c.vars : f[c.vars[j].id] = mem[c.vars[j].pos]
      /\ a.vars = f /\ a.args = r
  <2>1. /\ \A j \in DOMAIN c.vars : ValoresDe(c, mem)[c.vars[j].id] = mem[c.vars[j].pos]
        /\ Activacion(c, mem) = [vars |-> f, args |-> r, vuelve |-> c.retPos + 1]
    BY <1>1, VarsSon
  <2> QED BY <1>1, <2>1
<1>3. CASE EsArgumento(y)
  <2>1. y[1] = "arg" /\ y[2] + 1 \in DOMAIN c.args /\ c.args[y[2] + 1] = d
    BY <1>3 DEF NombreEn, EsArgumento
  <2>2. a.args[y[2] + 1] = mem[d]
    BY <1>1, <1>2, <2>1
  <2>3. Meaning!Lookup(a, y) = a.args[y[2] + 1]
    BY <2>1 DEF Meaning!Lookup
  <2> QED BY <1>1, <2>2, <2>3
<1>4. CASE ~EsArgumento(y)
  <2>1. y[1] = "var"
    BY <1>4 DEF EsArgumento, Nombres, Letras
  <2>2. PICK j \in DOMAIN c.vars : c.vars[j].id = y /\ c.vars[j].pos = d
    BY <1>4 DEF NombreEn
  <2>3. a.vars[y] = mem[d]
    BY <1>2, <2>2
  <2>4. Meaning!Lookup(a, y) = a.vars[y]
    BY <2>1 DEF Meaning!Lookup
  <2> QED BY <1>1, <2>3, <2>4
<1> QED BY <1>3, <1>4

LEMMA Asignan ==
  ASSUME NEW a, NEW f, NEW r, NEW w, NEW y, NEW v, a = [vars |-> f, args |-> r, vuelve |-> w]
  PROVE  Meaning!Assign(a, y, v) =
           IF EsArgumento(y) THEN [vars |-> f, args |-> [r EXCEPT ![y[2] + 1] = v], vuelve |-> w]
                             ELSE [vars |-> [f EXCEPT ![y] = v], args |-> r, vuelve |-> w]
<1>1. Meaning!Assign(a, y, v) = IF EsArgumento(y) THEN [a EXCEPT !.args[y[2] + 1] = v]
                                                  ELSE [a EXCEPT !.vars[y] = v]
  BY Zenon DEF Meaning!Assign, Meaning!EsArgumento, EsArgumento
<1>2. [a EXCEPT !.args[y[2] + 1] = v] = [vars |-> f, args |-> [r EXCEPT ![y[2] + 1] = v], vuelve |-> w]
  BY ONLY a = [vars |-> f, args |-> r, vuelve |-> w]
<1>3. [a EXCEPT !.vars[y] = v] = [vars |-> [f EXCEPT ![y] = v], args |-> r, vuelve |-> w]
  BY ONLY a = [vars |-> f, args |-> r, vuelve |-> w]
<1> QED BY <1>1, <1>2, <1>3

\* ... and assigned there, and nothing else is.
LEMMA Puesta ==
  ASSUME NEW c, Unicos(c), Repartido(c), NEW mem, NEW mem2, NEW y, NEW d,
         NombreEn(c, y, d), NEW v, mem2[d] = v, \A x \in Sitios(c) : x # d => mem2[x] = mem[x]
  PROVE  Activacion(c, mem2) = Meaning!Assign(Activacion(c, mem), y, v)
<1>1. PICK f, r : f = ValoresDe(c, mem) /\ r = [j \in DOMAIN c.args |-> mem[c.args[j]]]
  OBVIOUS
<1>2. /\ f = [id \in Ids(c) |-> f[id]]
      /\ \A j \in DOMAIN c.vars : f[c.vars[j].id] = mem[c.vars[j].pos]
      /\ Activacion(c, mem) = [vars |-> f, args |-> r, vuelve |-> c.retPos + 1]
  BY <1>1, VarsSon
<1>3. r = [j \in DOMAIN c.args |-> r[j]] /\ \A j \in DOMAIN c.args : r[j] = mem[c.args[j]]
  BY <1>1
<1>4. /\ \A j \in DOMAIN c.args : c.args[j] # d => mem2[c.args[j]] = mem[c.args[j]]
      /\ \A j \in DOMAIN c.vars : c.vars[j].pos # d => mem2[c.vars[j].pos] = mem[c.vars[j].pos]
  BY DEF Sitios
<1>5. CASE EsArgumento(y)
  <2>1. PICK n : n = y[2] + 1
    OBVIOUS
  <2>2. n \in DOMAIN c.args /\ c.args[n] = d
    BY <1>5, <2>1 DEF NombreEn
  <2>3. PICK s : s = [r EXCEPT ![n] = v]
    OBVIOUS
  <2>4. /\ s = [j \in DOMAIN c.args |-> s[j]]
        /\ \A j \in DOMAIN c.args : s[j] = IF j = n THEN v ELSE r[j]
    BY ONLY <1>3, <2>2, <2>3
  <2>5. \A j \in DOMAIN c.args : s[j] = mem2[c.args[j]]
    <3> TAKE j \in DOMAIN c.args
    <3>1. CASE j = n
      BY <2>2, <2>4, <3>1
    <3>2. CASE j # n
      <4>1. c.args[j] # d
        BY <2>2, <3>2 DEF Repartido
      <4> QED BY <1>3, <1>4, <2>4, <3>2, <4>1
    <3> QED BY <3>1, <3>2
  <2>6. \A j \in DOMAIN c.vars : f[c.vars[j].id] = mem2[c.vars[j].pos]
    <3>1. \A j \in DOMAIN c.vars : c.vars[j].pos # d
      BY <2>2 DEF Repartido
    <3> QED BY <1>2, <1>4, <3>1
  <2>7. Activacion(c, mem2) = [vars |-> f, args |-> s, vuelve |-> c.retPos + 1]
    BY ONLY Unicos(c), <1>2, <2>4, <2>5, <2>6, ActivacionEs
  <2>8. Meaning!Assign(Activacion(c, mem), y, v)
          = [vars |-> f, args |-> s, vuelve |-> c.retPos + 1]
    <3>1. Meaning!Assign(Activacion(c, mem), y, v)
            = [vars |-> f, args |-> [r EXCEPT ![y[2] + 1] = v], vuelve |-> c.retPos + 1]
      BY ONLY <1>2, <1>5, Asignan
    <3> QED BY <2>1, <2>3, <3>1
  <2> QED BY <2>7, <2>8
<1>6. CASE ~EsArgumento(y)
  <2>1. PICK n \in DOMAIN c.vars : c.vars[n].id = y /\ c.vars[n].pos = d
    BY <1>6 DEF NombreEn
  <2>2. PICK g : g = [f EXCEPT ![y] = v]
    OBVIOUS
  <2>3. /\ g = [id \in Ids(c) |-> g[id]]
        /\ \A id \in Ids(c) : g[id] = IF id = y THEN v ELSE f[id]
    BY ONLY <1>2, <2>2
  <2>4. \A j \in DOMAIN c.vars : g[c.vars[j].id] = mem2[c.vars[j].pos]
    <3> TAKE j \in DOMAIN c.vars
    <3>0. c.vars[j].id \in Ids(c)
      BY DEF Ids
    <3>1. CASE j = n
      BY <2>1, <2>3, <3>0, <3>1
    <3>2. CASE j # n
      <4>1. c.vars[j].id # y /\ c.vars[j].pos # d
        BY <2>1, <3>2 DEF Repartido, Unicos
      <4> QED BY <1>2, <1>4, <2>3, <3>0, <4>1
    <3> QED BY <3>1, <3>2
  <2>5. \A j \in DOMAIN c.args : r[j] = mem2[c.args[j]]
    <3>1. \A j \in DOMAIN c.args : c.args[j] # d
      BY <2>1 DEF Repartido
    <3> QED BY <1>3, <1>4, <3>1
  <2>6. Activacion(c, mem2) = [vars |-> g, args |-> r, vuelve |-> c.retPos + 1]
    BY ONLY Unicos(c), <1>3, <2>3, <2>4, <2>5, ActivacionEs
  <2>7. Meaning!Assign(Activacion(c, mem), y, v)
          = [vars |-> g, args |-> r, vuelve |-> c.retPos + 1]
    <3>1. Meaning!Assign(Activacion(c, mem), y, v)
            = [vars |-> [f EXCEPT ![y] = v], args |-> r, vuelve |-> c.retPos + 1]
      BY ONLY <1>2, <1>6, Asignan
    <3> QED BY <2>2, <3>1
  <2> QED BY <2>6, <2>7
<1> QED BY <1>5, <1>6

\* A context that declares nothing.
LEMMA ActivacionVacia ==
  ASSUME NEW c, c.args = <<>>, c.vars = <<>>, NEW mem
  PROVE  /\ Activacion(c, mem) = [vars |-> <<>>, args |-> <<>>, vuelve |-> c.retPos + 1]
         /\ Unicos(c)
<1>1. PICK e : e = <<>>
  OBVIOUS
<1>2. DOMAIN e = {} /\ e = [x \in {} |-> e[x]]
  BY <1>1
<1>3. Unicos(c)
  BY <1>1, <1>2 DEF Unicos
<1>4. Ids(c) = {}
  BY <1>1, <1>2 DEF Ids
<1>5. Activacion(c, mem) = [vars |-> e, args |-> e, vuelve |-> c.retPos + 1]
  BY <1>1, <1>2, <1>3, <1>4, ActivacionEs
<1> QED BY <1>1, <1>3, <1>5

----------------------------------------------------------------------------
(* One declaration more, and the stack as a whole.                         *)

LEMMA ContextoTipos ==
  ASSUME NEW c \in Contextos
  PROVE  /\ Len(c.args) \in Nat /\ DOMAIN c.args = 1..Len(c.args)
         /\ Len(c.vars) \in Nat /\ DOMAIN c.vars = 1..Len(c.vars)
         /\ c.args \in Seq(Nat) /\ c.vars \in Seq([id : Nombres, pos : Nat])
         /\ c = [args |-> c.args, vars |-> c.vars, retPos |-> c.retPos, retVar |-> c.retVar]
         /\ c.retPos \in Int /\ c.retVar \in Nat
<1>1. /\ c.args \in Seq(Nat) /\ c.vars \in Seq([id : Nombres, pos : Nat]) /\ c.retPos \in Int
      /\ c = [args |-> c.args, vars |-> c.vars, retPos |-> c.retPos, retVar |-> c.retVar]
      /\ c.retVar \in Nat
  BY DEF Contextos
<1> QED BY <1>1, LenProperties

EsDe1A(n, s) == s = [k \in 1..n |-> s[k]]

\* Sequences that change at their end.
LEMMA UnoMas ==
  ASSUME NEW n \in Nat, NEW s, EsDe1A(n, s), NEW a
  PROVE  Append(s, a) = [k \in 1..(n + 1) |-> IF k = n + 1 THEN a ELSE s[k]]
<1> DEFINE S == {s[k] : k \in 1..n} \cup {a}
<1>1. s \in Seq(S) /\ a \in S /\ Len(s) = n
  <2>1. \A k \in 1..n : s[k] \in S
    OBVIOUS
  <2> HIDE DEF S
  <2>2. [k \in 1..n |-> s[k]] \in Seq(S)
    BY <2>1, IsASeq
  <2>3. s \in Seq(S) /\ DOMAIN s = 1..n
    BY ONLY <2>2, EsDe1A(n, s) DEF EsDe1A
  <2>4. Len(s) = n
    BY <2>3, LenProperties
  <2> QED BY <2>3, <2>4 DEF S
<1> HIDE DEF S
<1>2. Append(s, a) = [k \in 1..(n + 1) |-> IF k = n + 1 THEN a ELSE s[k]]
  <2>1. PICK t : t = Append(s, a)
    OBVIOUS
  <2>2. /\ t \in Seq(S) /\ Len(t) = n + 1 /\ t[n + 1] = a
        /\ \A k \in 1..n : t[k] = s[k]
    <3>1. /\ t \in Seq(S) /\ Len(t) = Len(s) + 1 /\ t[Len(s) + 1] = a
          /\ \A k \in 1..Len(s) : t[k] = s[k]
      BY ONLY <1>1, <2>1, AppendProperties
    <3> QED BY ONLY <1>1, <3>1
  <2>3. \A k \in 1..(n + 1) : k = n + 1 \/ k \in 1..n
    OBVIOUS
  <2>4. t = [k \in 1..(n + 1) |-> t[k]]
    BY ONLY <2>2
  <2>5. \A k \in 1..(n + 1) : t[k] = IF k = n + 1 THEN a ELSE s[k]
    BY ONLY <2>2, <2>3
  <2> QED BY ONLY <2>1, <2>4, <2>5
<1> QED BY <1>2

\* The first n, the last of them another.
Ultimo(n, s, a) == [k \in 1..n |-> IF k = n THEN a ELSE s[k]]

LEMMA AlFinal ==
  ASSUME NEW n \in Nat, NEW s, EsDe1A(n, s), NEW a
  PROVE  /\ Len(s) = n
         /\ n > 0 => Last(s) = s[n] /\ Front(s) \o <<a>> = Ultimo(n, s, a)
         /\ n > 1 => SubSeq(s, 1, n - 2) \o <<a>> = Ultimo(n - 1, s, a)
<1> DEFINE S == {s[k] : k \in 1..n} \cup {a}
<1>1. s \in Seq(S) /\ a \in S /\ Len(s) = n
  <2>1. \A k \in 1..n : s[k] \in S
    OBVIOUS
  <2> HIDE DEF S
  <2>2. [k \in 1..n |-> s[k]] \in Seq(S)
    BY <2>1, IsASeq
  <2>3. s \in Seq(S) /\ DOMAIN s = 1..n
    BY ONLY <2>2, EsDe1A(n, s) DEF EsDe1A
  <2>4. Len(s) = n
    BY <2>3, LenProperties
  <2> QED BY <2>3, <2>4 DEF S
<1> HIDE DEF S
<1>2. ASSUME NEW m \in 0..n
      PROVE  SubSeq(s, 1, m) \o <<a>> = [k \in 1..(m + 1) |-> IF k = m + 1 THEN a ELSE s[k]]
  <2>1. PICK t : t = SubSeq(s, 1, m)
    OBVIOUS
  <2>2. t \in Seq(S) /\ Len(t) = m /\ \A k \in 1..m : t[k] = s[k]
    <3>1. \A k \in 1..m : s[k] \in S
      BY <1>1, ElementOfSeq
    <3>2. /\ t \in Seq(S) /\ Len(t) = IF 1 <= m THEN m - 1 + 1 ELSE 0
          /\ \A k \in 1..(m - 1 + 1) : t[k] = s[1 + k - 1]
      BY <2>1, <3>1, SubSeqProperties
    <3>3. m - 1 + 1 = m /\ \A k \in 1..m : 1 + k - 1 = k
      OBVIOUS
    <3>4. 1 <= m \/ m = 0
      OBVIOUS
    <3> QED BY <3>2, <3>3, <3>4
  <2>3. <<a>> \in Seq(S) /\ Len(<<a>>) = 1
    BY <1>1
  <2>4. /\ t \o <<a>> \in Seq(S) /\ Len(t \o <<a>>) = m + 1
        /\ \A k \in 1..(m + 1) : (t \o <<a>>)[k] = IF k = m + 1 THEN a ELSE s[k]
    <3>1. PICK u : u = <<a>>
      OBVIOUS
    <3>2. u \in Seq(S) /\ Len(u) = 1 /\ u[1] = a
      BY <2>3, <3>1
    <3>3. t \o u \in Seq(S) /\ Len(t \o u) = m + 1
      <4>1. t \o u \in Seq(S) /\ Len(t \o u) = Len(t) + Len(u)
        BY ONLY <2>2, <3>2, ConcatProperties
      <4> QED BY ONLY <2>2, <3>2, <4>1
    <3>4. \A k \in 1..(m + 1) : (t \o u)[k] = IF k <= m THEN t[k] ELSE u[k - m]
      BY <2>2, <3>2, ConcatProperties
    <3>5. \A k \in 1..(m + 1) : k <= m <=> k # m + 1
      OBVIOUS
    <3>6. (m + 1) - m = 1 /\ \A k \in 1..(m + 1) : k <= m => k \in 1..m
      OBVIOUS
    <3>7. \A k \in 1..(m + 1) : (t \o u)[k] = IF k = m + 1 THEN a ELSE s[k]
      <4> SUFFICES ASSUME NEW k \in 1..(m + 1) PROVE (t \o u)[k] = IF k = m + 1 THEN a ELSE s[k]
        OBVIOUS
      <4>1. (t \o u)[k] = IF k <= m THEN t[k] ELSE u[k - m]
        BY ONLY <3>4, k \in 1..(m + 1)
      <4>2. CASE k = m + 1
        BY ONLY <4>1, <4>2, <3>2, <3>5, <3>6, k \in 1..(m + 1)
      <4>3. CASE k # m + 1
        <5>1. k <= m /\ k \in 1..m
          BY <4>3, <3>5, <3>6
        <5> QED BY ONLY <4>1, <4>3, <5>1, <2>2
      <4> QED BY <4>2, <4>3
    <3> QED BY <3>1, <3>3, <3>7
  <2>5. t \o <<a>> = [k \in 1..(m + 1) |-> (t \o <<a>>)[k]]
    BY <2>4
  <2> QED BY <2>1, <2>4, <2>5
<1>4. n > 0 => /\ Last(s) = s[n]
               /\ Front(s) \o <<a>> = [k \in 1..n |-> IF k = n THEN a ELSE s[k]]
  <2>1. n > 0 => n - 1 \in 0..n
    OBVIOUS
  <2>2. Front(s) = SubSeq(s, 1, n - 1) /\ Last(s) = s[n]
    BY <1>1 DEF Front, Last
  <2>3. n > 0 => Front(s) \o <<a>> = [k \in 1..((n - 1) + 1) |-> IF k = (n - 1) + 1 THEN a ELSE s[k]]
    BY <1>2, <2>1, <2>2
  <2>4. (n - 1) + 1 = n
    OBVIOUS
  <2> QED BY <2>2, <2>3, <2>4
<1>5. n > 1 => SubSeq(s, 1, n - 2) \o <<a>>
                 = [k \in 1..(n - 1) |-> IF k = n - 1 THEN a ELSE s[k]]
  <2>1. n > 1 => n - 2 \in 0..n
    OBVIOUS
  <2>2. n > 1 => SubSeq(s, 1, n - 2) \o <<a>>
                   = [k \in 1..((n - 2) + 1) |-> IF k = (n - 2) + 1 THEN a ELSE s[k]]
    BY <1>2, <2>1
  <2>3. (n - 2) + 1 = n - 1
    OBVIOUS
  <2> QED BY <2>2, <2>3
<1> QED BY <1>1, <1>4, <1>5 DEF Ultimo

\* pasar: one argument more.
LEMMA UnArgumentoMas ==
  ASSUME NEW c \in Contextos, Unicos(c), NEW mem, NEW mem2, \A d \in Sitios(c) : mem2[d] = mem[d],
         NEW id, EsArgumento(id), NEW pos
  PROVE  /\ Activacion(Ampliado(c, id, pos), mem2)
              = [Activacion(c, mem) EXCEPT !.args = Append(@, mem2[pos])]
         /\ Unicos(Ampliado(c, id, pos))
<1>1. PICK f, r, b, n :
        /\ f = ValoresDe(c, mem2) /\ r = [j \in DOMAIN c.args |-> mem2[c.args[j]]]
        /\ b = Ampliado(c, id, pos) /\ n = Len(c.args)
  OBVIOUS
<1>2. /\ f = [x \in Ids(c) |-> f[x]]
      /\ \A j \in DOMAIN c.vars : f[c.vars[j].id] = mem2[c.vars[j].pos]
      /\ Activacion(c, mem2) = [vars |-> f, args |-> r, vuelve |-> c.retPos + 1]
  BY <1>1, VarsSon
<1>3. n \in Nat /\ DOMAIN c.args = 1..n /\ EsDe1A(n, c.args)
  <2>1. Len(c.args) \in Nat /\ DOMAIN c.args = 1..Len(c.args)
    BY ContextoTipos
  <2>2. c.args \in Seq(Nat)
    BY ContextoTipos
  <2>3. EsDe1A(Len(c.args), c.args)
    BY ONLY <2>2, <2>1 DEF EsDe1A
  <2> QED BY ONLY <1>1, <2>1, <2>3
<1>4. b.vars = c.vars /\ b.retPos = c.retPos /\ b.args = Append(c.args, pos)
  <2>1. b = [c EXCEPT !.args = Append(c.args, pos)]
    BY <1>1 DEF Ampliado
  <2> QED BY <2>1, ContextoTipos
<1>5. DOMAIN b.args = 1..(n + 1) /\ \A j \in 1..(n + 1) : b.args[j] = IF j = n + 1 THEN pos ELSE c.args[j]
  <2>1. Append(c.args, pos) = [j \in 1..(n + 1) |-> IF j = n + 1 THEN pos ELSE c.args[j]]
    BY <1>3, UnoMas
  <2> QED BY <1>4, <2>1
<1>6. PICK s : s = Append(r, mem2[pos])
  OBVIOUS
<1>7. s = [j \in 1..(n + 1) |-> IF j = n + 1 THEN mem2[pos] ELSE r[j]]
  <2>1. EsDe1A(n, r)
    BY <1>1, <1>3 DEF EsDe1A
  <2>2. n \in Nat
    BY <1>3
  <2>3. PICK w : w = mem2[pos]
    OBVIOUS
  <2>4. Append(r, w) = [j \in 1..(n + 1) |-> IF j = n + 1 THEN w ELSE r[j]]
    BY ONLY <2>1, <2>2, UnoMas
  <2> QED BY ONLY <1>6, <2>3, <2>4
<1>8. s = [j \in DOMAIN b.args |-> s[j]] /\ \A j \in DOMAIN b.args : s[j] = mem2[b.args[j]]
  <2>1. \A j \in 1..(n + 1) : j # n + 1 => r[j] = mem2[c.args[j]]
    BY <1>1, <1>3
  <2> QED BY ONLY <1>5, <1>7, <2>1
<1>9. Unicos(b)
  BY <1>4 DEF Unicos
<1>10. Activacion(b, mem2) = [vars |-> f, args |-> s, vuelve |-> b.retPos + 1]
  <2>1. Ids(b) = Ids(c)
    BY <1>4 DEF Ids
  <2>2. f = [x \in Ids(b) |-> f[x]] /\ \A j \in DOMAIN b.vars : f[b.vars[j].id] = mem2[b.vars[j].pos]
    BY <1>2, <1>4, <2>1
  <2> QED BY ONLY <1>8, <1>9, <2>2, ActivacionEs
<1>11. Activacion(c, mem2) = Activacion(c, mem)
  BY ActivacionIgual
<1>12. PICK a : a = Activacion(c, mem)
  OBVIOUS
<1>13. a = [vars |-> f, args |-> r, vuelve |-> c.retPos + 1]
  BY <1>2, <1>11, <1>12
<1>14. [a EXCEPT !.args = Append(@, mem2[pos])] = [vars |-> f, args |-> s, vuelve |-> c.retPos + 1]
  <2>1. a.args = r
    BY <1>13
  <2>2. [a EXCEPT !.args = s] = [vars |-> f, args |-> s, vuelve |-> c.retPos + 1]
    BY ONLY <1>13
  <2> QED BY <1>6, <2>1, <2>2
<1> QED BY <1>1, <1>4, <1>9, <1>10, <1>12, <1>14

\* definirVariable: one variable more.
ConNombre(a, id, v) ==
  [a EXCEPT !.vars = [x \in DOMAIN @ \cup {id} |-> IF x = id THEN v ELSE @[x]]]

LEMMA UnaVariableMas ==
  ASSUME NEW c \in Contextos, Unicos(c), NEW mem, NEW id, ~EsArgumento(id), id \notin Ids(c), NEW pos
  PROVE  /\ Activacion(Ampliado(c, id, pos), mem) = ConNombre(Activacion(c, mem), id, mem[pos])
         /\ Unicos(Ampliado(c, id, pos))
<1>1. PICK f, r, b, v, n :
        /\ f = ValoresDe(c, mem) /\ r = [j \in DOMAIN c.args |-> mem[c.args[j]]]
        /\ b = Ampliado(c, id, pos) /\ v = [id |-> id, pos |-> pos] /\ n = Len(c.vars)
  OBVIOUS
<1>2. /\ f = [x \in Ids(c) |-> f[x]]
      /\ \A j \in DOMAIN c.vars : f[c.vars[j].id] = mem[c.vars[j].pos]
      /\ Activacion(c, mem) = [vars |-> f, args |-> r, vuelve |-> c.retPos + 1]
  BY <1>1, VarsSon
<1>3. n \in Nat /\ DOMAIN c.vars = 1..n /\ EsDe1A(n, c.vars)
  <2>1. Len(c.vars) \in Nat /\ DOMAIN c.vars = 1..Len(c.vars)
    BY ContextoTipos
  <2>2. c.vars \in Seq([id : Nombres, pos : Nat])
    BY ContextoTipos
  <2>3. EsDe1A(Len(c.vars), c.vars)
    BY ONLY <2>2, <2>1 DEF EsDe1A
  <2> QED BY ONLY <1>1, <2>1, <2>3
<1>4. b.args = c.args /\ b.retPos = c.retPos /\ b.vars = Append(c.vars, v)
  <2>1. b = [c EXCEPT !.vars = Append(c.vars, v)]
    BY <1>1 DEF Ampliado
  <2> QED BY <2>1, ContextoTipos
<1>5. DOMAIN b.vars = 1..(n + 1) /\ \A j \in 1..(n + 1) : b.vars[j] = IF j = n + 1 THEN v ELSE c.vars[j]
  <2>1. Append(c.vars, v) = [j \in 1..(n + 1) |-> IF j = n + 1 THEN v ELSE c.vars[j]]
    BY <1>3, UnoMas
  <2> QED BY <1>4, <2>1
<1>6. v.id = id /\ v.pos = pos
  BY <1>1
<1>7. \A j \in 1..n : c.vars[j].id # id /\ c.vars[j].id \in Ids(c) /\ j # n + 1
  BY <1>3 DEF Ids
<1>8. Unicos(b)
  <2> SUFFICES ASSUME NEW j \in 1..(n + 1), NEW k \in 1..(n + 1), b.vars[j].id = b.vars[k].id
               PROVE  j = k
    BY <1>5 DEF Unicos
  <2>1. CASE j \in 1..n /\ k \in 1..n
    <3>1. c.vars[j].id = c.vars[k].id
      BY <1>3, <1>5, <1>7, <2>1
    <3> QED BY <1>3, <2>1, <3>1 DEF Unicos
  <2>2. CASE j \in 1..n /\ k = n + 1
    BY <1>3, <1>5, <1>6, <1>7, <2>2
  <2>3. CASE j = n + 1 /\ k \in 1..n
    BY <1>3, <1>5, <1>6, <1>7, <2>3
  <2>4. (j \in 1..n \/ j = n + 1) /\ (k \in 1..n \/ k = n + 1)
    BY ONLY <1>3, j \in 1..(n + 1), k \in 1..(n + 1)
  <2> QED BY <2>1, <2>2, <2>3, <2>4
<1>9. Ids(b) = Ids(c) \cup {id}
  <2>1. \A x : x \in Ids(b) <=> \E j \in 1..(n + 1) : x = b.vars[j].id
    BY <1>5 DEF Ids
  <2>2. \A x : x \in Ids(c) <=> \E j \in 1..n : x = c.vars[j].id
    BY <1>3 DEF Ids
  <2>3. \A j \in 1..n : j \in 1..(n + 1) /\ b.vars[j] = c.vars[j]
    BY <1>3, <1>5, <1>7
  <2>4. n + 1 \in 1..(n + 1) /\ b.vars[n + 1] = v /\ \A j \in 1..(n + 1) : j \in 1..n \/ j = n + 1
    BY <1>3, <1>5
  <2>5. \A x : x \in Ids(b) <=> x \in Ids(c) \/ x = id
    BY ONLY <1>6, <2>1, <2>2, <2>3, <2>4
  <2> QED BY <2>5
<1>10. PICK g : g = [x \in DOMAIN f \cup {id} |-> IF x = id THEN mem[pos] ELSE f[x]]
  OBVIOUS
<1>11. g = [x \in Ids(b) |-> g[x]] /\ \A x \in Ids(b) : g[x] = IF x = id THEN mem[pos] ELSE f[x]
  <2>1. DOMAIN f = Ids(c)
    BY <1>2
  <2> QED BY <1>9, <1>10, <2>1
<1>12. \A j \in DOMAIN b.vars : g[b.vars[j].id] = mem[b.vars[j].pos]
  <2>1. ASSUME NEW j \in 1..n PROVE g[b.vars[j].id] = mem[b.vars[j].pos]
    <3>1. b.vars[j] = c.vars[j] /\ c.vars[j].id # id /\ c.vars[j].id \in Ids(b)
      BY <1>3, <1>5, <1>7, <1>9
    <3>2. g[c.vars[j].id] = f[c.vars[j].id]
      BY <1>11, <3>1
    <3>3. f[c.vars[j].id] = mem[c.vars[j].pos]
      BY <1>2, <1>3
    <3> QED BY ONLY <3>1, <3>2, <3>3
  <2>2. g[b.vars[n + 1].id] = mem[b.vars[n + 1].pos]
    <3>1. b.vars[n + 1] = v /\ id \in Ids(b)
      BY <1>3, <1>5, <1>9
    <3>2. g[id] = mem[pos]
      BY <1>11, <3>1
    <3> QED BY ONLY <1>6, <3>1, <3>2
  <2> QED BY <1>3, <1>5, <2>1, <2>2
<1>13. Activacion(b, mem) = [vars |-> g, args |-> r, vuelve |-> b.retPos + 1]
  <2>1. r = [j \in DOMAIN b.args |-> r[j]] /\ \A j \in DOMAIN b.args : r[j] = mem[b.args[j]]
    BY <1>1, <1>4
  <2> QED BY ONLY <1>8, <1>11, <1>12, <2>1, ActivacionEs
<1>14. PICK a : a = Activacion(c, mem)
  OBVIOUS
<1>15. [a EXCEPT !.vars = [x \in DOMAIN @ \cup {id} |-> IF x = id THEN mem[pos] ELSE @[x]]]
         = [vars |-> g, args |-> r, vuelve |-> c.retPos + 1]
  <2>1. a = [vars |-> f, args |-> r, vuelve |-> c.retPos + 1] /\ a.vars = f
    BY <1>2, <1>14
  <2>2. [a EXCEPT !.vars = g] = [vars |-> g, args |-> r, vuelve |-> c.retPos + 1]
    BY ONLY <2>1
  <2> QED BY <1>10, <2>1, <2>2
<1>16. ConNombre(a, id, mem[pos]) = [vars |-> g, args |-> r, vuelve |-> c.retPos + 1]
  BY <1>15 DEF ConNombre
<1> QED BY <1>1, <1>4, <1>8, <1>13, <1>14, <1>16

\* The contexts of a stack have their places apart, and in the stack.
LEMMA Sueltos ==
  ASSUME NEW pila \in Pilas, NEW sp \in 0..Limite, EnCapas(pila, sp)
  PROVE  \A k \in 1..Len(pila) :
           /\ Repartido(pila[k])
           /\ \A d \in Sitios(pila[k]) : d \in Posiciones /\ d + TamanioVariable <= sp
           /\ \A l \in 1..Len(pila) : l # k => \A d \in Sitios(pila[k]) : d \notin Sitios(pila[l])
<1>1. /\ \A x \in De(pila) : Lugar(pila, x) \in Posiciones /\ Lugar(pila, x) + TamanioVariable <= sp
      /\ \A x, y \in De(pila) : Lugar(pila, x) = Lugar(pila, y) => x = y
  <2>1. ASSUME NEW x \in De(pila)
        PROVE  Lugar(pila, x) \in Posiciones /\ Lugar(pila, x) + TamanioVariable <= sp
    <3>1. /\ Lugar(pila, x) \in Nat /\ Lugar(pila, x) + TamanioVariable <= sp
          /\ Lugar(pila, x) % TamanioVariable = 0
      BY CapasApartan, DeTipos DEF EnCapas
    <3>2. Limite \in Nat
      BY SizesAssumption DEF Limite
    <3>3. Lugar(pila, x) \in 0..(Limite - TamanioVariable)
      BY <3>1, <3>2 DEF TamanioVariable
    <3> QED BY <3>1, <3>3 DEF Posiciones, Limite
  <2> QED BY <2>1 DEF EnCapas
<1>2. ASSUME NEW k \in 1..Len(pila), NEW j \in DOMAIN pila[k].args
      PROVE  <<k, "arg", j>> \in De(pila) /\ Lugar(pila, <<k, "arg", j>>) = pila[k].args[j]
  <2>1. j \in 1..Len(pila[k].args)
    BY Largos
  <2> QED BY <2>1, DeMiembros DEF Lugar
<1>3. ASSUME NEW k \in 1..Len(pila), NEW j \in DOMAIN pila[k].vars
      PROVE  <<k, "var", j>> \in De(pila) /\ Lugar(pila, <<k, "var", j>>) = pila[k].vars[j].pos
  <2>1. j \in 1..Len(pila[k].vars)
    BY Largos
  <2> QED BY <2>1, DeMiembros DEF Lugar
<1>4. ASSUME NEW k \in 1..Len(pila) PROVE Repartido(pila[k])
  <2>1. ASSUME NEW j \in DOMAIN pila[k].args, NEW l \in DOMAIN pila[k].args,
               pila[k].args[j] = pila[k].args[l]
        PROVE  j = l
    <3>1. PICK x, y : x = <<k, "arg", j>> /\ y = <<k, "arg", l>>
      OBVIOUS
    <3>2. x \in De(pila) /\ Lugar(pila, x) = pila[k].args[j]
      BY <1>2, <3>1
    <3>3. y \in De(pila) /\ Lugar(pila, y) = pila[k].args[l]
      BY <1>2, <3>1
    <3>4. x = y
      BY <1>1, <2>1, <3>2, <3>3
    <3> QED BY ONLY <3>1, <3>4
  <2>2. ASSUME NEW j \in DOMAIN pila[k].vars, NEW l \in DOMAIN pila[k].vars,
               pila[k].vars[j].pos = pila[k].vars[l].pos
        PROVE  j = l
    <3>1. PICK x, y : x = <<k, "var", j>> /\ y = <<k, "var", l>>
      OBVIOUS
    <3>2. x \in De(pila) /\ Lugar(pila, x) = pila[k].vars[j].pos
      BY <1>3, <3>1
    <3>3. y \in De(pila) /\ Lugar(pila, y) = pila[k].vars[l].pos
      BY <1>3, <3>1
    <3>4. x = y
      BY <1>1, <2>2, <3>2, <3>3
    <3> QED BY ONLY <3>1, <3>4
  <2>3. ASSUME NEW j \in DOMAIN pila[k].args, NEW l \in DOMAIN pila[k].vars,
               pila[k].args[j] = pila[k].vars[l].pos
        PROVE  FALSE
    <3>1. PICK x, y : x = <<k, "arg", j>> /\ y = <<k, "var", l>>
      OBVIOUS
    <3>2. x \in De(pila) /\ Lugar(pila, x) = pila[k].args[j]
      BY <1>2, <3>1
    <3>3. y \in De(pila) /\ Lugar(pila, y) = pila[k].vars[l].pos
      BY <1>3, <3>1
    <3>4. x = y
      BY <1>1, <2>3, <3>2, <3>3
    <3> QED BY ONLY <3>1, <3>4
  <2> QED BY <2>1, <2>2, <2>3 DEF Repartido
<1>5. ASSUME NEW k \in 1..Len(pila), NEW d \in Sitios(pila[k])
      PROVE  \E x \in De(pila) : x[1] = k /\ Lugar(pila, x) = d
  <2>1. ASSUME NEW j \in DOMAIN pila[k].args, d = pila[k].args[j]
        PROVE  \E x \in De(pila) : x[1] = k /\ Lugar(pila, x) = d
    <3>1. PICK x : x = <<k, "arg", j>>
      OBVIOUS
    <3>2. x \in De(pila) /\ x[1] = k /\ Lugar(pila, x) = d
      BY <1>2, <2>1, <3>1
    <3> QED BY <3>2
  <2>2. ASSUME NEW j \in DOMAIN pila[k].vars, d = pila[k].vars[j].pos
        PROVE  \E x \in De(pila) : x[1] = k /\ Lugar(pila, x) = d
    <3>1. PICK x : x = <<k, "var", j>>
      OBVIOUS
    <3>2. x \in De(pila) /\ x[1] = k /\ Lugar(pila, x) = d
      BY <1>3, <2>2, <3>1
    <3> QED BY <3>2
  <2> QED BY <2>1, <2>2 DEF Sitios
<1>6. \A k \in 1..Len(pila) : \A d \in Sitios(pila[k]) : d \in Posiciones /\ d + TamanioVariable <= sp
  BY <1>1, <1>5
<1>7. ASSUME NEW k \in 1..Len(pila), NEW l \in 1..Len(pila), l # k, NEW d \in Sitios(pila[k])
      PROVE  d \notin Sitios(pila[l])
  <2> SUFFICES ASSUME d \in Sitios(pila[l]) PROVE FALSE
    OBVIOUS
  <2>1. PICK x \in De(pila) : x[1] = k /\ Lugar(pila, x) = d
    BY <1>5
  <2>2. PICK y \in De(pila) : y[1] = l /\ Lugar(pila, y) = d
    BY <1>5
  <2> QED BY <1>1, <1>7, <2>1, <2>2
<1> QED BY <1>4, <1>6, <1>7

Todos(pila) == \A k \in 1..Len(pila) : Unicos(pila[k])

\* Only the place d has another value.
Pone(mem, mem2, d, v) == mem2[d] = v /\ \A x \in Posiciones : x # d => mem2[x] = mem[x]

\* A value written at the place of a name is one assigned to it, and to it alone.
LEMMA Cambia ==
  ASSUME NEW c, Unicos(c), Repartido(c), Sitios(c) \subseteq Posiciones, NEW y, NEW d, NombreEn(c, y, d),
         NEW mem, NEW mem2, NEW v, Pone(mem, mem2, d, v)
  PROVE  Activacion(c, mem2) = Meaning!Assign(Activacion(c, mem), y, v)
<1>1. mem2[d] = v
  BY DEF Pone
<1>2. \A x \in Sitios(c) : x # d => mem2[x] = mem[x]
  BY DEF Pone
<1> QED BY <1>1, <1>2, Puesta

LEMMA NoCambia ==
  ASSUME NEW pila \in Pilas, NEW sp \in 0..Limite, EnCapas(pila, sp), Todos(pila),
         NEW n \in 1..Len(pila), NEW d \in Sitios(pila[n]),
         NEW mem, NEW mem2, NEW v, Pone(mem, mem2, d, v), NEW k \in 1..Len(pila), k # n
  PROVE  Activacion(pila[k], mem2) = Activacion(pila[k], mem)
<1>1. \A x \in Sitios(pila[k]) : x \in Posiciones
  BY Sueltos
<1>2. \A x \in Sitios(pila[k]) : x \notin Sitios(pila[n])
  BY Sueltos
<1>3. \A x \in Sitios(pila[k]) : mem2[x] = mem[x]
  BY <1>1, <1>2 DEF Pone
<1>4. Unicos(pila[k])
  BY DEF Todos
<1> QED BY <1>3, <1>4, ActivacionIgual

\* What asignar writes in the place of a variable.
LEMMA Escribe ==
  ASSUME memoria \in [Posiciones -> Int], NEW d \in Posiciones, NEW v, Envuelve(v) = v
  PROVE  Asignada(d, v)[d] = v /\ \A x \in Posiciones : x # d => Asignada(d, v)[x] = memoria[x]
<1>1. Asignada(d, v)[d] = v
  BY DEF Asignada
<1>2. ASSUME NEW x \in Posiciones, x # d
      PROVE  Asignada(d, v)[x] = memoria[x]
  <2>1. ~(x < d + TamanioVariable /\ d < x + TamanioVariable)
    <3>1. x \in Int /\ d \in Int /\ x % 4 = 0 /\ d % 4 = 0
      BY SizesAssumption DEF Posiciones, TamanioVariable
    <3> QED BY ONLY <3>1, x # d DEF TamanioVariable
  <2> QED BY <1>2, <2>1 DEF Asignada
<1> QED BY <1>1, <1>2

DeActivas(s) == UNION {{<<k, "arg", x>> : x \in DOMAIN s[k].args} \cup
                       {<<k, "var", x>> : x \in DOMAIN s[k].vars} : k \in DOMAIN s}

\* Each declaration of the stack is one of an activation, and the other way around.
LEMMA CuantasDeclaradas ==
  ASSUME NEW pila \in Pilas, IsFiniteSet(De(pila)), Todos(pila), NEW s, DOMAIN s = 1..Len(pila),
         \A k \in 1..Len(pila) : /\ DOMAIN s[k].args = DOMAIN pila[k].args
                                 /\ DOMAIN s[k].vars = Ids(pila[k])
  PROVE  Cardinality(DeActivas(s)) = Cardinality(De(pila))
<1>1. PICK T : T = DeActivas(s)
  OBVIOUS
<1>2. \A t : t \in T <=> \E k \in 1..Len(pila) :
                           \/ \E j \in DOMAIN pila[k].args : t = <<k, "arg", j>>
                           \/ \E x \in Ids(pila[k]) : t = <<k, "var", x>>
  BY <1>1 DEF DeActivas
<1> DEFINE e(x) == IF x[2] = "arg" THEN x ELSE <<x[1], "var", pila[x[1]].vars[x[3]].id>>
           f == [x \in De(pila) |-> e(x)]
<1>3. ASSUME NEW k \in 1..Len(pila), NEW j \in DOMAIN pila[k].args
      PROVE  <<k, "arg", j>> \in De(pila) /\ e(<<k, "arg", j>>) = <<k, "arg", j>>
  <2>1. j \in 1..Len(pila[k].args)
    BY Largos
  <2> QED BY <2>1, DeMiembros
<1>4. ASSUME NEW k \in 1..Len(pila), NEW j \in DOMAIN pila[k].vars
      PROVE  <<k, "var", j>> \in De(pila) /\ e(<<k, "var", j>>) = <<k, "var", pila[k].vars[j].id>>
  <2>1. j \in 1..Len(pila[k].vars)
    BY Largos
  <2> QED BY <2>1, DeMiembros
<1>5. ASSUME NEW x \in De(pila)
      PROVE  \E k \in 1..Len(pila) : \/ \E j \in DOMAIN pila[k].args : x = <<k, "arg", j>>
                                     \/ \E j \in DOMAIN pila[k].vars : x = <<k, "var", j>>
  BY DeMiembros, Largos
<1> HIDE DEF e
<1>6. \A x \in De(pila) : e(x) \in T
  <2> TAKE x \in De(pila)
  <2>1. PICK k \in 1..Len(pila) : \/ \E j \in DOMAIN pila[k].args : x = <<k, "arg", j>>
                                  \/ \E j \in DOMAIN pila[k].vars : x = <<k, "var", j>>
    BY <1>5
  <2>2. ASSUME NEW j \in DOMAIN pila[k].args, x = <<k, "arg", j>> PROVE e(x) \in T
    BY <1>2, <1>3, <2>2
  <2>3. ASSUME NEW j \in DOMAIN pila[k].vars, x = <<k, "var", j>> PROVE e(x) \in T
    <3>1. pila[k].vars[j].id \in Ids(pila[k])
      BY DEF Ids
    <3> QED BY <1>2, <1>4, <2>3, <3>1
  <2> QED BY <2>1, <2>2, <2>3
<1>7. \A t \in T : \E x \in De(pila) : e(x) = t
  <2> TAKE t \in T
  <2>1. PICK k \in 1..Len(pila) : \/ \E j \in DOMAIN pila[k].args : t = <<k, "arg", j>>
                                  \/ \E x \in Ids(pila[k]) : t = <<k, "var", x>>
    BY <1>2
  <2>2. ASSUME NEW j \in DOMAIN pila[k].args, t = <<k, "arg", j>> PROVE \E x \in De(pila) : e(x) = t
    BY <1>3, <2>2
  <2>3. ASSUME NEW x \in Ids(pila[k]), t = <<k, "var", x>> PROVE \E z \in De(pila) : e(z) = t
    <3>1. PICK j \in DOMAIN pila[k].vars : x = pila[k].vars[j].id
      BY DEF Ids
    <3> QED BY <1>4, <2>3, <3>1
  <2> QED BY <2>1, <2>2, <2>3
<1>8. ASSUME NEW x \in De(pila), NEW y \in De(pila), e(x) = e(y) PROVE x = y
  <2>1. PICK k \in 1..Len(pila) : \/ \E j \in DOMAIN pila[k].args : x = <<k, "arg", j>>
                                  \/ \E j \in DOMAIN pila[k].vars : x = <<k, "var", j>>
    BY <1>5
  <2>2. PICK l \in 1..Len(pila) : \/ \E j \in DOMAIN pila[l].args : y = <<l, "arg", j>>
                                  \/ \E j \in DOMAIN pila[l].vars : y = <<l, "var", j>>
    BY <1>5
  <2>3. ASSUME NEW j \in DOMAIN pila[k].args, x = <<k, "arg", j>>,
               NEW m \in DOMAIN pila[l].args, y = <<l, "arg", m>>
        PROVE  x = y
    BY <1>3, <1>8, <2>3
  <2>4. ASSUME NEW j \in DOMAIN pila[k].vars, x = <<k, "var", j>>,
               NEW m \in DOMAIN pila[l].vars, y = <<l, "var", m>>
        PROVE  x = y
    <3>1. <<k, "var", pila[k].vars[j].id>> = <<l, "var", pila[l].vars[m].id>>
      BY <1>4, <1>8, <2>4
    <3>2. k = l /\ pila[k].vars[j].id = pila[l].vars[m].id
      BY ONLY <3>1
    <3>3. j = m
      BY <3>2 DEF Todos, Unicos
    <3> QED BY <2>4, <3>2, <3>3
  <2>5. ASSUME NEW j \in DOMAIN pila[k].args, x = <<k, "arg", j>>,
               NEW m \in DOMAIN pila[l].vars, y = <<l, "var", m>>
        PROVE  FALSE
    <3>1. <<k, "arg", j>> = <<l, "var", pila[l].vars[m].id>>
      BY <1>3, <1>4, <1>8, <2>5
    <3> QED BY ONLY <3>1
  <2>6. ASSUME NEW j \in DOMAIN pila[k].vars, x = <<k, "var", j>>,
               NEW m \in DOMAIN pila[l].args, y = <<l, "arg", m>>
        PROVE  FALSE
    <3>1. <<k, "var", pila[k].vars[j].id>> = <<l, "arg", m>>
      BY <1>3, <1>4, <1>8, <2>6
    <3> QED BY ONLY <3>1
  <2> QED BY <2>1, <2>2, <2>3, <2>4, <2>5, <2>6
<1>9. f \in Bijection(De(pila), T)
  <2>1. f \in [De(pila) -> T] /\ \A x \in De(pila) : f[x] = e(x)
    BY <1>6
  <2> HIDE DEF f
  <2>2. \A t \in T : \E x \in De(pila) : f[x] = t
    BY <1>7, <2>1
  <2>3. \A x, y \in De(pila) : f[x] = f[y] => x = y
    BY <1>8, <2>1
  <2>4. f \in Injection(De(pila), T)
    BY <2>1, <2>3 DEF Injection, IsInjective
  <2>5. f \in Surjection(De(pila), T)
    BY <2>1, <2>2 DEF Surjection
  <2> QED BY <2>4, <2>5 DEF Bijection
<1>10. ExistsBijection(De(pila), T)
  <2> HIDE DEF f
  <2> QED BY <1>9 DEF ExistsBijection
<1>11. Cardinality(T) = Cardinality(De(pila))
  BY <1>10, FS_Bijection
<1> QED BY <1>1, <1>11

----------------------------------------------------------------------------
(* What the abstract calls see of the CPU.                                 *)

\* As long as the program runs, its names are apart and its values known.
Contenido ==
  estado = "corre" => Todos(pcbActual.stack) /\ \A d \in Posiciones : memoria[d] \in Valores

Visto ==
  /\ estado = "corre" =>
       /\ programaVisto = programa /\ lineaVista = linea
       /\ siguiente = IF en = "linea" THEN pcbActual.PC + 1 ELSE pcbActual.PC
       /\ leidas = IF programa.quantum = 0 THEN 0 ELSE IF en = "linea" THEN i ELSE i - 1
       /\ activaciones = [k \in 1..Len(PilaAbierta) |-> Activacion(PilaAbierta[k], memoria)]
  /\ estado # "corre" =>
       programaVisto = SinPrograma /\ lineaVista = <<>> /\ siguiente = 0 /\ leidas = 0 /\ activaciones = <<>>

LEMMA SeVe == IInv => Visto
<1> SUFFICES ASSUME IInv PROVE Visto
  OBVIOUS
<1>1. estado = "corre" =>
        activaciones = [k \in 1..Len(PilaAbierta) |-> Activacion(PilaAbierta[k], memoria)]
  <2>1. DOMAIN PilaAbierta = 1..Len(PilaAbierta)
    BY AbiertaBien, Largos
  <2>2. estado = "corre" => activaciones = [k \in DOMAIN PilaAbierta |-> Activacion(PilaAbierta[k], memoria)]
    BY DEF activaciones, PilaAbierta
  <2> QED BY <2>1, <2>2
<1>2. estado # "corre" => activaciones = <<>>
  BY DEF activaciones
<1> QED BY <1>1, <1>2 DEF Visto, programaVisto, lineaVista, siguiente, leidas

LEMMA SeVera == IInv' => Visto'
BY SeVe, PTL

\* The stack of a program that runs.
LEMMA PilaQueCorre ==
  ASSUME IInv, Contenido, estado = "corre"
  PROVE  /\ PilaAbierta \in Pilas /\ EnCapas(PilaAbierta, pcbActual.stackPointer)
         /\ pcbActual.stackPointer \in 0..Limite
         /\ Todos(PilaAbierta) /\ Len(PilaAbierta) \in Nat /\ Len(PilaAbierta) > 0
         /\ Len(PilaAbierta) \in 1..Len(PilaAbierta)
         /\ PilaAbierta[Len(PilaAbierta)] \in Contextos
         /\ pcbActual.stack # <<>> => PilaAbierta = pcbActual.stack /\ Contexto = PilaAbierta[Len(PilaAbierta)]
<1>1. /\ PilaAbierta \in Pilas /\ EnCapas(PilaAbierta, pcbActual.stackPointer)
      /\ Len(PilaAbierta) \in Nat /\ Len(PilaAbierta) > 0
  BY AbiertaBien
<1>2. pcbActual.stackPointer \in 0..Limite
  BY DEF IInv, Tipos
<1>3. pcbActual.stack # <<>> => PilaAbierta = pcbActual.stack /\ Contexto = PilaAbierta[Len(PilaAbierta)]
  BY DEF PilaAbierta, Contexto, Last
<1>4. Todos(PilaAbierta)
  <2>1. CASE pcbActual.stack # <<>>
    BY <1>3, <2>1 DEF Contenido
  <2>2. CASE pcbActual.stack = <<>>
    <3>1. PICK c : c = NuevoContexto(-1, 0)
      OBVIOUS
    <3>2. Unicos(c)
      <4>1. -1 \in Int /\ 0 \in Nat
        OBVIOUS
      <4>2. c.args = <<>> /\ c.vars = <<>>
        BY <3>1, <4>1, ContextoNuevo
      <4> QED BY <4>2, ActivacionVacia
    <3>3. PilaAbierta = <<c>>
      BY <2>2, <3>1 DEF PilaAbierta
    <3> QED BY <3>2, <3>3 DEF Todos
  <2> QED BY <2>1, <2>2
<1>5. Len(PilaAbierta) \in 1..Len(PilaAbierta)
  BY <1>1
<1>6. PilaAbierta[Len(PilaAbierta)] \in Contextos
  BY <1>1, <1>5, Largos
<1> QED BY <1>1, <1>2, <1>3, <1>4, <1>5, <1>6

\* Its activations, the last one current.
LEMMA LasActivaciones ==
  ASSUME IInv, Contenido, estado = "corre"
  PROVE  /\ EsDe1A(Len(PilaAbierta), activaciones) /\ Len(activaciones) = Len(PilaAbierta)
         /\ DOMAIN activaciones = 1..Len(PilaAbierta)
         /\ \A k \in 1..Len(PilaAbierta) : activaciones[k] = Activacion(PilaAbierta[k], memoria)
         /\ Meaning!Actual = Activacion(PilaAbierta[Len(PilaAbierta)], memoria)
<1>1. PICK n, s : n = Len(PilaAbierta) /\ s = activaciones
  OBVIOUS
<1>2. s = [k \in 1..n |-> Activacion(PilaAbierta[k], memoria)]
  BY <1>1, SeVe DEF Visto
<1>3. n \in Nat /\ n > 0 /\ n \in 1..n
  BY <1>1, PilaQueCorre
<1>4. \A k \in 1..n : s[k] = Activacion(PilaAbierta[k], memoria)
  BY <1>2
<1>5. EsDe1A(n, s) /\ DOMAIN s = 1..n
  BY <1>2 DEF EsDe1A
<1>6. Len(s) = n /\ Last(s) = s[n]
  BY <1>3, <1>5, AlFinal
<1>7. Meaning!Actual = s[n]
  BY <1>1, <1>6 DEF Meaning!Actual, Meaning!Last, Last
<1> QED BY <1>1, <1>3, <1>4, <1>5, <1>6, <1>7

\* A name the last context has is found at its place.
LEMMA NombreVisto ==
  ASSUME IInv, Contenido, estado = "corre", NEW y \in Nombres, Vale(y)
  PROVE  /\ NombreEn(PilaAbierta[Len(PilaAbierta)], y, ObtenerPosicionVariable(y))
         /\ ObtenerPosicionVariable(y) \in Posiciones
<1>1. PICK c, n, d : n = Len(PilaAbierta) /\ c = PilaAbierta[n] /\ d = ObtenerPosicionVariable(y)
  OBVIOUS
<1>2. y[1] # "lit"
  BY DEF Nombres, Letras
<1>3. pcbActual.stack # <<>> /\ Contexto = c /\ c \in Contextos /\ n \in 1..n
  BY <1>1, <1>2, PilaQueCorre DEF Vale
<1>4. NombreEn(c, y, d)
  <2>1. CASE y[1] = "arg"
    <3>1. y[2] \in Nat
      BY <2>1 DEF Nombres, Letras
    <3>2. y[2] < Len(c.args) /\ EsArgumento(y)
      BY <1>2, <1>3, <2>1 DEF Vale, EsArgumento
    <3>3. Len(c.args) \in Nat /\ DOMAIN c.args = 1..Len(c.args)
      BY <1>3, ContextoTipos
    <3>4. y[2] + 1 \in DOMAIN c.args /\ ~(y[2] > Len(c.args))
      BY <3>1, <3>2, <3>3
    <3>5. d = c.args[y[2] + 1]
      BY <1>1, <1>3, <3>2, <3>4 DEF ObtenerPosicionVariable
    <3> QED BY <3>2, <3>4, <3>5 DEF NombreEn
  <2>2. CASE y[1] # "arg"
    <3>1. y \in Letras /\ ~EsArgumento(y)
      BY <2>2 DEF Nombres, EsArgumento
    <3>2. \E j \in DOMAIN c.vars : c.vars[j].id = y
      BY <1>2, <1>3, <2>2 DEF Vale
    <3>3. \E j \in DOMAIN c.vars : c.vars[j] = [id |-> y, pos |-> d]
      BY <1>1, <1>3, <3>1, <3>2, PosicionDe DEF IInv, Tipos
    <3> QED BY <3>1, <3>3 DEF NombreEn
  <2> QED BY <2>1, <2>2
<1>5. d \in Posiciones
  <2>1. d \in Sitios(c)
    BY <1>4 DEF NombreEn, Sitios
  <2>2. /\ PilaAbierta \in Pilas /\ EnCapas(PilaAbierta, pcbActual.stackPointer)
        /\ pcbActual.stackPointer \in 0..Limite
    BY PilaQueCorre
  <2> QED BY <1>1, <1>3, <2>1, <2>2, Sueltos
<1> QED BY <1>1, <1>4, <1>5

LEMMA OperandoVisto ==
  ASSUME IInv, Contenido, estado = "corre", NEW y \in Operandos, Vale(y)
  PROVE  Meaning!Lookup(Meaning!Actual, y) = Valor(y)
<1>1. CASE y[1] = "lit"
  BY <1>1 DEF Meaning!Lookup, Valor
<1>2. CASE y[1] # "lit"
  <2>1. y \in Nombres
    BY <1>2 DEF Operandos
  <2>2. PICK c, d : c = PilaAbierta[Len(PilaAbierta)] /\ d = ObtenerPosicionVariable(y)
    OBVIOUS
  <2>3. NombreEn(c, y, d) /\ d \in Posiciones
    BY <2>1, <2>2, NombreVisto
  <2>4. Unicos(c) /\ Meaning!Actual = Activacion(c, memoria)
    <3>1. Todos(PilaAbierta) /\ Len(PilaAbierta) \in 1..Len(PilaAbierta)
      BY PilaQueCorre
    <3> QED BY <2>2, <3>1, LasActivaciones DEF Todos
  <2>5. Meaning!Lookup(Meaning!Actual, y) = memoria[d]
    BY <2>1, <2>3, <2>4, Buscada
  <2> QED BY <1>2, <2>2, <2>3, <2>5 DEF Valor, Dereferenciar
<1> QED BY <1>1, <1>2

\* There is room for one variable more when definirVariable finds it.
LEMMA HayLugar ==
  ASSUME IInv, Contenido, estado = "corre"
  PROVE  Meaning!Room <=> ~Desborda
<1>1. PICK p, s, sp, m : p = PilaAbierta /\ s = activaciones /\ sp = pcbActual.stackPointer
                         /\ m = Cardinality(De(p))
  OBVIOUS
<1>2. /\ p \in Pilas /\ EnCapas(p, sp) /\ Todos(p) /\ Len(p) \in Nat
  BY <1>1, PilaQueCorre
<1>3. sp = TamanioVariable * m /\ m \in Nat
  BY <1>1, <1>2, CapasApartan, FS_CardinalityType DEF EnCapas
<1>4. DOMAIN s = 1..Len(p) /\ \A k \in 1..Len(p) : s[k] = Activacion(p[k], memoria)
  BY <1>1, LasActivaciones
<1>5. ASSUME NEW k \in 1..Len(p)
      PROVE  DOMAIN s[k].args = DOMAIN p[k].args /\ DOMAIN s[k].vars = Ids(p[k])
  <2>1. PICK c, f : c = p[k] /\ f = ValoresDe(c, memoria)
    OBVIOUS
  <2>2. Unicos(c)
    BY <1>2, <2>1 DEF Todos
  <2>3. /\ f = [id \in Ids(c) |-> f[id]]
        /\ Activacion(c, memoria) = [vars |-> f, args |-> [j \in DOMAIN c.args |-> memoria[c.args[j]]],
                                     vuelve |-> c.retPos + 1]
    BY <2>1, <2>2, VarsSon
  <2>4. DOMAIN f = Ids(c)
    BY ONLY <2>3
  <2>5. s[k].vars = f /\ s[k].args = [j \in DOMAIN c.args |-> memoria[c.args[j]]]
    BY <1>4, <2>1, <2>3
  <2> QED BY <2>1, <2>4, <2>5
<1>6. Cardinality(Meaning!Declared) = m
  <2>1. Meaning!Declared = DeActivas(s)
    BY <1>1 DEF Meaning!Declared, DeActivas
  <2>2. IsFiniteSet(De(p))
    BY <1>2 DEF EnCapas
  <2>3. Cardinality(DeActivas(s)) = Cardinality(De(p))
    BY <1>2, <1>4, <1>5, <2>2, CuantasDeclaradas
  <2> QED BY <1>1, <2>1, <2>3
<1>7. Limite \in Nat
  BY SizesAssumption DEF Limite
<1>8. m < Limite \div TamanioVariable <=> ~(sp + TamanioVariable > Limite)
  BY <1>3, <1>7 DEF TamanioVariable
<1>9. Meaning!Cardinality(Meaning!Declared) = Cardinality(Meaning!Declared)
  BY Zenon DEF Meaning!Cardinality, Cardinality
<1> QED BY <1>1, <1>6, <1>8, <1>9 DEF Meaning!Room, Desborda, Limite

\* Where a new variable goes: into a place nobody has.
LEMMA DondeVa ==
  ASSUME IInv, Contenido, estado = "corre", ~Desborda
  PROVE  /\ pcbActual.stackPointer \in Posiciones
         /\ \A k \in 1..Len(PilaAbierta) : pcbActual.stackPointer \notin Sitios(PilaAbierta[k])
<1>1. PICK p, sp : p = PilaAbierta /\ sp = pcbActual.stackPointer
  OBVIOUS
<1>2. p \in Pilas /\ EnCapas(p, sp) /\ sp \in 0..Limite /\ Limite \in Nat
  BY <1>1, PilaQueCorre, SizesAssumption DEF Limite
<1>3. sp % TamanioVariable = 0
  <2>1. sp = TamanioVariable * Cardinality(De(p)) /\ Cardinality(De(p)) \in Nat
    BY <1>2, CapasApartan, FS_CardinalityType DEF EnCapas
  <2> QED BY <2>1 DEF TamanioVariable
<1>4. sp \in Posiciones
  <2>1. ~(sp + TamanioVariable > Limite)
    BY <1>1 DEF Desborda, Limite
  <2>2. sp \in 0..(Limite - TamanioVariable)
    BY <1>2, <2>1 DEF TamanioVariable
  <2> QED BY <1>3, <2>2 DEF Posiciones, Limite
<1>5. \A k \in 1..Len(p) : \A d \in Sitios(p[k]) : d \in Posiciones /\ d + TamanioVariable <= sp
  BY <1>2, Sueltos
<1>6. \A d \in Posiciones : d \in Int
  BY SizesAssumption DEF Posiciones, TamanioVariable
<1>7. \A d \in Int : d + TamanioVariable <= sp => d # sp
  BY <1>2 DEF TamanioVariable
<1> QED BY <1>1, <1>4, <1>5, <1>6, <1>7

\* What definirVariable makes of the stack.
LEMMA PilaCrecida ==
  ASSUME IInv, Contenido, estado = "corre", ~Desborda, NEW id \in Nombres, pcbActual' = Definida(id)
  PROVE  /\ PilaAbierta' = pcbActual'.stack /\ Len(PilaAbierta') = Len(PilaAbierta)
         /\ pcbActual'.stack \in Pilas
         /\ \A k \in 1..Len(PilaAbierta) :
              PilaAbierta'[k] = IF k = Len(PilaAbierta)
                                THEN Ampliado(PilaAbierta[k], id, pcbActual.stackPointer)
                                ELSE PilaAbierta[k]
<1>1. PICK p, sp, n, t : /\ p = PilaAbierta /\ sp = pcbActual.stackPointer /\ n = Len(p)
                         /\ t = ConVariable(p, id, sp)
  OBVIOUS
<1>2. /\ p \in Pilas /\ EnCapas(p, sp) /\ n \in Nat /\ n > 0 /\ n \in 1..n /\ DOMAIN p = 1..n
  BY <1>1, PilaQueCorre, Largos
<1>3. t \in Pilas /\ Len(t) = n
  BY <1>1, <1>2, SeDeclara
<1>4. \A k \in 1..n : t[k] = IF k = n THEN Ampliado(p[k], id, sp) ELSE p[k]
  <2>1. t = [p EXCEPT ![n] = Ampliado(p[n], id, sp)]
    BY <1>1 DEF ConVariable
  <2> QED BY <1>2, <2>1
<1>5. pcbActual'.stack = t
  <2>1. pcbActual' = [pcbActual EXCEPT !.stack = t, !.stackPointer = sp + TamanioVariable]
    BY <1>1, Zenon DEF Definida, PilaAbierta
  <2>2. pcbActual \in [PC : Int, stackPointer : 0..Limite, stack : Pilas]
    BY DEF IInv, Tipos
  <2> QED BY <2>1, <2>2
<1>6. t # <<>>
  BY <1>2, <1>3
<1>7. PilaAbierta' = t
  BY <1>5, <1>6 DEF PilaAbierta
<1> QED BY <1>1, <1>3, <1>4, <1>5, <1>7

LEMMA PilasCrecidas ==
  ASSUME IInv, Contenido, estado = "corre", ~Desborda, NEW id \in Nombres, pcbActual' = Definida(id),
         EsArgumento(id) \/ id \notin Ids(PilaAbierta[Len(PilaAbierta)])
  PROVE  Todos(pcbActual'.stack)
<1>1. PICK p, sp, n, t, c : /\ p = PilaAbierta /\ sp = pcbActual.stackPointer /\ n = Len(p)
                            /\ t = pcbActual'.stack /\ c = p[n]
  OBVIOUS
<1>2. n \in 1..n /\ Todos(p) /\ c \in Contextos
  BY <1>1, PilaQueCorre
<1>3. Len(t) = n /\ \A k \in 1..n : t[k] = IF k = n THEN Ampliado(p[k], id, sp) ELSE p[k]
  BY <1>1, PilaCrecida
<1>4. Unicos(c)
  BY <1>1, <1>2 DEF Todos
<1>5. Unicos(Ampliado(c, id, sp))
  BY <1>1, <1>2, <1>4, UnArgumentoMas, UnaVariableMas
<1>6. \A k \in 1..n : Unicos(t[k])
  BY <1>1, <1>2, <1>3, <1>5 DEF Todos
<1> QED BY <1>1, <1>3, <1>6 DEF Todos

\* Where retornar leaves its value: in a variable of the caller.
LEMMA DondeVuelve ==
  ASSUME IInv, CallersWait, Contenido, estado = "corre", Len(pcbActual.stack) > 1,
         Instruccion(programa, Contexto.retPos).ret # Nadie
  PROVE  LET n == Len(pcbActual.stack)
         IN  /\ n - 1 \in 1..n /\ pcbActual.stack \in Pilas /\ n \in Nat
             /\ \E j \in DOMAIN pcbActual.stack[n - 1].vars :
                  pcbActual.stack[n - 1].vars[j] =
                    [id |-> Instruccion(programa, Contexto.retPos).ret, pos |-> Contexto.retVar]
             /\ Contexto.retVar \in Posiciones /\ Contexto.retVar \in Sitios(pcbActual.stack[n - 1])
<1>1. PICK p, n, sp : p = pcbActual.stack /\ n = Len(p) /\ sp = pcbActual.stackPointer
  OBVIOUS
<1>2. p \in Pilas /\ n \in Nat /\ n > 1 /\ DOMAIN p = 1..n
  BY <1>1, Largos DEF IInv, Tipos
<1>3. p # <<>>
  BY <1>1, <1>2
<1>4. p = PilaAbierta /\ Contexto = p[n] /\ EnCapas(p, sp) /\ sp \in 0..Limite
  BY <1>1, <1>3, PilaQueCorre
<1>5. n \in DOMAIN p \ {1} /\ n - 1 \in 1..n
  BY <1>2
<1>6. PICK j \in DOMAIN p[n - 1].vars :
        p[n - 1].vars[j] = [id |-> Instruccion(programa, p[n].retPos).ret, pos |-> p[n].retVar]
  BY <1>1, <1>4, <1>5 DEF CallersWait
<1>7. p[n].retVar \in Sitios(p[n - 1])
  <2>1. p[n - 1].vars[j].pos = p[n].retVar
    BY <1>6
  <2> QED BY <2>1 DEF Sitios
<1>8. p[n].retVar \in Posiciones
  BY <1>2, <1>4, <1>5, <1>7, Sueltos
<1> QED BY <1>1, <1>2, <1>4, <1>5, <1>6, <1>7, <1>8

----------------------------------------------------------------------------
(* Names stay apart and values known.                                      *)

LEMMA Corre == estado = "corre" <=> en # "libre" /\ ~huboStackOver /\ ~finPrograma
BY DEF estado

LEMMA Correra == estado' = "corre" <=> en' # "libre" /\ ~huboStackOver' /\ ~finPrograma'
BY DEF estado

\* The operation of a line that is being done by a program that runs.
LEMMA HaceLinea ==
  ASSUME IInv, Fases, BienHecho, en = "linea", linea # <<>>,
         Head(linea).op \in {"asignar", "irAlLabel", "llamar", "retornar", "finalizar"}
  PROVE  /\ estado = "corre" /\ ~huboStackOver /\ ~finPrograma
         /\ Head(linea) \in Lineas /\ programa \in Programas /\ pcbActual.PC \in Lugares(programa)
         /\ Head(linea) = Instruccion(programa, pcbActual.PC) /\ Tail(linea) = <<>>
<1>1. ~huboStackOver /\ ~finPrograma
  BY SinDesborde
<1> QED BY <1>1, Corre, EnInstruccion

\* What asignar does.
LEMMA AsignarHace ==
  ASSUME IInv, Fases, BienHecho, Contenido, Asignar
  PROVE  LET l == Head(linea)
             d == ObtenerPosicionVariable(l.x)
             v == Valor(l.y) + l.signo * Valor(l.z)
         IN  /\ estado = "corre" /\ estado' = "corre" /\ linea' = <<>> /\ Tail(linea) = <<>>
             /\ l.x \in Nombres /\ l.y \in Operandos /\ l.z \in Operandos
             /\ Vale(l.x) /\ Vale(l.y) /\ Vale(l.z)
             /\ d \in Posiciones /\ v \in Valores /\ memoria'[d] = v
             /\ NombreEn(PilaAbierta[Len(PilaAbierta)], l.x, d)
             /\ \A x \in Posiciones : x # d => memoria'[x] = memoria[x]
<1>1. PICK l, d, v : /\ l = Head(linea) /\ d = ObtenerPosicionVariable(l.x)
                     /\ v = Valor(l.y) + l.signo * Valor(l.z)
  OBVIOUS
<1>2. en = "linea" /\ linea # <<>> /\ l.op = "asignar" /\ memoria' = Asignada(d, v) /\ linea' = Tail(linea)
  BY <1>1 DEF Asignar, Toca
<1>3. /\ estado = "corre" /\ ~huboStackOver /\ ~finPrograma /\ l \in Lineas /\ Tail(linea) = <<>>
  BY <1>1, <1>2, HaceLinea
<1>4. estado' = "corre"
  <2>1. UNCHANGED <<en, huboStackOver, finPrograma>>
    BY DEF Asignar, flags
  <2> QED BY <1>3, <2>1, Corre, Correra
<1>5. Vale(l.x) /\ Vale(l.y) /\ Vale(l.z) /\ Cabe(v)
  BY <1>1, <1>2, <1>3 DEF BienHecho
<1>6. l.x \in Nombres /\ l.y \in Operandos /\ l.z \in Operandos
  BY <1>2, <1>3, LineaTipos
<1>7. d \in Posiciones /\ NombreEn(PilaAbierta[Len(PilaAbierta)], l.x, d)
  BY <1>1, <1>3, <1>5, <1>6, NombreVisto
<1>8. v \in Valores /\ Envuelve(v) = v /\ memoria \in [Posiciones -> Int]
  BY <1>5 DEF Cabe, IInv, Tipos
<1>9. memoria'[d] = v /\ \A x \in Posiciones : x # d => memoria'[x] = memoria[x]
  BY <1>2, <1>7, <1>8, Escribe
<1> QED BY <1>1, <1>2, <1>3, <1>4, <1>5, <1>6, <1>7, <1>8, <1>9

\* What retornar does in a function: its value is in a variable of the caller.
LEMMA RetornarHace ==
  ASSUME IInv, Fases, BienHecho, CallersWait, Contenido, Retornar, Len(pcbActual.stack) > 1
  PROVE  LET y == Head(linea).y
             n == Len(pcbActual.stack)
             x == Instruccion(programa, Contexto.retPos).ret
         IN  /\ y \in Operandos /\ Vale(y) /\ x # Nadie /\ Contexto.retVar \in Posiciones
             /\ Valor(y) \in Valores /\ memoria'[Contexto.retVar] = Valor(y)
             /\ Contexto.retVar \in Sitios(pcbActual.stack[n - 1])
             /\ \E j \in DOMAIN pcbActual.stack[n - 1].vars :
                  pcbActual.stack[n - 1].vars[j] = [id |-> x, pos |-> Contexto.retVar]
             /\ \A d \in Posiciones : d # Contexto.retVar => memoria'[d] = memoria[d]
<1>1. PICK l, d, v : l = Head(linea) /\ d = Contexto.retVar /\ v = Valor(l.y)
  OBVIOUS
<1>2. en = "linea" /\ linea # <<>> /\ l.op = "retornar" /\ memoria' = Asignada(d, v)
  BY <1>1 DEF Retornar, Toca
<1>3. estado = "corre" /\ l \in Lineas
  BY <1>1, <1>2, HaceLinea
<1>4. Vale(l.y) /\ Cabe(v) /\ Instruccion(programa, Contexto.retPos).ret # Nadie
  BY <1>1, <1>2, <1>3 DEF BienHecho
<1>5. l.y \in Operandos
  BY <1>2, <1>3, LineaTipos
<1>6. LET n == Len(pcbActual.stack)
      IN  /\ d \in Posiciones /\ d \in Sitios(pcbActual.stack[n - 1])
          /\ \E j \in DOMAIN pcbActual.stack[n - 1].vars :
               pcbActual.stack[n - 1].vars[j]
                 = [id |-> Instruccion(programa, Contexto.retPos).ret, pos |-> d]
  BY <1>1, <1>3, <1>4, DondeVuelve
<1>7. v \in Valores /\ Envuelve(v) = v /\ memoria \in [Posiciones -> Int]
  BY <1>4 DEF Cabe, IInv, Tipos
<1>8. memoria'[d] = v /\ \A x \in Posiciones : x # d => memoria'[x] = memoria[x]
  BY <1>2, <1>6, <1>7, Escribe
<1> QED BY <1>1, <1>4, <1>5, <1>6, <1>7, <1>8

\* What a call declares of its own: the name was not there.
LEMMA NombreLibre ==
  ASSUME IInv, Contenido, BienHecho, estado = "corre", linea # <<>>, Head(linea).op = "definirVariable"
  PROVE  Head(linea).id \notin Ids(PilaAbierta[Len(PilaAbierta)])
<1>1. CASE pcbActual.stack # <<>>
  <2>1. \A j \in DOMAIN Contexto.vars : Contexto.vars[j].id # Head(linea).id
    BY <1>1 DEF BienHecho
  <2>2. Contexto = PilaAbierta[Len(PilaAbierta)]
    BY <1>1, PilaQueCorre
  <2> QED BY <2>1, <2>2 DEF Ids
<1>2. CASE pcbActual.stack = <<>>
  <2>1. PICK c : c = NuevoContexto(-1, 0)
    OBVIOUS
  <2>2. c.vars = <<>>
    <3>1. -1 \in Int /\ 0 \in Nat
      OBVIOUS
    <3> QED BY <2>1, <3>1, ContextoNuevo
  <2>3. PilaAbierta = <<c>>
    BY <1>2, <2>1 DEF PilaAbierta
  <2>4. PilaAbierta[Len(PilaAbierta)] = c /\ Ids(c) = {}
    BY <2>2, <2>3 DEF Ids
  <2> QED BY <2>4
<1> QED BY <1>1, <1>2

LEMMA ContenidoStep ==
  ASSUME IInv, Fases, BienHecho, CallersWait, Contenido, [Next]_vars
  PROVE  Contenido'
<1> SUFFICES ASSUME estado' = "corre"
             PROVE  Todos(pcbActual'.stack) /\ \A d \in Posiciones : memoria'[d] \in Valores
  BY DEF Contenido
<1>0. en' # "libre" /\ ~huboStackOver' /\ ~finPrograma'
  BY Correra
<1>1. ASSUME estado = "corre"
      PROVE  Todos(pcbActual.stack) /\ \A d \in Posiciones : memoria[d] \in Valores
  BY <1>1 DEF Contenido
<1>2. ASSUME NEW p \in Programas, RecibirPCB(p)
      PROVE  Todos(pcbActual'.stack) /\ \A d \in Posiciones : memoria'[d] \in Valores
  <2>1. Len(pcbActual'.stack) = 0
    BY <1>2 DEF RecibirPCB
  <2>2. \E v \in Relleno : memoria' = [d \in Posiciones |-> v]
    BY <1>2 DEF RecibirPCB
  <2> QED BY <2>1, <2>2, ValoresAssumption DEF Todos
<1>3. CASE FinDeQuantum \/ TerminarEjecucion
  BY <1>0, <1>3 DEF FinDeQuantum, TerminarEjecucion, Volver
<1>4. CASE PedirProximaInstruccion \/ Continuar \/ Saltar \/ UNCHANGED vars
  <2>1. UNCHANGED <<huboStackOver, finPrograma, memoria>> /\ pcbActual'.stack = pcbActual.stack
    <3>1. pcbActual \in [PC : Int, stackPointer : 0..Limite, stack : Pilas]
      BY DEF IInv, Tipos
    <3> QED BY <1>4, <3>1 DEF PedirProximaInstruccion, Continuar, Saltar, vars, flags
  <2>2. en # "libre"
    BY <1>0, <1>4 DEF PedirProximaInstruccion, Continuar, Saltar, Toca, vars
  <2> QED BY <1>0, <1>1, <2>1, <2>2, Corre
<1>5. CASE DefinirVariable
  <2>1. /\ en = "linea" /\ linea # <<>> /\ Head(linea).op = "definirVariable"
        /\ UNCHANGED <<memoria, en, finPrograma>>
        /\ IF Desborda THEN huboStackOver' = TRUE
                       ELSE pcbActual' = Definida(Head(linea).id) /\ UNCHANGED huboStackOver
    BY <1>5 DEF DefinirVariable, Toca
  <2>2. ~Desborda /\ pcbActual' = Definida(Head(linea).id) /\ estado = "corre"
    BY <1>0, <2>1, Corre
  <2>3. Head(linea).id \in Nombres
    <3>1. Head(linea) \in Pasos
      BY <2>1, EnPasos
    <3> QED BY <2>1, <3>1 DEF Pasos, Nombres
  <2>4. Head(linea).id \notin Ids(PilaAbierta[Len(PilaAbierta)])
    BY <2>1, <2>2, NombreLibre
  <2>5. Todos(pcbActual'.stack)
    BY <2>2, <2>3, <2>4, PilasCrecidas
  <2> QED BY <1>1, <2>1, <2>2, <2>5
<1>6. CASE PasarArgumento
  <2>1. /\ en = "linea" /\ linea # <<>> /\ Head(linea).op = "pasar" /\ UNCHANGED <<en, finPrograma>>
        /\ IF Desborda THEN huboStackOver' = TRUE
                       ELSE /\ pcbActual' = Definida(Arg(Head(linea).n)) /\ UNCHANGED huboStackOver
                            /\ memoria' = Asignada(pcbActual.stackPointer, Head(linea).valor)
    BY <1>6 DEF PasarArgumento, Toca
  <2>2. /\ ~Desborda /\ pcbActual' = Definida(Arg(Head(linea).n)) /\ estado = "corre"
        /\ memoria' = Asignada(pcbActual.stackPointer, Head(linea).valor)
    BY <1>0, <2>1, Corre
  <2>3. Arg(Head(linea).n) \in Nombres /\ EsArgumento(Arg(Head(linea).n))
    <3>1. Head(linea) \in Pasos
      BY <2>1, EnPasos
    <3> QED BY <2>1, <3>1 DEF Pasos, Nombres, Arg, EsArgumento
  <2>4. Todos(pcbActual'.stack)
    BY <2>2, <2>3, PilasCrecidas
  <2>5. Cabe(Head(linea).valor)
    BY <2>1, <2>2 DEF BienHecho
  <2>6. pcbActual.stackPointer \in Posiciones /\ memoria \in [Posiciones -> Int]
    BY <2>2, DondeVa DEF IInv, Tipos
  <2>7. /\ memoria'[pcbActual.stackPointer] \in Valores
        /\ \A x \in Posiciones : x # pcbActual.stackPointer => memoria'[x] = memoria[x]
    BY <2>2, <2>5, <2>6, Escribe DEF Cabe
  <2> QED BY <1>1, <2>2, <2>4, <2>7
<1>7. CASE Asignar
  <2>1. /\ estado = "corre"
        /\ \E d \in Posiciones : memoria'[d] \in Valores /\ \A x \in Posiciones : x # d => memoria'[x] = memoria[x]
    BY <1>7, AsignarHace
  <2>2. pcbActual' = pcbActual
    BY <1>7 DEF Asignar
  <2> QED BY <1>1, <2>1, <2>2
<1>8. CASE Llamar
  <2>1. UNCHANGED <<memoria, en, huboStackOver, finPrograma>> /\ en = "linea"
    BY <1>8 DEF Llamar, flags, Toca
  <2>2. estado = "corre"
    BY <1>0, <2>1, Corre
  <2>3. PICK c : /\ pcbActual'.stack = Append(pcbActual.stack, c) /\ c.vars = <<>> /\ c.args = <<>>
    <3>1. pcbActual \in [PC : Int, stackPointer : 0..Limite, stack : Pilas]
      BY DEF IInv, Tipos
    <3>2. PICK r : pcbActual' = [pcbActual EXCEPT
                     !.stack = Append(@, NuevoContexto(pcbActual.PC, r)),
                     !.PC = IrAlLabel(Head(linea).etiqueta)]
      BY <1>8 DEF Llamar
    <3>3. PICK c : c = NuevoContexto(pcbActual.PC, r)
      OBVIOUS
    <3>4. c.vars = <<>> /\ c.args = <<>>
      BY <3>3 DEF NuevoContexto
    <3>5. pcbActual'.stack = Append(pcbActual.stack, c)
      BY <3>1, <3>2, <3>3
    <3> QED BY <3>4, <3>5
  <2>4. PICK p, t : p = pcbActual.stack /\ t = pcbActual'.stack
    OBVIOUS
  <2>5. Len(t) = Len(p) + 1 /\ Len(p) \in Nat /\ t[Len(p) + 1] = c /\ \A k \in 1..Len(p) : t[k] = p[k]
    <3>1. p \in Pilas
      BY <2>4 DEF IInv, Tipos
    <3> QED BY <2>3, <2>4, <3>1, Largos
  <2>6. Unicos(c)
    BY <2>3, ActivacionVacia
  <2>7. Todos(p)
    BY <1>1, <2>2, <2>4
  <2>8. Todos(t)
    BY ONLY <2>5, <2>6, <2>7 DEF Todos
  <2> QED BY <1>1, <2>1, <2>2, <2>4, <2>8
<1>9. CASE Finalizar \/ Retornar
  <2>1. CerrarContexto /\ en = "linea" /\ linea # <<>> /\ Head(linea).op \in {"finalizar", "retornar"}
    BY <1>9 DEF Finalizar, Retornar, Toca
  <2>2. estado = "corre"
    BY <2>1, HaceLinea
  <2>3. PICK p, t : p = pcbActual.stack /\ t = pcbActual'.stack
    OBVIOUS
  <2>4. /\ Len(t) \in Nat /\ \A k \in 1..Len(t) : k \in 1..Len(p) /\ t[k] = p[k]
        /\ Len(p) \in DOMAIN p \ {1} /\ p \in Pilas
    BY <1>0, <2>1, <2>3, CerrarPila DEF IInv, Tipos
  <2>5. Todos(t)
    BY <1>1, <2>2, <2>3, <2>4 DEF Todos
  <2>6. CASE Finalizar
    BY <1>1, <2>2, <2>3, <2>5, <2>6 DEF Finalizar
  <2>7. CASE Retornar
    <3>1. Len(p) > 1
      <4>1. Len(p) \in Nat /\ DOMAIN p = 1..Len(p)
        BY <2>4, Largos
      <4>2. PICK m : m = Len(p)
        OBVIOUS
      <4>3. m \in Nat /\ m \in (1..m) \ {1}
        BY <2>4, <4>1, <4>2
      <4> QED BY ONLY <4>2, <4>3
    <3>2. \E d \in Posiciones : memoria'[d] \in Valores /\ \A x \in Posiciones : x # d => memoria'[x] = memoria[x]
      BY <2>3, <2>7, <3>1, RetornarHace
    <3> QED BY <1>1, <2>2, <2>3, <2>5, <3>2
  <2> QED BY <1>9, <2>6, <2>7
<1> QED BY <1>2, <1>3, <1>4, <1>5, <1>6, <1>7, <1>8, <1>9 DEF Next

----------------------------------------------------------------------------
(* Every step is one of the abstract calls, or none.                       *)

LEMMA Quieto ==
  ASSUME IInv, IInv', estado # "corre", estado' = estado, avisos' = avisos
  PROVE  UNCHANGED Meaning!vars
<1>1. Visto /\ Visto'
  BY SeVe, SeVera
<1>2. UNCHANGED <<programaVisto, lineaVista, siguiente, leidas, activaciones>>
  BY <1>1 DEF Visto
<1> QED BY <1>2 DEF Meaning!vars

LEMMA Para ==
  ASSUME IInv', NEW r, r # "corre", estado' = r, NEW k, avisos' = avisos + k
  PROVE  Meaning!Stops(r, k)
<1>1. Visto'
  BY SeVera
<1>2. /\ programaVisto' = SinPrograma /\ lineaVista' = <<>> /\ siguiente' = 0 /\ leidas' = 0
      /\ activaciones' = <<>>
  BY <1>1 DEF Visto
<1> QED BY <1>2 DEF Meaning!Stops, Meaning!SinPrograma, SinPrograma

LEMMA RecibirRef == ASSUME IInv, IInv', Fases, NEW p \in Programas, RecibirPCB(p) PROVE Meaning!Starts(p)
<1>1. /\ en = "libre" /\ ~ocupada /\ programa' = p /\ en' = "bucle" /\ i' = 1 /\ avisos' = 0
      /\ UNCHANGED <<linea, huboStackOver, finPrograma>>
      /\ pcbActual' = [PC |-> p.inicio, stackPointer |-> 0, stack |-> <<>>]
  BY DEF RecibirPCB, flags
<1>2. ~huboStackOver /\ ~finPrograma /\ linea = <<>>
  BY <1>1 DEF Fases, IInv, EnPrograma
<1>3. estado = "libre" /\ estado' = "corre"
  BY <1>1, <1>2, Correra DEF estado
<1>4. Visto'
  BY SeVera
<1>5. PICK c : c = NuevoContexto(-1, 0)
  OBVIOUS
<1>6. PilaAbierta' = <<c>>
  <2>1. pcbActual'.stack = <<>>
    BY <1>1
  <2> QED BY <1>5, <2>1 DEF PilaAbierta
<1>7. Activacion(c, memoria') = [vars |-> <<>>, args |-> <<>>, vuelve |-> 0]
  <2>1. c.vars = <<>> /\ c.args = <<>> /\ c.retPos = -1
    BY <1>5 DEF NuevoContexto
  <2>2. Activacion(c, memoria') = [vars |-> <<>>, args |-> <<>>, vuelve |-> c.retPos + 1]
    BY <2>1, ActivacionVacia
  <2> QED BY <2>1, <2>2
<1>8. activaciones' = <<Meaning!Principal>>
  <2>1. activaciones' = [k \in 1..Len(PilaAbierta') |-> Activacion(PilaAbierta'[k], memoria')]
    BY <1>3, <1>4 DEF Visto
  <2>2. PICK a : a = Activacion(c, memoria')
    OBVIOUS
  <2>3. activaciones' = [k \in 1..1 |-> a]
    BY <1>6, <2>1, <2>2
  <2>4. activaciones' = <<a>>
    BY <2>3
  <2> QED BY <1>7, <2>2, <2>4 DEF Meaning!Principal
<1>9. programaVisto' = p /\ lineaVista' = <<>> /\ siguiente' = p.inicio /\ leidas' = 0
  <2>1. pcbActual'.PC = p.inicio
    BY <1>1
  <2>2. /\ programaVisto' = programa' /\ lineaVista' = linea' /\ siguiente' = pcbActual'.PC
        /\ leidas' = IF programa'.quantum = 0 THEN 0 ELSE i' - 1
    BY <1>1, <1>3, <1>4 DEF Visto
  <2> QED BY <1>1, <1>2, <2>1, <2>2
<1> QED BY <1>1, <1>3, <1>8, <1>9 DEF Meaning!Starts

\* Steps that leave the stack and its values alone.
LEMMA MismasActivaciones ==
  ASSUME IInv, IInv', estado = "corre", estado' = "corre",
         pcbActual'.stack = pcbActual.stack, memoria' = memoria
  PROVE  activaciones' = activaciones
<1>1. Visto /\ Visto'
  BY SeVe, SeVera
<1>2. PilaAbierta' = PilaAbierta
  BY DEF PilaAbierta
<1>3. activaciones = [k \in 1..Len(PilaAbierta) |-> Activacion(PilaAbierta[k], memoria)]
  BY <1>1 DEF Visto
<1>4. activaciones' = [k \in 1..Len(PilaAbierta') |-> Activacion(PilaAbierta'[k], memoria')]
  BY <1>1 DEF Visto
<1> QED BY <1>2, <1>3, <1>4

LEMMA PedirRef == ASSUME IInv, IInv', Fases, PedirProximaInstruccion PROVE Meaning!Reads
<1>1. /\ en = "bucle" /\ (i <= programa.quantum \/ programa.quantum = 0) /\ en' = "linea"
      /\ UNCHANGED <<pcbActual, memoria, programa, i, huboStackOver, finPrograma, avisos>>
      /\ linea' = Primitivas(Instruccion(programa, pcbActual.PC))
  BY DEF PedirProximaInstruccion, flags, kernel
<1>2. ~huboStackOver /\ ~finPrograma /\ linea = <<>>
  BY <1>1 DEF Fases, IInv, EnPrograma
<1>3. estado = "corre" /\ estado' = "corre"
  BY <1>1, <1>2, Corre, Correra
<1>4. /\ programaVisto = programa /\ lineaVista = <<>> /\ siguiente = pcbActual.PC
      /\ leidas = IF programa.quantum = 0 THEN 0 ELSE i - 1
  BY <1>1, <1>2, <1>3, SeVe DEF Visto
<1>5. /\ programaVisto' = programa /\ lineaVista' = linea' /\ siguiente' = pcbActual.PC + 1
      /\ leidas' = IF programa.quantum = 0 THEN 0 ELSE i
  BY <1>1, <1>3, SeVera DEF Visto
<1>6. activaciones' = activaciones
  BY <1>1, <1>3, MismasActivaciones
<1>7. /\ programa.quantum = 0 \/ leidas < programa.quantum
      /\ leidas' = IF programa.quantum = 0 THEN 0 ELSE leidas + 1
  <2>1. i \in Nat /\ programa.quantum \in Nat
    BY <1>1, CodigoTipos DEF IInv, Tipos, EnPrograma
  <2> QED BY <1>1, <1>4, <1>5, <2>1
<1>8. linea' = Meaning!Primitivas(Meaning!Instruccion(programa, pcbActual.PC))
  BY <1>1, Zenon DEF Meaning!Primitivas, Meaning!Instruccion, Primitivas, Instruccion
<1> QED BY <1>1, <1>3, <1>4, <1>5, <1>6, <1>7, <1>8 DEF Meaning!Reads

LEMMA FinDeQuantumRef == ASSUME IInv, IInv', Fases, FinDeQuantum PROVE Meaning!OutOfQuantum
<1>1. /\ en = "bucle" /\ i > programa.quantum /\ programa.quantum # 0 /\ en' = "libre"
      /\ UNCHANGED <<huboStackOver, finPrograma>> /\ avisos' = avisos + 1 /\ ocupada' = FALSE
  BY DEF FinDeQuantum, FinalizarPor, Volver, flags
<1>2. ~huboStackOver /\ ~finPrograma /\ linea = <<>> /\ i <= programa.quantum + 1
  BY <1>1 DEF Fases, IInv, EnPrograma
<1>3. estado = "corre" /\ estado' = "libre"
  BY <1>1, <1>2, Corre DEF estado
<1>4. programaVisto = programa /\ lineaVista = <<>> /\ leidas = i - 1
  BY <1>1, <1>2, <1>3, SeVe DEF Visto
<1>5. leidas = programa.quantum /\ leidas > 0
  <2>1. i \in Nat /\ programa.quantum \in Nat
    BY <1>1, CodigoTipos DEF IInv, Tipos, EnPrograma
  <2> QED BY <1>1, <1>2, <1>4, <2>1
<1>6. Meaning!Stops("libre", 1)
  BY <1>1, <1>3, Para
<1> QED BY <1>3, <1>4, <1>5, <1>6 DEF Meaning!OutOfQuantum

LEMMA TerminarRef == ASSUME IInv, IInv', Fases, TerminarEjecucion PROVE UNCHANGED Meaning!vars
<1>1. /\ en = "linea" /\ (huboStackOver \/ finPrograma) /\ en' = "libre"
      /\ UNCHANGED <<avisos, ocupada>>
      /\ IF huboStackOver THEN huboStackOver' = FALSE /\ UNCHANGED finPrograma
                          ELSE finPrograma' = FALSE /\ UNCHANGED huboStackOver
  BY DEF TerminarEjecucion, Volver, kernel
<1>2. CASE huboStackOver
  <2>1. ~finPrograma /\ ocupada
    BY <1>1, <1>2 DEF Fases
  <2>2. estado = "desborda" /\ estado' = "desborda"
    BY <1>1, <1>2, <2>1 DEF estado
  <2> QED BY <1>1, <2>2, Quieto
<1>3. CASE ~huboStackOver
  <2>1. finPrograma /\ ~ocupada
    BY <1>1, <1>3 DEF Fases
  <2>2. estado = "libre" /\ estado' = "libre"
    BY <1>1, <1>3, <2>1 DEF estado
  <2> QED BY <1>1, <2>2, Quieto
<1> QED BY <1>2, <1>3

LEMMA ContinuarRef == ASSUME IInv, IInv', Fases, Continuar PROVE UNCHANGED Meaning!vars
<1>1. /\ en = "linea" /\ linea = <<>> /\ ~huboStackOver /\ ~finPrograma /\ en' = "bucle"
      /\ UNCHANGED <<memoria, programa, linea, huboStackOver, finPrograma, avisos>>
      /\ i' = IF programa.quantum = 0 THEN i ELSE i + 1
  BY DEF Continuar, flags, kernel
<1>2. pcbActual'.PC = pcbActual.PC + 1 /\ pcbActual'.stack = pcbActual.stack
  <2>1. pcbActual \in [PC : Int, stackPointer : 0..Limite, stack : Pilas]
    BY DEF IInv, Tipos
  <2> QED BY <2>1 DEF Continuar
<1>3. estado = "corre" /\ estado' = "corre"
  BY <1>1, Corre, Correra
<1>4. /\ programaVisto = programa /\ lineaVista = linea /\ siguiente = pcbActual.PC + 1
      /\ leidas = IF programa.quantum = 0 THEN 0 ELSE i
  BY <1>1, <1>3, SeVe DEF Visto
<1>5. /\ programaVisto' = programa /\ lineaVista' = linea /\ siguiente' = pcbActual'.PC
      /\ leidas' = IF programa.quantum = 0 THEN 0 ELSE i' - 1
  BY <1>1, <1>3, SeVera DEF Visto
<1>6. activaciones' = activaciones
  BY <1>1, <1>2, <1>3, MismasActivaciones
<1>7. leidas' = leidas
  <2>1. i \in Nat
    BY DEF IInv, Tipos
  <2> QED BY <1>1, <1>4, <1>5, <2>1
<1> QED BY <1>1, <1>2, <1>3, <1>4, <1>5, <1>6, <1>7 DEF Meaning!vars

\* What does not change within a line.
LEMMA EnLaLinea ==
  ASSUME IInv, IInv', estado = "corre", estado' = "corre", en = "linea", en' = "linea",
         UNCHANGED <<programa, i, avisos>>
  PROVE  /\ lineaVista = linea /\ lineaVista' = linea' /\ programaVisto = programa
         /\ siguiente = pcbActual.PC + 1 /\ siguiente' = pcbActual'.PC + 1
         /\ UNCHANGED <<programaVisto, leidas, estado, avisos>>
<1>1. Visto /\ Visto'
  BY SeVe, SeVera
<1>2. /\ programaVisto = programa /\ lineaVista = linea /\ siguiente = pcbActual.PC + 1
      /\ leidas = IF programa.quantum = 0 THEN 0 ELSE i
  BY <1>1 DEF Visto
<1>3. /\ programaVisto' = programa' /\ lineaVista' = linea' /\ siguiente' = pcbActual'.PC + 1
      /\ leidas' = IF programa'.quantum = 0 THEN 0 ELSE i'
  BY <1>1 DEF Visto
<1> QED BY <1>2, <1>3

\* Only the activation of the last call is another.
LEMMA CambiaLaUltima ==
  ASSUME IInv, IInv', Contenido, estado = "corre", estado' = "corre", NEW a,
         Len(PilaAbierta') = Len(PilaAbierta),
         \A k \in 1..Len(PilaAbierta) :
           Activacion(PilaAbierta'[k], memoria') = IF k = Len(PilaAbierta) THEN a
                                                   ELSE Activacion(PilaAbierta[k], memoria)
  PROVE  activaciones' = Meaning!WithLast(a)
<1>1. PICK n, s : n = Len(PilaAbierta) /\ s = activaciones
  OBVIOUS
<1>2. n \in Nat /\ n > 0
  BY <1>1, PilaQueCorre
<1>8. n \in Nat
  BY <1>2
<1>9. EsDe1A(n, s)
  BY <1>1, LasActivaciones
<1>3. \A k \in 1..n : s[k] = Activacion(PilaAbierta[k], memoria)
  BY <1>1, LasActivaciones
<1>4. Meaning!WithLast(a) = Front(s) \o <<a>>
  BY <1>1, Zenon DEF Meaning!WithLast, Meaning!Front, Front
<1>5. Front(s) \o <<a>> = [k \in 1..n |-> IF k = n THEN a ELSE s[k]]
  <2>1. n > 0 => Front(s) \o <<a>> = Ultimo(n, s, a)
    BY ONLY <1>8, <1>9, AlFinal
  <2> QED BY ONLY <1>2, <2>1 DEF Ultimo
<1>6. activaciones' = [k \in 1..n |-> Activacion(PilaAbierta'[k], memoria')]
  BY <1>1, SeVera DEF Visto
<1>7. \A k \in 1..n : Activacion(PilaAbierta'[k], memoria') = IF k = n THEN a ELSE s[k]
  BY <1>1, <1>3
<1> QED BY <1>4, <1>5, <1>6, <1>7

LEMMA DefinirRef ==
  ASSUME IInv, IInv', Fases, BienHecho, Contenido, DefinirVariable
  PROVE  [Meaning!Next]_(Meaning!vars)
<1>1. /\ en = "linea" /\ en' = "linea" /\ linea # <<>> /\ Head(linea).op = "definirVariable"
      /\ linea' = Tail(linea) /\ UNCHANGED <<memoria, programa, en, i, finPrograma, avisos, ocupada>>
      /\ IF Desborda THEN huboStackOver' = TRUE
                     ELSE pcbActual' = Definida(Head(linea).id) /\ UNCHANGED huboStackOver
  BY DEF DefinirVariable, Toca, kernel
<1>2. CASE estado # "corre"
  <2>1. huboStackOver /\ estado = "desborda"
    BY <1>1, <1>2, Corre DEF Fases, estado
  <2>2. huboStackOver'
    BY <1>1, <2>1
  <2>3. estado' = "desborda"
    BY <2>2 DEF estado
  <2> QED BY <1>1, <2>1, <2>3, Quieto
<1>3. CASE estado = "corre" /\ Desborda
  <2>1. estado' = "desborda"
    BY <1>1, <1>3 DEF estado
  <2>2. avisos' = avisos + 0
    BY <1>1 DEF IInv, Tipos
  <2>3. Meaning!Stops("desborda", 0)
    BY <2>1, <2>2, Para
  <2>4. ~Meaning!Room
    BY <1>3, HayLugar
  <2>5. lineaVista = linea
    BY <1>3, SeVe DEF Visto
  <2>6. Meaning!Overflows
    BY <1>1, <1>3, <2>3, <2>4, <2>5 DEF Meaning!Overflows, Meaning!Does
  <2> QED BY <2>6 DEF Meaning!Next
<1>4. CASE estado = "corre" /\ ~Desborda
  <2>1. estado' = "corre"
    BY <1>1, <1>4, Corre, Correra
  <2>2. PICK id, n, v, c, sp :
          id = Head(linea).id /\ n = Len(PilaAbierta) /\ sp = pcbActual.stackPointer
          /\ v = memoria[sp] /\ c = PilaAbierta[n]
    OBVIOUS
  <2>3. id \in Nombres /\ ~EsArgumento(id)
    <3>1. Head(linea) \in Pasos
      BY <1>1, EnPasos
    <3> QED BY <1>1, <2>2, <3>1 DEF Pasos, Nombres, Letras, EsArgumento
  <2>4. id \notin Ids(c)
    BY <1>1, <1>4, <2>2, NombreLibre
  <2>5. v \in Valores
    BY <1>4, <2>2, DondeVa DEF Contenido
  <2>6. /\ Len(PilaAbierta') = n
        /\ \A k \in 1..n : PilaAbierta'[k] = IF k = n THEN Ampliado(PilaAbierta[k], id, sp) ELSE PilaAbierta[k]
        /\ PilaAbierta' = pcbActual'.stack
    BY <1>1, <1>4, <2>2, <2>3, PilaCrecida
  <2>7. PICK a : a = Activacion(Ampliado(c, id, sp), memoria)
    OBVIOUS
  <2>8. c \in Contextos /\ Unicos(c) /\ n \in 1..n
    BY <1>4, <2>2, PilaQueCorre DEF Todos
  <2>9. a = [Meaning!Actual EXCEPT !.vars = [x \in DOMAIN @ \cup {id} |-> IF x = id THEN v ELSE @[x]]]
    <3>1. PICK mem : mem = memoria
      OBVIOUS
    <3>2. Unicos(c) /\ c \in Contextos /\ ~EsArgumento(id) /\ id \notin Ids(c)
      BY <2>3, <2>4, <2>8
    <3>3. Activacion(Ampliado(c, id, sp), mem) = ConNombre(Activacion(c, mem), id, mem[sp])
      BY ONLY <3>2, UnaVariableMas
    <3>4. Meaning!Actual = Activacion(c, mem)
      BY <1>4, <2>2, <3>1, LasActivaciones
    <3> QED BY ONLY <2>2, <2>7, <3>1, <3>3, <3>4 DEF ConNombre
  <2>10. activaciones' = Meaning!WithLast(a)
    <3>1. \A k \in 1..n : Activacion(PilaAbierta'[k], memoria') = IF k = n THEN a
                                                                 ELSE Activacion(PilaAbierta[k], memoria)
      BY <1>1, <2>2, <2>6, <2>7
    <3> QED BY <1>4, <2>1, <2>2, <2>6, <3>1, CambiaLaUltima
  <2>11. pcbActual'.PC = pcbActual.PC
    <3>1. pcbActual \in [PC : Int, stackPointer : 0..Limite, stack : Pilas]
      BY DEF IInv, Tipos
    <3> QED BY <1>1, <1>4, <3>1 DEF Definida
  <2>12. /\ lineaVista = linea /\ lineaVista' = Tail(linea)
         /\ UNCHANGED <<programaVisto, siguiente, leidas, estado, avisos>>
    BY <1>1, <1>4, <2>1, <2>11, EnLaLinea
  <2>13. Meaning!Room
    BY <1>4, HayLugar
  <2>14. Meaning!Declares(v)
    BY <1>1, <1>4, <2>2, <2>9, <2>10, <2>12, <2>13 DEF Meaning!Declares, Meaning!Does
  <2> QED BY <2>5, <2>14 DEF Meaning!Next
<1> QED BY <1>2, <1>3, <1>4

LEMMA PasarRef ==
  ASSUME IInv, IInv', Fases, BienHecho, Contenido, PasarArgumento
  PROVE  [Meaning!Next]_(Meaning!vars)
<1>1. /\ en = "linea" /\ en' = "linea" /\ linea # <<>> /\ Head(linea).op = "pasar"
      /\ linea' = Tail(linea) /\ UNCHANGED <<programa, en, i, finPrograma, avisos, ocupada>>
      /\ IF Desborda THEN huboStackOver' = TRUE
                     ELSE /\ pcbActual' = Definida(Arg(Head(linea).n)) /\ UNCHANGED huboStackOver
                          /\ memoria' = Asignada(pcbActual.stackPointer, Head(linea).valor)
  BY DEF PasarArgumento, Toca, kernel
<1>2. CASE estado # "corre"
  <2>1. huboStackOver /\ estado = "desborda"
    BY <1>1, <1>2, Corre DEF Fases, estado
  <2>2. huboStackOver'
    BY <1>1, <2>1
  <2>3. estado' = "desborda"
    BY <2>2 DEF estado
  <2> QED BY <1>1, <2>1, <2>3, Quieto
<1>3. CASE estado = "corre" /\ Desborda
  <2>1. estado' = "desborda"
    BY <1>1, <1>3 DEF estado
  <2>2. avisos' = avisos + 0
    BY <1>1 DEF IInv, Tipos
  <2>3. Meaning!Stops("desborda", 0)
    BY <2>1, <2>2, Para
  <2>4. ~Meaning!Room
    BY <1>3, HayLugar
  <2>5. lineaVista = linea
    BY <1>3, SeVe DEF Visto
  <2>6. Meaning!Overflows
    BY <1>1, <1>3, <2>3, <2>4, <2>5 DEF Meaning!Overflows, Meaning!Does
  <2> QED BY <2>6 DEF Meaning!Next
<1>4. CASE estado = "corre" /\ ~Desborda
  <2>1. estado' = "corre"
    BY <1>1, <1>4, Corre, Correra
  <2>2. PICK id, n, v, c, sp, mem2 :
          id = Arg(Head(linea).n) /\ n = Len(PilaAbierta) /\ sp = pcbActual.stackPointer
          /\ v = Head(linea).valor /\ c = PilaAbierta[n] /\ mem2 = memoria'
    OBVIOUS
  <2>3. id \in Nombres /\ EsArgumento(id)
    <3>1. Head(linea) \in Pasos
      BY <1>1, EnPasos
    <3> QED BY <1>1, <2>2, <3>1 DEF Pasos, Nombres, Arg, EsArgumento
  <2>4. Cabe(v)
    BY <1>1, <1>4, <2>2 DEF BienHecho
  <2>5. /\ sp \in Posiciones /\ \A k \in 1..n : sp \notin Sitios(PilaAbierta[k])
    BY <1>4, <2>2, DondeVa
  <2>6. mem2[sp] = v /\ \A x \in Posiciones : x # sp => mem2[x] = memoria[x]
    <3>1. memoria \in [Posiciones -> Int]
      BY DEF IInv, Tipos
    <3>2. mem2 = Asignada(sp, v) /\ Envuelve(v) = v
      BY <1>1, <1>4, <2>2, <2>4 DEF Cabe
    <3> QED BY <2>5, <3>1, <3>2, Escribe
  <2>7. /\ Len(PilaAbierta') = n
        /\ \A k \in 1..n : PilaAbierta'[k] = IF k = n THEN Ampliado(PilaAbierta[k], id, sp) ELSE PilaAbierta[k]
        /\ PilaAbierta' = pcbActual'.stack
    BY <1>1, <1>4, <2>2, <2>3, PilaCrecida
  <2>8. c \in Contextos /\ n \in 1..n /\ Todos(PilaAbierta) /\ n = Len(PilaAbierta)
    BY <1>4, <2>2, PilaQueCorre
  <2>9. \A k \in 1..n : \A d \in Sitios(PilaAbierta[k]) : mem2[d] = memoria[d]
    <3>1. /\ PilaAbierta \in Pilas /\ EnCapas(PilaAbierta, sp) /\ sp \in 0..Limite
      BY <1>4, <2>2, PilaQueCorre
    <3>2. \A k \in 1..n : \A d \in Sitios(PilaAbierta[k]) : d \in Posiciones
      BY <2>8, <3>1, Sueltos
    <3> QED BY <2>5, <2>6, <3>2
  <2>10. PICK a : a = Activacion(Ampliado(c, id, sp), mem2)
    OBVIOUS
  <2>11. a = [Meaning!Actual EXCEPT !.args = Append(@, v)]
    <3>1. Unicos(c) /\ \A d \in Sitios(c) : mem2[d] = memoria[d]
      BY <2>2, <2>8, <2>9 DEF Todos
    <3>2. Activacion(Ampliado(c, id, sp), mem2) = [Activacion(c, memoria) EXCEPT !.args = Append(@, mem2[sp])]
      BY <2>3, <2>8, <3>1, UnArgumentoMas
    <3>3. Meaning!Actual = Activacion(c, memoria)
      BY <1>4, <2>2, LasActivaciones
    <3> QED BY <2>6, <2>10, <3>2, <3>3
  <2>12. \A k \in 1..n : Activacion(PilaAbierta'[k], mem2) = IF k = n THEN a
                                                            ELSE Activacion(PilaAbierta[k], memoria)
    <3>1. ASSUME NEW k \in 1..n, k # n
          PROVE  Activacion(PilaAbierta[k], mem2) = Activacion(PilaAbierta[k], memoria)
      <4>1. Unicos(PilaAbierta[k]) /\ \A d \in Sitios(PilaAbierta[k]) : mem2[d] = memoria[d]
        BY <2>8, <2>9 DEF Todos
      <4> QED BY <4>1, ActivacionIgual
    <3> QED BY <2>2, <2>7, <2>10, <3>1
  <2>13. activaciones' = Meaning!WithLast(a)
    BY <1>4, <2>1, <2>2, <2>7, <2>12, CambiaLaUltima
  <2>14. pcbActual'.PC = pcbActual.PC
    <3>1. pcbActual \in [PC : Int, stackPointer : 0..Limite, stack : Pilas]
      BY DEF IInv, Tipos
    <3> QED BY <1>1, <1>4, <3>1 DEF Definida
  <2>15. /\ lineaVista = linea /\ lineaVista' = Tail(linea)
         /\ UNCHANGED <<programaVisto, siguiente, leidas, estado, avisos>>
    BY <1>1, <1>4, <2>1, <2>14, EnLaLinea
  <2>16. Meaning!Room
    BY <1>4, HayLugar
  <2>17. Meaning!Passes
    BY <1>1, <1>4, <2>2, <2>11, <2>13, <2>15, <2>16 DEF Meaning!Passes, Meaning!Does
  <2> QED BY <2>17 DEF Meaning!Next
<1> QED BY <1>2, <1>3, <1>4

LEMMA AsignarRef ==
  ASSUME IInv, IInv', Fases, BienHecho, Contenido, Asignar
  PROVE  Meaning!Assigns
<1>1. PICK l, d, v, n, mem2 :
        /\ l = Head(linea) /\ d = ObtenerPosicionVariable(l.x) /\ v = Valor(l.y) + l.signo * Valor(l.z)
        /\ n = Len(PilaAbierta) /\ mem2 = memoria'
  OBVIOUS
<1>2. /\ en = "linea" /\ en' = "linea" /\ linea # <<>> /\ l.op = "asignar" /\ linea' = Tail(linea)
      /\ UNCHANGED <<pcbActual, programa, i, avisos>>
  BY <1>1 DEF Asignar, Toca, kernel
<1>3. /\ estado = "corre" /\ estado' = "corre" /\ l.x \in Nombres /\ l.y \in Operandos /\ l.z \in Operandos
      /\ Vale(l.y) /\ Vale(l.z) /\ mem2[d] = v /\ NombreEn(PilaAbierta[n], l.x, d)
      /\ \A x \in Posiciones : x # d => mem2[x] = memoria[x]
  BY <1>1, AsignarHace
<1>4. /\ PilaAbierta \in Pilas /\ EnCapas(PilaAbierta, pcbActual.stackPointer)
      /\ pcbActual.stackPointer \in 0..Limite /\ Todos(PilaAbierta) /\ n \in 1..Len(PilaAbierta)
  BY <1>1, <1>3, PilaQueCorre
<1>5. PICK a : a = Meaning!Assign(Activacion(PilaAbierta[n], memoria), l.x, v)
  OBVIOUS
<1>6. \A k \in 1..Len(PilaAbierta) :
        Activacion(PilaAbierta[k], mem2) = IF k = n THEN a ELSE Activacion(PilaAbierta[k], memoria)
  <2>1. PICK p, sp, mem, x : p = PilaAbierta /\ sp = pcbActual.stackPointer /\ mem = memoria /\ x = l.x
    OBVIOUS
  <2>2. p \in Pilas /\ EnCapas(p, sp) /\ sp \in 0..Limite /\ Todos(p) /\ n \in 1..Len(p)
    BY <1>4, <2>1
  <2>3. PICK c : c = p[n]
    OBVIOUS
  <2>4. NombreEn(c, x, d) /\ Pone(mem, mem2, d, v)
    BY <1>3, <2>1, <2>3 DEF Pone
  <2>5. Activacion(c, mem2) = Meaning!Assign(Activacion(c, mem), x, v)
    <3>1. Unicos(c) /\ Repartido(c)
      BY <2>2, <2>3, Sueltos DEF Todos
    <3>2. Sitios(c) \subseteq Posiciones
      BY <2>2, <2>3, Sueltos
    <3> QED BY ONLY <2>4, <3>1, <3>2, Cambia
  <2>6. d \in Sitios(p[n])
    BY <2>3, <2>4 DEF NombreEn, Sitios
  <2>7. ASSUME NEW k \in 1..Len(p), k # n PROVE Activacion(p[k], mem2) = Activacion(p[k], mem)
    BY ONLY <2>2, <2>4, <2>6, <2>7, NoCambia
  <2> QED BY <1>5, <2>1, <2>3, <2>5, <2>7
<1>7. PilaAbierta' = PilaAbierta
  BY <1>2 DEF PilaAbierta
<1>8. activaciones' = Meaning!WithLast(a)
  BY <1>1, <1>3, <1>6, <1>7, CambiaLaUltima
<1>9. a = Meaning!Assign(Meaning!Actual, l.x, Meaning!Lookup(Meaning!Actual, l.y)
                                              + l.signo * Meaning!Lookup(Meaning!Actual, l.z))
  <2>1. Meaning!Actual = Activacion(PilaAbierta[n], memoria)
    BY <1>1, <1>3, LasActivaciones
  <2>2. Meaning!Lookup(Meaning!Actual, l.y) = Valor(l.y) /\ Meaning!Lookup(Meaning!Actual, l.z) = Valor(l.z)
    BY <1>3, OperandoVisto
  <2> QED BY <1>1, <1>5, <2>1, <2>2
<1>10. /\ lineaVista = linea /\ lineaVista' = Tail(linea)
       /\ UNCHANGED <<programaVisto, siguiente, leidas, estado, avisos>>
  BY <1>2, <1>3, EnLaLinea
<1> QED BY <1>1, <1>2, <1>3, <1>8, <1>9, <1>10 DEF Meaning!Assigns, Meaning!Does

\* busquedaEtiqueta finds the label if it is the first one, and the only one of its name.
LEMMA EtiquetaVista ==
  ASSUME IInv, programa \in Programas, NEW e, Primera(e), programaVisto = programa
  PROVE  IrAlLabel(e) + 1 = Meaning!Etiqueta(e)
<1>1. PICK t : t = programa.indexTag[1]
  OBVIOUS
<1>2. programa.indexTag # <<>> /\ t.name = e /\ \A u \in ToSet(programa.indexTag) : u.name = e => u = t
  BY <1>1 DEF Primera
<1>3. t \in ToSet(programa.indexTag)
  <2>1. programa.indexTag \in Seq([name : STRING, PC : Nat])
    BY ProgramasAssumption DEF Codigos
  <2>2. Len(programa.indexTag) \in Nat /\ DOMAIN programa.indexTag = 1..Len(programa.indexTag)
        /\ Len(programa.indexTag) # 0
    BY <1>2, <2>1, LenProperties, EmptySeq
  <2>3. 1 \in DOMAIN programa.indexTag
    BY <2>2
  <2> QED BY <1>1, <2>3 DEF ToSet
<1>4. Meaning!Etiqueta(e) = t.PC
  <2>1. Meaning!Etiqueta(e) = (CHOOSE u \in ToSet(programa.indexTag) : u.name = e).PC
    BY Zenon DEF Meaning!Etiqueta, Meaning!ToSet, ToSet
  <2>2. PICK u : u = CHOOSE x \in ToSet(programa.indexTag) : x.name = e
    OBVIOUS
  <2>3. u \in ToSet(programa.indexTag) /\ u.name = e
    BY <1>2, <1>3, <2>2
  <2> QED BY <1>2, <2>1, <2>2, <2>3
<1>5. t.PC \in Nat
  BY <1>1, <1>2, CodigoTipos
<1>6. IrAlLabel(e) = t.PC - 1
  <2>1. BusquedaEtiqueta(e) = t.PC
    BY <1>1, <1>2 DEF BusquedaEtiqueta
  <2> QED BY <1>5, <2>1 DEF IrAlLabel
<1> QED BY <1>4, <1>5, <1>6

LEMMA SaltarRef ==
  ASSUME IInv, IInv', Fases, BienHecho, Contenido, Saltar
  PROVE  Meaning!Jumps
<1>1. PICK l : l = Head(linea)
  OBVIOUS
<1>2. /\ en = "linea" /\ en' = "linea" /\ linea # <<>> /\ l.op = "irAlLabel" /\ linea' = Tail(linea)
      /\ UNCHANGED <<memoria, programa, en, i, avisos, huboStackOver, finPrograma>>
      /\ pcbActual' = IF Valor(l.si) # 0 THEN [pcbActual EXCEPT !.PC = IrAlLabel(l.etiqueta)]
                                         ELSE pcbActual
  BY <1>1 DEF Saltar, Toca, kernel, flags
<1>3. estado = "corre" /\ l \in Lineas /\ programa \in Programas
  BY <1>1, <1>2, HaceLinea
<1>4. estado' = "corre"
  BY <1>2, <1>3, Corre, Correra
<1>5. Vale(l.si) /\ Primera(l.etiqueta) /\ l.si \in Operandos
  BY <1>1, <1>2, <1>3, LineaTipos DEF BienHecho
<1>6. /\ pcbActual'.stack = pcbActual.stack
      /\ pcbActual'.PC = IF Valor(l.si) # 0 THEN IrAlLabel(l.etiqueta) ELSE pcbActual.PC
  <2>1. pcbActual \in [PC : Int, stackPointer : 0..Limite, stack : Pilas]
    BY DEF IInv, Tipos
  <2> QED BY <1>2, <2>1
<1>7. activaciones' = activaciones
  BY <1>2, <1>3, <1>4, <1>6, MismasActivaciones
<1>8. /\ lineaVista = linea /\ lineaVista' = Tail(linea) /\ programaVisto = programa
      /\ siguiente = pcbActual.PC + 1 /\ siguiente' = pcbActual'.PC + 1
      /\ UNCHANGED <<programaVisto, leidas, estado, avisos>>
  BY <1>2, <1>3, <1>4, EnLaLinea
<1>9. siguiente' = IF Meaning!Lookup(Meaning!Actual, l.si) # 0 THEN Meaning!Etiqueta(l.etiqueta) ELSE siguiente
  <2>1. Meaning!Lookup(Meaning!Actual, l.si) = Valor(l.si)
    BY <1>3, <1>5, OperandoVisto
  <2>2. IrAlLabel(l.etiqueta) + 1 = Meaning!Etiqueta(l.etiqueta)
    BY <1>3, <1>5, <1>8, EtiquetaVista
  <2> QED BY <1>6, <1>8, <2>1, <2>2
<1> QED BY <1>1, <1>2, <1>3, <1>7, <1>8, <1>9 DEF Meaning!Jumps, Meaning!Does

LEMMA LlamarRef ==
  ASSUME IInv, IInv', Fases, BienHecho, Contenido, Llamar
  PROVE  Meaning!Calls
<1>1. PICK l, n, p, t : l = Head(linea) /\ p = pcbActual.stack /\ n = Len(p) /\ t = pcbActual'.stack
  OBVIOUS
<1>2. /\ en = "linea" /\ en' = "linea" /\ linea # <<>> /\ l.op = "llamar"
      /\ UNCHANGED <<memoria, programa, en, i, avisos, huboStackOver, finPrograma>>
      /\ linea' = Argumentos([k \in DOMAIN l.args |-> Valor(l.args[k])])
  BY <1>1 DEF Llamar, Toca, kernel, flags
<1>3. estado = "corre" /\ l \in Lineas /\ programa \in Programas
  BY <1>1, <1>2, HaceLinea
<1>4. estado' = "corre"
  BY <1>2, <1>3, Corre, Correra
<1>5. /\ p # <<>> /\ Primera(l.etiqueta) /\ \A k \in DOMAIN l.args : Vale(l.args[k])
  BY <1>1, <1>2, <1>3 DEF BienHecho
<1>6. /\ PilaAbierta = p /\ n \in Nat
  BY <1>1, <1>3, <1>5, PilaQueCorre
<1>7. PICK c : /\ t = Append(p, c) /\ c.args = <<>> /\ c.vars = <<>> /\ c.retPos = pcbActual.PC
  <2>1. pcbActual \in [PC : Int, stackPointer : 0..Limite, stack : Pilas]
    BY DEF IInv, Tipos
  <2>2. PICK r : pcbActual' = [pcbActual EXCEPT
                   !.stack = Append(@, NuevoContexto(pcbActual.PC, r)),
                   !.PC = IrAlLabel(Head(linea).etiqueta)]
    BY DEF Llamar
  <2>3. PICK c : c = NuevoContexto(pcbActual.PC, r)
    OBVIOUS
  <2>4. c.vars = <<>> /\ c.args = <<>> /\ c.retPos = pcbActual.PC
    BY <2>3 DEF NuevoContexto
  <2>5. t = Append(p, c)
    BY <1>1, <2>1, <2>2, <2>3
  <2> QED BY <2>4, <2>5
<1>8. Len(t) = n + 1 /\ t[n + 1] = c /\ \A k \in 1..n : t[k] = p[k]
  <2>1. p \in Pilas
    BY <1>1 DEF IInv, Tipos
  <2> QED BY <1>1, <1>7, <2>1, Largos
<1>9. pcbActual'.PC = IrAlLabel(l.etiqueta) /\ pcbActual.PC \in Int
  BY <1>1, LlamarPila DEF IInv, Tipos
<1>10. PilaAbierta' = t
  <2>1. t # <<>>
    BY <1>6, <1>8
  <2> QED BY <1>1, <2>1 DEF PilaAbierta
<1>11. PICK s, a : s = activaciones /\ a = Activacion(c, memoria)
  OBVIOUS
<1>12. /\ lineaVista = linea /\ lineaVista' = linea' /\ programaVisto = programa
       /\ siguiente = pcbActual.PC + 1 /\ siguiente' = pcbActual'.PC + 1
       /\ UNCHANGED <<programaVisto, leidas, estado, avisos>>
  BY <1>2, <1>3, <1>4, EnLaLinea
<1>13. a = [Meaning!Principal EXCEPT !.vuelve = siguiente]
  <2>1. Activacion(c, memoria) = [vars |-> <<>>, args |-> <<>>, vuelve |-> c.retPos + 1]
    BY <1>7, ActivacionVacia
  <2> QED BY <1>7, <1>11, <1>12, <2>1 DEF Meaning!Principal
<1>14. activaciones' = Append(s, a)
  <2>1. EsDe1A(n, s)
    BY <1>1, <1>3, <1>6, <1>11, LasActivaciones
  <2>2. \A k \in 1..n : s[k] = Activacion(p[k], memoria)
    BY <1>1, <1>3, <1>6, <1>11, LasActivaciones
  <2>3. n \in Nat
    BY <1>6
  <2>4. Append(s, a) = [k \in 1..(n + 1) |-> IF k = n + 1 THEN a ELSE s[k]]
    BY ONLY <2>1, <2>3, UnoMas
  <2>5. activaciones' = [k \in 1..(n + 1) |-> Activacion(t[k], memoria)]
    BY <1>2, <1>4, <1>8, <1>10, SeVera DEF Visto
  <2>6. \A k \in 1..(n + 1) : k = n + 1 \/ k \in 1..n
    BY <2>3
  <2>7. \A k \in 1..(n + 1) : Activacion(t[k], memoria) = IF k = n + 1 THEN a ELSE s[k]
    BY ONLY <1>8, <1>11, <2>2, <2>6
  <2> QED BY ONLY <2>4, <2>5, <2>7
<1>15. linea' = Meaning!Argumentos([k \in DOMAIN l.args |-> Meaning!Lookup(Meaning!Actual, l.args[k])])
  <2>1. ASSUME NEW k \in DOMAIN l.args
        PROVE  Meaning!Lookup(Meaning!Actual, l.args[k]) = Valor(l.args[k])
    <3>1. l.args[k] \in Operandos
      <4>1. l.args \in Seq(Operandos)
        BY <1>2, <1>3, LineaTipos
      <4> QED BY <4>1
    <3> QED BY <1>3, <1>5, <3>1, OperandoVisto
  <2>2. [k \in DOMAIN l.args |-> Meaning!Lookup(Meaning!Actual, l.args[k])]
          = [k \in DOMAIN l.args |-> Valor(l.args[k])]
    BY <2>1
  <2>3. PICK w : w = [k \in DOMAIN l.args |-> Valor(l.args[k])]
    OBVIOUS
  <2>4. Meaning!Argumentos(w) = Argumentos(w)
    BY Zenon DEF Meaning!Argumentos, Argumentos
  <2> QED BY <1>2, <2>2, <2>3, <2>4
<1>16. siguiente' = Meaning!Etiqueta(l.etiqueta)
  <2>1. IrAlLabel(l.etiqueta) + 1 = Meaning!Etiqueta(l.etiqueta)
    BY <1>3, <1>5, <1>12, EtiquetaVista
  <2> QED BY <1>9, <1>12, <2>1
<1> QED BY <1>1, <1>2, <1>3, <1>11, <1>12, <1>13, <1>14, <1>15, <1>16 DEF Meaning!Calls, Meaning!Does

\* What the end of a call leaves: its callers.
LEMMA Cierra ==
  ASSUME IInv, Contenido, estado = "corre", CerrarContexto
  PROVE  /\ PilaAbierta \in Pilas /\ Len(PilaAbierta) \in Nat
         /\ \/ Len(PilaAbierta) = 1 /\ finPrograma' = TRUE /\ FinalizarPor
            \/ /\ Len(PilaAbierta) > 1 /\ PilaAbierta = pcbActual.stack
               /\ Len(pcbActual'.stack) = Len(PilaAbierta) - 1
               /\ \A k \in 1..(Len(PilaAbierta) - 1) : pcbActual'.stack[k] = PilaAbierta[k]
               /\ pcbActual'.PC = Contexto.retPos /\ UNCHANGED <<finPrograma, avisos, ocupada>>
<1>1. PICK p, n, t : p = PilaAbierta /\ n = Len(p) /\ t = pcbActual'.stack
  OBVIOUS
<1>2. p \in Pilas /\ n \in Nat /\ n > 0
  BY <1>1, PilaQueCorre
<1>3. pcbActual \in [PC : Int, stackPointer : 0..Limite, stack : Pilas]
  BY DEF IInv, Tipos
<1>4. CASE pcbActual.stack = <<>>
  <2>1. n = 1
    BY <1>1, <1>4 DEF PilaAbierta
  <2>2. finPrograma' = TRUE /\ FinalizarPor
    BY <1>4 DEF CerrarContexto
  <2> QED BY <1>1, <1>2, <2>1, <2>2
<1>5. CASE pcbActual.stack # <<>>
  <2>1. p = pcbActual.stack
    BY <1>1, <1>5, PilaQueCorre
  <2>2. PICK u, m : u = Front(p) /\ m = n - 1
    OBVIOUS
  <2>3. m \in Nat /\ Len(u) = m /\ u \in Pilas /\ \A k \in 1..m : u[k] = p[k]
    <3>1. EnCapas(p, pcbActual.stackPointer) /\ pcbActual.stackPointer \in 0..Limite
      BY <1>1, PilaQueCorre
    <3>2. Limite \in Nat
      BY SizesAssumption DEF Limite
    <3>3. u \in Pilas /\ Len(u) = n - 1 /\ \A k \in 1..(n - 1) : u[k] = p[k]
      BY <1>1, <1>2, <2>2, <3>1, <3>2, SeCierra
    <3> QED BY <1>2, <2>2, <3>3
  <2>4. /\ IF u = <<>> THEN finPrograma' = TRUE /\ FinalizarPor
                      ELSE pcbActual'.PC = Contexto.retPos /\ UNCHANGED <<finPrograma, avisos, ocupada>>
        /\ t = u
    <3>1. PICK q : q = [pcbActual EXCEPT !.stack = u, !.stackPointer = Libre]
      OBVIOUS
    <3>2. IF u = <<>> THEN finPrograma' = TRUE /\ FinalizarPor /\ pcbActual' = q
                      ELSE /\ pcbActual' = [q EXCEPT !.PC = Contexto.retPos]
                           /\ UNCHANGED <<finPrograma, kernel>>
      BY <1>5, <2>1, <2>2, <3>1 DEF CerrarContexto
    <3>3. /\ q.stack = u /\ [q EXCEPT !.PC = Contexto.retPos].stack = u
          /\ [q EXCEPT !.PC = Contexto.retPos].PC = Contexto.retPos
      BY <1>3, <3>1
    <3> QED BY <1>1, <3>2, <3>3 DEF kernel
  <2>5. CASE u = <<>>
    <3>1. m = 0
      BY <2>3, <2>5
    <3>2. n = 1
      BY <1>2, <2>2, <3>1
    <3> QED BY <1>1, <1>2, <2>4, <2>5, <3>2
  <2>6. CASE u # <<>>
    <3>1. m # 0
      BY <2>3, <2>6, EmptySeq DEF Pilas
    <3>2. n > 1
      BY <1>2, <2>2, <2>3, <3>1
    <3> QED BY <1>1, <1>2, <2>1, <2>2, <2>3, <2>4, <2>6, <3>2
  <2> QED BY <2>5, <2>6
<1> QED BY <1>4, <1>5

\* The caller has what it had, but for what it got from the call.
LEMMA CerrarRef ==
  ASSUME IInv, IInv', Fases, Contenido, estado = "corre", CerrarContexto, en = "linea", linea # <<>>,
         NEW a,
         Len(PilaAbierta) > 1 =>
           \A k \in 1..(Len(PilaAbierta) - 1) :
             Activacion(PilaAbierta[k], memoria')
               = IF k = Len(PilaAbierta) - 1 THEN a ELSE Activacion(PilaAbierta[k], memoria)
  PROVE  Meaning!Leaves(a)
<1>1. PICK p, n, s, m, t : p = PilaAbierta /\ n = Len(p) /\ s = activaciones /\ m = n - 1 /\ t = pcbActual'.stack
  OBVIOUS
<1>2. UNCHANGED <<programa, en, i, huboStackOver>> /\ linea' = Tail(linea)
  BY DEF CerrarContexto
<1>3. ~huboStackOver /\ ~finPrograma
  BY Corre
<1>4. n \in Nat
  BY <1>1, PilaQueCorre
<1>5. EsDe1A(n, s) /\ Len(s) = n /\ \A k \in 1..n : s[k] = Activacion(p[k], memoria)
  BY <1>1, LasActivaciones
<1>6. CASE n = 1 /\ finPrograma' = TRUE /\ FinalizarPor
  <2>1. avisos' = avisos + 1 /\ ocupada' = FALSE
    BY <1>6 DEF FinalizarPor
  <2>2. estado' = "libre"
    BY <1>2, <1>3, <1>6, <2>1 DEF estado
  <2>3. Meaning!Stops("libre", 1)
    BY <2>1, <2>2, Para
  <2> QED BY <1>1, <1>5, <1>6, <2>3 DEF Meaning!Leaves
<1>7. CASE /\ n > 1 /\ p = pcbActual.stack /\ Len(t) = m
           /\ \A k \in 1..m : t[k] = p[k]
           /\ pcbActual'.PC = Contexto.retPos /\ UNCHANGED <<finPrograma, avisos, ocupada>>
  <2>1. estado' = "corre"
    BY <1>2, <1>3, <1>7, Correra
  <2>2. /\ lineaVista = linea /\ lineaVista' = linea' /\ siguiente' = pcbActual'.PC + 1
        /\ UNCHANGED <<programaVisto, leidas, estado, avisos>>
    BY <1>2, <1>7, <2>1, EnLaLinea
  <2>3. Meaning!Actual.vuelve = Contexto.retPos + 1
    <3>1. p # <<>>
      BY <1>1, <1>7
    <3>2. Contexto = p[n] /\ Unicos(p[n])
      BY <1>1, <1>7, <3>1, PilaQueCorre DEF Todos
    <3>3. Meaning!Actual = Activacion(p[n], memoria)
      BY <1>1, LasActivaciones
    <3>4. PICK c : c = p[n]
      OBVIOUS
    <3>5. Activacion(c, memoria).vuelve = c.retPos + 1
      BY DEF Activacion
    <3> QED BY <3>2, <3>3, <3>4, <3>5
  <2>4. PilaAbierta' = t
    <3>1. t # <<>>
      BY <1>4, <1>7, <1>1
    <3> QED BY <1>1, <3>1 DEF PilaAbierta
  <2>5. activaciones' = [k \in 1..m |-> Activacion(t[k], memoria')]
    BY <1>1, <1>7, <2>1, <2>4, SeVera DEF Visto
  <2>6. \A k \in 1..m : Activacion(t[k], memoria') = IF k = m THEN a ELSE s[k]
    <3>1. \A k \in 1..m : k \in 1..n
      BY <1>1, <1>4
    <3> QED BY <1>1, <1>5, <1>7, <3>1
  <2>7. activaciones' = Ultimo(m, s, a)
    BY <2>5, <2>6 DEF Ultimo
  <2>8. SubSeq(s, 1, n - 2) \o <<a>> = Ultimo(n - 1, s, a)
    <3>1. EsDe1A(n, s)
      BY <1>5
    <3>2. n > 1 => SubSeq(s, 1, n - 2) \o <<a>> = Ultimo(n - 1, s, a)
      BY ONLY <1>4, <3>1, AlFinal
    <3> QED BY <1>7, <3>2
  <2>9. activaciones' = SubSeq(activaciones, 1, Len(activaciones) - 2) \o <<a>>
    BY <1>1, <1>5, <2>7, <2>8
  <2>10. siguiente' = Meaning!Actual.vuelve /\ lineaVista' = Tail(lineaVista) /\ Len(activaciones) # 1
    BY <1>1, <1>2, <1>5, <1>7, <2>2, <2>3
  <2> QED BY ONLY <2>2, <2>9, <2>10 DEF Meaning!Leaves
<1> QED BY <1>1, <1>6, <1>7, Cierra

LEMMA FinalizarRef ==
  ASSUME IInv, IInv', Fases, BienHecho, Contenido, Finalizar
  PROVE  Meaning!Ends
<1>1. /\ en = "linea" /\ linea # <<>> /\ Head(linea).op = "finalizar" /\ CerrarContexto /\ memoria' = memoria
  BY DEF Finalizar, Toca
<1>2. estado = "corre"
  BY <1>1, HaceLinea
<1>3. PICK a, n, p, s : /\ a = (IF Len(activaciones) = 1 THEN Meaning!Actual ELSE Meaning!Caller)
                        /\ p = PilaAbierta /\ n = Len(p) /\ s = activaciones
  OBVIOUS
<1>4. n \in Nat /\ Len(s) = n /\ \A k \in 1..n : s[k] = Activacion(p[k], memoria)
  BY <1>2, <1>3, PilaQueCorre, LasActivaciones
<1>5. n > 1 => a = Activacion(p[n - 1], memoria)
  <2>1. n > 1 => n - 1 \in 1..n
    BY <1>4
  <2>2. n > 1 => a = s[n - 1]
    BY <1>3, <1>4 DEF Meaning!Caller
  <2> QED BY <1>4, <2>1, <2>2
<1>6. n > 1 => \A k \in 1..(n - 1) : Activacion(p[k], memoria')
                                      = IF k = n - 1 THEN a ELSE Activacion(p[k], memoria)
  BY <1>1, <1>5
<1>7. Meaning!Leaves(a)
  BY <1>1, <1>2, <1>3, <1>6, CerrarRef
<1>8. lineaVista = linea
  BY <1>2, SeVe DEF Visto
<1> QED BY <1>1, <1>2, <1>3, <1>7, <1>8 DEF Meaning!Ends, Meaning!Does

LEMMA RetornarRef ==
  ASSUME IInv, IInv', Fases, BienHecho, CallersWait, Contenido, Retornar
  PROVE  Meaning!Returns
<1>1. /\ en = "linea" /\ linea # <<>> /\ Head(linea).op = "retornar" /\ CerrarContexto
  BY DEF Retornar, Toca
<1>2. estado = "corre"
  BY <1>1, HaceLinea
<1>3. PICK a, n, p, s, y :
        /\ a = (IF Len(activaciones) = 1 THEN Meaning!Actual
                ELSE LET x == Meaning!Instruccion(programaVisto, Meaning!Actual.vuelve - 1).ret
                     IN  IF x = Meaning!Nadie THEN Meaning!Caller
                         ELSE Meaning!Assign(Meaning!Caller, x, Meaning!Lookup(Meaning!Actual, Head(lineaVista).y)))
        /\ p = PilaAbierta /\ n = Len(p) /\ s = activaciones /\ y = Head(linea).y
  OBVIOUS
<1>4. n \in Nat /\ Len(s) = n /\ \A k \in 1..n : s[k] = Activacion(p[k], memoria)
  BY <1>2, <1>3, PilaQueCorre, LasActivaciones
<1>5. lineaVista = linea /\ programaVisto = programa
  BY <1>2, SeVe DEF Visto
<1>6. ASSUME n > 1
      PROVE  \A k \in 1..(n - 1) : Activacion(p[k], memoria')
                                     = IF k = n - 1 THEN a ELSE Activacion(p[k], memoria)
  <2>1. p = pcbActual.stack /\ Contexto = p[n] /\ p \in Pilas
    <3>1. pcbActual.stack # <<>>
      BY <1>3, <1>6 DEF PilaAbierta
    <3> QED BY <1>2, <1>3, <3>1, PilaQueCorre
  <2>2. PICK x, d, v, c, m, mem, mem2 :
          /\ x = Instruccion(programa, Contexto.retPos).ret /\ d = Contexto.retVar /\ v = Valor(y)
          /\ m = n - 1 /\ c = p[m] /\ mem = memoria /\ mem2 = memoria'
    OBVIOUS
  <2>3. /\ y \in Operandos /\ Vale(y) /\ x # Nadie /\ mem2[d] = v
        /\ \E j \in DOMAIN c.vars : c.vars[j] = [id |-> x, pos |-> d]
        /\ \A z \in Posiciones : z # d => mem2[z] = mem[z]
    BY <1>3, <1>6, <2>1, <2>2, RetornarHace
  <2>4. Pone(mem, mem2, d, v)
    BY <2>3 DEF Pone
  <2>5. x \in Letras
    <3>1. n \in DOMAIN p \ {1}
      BY <1>3, <1>4, <1>6, <2>1, Largos
    <3>2. PICK l : l = Instruccion(programa, p[n].retPos)
      OBVIOUS
    <3>3. l.op = "llamar" /\ p[n].retPos \in Lugares(programa)
      BY <2>1, <3>1, <3>2 DEF IInv, EnPrograma
    <3>4. programa \in Programas
      BY <1>1, HaceLinea
    <3>5. l \in Lineas
      BY <3>2, <3>3, <3>4, CodigoTipos
    <3> QED BY <2>1, <2>2, <2>3, <3>2, <3>3, <3>5, LineaTipos
  <2>6. NombreEn(c, x, d)
    BY <2>3, <2>5 DEF NombreEn, Letras, EsArgumento
  <2>7. m \in 1..n /\ n = Len(p) /\ m \in Nat
    BY <1>3, <1>4, <1>6, <2>2
  <2>8. EnCapas(p, pcbActual.stackPointer) /\ pcbActual.stackPointer \in 0..Limite /\ Todos(p)
    BY <1>2, <1>3, PilaQueCorre
  <2>9. Unicos(c) /\ Repartido(c) /\ Sitios(c) \subseteq Posiciones
    <3>1. Unicos(c)
      BY <2>2, <2>7, <2>8 DEF Todos
    <3>2. Repartido(c) /\ \A z \in Sitios(c) : z \in Posiciones
      BY <2>1, <2>2, <2>7, <2>8, Sueltos
    <3> QED BY <3>1, <3>2
  <2>10. Activacion(c, mem2) = Meaning!Assign(Activacion(c, mem), x, v)
    BY ONLY <2>4, <2>6, <2>9, Cambia
  <2>11. d \in Sitios(c)
    BY <2>3 DEF Sitios
  <2>12. ASSUME NEW k \in 1..n, k # m PROVE Activacion(p[k], mem2) = Activacion(p[k], mem)
    <3>1. PICK sp : sp = pcbActual.stackPointer
      OBVIOUS
    <3>2. /\ p \in Pilas /\ EnCapas(p, sp) /\ sp \in 0..Limite /\ Todos(p) /\ m \in 1..Len(p)
          /\ k \in 1..Len(p) /\ k # m /\ d \in Sitios(p[m])
      BY <2>1, <2>2, <2>7, <2>8, <2>11, <2>12, <3>1
    <3> QED BY ONLY <2>4, <3>2, NoCambia
  <2>13. a = Activacion(c, mem2)
    <3>1. Meaning!Caller = Activacion(c, mem)
      BY <1>3, <1>4, <2>2, <2>7 DEF Meaning!Caller
    <3>2. Meaning!Actual.vuelve - 1 = Contexto.retPos
      <4>1. Meaning!Actual = Activacion(p[n], memoria)
        BY <1>2, <1>3, LasActivaciones
      <4>2. PICK b : b = p[n]
        OBVIOUS
      <4>3. Activacion(b, memoria).vuelve = b.retPos + 1
        BY DEF Activacion
      <4>4. b.retPos \in Int
        BY <1>2, <1>3, <4>2, PilaQueCorre, ContextoTipos
      <4>5. PICK r : r = b.retPos
        OBVIOUS
      <4>6. r \in Int /\ Meaning!Actual.vuelve = r + 1 /\ Contexto.retPos = r
        BY <2>1, <4>1, <4>2, <4>3, <4>4, <4>5
      <4> QED BY ONLY <4>6
    <3>3. Meaning!Instruccion(programaVisto, Meaning!Actual.vuelve - 1).ret = x
      <4>1. Meaning!Instruccion(programa, Contexto.retPos) = Instruccion(programa, Contexto.retPos)
        BY Zenon DEF Meaning!Instruccion, Instruccion
      <4> QED BY <1>5, <2>2, <3>2, <4>1
    <3>4. Meaning!Nadie = Nadie
      BY Zenon DEF Meaning!Nadie, Nadie
    <3>5. Meaning!Lookup(Meaning!Actual, y) = v
      BY <1>2, <2>2, <2>3, OperandoVisto
    <3>6. Len(activaciones) # 1
      BY <1>3, <1>4, <1>6
    <3>7. a = Meaning!Assign(Meaning!Caller, x, Meaning!Lookup(Meaning!Actual, Head(lineaVista).y))
      BY <1>3, <2>3, <3>3, <3>4, <3>6
    <3> QED BY <1>3, <1>5, <2>10, <3>1, <3>5, <3>7
  <2>14. \A k \in 1..(n - 1) : k \in 1..n
    BY <1>4
  <2> QED BY <2>2, <2>12, <2>13, <2>14
<1>7. Meaning!Leaves(a)
  BY <1>1, <1>2, <1>3, <1>6, CerrarRef
<1> QED BY <1>1, <1>2, <1>3, <1>5, <1>7 DEF Meaning!Returns, Meaning!Does

----------------------------------------------------------------------------
(* The CPU implements the calls.                                           *)

\* What is known of a program that runs, besides where it is.
Rumbo == IInv /\ Fases /\ CallersWait /\ Contenido

LEMMA InitRumbo == Init => Rumbo
<1> SUFFICES ASSUME Init PROVE Rumbo
  OBVIOUS
<1>1. IInv /\ Fases
  BY InitIInv, InitFases
<1>2. CallersWait
  BY DEF Init, CallersWait, Vacio
<1>3. Contenido
  BY DEF Init, Contenido, estado
<1> QED BY <1>1, <1>2, <1>3 DEF Rumbo

LEMMA RumboStep == Rumbo /\ BienHecho /\ [Next]_vars => Rumbo'
<1> SUFFICES ASSUME Rumbo, BienHecho, [Next]_vars PROVE Rumbo'
  OBVIOUS
<1>1. IInv /\ Fases /\ CallersWait /\ Contenido
  BY DEF Rumbo
<1>2. IInv' /\ Fases'
  BY <1>1, IInvStep, FasesStep
<1>3. CallersWait'
  BY <1>1, BienDeclara, EsperanStep
<1>4. Contenido'
  BY <1>1, ContenidoStep
<1> QED BY <1>2, <1>3, <1>4 DEF Rumbo

LEMMA InitMeaning == Init => Meaning!Init
<1> SUFFICES ASSUME Init PROVE Meaning!Init
  OBVIOUS
<1>1. estado = "libre" /\ avisos = 0
  BY DEF Init, estado
<1>2. Visto
  BY InitIInv, SeVe
<1> QED BY <1>1, <1>2 DEF Visto, Meaning!Init, Meaning!SinPrograma, SinPrograma

\* Every step of the CPU is a step of the calls, or none they see.
LEMMA RefStep == Rumbo /\ BienHecho /\ [Next]_vars => [Meaning!Next]_(Meaning!vars)
<1> SUFFICES ASSUME Rumbo, BienHecho, [Next]_vars PROVE [Meaning!Next]_(Meaning!vars)
  OBVIOUS
<1>1. IInv /\ Fases /\ CallersWait /\ Contenido
  BY DEF Rumbo
<1>2. IInv'
  BY <1>1, IInvStep
<1>3. ASSUME NEW p \in Programas, RecibirPCB(p) PROVE Meaning!Next
  BY <1>1, <1>2, <1>3, RecibirRef DEF Meaning!Next
<1>4. CASE PedirProximaInstruccion
  BY <1>1, <1>2, <1>4, PedirRef DEF Meaning!Next
<1>5. CASE FinDeQuantum
  BY <1>1, <1>2, <1>5, FinDeQuantumRef DEF Meaning!Next
<1>6. CASE TerminarEjecucion \/ Continuar
  BY <1>1, <1>2, <1>6, TerminarRef, ContinuarRef
<1>7. CASE DefinirVariable \/ PasarArgumento
  BY <1>1, <1>2, <1>7, DefinirRef, PasarRef
<1>8. CASE Asignar
  BY <1>1, <1>2, <1>8, AsignarRef DEF Meaning!Next
<1>9. CASE Saltar
  BY <1>1, <1>2, <1>9, SaltarRef DEF Meaning!Next
<1>10. CASE Llamar
  BY <1>1, <1>2, <1>10, LlamarRef DEF Meaning!Next
<1>11. CASE Finalizar
  BY <1>1, <1>2, <1>11, FinalizarRef DEF Meaning!Next
<1>12. CASE Retornar
  BY <1>1, <1>2, <1>12, RetornarRef DEF Meaning!Next
<1>13. CASE UNCHANGED vars
  <2>1. UNCHANGED <<pcbActual, memoria, programa, linea, en, i, huboStackOver, finPrograma, avisos, ocupada>>
    BY <1>13 DEF vars, flags, kernel
  <2>2. UNCHANGED <<estado, activaciones, programaVisto, lineaVista, siguiente, leidas>>
    BY <2>1 DEF estado, activaciones, programaVisto, lineaVista, siguiente, leidas
  <2> QED BY <2>1, <2>2 DEF Meaning!vars
<1> QED BY <1>3, <1>4, <1>5, <1>6, <1>7, <1>8, <1>9, <1>10, <1>11, <1>12, <1>13 DEF Next

\* CPU.c: the one stack of bytes with its index, the stack pointer and the
\* program counter do what an activation for each call does, whatever the
\* programs, the size of the stack and the quantum, as long as the programs are
\* such that the known disagreements (labels, 16 bits, names nobody declared)
\* do not arise.
THEOREM CallsAreImplemented == Spec /\ []BienHecho => ImplementsCalls
<1>1. Init => Rumbo
  BY InitRumbo
<1>2. Rumbo /\ BienHecho /\ [Next]_vars => Rumbo'
  BY RumboStep
<1>3. Init => Meaning!Init
  BY InitMeaning
<1>4. Rumbo /\ BienHecho /\ [Next]_vars => [Meaning!Next]_(Meaning!vars)
  BY RefStep
<1> QED BY <1>1, <1>2, <1>3, <1>4, PTL DEF Spec, ImplementsCalls, Meaning!Spec
=============================================================================
