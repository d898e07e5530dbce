------------------------- MODULE PlanificadorProofs -------------------------
(***************************************************************************)
(* The scheduler for every set of consoles and CPUs, every degree, every   *)
(* number of programs and whatever the users do.  Three parts: its state   *)
(* is well typed and programs go through the lists in the order they       *)
(* arrived; where the PCBs are, and who is told of their end; what the     *)
(* planner relies on from one step to the next.  Where a property holds    *)
(* only in the instances in which nobody does what breaks it, the          *)
(* assumption of its theorem names what must not happen.                   *)
(***************************************************************************)
EXTENDS Planificador, MlistProofs

\* The least of a non-empty set of descriptors is in the set.
LEMMA LowestIn ==
  ASSUME NEW S \in SUBSET Nat, S # {}
  PROVE  Lowest(S) \in S /\ \A y \in S : Lowest(S) <= y
<1>1. PICK f \in S : TRUE
  OBVIOUS
<1>2. \E x \in S : \A y \in S : x <= y
  BY <1>1, LeastNatural
<1> QED BY <1>2 DEF Lowest

USE DEF ProgramIds, Status, ExitSuccessful, ExitResourceFail, ExitKilled, ExitConsoleKilled

TypeInv == TypeOK /\ InHand

\* The first state is well typed.
LEMMA InitTypeInv == Init => TypeInv
<1> SUFFICES ASSUME Init PROVE TypeInv
  OBVIOUS
<1> USE DEF Init
<1>1. TypeOK
  BY BoundsAssumption, EmptySeq DEF TypeOK, Places
<1>2. InHand
  BY DEF InHand
<1> QED BY <1>1, <1>2 DEF TypeInv

LEMMA MessageTypes ==
  /\ Msg("OP_NEW_PROGRAM", 0) \in Messages
  /\ Msg("OP_UNDEFINED", 0) \in Messages
  /\ \A p \in ProgramIds : Msg("OP_CPU_PROGRAM_END", p) \in Messages
BY DEF Msg, Messages

\* A message sent to the Kernel, and one it has read.
LEMMA InboxUpdates ==
  ASSUME inbox \in [Peers -> Seq(Messages)], NEW c \in Peers
  PROVE  /\ \A m \in Messages :
              /\ [inbox EXCEPT ![c] = Append(@, m)] \in [Peers -> Seq(Messages)]
              /\ \A f \in Peers : inbox[f] # <<>> => [inbox EXCEPT ![c] = Append(@, m)][f] # <<>>
         /\ inbox[c] # <<>> =>
              /\ [inbox EXCEPT ![c] = Tail(@)] \in [Peers -> Seq(Messages)]
              /\ Head(inbox[c]) \in Messages
<1>1. ASSUME NEW m \in Messages
      PROVE  Append(inbox[c], m) \in Seq(Messages) /\ Append(inbox[c], m) # <<>>
  BY AppendProperties
<1>2. inbox[c] # <<>> => Tail(inbox[c]) \in Seq(Messages) /\ Head(inbox[c]) \in Messages
  BY HeadTailProperties
<1> QED BY <1>1, <1>2

MainType == [at : Places, pid : Nat, code : Nat, nodo : Nat, res : BOOLEAN,
             rest : Seq(ProgramIds)]

TermType == [at : {"idle", "locking", "scan", "pop", "take", "append", "corrupt"},
             cola : {"NEW", "BLOCK", "READY"}, pid : Nat, i : Nat, nodo : Nat, aux : Nat,
             stop : BOOLEAN]

\* The updates of the main thread's locals.
LEMMA MainUpdates ==
  ASSUME NEW m \in MainType, NEW where \in Places, NEW x \in Nat, NEW b \in BOOLEAN
  PROVE  /\ [m EXCEPT !.at = where] \in MainType
         /\ [m EXCEPT !.at = where, !.code = x] \in MainType
         /\ [m EXCEPT !.at = where, !.nodo = x] \in MainType
         /\ [m EXCEPT !.at = where, !.pid = x, !.nodo = 0, !.res = b] \in MainType
         /\ [m EXCEPT !.at = where, !.pid = 0, !.code = 0, !.res = FALSE] \in MainType
BY DEF MainType

\* What "kill" does with the terminal's locals after each list.
LEMMA TermIdle ==
  LET t == [at |-> "idle", cola |-> "NEW", pid |-> 0, i |-> 0, nodo |-> 0, aux |-> 0,
            stop |-> FALSE]
  IN  t \in TermType /\ t.at \notin {"take", "append"}
BY DEF TermType

LEMMA TermNext ==
  ASSUME NEW t \in TermType, NEW q \in {"NEW", "BLOCK", "READY"}, NEW b \in BOOLEAN
  PROVE  LET u == [t EXCEPT !.at = "scan", !.cola = q, !.i = 0, !.aux = 0, !.stop = b]
         IN  u \in TermType /\ u.at \notin {"take", "append"}
BY DEF TermType

LEMMA TypeInvStep ==
  ASSUME TypeInv, Next
  PROVE  TypeInv'
<1> USE TypeInv, PeersAssumption, BoundsAssumption DEF TypeInv, tablas, clientes, red, MainGoes
<1>0. Consoles \subseteq Peers /\ Cpus \subseteq Peers /\ Peers \subseteq Nat \ {0}
      /\ inbox \in [Peers -> Seq(Messages)]
      /\ read_fds \in SUBSET (Peers \cup {SvSock}) /\ enviados \in Nat
      /\ paginas \in [Pids -> Nat] /\ cola \in [Status -> Seq(ProgramIds)]
      /\ codes_ms \in Seq(ProgramIds) /\ multipg_level \in Nat
      /\ exitCode \in [Pids -> {0, -1, -2, -6}]
  BY DEF Peers, TypeOK
<1>1. ASSUME NEW f \in Peers, Connects(f) PROVE TypeInv'
  <2>1. TypeOK'
    BY <1>1 DEF Connects, TypeOK
  <2>2. InHand'
    BY <1>1 DEF Connects, TypeOK, InHand
  <2> QED BY <2>1, <2>2
<1>2. ASSUME NEW c \in Consoles, SubmitsProgram(c) PROVE TypeInv'
  <2>1. /\ inbox' \in [Peers -> Seq(Messages)]
        /\ \A f \in Peers : inbox[f] # <<>> => inbox'[f] # <<>>
    BY <1>0, <1>2, MessageTypes, InboxUpdates DEF SubmitsProgram
  <2>4. enviados' \in Nat
    BY <1>0, <1>2 DEF SubmitsProgram
  <2>2. TypeOK'
    BY <1>2, <2>1, <2>4 DEF SubmitsProgram, TypeOK
  <2>3. InHand'
    BY <1>2, <2>1 DEF SubmitsProgram, TypeOK, InHand, SvSock
  <2> QED BY <2>2, <2>3
<1>3. ASSUME NEW c \in Consoles, Disconnects(c) PROVE TypeInv'
  <2>1. /\ inbox' \in [Peers -> Seq(Messages)]
        /\ \A f \in Peers : inbox[f] # <<>> => inbox'[f] # <<>>
    BY <1>0, <1>3, MessageTypes, InboxUpdates DEF Disconnects
  <2>2. TypeOK'
    BY <1>3, <2>1 DEF Disconnects, TypeOK
  <2>3. InHand'
    BY <1>3, <2>1 DEF Disconnects, TypeOK, InHand, SvSock
  <2> QED BY <2>2, <2>3
<1>4. ASSUME NEW c \in Cpus, FinishesProgram(c) PROVE TypeInv'
  <2>1. en_cpu[c] \in ProgramIds
    BY <1>4 DEF FinishesProgram, TypeOK
  <2>2. /\ inbox' \in [Peers -> Seq(Messages)]
        /\ \A f \in Peers : inbox[f] # <<>> => inbox'[f] # <<>>
    BY <1>0, <1>4, <2>1, MessageTypes, InboxUpdates DEF FinishesProgram
  <2>3. TypeOK'
    BY <1>4, <2>2 DEF FinishesProgram, TypeOK
  <2>4. InHand'
    BY <1>4, <2>2 DEF FinishesProgram, TypeOK, InHand, SvSock
  <2> QED BY <2>3, <2>4
<1>5. CASE Select
  <2>1. TypeOK'
    BY <1>5 DEF Select, Readable, TypeOK, Places
  <2>2. InHand'
    BY <1>0, <1>5 DEF Select, Readable, TypeOK, InHand, SvSock
  <2> QED BY <2>1, <2>2
<1>6. CASE Accepts
  <2> DEFINE S == {g \in Peers : peer[g] = "backlog"}
  <2>1. Lowest(S) \in S
    <3>1. S # {} /\ S \in SUBSET Nat
      BY <1>0, <1>6 DEF Accepts, Serving, InHand
    <3> QED BY <3>1, LowestIn
  <2> DEFINE f == Lowest(S)
  <2> f \in Peers
    BY <2>1
  <2> HIDE DEF S
  <2>2. /\ consolas_conectadas' \in Seq(Consoles)
        /\ cpu_conectadas' \in Seq(Cpus)
        /\ peer' \in [Peers -> {"out", "backlog", "open", "closed"}]
    BY <1>6, AppendProperties DEF Accepts, TypeOK, S
  <2>3. TypeOK'
    BY <1>6, <2>2 DEF Accepts, TypeOK
  <2>4. InHand'
    BY <1>6 DEF Accepts, TypeOK, InHand, Serving
  <2> QED BY <2>3, <2>4
\* A peer whose turn it is has sent something.
<1>7. ASSUME NEW f \in Peers, Serving(f) PROVE inbox[f] # <<>> /\ f \in read_fds /\ f # SvSock
  BY <1>0, <1>7 DEF Serving, InHand, SvSock
<1>8. ASSUME NEW c \in Consoles, NewProgram(c) PROVE TypeInv'
  <2> DEFINE p == generatorPid + 1
  <2>1. p \in ProgramIds /\ generatorPid' = p
    BY <1>8 DEF NewProgram, TypeOK
  <2>2. inbox' \in [Peers -> Seq(Messages)]
        /\ \A f \in Peers : f # c => inbox'[f] = inbox[f]
    BY <1>0, <1>7, <1>8, InboxUpdates DEF NewProgram
  <2>3. /\ codes_ms' \in Seq(ProgramIds)
        /\ pids' \in [Consoles -> Seq(ProgramIds)]
        /\ cola' \in [Status -> Seq(ProgramIds)]
    BY <1>8, <2>1, AppendProperties DEF NewProgram, NewPid, TypeOK
  <2>4. exitCode' \in [Pids -> {0, -1, -2, -6}]
    BY <1>8 DEF NewProgram, TypeOK
  <2>5. TypeOK'
    BY <1>8, <2>1, <2>2, <2>3, <2>4 DEF NewProgram, TypeOK
  <2>6. InHand'
    BY <1>8, <2>2 DEF NewProgram, TypeOK, InHand, SvSock, Serving
  <2> QED BY <2>5, <2>6
<1>9. ASSUME NEW c \in Consoles, ConsoleGone(c) PROVE TypeInv'
  <2>1. consolas_conectadas' \in Seq(Consoles) /\ main' \in MainType
    BY <1>9, WithoutProperties DEF ConsoleGone, TypeOK, Places, MainType
  <2>2. TypeOK'
    BY <1>9, <2>1 DEF ConsoleGone, TypeOK, MainType
  <2>3. InHand'
    BY <1>9 DEF ConsoleGone, TypeOK, InHand, Serving
  <2> QED BY <2>2, <2>3
<1>10. ASSUME NEW p \in ProgramIds, NEW code \in {0, -6}, EndProgram(p, code)
       PROVE  /\ cola' \in [Status -> Seq(ProgramIds)]
              /\ exitCode' \in [Pids -> {0, -1, -2, -6}]
              /\ avisos' \in [Pids -> Seq({0, -6})]
              /\ paginas' \in [Pids -> Nat]
  <2>1. \A q \in Status : /\ Without(cola[q], p) \in Seq(ProgramIds)
                           /\ Append(Without(cola[q], p), p) \in Seq(ProgramIds)
    BY WithoutProperties, AppendProperties DEF TypeOK
  <2>2. cola' \in [Status -> Seq(ProgramIds)]
    BY <1>10, <2>1 DEF EndProgram
  <2>3. \A x \in Pids : Append(avisos[x], code) \in Seq({0, -6})
    BY AppendProperties DEF TypeOK
  <2>4. avisos' \in [Pids -> Seq({0, -6})]
    BY <1>10, <2>3 DEF EndProgram, TypeOK
  <2> QED BY <1>10, <2>2, <2>4 DEF EndProgram, TypeOK
<1>11. ASSUME NEW c \in Cpus, ProgramEnds(c) PROVE TypeInv'
  <2>1. Head(inbox[c]).pid \in ProgramIds
    BY <1>0, <1>7, <1>11, InboxUpdates DEF ProgramEnds, Messages
  <2>2. inbox' \in [Peers -> Seq(Messages)]
        /\ \A f \in Peers : f # c => inbox'[f] = inbox[f]
    BY <1>0, <1>7, <1>11, InboxUpdates DEF ProgramEnds
  <2>3. cpu_executing' \in Seq(Cpus) /\ cpu_conectadas' \in Seq(Cpus)
    BY <1>11, WithoutProperties, AppendProperties DEF ProgramEnds, RestoreCPU, TypeOK
  <2>4. TypeOK'
    BY <1>10, <1>11, <2>1, <2>2, <2>3 DEF ProgramEnds, TypeOK
  <2>5. InHand'
    BY <1>11, <2>2 DEF ProgramEnds, TypeOK, InHand, Serving
  <2> QED BY <2>4, <2>5
<1>12. CASE LooksUp
  <2>1. main \in MainType /\ main.rest # <<>> /\ main.at = "destroy"
    BY <1>12 DEF LooksUp, TypeOK, MainType
  <2>2. main' = [main EXCEPT !.at = "end"] \/ main' = [main EXCEPT !.rest = Tail(@)]
    BY <1>12 DEF LooksUp
  <2>3. UNCHANGED <<cola, tablas, clientes, mutex, read_fds, term, red>>
    BY <1>12 DEF LooksUp
  <2>4. /\ main' \in MainType /\ main'.at \in {"destroy", "end"}
        /\ main'.at = "end" => main'.rest # <<>>
    <3>1. Tail(main.rest) \in Seq(ProgramIds)
      BY <2>1, HeadTailProperties DEF MainType
    <3>2. CASE main' = [main EXCEPT !.at = "end"]
      BY <2>1, <3>2 DEF MainType, Places
    <3>3. CASE main' = [main EXCEPT !.rest = Tail(@)]
      BY <2>1, <3>1, <3>3 DEF MainType
    <3> QED BY <2>2, <3>2, <3>3
  <2>5. TypeOK'
    BY <2>3, <2>4 DEF TypeOK, MainType
  <2>6. InHand'
    BY <2>1, <2>3, <2>4 DEF InHand
  <2> QED BY <2>5, <2>6
<1>13. CASE EndsOrphan
  <2>1. Head(main.rest) \in ProgramIds /\ Tail(main.rest) \in Seq(ProgramIds)
    BY <1>13, HeadTailProperties DEF EndsOrphan, InHand, TypeOK
  <2>2. main' \in MainType
    BY <1>13, <2>1 DEF EndsOrphan, TypeOK, Places, MainType
  <2>3. TypeOK'
    BY <1>10, <1>13, <2>1, <2>2 DEF EndsOrphan, TypeOK, MainType
  <2>4. InHand'
    BY <1>13 DEF EndsOrphan, TypeOK, InHand
  <2> QED BY <2>3, <2>4
<1>14. CASE ClosesConsole
  <2> DEFINE c == Lowest(read_fds)
  <2>1. c \in Consoles /\ c \in Peers
    BY <1>0, <1>14 DEF ClosesConsole, InHand
  <2> HIDE DEF c
  <2>2. /\ pids' = [pids EXCEPT ![c] = <<>>]
        /\ peer' = [peer EXCEPT ![c] = "closed"]
        /\ inbox' = [inbox EXCEPT ![c] = <<>>]
        /\ read_fds' = read_fds \ {c}
    BY <1>14 DEF ClosesConsole, c
  <2>3. /\ pids' \in [Consoles -> Seq(ProgramIds)]
        /\ inbox' \in [Peers -> Seq(Messages)]
        /\ peer' \in [Peers -> {"out", "backlog", "open", "closed"}]
    BY <1>0, <2>1, <2>2, EmptySeq DEF TypeOK
  <2>4. TypeOK'
    BY <1>14, <2>1, <2>2, <2>3 DEF ClosesConsole, TypeOK, Places
  <2>5. SvSock \notin read_fds
    <3>1. read_fds # {} /\ read_fds \in SUBSET Nat
      BY <1>0, <1>14 DEF ClosesConsole, InHand, SvSock
    <3>2. \A y \in read_fds : c <= y
      BY <3>1, LowestIn DEF c
    <3> QED BY <1>0, <2>1, <3>2 DEF SvSock
  <2>6. InHand'
    BY <1>0, <1>14, <2>1, <2>2, <2>5 DEF ClosesConsole, TypeOK, InHand
  <2> QED BY <2>4, <2>6
<1>15. main \in MainType /\ \A where \in Places : [main EXCEPT !.at = where] \in MainType
  <2>1. main \in MainType
    BY DEF TypeOK, MainType
  <2> QED BY <2>1, MainUpdates
<1>16. CASE LocksPlanning
  <2>1. TypeOK'
    BY <1>15, <1>16 DEF LocksPlanning, TypeOK, Places, MainType
  <2>2. InHand'
    BY <1>16 DEF LocksPlanning, TypeOK, InHand
  <2> QED BY <2>1, <2>2
<1>17. CASE Admits
  <2>1. codes_ms # <<>> => Head(codes_ms) \in ProgramIds /\ Tail(codes_ms) \in Seq(ProgramIds)
    BY HeadTailProperties DEF TypeOK
  <2>2. main' \in MainType /\ codes_ms' \in Seq(ProgramIds)
    <3>1. CASE codes_ms = <<>>
      <4>1. main' = [main EXCEPT !.at = "crashed"] /\ codes_ms' = codes_ms
        BY <1>17, <3>1 DEF Admits
      <4> QED BY <1>0, <1>15, <4>1 DEF Places, MainType
    <3>2. CASE codes_ms # <<>>
      <4>1. /\ main' = [main EXCEPT !.at = "pop_new", !.code = Head(codes_ms)]
            /\ codes_ms' = Tail(codes_ms)
        BY <1>17, <3>2 DEF Admits
      <4>2. Head(codes_ms) \in Nat /\ Tail(codes_ms) \in Seq(ProgramIds)
        BY <2>1, <3>2
      <4>3. \A x \in Nat : [main EXCEPT !.at = "pop_new", !.code = x] \in MainType
        BY <1>15, MainUpdates DEF Places
      <4> QED BY <4>1, <4>2, <4>3
    <3> QED BY <3>1, <3>2
  <2>3. TypeOK'
    BY <1>17, <2>2 DEF Admits, TypeOK, MainType, TermType
  <2>4. InHand'
    BY <1>15, <1>17, <2>1 DEF Admits, InHand, MainType
  <2> QED BY <2>3, <2>4
<1>18. CASE AdmitsNone
  <2>1. TypeOK'
    BY <1>15, <1>18 DEF AdmitsNone, TypeOK, Places, MainType
  <2>2. InHand'
    BY <1>15, <1>18 DEF AdmitsNone, InHand, MainType
  <2> QED BY <2>1, <2>2
<1>19. ASSUME NEW granted \in BOOLEAN, AsksForPages(granted) PROVE TypeInv'
  <2> DEFINE p == main.nodo
  <2>1. p \in ProgramIds /\ Removed(cola["NEW"], p) \in Seq(ProgramIds)
    BY <1>0, <1>19, RemovedList DEF AsksForPages
  <2>2. /\ cola' = [cola EXCEPT !["NEW"] = Removed(@, p)]
        /\ main' = [main EXCEPT !.at = "admitted", !.pid = p, !.nodo = 0, !.res = granted]
        /\ paginas' = IF granted THEN [paginas EXCEPT ![p] = main.code] ELSE paginas
    BY <1>19 DEF AsksForPages
  <2> HIDE DEF p
  <2>3. \A x \in Nat, b \in BOOLEAN :
           [main EXCEPT !.at = "admitted", !.pid = x, !.nodo = 0, !.res = b] \in MainType
    BY <1>15, MainUpdates DEF Places
  <2>4. main' \in MainType
    BY <2>1, <2>2, <2>3
  <2>5. cola' \in [Status -> Seq(ProgramIds)]
    BY <1>0, <2>1, <2>2
  <2>6. paginas' \in [Pids -> Nat]
    <3>1. main.code \in Nat
      BY <1>15 DEF MainType
    <3> QED BY <1>0, <2>2, <3>1
  <2>7. TypeOK'
    BY <1>19, <2>4, <2>5, <2>6 DEF AsksForPages, TypeOK, MainType, TermType
  <2>8. UNCHANGED <<read_fds, inbox, peer, cpu_conectadas, term>>
    BY <1>19 DEF AsksForPages
  <2>9. main'.at = "admitted" /\ main'.pid # 0
    <3>1. p # 0
      BY <2>1 DEF ProgramIds
    <3> QED BY <1>15, <2>2, <3>1 DEF MainType
  <2>10. InHand'
    BY <2>8, <2>9 DEF InHand
  <2> QED BY <2>7, <2>10
<1>20. CASE EntersSystem
  <2>1. main.pid \in ProgramIds
    BY <1>15, <1>20 DEF EntersSystem, InHand, MainType
  <2>2. cola' \in [Status -> Seq(ProgramIds)]
    <3>1. PICK q \in Status : cola' = [cola EXCEPT ![q] = Append(@, main.pid)]
      BY <1>20 DEF EntersSystem, Status
    <3>2. Append(cola[q], main.pid) \in Seq(ProgramIds)
      BY <1>0, <2>1, AppendProperties
    <3> QED BY <1>0, <3>1, <3>2
  <2>3. main' \in MainType /\ exitCode' \in [Pids -> {0, -1, -2, -6}]
    <3>1. main' = [main EXCEPT !.at = "dispatch", !.pid = 0, !.code = 0, !.res = FALSE]
      BY <1>20 DEF EntersSystem
    <3>2. main' \in MainType
      BY <1>15, <3>1, MainUpdates DEF Places
    <3> QED BY <1>0, <1>20, <3>2 DEF EntersSystem
  <2>4. TypeOK'
    BY <1>20, <2>2, <2>3 DEF EntersSystem, TypeOK, MainType, TermType
  <2>5. InHand'
    BY <1>15, <1>20 DEF EntersSystem, InHand, MainType
  <2> QED BY <2>4, <2>5
<1>21. CASE CanDispatch
  <2>1. TypeOK'
    BY <1>15, <1>21 DEF CanDispatch, TypeOK, Places, MainType
  <2>2. InHand'
    BY <1>15, <1>21 DEF CanDispatch, InHand, MainType
  <2> QED BY <2>1, <2>2
<1>22. CASE Dispatches
  <2> DEFINE p == main.nodo
             c == Head(cpu_conectadas)
  <2>1. p \in ProgramIds /\ Removed(cola["READY"], p) \in Seq(ProgramIds)
    BY <1>0, <1>22, RemovedList DEF Dispatches
  <2>2. c \in Cpus /\ Tail(cpu_conectadas) \in Seq(Cpus)
    BY <1>22, HeadTailProperties DEF Dispatches, TypeOK, InHand
  <2>3. Append(cpu_executing, c) \in Seq(Cpus)
    BY <2>2, AppendProperties DEF TypeOK, MainType, TermType
  <2>4. Append(cola["EXEC"], p) \in Seq(ProgramIds)
    BY <2>1, AppendProperties DEF TypeOK, MainType, TermType
  <2>5. main' \in MainType /\ main'.at = "dispatch"
    <3>1. main' = [main EXCEPT !.at = "dispatch", !.nodo = 0]
      BY <1>22 DEF Dispatches
    <3>2. \A x \in Nat : [main EXCEPT !.at = "dispatch", !.nodo = x] \in MainType
      BY <1>15, MainUpdates DEF Places
    <3> QED BY <1>15, <3>1, <3>2 DEF MainType
  <2>9. /\ cola' = [cola EXCEPT !["READY"] = Removed(@, p), !["EXEC"] = Append(@, p)]
        /\ cpu_conectadas' = Tail(cpu_conectadas)
        /\ cpu_executing' = Append(cpu_executing, c)
        /\ en_cpu' = [en_cpu EXCEPT ![c] = p]
    BY <1>22 DEF Dispatches
  <2> HIDE DEF p, c
  <2>6. /\ cola' \in [Status -> Seq(ProgramIds)]
        /\ cpu_conectadas' \in Seq(Cpus) /\ cpu_executing' \in Seq(Cpus)
        /\ en_cpu' \in [Cpus -> Nat]
    BY <2>1, <2>2, <2>3, <2>4, <2>9 DEF TypeOK, MainType, TermType
  <2>7. TypeOK'
    BY <1>22, <2>5, <2>6 DEF Dispatches, TypeOK, MainType, TermType
  <2>8. InHand'
    BY <1>22, <2>5 DEF Dispatches, InHand, MainType
  <2> QED BY <2>7, <2>8
<1>23. CASE UnlocksPlanning
  <2>1. TypeOK'
    BY <1>15, <1>23 DEF UnlocksPlanning, TypeOK, Places, MainType
  <2>2. InHand'
    BY <1>15, <1>23 DEF UnlocksPlanning, InHand, MainType
  <2> QED BY <2>1, <2>2
<1>24. ASSUME NEW level \in Levels, MultipgCommand(level) PROVE TypeInv'
  <2>1. multipg_level' \in Nat
    BY <1>24 DEF MultipgCommand
  <2>2. TypeOK'
    BY <1>24, <2>1 DEF MultipgCommand, TypeOK, MainType, TermType
  <2>3. InHand'
    BY <1>24 DEF MultipgCommand, InHand
  <2> QED BY <2>2, <2>3
<1>25. term \in TermType
  BY DEF TypeOK, TermType
<1>26. CASE StopCommand \/ StopsPlanning \/ RestartCommand
  <2>1. term' \in TermType /\ mutex' \in {"free", "main", "terminal"}
    BY <1>25, <1>26 DEF StopCommand, StopsPlanning, RestartCommand, TypeOK, TermType
  <2>4. UNCHANGED <<cola, tablas, clientes, main, read_fds, red>>
    BY <1>26 DEF StopCommand, StopsPlanning, RestartCommand
  <2>2. TypeOK'
    BY <2>1, <2>4 DEF TypeOK, TermType
  <2>3. InHand'
    BY <1>25, <1>26 DEF StopCommand, StopsPlanning, RestartCommand, InHand, TermType
  <2> QED BY <2>2, <2>3
<1>27. ASSUME NEW p \in Pids, KillCommand(p) PROVE TypeInv'
  <2>1. term' \in TermType
    <3>1. p \in Nat
      BY DEF Pids
    <3>2. term' = [term EXCEPT !.at = "scan", !.cola = "NEW", !.pid = p, !.stop = FALSE]
      BY <1>27 DEF KillCommand
    <3> QED BY <1>25, <3>1, <3>2 DEF TermType
  <2>2. TypeOK'
    BY <1>27, <2>1 DEF KillCommand, TypeOK, MainType, TermType
  <2>3. InHand'
    BY <1>25, <1>27 DEF KillCommand, InHand, TermType
  <2> QED BY <2>2, <2>3
<1>28. ASSUME NEW stop \in BOOLEAN
       PROVE  AfterQueue(stop) \in TermType /\ AfterQueue(stop).at \notin {"take", "append"}
  <2>1. CASE term.cola = "READY" /\ stop
    <3>1. AfterQueue(stop) = [at |-> "idle", cola |-> "NEW", pid |-> 0, i |-> 0, nodo |-> 0,
                              aux |-> 0, stop |-> FALSE]
      BY <2>1 DEF AfterQueue
    <3> QED BY <3>1, TermIdle
  <2>2. CASE ~(term.cola = "READY" /\ stop)
    <3> DEFINE q == NextQueue[term.cola]
    <3>1. AfterQueue(stop) = [term EXCEPT !.at = "scan", !.cola = q, !.i = 0, !.aux = 0,
                                          !.stop = stop]
      BY <2>2 DEF AfterQueue
    <3>2. q \in {"NEW", "BLOCK", "READY"}
      BY <1>25 DEF NextQueue, TermType
    <3> HIDE DEF q
    <3>3. LET u == [term EXCEPT !.at = "scan", !.cola = q, !.i = 0, !.aux = 0, !.stop = stop]
          IN  u \in TermType /\ u.at \notin {"take", "append"}
      BY <1>25, <3>2, TermNext, Zenon
    <3> QED BY <3>1, <3>3, Zenon
  <2> QED BY <2>1, <2>2
<1>29. CASE KillFinds
  <2>1. Lowest(Positions(term.pid)) \in Nat
    <3>1. Positions(term.pid) \in SUBSET Nat
      <4>1. cola[term.cola] \in Seq(ProgramIds)
        BY <1>0, <1>25 DEF TermType
      <4>2. DOMAIN cola[term.cola] = 1..Len(cola[term.cola])
        BY <4>1, LenProperties
      <4> QED BY <4>2 DEF Positions
    <3> QED BY <1>29, <3>1, LowestIn DEF KillFinds
  <2>2. term' \in TermType
    BY <1>25, <1>29, <2>1 DEF KillFinds, TermType
  <2>3. TypeOK'
    BY <1>29, <2>2 DEF KillFinds, TypeOK, MainType, TermType
  <2>4. InHand'
    BY <1>25, <1>29 DEF KillFinds, InHand, TermType
  <2> QED BY <2>3, <2>4
<1>30. CASE KillMisses
  <2>1. term' \in TermType /\ term'.at \notin {"take", "append"}
    BY <1>25, <1>28, <1>30 DEF KillMisses, TermType
  <2>2. TypeOK'
    BY <1>30, <2>1 DEF KillMisses, TypeOK, MainType, TermType
  <2>3. InHand'
    BY <1>30, <2>1 DEF KillMisses, InHand
  <2> QED BY <2>2, <2>3
<1>31. CASE KillPops
  <2> DEFINE aux == term.nodo
  <2>1. aux \in ProgramIds /\ Removed(cola[term.cola], aux) \in Seq(ProgramIds)
    <3>1. aux \in Range(cola[term.cola])
      BY <1>31 DEF KillPops
    <3>2. cola[term.cola] \in Seq(ProgramIds)
      BY <1>25 DEF TypeOK, TermType, Status
    <3> HIDE DEF aux
    <3> QED BY <3>1, <3>2, RemovedList
  <2>2. /\ cola' = [cola EXCEPT ![term.cola] = Removed(@, aux)]
        /\ exitCode' = [exitCode EXCEPT ![aux] = -2]
        /\ term' = [term EXCEPT !.at = "append", !.aux = aux, !.nodo = 0]
        /\ UNCHANGED main
    BY <1>31 DEF KillPops
  <2> HIDE DEF aux
  <2>3. cola' \in [Status -> Seq(ProgramIds)] /\ exitCode' \in [Pids -> {0, -1, -2, -6}]
    BY <1>25, <2>1, <2>2 DEF TypeOK, TermType
  <2>4. term' \in TermType /\ term'.at = "append" /\ term'.aux # 0
    BY <1>25, <2>1, <2>2 DEF TermType
  <2>5. TypeOK'
    BY <1>31, <2>2, <2>3, <2>4 DEF KillPops, TypeOK, TermType
  <2>6. InHand'
    BY <1>31, <2>2, <2>4 DEF KillPops, InHand
  <2> QED BY <2>5, <2>6
<1>32. CASE KillAppends
  <2>1. term.aux \in ProgramIds
    BY <1>25, <1>32 DEF KillAppends, InHand, TermType
  <2>2. cola' \in [Status -> Seq(ProgramIds)]
    <3>1. cola' = [cola EXCEPT !["EXIT"] = Append(@, term.aux)]
      BY <1>32 DEF KillAppends
    <3>2. Append(cola["EXIT"], term.aux) \in Seq(ProgramIds)
      BY <1>0, <2>1, AppendProperties DEF Status
    <3> QED BY <1>0, <3>1, <3>2
  <2>3. term' \in TermType /\ term'.at \notin {"take", "append"}
    BY <1>28, <1>32 DEF KillAppends
  <2>4. TypeOK'
    BY <1>32, <2>2, <2>3 DEF KillAppends, TypeOK, MainType, TermType
  <2>5. InHand'
    BY <1>32, <2>3 DEF KillAppends, InHand
  <2> QED BY <2>4, <2>5
\* The first node of a list, if it has one.
<1>33. ASSUME NEW q \in {"NEW", "READY"}, NEW where \in {"take_new", "take_ready"},
              FindsFirst(q, where)
       PROVE  /\ main' \in MainType /\ main'.at \in {where, "crashed"}
              /\ main'.at = where => main'.nodo # 0 /\ main'.code = main.code
  <2>1. CASE cola[q] = <<>>
    <3>1. main' = [main EXCEPT !.at = "crashed"]
      BY <1>33, <2>1 DEF FindsFirst
    <3>2. main' \in MainType
      BY <1>15, <3>1 DEF Places
    <3> QED BY <1>15, <3>1, <3>2 DEF MainType
  <2>2. CASE cola[q] # <<>>
    <3> DEFINE p == Head(cola[q])
    <3>1. p \in ProgramIds
      BY <1>0, <2>2, HeadTailProperties
    <3>2. main' = [main EXCEPT !.at = where, !.nodo = p]
      BY <1>33, <2>2 DEF FindsFirst
    <3> HIDE DEF p
    <3>3. where \in Places /\ p \in Nat /\ p # 0
      BY <3>1 DEF Places
    <3>4. main' \in MainType
      BY <1>15, <3>2, <3>3, MainUpdates
    <3> QED BY <1>15, <3>2, <3>3, <3>4 DEF MainType
  <2> QED BY <2>1, <2>2
<1>34. CASE FindsNew
  <2>1. /\ main' \in MainType /\ main'.at \in {"take_new", "crashed"}
        /\ main'.at = "take_new" => main'.nodo # 0 /\ main'.code = main.code
    BY <1>33, <1>34 DEF FindsNew
  <2>2. TypeOK'
    BY <1>34, <2>1 DEF FindsNew, TypeOK, MainType, TermType
  <2>3. InHand'
    BY <1>34, <2>1 DEF FindsNew, InHand
  <2> QED BY <2>2, <2>3
<1>35. CASE FindsReady
  <2>1. /\ main' \in MainType /\ main'.at \in {"take_ready", "crashed"}
        /\ main'.at = "take_ready" => main'.nodo # 0 /\ main'.code = main.code
    BY <1>33, <1>35 DEF FindsReady
  <2>2. TypeOK'
    BY <1>35, <2>1 DEF FindsReady, TypeOK, MainType, TermType
  <2>3. InHand'
    BY <1>35, <2>1 DEF FindsReady, InHand
  <2> QED BY <2>2, <2>3
<1>36. CASE TakesAgain
  <2>1. TypeOK'
    BY <1>15, <1>36 DEF TakesAgain, TypeOK, Places, MainType
  <2>2. InHand'
    BY <1>15, <1>36 DEF TakesAgain, InHand, MainType
  <2> QED BY <2>1, <2>2
<1>37. CASE KillFindsNode
  <2>1. CASE term.i \in DOMAIN cola[term.cola]
    <3> DEFINE n == cola[term.cola][term.i]
    <3>1. n \in ProgramIds
      <4>1. cola[term.cola] \in Seq(ProgramIds)
        BY <1>0, <1>25 DEF TermType
      <4> QED BY <2>1, <4>1, PoppedList
    <3>2. term' = [term EXCEPT !.at = "take", !.nodo = n] /\ UNCHANGED main
      BY <1>37, <2>1 DEF KillFindsNode
    <3> HIDE DEF n
    <3>3. term' \in TermType /\ term'.at = "take" /\ term'.nodo # 0
      BY <1>25, <3>1, <3>2 DEF TermType
    <3>4. TypeOK'
      BY <1>37, <3>2, <3>3 DEF KillFindsNode, TypeOK, MainType, TermType
    <3>5. InHand'
      BY <1>37, <3>2, <3>3 DEF KillFindsNode, InHand
    <3> QED BY <3>4, <3>5
  <2>2. CASE term.i \notin DOMAIN cola[term.cola]
    <3>1. main' = [main EXCEPT !.at = "crashed"] /\ UNCHANGED term
      BY <1>37, <2>2 DEF KillFindsNode
    <3>2. main' \in MainType /\ main'.at = "crashed"
      BY <1>15, <3>1 DEF Places, MainType
    <3>3. TypeOK'
      BY <1>37, <3>1, <3>2 DEF KillFindsNode, TypeOK, MainType, TermType
    <3>4. InHand'
      BY <1>37, <3>1, <3>2 DEF KillFindsNode, InHand
    <3> QED BY <3>3, <3>4
  <2> QED BY <2>1, <2>2
<1>38. CASE KillTakesAgain \/ Clashes
  <2>1. /\ UNCHANGED <<cola, tablas, clientes, mutex, main, read_fds, red>>
        /\ \/ term' = [term EXCEPT !.at = "corrupt"]
           \/ term' = [term EXCEPT !.at = "corrupt", !.nodo = 0]
    BY <1>38 DEF KillTakesAgain, Clashes
  <2>2. term' \in TermType /\ term'.at = "corrupt"
    <3>1. CASE term' = [term EXCEPT !.at = "corrupt"]
      BY <1>25, <3>1 DEF TermType
    <3>2. CASE term' = [term EXCEPT !.at = "corrupt", !.nodo = 0]
      BY <1>25, <3>2 DEF TermType
    <3> QED BY <2>1, <3>1, <3>2
  <2>3. TypeOK'
    BY <2>1, <2>2 DEF TypeOK, MainType, TermType
  <2>4. InHand'
    BY <2>1, <2>2 DEF InHand
  <2> QED BY <2>3, <2>4
<1>40. QED
  BY <1>1, <1>2, <1>3, <1>4, <1>5, <1>6, <1>8, <1>9, <1>11, <1>12, <1>13, <1>14, <1>16,
     <1>17, <1>18, <1>19, <1>20, <1>21, <1>22, <1>23, <1>24, <1>26, <1>27, <1>29, <1>30,
     <1>31, <1>32, <1>34, <1>35, <1>36, <1>37, <1>38
  DEF Next, MainThread, Terminal, Kill, PeersStep

LEMMA TypeInvStutter == TypeInv /\ UNCHANGED vars => TypeInv'
<1> SUFFICES ASSUME TypeInv, UNCHANGED vars PROVE TypeInv'
  OBVIOUS
<1>1. TypeOK'
  BY DEF TypeInv, TypeOK, vars, tablas, clientes, red
<1>2. InHand'
  BY DEF TypeInv, InHand, vars, tablas, clientes, red
<1> QED BY <1>1, <1>2 DEF TypeInv

\* Type correctness of the scheduler: whatever consoles, CPUs and the operator
\* do, every list, table and local variable of the two threads holds what
\* pcbutils.c, server.c and console.c expect to find in it.
THEOREM TypeCorrect == Spec => []TypeOK
<1>1. TypeInv /\ [Next]_vars => TypeInv'
  BY TypeInvStep, TypeInvStutter
<1>2. TypeInv => TypeOK
  BY DEF TypeInv
<1> QED BY InitTypeInv, <1>1, <1>2, PTL DEF Spec

----------------------------------------------------------------------------
(* The order of arrival.                                                   *)

FifoInv == FifoOrder /\ Numbered /\ FirstInHand

LEMMA ListsOfInts == \A s \in Seq(ProgramIds) : s \in Seq(Int)
<1> SUFFICES ASSUME NEW s \in Seq(ProgramIds) PROVE s \in Seq(Int)
  OBVIOUS
<1>1. Len(s) \in Nat /\ s \in [1..Len(s) -> ProgramIds]
  BY LenProperties
<1>2. s \in [1..Len(s) -> Int]
  BY <1>1
<1> QED BY <1>1, <1>2, SeqDef

LEMMA RangeOfOne == \A x : Range(<<x>>) = {x}
BY DEF Range

\* The first state has no programs.
LEMMA InitFifoInv == Init => FifoInv
BY DEF Init, FifoInv, FifoOrder, Numbered, FirstInHand, Increasing, Before, Range

\* A step that at most takes programs out of the line keeps the order.
LEMMA FifoShrinks ==
  ASSUME TypeOK, FifoInv,
         \A q \in Line : Increasing(cola'[q]) /\ Range(cola'[q]) \subseteq Range(cola[q]),
         generatorPid' = generatorPid,
         main'.at = "admitted" => main.at = "admitted" /\ main'.pid = main.pid,
         main'.at \in {"take_new", "take_ready"} =>
           main'.at = main.at /\ main'.nodo = main.nodo
  PROVE  FifoInv'
<1>1. FifoOrder'
  BY DEF Line, FifoInv, FifoOrder, Before
<1>2. Numbered'
  BY DEF Line, FifoInv, Numbered
<1>3. FirstInHand'
  BY DEF Line, FifoInv, FirstInHand
<1> QED BY <1>1, <1>2, <1>3 DEF FifoInv

\* A program arrives behind every other.
LEMMA FifoArrives ==
  ASSUME TypeInv, FifoInv, NEW c \in Consoles, NewProgram(c)
  PROVE  FifoInv'
<1> DEFINE p == generatorPid + 1
<1>1. /\ cola' = [cola EXCEPT !["NEW"] = Append(@, p)]
      /\ generatorPid' = p /\ main' = main /\ main.at = "serve"
  BY DEF NewProgram, NewPid, Serving
<1>2. /\ cola["NEW"] \in Seq(ProgramIds) /\ cola["NEW"] \in Seq(Int)
      /\ cola \in [Status -> Seq(ProgramIds)]
  BY ListsOfInts DEF TypeInv, TypeOK
<1>8. p \in ProgramIds /\ p \in Int /\ p <= p
  BY DEF TypeInv, TypeOK
<1>9. \A x \in Nat : x <= generatorPid => x < p /\ x <= p
  BY DEF TypeInv, TypeOK
<1> HIDE DEF p
<1>3. \A q \in Line : \A x \in Range(cola[q]) : x < p /\ x <= p
  <2> SUFFICES ASSUME NEW q \in Line, NEW x \in Range(cola[q]) PROVE x < p /\ x <= p
    OBVIOUS
  <2>1. x \in ProgramIds
    BY <1>2 DEF Line, Range
  <2>2. x <= generatorPid
    BY DEF FifoInv, Numbered, Line
  <2> QED BY <1>9, <2>1, <2>2
<1>4. /\ Range(Append(cola["NEW"], p)) = Range(cola["NEW"]) \cup {p}
      /\ Increasing(Append(cola["NEW"], p))
  <2>1. Increasing(cola["NEW"]) /\ \A y \in Range(cola["NEW"]) : y < p
    BY <1>3 DEF FifoInv, FifoOrder, Line
  <2>2. Increasing(Append(cola["NEW"], p))
    BY <1>2, <1>8, <2>1, AppendedIncreasing
  <2>3. Range(Append(cola["NEW"], p)) = Range(cola["NEW"]) \cup {p}
    <3>1. \A s \in Seq(Int), x \in Int : Range(Append(s, x)) = Range(s) \cup {x}
      BY AppendedList
    <3> QED BY <1>2, <1>8, <3>1
  <2> QED BY <2>2, <2>3
<1>5. cola'["NEW"] = Append(cola["NEW"], p) /\ cola'["READY"] = cola["READY"]
      /\ cola'["EXEC"] = cola["EXEC"]
  BY <1>1, <1>2
<1>6. FifoOrder'
  BY <1>1, <1>3, <1>4, <1>5 DEF FifoInv, FifoOrder, Before, Line
<1>7. Numbered'
  <2>1. \A q \in Line : \A x \in Range(cola'[q]) : x <= p
    <3>1. \A x \in Range(cola["NEW"]) \cup {p} : x <= p
      BY <1>3, <1>8 DEF Line
    <3>2. \A x \in Range(cola["READY"]) : x <= p
      BY <1>3 DEF Line
    <3>3. \A x \in Range(cola["EXEC"]) : x <= p
      BY <1>3 DEF Line
    <3> QED BY <1>4, <1>5, <3>1, <3>2, <3>3 DEF Line
  <2> QED BY <1>1, <2>1 DEF Numbered, Line
<1>10. FirstInHand'
  BY <1>1 DEF FirstInHand
<1> QED BY <1>6, <1>7, <1>10 DEF FifoInv

\* The planner finds the first node of a list, which no other comes before.
LEMMA FifoFinds ==
  ASSUME TypeInv, FifoInv, FindsNew \/ FindsReady
  PROVE  FifoInv'
<1>1. /\ cola' = cola /\ generatorPid' = generatorPid
      /\ cola \in [Status -> Seq(ProgramIds)] /\ main \in MainType
  BY DEF FindsNew, FindsReady, tablas, TypeInv, TypeOK, MainType
<1>2. PICK q \in {"NEW", "READY"} :
        \/ main' = [main EXCEPT !.at = "crashed"]
        \/ /\ main' = [main EXCEPT !.at = IF q = "NEW" THEN "take_new" ELSE "take_ready",
                                   !.nodo = Head(cola[q])]
           /\ cola[q] # <<>>
  <2>1. CASE FindsNew
    <3>1. \/ main' = [main EXCEPT !.at = "crashed"]
          \/ main' = [main EXCEPT !.at = "take_new", !.nodo = Head(cola["NEW"])] /\ cola["NEW"] # <<>>
      BY <2>1 DEF FindsNew, FindsFirst
    <3> QED BY <3>1
  <2>2. CASE FindsReady
    <3>1. \/ main' = [main EXCEPT !.at = "crashed"]
          \/ /\ main' = [main EXCEPT !.at = "take_ready", !.nodo = Head(cola["READY"])]
             /\ cola["READY"] # <<>>
      BY <2>2 DEF FindsReady, FindsFirst
    <3>2. "READY" # "NEW"
      OBVIOUS
    <3> QED BY <3>1, <3>2
  <2> QED BY <2>1, <2>2
<1>3. CASE main' = [main EXCEPT !.at = "crashed"]
  <2>1. main'.at = "crashed"
    BY <1>1, <1>3 DEF MainType
  <2>2. FifoOrder' /\ Numbered' /\ FirstInHand'
    BY <1>1, <2>1 DEF FifoInv, FifoOrder, Numbered, FirstInHand
  <2> QED BY <2>2 DEF FifoInv
<1>4. CASE main' = [main EXCEPT !.at = IF q = "NEW" THEN "take_new" ELSE "take_ready",
                                !.nodo = Head(cola[q])] /\ cola[q] # <<>>
  <2> DEFINE p == Head(cola[q])
  <2>1. /\ main'.at = IF q = "NEW" THEN "take_new" ELSE "take_ready"
        /\ main'.nodo = p
    BY <1>1, <1>4 DEF MainType
  <2>2. cola[q] \in Seq(ProgramIds) /\ cola[q] \in Seq(Int) /\ Increasing(cola[q])
    BY <1>1, ListsOfInts DEF FifoInv, FifoOrder
  <2>3. \A x \in Range(cola[q]) : p <= x
    <3>1. DOMAIN cola[q] = 1..Len(cola[q]) /\ cola[q] \in [1..Len(cola[q]) -> Int] /\ p = cola[q][1]
      BY <1>4, <2>2, LenProperties
    <3> QED BY <2>2, <3>1 DEF Increasing, Range
  <2> HIDE DEF p
  <2>4. FirstInHand'
    BY <1>1, <2>1, <2>3 DEF FirstInHand
  <2>5. FifoOrder' /\ Numbered'
    BY <1>1, <2>1 DEF FifoInv, FifoOrder, Numbered
  <2> QED BY <2>4, <2>5 DEF FifoInv
<1> QED BY <1>2, <1>3, <1>4

\* So the node it removes, when it is still there, is the first.
LEMMA TakesHead ==
  ASSUME TypeInv, FifoInv, NEW q \in {"NEW", "READY"}, main.nodo \in Range(cola[q]),
         main.at = IF q = "NEW" THEN "take_new" ELSE "take_ready"
  PROVE  /\ cola[q] # <<>> /\ main.nodo = Head(cola[q])
         /\ Removed(cola[q], main.nodo) = Tail(cola[q])
<1>1. cola[q] \in Seq(Int) /\ Increasing(cola[q])
  BY ListsOfInts DEF TypeInv, TypeOK, FifoInv, FifoOrder
<1>2. \A p \in Range(cola[q]) : main.nodo <= p
  BY DEF FifoInv, FirstInHand
<1> QED BY <1>1, <1>2, RemovedFirst

LEMMA TakesNew ==
  ASSUME TypeInv, FifoInv, NEW granted, AsksForPages(granted)
  PROVE  /\ main.at = "take_new" /\ cola["NEW"] # <<>> /\ main.nodo = Head(cola["NEW"])
         /\ cola' = [cola EXCEPT !["NEW"] = Tail(@)]
         /\ main' = [main EXCEPT !.at = "admitted", !.pid = Head(cola["NEW"]), !.nodo = 0,
                                 !.res = granted]
         /\ paginas' = IF granted THEN [paginas EXCEPT ![Head(cola["NEW"])] = main.code]
                       ELSE paginas
<1>1. main.at = "take_new" /\ main.nodo \in Range(cola["NEW"])
  BY DEF AsksForPages
<1>2. /\ cola["NEW"] # <<>> /\ main.nodo = Head(cola["NEW"])
      /\ Removed(cola["NEW"], main.nodo) = Tail(cola["NEW"])
  BY <1>1, TakesHead
<1> QED BY <1>1, <1>2 DEF AsksForPages

LEMMA TakesReady ==
  ASSUME TypeInv, FifoInv, Dispatches
  PROVE  /\ main.at = "take_ready" /\ cola["READY"] # <<>> /\ main.nodo = Head(cola["READY"])
         /\ cola' = [cola EXCEPT !["READY"] = Tail(@),
                                 !["EXEC"] = Append(@, Head(cola["READY"]))]
         /\ main' = [main EXCEPT !.at = "dispatch", !.nodo = 0]
         /\ cpu_conectadas' = Tail(cpu_conectadas)
         /\ cpu_executing' = Append(cpu_executing, Head(cpu_conectadas))
         /\ en_cpu' = [en_cpu EXCEPT ![Head(cpu_conectadas)] = Head(cola["READY"])]
<1>1. main.at = "take_ready" /\ main.nodo \in Range(cola["READY"])
  BY DEF Dispatches
<1>2. /\ cola["READY"] # <<>> /\ main.nodo = Head(cola["READY"])
      /\ Removed(cola["READY"], main.nodo) = Tail(cola["READY"])
  BY <1>1, TakesHead
<1> QED BY <1>1, <1>2 DEF Dispatches

\* The planner takes the first program of the new list in its hand ...
LEMMA FifoTakes ==
  ASSUME TypeInv, FifoInv, NEW granted \in BOOLEAN, AsksForPages(granted)
  PROVE  FifoInv'
<1>1. generatorPid' = generatorPid
  BY DEF AsksForPages, tablas
<1> DEFINE p == Head(cola["NEW"])
<1>2. /\ cola["NEW"] # <<>> /\ cola' = [cola EXCEPT !["NEW"] = Tail(@)]
      /\ main' = [main EXCEPT !.at = "admitted", !.pid = p, !.nodo = 0, !.res = granted]
  BY TakesNew
<1>3. main'.pid = p /\ main'.at = "admitted"
  BY <1>2 DEF TypeInv, TypeOK
<1>4. /\ cola["NEW"] \in Seq(ProgramIds) /\ cola["NEW"] \in Seq(Int)
      /\ cola \in [Status -> Seq(ProgramIds)]
  BY ListsOfInts DEF TypeInv, TypeOK
<1>5. /\ cola'["NEW"] = Tail(cola["NEW"]) /\ cola'["READY"] = cola["READY"]
      /\ cola'["EXEC"] = cola["EXEC"]
  BY <1>2, <1>4
<1>6. /\ p \in Range(cola["NEW"]) /\ Range(Tail(cola["NEW"])) \subseteq Range(cola["NEW"])
      /\ Increasing(Tail(cola["NEW"])) /\ \A y \in Range(Tail(cola["NEW"])) : p < y
  BY <1>2, <1>4, TailList, TailIncreasing DEF FifoInv, FifoOrder
<1> HIDE DEF p
<1>7. FifoOrder'
  BY <1>3, <1>5, <1>6, RangeOfOne DEF FifoInv, FifoOrder, Before
<1>8. Numbered'
  BY <1>1, <1>3, <1>5, <1>6 DEF FifoInv, Numbered
<1>9. FirstInHand'
  BY <1>3 DEF FirstInHand
<1> QED BY <1>7, <1>8, <1>9 DEF FifoInv

\* ... and puts it behind the ready programs, or out of the line.
LEMMA FifoEnters ==
  ASSUME TypeInv, FifoInv, EntersSystem
  PROVE  FifoInv'
<1>1. /\ generatorPid' = generatorPid /\ main.at = "admitted"
      /\ main' = [main EXCEPT !.at = "dispatch", !.pid = 0, !.code = 0, !.res = FALSE]
      /\ cola \in [Status -> Seq(ProgramIds)]
  BY DEF EntersSystem, TypeInv, TypeOK
<1>2. main'.at = "dispatch" /\ main.pid \in ProgramIds
  BY <1>1 DEF TypeInv, TypeOK, InHand
<1>3. CASE ~main.res
  <2>1. cola' = [cola EXCEPT !["EXIT"] = Append(@, main.pid)]
    BY <1>3 DEF EntersSystem
  <2>2. \A q \in Line : cola'[q] = cola[q]
    BY <1>1, <2>1 DEF Line
  <2> QED BY <1>1, <1>2, <2>2, FifoShrinks DEF TypeInv, FifoInv, FifoOrder, Line
<1>4. CASE main.res
  <2>1. cola' = [cola EXCEPT !["READY"] = Append(@, main.pid)]
    BY <1>4 DEF EntersSystem
  <2>2. /\ cola'["READY"] = Append(cola["READY"], main.pid) /\ cola'["NEW"] = cola["NEW"]
        /\ cola'["EXEC"] = cola["EXEC"]
    BY <1>1, <2>1
  <2>3. cola["READY"] \in Seq(ProgramIds) /\ cola["READY"] \in Seq(Int) /\ main.pid \in Int
    BY <1>1, <1>2, ListsOfInts
  <2>4. /\ Increasing(cola["READY"]) /\ \A y \in Range(cola["READY"]) : y < main.pid
        /\ \A y \in Range(cola["EXEC"]) : y < main.pid
        /\ \A y \in Range(cola["NEW"]) : main.pid < y
    BY <1>1, RangeOfOne DEF FifoInv, FifoOrder, Before
  <2>5. /\ Range(Append(cola["READY"], main.pid)) = Range(cola["READY"]) \cup {main.pid}
        /\ Increasing(Append(cola["READY"], main.pid))
    BY <1>2, <2>3, <2>4, AppendedList, AppendedIncreasing
  <2>6. FifoOrder'
    BY <1>2, <2>2, <2>4, <2>5 DEF FifoInv, FifoOrder, Before
  <2>7. Numbered'
    BY <1>1, <1>2, <2>2, <2>5 DEF FifoInv, Numbered
  <2>8. FirstInHand'
    BY <1>2 DEF FirstInHand
  <2> QED BY <2>6, <2>7, <2>8 DEF FifoInv
<1> QED BY <1>3, <1>4

\* The first ready program goes to a CPU, behind those that run.
LEMMA FifoDispatches ==
  ASSUME TypeInv, FifoInv, Dispatches
  PROVE  FifoInv'
<1> DEFINE p == Head(cola["READY"])
<1>1. /\ generatorPid' = generatorPid /\ cola \in [Status -> Seq(ProgramIds)]
      /\ cola["READY"] # <<>>
      /\ cola' = [cola EXCEPT !["READY"] = Tail(@), !["EXEC"] = Append(@, p)]
      /\ main' = [main EXCEPT !.at = "dispatch", !.nodo = 0]
  <2>1. generatorPid' = generatorPid /\ cola \in [Status -> Seq(ProgramIds)]
    BY DEF Dispatches, tablas, TypeInv, TypeOK
  <2> QED BY <2>1, TakesReady
<1>2. main'.at = "dispatch"
  BY <1>1 DEF TypeInv, TypeOK
<1>3. /\ cola'["READY"] = Tail(cola["READY"]) /\ cola'["EXEC"] = Append(cola["EXEC"], p)
      /\ cola'["NEW"] = cola["NEW"]
  BY <1>1
<1>4. /\ cola["READY"] \in Seq(ProgramIds) /\ cola["READY"] \in Seq(Int)
      /\ cola["EXEC"] \in Seq(ProgramIds) /\ cola["EXEC"] \in Seq(Int)
  BY <1>1, ListsOfInts
<1>5. /\ p \in ProgramIds /\ p \in Int /\ p \in Range(cola["READY"])
      /\ Range(Tail(cola["READY"])) \subseteq Range(cola["READY"])
      /\ Increasing(Tail(cola["READY"])) /\ \A y \in Range(Tail(cola["READY"])) : p < y
  BY <1>1, <1>4, TailList, TailIncreasing DEF FifoInv, FifoOrder
<1> HIDE DEF p
<1>6. /\ Increasing(cola["EXEC"]) /\ \A y \in Range(cola["EXEC"]) : y < p
  BY <1>5 DEF FifoInv, FifoOrder, Before
<1>7. /\ Range(Append(cola["EXEC"], p)) = Range(cola["EXEC"]) \cup {p}
      /\ Increasing(Append(cola["EXEC"], p))
  BY <1>4, <1>5, <1>6, AppendedList, AppendedIncreasing
<1>8. FifoOrder'
  <2>1. \A q \in {"NEW", "READY", "EXEC"} : Increasing(cola'[q])
    BY <1>3, <1>5, <1>7 DEF FifoInv, FifoOrder
  <2>2. /\ Before(cola'["EXEC"], cola'["READY"])
        /\ Before(cola'["READY"], cola'["NEW"])
    BY <1>3, <1>5, <1>7 DEF FifoInv, FifoOrder, Before
  <2>3. Before(cola'["EXEC"], cola'["NEW"])
    BY <1>3, <1>5, <1>7 DEF FifoInv, FifoOrder, Before
  <2> QED BY <1>2, <2>1, <2>2, <2>3 DEF FifoOrder
<1>9. Numbered'
  BY <1>1, <1>2, <1>3, <1>5, <1>7 DEF FifoInv, Numbered
<1>10. FirstInHand'
  BY <1>2 DEF FirstInHand
<1> QED BY <1>8, <1>9, <1>10 DEF FifoInv

\* The end of a program takes it out of every list of the line.
LEMMA FifoEnds ==
  ASSUME TypeInv, FifoInv, NEW p, NEW code, EndProgram(p, code)
  PROVE  \A q \in Line : Increasing(cola'[q]) /\ Range(cola'[q]) \subseteq Range(cola[q])
<1> SUFFICES ASSUME NEW q \in Line
             PROVE  Increasing(cola'[q]) /\ Range(cola'[q]) \subseteq Range(cola[q])
  OBVIOUS
<1>1. cola'[q] = Without(cola[q], p)
  BY DEF EndProgram, Line
<1>2. cola[q] \in Seq(Int) /\ Increasing(cola[q])
  BY ListsOfInts DEF TypeInv, TypeOK, FifoInv, FifoOrder, Line
<1>3. Increasing(Without(cola[q], p))
  BY <1>2, WithoutIncreasing
<1>4. Range(Without(cola[q], p)) = Range(cola[q]) \ {p}
  BY <1>2, WithoutProperties
<1> QED BY <1>1, <1>3, <1>4

LEMMA FifoStep ==
  ASSUME TypeInv, FifoInv, Next
  PROVE  FifoInv'
<1> USE DEF tablas, clientes, red
<1>1. ASSUME cola' = cola, generatorPid' = generatorPid,
             main'.at = "admitted" => main.at = "admitted" /\ main'.pid = main.pid,
             main'.at \in {"take_new", "take_ready"} =>
               main'.at = main.at /\ main'.nodo = main.nodo
      PROVE  FifoInv'
  BY <1>1, FifoShrinks DEF TypeInv, FifoInv, FifoOrder, Line
<1>2. \A where \in Places : [main EXCEPT !.at = where].at = where
  BY DEF TypeInv, TypeOK
<1>3. CASE PeersStep
  BY <1>1, <1>3 DEF PeersStep, Connects, SubmitsProgram, Disconnects, FinishesProgram
<1>4. CASE Accepts
  BY <1>1, <1>4 DEF Accepts
<1>5. CASE Select \/ ClosesConsole \/ LocksPlanning \/ AdmitsNone \/ CanDispatch
            \/ UnlocksPlanning \/ TakesAgain
  BY <1>1, <1>2, <1>5 DEF Select, ClosesConsole, LocksPlanning, AdmitsNone, CanDispatch,
                          UnlocksPlanning, TakesAgain, MainGoes, Places
<1>6. ASSUME NEW c \in Consoles, ConsoleGone(c) PROVE FifoInv'
  <2>1. main'.at = "destroy"
    BY <1>6 DEF ConsoleGone, TypeInv, TypeOK
  <2> QED BY <1>1, <1>6, <2>1 DEF ConsoleGone
<1>7. CASE LooksUp
  <2>1. main'.at \in {"destroy", "end"}
    BY <1>7 DEF LooksUp, MainGoes, TypeInv, TypeOK
  <2> QED BY <1>1, <1>7, <2>1 DEF LooksUp
<1>8. CASE Admits
  <2>1. main'.at \in {"crashed", "pop_new"}
    BY <1>8 DEF Admits, MainGoes, TypeInv, TypeOK
  <2> QED BY <1>1, <1>8, <2>1 DEF Admits
<1>9. CASE EndsOrphan
  <2>1. main'.at = "destroy"
    BY <1>9 DEF EndsOrphan, TypeInv, TypeOK
  <2> QED BY <1>9, <2>1, FifoEnds, FifoShrinks DEF EndsOrphan, TypeInv
<1>10. ASSUME NEW c \in Cpus, ProgramEnds(c) PROVE FifoInv'
  <2>1. main' = main /\ generatorPid' = generatorPid
        /\ EndProgram(Head(inbox[c]).pid, ExitSuccessful)
    BY <1>10 DEF ProgramEnds
  <2> QED BY <2>1, FifoEnds, FifoShrinks DEF TypeInv
<1>11. CASE Terminal
  <2>1. CASE \/ \E level \in Levels : MultipgCommand(level)
             \/ StopCommand \/ StopsPlanning \/ RestartCommand
             \/ \E p \in Pids : KillCommand(p)
             \/ KillFinds \/ KillMisses \/ KillTakesAgain \/ Clashes
    BY <1>1, <2>1 DEF MultipgCommand, StopCommand, StopsPlanning, RestartCommand,
                      KillCommand, KillFinds, KillMisses, KillTakesAgain, Clashes
  <2>2. CASE KillAppends
    <3>1. cola' = [cola EXCEPT !["EXIT"] = Append(@, term.aux)]
          /\ main' = main /\ generatorPid' = generatorPid
      BY <2>2 DEF KillAppends
    <3>2. \A q \in Line : cola'[q] = cola[q]
      BY <3>1 DEF Line, TypeInv, TypeOK
    <3> QED BY <3>1, <3>2, FifoShrinks DEF TypeInv, FifoInv, FifoOrder, Line
  <2>3. CASE KillPops
    <3>1. /\ cola' = [cola EXCEPT ![term.cola] = Removed(@, term.nodo)]
          /\ main' = main /\ generatorPid' = generatorPid
          /\ term.nodo \in Range(cola[term.cola])
      BY <2>3 DEF KillPops
    <3>2. \A q \in Line : Increasing(cola'[q]) /\ Range(cola'[q]) \subseteq Range(cola[q])
      <4> SUFFICES ASSUME NEW q \in Line
                   PROVE  Increasing(cola'[q]) /\ Range(cola'[q]) \subseteq Range(cola[q])
        OBVIOUS
      <4>1. cola[q] \in Seq(Int) /\ Increasing(cola[q])
        BY ListsOfInts DEF TypeInv, TypeOK, FifoInv, FifoOrder, Line
      <4>2. CASE q # term.cola
        <5>1. cola'[q] = cola[q]
          BY <3>1, <4>2 DEF TypeInv, TypeOK, Line
        <5> QED BY <4>1, <5>1
      <4>3. CASE q = term.cola
        <5>1. cola'[q] = Removed(cola[q], term.nodo) /\ term.nodo \in Range(cola[q])
          BY <3>1, <4>3 DEF TypeInv, TypeOK, Line
        <5>2. Increasing(Removed(cola[q], term.nodo))
          BY <4>1, <5>1, RemovedIncreasing
        <5>3. Range(Removed(cola[q], term.nodo)) \subseteq Range(cola[q])
          BY <4>1, <5>1, RemovedList
        <5> QED BY <5>1, <5>2, <5>3
      <4> QED BY <4>2, <4>3
    <3> QED BY <3>1, <3>2, FifoShrinks DEF TypeInv
  <2>4. CASE KillFindsNode
    <3>1. /\ cola' = cola /\ generatorPid' = generatorPid
          /\ main' = main \/ main' = [main EXCEPT !.at = "crashed"]
      BY <2>4 DEF KillFindsNode, MainGoes
    <3> QED BY <1>1, <1>2, <3>1 DEF Places
  <2> QED BY <1>11, <2>1, <2>2, <2>3, <2>4 DEF Terminal, Kill
<1>20. QED
  BY <1>3, <1>4, <1>5, <1>6, <1>7, <1>8, <1>9, <1>10, <1>11, FifoArrives, FifoFinds, FifoTakes,
     FifoEnters, FifoDispatches
  DEF Next, MainThread

\* First come, first served: the programs that run, those ready, the one being
\* admitted and those that wait for admission are in the order in which
\* gestion_datos_newPcb numbered them, also when "kill" takes programs out of
\* the lists without the lock.
THEOREM Fifo == Spec => []FifoOrder
<1>1. Init => TypeInv /\ FifoInv
  BY InitTypeInv, InitFifoInv
<1>2. TypeInv /\ FifoInv /\ [Next]_vars => (TypeInv /\ FifoInv)'
  <2>1. TypeInv /\ FifoInv /\ Next => (TypeInv /\ FifoInv)'
    BY TypeInvStep, FifoStep
  <2>2. TypeInv /\ FifoInv /\ UNCHANGED vars => (TypeInv /\ FifoInv)'
    <3> SUFFICES ASSUME TypeInv, FifoInv, UNCHANGED vars PROVE (TypeInv /\ FifoInv)'
      OBVIOUS
    <3>1. TypeInv'
      BY TypeInvStutter
    <3>2. FifoOrder'
      BY DEF FifoInv, FifoOrder, vars
    <3>3. Numbered' /\ FirstInHand'
      BY DEF FifoInv, Numbered, FirstInHand, vars, tablas
    <3> QED BY <3>1, <3>2, <3>3 DEF FifoInv
  <2> QED BY <2>1, <2>2
<1>3. TypeInv /\ FifoInv => FifoOrder
  BY DEF FifoInv
<1> QED BY <1>1, <1>2, <1>3, PTL DEF Spec

----------------------------------------------------------------------------
(* The end of a program.                                                   *)

LEMMA ExitGrows ==
  ASSUME TypeInv, NEW p, cola'["EXIT"] = Append(cola["EXIT"], p), p \in ProgramIds
  PROVE  Range(cola["EXIT"]) \subseteq Range(cola'["EXIT"])
<1> DEFINE s == cola["EXIT"]
<1>1. s \in Seq(ProgramIds) /\ cola'["EXIT"] = Append(s, p)
  BY DEF TypeInv, TypeOK, Status
<1> HIDE DEF s
<1>2. Range(Append(s, p)) = Range(s) \cup {p}
  BY <1>1, AppendedList
<1>3. Range(s) \subseteq Range(cola'["EXIT"])
  BY <1>1, <1>2
<1> QED BY <1>3 DEF s

LEMMA EndIsFinal ==
  ASSUME TypeInv, NEW p \in ProgramIds, NEW code, EndProgram(p, code)
  PROVE  Range(cola["EXIT"]) \subseteq Range(cola'["EXIT"])
<1> DEFINE s == Without(cola["EXIT"], p)
<1>1. cola["EXIT"] \in Seq(ProgramIds)
  BY DEF TypeInv, TypeOK
<1>2. s \in Seq(ProgramIds) /\ Range(s) = Range(cola["EXIT"]) \ {p}
  BY <1>1, WithoutProperties
<1>3. cola'["EXIT"] = Append(s, p)
  BY DEF EndProgram
<1> HIDE DEF s
<1>4. Range(Append(s, p)) = Range(s) \cup {p}
  BY <1>2, AppendedList
<1> QED BY <1>2, <1>3, <1>4

\* A step takes no program out of the exit list.
LEMMA ExitStep ==
  ASSUME TypeInv, Next
  PROVE  Range(cola["EXIT"]) \subseteq Range(cola'["EXIT"])
<1> USE DEF tablas, clientes, red
<1>1. cola \in [Status -> Seq(ProgramIds)]
  BY DEF TypeInv, TypeOK
<1>2. ASSUME cola'["EXIT"] = cola["EXIT"]
      PROVE  Range(cola["EXIT"]) \subseteq Range(cola'["EXIT"])
  BY <1>2
<1>3. CASE PeersStep \/ Select \/ Accepts \/ LooksUp \/ ClosesConsole \/ LocksPlanning
            \/ Admits \/ AdmitsNone \/ CanDispatch \/ UnlocksPlanning
            \/ FindsNew \/ FindsReady \/ TakesAgain
            \/ \E c \in Consoles : ConsoleGone(c)
  BY <1>2, <1>3 DEF PeersStep, Connects, SubmitsProgram, Disconnects, FinishesProgram, Select,
       Accepts, LooksUp, ClosesConsole, LocksPlanning, Admits, AdmitsNone, CanDispatch,
       UnlocksPlanning, FindsNew, FindsReady, TakesAgain, ConsoleGone
<1>4. ASSUME NEW c \in Consoles, NewProgram(c) PROVE cola'["EXIT"] = cola["EXIT"]
  BY <1>1, <1>4 DEF NewProgram
<1>5. ASSUME NEW granted \in BOOLEAN, AsksForPages(granted)
      PROVE  cola'["EXIT"] = cola["EXIT"]
  BY <1>1, <1>5 DEF AsksForPages
<1>6. CASE Dispatches
  <2>1. cola'["EXIT"] = cola["EXIT"]
    BY <1>1, <1>6 DEF Dispatches
  <2> QED BY <1>2, <2>1
<1>7. CASE EntersSystem
  <2>1. main.pid \in ProgramIds
    BY <1>7 DEF EntersSystem, TypeInv, TypeOK, InHand
  <2>2. \/ cola'["EXIT"] = cola["EXIT"]
        \/ cola'["EXIT"] = Append(cola["EXIT"], main.pid)
    BY <1>1, <1>7 DEF EntersSystem
  <2> QED BY <1>2, <2>1, <2>2, ExitGrows
<1>8. CASE EndsOrphan
  <2>1. main.rest # <<>> /\ main.rest \in Seq(ProgramIds)
    BY <1>8 DEF EndsOrphan, TypeInv, TypeOK, InHand
  <2>2. Head(main.rest) \in ProgramIds
    BY <2>1, HeadTailProperties
  <2> QED BY <1>8, <2>2, EndIsFinal DEF EndsOrphan
<1>9. ASSUME NEW c \in Cpus, ProgramEnds(c)
      PROVE  Range(cola["EXIT"]) \subseteq Range(cola'["EXIT"])
  <2>1. inbox[c] # <<>> /\ inbox \in [Peers -> Seq(Messages)] /\ c \in Peers
    BY <1>9, PeersAssumption DEF ProgramEnds, Serving, Peers, SvSock, TypeInv, TypeOK, InHand
  <2>2. Head(inbox[c]) \in Messages
    BY <2>1, InboxUpdates
  <2>3. Head(inbox[c]).pid \in ProgramIds
    BY <1>9, <2>2 DEF ProgramEnds, Messages
  <2> QED BY <1>9, <2>3, EndIsFinal DEF ProgramEnds
<1>10. CASE Terminal
  <2>1. CASE \/ \E level \in Levels : MultipgCommand(level)
             \/ StopCommand \/ StopsPlanning \/ RestartCommand
             \/ \E p \in Pids : KillCommand(p)
             \/ KillFinds \/ KillMisses \/ KillFindsNode \/ KillTakesAgain \/ Clashes
    BY <1>2, <2>1 DEF MultipgCommand, StopCommand, StopsPlanning, RestartCommand,
                      KillCommand, KillFinds, KillMisses, KillFindsNode, KillTakesAgain, Clashes
  <2>2. CASE KillPops
    <3>1. cola'["EXIT"] = cola["EXIT"]
      BY <1>1, <2>2 DEF KillPops, TypeInv, TypeOK
    <3> QED BY <1>2, <3>1
  <2>3. CASE KillAppends
    <3>1. term.aux \in ProgramIds
      BY <2>3 DEF KillAppends, TypeInv, TypeOK, InHand
    <3>2. cola'["EXIT"] = Append(cola["EXIT"], term.aux)
      BY <1>1, <2>3 DEF KillAppends
    <3> QED BY <3>1, <3>2, ExitGrows
  <2> QED BY <1>10, <2>1, <2>2, <2>3 DEF Terminal, Kill
<1>20. QED
  BY <1>2, <1>3, <1>4, <1>5, <1>6, <1>7, <1>8, <1>9, <1>10 DEF Next, MainThread

\* A program that is over stays over: neither end_program, which takes the PCB
\* out of the exit list before it appends it, nor "kill", which looks through
\* three lists without the lock, ever brings one back.
THEOREM ExitFinal == Spec => ExitIsFinal
<1>1. TypeInv /\ [Next]_vars => TypeInv'
  BY TypeInvStep, TypeInvStutter
<1>2. TypeInv /\ [Next]_vars
        => [Range(cola["EXIT"]) \subseteq Range(cola'["EXIT"])]_vars
  BY ExitStep
<1> QED BY InitTypeInv, <1>1, <1>2, PTL DEF Spec, ExitIsFinal

----------------------------------------------------------------------------
(***************************************************************************)
(* Where the PCBs are: no program is lost, or in two lists, or given to    *)
(* two CPUs, and its owner is told of its end once.                        *)
(***************************************************************************)

----------------------------------------------------------------------------
(* What the threads have in their hands.                                   *)

\* A step that lets every PCB where it is.
Quiet ==
  /\ UNCHANGED <<cola, generatorPid, paginas, avisos>>
  /\ main'.pid = main.pid /\ main'.res = main.res /\ term'.aux = term.aux

\* The steps that move one.
Moves ==
  \/ \E c \in Consoles : NewProgram(c)
  \/ \E granted \in BOOLEAN : AsksForPages(granted)
  \/ EntersSystem
  \/ Dispatches
  \/ EndsOrphan
  \/ \E c \in Cpus : ProgramEnds(c)
  \/ KillPops
  \/ KillAppends

\* The steps in which a thread gets a node in its hand, or finds it gone.
Looks == FindsNew \/ FindsReady \/ TakesAgain

KillLooks == KillFindsNode \/ KillTakesAgain \/ Clashes

LEMMA Records == TypeInv => main \in MainType /\ term \in TermType
BY DEF TypeInv, TypeOK, MainType, TermType

LEMMA Lists ==
  ASSUME TypeInv
  PROVE  /\ cola \in [Status -> Seq(ProgramIds)]
         /\ \A q \in Status : cola[q] \in Seq(ProgramIds) /\ cola[q] \in Seq(Int)
         /\ generatorPid \in Nat
BY ListsOfInts DEF TypeInv, TypeOK

\* "kill" has nothing in its hand when it goes on to the next list.
LEMMA AfterQueueHasNone ==
  ASSUME TypeInv, NEW stop \in BOOLEAN
  PROVE  AfterQueue(stop).aux = 0 /\ AfterQueue(stop).at \in {"idle", "scan"}
<1> DEFINE q == NextQueue[term.cola]
<1>1. term \in TermType
  BY Records
<1>2. CASE term.cola = "READY" /\ stop
  <2>1. AfterQueue(stop) = [at |-> "idle", cola |-> "NEW", pid |-> 0, i |-> 0, nodo |-> 0,
                            aux |-> 0, stop |-> FALSE]
    BY <1>2 DEF AfterQueue
  <2> QED BY <2>1
<1>3. CASE ~(term.cola = "READY" /\ stop)
  <2>1. AfterQueue(stop) = [term EXCEPT !.at = "scan", !.cola = q, !.i = 0, !.aux = 0,
                                        !.stop = stop]
    BY <1>3 DEF AfterQueue
  <2> HIDE DEF q
  <2> QED BY <1>1, <2>1 DEF TermType
<1> QED BY <1>2, <1>3

\* What those steps leave alone.
LEMMA LooksQuietly ==
  ASSUME TypeInv, Looks
  PROVE  /\ Quiet /\ UNCHANGED <<cola, tablas, clientes, mutex, read_fds, term, red>>
         /\ main.at \in {"pop_new", "pop_ready", "take_new", "take_ready"}
         /\ main'.at \in {"take_new", "take_ready", "crashed", "corrupt"}
         /\ main'.rest = main.rest /\ main'.code = main.code
<1>1. main \in MainType
  BY Records
<1>2. /\ \/ main' = [main EXCEPT !.at = "crashed"]
         \/ main' = [main EXCEPT !.at = "corrupt"]
         \/ main' = [main EXCEPT !.at = "take_new", !.nodo = Head(cola["NEW"])]
         \/ main' = [main EXCEPT !.at = "take_ready", !.nodo = Head(cola["READY"])]
      /\ UNCHANGED <<cola, tablas, clientes, mutex, read_fds, term, red>>
      /\ main.at \in {"pop_new", "pop_ready", "take_new", "take_ready"}
  BY DEF Looks, FindsNew, FindsReady, FindsFirst, TakesAgain, MainGoes
<1>3. main'.pid = main.pid /\ main'.res = main.res /\ main'.rest = main.rest
      /\ main'.code = main.code /\ main'.at \in {"take_new", "take_ready", "crashed", "corrupt"}
  BY <1>1, <1>2 DEF MainType
<1> QED BY <1>2, <1>3 DEF Quiet, tablas, clientes, red

LEMMA KillLooksQuietly ==
  ASSUME TypeInv, KillLooks
  PROVE  /\ Quiet /\ UNCHANGED <<cola, tablas, clientes, mutex, read_fds, red>>
         /\ main' = main \/ MainGoes("crashed")
         /\ main' # main => term' = term /\ term.at = "pop"
         /\ term.at \in {"pop", "take", "scan", "append"}
         /\ term'.at \in {"take", "corrupt"} \/ term'.at = term.at
         /\ term.at = "append" => term'.at = "corrupt"
<1>1. main \in MainType /\ term \in TermType
  BY Records
<1>2. /\ UNCHANGED <<cola, tablas, clientes, mutex, read_fds, red>>
      /\ \/ MainGoes("crashed") /\ term' = term /\ term.at = "pop"
         \/ main' = main
      /\ \/ term' = term /\ term.at = "pop"
         \/ term' = [term EXCEPT !.at = "corrupt"] /\ term.at = "take"
         \/ /\ term' = [term EXCEPT !.at = "corrupt", !.nodo = 0]
            /\ term.at \in {"pop", "take", "scan", "append"}
         \/ /\ term' = [term EXCEPT !.at = "take", !.nodo = cola[term.cola][term.i]]
            /\ term.at = "pop"
  BY DEF KillLooks, KillFindsNode, KillTakesAgain, Clashes
<1>3. main'.pid = main.pid /\ main'.res = main.res
  <2>1. main' = main \/ main' = [main EXCEPT !.at = "crashed"]
    BY <1>2 DEF MainGoes
  <2>2. CASE main' = [main EXCEPT !.at = "crashed"]
    BY <1>1, <2>2 DEF MainType
  <2> QED BY <2>1, <2>2
<1>4. /\ term'.aux = term.aux
      /\ term'.at \in {"take", "corrupt"} \/ term'.at = term.at
      /\ term.at = "append" => term'.at = "corrupt"
  BY <1>1, <1>2 DEF TermType
<1>5. main' # main => MainGoes("crashed") /\ term' = term /\ term.at = "pop"
  BY <1>2
<1>6. term.at \in {"pop", "take", "scan", "append"} /\ (main' = main \/ MainGoes("crashed"))
  BY <1>2
<1> QED BY <1>2, <1>3, <1>4, <1>5, <1>6 DEF Quiet, tablas, clientes, red

LEMMA QuietOrMoves ==
  ASSUME TypeInv, BetweenLists, Next
  PROVE  Quiet \/ Moves
<1> USE Records DEF tablas, clientes, red, MainGoes, MainType, TermType
<1>1. CASE PeersStep
  BY <1>1 DEF PeersStep, Connects, SubmitsProgram, Disconnects, FinishesProgram, Quiet
<1>2. CASE \/ Select \/ Accepts \/ ClosesConsole \/ LocksPlanning \/ AdmitsNone
           \/ CanDispatch \/ UnlocksPlanning
  BY <1>2 DEF Select, Accepts, ClosesConsole, LocksPlanning, AdmitsNone, CanDispatch,
              UnlocksPlanning, Quiet
<1>3. ASSUME NEW c \in Consoles, ConsoleGone(c) PROVE Quiet
  BY <1>3 DEF ConsoleGone, Quiet, MainType
<1>4. CASE LooksUp
  BY <1>4 DEF LooksUp, Quiet, MainType
<1>5. CASE Admits
  BY <1>5 DEF Admits, Quiet, MainType
<1>6. CASE Looks
  BY <1>6, LooksQuietly
<1>7. CASE KillLooks
  BY <1>7, KillLooksQuietly
<1>8. CASE \/ \E level \in Levels : MultipgCommand(level)
           \/ StopCommand \/ StopsPlanning \/ RestartCommand
  BY <1>8 DEF MultipgCommand, StopCommand, StopsPlanning, RestartCommand, Quiet
<1>9. ASSUME NEW p \in Pids, KillCommand(p) PROVE Quiet
  BY <1>9 DEF KillCommand, Quiet, TermType
<1>10. CASE KillFinds
  BY <1>10 DEF KillFinds, Quiet, TermType
<1>11. CASE KillMisses
  <2>1. term'.aux = 0
    BY <1>11, AfterQueueHasNone DEF KillMisses, TermType
  <2>2. term.aux = 0
    BY <1>11 DEF KillMisses, BetweenLists
  <2> QED BY <1>11, <2>1, <2>2 DEF KillMisses, Quiet
<1> QED
  BY <1>1, <1>2, <1>3, <1>4, <1>5, <1>6, <1>7, <1>8, <1>9, <1>10, <1>11
  DEF Next, MainThread, Terminal, Kill, Moves, Looks, KillLooks

LEMMA BetweenListsStep ==
  ASSUME TypeInv, BetweenLists, Next
  PROVE  BetweenLists'
<1> USE Records DEF tablas, clientes, red, MainGoes, MainType, TermType
\* No thread has anything in its hand but where one takes it.
<1>1. ASSUME UNCHANGED <<main, term>> PROVE BetweenLists'
  BY <1>1 DEF BetweenLists
<1>2. ASSUME main'.pid = main.pid, main'.res = main.res, main.pid # 0 => main'.at = "crashed",
             UNCHANGED term
      PROVE  BetweenLists'
  BY <1>2 DEF BetweenLists
<1>3. CASE PeersStep
  BY <1>1, <1>3 DEF PeersStep, Connects, SubmitsProgram, Disconnects, FinishesProgram
<1>4. CASE Accepts \/ (\E level \in Levels : MultipgCommand(level)) \/ RestartCommand
  BY <1>1, <1>4 DEF Accepts, MultipgCommand, RestartCommand
<1>5. ASSUME NEW c \in Consoles, NewProgram(c) PROVE BetweenLists'
  BY <1>1, <1>5 DEF NewProgram
<1>6. ASSUME NEW c \in Cpus, ProgramEnds(c) PROVE BetweenLists'
  BY <1>1, <1>6 DEF ProgramEnds
<1>7. CASE Select \/ ClosesConsole \/ LocksPlanning \/ AdmitsNone \/ CanDispatch
            \/ UnlocksPlanning \/ Dispatches
  <2>1. main.pid = 0
    BY <1>7 DEF Select, ClosesConsole, LocksPlanning, AdmitsNone, CanDispatch,
                UnlocksPlanning, Dispatches, BetweenLists
  <2> QED BY <1>2, <1>7, <2>1 DEF Select, ClosesConsole, LocksPlanning, AdmitsNone,
                                  CanDispatch, UnlocksPlanning, Dispatches
<1>8. CASE LooksUp \/ EndsOrphan \/ Admits \/ \E c \in Consoles : ConsoleGone(c)
  <2>1. main.pid = 0
    BY <1>8 DEF LooksUp, EndsOrphan, Admits, ConsoleGone, Serving, BetweenLists
  <2>2. main'.pid = main.pid /\ main'.res = main.res /\ UNCHANGED term
    BY <1>8 DEF LooksUp, EndsOrphan, Admits, ConsoleGone, MainType
  <2> QED BY <1>2, <2>1, <2>2
<1>9. ASSUME NEW granted \in BOOLEAN, AsksForPages(granted) PROVE BetweenLists'
  <2> DEFINE p == main.nodo
  <2>1. UNCHANGED term /\ main' = [main EXCEPT !.at = "admitted", !.pid = p, !.nodo = 0,
                                              !.res = granted]
    BY <1>9 DEF AsksForPages
  <2>2. p # 0
    BY <1>9 DEF AsksForPages, TypeInv, InHand
  <2> HIDE DEF p
  <2>3. main'.at = "admitted" /\ main'.pid # 0
    <3>1. main'.at = "admitted" /\ main'.pid = p
      BY <2>1
    <3> QED BY <2>2, <3>1
  <2> QED BY <2>1, <2>3 DEF BetweenLists
<1>10. CASE EntersSystem
  <2>1. main'.pid = 0 /\ main'.res = FALSE /\ UNCHANGED term
    BY <1>10 DEF EntersSystem, MainType
  <2> QED BY <2>1 DEF BetweenLists
<1>11. CASE \/ StopCommand \/ StopsPlanning \/ (\E p \in Pids : KillCommand(p)) \/ KillFinds
  <2>1. term.aux = 0 /\ UNCHANGED main
    BY <1>11 DEF StopCommand, StopsPlanning, KillCommand, KillFinds, BetweenLists
  <2>2. term'.aux = term.aux
    BY <1>11 DEF StopCommand, StopsPlanning, KillCommand, KillFinds, TermType
  <2> QED BY <2>1, <2>2 DEF BetweenLists
<1>12. CASE KillMisses \/ KillAppends
  <2>1. term'.aux = 0 /\ UNCHANGED main
    BY <1>12, AfterQueueHasNone DEF KillMisses, KillAppends, TermType
  <2> QED BY <2>1 DEF BetweenLists
<1>13. CASE KillPops
  <2>1. term'.at = "append" /\ UNCHANGED main
    BY <1>13 DEF KillPops, TermType
  <2> QED BY <2>1 DEF BetweenLists
<1>14. CASE Looks
  <2>1. main.pid = 0 /\ main'.pid = main.pid /\ main'.res = main.res /\ UNCHANGED term
    BY <1>14, LooksQuietly DEF Quiet, BetweenLists
  <2> QED BY <1>2, <2>1
<1>15. CASE KillLooks
  <2>1. CASE main' = main
    <3>1. term'.aux = term.aux /\ (term.aux # 0 => term'.at = "corrupt")
      <4>1. term.aux # 0 => term.at \in {"append", "corrupt"}
        BY DEF BetweenLists
      <4> QED BY <1>15, <4>1, KillLooksQuietly DEF Quiet
    <3> QED BY <2>1, <3>1 DEF BetweenLists
  <2>2. CASE main' # main
    <3>1. MainGoes("crashed") /\ UNCHANGED term
      BY <1>15, <2>2, KillLooksQuietly
    <3> QED BY <1>2, <3>1
  <2> QED BY <2>1, <2>2
<1> QED
  BY <1>3, <1>4, <1>5, <1>6, <1>7, <1>8, <1>9, <1>10, <1>11, <1>12, <1>13, <1>14, <1>15
  DEF Next, MainThread, Terminal, Kill, Looks, KillLooks

----------------------------------------------------------------------------
(* Who owns a program.                                                     *)

LEMMA RestShrinks ==
  ASSUME NEW s \in Seq(ProgramIds), s # <<>>
  PROVE  Tail(s) \in Seq(ProgramIds) /\ Head(s) \in Range(s)
         /\ Range(Tail(s)) \subseteq Range(s) /\ Head(s) \in ProgramIds
BY TailList

LEMMA PidAppended ==
  \A s \in Seq(ProgramIds), p \in ProgramIds :
    Append(s, p) \in Seq(ProgramIds) /\ Range(Append(s, p)) = Range(s) \cup {p}
BY AppendedList

LEMMA OwnersStep ==
  ASSUME TypeInv, Owners, Next
  PROVE  Owners'
<1> USE Records DEF tablas, clientes, red, MainGoes, MainType
<1>0. /\ pids \in [Consoles -> Seq(ProgramIds)] /\ generatorPid \in Nat
      /\ consolas_conectadas \in Seq(Consoles)
  BY DEF TypeInv, TypeOK
\* The owners change when a program arrives and when a console is gone.
<1>1. ASSUME UNCHANGED <<pids, generatorPid>>,
             main'.at \notin {"destroy", "end"}
      PROVE  Owners'
  BY <1>1 DEF Owners
<1>2. ASSUME UNCHANGED <<pids, generatorPid, consolas_conectadas, read_fds>>,
             main'.at = main.at, main'.rest = main.rest
      PROVE  Owners'
  BY <1>2 DEF Owners
<1>3. CASE PeersStep \/ Terminal
  <2>1. UNCHANGED <<pids, generatorPid, consolas_conectadas, read_fds>>
    BY <1>3 DEF PeersStep, Connects, SubmitsProgram, Disconnects, FinishesProgram, Terminal,
         Kill, MultipgCommand, StopCommand, StopsPlanning, RestartCommand, KillCommand,
         KillFinds, KillMisses, KillPops, KillAppends, KillFindsNode, KillTakesAgain, Clashes
  <2>2. main' = main \/ MainGoes("crashed")
    BY <1>3 DEF PeersStep, Connects, SubmitsProgram, Disconnects, FinishesProgram, Terminal,
         Kill, MultipgCommand, StopCommand, StopsPlanning, RestartCommand, KillCommand,
         KillFinds, KillMisses, KillPops, KillAppends, KillFindsNode, KillTakesAgain, Clashes
  <2>3. CASE main' = main
    BY <1>2, <2>1, <2>3
  <2>4. CASE MainGoes("crashed")
    BY <1>1, <2>1, <2>4
  <2> QED BY <2>2, <2>3, <2>4
<1>4. CASE Select \/ LocksPlanning \/ AdmitsNone \/ CanDispatch \/ UnlocksPlanning \/ Dispatches
           \/ Admits \/ Accepts \/ \E c \in Cpus : ProgramEnds(c)
  <2>1. UNCHANGED <<pids, generatorPid>>
    BY <1>4 DEF Select, LocksPlanning, AdmitsNone, CanDispatch, UnlocksPlanning, Dispatches,
                Admits, Accepts, ProgramEnds
  <2>2. main'.at \notin {"destroy", "end"}
    BY <1>4 DEF Select, LocksPlanning, AdmitsNone, CanDispatch, UnlocksPlanning, Dispatches,
                Admits, Accepts, ProgramEnds, Serving
  <2> QED BY <1>1, <2>1, <2>2
<1>5. CASE EntersSystem \/ \E granted \in BOOLEAN : AsksForPages(granted)
  <2>1. UNCHANGED <<pids, generatorPid>>
    BY <1>5 DEF EntersSystem, AsksForPages
  <2>2. main'.at \notin {"destroy", "end"}
    BY <1>5 DEF EntersSystem, AsksForPages
  <2> QED BY <1>1, <2>1, <2>2
<1>6. ASSUME NEW c \in Consoles, NewProgram(c) PROVE Owners'
  <2> DEFINE p == generatorPid + 1
  <2>1. /\ generatorPid' = p /\ pids' = [pids EXCEPT ![c] = Append(pids[c], p)]
        /\ main' = main /\ main.at = "serve" /\ p \in ProgramIds
    BY <1>0, <1>6 DEF NewProgram, NewPid, Serving
  <2>2. /\ pids'[c] = Append(pids[c], p) /\ \A d \in Consoles : d # c => pids'[d] = pids[d]
        /\ pids[c] \in Seq(ProgramIds)
    BY <1>0, <2>1
  <2>3. \A d \in Consoles : \A x \in Range(pids[d]) : x <= generatorPid /\ x \in Nat
    <3> SUFFICES ASSUME NEW d \in Consoles, NEW x \in Range(pids[d]) PROVE x \in Nat
      BY DEF Owners
    <3>1. pids[d] \in Seq(ProgramIds)
      BY <1>0
    <3> QED BY <3>1 DEF Range
  <2>4. \A d \in Consoles : \A x \in Range(pids[d]) : x <= p /\ x # p
    BY <1>0, <2>3
  <2> HIDE DEF p
  <2>5. Range(pids'[c]) = Range(pids[c]) \cup {p}
    BY <2>1, <2>2, PidAppended
  <2>6. p <= p
    BY <2>1
  <2>7. \A d \in Consoles : \A x \in Range(pids'[d]) : x <= generatorPid'
    BY <2>1, <2>2, <2>4, <2>5, <2>6
  <2>8. \A d, e \in Consoles : d # e => Range(pids'[d]) \cap Range(pids'[e]) = {}
    BY <2>2, <2>4, <2>5 DEF Owners
  <2> QED BY <2>1, <2>7, <2>8 DEF Owners
<1>7. ASSUME NEW c \in Consoles, ConsoleGone(c) PROVE Owners'
  <2>1. /\ c = Lowest(read_fds) /\ UNCHANGED <<pids, generatorPid, read_fds>>
        /\ consolas_conectadas' = Without(consolas_conectadas, c)
        /\ main'.rest = pids[c]
    BY <1>7 DEF ConsoleGone, Serving
  <2>2. Range(consolas_conectadas') = Range(consolas_conectadas) \ {c}
    BY <1>0, <2>1, WithoutProperties
  <2> QED BY <2>1, <2>2 DEF Owners
<1>8. CASE LooksUp \/ EndsOrphan
  <2>1. /\ main.at \in {"destroy", "end"} /\ main.rest # <<>>
        /\ UNCHANGED <<pids, generatorPid, read_fds, consolas_conectadas>>
    BY <1>8 DEF LooksUp, EndsOrphan, TypeInv, InHand
  <2>2. main'.rest = main.rest \/ main'.rest = Tail(main.rest)
    BY <1>8 DEF LooksUp, EndsOrphan
  <2>3. Range(Tail(main.rest)) \subseteq Range(main.rest)
    BY <2>1, RestShrinks
  <2> QED BY <2>1, <2>2, <2>3 DEF Owners
<1>9. CASE ClosesConsole
  <2> DEFINE c == Lowest(read_fds)
  <2>1. c \in Consoles
    BY <1>9 DEF ClosesConsole, TypeInv, InHand
  <2>2. pids' = [pids EXCEPT ![c] = <<>>] /\ main'.at = "serve" /\ generatorPid' = generatorPid
    BY <1>9 DEF ClosesConsole
  <2> HIDE DEF c
  <2>3. pids'[c] = <<>> /\ \A d \in Consoles : d # c => pids'[d] = pids[d]
    BY <1>0, <2>1, <2>2
  <2>4. Range(<<>>) = {}
    BY DEF Range
  <2> QED BY <2>1, <2>2, <2>3, <2>4 DEF Owners
<1>10. CASE Looks
  <2>1. UNCHANGED <<pids, generatorPid>> /\ main'.at \notin {"destroy", "end"}
    BY <1>10, LooksQuietly
  <2> QED BY <1>1, <2>1
<1> QED
  BY <1>3, <1>4, <1>5, <1>6, <1>7, <1>8, <1>9, <1>10 DEF Next, MainThread, Looks

----------------------------------------------------------------------------
(* The CPUs and the exec list.                                             *)

LEMMA CpuTypes ==
  ASSUME TypeInv
  PROVE  /\ cpu_conectadas \in Seq(Cpus) /\ cpu_executing \in Seq(Cpus)
         /\ Range(cpu_conectadas) \subseteq Cpus /\ Range(cpu_executing) \subseteq Cpus
         /\ DOMAIN cpu_executing = 1..Len(cpu_executing) /\ Len(cpu_executing) \in Nat
         /\ DOMAIN cola["EXEC"] = 1..Len(cola["EXEC"])
         /\ inbox \in [Peers -> Seq(Messages)] /\ en_cpu \in [Cpus -> Nat]
         /\ peer \in [Peers -> {"out", "backlog", "open", "closed"}]
         /\ Cpus \subseteq Peers /\ Consoles \subseteq Peers /\ Cpus \cap Consoles = {}
<1>1. /\ cpu_conectadas \in Seq(Cpus) /\ cpu_executing \in Seq(Cpus)
      /\ inbox \in [Peers -> Seq(Messages)] /\ en_cpu \in [Cpus -> Nat]
      /\ peer \in [Peers -> {"out", "backlog", "open", "closed"}]
      /\ cola["EXEC"] \in Seq(ProgramIds)
  BY DEF TypeInv, TypeOK
<1>2. \A s \in Seq(Cpus) : Range(s) \subseteq Cpus /\ DOMAIN s = 1..Len(s) /\ Len(s) \in Nat
  BY LenProperties DEF Range
<1>3. Cpus \subseteq Peers /\ Consoles \subseteq Peers /\ Cpus \cap Consoles = {}
  BY PeersAssumption DEF Peers
<1>4. DOMAIN cola["EXEC"] = 1..Len(cola["EXEC"])
  BY <1>1, LenProperties
<1> QED BY <1>1, <1>2, <1>3, <1>4

\* A step after which the CPUs owe what they owed.
LEMMA CpusUnmoved ==
  ASSUME TypeInv, CpusKnown, ExecMatchesCpus,
         cola'["EXEC"] = cola["EXEC"], UNCHANGED <<cpu_conectadas, cpu_executing>>,
         \A c \in Cpus : Job(c)' = Job(c),
         \A c \in Cpus : TellsEnd(c)',
         \A c \in Cpus : peer[c] = "open" => peer'[c] = "open",
         main'.at = "end" => Head(main'.rest) \notin Range(cola["EXEC"])
  PROVE  CpusKnown' /\ ExecMatchesCpus'
<1> USE CpuTypes
<1>1. CpusKnown'
  BY DEF CpusKnown
<1>2. \A k \in DOMAIN cpu_executing : cpu_executing[k] \in Cpus
  BY DEF Range
<1>3. ExecMatchesCpus'
  BY <1>2 DEF ExecMatchesCpus
<1> QED BY <1>1, <1>3

LEMMA CpusQuiet ==
  ASSUME TypeInv, CpusKnown, ExecMatchesCpus,
         cola'["EXEC"] = cola["EXEC"], UNCHANGED <<cpu_conectadas, cpu_executing, en_cpu>>,
         \A c \in Cpus : inbox'[c] = inbox[c],
         \A c \in Cpus : peer[c] = "open" => peer'[c] = "open",
         main'.at = "end" => Head(main'.rest) \notin Range(cola["EXEC"])
  PROVE  CpusKnown' /\ ExecMatchesCpus'
<1>1. \A c \in Cpus : Job(c)' = Job(c)
  BY DEF Job
<1>2. \A c \in Cpus : TellsEnd(c)'
  BY DEF CpusKnown, TellsEnd
<1> QED BY <1>1, <1>2, CpusUnmoved

\* A CPU comes to the end of its program: it owes the Kernel the message.
LEMMA CpuFinishes ==
  ASSUME TypeInv, CpusKnown, ExecMatchesCpus, NEW c \in Cpus, FinishesProgram(c)
  PROVE  CpusKnown' /\ ExecMatchesCpus'
<1> USE CpuTypes
<1> DEFINE m == Msg("OP_CPU_PROGRAM_END", en_cpu[c])
<1>1. inbox[c] = <<>> /\ en_cpu[c] # 0
  BY DEF FinishesProgram, CpusKnown, TellsEnd
<1>2. /\ inbox' = [inbox EXCEPT ![c] = Append(inbox[c], m)] /\ en_cpu' = [en_cpu EXCEPT ![c] = 0]
      /\ UNCHANGED <<cola, cpu_conectadas, cpu_executing, peer, main>>
  BY DEF FinishesProgram, clientes
<1>3. m.pid = en_cpu[c] /\ m.opcode = "OP_CPU_PROGRAM_END"
  BY DEF Msg
<1> HIDE DEF m
<1>4. inbox'[c] = <<m>> /\ en_cpu'[c] = 0
  BY <1>1, <1>2
<1>5. \A d \in Cpus : d # c => inbox'[d] = inbox[d] /\ en_cpu'[d] = en_cpu[d]
  BY <1>2
<1>6. Head(<<m>>) = m /\ Len(<<m>>) = 1 /\ <<m>> # <<>>
  OBVIOUS
<1>7. \A d \in Cpus : Job(d)' = Job(d)
  BY <1>1, <1>3, <1>4, <1>5, <1>6 DEF Job
<1>8. \A d \in Cpus : TellsEnd(d)'
  <2>1. TellsEnd(c)'
    BY <1>3, <1>4, <1>6 DEF TellsEnd
  <2>2. \A d \in Cpus : d # c => TellsEnd(d)'
    BY <1>5 DEF CpusKnown, TellsEnd
  <2> QED BY <2>1, <2>2
<1>9. main'.at = "end" => Head(main'.rest) \notin Range(cola["EXEC"])
  BY <1>2 DEF CpusKnown
<1> QED BY <1>2, <1>7, <1>8, <1>9, CpusUnmoved

LEMMA CpuAppended ==
  \A s \in Seq(Cpus), c \in Cpus :
    /\ Range(Append(s, c)) = Range(s) \cup {c} /\ Append(s, c) \in Seq(Cpus)
    /\ Len(Append(s, c)) = Len(s) + 1
    /\ \A k \in 1..Len(s) : Append(s, c)[k] = s[k]
    /\ Append(s, c)[Len(s) + 1] = c
    /\ IsInjective(s) /\ c \notin Range(s) => IsInjective(Append(s, c))
BY AppendedList, AppendedInjective, AppendProperties

\* A new CPU is idle.
LEMMA CpuArrives ==
  ASSUME TypeInv, CpusKnown, ExecMatchesCpus, Accepts
  PROVE  CpusKnown' /\ ExecMatchesCpus'
<1> USE CpuTypes
<1> DEFINE S == {g \in Peers : peer[g] = "backlog"}
           f == Lowest(S)
<1>1. f \in Peers /\ peer[f] = "backlog"
  <2>1. S # {} /\ S \in SUBSET Nat
    BY PeersAssumption DEF Accepts, Serving, TypeInv, InHand, Peers
  <2>2. f \in S
    BY <2>1, LowestIn
  <2> QED BY <2>2
<1>2. /\ peer' = [peer EXCEPT ![f] = "open"]
      /\ cpu_conectadas' = IF f \in Cpus THEN Append(cpu_conectadas, f) ELSE cpu_conectadas
      /\ UNCHANGED <<cola, cpu_executing, en_cpu, inbox, main>>
  BY DEF Accepts
<1> HIDE DEF f
<1>3. main'.at = "end" => Head(main'.rest) \notin Range(cola["EXEC"])
  BY <1>2 DEF CpusKnown
<1>4. \A c \in Cpus : peer[c] = "open" => peer'[c] = "open"
  BY <1>1, <1>2
<1>5. CASE f \notin Cpus
  BY <1>2, <1>3, <1>4, <1>5, CpusQuiet
<1>6. CASE f \in Cpus
  <2>1. f \notin Range(cpu_conectadas) /\ f \notin Range(cpu_executing)
    BY <1>1 DEF CpusKnown
  <2>2. cpu_conectadas' = Append(cpu_conectadas, f)
    BY <1>2, <1>6
  <2>3. /\ Range(cpu_conectadas') = Range(cpu_conectadas) \cup {f}
        /\ IsInjective(cpu_conectadas')
    BY <1>6, <2>1, <2>2, CpuAppended DEF CpusKnown
  <2>4. \A c \in Cpus : Job(c)' = Job(c)
    BY <1>2 DEF Job
  <2>5. peer'[f] = "open"
    BY <1>1, <1>2
  <2>6. Job(f) = 0
    BY <1>6, <2>1 DEF CpusKnown
  <2>10. \A c \in Cpus : TellsEnd(c)'
    BY <1>2 DEF CpusKnown, TellsEnd
  <2>7. CpusKnown'
    BY <1>2, <1>3, <1>4, <2>1, <2>3, <2>4, <2>5, <2>10 DEF CpusKnown
  <2>8. \A k \in DOMAIN cpu_executing : cpu_executing[k] \in Cpus
    BY DEF Range
  <2>9. ExecMatchesCpus'
    BY <1>2, <1>6, <2>3, <2>4, <2>6, <2>8 DEF ExecMatchesCpus
  <2> QED BY <2>7, <2>9
<1> QED BY <1>5, <1>6

LEMMA LastOrBefore == \A n \in Nat : \A k \in 1..(n + 1) : k = n + 1 \/ k \in 1..n
OBVIOUS

\* The dispatched program is what the CPU it goes to owes.
LEMMA CpuDispatched ==
  ASSUME TypeInv, FifoInv, CpusKnown, ExecMatchesCpus, Dispatches
  PROVE  CpusKnown' /\ ExecMatchesCpus'
<1> USE CpuTypes DEF MainGoes, MainType
<1>0. /\ cpu_conectadas # <<>> /\ UNCHANGED <<inbox, peer>>
      /\ main'.at # "end"
  BY Records DEF Dispatches, TypeInv, InHand
<1> DEFINE p == Head(cola["READY"])
<1>15. cola["READY"] # <<>>
  BY TakesReady
<1>14. PICK c \in Cpus : c = Head(cpu_conectadas)
  BY <1>0, TailList
<1>1. /\ cola' = [cola EXCEPT !["READY"] = Tail(@), !["EXEC"] = Append(@, p)]
      /\ cpu_conectadas' = Tail(cpu_conectadas)
      /\ cpu_executing' = Append(cpu_executing, c)
      /\ en_cpu' = [en_cpu EXCEPT ![c] = p]
  BY <1>14, TakesReady
<1>2. cola["READY"] \in Seq(ProgramIds) /\ cola["EXEC"] \in Seq(ProgramIds)
  BY Lists
<1>3. p \in ProgramIds
  BY <1>2, <1>15, RestShrinks
<1>4. cola'["EXEC"] = Append(cola["EXEC"], p)
  BY <1>1, Lists
<1>5. /\ c \in Cpus /\ c \in Range(cpu_conectadas)
      /\ IsInjective(Tail(cpu_conectadas))
      /\ Range(Tail(cpu_conectadas)) = Range(cpu_conectadas) \ {c}
  BY <1>0, <1>14, TailList, TailInjective DEF CpusKnown
<1> HIDE DEF p
<1>6. c \notin Range(cpu_executing) /\ Job(c) = 0
  BY <1>5 DEF CpusKnown, ExecMatchesCpus
<1>7. /\ Range(cpu_executing') = Range(cpu_executing) \cup {c}
      /\ IsInjective(cpu_executing') /\ Len(cpu_executing') = Len(cpu_executing) + 1
      /\ \A k \in 1..Len(cpu_executing) : cpu_executing'[k] = cpu_executing[k]
      /\ cpu_executing'[Len(cpu_executing) + 1] = c
      /\ DOMAIN cpu_executing' = 1..(Len(cpu_executing) + 1)
  <2>1. cpu_executing' \in Seq(Cpus) /\ Len(cpu_executing') = Len(cpu_executing) + 1
    BY <1>1, <1>5, CpuAppended
  <2>2. DOMAIN cpu_executing' = 1..(Len(cpu_executing) + 1)
    BY <2>1, LenProperties
  <2> QED BY <1>1, <1>5, <1>6, <2>1, <2>2, CpuAppended DEF CpusKnown
<1>8. /\ Job(c)' = p /\ inbox[c] = <<>>
      /\ \A d \in Cpus : d # c => Job(d)' = Job(d) /\ en_cpu'[d] = en_cpu[d]
  <2>1. en_cpu'[c] = p /\ \A d \in Cpus : d # c => en_cpu'[d] = en_cpu[d]
    BY <1>1, <1>5
  <2>2. inbox[c] = <<>>
    <3>1. SUFFICES ASSUME inbox[c] # <<>> PROVE FALSE
      OBVIOUS
    <3>2. en_cpu[c] = 0 /\ Head(inbox[c]).opcode = "OP_CPU_PROGRAM_END"
      BY <1>5, <3>1 DEF CpusKnown, TellsEnd
    <3>3. Head(inbox[c]).pid = 0
      BY <1>6, <3>1, <3>2 DEF Job
    <3>4. Head(inbox[c]) \in Messages
      BY <1>5, <3>1, InboxUpdates
    <3> QED BY <3>2, <3>3, <3>4 DEF Messages
  <2> QED BY <1>0, <1>3, <2>1, <2>2 DEF Job
<1>13. \A d \in Cpus : TellsEnd(d)'
  BY <1>0, <1>8 DEF CpusKnown, TellsEnd
<1>9. CpusKnown'
  BY SMTT(30), <1>0, <1>1, <1>5, <1>6, <1>7, <1>8, <1>13 DEF CpusKnown
<1>10. /\ Len(cola'["EXEC"]) = Len(cola["EXEC"]) + 1
       /\ \A k \in 1..Len(cola["EXEC"]) : cola'["EXEC"][k] = cola["EXEC"][k]
       /\ cola'["EXEC"][Len(cola["EXEC"]) + 1] = p
  BY <1>2, <1>3, <1>4, AppendProperties
<1>11. \A k \in 1..Len(cpu_executing) : cpu_executing[k] \in Cpus /\ cpu_executing[k] # c
  BY <1>6 DEF Range
<1>12. ExecMatchesCpus'
  <2>1. Len(cola'["EXEC"]) = Len(cpu_executing')
    BY <1>7, <1>10 DEF ExecMatchesCpus
  <2>2. ASSUME NEW k \in 1..(Len(cpu_executing) + 1), NEW d \in Cpus, d = cpu_executing'[k]
        PROVE  Job(d)' = cola'["EXEC"][k]
    <3>1. CASE k = Len(cpu_executing) + 1
      <4>1. d = c /\ cola'["EXEC"][k] = p
        BY <1>7, <1>10, <2>2, <3>1 DEF ExecMatchesCpus
      <4> QED BY <1>8, <4>1
    <3>2. CASE k \in 1..Len(cpu_executing)
      <4>1. d = cpu_executing[k] /\ d # c /\ cola'["EXEC"][k] = cola["EXEC"][k]
        BY <1>7, <1>10, <1>11, <2>2, <3>2 DEF ExecMatchesCpus
      <4>2. Job(d) = cola["EXEC"][k]
        BY <3>2, <4>1 DEF ExecMatchesCpus
      <4> QED BY <1>8, <4>1, <4>2
    <3>3. Len(cpu_executing) \in Nat /\ k \in 1..(Len(cpu_executing) + 1)
      BY <2>2, CpuTypes, Zenon
    <3>4. k = Len(cpu_executing) + 1 \/ k \in 1..Len(cpu_executing)
      BY <3>3, LastOrBefore, Zenon
    <3> QED BY <3>1, <3>2, <3>4
  <2>4. \A k \in DOMAIN cpu_executing' : cpu_executing'[k] \in Cpus
    BY <1>7, <1>5 DEF Range
  <2>3. \A d \in Range(cpu_conectadas') : Job(d)' = 0
    BY <1>1, <1>5, <1>8 DEF ExecMatchesCpus
  <2> QED BY <1>7, <2>1, <2>2, <2>3, <2>4 DEF ExecMatchesCpus, Job
<1> QED BY <1>9, <1>12

\* The program that ends and its CPU were at the same position of their lists.
LEMMA PairsRemoved ==
  \A s \in Seq(ProgramIds), t \in Seq(Cpus), p \in ProgramIds, c \in Cpus :
    Len(s) = Len(t) /\ (\A i \in 1..Len(s) : s[i] = p <=> t[i] = c) => InStep(s, p, t, c)
BY WithoutInStep

LEMMA CpuReleased ==
  ASSUME TypeInv, FifoInv, CpusKnown, ExecMatchesCpus, NEW c \in Cpus, ProgramEnds(c)
  PROVE  /\ CpusKnown' /\ ExecMatchesCpus'
         /\ Head(inbox[c]).pid \in Range(cola["EXEC"])
<1> USE CpuTypes
<1> DEFINE p == Head(inbox[c]).pid
<1>1. /\ inbox[c] # <<>> /\ en_cpu[c] = 0 /\ Len(inbox[c]) = 1 /\ Job(c) = p
      /\ main.at = "serve" /\ c \in Peers
  BY PeersAssumption
  DEF ProgramEnds, Serving, SvSock, TypeInv, InHand, CpusKnown, TellsEnd, Job, Peers
<1>2. p \in ProgramIds
  <2>1. Head(inbox[c]) \in Messages /\ Head(inbox[c]).opcode = "OP_CPU_PROGRAM_END"
    BY <1>1, InboxUpdates DEF ProgramEnds
  <2> QED BY <2>1 DEF Messages
<1>3. /\ cola'["EXEC"] = Without(cola["EXEC"], p)
      /\ cpu_executing' = Without(cpu_executing, c)
      /\ cpu_conectadas' = Append(cpu_conectadas, c)
      /\ inbox' = [inbox EXCEPT ![c] = Tail(inbox[c])]
      /\ UNCHANGED <<main, peer, en_cpu>>
  BY DEF ProgramEnds, EndProgram, RestoreCPU
<1> HIDE DEF p
<1>4. inbox'[c] = <<>> /\ \A d \in Cpus : d # c => inbox'[d] = inbox[d]
  <2>1. inbox[c] \in Seq(Messages)
    BY <1>1
  <2>2. Tail(inbox[c]) \in Seq(Messages) /\ Len(Tail(inbox[c])) = 0
    BY <1>1, <2>1, HeadTailProperties
  <2>3. Tail(inbox[c]) = <<>>
    BY <2>2, EmptySeq
  <2> QED BY <1>1, <1>3, <2>3
<1>5. c \in Range(cpu_executing) /\ c \notin Range(cpu_conectadas)
  BY <1>1, <1>2 DEF CpusKnown
<1>6. PICK k0 \in 1..Len(cpu_executing) : cpu_executing[k0] = c
  BY <1>5 DEF Range
<1>7. cola["EXEC"] \in Seq(ProgramIds) /\ IsInjective(cola["EXEC"])
  <2>1. cola["EXEC"] \in Seq(Int) /\ cola["EXEC"] \in Seq(ProgramIds)
    BY Lists
  <2> QED BY <2>1, IncreasingInjective DEF FifoInv, FifoOrder
<1>8. /\ Len(cola["EXEC"]) = Len(cpu_executing) /\ cola["EXEC"][k0] = p
      /\ \A k \in 1..Len(cpu_executing) : Job(cpu_executing[k]) = cola["EXEC"][k]
  BY <1>1, <1>6 DEF ExecMatchesCpus
<1>9. \A k \in 1..Len(cola["EXEC"]) : cola["EXEC"][k] = p <=> cpu_executing[k] = c
  <2>1. SUFFICES ASSUME NEW k \in 1..Len(cola["EXEC"])
                 PROVE  cola["EXEC"][k] = p <=> cpu_executing[k] = c
    OBVIOUS
  <2>2. cpu_executing[k] = c => cola["EXEC"][k] = p
    BY <1>1, <1>8
  <2>3. cola["EXEC"][k] = p => k = k0
    BY <1>7, <1>8 DEF IsInjective
  <2> QED BY <1>6, <2>2, <2>3
<1>10. p \in Range(cola["EXEC"])
  BY <1>6, <1>8 DEF Range
<1>11. /\ Len(cola'["EXEC"]) = Len(cpu_executing')
       /\ \A k \in 1..Len(cola'["EXEC"]) : \E j \in 1..Len(cola["EXEC"]) :
            /\ cola["EXEC"][j] # p
            /\ cola'["EXEC"][k] = cola["EXEC"][j] /\ cpu_executing'[k] = cpu_executing[j]
  <2> DEFINE s == cola["EXEC"]  t == cpu_executing
  <2>1. s \in Seq(ProgramIds) /\ t \in Seq(Cpus) /\ Len(s) = Len(t)
        /\ \A k \in 1..Len(s) : s[k] = p <=> t[k] = c
    BY <1>7, <1>8, <1>9
  <2> HIDE DEF s, t
  <2>2. InStep(s, p, t, c)
    BY <1>2, <2>1, PairsRemoved
  <2> QED BY <1>3, <2>2 DEF s, t, InStep
<1>12. /\ cpu_executing' \in Seq(Cpus) /\ IsInjective(cpu_executing')
       /\ Range(cpu_executing') = Range(cpu_executing) \ {c}
       /\ DOMAIN cpu_executing' = 1..Len(cpu_executing')
  <2>1. cpu_executing' \in Seq(Cpus) /\ IsInjective(cpu_executing')
        /\ Range(cpu_executing') = Range(cpu_executing) \ {c}
    BY <1>3, WithoutProperties, WithoutInjective DEF CpusKnown
  <2> QED BY <2>1, LenProperties
<1>13. /\ IsInjective(cpu_conectadas')
       /\ Range(cpu_conectadas') = Range(cpu_conectadas) \cup {c}
  BY <1>3, <1>5, CpuAppended DEF CpusKnown
<1>14. Job(c)' = 0 /\ \A d \in Cpus : d # c => Job(d)' = Job(d)
  BY <1>1, <1>3, <1>4 DEF Job
<1>17. \A d \in Cpus : TellsEnd(d)'
  BY <1>3, <1>4 DEF CpusKnown, TellsEnd
<1>15. CpusKnown'
  BY SMTT(30), <1>1, <1>3, <1>4, <1>5, <1>12, <1>13, <1>14, <1>17 DEF CpusKnown
<1>16. ExecMatchesCpus'
  <2>1. ASSUME NEW k \in 1..Len(cpu_executing'), NEW d \in Cpus, d = cpu_executing'[k]
        PROVE  Job(d)' = cola'["EXEC"][k]
    <3>1. PICK j \in 1..Len(cola["EXEC"]) :
            /\ cola["EXEC"][j] # p
            /\ cola'["EXEC"][k] = cola["EXEC"][j] /\ cpu_executing'[k] = cpu_executing[j]
      BY <1>11
    <3>2. d = cpu_executing[j] /\ d # c /\ Job(d) = cola["EXEC"][j]
      BY <1>8, <1>9, <2>1, <3>1
    <3> QED BY <1>14, <3>1, <3>2
  <2>3. \A k \in 1..Len(cpu_executing') : cpu_executing'[k] \in Cpus
    BY <1>12 DEF Range
  <2>2. \A d \in Range(cpu_conectadas') : Job(d)' = 0
    BY <1>13, <1>14 DEF ExecMatchesCpus
  <2> QED BY <1>11, <1>12, <2>1, <2>2, <2>3 DEF ExecMatchesCpus, Job
<1> QED BY <1>10, <1>15, <1>16 DEF p

LEMMA CpusStep ==
  ASSUME TypeInv, FifoInv, CpusKnown, ExecMatchesCpus, Next
  PROVE  CpusKnown' /\ ExecMatchesCpus'
<1> USE DEF tablas, clientes, red, MainGoes
<1>0. cola \in [Status -> Seq(ProgramIds)] /\ main \in MainType
  BY Records, Lists
<1>1. \A c \in Consoles : c \notin Cpus
  BY PeersAssumption
<1>2. /\ inbox \in [Peers -> Seq(Messages)]
      /\ peer \in [Peers -> {"out", "backlog", "open", "closed"}]
  BY CpuTypes
\* What a CPU sees is changed by messages from and to CPUs only.
<1>3. ASSUME \/ \E f \in Peers : Connects(f)
             \/ \E c \in Consoles : SubmitsProgram(c) \/ Disconnects(c)
      PROVE  CpusKnown' /\ ExecMatchesCpus'
  <2>1. UNCHANGED <<cola, clientes, en_cpu, main>>
    BY <1>3 DEF Connects, SubmitsProgram, Disconnects
  <2>2. \A c \in Cpus : inbox'[c] = inbox[c]
    BY <1>1, <1>2, <1>3 DEF Connects, SubmitsProgram, Disconnects, Peers
  <2>3. \A c \in Cpus : peer[c] = "open" => peer'[c] = "open"
    BY <1>2, <1>3 DEF Connects, SubmitsProgram, Disconnects, Peers
  <2>4. main'.at = "end" => Head(main'.rest) \notin Range(cola["EXEC"])
    BY <2>1 DEF CpusKnown
  <2> QED BY <2>1, <2>2, <2>3, <2>4, CpusQuiet
<1>4. ASSUME UNCHANGED <<cpu_conectadas, cpu_executing, en_cpu, inbox, peer>>,
             cola'["EXEC"] = cola["EXEC"],
             main' = main \/ main'.at # "end"
      PROVE  CpusKnown' /\ ExecMatchesCpus'
  <2>1. main'.at = "end" => Head(main'.rest) \notin Range(cola["EXEC"])
    BY <1>4 DEF CpusKnown
  <2> QED BY <1>4, <2>1, CpusQuiet
<1>5. CASE \/ Select \/ LocksPlanning \/ AdmitsNone \/ CanDispatch \/ UnlocksPlanning \/ Admits
           \/ EntersSystem \/ \E granted \in BOOLEAN : AsksForPages(granted)
           \/ \E c \in Consoles : ConsoleGone(c)
  <2>1. UNCHANGED <<cpu_conectadas, cpu_executing, en_cpu, inbox, peer>>
    BY <1>5 DEF Select, LocksPlanning, AdmitsNone, CanDispatch, UnlocksPlanning, Admits,
                EntersSystem, AsksForPages, ConsoleGone
  <2>2. cola'["EXEC"] = cola["EXEC"]
    BY <1>0, <1>5 DEF Select, LocksPlanning, AdmitsNone, CanDispatch, UnlocksPlanning, Admits,
                EntersSystem, AsksForPages, ConsoleGone
  <2>3. main'.at # "end"
    BY <1>0, <1>5 DEF Select, LocksPlanning, AdmitsNone, CanDispatch, UnlocksPlanning, Admits,
                EntersSystem, AsksForPages, ConsoleGone, MainType
  <2> QED BY <1>4, <2>1, <2>2, <2>3
<1>6. CASE Terminal
  <2>1. UNCHANGED <<cpu_conectadas, cpu_executing, en_cpu, inbox, peer>>
    BY <1>6 DEF Terminal, Kill, MultipgCommand, StopCommand, StopsPlanning, RestartCommand,
         KillCommand, KillFinds, KillMisses, KillPops, KillAppends, KillFindsNode,
         KillTakesAgain, Clashes
  <2>2. main' = main \/ main' = [main EXCEPT !.at = "crashed"]
    BY <1>6 DEF Terminal, Kill, MultipgCommand, StopCommand, StopsPlanning, RestartCommand,
         KillCommand, KillFinds, KillMisses, KillPops, KillAppends, KillFindsNode,
         KillTakesAgain, Clashes
  <2>3. term.cola # "EXEC"
    BY Records DEF TermType
  <2>4. cola'["EXEC"] = cola["EXEC"]
    BY <1>0, <1>6, <2>3 DEF Terminal, Kill, MultipgCommand, StopCommand, StopsPlanning,
         RestartCommand, KillCommand, KillFinds, KillMisses, KillPops, KillAppends,
         KillFindsNode, KillTakesAgain, Clashes
  <2>5. main' = main \/ main'.at # "end"
    BY <1>0, <2>2 DEF MainType
  <2> QED BY <1>4, <2>1, <2>4, <2>5
<1>7. ASSUME NEW c \in Consoles, NewProgram(c) PROVE CpusKnown' /\ ExecMatchesCpus'
  <2>1. /\ UNCHANGED <<cpu_conectadas, cpu_executing, en_cpu, main, peer>>
        /\ cola'["EXEC"] = cola["EXEC"]
    BY <1>0, <1>7 DEF NewProgram
  <2>2. \A d \in Cpus : inbox'[d] = inbox[d]
    BY <1>1, <1>2, <1>7 DEF NewProgram, Peers
  <2>3. main'.at = "end" => Head(main'.rest) \notin Range(cola["EXEC"])
    BY <2>1 DEF CpusKnown
  <2> QED BY <2>1, <2>2, <2>3, CpusQuiet
<1>8. CASE LooksUp
  <2>1. UNCHANGED <<cola, cpu_conectadas, cpu_executing, en_cpu, inbox, peer>>
    BY <1>8 DEF LooksUp
  <2>2. main'.at = "end" => Head(main'.rest) \notin Range(cola["EXEC"])
    BY <1>0, <1>8 DEF LooksUp, MainType
  <2> QED BY <2>1, <2>2, CpusQuiet
<1>9. CASE EndsOrphan
  <2>1. Head(main.rest) \notin Range(cola["EXEC"])
    BY <1>9 DEF EndsOrphan, CpusKnown
  <2>2. cola'["EXEC"] = Without(cola["EXEC"], Head(main.rest))
    BY <1>9 DEF EndsOrphan, EndProgram
  <2>3. cola'["EXEC"] = cola["EXEC"]
    BY <1>0, <2>1, <2>2, WithoutAbsent
  <2>4. main'.at # "end" /\ UNCHANGED <<cpu_conectadas, cpu_executing, en_cpu, inbox, peer>>
    BY <1>0, <1>9 DEF EndsOrphan, MainType
  <2> QED BY <1>4, <2>3, <2>4
<1>10. CASE ClosesConsole
  <2> DEFINE c == Lowest(read_fds)
  <2>1. c \in Consoles
    BY <1>10 DEF ClosesConsole, TypeInv, InHand
  <2>2. /\ peer' = [peer EXCEPT ![c] = "closed"] /\ inbox' = [inbox EXCEPT ![c] = <<>>]
        /\ UNCHANGED <<cola, cpu_conectadas, cpu_executing, en_cpu>>
        /\ main'.at # "end"
    BY <1>0, <1>10 DEF ClosesConsole, MainType
  <2> HIDE DEF c
  <2>3. \A d \in Cpus : inbox'[d] = inbox[d] /\ peer'[d] = peer[d]
    BY <1>1, <1>2, <2>1, <2>2 DEF Peers
  <2> QED BY <2>2, <2>3, CpusQuiet
<1>11. CASE Looks
  <2>1. UNCHANGED <<cola, cpu_conectadas, cpu_executing, en_cpu, inbox, peer>>
        /\ main'.at # "end"
    BY <1>11, LooksQuietly
  <2> QED BY <1>4, <2>1
<1> QED
  BY <1>3, <1>5, <1>6, <1>7, <1>8, <1>9, <1>10, <1>11, CpuFinishes, CpuArrives, CpuDispatched,
     CpuReleased
  DEF Next, MainThread, PeersStep, Looks

----------------------------------------------------------------------------
(* The line, and what is out of it.                                        *)

LEMMA LineApart ==
  ASSUME TypeInv, FifoInv
  PROVE  /\ Range(cola["NEW"]) \cap Range(cola["READY"]) = {}
         /\ Range(cola["NEW"]) \cap Range(cola["EXEC"]) = {}
         /\ Range(cola["READY"]) \cap Range(cola["EXEC"]) = {}
         /\ \A q \in Line : IsInjective(cola[q])
         /\ \A q \in Status : \A p \in Range(cola[q]) : p \in ProgramIds
<1>1. \A q \in Status : \A p \in Range(cola[q]) : p \in ProgramIds
  BY Lists DEF Range
<1>2. \A p \in ProgramIds : ~(p < p)
  OBVIOUS
<1>3. \A q \in Line : IsInjective(cola[q])
  BY Lists, IncreasingInjective DEF Line, FifoInv, FifoOrder
<1> QED BY <1>1, <1>2, <1>3 DEF FifoInv, FifoOrder, Before

\* What OutOfLine says, with the sets of programs it is about.
LEMMA OutOfLineSets ==
  ASSUME TypeInv, FifoInv, OutOfLine
  PROVE  /\ 0 \notin Range(cola["NEW"]) /\ 0 \notin Range(cola["READY"])
         /\ 0 \notin Range(cola["EXEC"]) /\ 0 \notin Range(cola["EXIT"])
         /\ \A q \in Line : \A p \in Range(cola[q]) : p <= generatorPid
BY LineApart DEF FifoInv, Numbered, Line

\* A program arrives, numbered after every other.
LEMMA OutOfLineArrives ==
  ASSUME TypeInv, FifoInv, OutOfLine, NEW c \in Consoles, NewProgram(c)
  PROVE  OutOfLine'
<1> DEFINE p == generatorPid + 1
<1>1. /\ cola' = [cola EXCEPT !["NEW"] = Append(@, p)] /\ generatorPid' = p
      /\ UNCHANGED <<main, term>>
  BY DEF NewProgram, NewPid
<1>2. /\ cola'["NEW"] = Append(cola["NEW"], p) /\ cola'["READY"] = cola["READY"]
      /\ cola'["EXEC"] = cola["EXEC"] /\ cola'["EXIT"] = cola["EXIT"]
      /\ cola'["BLOCK"] = cola["BLOCK"]
  BY <1>1, Lists
<1>3. p \in ProgramIds
  BY Lists
<1>4. Range(cola'["NEW"]) = Range(cola["NEW"]) \cup {p}
  BY <1>2, <1>3, Lists, PidAppended
<1>5. \A x \in Nat : x <= generatorPid => x # p /\ x <= p
  BY Lists
<1>6. main.pid \in Nat /\ term.aux \in Nat
  BY Records DEF MainType, TermType
<1>7. \A x \in Range(cola["EXIT"]) : x \in Nat
  BY LineApart
<1>8. \A x \in Range(cola["EXIT"]) \cup {main.pid, term.aux} : x # p /\ x <= p
  BY <1>5, <1>6, <1>7 DEF OutOfLine
<1> HIDE DEF p
<1> QED BY <1>1, <1>2, <1>4, <1>8 DEF OutOfLine, Line

\* The planner takes the first program of the new list in its hand ...
LEMMA OutOfLineTakes ==
  ASSUME TypeInv, FifoInv, BetweenLists, OutOfLine, NEW granted \in BOOLEAN,
         AsksForPages(granted)
  PROVE  OutOfLine'
<1> DEFINE p == Head(cola["NEW"])
<1>0. generatorPid' = generatorPid /\ term' = term
  BY DEF AsksForPages, tablas
<1>1. /\ cola["NEW"] # <<>> /\ cola' = [cola EXCEPT !["NEW"] = Tail(@)]
      /\ main' = [main EXCEPT !.at = "admitted", !.pid = p, !.nodo = 0, !.res = granted]
      /\ generatorPid' = generatorPid /\ term' = term
  BY <1>0, TakesNew
<1>2. main'.pid = p
  BY <1>1, Records DEF MainType
<1>3. /\ cola'["NEW"] = Tail(cola["NEW"]) /\ cola'["READY"] = cola["READY"]
      /\ cola'["EXEC"] = cola["EXEC"] /\ cola'["EXIT"] = cola["EXIT"]
      /\ cola'["BLOCK"] = cola["BLOCK"]
  BY <1>1, Lists
<1>4. p \in Range(cola["NEW"]) /\ Range(Tail(cola["NEW"])) = Range(cola["NEW"]) \ {p}
  <2>1. cola["NEW"] \in Seq(ProgramIds) /\ IsInjective(cola["NEW"])
    BY Lists, LineApart DEF Line
  <2> QED BY <1>1, <2>1, RestShrinks, TailInjective
<1> HIDE DEF p
<1>5. p \notin Range(cola["READY"]) /\ p \notin Range(cola["EXEC"])
  BY <1>4, LineApart
<1>6. p \notin Range(cola["EXIT"]) /\ p # term.aux /\ p <= generatorPid
  BY <1>4, OutOfLineSets DEF OutOfLine, Line
<1> QED BY <1>1, <1>2, <1>3, <1>4, <1>5, <1>6 DEF OutOfLine, Line

\* ... and puts it behind those ready, or out of the line.
LEMMA OutOfLineEnters ==
  ASSUME TypeInv, FifoInv, OutOfLine, EntersSystem
  PROVE  OutOfLine'
<1>1. /\ main' = [main EXCEPT !.at = "dispatch", !.pid = 0, !.code = 0, !.res = FALSE]
      /\ generatorPid' = generatorPid /\ term' = term
      /\ cola' = [cola EXCEPT ![IF main.res THEN "READY" ELSE "EXIT"] = Append(@, main.pid)]
  BY DEF EntersSystem
<1>2. main'.pid = 0 /\ main.pid \in ProgramIds
  BY <1>1, Records DEF MainType, EntersSystem, TypeInv, InHand
<1>3. \A q \in {"READY", "EXIT"} :
        Range(Append(cola[q], main.pid)) = Range(cola[q]) \cup {main.pid}
  BY <1>2, Lists, PidAppended
<1>4. 0 <= generatorPid
  BY Lists
<1>5. CASE main.res
  <2>1. /\ cola'["READY"] = Append(cola["READY"], main.pid) /\ cola'["NEW"] = cola["NEW"]
        /\ cola'["EXEC"] = cola["EXEC"] /\ cola'["EXIT"] = cola["EXIT"]
        /\ cola'["BLOCK"] = cola["BLOCK"]
    BY <1>1, <1>5, Lists
  <2>2. Range(cola'["READY"]) = Range(cola["READY"]) \cup {main.pid}
    BY <1>3, <2>1
  <2> QED BY <1>1, <1>2, <1>4, <2>1, <2>2, OutOfLineSets DEF OutOfLine, Line
<1>6. CASE ~main.res
  <2>1. /\ cola'["EXIT"] = Append(cola["EXIT"], main.pid) /\ cola'["NEW"] = cola["NEW"]
        /\ cola'["EXEC"] = cola["EXEC"] /\ cola'["READY"] = cola["READY"]
        /\ cola'["BLOCK"] = cola["BLOCK"]
    BY <1>1, <1>6, Lists
  <2>2. Range(cola'["EXIT"]) = Range(cola["EXIT"]) \cup {main.pid}
    BY <1>3, <2>1
  <2> QED BY <1>1, <1>2, <1>4, <2>1, <2>2, OutOfLineSets DEF OutOfLine, Line
<1> QED BY <1>5, <1>6

\* The first ready program goes to a CPU.
LEMMA OutOfLineDispatches ==
  ASSUME TypeInv, FifoInv, OutOfLine, Dispatches
  PROVE  OutOfLine'
<1> DEFINE p == Head(cola["READY"])
<1>0. generatorPid' = generatorPid /\ term' = term
  BY DEF Dispatches, tablas
<1>1. /\ cola["READY"] # <<>>
      /\ cola' = [cola EXCEPT !["READY"] = Tail(@), !["EXEC"] = Append(@, p)]
      /\ main' = [main EXCEPT !.at = "dispatch", !.nodo = 0]
      /\ generatorPid' = generatorPid /\ term' = term
  BY <1>0, TakesReady
<1>2. main'.pid = main.pid
  BY <1>1, Records DEF MainType
<1>3. /\ cola'["READY"] = Tail(cola["READY"]) /\ cola'["EXEC"] = Append(cola["EXEC"], p)
      /\ cola'["NEW"] = cola["NEW"] /\ cola'["EXIT"] = cola["EXIT"]
      /\ cola'["BLOCK"] = cola["BLOCK"]
  BY <1>1, Lists
<1>4. /\ p \in Range(cola["READY"]) /\ p \in ProgramIds
      /\ Range(Tail(cola["READY"])) \subseteq Range(cola["READY"])
  <2>1. cola["READY"] \in Seq(ProgramIds)
    BY Lists
  <2> QED BY <1>1, <2>1, RestShrinks
<1> HIDE DEF p
<1>5. Range(cola'["EXEC"]) = Range(cola["EXEC"]) \cup {p}
  BY <1>3, <1>4, Lists, PidAppended
<1> QED BY <1>1, <1>2, <1>3, <1>4, <1>5 DEF OutOfLine, Line

\* A program that ends is out of the line.
LEMMA EndedRanges ==
  ASSUME TypeInv, NEW p \in ProgramIds, NEW code, EndProgram(p, code)
  PROVE  /\ \A q \in Status \ {"EXIT"} : cola'[q] = Without(cola[q], p)
                                         /\ Range(cola'[q]) = Range(cola[q]) \ {p}
         /\ cola'["EXIT"] = Append(Without(cola["EXIT"], p), p)
         /\ Range(cola'["EXIT"]) = Range(cola["EXIT"]) \cup {p}
<1>1. \A q \in Status : Without(cola[q], p) \in Seq(ProgramIds)
                        /\ Range(Without(cola[q], p)) = Range(cola[q]) \ {p}
  BY Lists, WithoutProperties
<1>2. /\ \A q \in Status \ {"EXIT"} : cola'[q] = Without(cola[q], p)
      /\ cola'["EXIT"] = Append(Without(cola["EXIT"], p), p)
  BY DEF EndProgram
<1>3. Range(cola'["EXIT"]) = Range(Without(cola["EXIT"], p)) \cup {p}
  BY <1>1, <1>2, PidAppended
<1> QED BY <1>1, <1>2, <1>3

LEMMA OutOfLineEnds ==
  ASSUME TypeInv, FifoInv, OutOfLine, NEW p \in ProgramIds, NEW code, EndProgram(p, code),
         p <= generatorPid, generatorPid' = generatorPid,
         main'.pid = 0, term' = term
  PROVE  OutOfLine'
<1>1. cola'["BLOCK"] = <<>>
  <2>1. <<>> \in Seq(ProgramIds) /\ Range(<<>>) = {}
    BY EmptySeq DEF Range
  <2>2. Without(<<>>, p) = <<>>
    BY <2>1, WithoutAbsent
  <2> QED BY <2>2, EndedRanges DEF OutOfLine
<1>2. 0 <= generatorPid
  BY Lists
<1>3. /\ \A q \in Line : Range(cola'[q]) = Range(cola[q]) \ {p}
      /\ Range(cola'["EXIT"]) = Range(cola["EXIT"]) \cup {p}
  BY EndedRanges DEF Line
<1>4. \A q \in Line : 0 \notin Range(cola[q])
  BY OutOfLineSets DEF Line
<1>5. ASSUME NEW q \in Line, NEW x \in Range(cola'[q])
      PROVE  x \notin Range(cola'["EXIT"]) /\ x # main'.pid /\ x # term'.aux
  <2>1. x \in Range(cola[q]) /\ x # p
    BY <1>3
  <2> QED BY <1>3, <1>4, <2>1 DEF OutOfLine
<1>6. \A x \in Range(cola'["EXIT"]) \cup {main'.pid, term'.aux} : x <= generatorPid'
  BY <1>2, <1>3 DEF OutOfLine
<1> QED BY <1>1, <1>5, <1>6 DEF OutOfLine

\* "kill" takes a program in its hand, wherever it was in the list ...
LEMMA OutOfLinePops ==
  ASSUME TypeInv, FifoInv, OutOfLine, KillPops
  PROVE  OutOfLine'
<1> DEFINE p == term.nodo
<1>1. /\ p \in Range(cola[term.cola])
      /\ cola' = [cola EXCEPT ![term.cola] = Removed(@, p)]
      /\ term' = [term EXCEPT !.at = "append", !.aux = p, !.nodo = 0]
      /\ generatorPid' = generatorPid /\ main' = main
  BY DEF KillPops
<1>2. term.cola \in {"NEW", "BLOCK", "READY"} /\ term'.aux = p
  BY <1>1, Records DEF TermType
<1>3. term.cola \in {"NEW", "READY"}
  <2>1. Range(<<>>) = {}
    BY DEF Range
  <2> QED BY <1>1, <1>2, <2>1 DEF OutOfLine
<1>4. Range(Removed(cola[term.cola], p)) = Range(cola[term.cola]) \ {p}
  <2>1. cola[term.cola] \in Seq(ProgramIds) /\ IsInjective(cola[term.cola])
    BY <1>3, Lists, LineApart DEF Line
  <2> QED BY <1>1, <2>1, RemovedInjective
<1>5. /\ cola'[term.cola] = Removed(cola[term.cola], p)
      /\ \A q \in Status : q # term.cola => cola'[q] = cola[q]
  BY <1>1, <1>2, Lists
<1> HIDE DEF p
<1>6. \A q \in Line : Range(cola'[q]) = Range(cola[q]) \ {p}
  BY <1>1, <1>3, <1>4, <1>5, LineApart DEF Line
<1>7. p \notin Range(cola["EXIT"]) /\ p # main.pid /\ p <= generatorPid
  BY <1>1, <1>3, <1>4, OutOfLineSets DEF OutOfLine, Line
<1> QED BY <1>1, <1>2, <1>3, <1>5, <1>6, <1>7 DEF OutOfLine, Line

\* ... and puts it out of the line.
LEMMA OutOfLineAppends ==
  ASSUME TypeInv, FifoInv, OutOfLine, KillAppends
  PROVE  OutOfLine'
<1>1. /\ cola' = [cola EXCEPT !["EXIT"] = Append(@, term.aux)] /\ term'.aux = 0
      /\ generatorPid' = generatorPid /\ main' = main
  BY AfterQueueHasNone DEF KillAppends, tablas
<1>2. term.aux \in ProgramIds /\ 0 <= generatorPid
  BY Records, Lists DEF KillAppends, TermType, TypeInv, InHand
<1>3. /\ cola'["EXIT"] = Append(cola["EXIT"], term.aux)
      /\ \A q \in Status \ {"EXIT"} : cola'[q] = cola[q]
  BY <1>1, Lists
<1>4. Range(cola'["EXIT"]) = Range(cola["EXIT"]) \cup {term.aux}
  BY <1>2, <1>3, Lists, PidAppended
<1> QED BY <1>1, <1>2, <1>3, <1>4, OutOfLineSets DEF OutOfLine, Line

----------------------------------------------------------------------------
(* What holds whatever consoles, CPUs and the operator do.                 *)

PcbInv == /\ TypeInv /\ FifoInv
          /\ BetweenLists /\ Owners
          /\ CpusKnown /\ ExecMatchesCpus
          /\ OutOfLine

\* The program destroy_console is about to end.
LEMMA OrphanOwned ==
  ASSUME TypeInv, Owners, EndsOrphan
  PROVE  /\ Head(main.rest) \in ProgramIds /\ Head(main.rest) <= generatorPid
         /\ \A c \in Range(consolas_conectadas) : Head(main.rest) \notin Range(pids[c])
<1> DEFINE c == Lowest(read_fds)
<1>1. main.at = "end" /\ main.rest # <<>> /\ c \in Consoles
  BY DEF EndsOrphan, TypeInv, InHand
<1>2. main.rest \in Seq(ProgramIds)
  BY Records DEF MainType
<1>3. Head(main.rest) \in ProgramIds /\ Head(main.rest) \in Range(main.rest)
  BY <1>1, <1>2, RestShrinks
<1>4. Head(main.rest) \in Range(pids[c]) /\ c \notin Range(consolas_conectadas)
  BY <1>1, <1>3 DEF Owners
<1>5. Range(consolas_conectadas) \subseteq Consoles
  BY DEF TypeInv, TypeOK, Range
<1> HIDE DEF c
<1> QED BY <1>1, <1>3, <1>4, <1>5 DEF Owners

LEMMA OutOfLineStep ==
  ASSUME PcbInv, Next
  PROVE  OutOfLine'
<1> USE DEF PcbInv
<1>1. CASE Quiet
  BY <1>1 DEF Quiet, OutOfLine
<1>2. CASE EndsOrphan
  <2>1. main.at = "end" /\ main' = [main EXCEPT !.at = "destroy", !.rest = Tail(@)]
        /\ EndProgram(Head(main.rest), ExitConsoleKilled)
        /\ generatorPid' = generatorPid /\ term' = term
    BY <1>2 DEF EndsOrphan
  <2>2. main'.pid = 0
    BY <2>1, Records DEF BetweenLists, MainType
  <2> QED BY <1>2, <2>1, <2>2, OrphanOwned, OutOfLineEnds
<1>3. ASSUME NEW c \in Cpus, ProgramEnds(c) PROVE OutOfLine'
  <2>1. Head(inbox[c]).pid \in Range(cola["EXEC"])
    BY <1>3, CpuReleased
  <2>2. Head(inbox[c]).pid \in ProgramIds /\ Head(inbox[c]).pid <= generatorPid
    BY <2>1, LineApart, OutOfLineSets DEF Line
  <2>3. main'.pid = 0 /\ term' = term /\ generatorPid' = generatorPid
        /\ EndProgram(Head(inbox[c]).pid, ExitSuccessful)
    BY <1>3 DEF ProgramEnds, Serving, BetweenLists
  <2> QED BY <2>2, <2>3, OutOfLineEnds
<1> QED
  BY <1>1, <1>2, <1>3, QuietOrMoves, OutOfLineArrives, OutOfLineTakes, OutOfLineEnters,
     OutOfLineDispatches, OutOfLinePops, OutOfLineAppends
  DEF Moves

LEMMA PcbInvStep == PcbInv /\ [Next]_vars => PcbInv'
<1>1. ASSUME PcbInv, Next PROVE PcbInv'
  BY <1>1, TypeInvStep, FifoStep, BetweenListsStep, OwnersStep, CpusStep, OutOfLineStep
  DEF PcbInv
<1>2. ASSUME PcbInv, UNCHANGED vars PROVE PcbInv'
  <2> USE DEF vars, tablas, clientes, red
  <2>1. TypeInv'
    BY <1>2, TypeInvStutter DEF PcbInv
  <2>2. FifoInv'
    BY <1>2 DEF PcbInv, FifoInv, FifoOrder, Numbered, FirstInHand
  <2>3. BetweenLists' /\ OutOfLine'
    BY <1>2 DEF PcbInv, BetweenLists, OutOfLine
  <2>4. Owners'
    BY <1>2 DEF PcbInv, Owners
  <2>5. CpusKnown' /\ ExecMatchesCpus'
    BY <1>2 DEF PcbInv, CpusKnown, TellsEnd, ExecMatchesCpus, Job
  <2> QED BY <2>1, <2>2, <2>3, <2>4, <2>5 DEF PcbInv
<1> QED BY <1>1, <1>2

LEMMA InitPcbInv == Init => PcbInv
<1> SUFFICES ASSUME Init PROVE PcbInv
  OBVIOUS
<1>1. TypeInv /\ FifoInv
  BY InitTypeInv, InitFifoInv
<1>2. Range(<<>>) = {} /\ Len(<<>>) = 0 /\ DOMAIN <<>> = {} /\ IsInjective(<<>>)
  BY DEF Range, IsInjective
<1>3. BetweenLists
  BY DEF Init, BetweenLists
<1>4. Owners
  BY <1>2 DEF Init, Owners
<1>5. \A c \in Cpus : Job(c) = 0 /\ inbox[c] = <<>>
  BY DEF Init, Job, Peers
<1>6. CpusKnown
  BY <1>2, <1>5 DEF Init, CpusKnown, TellsEnd
<1>7. ExecMatchesCpus
  BY <1>2 DEF Init, ExecMatchesCpus
<1>8. OutOfLine
  BY <1>2 DEF Init, OutOfLine, Line
<1> QED BY <1>1, <1>3, <1>4, <1>6, <1>7, <1>8 DEF PcbInv

\* The exec list and cpu_executing, which server.c, syscall.c and the planner
\* each append to and remove from by themselves, stay in step: the k-th program
\* runs on the k-th CPU, and a CPU in cpu_conectadas runs nothing.
THEOREM ExecMatches == Spec => []ExecMatchesCpus
<1>1. PcbInv => ExecMatchesCpus
  BY DEF PcbInv
<1> QED BY InitPcbInv, PcbInvStep, <1>1, PTL DEF Spec

----------------------------------------------------------------------------
(* The notices to the owners.                                              *)

LEMMA ToldOnceStep ==
  ASSUME PcbInv, ToldOnce, Next
  PROVE  ToldOnce'
<1> USE DEF PcbInv, tablas, clientes, red
<1>1. Range(cola["EXIT"]) \subseteq Range(cola'["EXIT"])
  BY ExitStep
<1>2. ASSUME avisos' = avisos PROVE ToldOnce'
  BY <1>1, <1>2 DEF ToldOnce
<1>3. avisos \in [Pids -> Seq({ExitSuccessful, ExitConsoleKilled})]
  BY DEF TypeInv, TypeOK
<1>4. CASE EndsOrphan
  <2>1. EndProgram(Head(main.rest), ExitConsoleKilled)
    BY <1>4 DEF EndsOrphan
  <2>2. avisos' = [avisos EXCEPT ![Head(main.rest)] = @]
    BY <1>4, <2>1, OrphanOwned DEF EndProgram
  <2> QED BY <1>2, <1>3, <2>2
<1>5. ASSUME NEW c \in Cpus, ProgramEnds(c) PROVE ToldOnce'
  <2> DEFINE p == Head(inbox[c]).pid
  <2>1. p \in Range(cola["EXEC"]) /\ EndProgram(p, ExitSuccessful)
    BY <1>5, CpuReleased DEF ProgramEnds
  <2> HIDE DEF p
  <2>2. p \in ProgramIds /\ p \notin Range(cola["EXIT"])
    BY <2>1, LineApart DEF OutOfLine, Line
  <2>3. p \in Range(cola'["EXIT"])
    BY <2>1, <2>2, EndedRanges
  <2>4. p \in Pids => avisos[p] = <<>>
    BY <2>2 DEF ToldOnce
  <2>5. \A x \in Pids : x # p => avisos'[x] = avisos[x]
    BY <1>3, <2>1 DEF EndProgram
  <2>6. p \in Pids => avisos'[p] = <<>> \/ avisos'[p] = Append(<<>>, ExitSuccessful)
    BY <1>3, <2>1, <2>4 DEF EndProgram
  <2>7. Len(Append(<<>>, ExitSuccessful)) = 1
    OBVIOUS
  <2> QED BY <1>1, <2>3, <2>5, <2>6, <2>7 DEF ToldOnce
<1>6. CASE Quiet
  BY <1>2, <1>6 DEF Quiet
<1>7. ASSUME Moves, ~EndsOrphan, ~(\E c \in Cpus : ProgramEnds(c)) PROVE avisos' = avisos
  BY <1>7 DEF Moves, NewProgram, AsksForPages, EntersSystem, Dispatches, KillPops, KillAppends
<1> QED BY <1>2, <1>4, <1>5, <1>6, <1>7, QuietOrMoves

\* end_program tells the owner of a program of its end once, and only when it
\* has ended, whichever thread ends it: the CPU's message, a console that goes,
\* or "kill", which moves the PCB to pcb_exit by itself.
THEOREM OwnerToldOnce == Spec => []ToldOnce
<1>1. Init => ToldOnce
  BY DEF Init, ToldOnce
<1>2. PcbInv /\ ToldOnce /\ [Next]_vars => ToldOnce'
  <2>1. ASSUME PcbInv, ToldOnce, UNCHANGED vars PROVE ToldOnce'
    BY <2>1 DEF ToldOnce, vars, red
  <2> QED BY <2>1, ToldOnceStep
<1> QED BY InitPcbInv, PcbInvStep, <1>1, <1>2, PTL DEF Spec

----------------------------------------------------------------------------
(* What has not been allowed has not happened.                             *)

Mute(c) == \A k \in DOMAIN inbox[c] : inbox[c][k].opcode # "OP_UNDEFINED"

LEMMA MuteSeqs ==
  /\ \A s \in Seq(Messages), m \in Messages :
       (\A k \in DOMAIN s : s[k].opcode # "OP_UNDEFINED") /\ m.opcode # "OP_UNDEFINED" =>
         \A k \in DOMAIN Append(s, m) : Append(s, m)[k].opcode # "OP_UNDEFINED"
  /\ \A s \in Seq(Messages) :
       s # <<>> /\ (\A k \in DOMAIN s : s[k].opcode # "OP_UNDEFINED") =>
         /\ Head(s).opcode # "OP_UNDEFINED"
         /\ \A k \in DOMAIN Tail(s) : Tail(s)[k].opcode # "OP_UNDEFINED"
<1>1. ASSUME NEW s \in Seq(Messages), NEW m \in Messages, m.opcode # "OP_UNDEFINED",
             \A k \in DOMAIN s : s[k].opcode # "OP_UNDEFINED"
      PROVE  \A k \in DOMAIN Append(s, m) : Append(s, m)[k].opcode # "OP_UNDEFINED"
  <2>1. \A x \in Range(s) : x.opcode # "OP_UNDEFINED"
    BY <1>1 DEF Range
  <2>2. Range(Append(s, m)) = Range(s) \cup {m}
    BY AppendedList
  <2> QED BY <1>1, <2>1, <2>2 DEF Range
<1>2. ASSUME NEW s \in Seq(Messages), s # <<>>,
             \A k \in DOMAIN s : s[k].opcode # "OP_UNDEFINED"
      PROVE  /\ Head(s).opcode # "OP_UNDEFINED"
             /\ \A k \in DOMAIN Tail(s) : Tail(s)[k].opcode # "OP_UNDEFINED"
  <2>1. \A x \in Range(s) : x.opcode # "OP_UNDEFINED"
    BY <1>2 DEF Range
  <2>2. Head(s) \in Range(s) /\ Range(Tail(s)) \subseteq Range(s)
    BY <1>2, TailList
  <2> QED BY <2>1, <2>2 DEF Range
<1> QED BY <1>1, <1>2

LEMMA OnlyAllowedStep ==
  ASSUME TypeInv, OnlyAllowed, Next
  PROVE  OnlyAllowed'
<1> USE Records DEF tablas, clientes, red, MainGoes, MainType, TermType
<1>0. inbox \in [Peers -> Seq(Messages)] /\ Consoles \subseteq Peers
      /\ \A c \in Consoles : c \notin Cpus
  BY PeersAssumption DEF TypeInv, TypeOK, Peers
<1>1. ASSUME "kill" \notin Allowed PROVE term'.at \in {"idle", "locking"}
  <2>1. term' = term \/ StopCommand \/ StopsPlanning
    BY <1>1 DEF Next, MainThread, Terminal, Kill, PeersStep, OnlyAllowed, Connects,
      SubmitsProgram, Disconnects, FinishesProgram, Select, Accepts, NewProgram, ConsoleGone,
      ProgramEnds, LooksUp, EndsOrphan, ClosesConsole, LocksPlanning, Admits, AdmitsNone,
      AsksForPages, EntersSystem, CanDispatch, Dispatches, UnlocksPlanning, MultipgCommand,
      RestartCommand, KillCommand, KillFinds, KillMisses, KillPops, KillAppends,
      KillFindsNode, KillTakesAgain, Clashes, FindsNew, FindsReady, TakesAgain
  <2> QED BY <1>1, <2>1 DEF OnlyAllowed, StopCommand, StopsPlanning
<1>2. ASSUME "logout" \notin Allowed PROVE \A c \in Consoles : Mute(c)'
  <2> SUFFICES ASSUME NEW c \in Consoles PROVE Mute(c)'
    OBVIOUS
  <2>1. Mute(c) /\ inbox[c] \in Seq(Messages)
    BY <1>0, <1>2 DEF OnlyAllowed, Mute
  <2>2. CASE inbox'[c] = inbox[c]
    BY <2>1, <2>2 DEF Mute
  <2>3. CASE inbox'[c] = Append(inbox[c], Msg("OP_NEW_PROGRAM", 0))
    <3>1. Msg("OP_NEW_PROGRAM", 0) \in Messages
          /\ Msg("OP_NEW_PROGRAM", 0).opcode # "OP_UNDEFINED"
      BY MessageTypes DEF Msg
    <3> QED BY <2>1, <2>3, <3>1, MuteSeqs DEF Mute
  <2>4. CASE inbox[c] # <<>> /\ inbox'[c] = Tail(inbox[c])
    BY <2>1, <2>4, MuteSeqs DEF Mute
  <2>5. CASE inbox'[c] = <<>>
    <3>1. DOMAIN <<>> = {}
      OBVIOUS
    <3> QED BY <2>5, <3>1 DEF Mute
  <2>6. CASE UNCHANGED inbox
    BY <2>2, <2>6
  <2>7. ASSUME NEW d \in Peers, d # c \/ inbox[c] # <<>>, inbox' = [inbox EXCEPT ![d] = Tail(@)]
        PROVE  Mute(c)'
    BY <1>0, <2>2, <2>4, <2>7
  <2>8. ASSUME NEW d \in Consoles, SubmitsProgram(d) PROVE Mute(c)'
    BY <1>0, <2>2, <2>3, <2>8 DEF SubmitsProgram
  <2>9. ASSUME NEW d \in Consoles, Disconnects(d) PROVE FALSE
    BY <1>2, <2>9 DEF Disconnects
  <2>10. ASSUME NEW d \in Cpus, FinishesProgram(d) PROVE Mute(c)'
    BY <1>0, <2>2, <2>10 DEF FinishesProgram
  <2>11. ASSUME NEW d \in Consoles, NewProgram(d) PROVE Mute(c)'
    <3>1. inbox[d] # <<>> /\ d \in Peers
      BY <1>0, <2>11, PeersAssumption DEF NewProgram, Serving, SvSock, TypeInv, InHand
    <3> QED BY <2>7, <2>11, <3>1 DEF NewProgram
  <2>12. ASSUME NEW d \in Cpus, ProgramEnds(d) PROVE Mute(c)'
    BY <1>0, <2>7, <2>12 DEF ProgramEnds, Peers
  <2>13. CASE ClosesConsole
    BY <1>0, <2>2, <2>5, <2>13 DEF ClosesConsole
  <2> QED
    BY <2>6, <2>8, <2>9, <2>10, <2>11, <2>12, <2>13
    DEF Next, MainThread, Terminal, Kill, PeersStep, Connects, Select, Accepts, ConsoleGone,
      LooksUp, EndsOrphan, LocksPlanning, Admits, AdmitsNone, AsksForPages, EntersSystem,
      CanDispatch, Dispatches, UnlocksPlanning, MultipgCommand, StopCommand, StopsPlanning,
      RestartCommand, KillCommand, KillFinds, KillMisses, KillPops, KillAppends,
      KillFindsNode, KillTakesAgain, Clashes, FindsNew, FindsReady, TakesAgain
<1>3. ASSUME "logout" \notin Allowed PROVE main'.at \notin {"destroy", "end"}
  <2>1. main.at \notin {"destroy", "end"}
    BY <1>3 DEF OnlyAllowed
  <2>2. ASSUME NEW c \in Consoles, ConsoleGone(c) PROVE FALSE
    <3>1. inbox[c] # <<>> /\ inbox[c] \in Seq(Messages) /\ Mute(c)
      BY <1>0, <1>3, <2>2, PeersAssumption
      DEF ConsoleGone, Serving, SvSock, TypeInv, InHand, OnlyAllowed, Mute
    <3>2. Head(inbox[c]).opcode # "OP_UNDEFINED"
      BY <3>1, MuteSeqs DEF Mute
    <3> QED BY <2>2, <3>2 DEF ConsoleGone
  <2>3. CASE main' = main
    BY <2>1, <2>3
  <2>4. CASE Select \/ LocksPlanning \/ Admits \/ AdmitsNone \/ CanDispatch \/ Dispatches
             \/ UnlocksPlanning
    BY <2>4 DEF Select, LocksPlanning, Admits, AdmitsNone, CanDispatch, Dispatches,
                UnlocksPlanning
  <2>5. CASE EntersSystem \/ \E granted \in BOOLEAN : AsksForPages(granted)
    BY <2>5 DEF EntersSystem, AsksForPages
  <2>6. CASE Kill
    <3>1. main' = main \/ main' = [main EXCEPT !.at = "crashed"]
      BY <2>6 DEF Kill, KillFinds, KillMisses, KillPops, KillAppends, KillFindsNode,
                  KillTakesAgain, Clashes
    <3> QED BY <2>3, <3>1
  <2>7. CASE Looks
    BY <2>7, LooksQuietly
  <2> QED
    BY <2>1, <2>2, <2>3, <2>4, <2>5, <2>6, <2>7
    DEF Looks, Next, MainThread, Terminal, PeersStep, Connects, SubmitsProgram, Disconnects,
      FinishesProgram, Accepts, NewProgram, ProgramEnds, LooksUp, EndsOrphan, ClosesConsole,
      MultipgCommand, StopCommand, StopsPlanning, RestartCommand, KillCommand
<1> QED BY <1>1, <1>2, <1>3 DEF OnlyAllowed, Mute

----------------------------------------------------------------------------
(* Every program is somewhere.                                             *)

\* The hazard of two threads that move PCBs without a lock in common is real:
\* with both, a program "kill" holds may be ended by destroy_console too.
OneMover == ~({"kill", "logout"} \subseteq Allowed)

\* Nobody has the program destroy_console ends in hand.
LEMMA OrphanQueued ==
  ASSUME OneMover, PcbInv, OnlyAllowed, main.at = "end"
  PROVE  main.pid = 0 /\ term.aux = 0
<1>1. term.at \in {"idle", "locking"}
  BY DEF OneMover, OnlyAllowed
<1> QED BY <1>1 DEF PcbInv, BetweenLists

\* A step keeps Somewhere when it loses no program.
LEMMA SomewhereKept ==
  ASSUME PcbInv, Somewhere, generatorPid' = generatorPid,
         IsInjective(cola'["EXIT"]), term'.aux \notin Range(cola'["EXIT"]),
         \A p \in ProgramIds : Queued(p) \/ p = main.pid \/ p = term.aux
                                 => (Queued(p) \/ p = main.pid \/ p = term.aux)'
  PROVE  Somewhere'
<1>1. \A p \in 1..generatorPid : p \in ProgramIds
  BY Lists DEF PcbInv
<1> QED BY <1>1 DEF Somewhere

LEMMA ExitInjective ==
  ASSUME PcbInv, Somewhere, NEW p \in ProgramIds
  PROVE  /\ p \notin Range(cola["EXIT"]) => IsInjective(Append(cola["EXIT"], p))
         /\ IsInjective(Append(Without(cola["EXIT"], p), p))
<1>1. cola["EXIT"] \in Seq(ProgramIds) /\ IsInjective(cola["EXIT"])
  BY Lists DEF PcbInv, Somewhere
<1>2. /\ Without(cola["EXIT"], p) \in Seq(ProgramIds)
      /\ Range(Without(cola["EXIT"], p)) = Range(cola["EXIT"]) \ {p}
      /\ IsInjective(Without(cola["EXIT"], p))
  BY <1>1, WithoutProperties, WithoutInjective
<1> QED BY <1>1, <1>2, AppendedInjective

LEMMA SomewhereEnds ==
  ASSUME PcbInv, Somewhere, NEW p \in ProgramIds, NEW code, EndProgram(p, code),
         p # term.aux, generatorPid' = generatorPid, main'.pid = main.pid, term' = term
  PROVE  Somewhere'
<1>1. /\ \A q \in Status \ {"EXIT"} : Range(cola'[q]) = Range(cola[q]) \ {p}
      /\ cola'["EXIT"] = Append(Without(cola["EXIT"], p), p)
      /\ Range(cola'["EXIT"]) = Range(cola["EXIT"]) \cup {p}
  BY EndedRanges DEF PcbInv
<1>2. IsInjective(cola'["EXIT"])
  BY <1>1, ExitInjective
<1>3. term'.aux \notin Range(cola'["EXIT"])
  BY <1>1 DEF Somewhere
<1>4. \A x : Queued(x) => Queued(x)'
  BY <1>1 DEF Queued
<1> QED BY <1>2, <1>3, <1>4, SomewhereKept

LEMMA SomewhereStep ==
  ASSUME OneMover, PcbInv, OnlyAllowed, Somewhere, Next
  PROVE  Somewhere'
<1> USE DEF PcbInv, tablas, clientes, red
<1>0. /\ cola \in [Status -> Seq(ProgramIds)] /\ main \in MainType /\ term \in TermType
      /\ generatorPid \in Nat
  BY Records, Lists
<1>1. CASE Quiet
  BY <1>1 DEF Quiet, Somewhere, Queued
<1>2. ASSUME NEW c \in Consoles, NewProgram(c) PROVE Somewhere'
  <2> DEFINE p == generatorPid + 1
  <2>1. /\ cola'["NEW"] = Append(cola["NEW"], p) /\ generatorPid' = p
        /\ \A q \in Status \ {"NEW"} : cola'[q] = cola[q]
        /\ UNCHANGED <<main, term>>
    BY <1>0, <1>2 DEF NewProgram, NewPid
  <2>2. Range(cola'["NEW"]) = Range(cola["NEW"]) \cup {p}
    BY <1>0, <2>1, PidAppended
  <2>3. \A x \in 1..p : x = p \/ x \in 1..generatorPid
    BY <1>0
  <2> HIDE DEF p
  <2>4. \A x : Queued(x) => Queued(x)'
    BY <2>1, <2>2 DEF Queued
  <2>6. ASSUME NEW x \in 1..generatorPid' PROVE (Queued(x) \/ x = main.pid \/ x = term.aux)'
    <3>1. CASE x = p
      BY <2>1, <2>2, <3>1 DEF Queued
    <3>2. CASE x # p
      BY <2>1, <2>3, <2>4, <2>6, <3>2 DEF Somewhere
    <3> QED BY <3>1, <3>2
  <2> QED BY <2>1, <2>6 DEF Somewhere
<1>3. ASSUME NEW granted \in BOOLEAN, AsksForPages(granted) PROVE Somewhere'
  <2> DEFINE p == Head(cola["NEW"])
  <2>5. generatorPid' = generatorPid /\ term' = term
    BY <1>3 DEF AsksForPages
  <2>6. /\ main.at = "take_new" /\ cola["NEW"] # <<>>
        /\ cola' = [cola EXCEPT !["NEW"] = Tail(@)]
        /\ main' = [main EXCEPT !.at = "admitted", !.pid = p, !.nodo = 0, !.res = granted]
    BY <1>3, TakesNew
  <2>1. /\ cola'["NEW"] = Tail(cola["NEW"]) /\ generatorPid' = generatorPid
        /\ \A q \in Status \ {"NEW"} : cola'[q] = cola[q] /\ term' = term
    BY <1>0, <2>5, <2>6
  <2>2. Range(Tail(cola["NEW"])) = Range(cola["NEW"]) \ {p}
    <3>1. cola["NEW"] \in Seq(ProgramIds) /\ IsInjective(cola["NEW"])
      BY Lists, LineApart DEF Line
    <3> QED BY <2>6, <3>1, TailInjective
  <2> HIDE DEF p
  <2>3. main'.pid = p /\ main.pid = 0
    BY <1>0, <2>6 DEF MainType, BetweenLists
  <2>4. \A x \in ProgramIds : Queued(x) \/ x = main.pid \/ x = term.aux
                                => (Queued(x) \/ x = main.pid \/ x = term.aux)'
    BY <2>1, <2>2, <2>3 DEF Queued
  <2> QED BY <2>1, <2>4, SomewhereKept DEF Somewhere
<1>4. CASE EntersSystem
  <2>1. /\ main' = [main EXCEPT !.at = "dispatch", !.pid = 0, !.code = 0, !.res = FALSE]
        /\ generatorPid' = generatorPid /\ term' = term
        /\ cola' = [cola EXCEPT ![IF main.res THEN "READY" ELSE "EXIT"] = Append(@, main.pid)]
        /\ main.pid \in ProgramIds
    BY <1>0, <1>4 DEF EntersSystem, TypeInv, InHand, MainType
  <2>2. \A q \in {"READY", "EXIT"} :
          Range(Append(cola[q], main.pid)) = Range(cola[q]) \cup {main.pid}
    BY <1>0, <2>1, PidAppended
  <2>3. \A x : Queued(x) \/ x = main.pid => Queued(x)'
    <3>1. PICK q \in {"READY", "EXIT"} : cola' = [cola EXCEPT ![q] = Append(@, main.pid)]
      BY <2>1
    <3>2. \A r \in Status : Range(cola[r]) \subseteq Range(cola'[r])
      BY <1>0, <2>2, <3>1
    <3>3. main.pid \in Range(cola'[q]) /\ q \in Status
      BY <1>0, <2>2, <3>1
    <3> QED BY <3>2, <3>3 DEF Queued
  <2>4. IsInjective(cola'["EXIT"]) /\ term'.aux \notin Range(cola'["EXIT"])
    <3>1. CASE cola'["EXIT"] = cola["EXIT"]
      BY <2>1, <3>1 DEF Somewhere
    <3>2. CASE cola'["EXIT"] = Append(cola["EXIT"], main.pid)
      BY <2>1, <2>2, <3>2, ExitInjective DEF Somewhere, OutOfLine
    <3> QED BY <1>0, <2>1, <3>1, <3>2
  <2> QED BY <2>1, <2>3, <2>4, SomewhereKept
<1>5. CASE Dispatches
  <2> DEFINE p == Head(cola["READY"])
  <2>6. generatorPid' = generatorPid /\ term' = term
    BY <1>5 DEF Dispatches
  <2>7. /\ cola["READY"] # <<>>
        /\ cola' = [cola EXCEPT !["READY"] = Tail(@), !["EXEC"] = Append(@, p)]
        /\ main' = [main EXCEPT !.at = "dispatch", !.nodo = 0]
    BY <1>5, TakesReady
  <2>1. /\ cola'["READY"] = Tail(cola["READY"]) /\ cola'["EXEC"] = Append(cola["EXEC"], p)
        /\ \A q \in Status \ {"READY", "EXEC"} : cola'[q] = cola[q]
        /\ generatorPid' = generatorPid /\ term' = term
    BY <1>0, <2>6, <2>7
  <2>2. Range(Tail(cola["READY"])) = Range(cola["READY"]) \ {p} /\ p \in ProgramIds
    <3>1. cola["READY"] \in Seq(ProgramIds) /\ IsInjective(cola["READY"])
      BY Lists, LineApart DEF Line
    <3> QED BY <2>7, <3>1, TailInjective, RestShrinks
  <2> HIDE DEF p
  <2>3. Range(cola'["EXEC"]) = Range(cola["EXEC"]) \cup {p}
    BY <1>0, <2>1, <2>2, PidAppended
  <2>4. main'.pid = main.pid
    BY <1>0, <2>7 DEF MainType
  <2>5. \A x : Queued(x) => Queued(x)'
    BY <2>1, <2>2, <2>3 DEF Queued
  <2> QED BY <2>1, <2>4, <2>5, SomewhereKept DEF Somewhere
<1>6. CASE EndsOrphan
  <2>1. /\ main.at = "end" /\ EndProgram(Head(main.rest), ExitConsoleKilled)
        /\ main'.pid = main.pid /\ term' = term /\ generatorPid' = generatorPid
    BY <1>0, <1>6 DEF EndsOrphan, MainType
  <2>2. Head(main.rest) \in ProgramIds
    BY <1>6, OrphanOwned
  <2>3. Head(main.rest) # term.aux
    BY <2>1, <2>2, OrphanQueued
  <2> QED BY <2>1, <2>2, <2>3, SomewhereEnds
<1>7. ASSUME NEW c \in Cpus, ProgramEnds(c) PROVE Somewhere'
  <2>1. Head(inbox[c]).pid \in Range(cola["EXEC"])
    BY <1>7, CpuReleased
  <2>2. Head(inbox[c]).pid \in ProgramIds /\ Head(inbox[c]).pid # term.aux
    BY <2>1, LineApart DEF Line, OutOfLine
  <2>3. /\ main' = main /\ term' = term /\ generatorPid' = generatorPid
        /\ EndProgram(Head(inbox[c]).pid, ExitSuccessful)
    BY <1>7 DEF ProgramEnds
  <2> QED BY <2>2, <2>3, SomewhereEnds
<1>8. CASE KillPops
  <2> DEFINE p == term.nodo
  <2>5. /\ p \in Range(cola[term.cola])
        /\ cola' = [cola EXCEPT ![term.cola] = Removed(@, p)]
        /\ term' = [term EXCEPT !.at = "append", !.aux = p, !.nodo = 0]
        /\ generatorPid' = generatorPid /\ main' = main /\ term.aux = 0
    BY <1>8 DEF KillPops, BetweenLists
  <2>6. term.cola \in {"NEW", "BLOCK", "READY"} /\ term'.aux = p
    BY <1>0, <2>5 DEF TermType
  <2>7. term.cola \in {"NEW", "READY"}
    <3>1. Range(<<>>) = {}
      BY DEF Range
    <3> QED BY <2>5, <2>6, <3>1 DEF OutOfLine
  <2>1. /\ cola'[term.cola] = Removed(cola[term.cola], p)
        /\ \A q \in Status : q # term.cola => cola'[q] = cola[q]
    BY <1>0, <2>5, <2>7
  <2>2. Range(Removed(cola[term.cola], p)) = Range(cola[term.cola]) \ {p}
    <3>1. cola[term.cola] \in Seq(ProgramIds) /\ IsInjective(cola[term.cola])
      BY <2>7, Lists, LineApart DEF Line
    <3> QED BY <2>5, <3>1, RemovedInjective
  <2> HIDE DEF p
  <2>3. p \notin Range(cola["EXIT"]) /\ cola'["EXIT"] = cola["EXIT"]
    BY <2>1, <2>5, <2>7 DEF OutOfLine, Line
  <2>4. \A x \in ProgramIds : Queued(x) \/ x = main.pid \/ x = term.aux
                                => (Queued(x) \/ x = main.pid \/ x = term.aux)'
    BY <2>1, <2>2, <2>5, <2>6, <2>7 DEF Queued
  <2> QED BY <2>5, <2>6, <2>3, <2>4, SomewhereKept DEF Somewhere
<1>9. CASE KillAppends
  <2>1. /\ cola' = [cola EXCEPT !["EXIT"] = Append(@, term.aux)] /\ term'.aux = 0
        /\ generatorPid' = generatorPid /\ main' = main /\ term.aux \in ProgramIds
    BY <1>0, <1>9, AfterQueueHasNone DEF KillAppends, TermType, TypeInv, InHand
  <2>2. /\ cola'["EXIT"] = Append(cola["EXIT"], term.aux)
        /\ \A q \in Status \ {"EXIT"} : cola'[q] = cola[q]
    BY <1>0, <2>1
  <2>3. Range(cola'["EXIT"]) = Range(cola["EXIT"]) \cup {term.aux}
    BY <1>0, <2>1, <2>2, PidAppended
  <2>4. \A x : Queued(x) \/ x = term.aux => Queued(x)'
    BY <2>2, <2>3 DEF Queued
  <2>5. IsInjective(cola'["EXIT"]) /\ term'.aux \notin Range(cola'["EXIT"])
    BY <2>1, <2>2, <2>3, ExitInjective, LineApart DEF Somewhere
  <2> QED BY <2>1, <2>4, <2>5, SomewhereKept
<1> QED
  BY <1>1, <1>2, <1>3, <1>4, <1>5, <1>6, <1>7, <1>8, <1>9, QuietOrMoves DEF Moves

InLists(p) ==
  UNION {{<<q, i>> : i \in {j \in DOMAIN cola[q] : cola[q][j] = p}} : q \in Status}

LEMMA InListsDef ==
  \A p, h : h \in InLists(p) <=>
              \E q \in Status : \E i \in DOMAIN cola[q] : cola[q][i] = p /\ h = <<q, i>>
BY DEF InLists

\* Lists that are apart, without repetitions, and hands that are apart from them.
LEMMA OneHolder ==
  ASSUME PcbInv, Somewhere, ~Corrupt, NEW p \in 1..generatorPid
  PROVE  \E h : Holders(p) = {h}
<1> USE DEF PcbInv
<1>1. p # 0
  BY Lists
<1>2. Holders(p) = InLists(p) \cup (IF main.pid = p THEN {<<"main", 0>>} ELSE {})
                             \cup (IF term.aux = p THEN {<<"terminal", 0>>} ELSE {})
  BY DEF Holders, MainHas, TermHas, Corrupt, InLists
<1>3. ~Queued(p) => InLists(p) = {}
  <2> SUFFICES ASSUME NEW h \in InLists(p) PROVE Queued(p)
    OBVIOUS
  <2>1. PICK q \in Status : \E i \in DOMAIN cola[q] : cola[q][i] = p
    BY InListsDef
  <2> QED BY <2>1 DEF Queued, Range
<1>4. Queued(p) => p # main.pid /\ p # term.aux
  <2> SUFFICES ASSUME NEW q \in Status, p \in Range(cola[q])
               PROVE  p # main.pid /\ p # term.aux
    BY DEF Queued
  <2>1. CASE q \in Line
    BY <2>1 DEF OutOfLine
  <2>2. CASE q = "EXIT"
    BY <1>1, <2>2 DEF OutOfLine, Somewhere
  <2>3. CASE q = "BLOCK"
    BY <2>3 DEF OutOfLine, Range
  <2> QED BY <2>1, <2>2, <2>3 DEF Line
<1>5. CASE Queued(p)
  <2>1. PICK q \in Status : p \in Range(cola[q])
    BY <1>5 DEF Queued
  <2>2. PICK i \in DOMAIN cola[q] : cola[q][i] = p
    BY <2>1 DEF Range
  <2>3. q \in Line \/ q = "EXIT"
    BY <2>2 DEF OutOfLine, Line
  <2>4. \A r \in Status : p \in Range(cola[r]) => r = q
    <3>1. p \notin Range(cola["BLOCK"])
      BY DEF OutOfLine, Range
    <3>2. \A r \in Line : p \in Range(cola[r]) => p \notin Range(cola["EXIT"])
      BY DEF OutOfLine
    <3> QED BY <2>1, <3>1, <3>2, LineApart DEF Line
  <2>5. IsInjective(cola[q])
    BY <2>3, LineApart DEF Somewhere
  <2>6. InLists(p) = {<<q, i>>}
    <3>1. <<q, i>> \in InLists(p)
      BY <2>2, InListsDef
    <3>2. ASSUME NEW h \in InLists(p) PROVE h = <<q, i>>
      <4>0. PICK r \in Status : \E j \in DOMAIN cola[r] : cola[r][j] = p /\ h = <<r, j>>
        BY InListsDef
      <4>1. PICK j \in DOMAIN cola[r] : cola[r][j] = p /\ h = <<r, j>>
        BY <4>0
      <4>2. p \in Range(cola[r])
        BY <4>1 DEF Range
      <4>3. r = q
        BY <2>4, <4>2
      <4>4. j = i
        BY <2>2, <2>5, <4>1, <4>3 DEF IsInjective
      <4> QED BY <4>1, <4>3, <4>4
    <3> QED BY <3>1, <3>2
  <2>7. Holders(p) = {<<q, i>>}
    BY <1>2, <1>4, <1>5, <2>6
  <2> QED BY <2>7
<1>6. CASE ~Queued(p)
  <2>1. main.pid # 0 => main.pid # term.aux
    BY DEF OutOfLine
  <2>2. CASE p = main.pid
    <3>1. Holders(p) = {<<"main", 0>>}
      BY <1>1, <1>2, <1>3, <1>6, <2>1, <2>2
    <3> QED BY <3>1
  <2>3. CASE p = term.aux
    <3>1. Holders(p) = {<<"terminal", 0>>}
      BY <1>1, <1>2, <1>3, <1>6, <2>1, <2>3
    <3> QED BY <3>1
  <2> QED BY <1>6, <2>2, <2>3 DEF Somewhere
<1> QED BY <1>5, <1>6

LEMMA PlacesStep ==
  ASSUME OneMover
  PROVE  /\ Init => PcbInv /\ OnlyAllowed /\ Somewhere
         /\ PcbInv /\ OnlyAllowed /\ Somewhere /\ [Next]_vars
              => (PcbInv /\ OnlyAllowed /\ Somewhere)'
<1>1. ASSUME Init PROVE OnlyAllowed /\ Somewhere
  <2>1. Range(<<>>) = {} /\ IsInjective(<<>>) /\ DOMAIN <<>> = {}
    BY DEF Range, IsInjective
  <2> QED BY <1>1, <2>1 DEF Init, OnlyAllowed, Somewhere, Peers
<1>2. ASSUME PcbInv, OnlyAllowed, Somewhere, UNCHANGED vars PROVE OnlyAllowed' /\ Somewhere'
  BY <1>2 DEF OnlyAllowed, Somewhere, Queued, vars, tablas, red
<1>3. ASSUME PcbInv, OnlyAllowed, Somewhere, Next PROVE OnlyAllowed' /\ Somewhere'
  BY <1>3, OnlyAllowedStep, SomewhereStep DEF PcbInv
<1> QED BY <1>1, <1>2, <1>3, InitPcbInv, PcbInvStep

\* When the operator kills programs and no console leaves, until the threads
\* come to use the same node each PCB is in exactly one place: one list of
\* status_queue, once, or the hand of the thread that moves it, although "kill"
\* finds its position, its node and the tail of pcb_exit with no lock held in
\* between.  With consoles that leave as well, destroy_console may put the PCB
\* that "kill" has in its hand in pcb_exit, which then gets it twice.
THEOREM OneUntilClash == ASSUME OneMover PROVE Spec => []OnePlaceUntilClash
<1>1. PcbInv /\ Somewhere => OnePlaceUntilClash
  <2> SUFFICES ASSUME PcbInv, Somewhere, ~Corrupt, NEW p \in 1..generatorPid
               PROVE  Cardinality(Holders(p)) = 1
    BY DEF OnePlaceUntilClash, OnePlace
  <2>1. PICK h : Holders(p) = {h}
    BY OneHolder
  <2> QED BY <2>1, FS_Singleton
<1> QED BY PlacesStep, <1>1, PTL DEF Spec

----------------------------------------------------------------------------
(***************************************************************************)
(* What the planner relies on from one step to the next: that it holds the *)
(* lock, that what it tested is still so, that codes and PCBs go together, *)
(* and that Memoria has the pages of just the programs in the system.      *)
(***************************************************************************)

----------------------------------------------------------------------------
(* Where the main thread is, and how long the lists are.                   *)

Planning == {"admit", "pop_new", "take_new", "admitted", "dispatch", "pop_ready", "take_ready"}

\* The steps of the other threads and of the peers.
Others == Terminal \/ PeersStep

\* They leave the main thread where it is, or end the process.
LEMMA OthersKeepMain ==
  ASSUME TypeInv, Others
  PROVE  /\ main' = main \/ main'.at = "crashed"
         /\ UNCHANGED <<codes_ms, generatorPid, pids, consolas_conectadas, read_fds>>
<1> USE Records DEF tablas, clientes, red, MainGoes, MainType
<1> QED
  BY DEF Others, PeersStep, Connects, SubmitsProgram, Disconnects, FinishesProgram, Terminal,
         Kill, MultipgCommand, StopCommand, StopsPlanning, RestartCommand, KillCommand,
         KillFinds, KillMisses, KillPops, KillAppends,
    KillFindsNode, KillTakesAgain, Clashes

LEMMA Lengths == TypeInv => \A q \in Status : Len(cola[q]) \in Nat
<1> SUFFICES ASSUME TypeInv, NEW q \in Status PROVE Len(cola[q]) \in Nat
  OBVIOUS
<1>1. cola[q] \in Seq(ProgramIds)
  BY Lists
<1> QED BY <1>1, LenProperties

LEMMA EndedLengths ==
  ASSUME TypeInv, NEW p, NEW code, EndProgram(p, code)
  PROVE  \A q \in Status \ {"EXIT"} :
           Len(cola'[q]) \in Nat /\ Len(cola'[q]) <= Len(cola[q])
<1> SUFFICES ASSUME NEW q \in Status \ {"EXIT"}
             PROVE  Len(cola'[q]) \in Nat /\ Len(cola'[q]) <= Len(cola[q])
  OBVIOUS
<1>1. cola'[q] = Without(cola[q], p) /\ cola[q] \in Seq(ProgramIds)
  BY Lists DEF EndProgram
<1> QED BY <1>1, WithoutLength

\* "kill" takes from the lists, and gives only to pcb_exit.
LEMMA OthersShrink ==
  ASSUME TypeInv, Others
  PROVE  \A q \in Status \ {"EXIT"} :
           Len(cola'[q]) \in Nat /\ Len(cola'[q]) <= Len(cola[q])
<1> USE DEF tablas, clientes, red
<1>1. \A q \in Status : Len(cola[q]) \in Nat /\ Len(cola[q]) <= Len(cola[q])
  BY Lengths
<1>2. CASE cola' = cola
  BY <1>1, <1>2
<1>3. CASE KillAppends
  <2>1. \A q \in Status \ {"EXIT"} : cola'[q] = cola[q]
    BY <1>3, Lists DEF KillAppends
  <2> QED BY <1>1, <2>1
<1>4. CASE KillPops
  <2>1. /\ cola' = [cola EXCEPT ![term.cola] = Removed(@, term.nodo)] /\ term.cola \in Status
        /\ term.nodo \in Range(cola[term.cola])
    BY <1>4, Records DEF KillPops, TermType
  <2>2. cola[term.cola] \in Seq(ProgramIds) /\ cola \in [Status -> Seq(ProgramIds)]
    BY <2>1, Lists
  <2>3. /\ Len(Removed(cola[term.cola], term.nodo)) \in Nat
        /\ Len(Removed(cola[term.cola], term.nodo)) <= Len(cola[term.cola])
    BY <2>1, <2>2, RemovedList
  <2>4. /\ cola'[term.cola] = Removed(cola[term.cola], term.nodo)
        /\ \A q \in Status : q # term.cola => cola'[q] = cola[q]
    BY <2>1, <2>2
  <2> QED BY <1>1, <2>3, <2>4
<1> QED
  BY <1>2, <1>3, <1>4
  DEF Others, PeersStep, Connects, SubmitsProgram, Disconnects, FinishesProgram, Terminal,
      Kill, MultipgCommand, StopCommand, StopsPlanning, RestartCommand, KillCommand,
      KillFinds, KillMisses, KillFindsNode, KillTakesAgain, Clashes

\* Where a thread that gets a node in its hand comes from.
LEMMA LooksFrom ==
  ASSUME TypeInv, Looks
  PROVE  /\ main'.at = "take_new" =>
              main.at = "pop_new" /\ cola["NEW"] # <<>> /\ main'.nodo = Head(cola["NEW"])
         /\ main'.at = "take_ready" =>
              main.at = "pop_ready" /\ cola["READY"] # <<>> /\ main'.nodo = Head(cola["READY"])
         /\ main'.at = "crashed" =>
              \/ main.at = "pop_new" /\ cola["NEW"] = <<>>
              \/ main.at = "pop_ready" /\ cola["READY"] = <<>>
         /\ main'.at = "corrupt" =>
              \/ main.at = "take_new" /\ main.nodo \notin Range(cola["NEW"])
              \/ main.at = "take_ready" /\ main.nodo \notin Range(cola["READY"])
<1> USE Records DEF MainType
<1>1. CASE FindsNew
  <2>1. main.at = "pop_new"
    BY <1>1 DEF FindsNew
  <2>2. CASE cola["NEW"] = <<>>
    <3>1. main'.at = "crashed"
      BY <1>1, <2>2 DEF FindsNew, FindsFirst
    <3> QED BY <2>1, <2>2, <3>1
  <2>3. CASE cola["NEW"] # <<>>
    <3>1. main'.at = "take_new" /\ main'.nodo = Head(cola["NEW"])
      BY <1>1, <2>3 DEF FindsNew, FindsFirst
    <3> QED BY <2>1, <2>3, <3>1
  <2> QED BY <2>2, <2>3
<1>2. CASE FindsReady
  <2>1. main.at = "pop_ready"
    BY <1>2 DEF FindsReady
  <2>2. CASE cola["READY"] = <<>>
    <3>1. main'.at = "crashed"
      BY <1>2, <2>2 DEF FindsReady, FindsFirst
    <3> QED BY <2>1, <2>2, <3>1
  <2>3. CASE cola["READY"] # <<>>
    <3>1. main'.at = "take_ready" /\ main'.nodo = Head(cola["READY"])
      BY <1>2, <2>3 DEF FindsReady, FindsFirst
    <3> QED BY <2>1, <2>3, <3>1
  <2> QED BY <2>2, <2>3
<1>3. CASE TakesAgain
  <2>1. main'.at = "corrupt"
    BY <1>3 DEF TakesAgain, MainGoes
  <2>2. \/ main.at = "take_new" /\ main.nodo \notin Range(cola["NEW"])
        \/ main.at = "take_ready" /\ main.nodo \notin Range(cola["READY"])
    BY <1>3 DEF TakesAgain
  <2> QED BY <2>1, <2>2
<1> QED BY <1>1, <1>2, <1>3 DEF Looks

\* How the main thread comes to be about to pop a PCB of pcb_new ...
LEMMA ComesToPopNew ==
  ASSUME TypeInv, Next, main'.at = "pop_new"
  PROVE  \/ Admits /\ codes_ms # <<>>
         \/ (main' = main /\ Others)
<1> USE Records DEF tablas, clientes, red, MainGoes, MainType
<1>1. CASE Others
  BY <1>1, OthersKeepMain
<1>2. CASE Looks
  BY <1>2, LooksQuietly
<1>3. CASE MainThread /\ ~Looks
  BY <1>3 DEF MainThread, Looks, Select, Accepts, NewProgram, ConsoleGone, ProgramEnds, LooksUp,
    EndsOrphan, ClosesConsole, LocksPlanning, Admits, AdmitsNone, AsksForPages, EntersSystem,
    CanDispatch, Dispatches, UnlocksPlanning, Serving
<1> QED BY <1>1, <1>2, <1>3 DEF Next, Others

\* ... or of pcb_ready.
LEMMA ComesToPopReady ==
  ASSUME TypeInv, Next, main'.at = "pop_ready"
  PROVE  CanDispatch \/ (main' = main /\ Others)
<1> USE Records DEF tablas, clientes, red, MainGoes, MainType
<1>1. CASE Others
  BY <1>1, OthersKeepMain
<1>2. CASE Looks
  BY <1>2, LooksQuietly
<1>3. CASE MainThread /\ ~Looks
  BY <1>3 DEF MainThread, Looks, Select, Accepts, NewProgram, ConsoleGone, ProgramEnds, LooksUp,
    EndsOrphan, ClosesConsole, LocksPlanning, Admits, AdmitsNone, AsksForPages, EntersSystem,
    CanDispatch, Dispatches, UnlocksPlanning, Serving
<1> QED BY <1>1, <1>2, <1>3 DEF Next, Others

\* How it comes to have a node of one of them in its hand.
LEMMA ComesToTake ==
  ASSUME TypeInv, Next, main'.at \in {"take_new", "take_ready"}
  PROVE  Looks \/ (main' = main /\ Others)
<1> USE Records DEF tablas, clientes, red, MainGoes, MainType
<1>1. CASE Others
  BY <1>1, OthersKeepMain
<1>2. CASE MainThread /\ ~Looks
  BY <1>2 DEF MainThread, Looks, Select, Accepts, NewProgram, ConsoleGone, ProgramEnds, LooksUp,
    EndsOrphan, ClosesConsole, LocksPlanning, Admits, AdmitsNone, AsksForPages, EntersSystem,
    CanDispatch, Dispatches, UnlocksPlanning, Serving
<1> QED BY <1>1, <1>2 DEF Next, Others

----------------------------------------------------------------------------
(* The lock.                                                               *)

\* A lock that only the terminal's own "restart" frees under another's feet
\* stays with the planner until it unlocks it.
LEMMA LockHeldStep ==
  ASSUME "stray" \notin Allowed, TypeInv, LockHeld, Next
  PROVE  LockHeld'
<1> USE Records DEF tablas, clientes, red, MainGoes, MainType
<1>1. CASE Others
  <2>1. main'.at \in Planning => main' = main
    BY <1>1, OthersKeepMain DEF Planning
  <2>2. mutex = "main" => mutex' = "main"
    BY <1>1 DEF Others, PeersStep, Connects, SubmitsProgram, Disconnects, FinishesProgram,
      Terminal, Kill, MultipgCommand, StopCommand, StopsPlanning, RestartCommand,
      KillCommand, KillFinds, KillMisses, KillPops, KillAppends,
    KillFindsNode, KillTakesAgain, Clashes
  <2> QED BY <2>1, <2>2 DEF LockHeld, Planning
<1>2. CASE Looks
  BY <1>2, LooksQuietly DEF LockHeld
<1>3. CASE MainThread /\ ~Looks
  BY <1>3 DEF MainThread, Looks, Select, Accepts, NewProgram, ConsoleGone, ProgramEnds, LooksUp,
    EndsOrphan, ClosesConsole, LocksPlanning, Admits, AdmitsNone, AsksForPages, EntersSystem,
    CanDispatch, Dispatches, UnlocksPlanning, Serving, LockHeld
<1> QED BY <1>1, <1>2, <1>3 DEF Next, Others

LEMMA StoppedStep ==
  ASSUME PcbInv, LockHeld, Next, mutex = "terminal", mutex' = "terminal"
  PROVE  /\ generatorPid' = generatorPid
         /\ Range(cola'["READY"]) \subseteq Range(cola["READY"])
         /\ cola'["EXEC"] = cola["EXEC"]
<1> USE DEF PcbInv
<1>1. CASE Quiet
  BY <1>1 DEF Quiet
<1>2. main.at \notin Planning
  BY DEF LockHeld, Planning
<1>3. CASE EndsOrphan
  <2>1. EndProgram(Head(main.rest), ExitConsoleKilled) /\ generatorPid' = generatorPid
    BY <1>3 DEF EndsOrphan
  <2>2. Head(main.rest) \in ProgramIds /\ Head(main.rest) \notin Range(cola["EXEC"])
    BY <1>3, OrphanOwned DEF EndsOrphan, CpusKnown
  <2>3. Range(cola'["READY"]) = Range(cola["READY"]) \ {Head(main.rest)}
    BY <2>1, <2>2, EndedRanges
  <2>4. cola'["EXEC"] = Without(cola["EXEC"], Head(main.rest))
    BY <2>1 DEF EndProgram
  <2>5. cola["EXEC"] \in Seq(ProgramIds)
    BY Lists
  <2>6. cola'["EXEC"] = cola["EXEC"]
    BY <2>2, <2>4, <2>5, WithoutAbsent
  <2> QED BY <2>1, <2>3, <2>6
<1>4. CASE KillPops
  <2>1. /\ cola' = [cola EXCEPT ![term.cola] = Removed(@, term.nodo)]
        /\ term.cola \in {"NEW", "BLOCK", "READY"} /\ generatorPid' = generatorPid
        /\ term.nodo \in Range(cola[term.cola])
    BY <1>4, Records DEF KillPops, TermType
  <2>2. cola[term.cola] \in Seq(ProgramIds) /\ cola \in [Status -> Seq(ProgramIds)]
    BY <2>1, Lists
  <2>3. Range(Removed(cola[term.cola], term.nodo)) \subseteq Range(cola[term.cola])
    BY <2>1, <2>2, RemovedList
  <2>4. /\ cola'[term.cola] = Removed(cola[term.cola], term.nodo)
        /\ \A q \in Status : q # term.cola => cola'[q] = cola[q]
    BY <2>1, <2>2
  <2> QED BY <2>1, <2>3, <2>4
<1>5. CASE KillAppends
  BY <1>5, Lists DEF KillAppends, tablas
<1>6. CASE (\E c \in Consoles : NewProgram(c)) \/ (\E c \in Cpus : ProgramEnds(c))
  BY <1>6 DEF NewProgram, ProgramEnds, Lockable
<1>7. CASE EntersSystem \/ Dispatches \/ (\E granted \in BOOLEAN : AsksForPages(granted))
  BY <1>2, <1>7 DEF EntersSystem, Dispatches, AsksForPages, Planning
<1> QED
  BY <1>1, <1>3, <1>4, <1>5, <1>6, <1>7, QuietOrMoves DEF Moves

\* "stop" stops the planning: while the terminal holds mutex_planificacion
\* nothing arrives, becomes ready or leaves the exec list, although "kill" and
\* destroy_console move PCBs without that lock.  (If "restart" may be typed
\* with the planning not stopped, it frees the lock the planner holds, and a
\* later "stop" takes it in the middle of planificacion.)
THEOREM StopStops == ASSUME "stray" \notin Allowed PROVE Spec => PlanningStopped
<1>1. Init => PcbInv /\ LockHeld
  BY InitPcbInv DEF Init, LockHeld
<1>2. PcbInv /\ LockHeld /\ [Next]_vars => (PcbInv /\ LockHeld)'
  <2>1. ASSUME LockHeld, UNCHANGED vars PROVE LockHeld'
    BY <2>1 DEF LockHeld, vars
  <2> QED BY <2>1, PcbInvStep, LockHeldStep DEF PcbInv
<1> DEFINE Held == mutex = "terminal" /\ mutex' = "terminal" =>
                     /\ generatorPid' = generatorPid
                     /\ Range(cola'["READY"]) \subseteq Range(cola["READY"])
                     /\ cola'["EXEC"] = cola["EXEC"]
<1>3. PcbInv /\ LockHeld /\ [Next]_vars => [Held]_vars
  BY StoppedStep
<1>4. PlanningStopped <=> [][Held]_vars
  BY DEF PlanningStopped
<1> HIDE DEF Held
<1> QED BY <1>1, <1>2, <1>3, <1>4, PTL DEF Spec

----------------------------------------------------------------------------
(* The degree of multiprogramming.                                         *)

\* RoomForOne and DegreeRespected, one inductive where the other is not.
DegreeInv == RoomForOne /\ DegreeRespected

LEMMA FewerFit ==
  \A a, b, l \in Nat : \A r \in {0, 1} : a <= b /\ b + r <= l => a + r <= l
OBVIOUS

LEMMA DegreeStep ==
  ASSUME "multipg" \notin Allowed, TypeInv, FifoInv, BetweenLists, DegreeInv, Next
  PROVE  DegreeInv'
<1> USE Records DEF tablas, clientes, red, MainGoes, MainType
<1>0. /\ multipg_level \in Nat /\ cola \in [Status -> Seq(ProgramIds)]
      /\ \A q \in Status : Len(cola[q]) \in Nat
  BY Lengths, Lists DEF TypeInv, TypeOK
<1>1. multipg_level' = multipg_level
  BY DEF Next, MainThread, Terminal, Kill, PeersStep, Connects,
    SubmitsProgram, Disconnects, FinishesProgram, Select, Accepts, NewProgram, ConsoleGone,
    ProgramEnds, LooksUp, EndsOrphan, ClosesConsole, LocksPlanning, Admits, AdmitsNone,
    AsksForPages, EntersSystem, CanDispatch, Dispatches, UnlocksPlanning, MultipgCommand,
    StopCommand, StopsPlanning, RestartCommand, KillCommand, KillFinds, KillMisses, KillPops,
    KillAppends, KillFindsNode, KillTakesAgain, Clashes, FindsNew, FindsReady, TakesAgain
\* Lists that shrink.
<1>2. ASSUME \A q \in Status \ {"EXIT"} : Len(cola'[q]) \in Nat /\ Len(cola'[q]) <= Len(cola[q])
      PROVE  InSystem' \in Nat /\ InSystem' <= InSystem /\ InSystem \in Nat
  <2>1. /\ Len(cola'["READY"]) \in Nat /\ Len(cola["READY"]) \in Nat
        /\ Len(cola'["EXEC"]) \in Nat /\ Len(cola["EXEC"]) \in Nat
        /\ Len(cola'["BLOCK"]) \in Nat /\ Len(cola["BLOCK"]) \in Nat
        /\ Len(cola'["READY"]) <= Len(cola["READY"]) /\ Len(cola'["EXEC"]) <= Len(cola["EXEC"])
        /\ Len(cola'["BLOCK"]) <= Len(cola["BLOCK"])
    BY <1>0, <1>2
  <2>2. \A a, b, c, d, e, f \in Nat :
          a <= d /\ b <= e /\ c <= f => /\ a + b + c \in Nat /\ d + e + f \in Nat
                                        /\ a + b + c <= d + e + f
    OBVIOUS
  <2> QED BY <2>1, <2>2 DEF InSystem
<1>3. ASSUME main'.at \notin {"pop_new", "take_new"}, main'.res = main.res, InSystem' \in Nat, InSystem \in Nat,
             InSystem' <= InSystem
      PROVE  DegreeInv'
  <2>1. InSystem + (IF main.res THEN 1 ELSE 0) <= multipg_level
    BY DEF DegreeInv, DegreeRespected
  <2>2. InSystem' + (IF main.res THEN 1 ELSE 0) <= multipg_level
    <3> DEFINE r == IF main.res THEN 1 ELSE 0
    <3>1. r \in {0, 1} /\ InSystem + r <= multipg_level
      BY <2>1
    <3> HIDE DEF r
    <3>2. InSystem' + r <= multipg_level
      BY <1>0, <1>3, <3>1, FewerFit
    <3> QED BY <3>2 DEF r
  <2>3. InSystem' + (IF main'.res THEN 1 ELSE 0) <= multipg_level'
    BY <1>1, <1>3, <2>2
  <2> QED BY <1>3, <2>3 DEF DegreeInv, RoomForOne, DegreeRespected
<1>4. ASSUME main'.at \notin {"pop_new", "take_new"}, main'.res = main.res, cola' = cola
      PROVE  DegreeInv'
  BY <1>1, <1>4 DEF DegreeInv, RoomForOne, DegreeRespected, InSystem
<1>5. CASE Others
  <2>1. InSystem' \in Nat /\ InSystem' <= InSystem /\ InSystem \in Nat
    BY <1>2, <1>5, OthersShrink
  <2>2. main' = main \/ (main'.at = "crashed" /\ main'.res = main.res)
    BY <1>5 DEF Others, PeersStep, Connects, SubmitsProgram, Disconnects, FinishesProgram,
      Terminal, Kill, MultipgCommand, StopCommand, StopsPlanning, RestartCommand,
      KillCommand, KillFinds, KillMisses, KillPops, KillAppends,
    KillFindsNode, KillTakesAgain, Clashes
  <2>3. CASE main' = main
    <3>1. RoomForOne'
      BY <1>0, <1>1, <2>1, <2>3 DEF DegreeInv, RoomForOne
    <3>2. InSystem + (IF main.res THEN 1 ELSE 0) <= multipg_level
      BY DEF DegreeInv, DegreeRespected
    <3>3. InSystem' + (IF main.res THEN 1 ELSE 0) <= multipg_level
      <4> DEFINE r == IF main.res THEN 1 ELSE 0
      <4>1. r \in {0, 1} /\ InSystem + r <= multipg_level
        BY <3>2
      <4> HIDE DEF r
      <4>2. InSystem' + r <= multipg_level
        BY <1>0, <2>1, <4>1, FewerFit
      <4> QED BY <4>2 DEF r
    <3> QED BY <1>1, <2>3, <3>1, <3>3 DEF DegreeInv, DegreeRespected
  <2> QED BY <1>3, <2>1, <2>2, <2>3
<1>6. CASE Select \/ Accepts \/ LooksUp \/ ClosesConsole \/ LocksPlanning \/ AdmitsNone
           \/ CanDispatch \/ UnlocksPlanning \/ \E c \in Consoles : ConsoleGone(c)
  BY <1>4, <1>6 DEF Select, Accepts, LooksUp, ClosesConsole, LocksPlanning, AdmitsNone,
    CanDispatch, UnlocksPlanning, ConsoleGone, Serving
<1>7. ASSUME NEW c \in Consoles, NewProgram(c) PROVE DegreeInv'
  <2>1. InSystem' = InSystem /\ main' = main /\ main.at = "serve"
    BY <1>0, <1>7 DEF NewProgram, InSystem, Serving
  <2> QED BY <1>1, <2>1 DEF DegreeInv, RoomForOne, DegreeRespected
<1>8. CASE EndsOrphan \/ \E c \in Cpus : ProgramEnds(c)
  <2>1. \E p, code : EndProgram(p, code)
    BY <1>8 DEF EndsOrphan, ProgramEnds
  <2>2. InSystem' \in Nat /\ InSystem' <= InSystem /\ InSystem \in Nat
    BY <1>2, <2>1, EndedLengths
  <2>3. main'.at \notin {"pop_new", "take_new"} /\ main'.res = main.res
    BY <1>8 DEF EndsOrphan, ProgramEnds, Serving
  <2> QED BY <1>3, <2>2, <2>3
<1>9. CASE Admits
  <2>1. main.at = "admit" /\ cola' = cola /\ main'.res = main.res
        /\ (main'.at \in {"pop_new", "take_new"} => InSystem < multipg_level)
    BY <1>9 DEF Admits, MayAdmit
  <2>2. InSystem' = InSystem
    BY <2>1 DEF InSystem
  <2> QED BY <1>1, <2>1, <2>2 DEF DegreeInv, RoomForOne, DegreeRespected
\* The only one being admitted is the one there was room for.
<1>10. ASSUME NEW granted \in BOOLEAN, AsksForPages(granted) PROVE DegreeInv'
  <2>1. /\ main.at = "take_new" /\ main.res = FALSE /\ InSystem < multipg_level
        /\ cola' = [cola EXCEPT !["NEW"] = Removed(@, main.nodo)] /\ main'.at = "admitted"
    BY <1>10 DEF AsksForPages, BetweenLists, DegreeInv, RoomForOne
  <2>2. InSystem' = InSystem /\ InSystem \in Nat
    BY <1>0, <2>1 DEF InSystem
  <2> QED BY <1>0, <1>1, <2>1, <2>2 DEF DegreeInv, RoomForOne, DegreeRespected
<1>11. CASE EntersSystem
  <2>1. /\ main.at = "admitted" /\ main'.at = "dispatch" /\ main'.res = FALSE
        /\ cola' = [cola EXCEPT ![IF main.res THEN "READY" ELSE "EXIT"] = Append(@, main.pid)]
    BY <1>11 DEF EntersSystem
  <2>2. CASE main.res
    <3>1. /\ cola'["READY"] = Append(cola["READY"], main.pid)
          /\ cola'["EXEC"] = cola["EXEC"] /\ cola'["BLOCK"] = cola["BLOCK"]
      BY <1>0, <2>1, <2>2
    <3>2. Len(cola'["READY"]) = Len(cola["READY"]) + 1
      BY <3>1, Lists, AppendProperties DEF TypeInv, InHand
    <3>3. InSystem' = InSystem + 1
      BY <1>0, <3>1, <3>2 DEF InSystem
    <3> QED BY <1>1, <2>1, <2>2, <3>3 DEF DegreeInv, RoomForOne, DegreeRespected
  <2>3. CASE ~main.res
    <3>1. InSystem' = InSystem
      BY <1>0, <2>1, <2>3 DEF InSystem
    <3> QED BY <1>1, <2>1, <2>3, <3>1 DEF DegreeInv, RoomForOne, DegreeRespected
  <2> QED BY <2>2, <2>3
<1>12. CASE Dispatches
  <2> DEFINE p == Head(cola["READY"])
  <2>1. /\ cola["READY"] # <<>>
        /\ cola'["READY"] = Tail(cola["READY"]) /\ cola'["EXEC"] = Append(cola["EXEC"], p)
        /\ cola'["BLOCK"] = cola["BLOCK"] /\ main'.at = "dispatch" /\ main'.res = main.res
    BY <1>0, <1>12, TakesReady
  <2>2. cola["READY"] \in Seq(ProgramIds) /\ cola["EXEC"] \in Seq(ProgramIds)
    BY Lists
  <2>3. p \in ProgramIds /\ Len(cola'["READY"]) = Len(cola["READY"]) - 1
    BY <2>1, <2>2, HeadTailProperties
  <2> HIDE DEF p
  <2>4. Len(cola'["EXEC"]) = Len(cola["EXEC"]) + 1
    BY <2>1, <2>2, <2>3, AppendProperties
  <2>5. InSystem' = InSystem /\ InSystem \in Nat
    <3>1. \A a, b, c \in Nat : (a - 1) + (b + 1) + c = a + b + c /\ a + b + c \in Nat
      OBVIOUS
    <3>2. /\ Len(cola["READY"]) \in Nat /\ Len(cola["EXEC"]) \in Nat
          /\ Len(cola["BLOCK"]) \in Nat
      BY <1>0
    <3>3. InSystem' = (Len(cola["READY"]) - 1) + (Len(cola["EXEC"]) + 1) + Len(cola["BLOCK"])
      BY <2>1, <2>3, <2>4 DEF InSystem
    <3> QED BY <3>1, <3>2, <3>3 DEF InSystem
  <2> QED BY <1>1, <2>1, <2>5 DEF DegreeInv, RoomForOne, DegreeRespected
<1>13. CASE Looks
  <2>1. /\ main'.res = main.res /\ cola' = cola
        /\ main'.at \in {"pop_new", "take_new"} => main.at = "pop_new"
    BY <1>13, LooksQuietly, LooksFrom DEF Quiet
  <2>2. InSystem' = InSystem
    BY <2>1 DEF InSystem
  <2> QED BY <1>1, <2>1, <2>2 DEF DegreeInv, RoomForOne, DegreeRespected
<1> QED
  BY <1>5, <1>6, <1>7, <1>8, <1>9, <1>10, <1>11, <1>12, <1>13
  DEF Next, MainThread, Others, Looks

\* As long as the operator does not lower it, the degree is never exceeded: the
\* test of planificacion is still true when the PCB is in pcb_ready, because
\* nothing but the planner adds to the three lists it counts.
THEOREM DegreeHolds == ASSUME "multipg" \notin Allowed PROVE Spec => []DegreeRespected
<1>1. Init => PcbInv /\ DegreeInv
  <2>1. Len(<<>>) = 0
    OBVIOUS
  <2> QED BY <2>1, BoundsAssumption, InitPcbInv
          DEF Init, DegreeInv, RoomForOne, DegreeRespected, InSystem
<1>2. PcbInv /\ DegreeInv /\ [Next]_vars => (PcbInv /\ DegreeInv)'
  <2>1. ASSUME DegreeInv, UNCHANGED vars PROVE DegreeInv'
    BY <2>1 DEF DegreeInv, RoomForOne, DegreeRespected, InSystem, vars, tablas
  <2> QED BY <2>1, PcbInvStep, DegreeStep DEF PcbInv
<1>3. DegreeInv => DegreeRespected
  BY DEF DegreeInv
<1> QED BY <1>1, <1>2, <1>3, PTL DEF Spec

----------------------------------------------------------------------------
(* The codes and the PCBs that wait.                                       *)

\* Where the main thread has the code of a program and not yet its PCB.
WithCode == {"pop_new", "take_new"}

\* What happens to both lists in a step of the main thread.
LEMMA MainKeepsCodes ==
  ASSUME TypeInv, MainThread
  PROVE  \/ \E c \in Consoles : NewProgram(c)
         \/ Admits
         \/ \E granted \in BOOLEAN : AsksForPages(granted)
         \/ Looks
         \/ /\ codes_ms' = codes_ms
            /\ cola'["NEW"] = cola["NEW"] \/ \E p, code : EndProgram(p, code)
            /\ main.at \notin WithCode /\ main'.at \notin WithCode
            /\ main'.at \notin {"crashed", "corrupt"} \/ main' = main
<1> USE Records DEF tablas, clientes, red, MainGoes, MainType, WithCode
<1>1. cola \in [Status -> Seq(ProgramIds)]
  BY Lists
<1>2. CASE EntersSystem \/ Dispatches
  BY <1>1, <1>2 DEF EntersSystem, Dispatches
<1>3. CASE EndsOrphan \/ \E c \in Cpus : ProgramEnds(c)
  BY <1>3 DEF EndsOrphan, ProgramEnds, Serving
<1>4. CASE LooksUp \/ \E c \in Consoles : ConsoleGone(c)
  BY <1>4 DEF LooksUp, ConsoleGone, Serving
<1>5. CASE Select \/ Accepts \/ ClosesConsole \/ LocksPlanning \/ AdmitsNone \/ CanDispatch
           \/ UnlocksPlanning
  BY <1>5 DEF Select, Accepts, ClosesConsole, LocksPlanning, AdmitsNone, CanDispatch,
    UnlocksPlanning, Serving
<1> QED BY <1>2, <1>3, <1>4, <1>5 DEF MainThread, Looks

LEMMA CodesLength == TypeInv => codes_ms \in Seq(ProgramIds) /\ Len(codes_ms) \in Nat
<1> SUFFICES ASSUME TypeInv PROVE codes_ms \in Seq(ProgramIds) /\ Len(codes_ms) \in Nat
  OBVIOUS
<1>1. codes_ms \in Seq(ProgramIds)
  BY DEF TypeInv, TypeOK
<1> QED BY <1>1, LenProperties

LEMMA ShorterList ==
  /\ \A s \in Seq(ProgramIds), p \in ProgramIds : Len(Append(s, p)) = Len(s) + 1
  /\ \A s \in Seq(ProgramIds) : s # <<>> => Len(Tail(s)) = Len(s) - 1 /\ Len(s) \in Nat \ {0}
BY AppendProperties, HeadTailProperties, LenProperties, EmptySeq

LEMMA CodesKeepUpStep ==
  ASSUME TypeInv, FifoInv, CodesKeepUp, Alive, Next
  PROVE  CodesKeepUp'
<1> USE DEF Alive, Corrupt, WithCode
<1>0. /\ \A q \in Status : Len(cola[q]) \in Nat /\ cola[q] \in Seq(ProgramIds)
      /\ cola \in [Status -> Seq(ProgramIds)]
      /\ codes_ms \in Seq(ProgramIds) /\ Len(codes_ms) \in Nat /\ main \in MainType
  BY Lengths, Lists, CodesLength, Records
<1>1. ASSUME Len(cola'["NEW"]) \in Nat, Len(cola'["NEW"]) <= Len(cola["NEW"]),
             codes_ms' = codes_ms, main'.at \in WithCode <=> main.at \in WithCode
      PROVE  CodesKeepUp'
  <2> DEFINE one == IF main.at \in WithCode THEN 1 ELSE 0
  <2>1. one \in {0, 1} /\ Len(cola["NEW"]) <= Len(codes_ms) + one
    BY DEF CodesKeepUp
  <2>2. (IF main'.at \in WithCode THEN 1 ELSE 0) = one
    BY <1>1
  <2> HIDE DEF one
  <2>3. \A a, b, l \in Nat : \A r \in {0, 1} : a <= b /\ b <= l + r => a <= l + r
    OBVIOUS
  <2>4. Len(cola'["NEW"]) <= Len(codes_ms) + one
    BY <1>0, <1>1, <2>1, <2>3
  <2> QED BY <1>1, <2>2, <2>4 DEF CodesKeepUp
<1>2. CASE Others
  <2>1. Len(cola'["NEW"]) \in Nat /\ Len(cola'["NEW"]) <= Len(cola["NEW"])
    BY <1>2, OthersShrink
  <2>2. codes_ms' = codes_ms /\ (main' = main \/ main'.at = "crashed")
    BY <1>2, OthersKeepMain
  <2> QED BY <1>1, <2>1, <2>2 DEF CodesKeepUp
<1>3. ASSUME NEW c \in Consoles, NewProgram(c) PROVE CodesKeepUp'
  <2> DEFINE p == generatorPid + 1
  <2>1. /\ cola'["NEW"] = Append(cola["NEW"], p) /\ codes_ms' = Append(codes_ms, p)
        /\ main' = main /\ main.at = "serve" /\ p \in ProgramIds
    BY <1>0, <1>3, Lists DEF NewProgram, NewPid, Serving
  <2> HIDE DEF p
  <2>2. Len(cola'["NEW"]) = Len(cola["NEW"]) + 1 /\ Len(codes_ms') = Len(codes_ms) + 1
    BY <1>0, <2>1, ShorterList
  <2> QED BY <1>0, <2>1, <2>2 DEF CodesKeepUp
<1>4. CASE Admits
  <2>1. CASE codes_ms = <<>>
    BY <1>4, <2>1, Records DEF Admits, MainGoes, CodesKeepUp, MainType
  <2>2. CASE codes_ms # <<>>
    <3>1. /\ main.at = "admit" /\ main'.at = "pop_new" /\ codes_ms' = Tail(codes_ms)
          /\ cola' = cola
      BY <1>0, <1>4, <2>2 DEF Admits, MainType
    <3>2. Len(codes_ms') = Len(codes_ms) - 1
      BY <1>0, <2>2, <3>1, ShorterList
    <3> QED BY <1>0, <3>1, <3>2 DEF CodesKeepUp
  <2> QED BY <2>1, <2>2
<1>5. ASSUME NEW granted \in BOOLEAN, AsksForPages(granted) PROVE CodesKeepUp'
  <2>1. /\ main.at = "take_new" /\ main'.at = "admitted" /\ codes_ms' = codes_ms
        /\ cola["NEW"] # <<>> /\ cola'["NEW"] = Tail(cola["NEW"])
    <3>1. codes_ms' = codes_ms
      BY <1>5 DEF AsksForPages, tablas
    <3> QED BY <1>0, <1>5, <3>1, TakesNew DEF MainType
  <2>2. Len(cola'["NEW"]) = Len(cola["NEW"]) - 1
    BY <1>0, <2>1, ShorterList
  <2> QED BY <1>0, <2>1, <2>2 DEF CodesKeepUp
<1>6. ASSUME codes_ms' = codes_ms, cola'["NEW"] = cola["NEW"] \/ \E p, code : EndProgram(p, code),
             main.at \notin WithCode, main'.at \notin WithCode
      PROVE  CodesKeepUp'
  <2>1. Len(cola["NEW"]) \in Nat /\ Len(cola["NEW"]) <= Len(cola["NEW"])
    BY <1>0
  <2>2. Len(cola'["NEW"]) \in Nat /\ Len(cola'["NEW"]) <= Len(cola["NEW"])
    BY <1>6, <2>1, EndedLengths
  <2> QED BY <1>1, <1>6, <2>2
<1>7. CASE Looks
  <2>1. cola' = cola /\ codes_ms' = codes_ms
    BY <1>7, LooksQuietly DEF tablas
  <2>2. CASE main'.at \in {"crashed", "corrupt"}
    BY <2>2 DEF CodesKeepUp
  <2>3. CASE main'.at = "take_new"
    <3>1. main.at = "pop_new"
      BY <1>7, <2>3, LooksFrom
    <3> QED BY <1>0, <1>1, <2>1, <2>3, <3>1
  <2>4. CASE main'.at = "take_ready"
    <3>1. main.at = "pop_ready"
      BY <1>7, <2>4, LooksFrom
    <3> QED BY <1>0, <1>1, <2>1, <2>4, <3>1
  <2> QED BY <1>7, <2>2, <2>3, <2>4, LooksQuietly
<1> QED
  BY <1>2, <1>3, <1>4, <1>5, <1>6, <1>7, MainKeepsCodes DEF Next, Others

LEMMA KeepUpInv ==
  /\ Init => PcbInv /\ CodesKeepUp
  /\ PcbInv /\ CodesKeepUp /\ [Next]_vars => (PcbInv /\ CodesKeepUp)'
<1>1. Init => CodesKeepUp
  <2>1. Len(<<>>) = 0
    OBVIOUS
  <2> QED BY <2>1 DEF Init, CodesKeepUp
<1>2. ASSUME CodesKeepUp, UNCHANGED vars PROVE CodesKeepUp'
  BY <1>2 DEF CodesKeepUp, Alive, Corrupt, vars, tablas
<1>3. ASSUME PcbInv, CodesKeepUp, Next PROVE CodesKeepUp'
  BY <1>3, CodesKeepUpStep DEF Next, PcbInv
<1> QED BY <1>1, <1>2, <1>3, InitPcbInv, PcbInvStep

\* Whatever is typed and whoever leaves, planificacion never finds codes_ms
\* empty while a program waits: "kill" and destroy_console take PCBs out of
\* pcb_new, but leave their codes, so there are too many codes, not too few.
THEOREM CodesSuffice == Spec => []CodesKeepUp
BY KeepUpInv, PTL DEF Spec

----------------------------------------------------------------------------
(* NULL is not dereferenced.                                               *)

\* What planificacion has tested is still so when it pops: only "kill" takes a
\* PCB from pcb_new or pcb_ready while the planner is between the two.
LEMMA StillThereStep ==
  ASSUME "kill" \notin Allowed, TypeInv, OnlyAllowed, StillThere, Next
  PROVE  StillThere'
<1>0. cola["NEW"] \in Seq(ProgramIds)
  BY Lists
<1>1. ASSUME Others PROVE cola' = cola
  BY <1>1 DEF OnlyAllowed, Others, PeersStep, Connects, SubmitsProgram, Disconnects,
    FinishesProgram, Terminal, Kill, MultipgCommand, StopCommand, StopsPlanning,
    RestartCommand, KillCommand, KillFinds, KillMisses, KillPops, KillAppends,
    KillFindsNode, KillTakesAgain, Clashes
<1>2. ASSUME main'.at = "pop_new" PROVE cola'["NEW"] # <<>>
  <2>1. CASE Admits
    <3>1. cola["NEW"] # <<>> /\ cola' = cola
      BY <2>1 DEF Admits, MayAdmit
    <3> QED BY <3>1
  <2>2. CASE main' = main /\ Others
    BY <1>1, <1>2, <2>2 DEF StillThere
  <2> QED BY <1>2, <2>1, <2>2, ComesToPopNew
<1>3. ASSUME main'.at = "pop_ready" PROVE cola'["READY"] # <<>>
  <2>1. CASE CanDispatch
    BY <2>1 DEF CanDispatch
  <2>2. CASE main' = main /\ Others
    BY <1>1, <1>3, <2>2 DEF StillThere
  <2> QED BY <1>3, <2>1, <2>2, ComesToPopReady
<1>4. ASSUME NEW q \in {"NEW", "READY"},
             main'.at = IF q = "NEW" THEN "take_new" ELSE "take_ready"
      PROVE  main'.nodo \in Range(cola'[q])
  <2>1. CASE Looks
    <3>1. cola[q] # <<>> /\ main'.nodo = Head(cola[q]) /\ cola' = cola
      BY <1>4, <2>1, LooksFrom, LooksQuietly
    <3>2. cola[q] \in Seq(ProgramIds)
      BY Lists
    <3> QED BY <3>1, <3>2, RestShrinks
  <2>2. CASE main' = main /\ Others
    BY <1>1, <1>4, <2>2 DEF StillThere
  <2> QED BY <1>4, <2>1, <2>2, ComesToTake
<1> QED BY <1>2, <1>3, <1>4 DEF StillThere

LEMMA SurvivesStep ==
  ASSUME "kill" \notin Allowed, TypeInv, OnlyAllowed, StillThere, CodesKeepUp, Next
  PROVE  Alive'
<1> USE Records DEF MainGoes, MainType, Alive, Corrupt
<1>0. Alive
  BY DEF Next
<1>1. term'.at # "corrupt"
  BY OnlyAllowedStep DEF OnlyAllowed
<1>2. CASE Others
  <2>1. main' = main
    BY <1>2 DEF OnlyAllowed, Others, PeersStep, Connects, SubmitsProgram, Disconnects,
      FinishesProgram, Terminal, Kill, MultipgCommand, StopCommand, StopsPlanning,
      RestartCommand, KillCommand, KillFinds, KillMisses, KillPops, KillAppends,
      KillFindsNode, KillTakesAgain, Clashes
  <2> QED BY <1>0, <1>1, <2>1
<1>3. ASSUME NEW c \in Consoles, NewProgram(c) PROVE Alive'
  BY <1>0, <1>1, <1>3 DEF NewProgram
<1>4. CASE Admits
  <2>1. main.at = "admit" /\ cola["NEW"] # <<>> /\ Len(cola["NEW"]) <= Len(codes_ms) + 0
    BY <1>0, <1>4 DEF Admits, MayAdmit, CodesKeepUp
  <2>2. cola["NEW"] \in Seq(ProgramIds)
    BY Lists
  <2>3. Len(cola["NEW"]) \in Nat \ {0}
    BY <2>1, <2>2, ShorterList
  <2>4. Len(<<>>) = 0
    OBVIOUS
  <2>5. codes_ms # <<>>
    BY <2>1, <2>3, <2>4
  <2> QED BY <1>1, <1>4, <2>5 DEF Admits
<1>5. ASSUME NEW granted \in BOOLEAN, AsksForPages(granted) PROVE Alive'
  BY <1>1, <1>5 DEF AsksForPages
<1>6. CASE Looks
  <2>1. main'.at \notin {"crashed", "corrupt"}
    BY <1>6, LooksFrom DEF StillThere
  <2> QED BY <1>1, <2>1
<1>7. CASE main'.at \notin {"crashed", "corrupt"} \/ main' = main
  BY <1>0, <1>1, <1>7
<1> QED
  BY <1>2, <1>3, <1>4, <1>5, <1>6, <1>7, MainKeepsCodes DEF Next, Others

\* What keeps the planner going, as long as the operator kills nothing.
SurvivesInv == PcbInv /\ CodesKeepUp /\ OnlyAllowed /\ StillThere /\ Alive

LEMMA SurvivesAlways ==
  ASSUME "kill" \notin Allowed
  PROVE  /\ Init => SurvivesInv
         /\ SurvivesInv /\ [Next]_vars => SurvivesInv'
<1>1. Init => OnlyAllowed /\ StillThere /\ Alive
  <2>1. DOMAIN <<>> = {}
    OBVIOUS
  <2> QED BY <2>1, PeersAssumption
          DEF Init, OnlyAllowed, StillThere, Alive, Corrupt, Peers
<1>2. ASSUME SurvivesInv, UNCHANGED vars PROVE OnlyAllowed' /\ StillThere' /\ Alive'
  BY <1>2 DEF SurvivesInv, OnlyAllowed, StillThere, Alive, Corrupt, vars, red
<1>3. ASSUME SurvivesInv, Next PROVE OnlyAllowed' /\ StillThere' /\ Alive'
  BY <1>3, OnlyAllowedStep, StillThereStep, SurvivesStep DEF SurvivesInv, PcbInv
<1> QED BY <1>1, <1>2, <1>3, KeepUpInv DEF SurvivesInv

\* Without "kill" the Kernel does not die of a NULL: neither the code nor the
\* PCB of line 125's program is missing, nor that of line 199's, although
\* consoles leave, the operator stops and restarts the planning and frees the
\* lock under the planner.  ("kill" pops between the test and the pop.)
THEOREM Survives == ASSUME "kill" \notin Allowed PROVE Spec => []KernelSurvives
<1>1. SurvivesInv => KernelSurvives
  BY DEF SurvivesInv, KernelSurvives
<1> QED BY SurvivesAlways, <1>1, PTL DEF Spec

\* Without "kill" no PCB is lost and none is in two places, however the planner
\* admits, dispatches and is refused, and programs end and consoles leave:
\* status_queue partitions the programs, but for the one the planner has in its
\* hand.  Only the main thread takes nodes out of the lists then, so the one it
\* found without the lock is there when it removes it.
THEOREM OneAtATime == ASSUME "kill" \notin Allowed PROVE Spec => []OnePlace
<1> DEFINE I == PcbInv /\ OnlyAllowed /\ Somewhere
<1>1. OneMover
  BY DEF OneMover
<1>2. /\ Init => I
      /\ I /\ [Next]_vars => I'
  BY <1>1, PlacesStep
<1>3. I /\ SurvivesInv => OnePlace
  <2> SUFFICES ASSUME PcbInv, Somewhere, Alive, NEW p \in 1..generatorPid
               PROVE  Cardinality(Holders(p)) = 1
    BY DEF SurvivesInv, OnePlace
  <2>1. PICK h : Holders(p) = {h}
    BY OneHolder DEF Alive
  <2> QED BY <2>1, FS_Singleton
<1> HIDE DEF I
<1> QED BY SurvivesAlways, <1>2, <1>3, PTL DEF Spec

----------------------------------------------------------------------------
(* Each program in its own pages.                                          *)

LEMMA CodesShift ==
  /\ \A s \in Seq(ProgramIds) : s # <<>> => <<Head(s)>> \o Tail(s) = s
  /\ \A s \in Seq(ProgramIds), x \in ProgramIds :
       Head(<<x>> \o s) = x /\ Tail(<<x>> \o s) = s /\ <<x>> \o s # <<>>
<1>1. ASSUME NEW s \in Seq(ProgramIds), s # <<>> PROVE <<Head(s)>> \o Tail(s) = s
  BY <1>1
<1>2. ASSUME NEW s \in Seq(ProgramIds), NEW x \in ProgramIds
      PROVE  Head(<<x>> \o s) = x /\ Tail(<<x>> \o s) = s /\ <<x>> \o s # <<>>
  <2>1. Head(<<x>> \o s) = x
    OBVIOUS
  <2>2. Tail(<<x>> \o s) = s
    OBVIOUS
  <2>3. <<x>> \o s # <<>>
    OBVIOUS
  <2> QED BY <2>1, <2>2, <2>3
<1> QED BY <1>1, <1>2

OwnCodeInv == CodesInStep /\ OwnCode

LEMMA OwnCodeStep ==
  ASSUME {"kill", "logout"} \cap Allowed = {}, SurvivesInv, OwnCodeInv, Next
  PROVE  OwnCodeInv'
<1> USE DEF SurvivesInv, PcbInv, WithCode
<1>0. /\ cola["NEW"] \in Seq(ProgramIds) /\ codes_ms \in Seq(ProgramIds) /\ main \in MainType
      /\ paginas \in [Pids -> Nat] /\ cola \in [Status -> Seq(ProgramIds)]
  BY Lists, CodesLength, Records DEF TypeInv, TypeOK
<1>1. ASSUME Others PROVE UNCHANGED <<cola, codes_ms, main, paginas>>
  BY <1>1 DEF OnlyAllowed, Others, PeersStep, Connects, SubmitsProgram, Disconnects,
    FinishesProgram, Terminal, Kill, MultipgCommand, StopCommand, StopsPlanning,
    RestartCommand, KillCommand, KillFinds, KillMisses, KillPops, KillAppends,
    KillFindsNode, KillTakesAgain, Clashes, tablas, red
<1>2. CASE Others
  BY <1>1, <1>2 DEF OwnCodeInv, CodesInStep, OwnCode
<1>3. ASSUME UNCHANGED <<codes_ms, paginas>>, cola'["NEW"] = cola["NEW"],
             main.at \notin WithCode, main'.at \notin WithCode
      PROVE  OwnCodeInv'
  BY <1>3 DEF OwnCodeInv, CodesInStep, OwnCode
<1>4. ASSUME NEW c \in Consoles, NewProgram(c) PROVE OwnCodeInv'
  <2> DEFINE p == generatorPid + 1
  <2>1. /\ cola'["NEW"] = Append(cola["NEW"], p) /\ codes_ms' = Append(codes_ms, p)
        /\ main' = main /\ main.at = "serve" /\ paginas' = paginas
    BY <1>0, <1>4 DEF NewProgram, NewPid, Serving
  <2> QED BY <2>1 DEF OwnCodeInv, CodesInStep, OwnCode
<1>5. CASE Admits
  <2>1. main.at = "admit" /\ cola' = cola /\ paginas' = paginas /\ codes_ms = cola["NEW"]
        /\ cola["NEW"] # <<>>
    BY <1>5 DEF Admits, MayAdmit, red, OwnCodeInv, CodesInStep
  <2>2. /\ main'.at = "pop_new" /\ main'.code = Head(codes_ms)
        /\ codes_ms' = Tail(codes_ms)
    BY <1>0, <1>5, <2>1 DEF Admits, MainType
  <2>3. cola'["NEW"] = <<main'.code>> \o codes_ms'
    BY <1>0, <2>1, <2>2, CodesShift
  <2> QED BY <2>1, <2>2, <2>3 DEF OwnCodeInv, CodesInStep, OwnCode
<1>6. ASSUME NEW granted \in BOOLEAN, AsksForPages(granted) PROVE OwnCodeInv'
  <2>1. /\ main.at = "take_new" /\ main.code \in ProgramIds /\ codes_ms' = codes_ms
        /\ cola["NEW"] = <<main.code>> \o codes_ms
    BY <1>0, <1>6 DEF AsksForPages, tablas, OwnCodeInv, CodesInStep, TypeInv, InHand, MainType
  <2>2. cola["NEW"] # <<>> /\ Head(cola["NEW"]) = main.code /\ Tail(cola["NEW"]) = codes_ms
    BY <1>0, <2>1, CodesShift
  <2>3. /\ cola'["NEW"] = codes_ms /\ main'.at = "admitted"
        /\ paginas' = IF granted THEN [paginas EXCEPT ![main.code] = main.code] ELSE paginas
    BY <1>0, <1>6, <2>2, TakesNew DEF MainType
  <2>4. CodesInStep'
    BY <2>1, <2>3 DEF CodesInStep
  <2>5. OwnCode'
    BY <1>0, <2>3 DEF OwnCodeInv, OwnCode
  <2> QED BY <2>4, <2>5 DEF OwnCodeInv
<1>7. ASSUME NEW c \in Cpus, ProgramEnds(c) PROVE OwnCodeInv'
  <2> DEFINE p == Head(inbox[c]).pid
  <2>1. p \in Range(cola["EXEC"])
    BY <1>7, CpuReleased
  <2>2. p \notin Range(cola["NEW"])
    BY <2>1, LineApart DEF Line
  <2>3. /\ cola'["NEW"] = Without(cola["NEW"], p) /\ paginas' = [paginas EXCEPT ![p] = 0]
        /\ codes_ms' = codes_ms /\ main' = main /\ main.at = "serve"
    BY <1>7 DEF ProgramEnds, EndProgram, Serving
  <2> HIDE DEF p
  <2>4. cola'["NEW"] = cola["NEW"]
    BY <1>0, <2>2, <2>3, WithoutAbsent
  <2>5. \A x \in Pids : paginas'[x] \in {0, paginas[x]}
    BY <1>0, <2>3
  <2> QED BY <2>3, <2>4, <2>5 DEF OwnCodeInv, CodesInStep, OwnCode
<1>8. CASE EntersSystem \/ Dispatches
  <2>1. UNCHANGED <<codes_ms, paginas>> /\ main.at \notin WithCode /\ main'.at \notin WithCode
    BY <1>0, <1>8 DEF EntersSystem, Dispatches, red, tablas, MainGoes, MainType
  <2>2. cola'["NEW"] = cola["NEW"]
    BY <1>0, <1>8 DEF EntersSystem, Dispatches
  <2> QED BY <1>3, <2>1, <2>2
<1>9. CASE EndsOrphan \/ \E c \in Consoles : ConsoleGone(c)
  <2>1. CASE EndsOrphan
    BY <2>1 DEF EndsOrphan, OnlyAllowed
  <2>2. ASSUME NEW c \in Consoles, ConsoleGone(c) PROVE OwnCodeInv'
    BY <1>0, <1>3, <2>2 DEF ConsoleGone, Serving, tablas, red, MainType
  <2> QED BY <1>9, <2>1, <2>2
<1>10. CASE Select \/ Accepts \/ LooksUp \/ ClosesConsole \/ LocksPlanning \/ AdmitsNone
            \/ CanDispatch \/ UnlocksPlanning
  BY <1>0, <1>3, <1>10 DEF Select, Accepts, LooksUp, ClosesConsole, LocksPlanning, AdmitsNone,
    CanDispatch, UnlocksPlanning, Serving, tablas, red, MainGoes, MainType
<1>11. CASE Looks
  <2>1. UNCHANGED <<cola, codes_ms, paginas>>
    BY <1>11, LooksQuietly DEF tablas, red
  <2>2. main'.at \in {"take_new", "take_ready"} /\ main'.code = main.code
    <3>1. Alive'
      BY SurvivesAlways DEF SurvivesInv
    <3> QED BY <1>11, <3>1, LooksQuietly DEF Alive, Corrupt
  <2>3. main'.at \in WithCode <=> main.at \in WithCode
    BY <1>11, <2>2, LooksFrom
  <2> QED BY <2>1, <2>2, <2>3 DEF OwnCodeInv, CodesInStep, OwnCode
<1> QED
  BY <1>2, <1>4, <1>5, <1>6, <1>7, <1>8, <1>9, <1>10, <1>11
  DEF Next, MainThread, Others, Looks

\* Memoria stores each program's own code in its pages, although codes_ms and
\* pcb_new are two lists that nothing but the order of the pops ties together.
\* (It takes PCBs leaving pcb_new by no other way than the planner's: "kill" and
\* a console that leaves take the PCB and not its code.)
THEOREM CodesOwned ==
  ASSUME {"kill", "logout"} \cap Allowed = {} PROVE Spec => []OwnCode
<1>1. Init => SurvivesInv /\ OwnCodeInv
  BY SurvivesAlways DEF Init, OwnCodeInv, CodesInStep, OwnCode
<1>2. SurvivesInv /\ OwnCodeInv /\ [Next]_vars => (SurvivesInv /\ OwnCodeInv)'
  <2>1. ASSUME OwnCodeInv, UNCHANGED vars PROVE OwnCodeInv'
    BY <2>1 DEF OwnCodeInv, CodesInStep, OwnCode, vars, red, tablas
  <2> QED BY <2>1, SurvivesAlways, OwnCodeStep
<1>3. OwnCodeInv => OwnCode
  BY DEF OwnCodeInv
<1> QED BY <1>1, <1>2, <1>3, PTL DEF Spec

----------------------------------------------------------------------------
(* The programs of a console that leaves.                                  *)

LEMMA RestSplit ==
  \A s \in Seq(ProgramIds) : s # <<>> => Range(s) = {Head(s)} \cup Range(Tail(s))
<1> SUFFICES ASSUME NEW s \in Seq(ProgramIds), s # <<>>
             PROVE  Range(s) = {Head(s)} \cup Range(Tail(s))
  OBVIOUS
<1>1. Range(Tail(s)) \subseteq Range(s) /\ Head(s) \in Range(s)
  BY TailList
<1>2. ASSUME NEW x \in Range(s) PROVE x = Head(s) \/ x \in Range(Tail(s))
  <2>1. /\ Tail(s) \in Seq(ProgramIds) /\ Len(Tail(s)) = Len(s) - 1
        /\ \A i \in 1..Len(Tail(s)) : Tail(s)[i] = s[i + 1]
    BY HeadTailProperties
  <2>2. /\ DOMAIN s = 1..Len(s) /\ Len(s) \in Nat \ {0} /\ Head(s) = s[1]
        /\ DOMAIN Tail(s) = 1..(Len(s) - 1)
    BY <2>1, LenProperties, EmptySeq
  <2>3. PICK i \in 1..Len(s) : x = s[i]
    BY <2>2 DEF Range
  <2>4. CASE i = 1
    BY <2>2, <2>3, <2>4
  <2>5. CASE i # 1
    <3>1. i - 1 \in 1..(Len(s) - 1) /\ (i - 1) + 1 = i
      BY <2>2, <2>5
    <3>2. Tail(s)[i - 1] = x
      BY <2>1, <2>3, <3>1
    <3> QED BY <2>2, <3>1, <3>2 DEF Range
  <2> QED BY <2>4, <2>5
<1> QED BY <1>1, <1>2

LEMMA OrphansStep ==
  ASSUME "kill" \notin Allowed, PcbInv, OnlyAllowed, Somewhere, OrphansDone, Next
  PROVE  OrphansDone'
<1> USE Records DEF PcbInv, tablas, clientes, red, MainGoes, MainType
<1>1. CASE Others
  <2>1. UNCHANGED <<cola, pids, read_fds, main>>
    BY <1>1 DEF OnlyAllowed, Others, PeersStep, Connects, SubmitsProgram, Disconnects,
      FinishesProgram, Terminal, Kill, MultipgCommand, StopCommand, StopsPlanning,
      RestartCommand, KillCommand, KillFinds, KillMisses, KillPops, KillAppends,
    KillFindsNode, KillTakesAgain, Clashes
  <2> QED BY <2>1 DEF OrphansDone
<1>2. ASSUME main'.at \notin {"destroy", "end"} PROVE OrphansDone'
  BY <1>2 DEF OrphansDone
<1>3. ASSUME NEW c \in Consoles, ConsoleGone(c) PROVE OrphansDone'
  <2>1. /\ c = Lowest(read_fds) /\ UNCHANGED <<pids, read_fds>> /\ main'.rest = pids[c]
    BY <1>3 DEF ConsoleGone, Serving
  <2> QED BY <2>1 DEF OrphansDone
<1>4. ASSUME NEW p \in ProgramIds, main.at \in {"destroy", "end"}, main.rest # <<>>,
             p = Head(main.rest), main'.rest = Tail(main.rest),
             p \in Range(cola'["EXIT"]) \cup Range(cola'["EXEC"]),
             Range(cola["EXIT"]) \cup Range(cola["EXEC"])
               \subseteq Range(cola'["EXIT"]) \cup Range(cola'["EXEC"]),
             UNCHANGED <<pids, read_fds>>
      PROVE  OrphansDone'
  <2>1. Range(main.rest) = {p} \cup Range(main'.rest)
    BY <1>4, RestSplit
  <2> QED BY <1>4, <2>1 DEF OrphansDone
<1>5. CASE LooksUp
  <2>1. main.at = "destroy" /\ main.rest # <<>> /\ UNCHANGED <<cola, pids, read_fds>>
    BY <1>5 DEF LooksUp
  <2>2. CASE main'.rest = main.rest
    BY <2>1, <2>2 DEF OrphansDone
  <2>3. CASE main'.rest # main.rest
    <3> DEFINE p == Head(main.rest)
    <3>1. main'.rest = Tail(main.rest) /\ (~Queued(p) \/ p \in Range(cola["EXEC"]))
      BY <1>5, <2>3 DEF LooksUp
    <3>2. p \in Range(main.rest) /\ p \in ProgramIds
      BY <2>1, RestShrinks
    <3>3. p <= generatorPid
      <4>1. Lowest(read_fds) \in Consoles
        BY <2>1 DEF TypeInv, InHand
      <4> QED BY <2>1, <3>2, <4>1 DEF Owners
    <3>4. p \in 1..generatorPid
      BY <3>2, <3>3, Lists
    <3>5. main.pid = 0 /\ term.aux = 0
      BY <2>1 DEF BetweenLists, OnlyAllowed
    <3>6. Queued(p)
      BY <3>2, <3>4, <3>5 DEF Somewhere
    <3> HIDE DEF p
    <3>7. p \in Range(cola'["EXEC"])
      BY <2>1, <3>1, <3>6
    <3> QED BY <1>4, <2>1, <3>1, <3>2, <3>7 DEF p
  <2> QED BY <2>2, <2>3
<1>6. CASE EndsOrphan
  <2> DEFINE p == Head(main.rest)
  <2>1. /\ main.at = "end" /\ main.rest # <<>> /\ main'.rest = Tail(main.rest)
        /\ UNCHANGED <<pids, read_fds>> /\ EndProgram(p, ExitConsoleKilled)
    BY <1>6 DEF EndsOrphan, TypeInv, InHand
  <2>2. p \in ProgramIds
    BY <1>6, OrphanOwned
  <2>3. /\ Range(cola'["EXIT"]) = Range(cola["EXIT"]) \cup {p}
        /\ Range(cola'["EXEC"]) = Range(cola["EXEC"]) \ {p}
    BY <2>1, <2>2, EndedRanges
  <2> QED BY <1>4, <2>1, <2>2, <2>3
<1>7. CASE \/ \E c \in Consoles : NewProgram(c)
           \/ \E c \in Cpus : ProgramEnds(c)
  BY <1>2, <1>7 DEF NewProgram, ProgramEnds, Serving
<1>8. CASE \/ Select \/ Accepts \/ ClosesConsole \/ LocksPlanning \/ Admits \/ AdmitsNone
           \/ EntersSystem \/ CanDispatch \/ Dispatches \/ UnlocksPlanning
           \/ \E granted \in BOOLEAN : AsksForPages(granted)
  BY <1>2, <1>8 DEF Select, Accepts, ClosesConsole, LocksPlanning, Admits, AdmitsNone,
    EntersSystem, CanDispatch, Dispatches, UnlocksPlanning, AsksForPages, Serving
<1>9. CASE Looks
  BY <1>2, <1>9, LooksQuietly
<1> QED
  BY <1>1, <1>3, <1>5, <1>6, <1>7, <1>8, <1>9 DEF Next, MainThread, Others, Looks

\* When a console leaves, every one of its programs that destroy_console has
\* dealt with is over, or is on a CPU and was left to end there: pcb_by_id finds
\* each of them, wherever it was queued.
THEOREM OrphansOver == ASSUME "kill" \notin Allowed PROVE Spec => []OrphansEnd
<1> DEFINE I == PcbInv /\ OnlyAllowed /\ Somewhere
<1>0. OneMover
  BY DEF OneMover
<1>1. Init => I /\ OrphansDone
  BY <1>0, PlacesStep DEF Init, OrphansDone
<1>2. I /\ OrphansDone /\ [Next]_vars => (I /\ OrphansDone)'
  <2>1. ASSUME OrphansDone, UNCHANGED vars PROVE OrphansDone'
    BY <2>1 DEF OrphansDone, vars, clientes
  <2> QED BY <1>0, <2>1, PlacesStep, OrphansStep
<1>3. OrphansDone => OrphansEnd
  BY DEF OrphansDone, OrphansEnd
<1> HIDE DEF I
<1> QED BY <1>1, <1>2, <1>3, PTL DEF Spec

----------------------------------------------------------------------------
(* No more programs are numbered than were submitted.                      *)

\* The programs whose OP_NEW_PROGRAM is in an inbox.
Unread(box) == UNION {{c} \X {k \in DOMAIN box[c] : box[c][k].opcode = "OP_NEW_PROGRAM"} :
                      c \in Consoles}

LEMMA UnreadDef ==
  ASSUME NEW box, NEW x
  PROVE  x \in Unread(box) <=> \E c \in Consoles : \E k \in DOMAIN box[c] :
                                 box[c][k].opcode = "OP_NEW_PROGRAM" /\ x = <<c, k>>
BY DEF Unread

LEMMA UnreadSame ==
  ASSUME NEW box, NEW new, \A c \in Consoles : new[c] = box[c] \/ new[c] = <<>>
  PROVE  Unread(new) \subseteq Unread(box)
<1> SUFFICES ASSUME NEW x \in Unread(new) PROVE x \in Unread(box)
  OBVIOUS
<1>1. PICK c \in Consoles : \E k \in DOMAIN new[c] :
                              new[c][k].opcode = "OP_NEW_PROGRAM" /\ x = <<c, k>>
  BY UnreadDef
<1>2. DOMAIN <<>> = {}
  OBVIOUS
<1>3. new[c] = box[c]
  BY <1>1, <1>2
<1> QED BY <1>1, <1>3, UnreadDef

LEMMA UnreadAppended ==
  ASSUME NEW box \in [Peers -> Seq(Messages)], NEW c \in Consoles, NEW m \in Messages
  PROVE  LET new == [box EXCEPT ![c] = Append(@, m)]
             x   == <<c, Len(box[c]) + 1>>
         IN  Unread(new) \subseteq
               Unread(box) \cup (IF m.opcode = "OP_NEW_PROGRAM" THEN {x} ELSE {})
<1> DEFINE new == [box EXCEPT ![c] = Append(@, m)]
           n   == Len(box[c]) + 1
<1>1. box[c] \in Seq(Messages) /\ new[c] = Append(box[c], m)
      /\ \A d \in Consoles : d # c => new[d] = box[d]
  BY DEF Peers
<1>2. /\ DOMAIN new[c] = 1..n /\ DOMAIN box[c] = 1..(n - 1) /\ n \in Nat
      /\ \A k \in 1..(n - 1) : new[c][k] = box[c][k]
      /\ new[c][n] = m
  <2>1. Append(box[c], m) \in Seq(Messages) /\ Len(Append(box[c], m)) = n
        /\ \A k \in 1..Len(box[c]) : Append(box[c], m)[k] = box[c][k]
        /\ Append(box[c], m)[n] = m
    BY <1>1, AppendProperties
  <2>2. DOMAIN box[c] = 1..Len(box[c]) /\ Len(box[c]) \in Nat
        /\ DOMAIN Append(box[c], m) = 1..n
    BY <1>1, <2>1, LenProperties
  <2> QED BY <1>1, <2>1, <2>2
<1> HIDE DEF new, n
<1>3. ASSUME NEW x \in Unread(new), x \notin Unread(box)
      PROVE  m.opcode = "OP_NEW_PROGRAM" /\ x = <<c, n>>
  <2>1. PICK d \in Consoles : \E k \in DOMAIN new[d] :
                                new[d][k].opcode = "OP_NEW_PROGRAM" /\ x = <<d, k>>
    BY <1>3, UnreadDef
  <2>2. d = c
    BY <1>1, <1>3, <2>1, UnreadDef
  <2>3. PICK k \in DOMAIN new[c] : new[c][k].opcode = "OP_NEW_PROGRAM" /\ x = <<c, k>>
    BY <2>1, <2>2
  <2>4. k \in 1..(n - 1) => x \in Unread(box)
    BY <1>2, <2>3, UnreadDef
  <2>5. k = n
    BY <1>2, <1>3, <2>3, <2>4
  <2> QED BY <1>2, <2>3, <2>5
<1> QED BY <1>3 DEF new, n

\* The messages behind the first move up, and the first is gone.
LEMMA UnreadTaken ==
  ASSUME NEW box \in [Peers -> Seq(Messages)], NEW c \in Consoles, box[c] # <<>>,
         Head(box[c]).opcode = "OP_NEW_PROGRAM", IsFiniteSet(Unread(box))
  PROVE  LET new == [box EXCEPT ![c] = Tail(@)]
         IN  /\ IsFiniteSet(Unread(new))
             /\ Cardinality(Unread(new)) + 1 <= Cardinality(Unread(box))
<1> DEFINE new == [box EXCEPT ![c] = Tail(@)]
           T   == Unread(new)
           S   == Unread(box) \ {<<c, 1>>}
           f   == [x \in T |-> IF x[1] = c THEN <<c, x[2] + 1>> ELSE x]
<1>1. box[c] \in Seq(Messages) /\ new[c] = Tail(box[c])
      /\ \A d \in Consoles : d # c => new[d] = box[d]
  BY DEF Peers
<1>2. /\ DOMAIN box[c] = 1..Len(box[c]) /\ Len(box[c]) \in Nat \ {0}
      /\ DOMAIN new[c] = 1..(Len(box[c]) - 1) /\ Head(box[c]) = box[c][1]
      /\ \A k \in 1..(Len(box[c]) - 1) : new[c][k] = box[c][k + 1]
  <2>1. /\ Tail(box[c]) \in Seq(Messages) /\ Len(Tail(box[c])) = Len(box[c]) - 1
        /\ \A i \in 1..Len(Tail(box[c])) : Tail(box[c])[i] = box[c][i + 1]
    BY <1>1, HeadTailProperties
  <2>2. DOMAIN Tail(box[c]) = 1..Len(Tail(box[c]))
    BY <2>1, LenProperties
  <2>3. DOMAIN box[c] = 1..Len(box[c]) /\ Len(box[c]) \in Nat \ {0} /\ Head(box[c]) = box[c][1]
    BY <1>1, LenProperties, EmptySeq
  <2> QED BY <1>1, <2>1, <2>2, <2>3
<1> HIDE DEF new
<1>3. \A x \in T : \E d \in Consoles, k \in Nat : x = <<d, k>>
  <2> SUFFICES ASSUME NEW x \in T PROVE \E d \in Consoles, k \in Nat : x = <<d, k>>
    OBVIOUS
  <2>1. PICK d \in Consoles : \E k \in DOMAIN new[d] : x = <<d, k>>
    BY UnreadDef
  <2>2. PICK k \in DOMAIN new[d] : x = <<d, k>>
    BY <2>1
  <2>3. new[d] \in Seq(Messages)
    <3>1. d \in Peers
      BY DEF Peers
    <3> QED BY <1>1, <3>1, HeadTailProperties
  <2>4. k \in Nat
    BY <2>2, <2>3, LenProperties
  <2> QED BY <2>2, <2>4
<1>4. ASSUME NEW x \in T PROVE f[x] \in S
  <2>1. PICK d \in Consoles : \E k \in DOMAIN new[d] :
                                new[d][k].opcode = "OP_NEW_PROGRAM" /\ x = <<d, k>>
    BY UnreadDef
  <2>2. CASE d = c
    <3>1. PICK k \in 1..(Len(box[c]) - 1) : new[c][k].opcode = "OP_NEW_PROGRAM" /\ x = <<c, k>>
      BY <1>2, <2>1, <2>2
    <3>2. k + 1 \in DOMAIN box[c] /\ box[c][k + 1].opcode = "OP_NEW_PROGRAM" /\ k + 1 # 1
      BY <1>2, <3>1
    <3>3. <<c, k + 1>> \in Unread(box)
      BY <3>2, UnreadDef
    <3>4. f[x] = <<c, k + 1>>
      BY <3>1
    <3>5. <<c, k + 1>> # <<c, 1>>
      BY <3>2
    <3> HIDE DEF f
    <3> QED BY <3>3, <3>4, <3>5
  <2>3. CASE d # c
    <3>1. x \in Unread(box)
      BY <1>1, <2>1, <2>3, UnreadDef
    <3>2. f[x] = x /\ x # <<c, 1>>
      BY <2>1, <2>3
    <3> QED BY <3>1, <3>2
  <2> QED BY <2>2, <2>3
<1>5. ASSUME NEW x \in T, NEW y \in T, f[x] = f[y] PROVE x = y
  <2>1. PICK d \in Consoles, k \in Nat : x = <<d, k>>
    BY <1>3
  <2>2. PICK e \in Consoles, l \in Nat : y = <<e, l>>
    BY <1>3
  <2>3. f[x] = IF d = c THEN <<c, k + 1>> ELSE <<d, k>>
    BY <2>1
  <2>4. f[y] = IF e = c THEN <<c, l + 1>> ELSE <<e, l>>
    BY <2>2
  <2> QED BY <1>5, <2>1, <2>2, <2>3, <2>4
<1>6. f \in Injection(T, S)
  <2>1. f \in [T -> S]
    BY <1>4
  <2>2. IsInjective(f)
    BY <1>5 DEF IsInjective
  <2> QED BY <2>1, <2>2 DEF Injection
<1>7. <<c, 1>> \in Unread(box)
  BY <1>2, UnreadDef
<1>8. IsFiniteSet(S) /\ Cardinality(S) = Cardinality(Unread(box)) - 1
  BY <1>7, FS_RemoveElement
<1> HIDE DEF f, S, T
<1>9. IsFiniteSet(T) /\ Cardinality(T) <= Cardinality(S)
  BY <1>6, <1>8, FS_Injection
<1>10. Cardinality(T) \in Nat /\ Cardinality(Unread(box)) \in Nat
  BY <1>9, FS_CardinalityType
<1> QED BY <1>8, <1>9, <1>10 DEF T, new

\* Submitted, and that Pending can be counted.
SubmittedInv == IsFiniteSet(Pending) /\ Submitted

LEMMA PendingUnread == Pending = Unread(inbox) /\ Pending' = Unread(inbox')
BY DEF Pending, Unread

\* Nothing is submitted or numbered.
LEMMA SubmittedKept ==
  ASSUME SubmittedInv, Pending' \subseteq Pending, UNCHANGED <<generatorPid, enviados>>,
         generatorPid \in Nat, enviados \in Nat
  PROVE  SubmittedInv'
<1>1. IsFiniteSet(Pending') /\ Cardinality(Pending') <= Cardinality(Pending)
  BY FS_Subset DEF SubmittedInv
<1>2. Cardinality(Pending') \in Nat /\ Cardinality(Pending) \in Nat
  BY <1>1, FS_CardinalityType DEF SubmittedInv
<1>3. \A a, b, g, e \in Nat : a <= b /\ g + b <= e => g + a <= e
  OBVIOUS
<1> QED BY <1>1, <1>2, <1>3 DEF SubmittedInv, Submitted

LEMMA SubmittedStep ==
  ASSUME TypeInv, SubmittedInv, Next
  PROVE  SubmittedInv'
<1> USE DEF tablas, clientes, red
<1>0. /\ inbox \in [Peers -> Seq(Messages)] /\ generatorPid \in Nat /\ enviados \in Nat
      /\ MaxPids \in Nat /\ Consoles \subseteq Peers /\ \A c \in Cpus : c \notin Consoles
      /\ \A c \in Consoles : c # SvSock
  BY PeersAssumption, BoundsAssumption DEF TypeInv, TypeOK, Peers, SvSock
<1>1. ASSUME \A c \in Consoles : inbox'[c] = inbox[c] \/ inbox'[c] = <<>>,
             UNCHANGED <<generatorPid, enviados>>
      PROVE  SubmittedInv'
  BY <1>0, <1>1, PendingUnread, UnreadSame, SubmittedKept
<1>2. ASSUME UNCHANGED <<inbox, generatorPid, enviados>> PROVE SubmittedInv'
  BY <1>1, <1>2
<1>3. ASSUME NEW c \in Consoles, SubmitsProgram(c) PROVE SubmittedInv'
  <2> DEFINE m == Msg("OP_NEW_PROGRAM", 0)
             x == <<c, Len(inbox[c]) + 1>>
  <2>1. /\ inbox' = [inbox EXCEPT ![c] = Append(@, m)] /\ enviados' = enviados + 1
        /\ generatorPid' = generatorPid /\ enviados < MaxPids /\ m \in Messages
    BY <1>3, MessageTypes DEF SubmitsProgram
  <2>2. Pending' \subseteq Pending \cup {x}
    BY <1>0, <2>1, PendingUnread, UnreadAppended
  <2> HIDE DEF x, m
  <2>3. /\ IsFiniteSet(Pending \cup {x}) /\ Cardinality(Pending) \in Nat
        /\ Cardinality(Pending \cup {x}) \in {Cardinality(Pending), Cardinality(Pending) + 1}
    BY FS_AddElement, FS_CardinalityType DEF SubmittedInv
  <2>4. IsFiniteSet(Pending') /\ Cardinality(Pending') <= Cardinality(Pending \cup {x})
    BY <2>2, <2>3, FS_Subset
  <2>5. Cardinality(Pending') \in Nat
    BY <2>4, FS_CardinalityType
  <2>6. Cardinality(Pending') <= Cardinality(Pending) + 1
    BY <2>3, <2>4, <2>5
  <2>7. \A a, b, g, e, l \in Nat :
          a <= b + 1 /\ g + b <= e /\ e < l => g + a <= e + 1 /\ e + 1 <= l
    OBVIOUS
  <2> QED BY <1>0, <2>1, <2>3, <2>4, <2>5, <2>6, <2>7 DEF SubmittedInv, Submitted
<1>4. ASSUME NEW c \in Consoles, Disconnects(c) PROVE SubmittedInv'
  <2> DEFINE m == Msg("OP_UNDEFINED", 0)
  <2>1. /\ inbox' = [inbox EXCEPT ![c] = Append(@, m)]
        /\ UNCHANGED <<generatorPid, enviados>>
        /\ m \in Messages /\ m.opcode # "OP_NEW_PROGRAM"
    BY <1>4, MessageTypes DEF Disconnects, Msg
  <2> HIDE DEF m
  <2>2. Pending' \subseteq Pending
    BY <1>0, <2>1, PendingUnread, UnreadAppended
  <2> QED BY <1>0, <2>1, <2>2, SubmittedKept
<1>5. ASSUME NEW c \in Consoles, NewProgram(c) PROVE SubmittedInv'
  <2>1. /\ inbox' = [inbox EXCEPT ![c] = Tail(@)] /\ enviados' = enviados
        /\ generatorPid' = generatorPid + 1 /\ Head(inbox[c]).opcode = "OP_NEW_PROGRAM"
        /\ inbox[c] # <<>>
    BY <1>0, <1>5 DEF NewProgram, Serving, TypeInv, InHand
  <2>2. IsFiniteSet(Pending') /\ Cardinality(Pending') + 1 <= Cardinality(Pending)
    BY <1>0, <2>1, PendingUnread, UnreadTaken DEF SubmittedInv
  <2>3. Cardinality(Pending') \in Nat /\ Cardinality(Pending) \in Nat
    BY <2>2, FS_CardinalityType DEF SubmittedInv
  <2>4. \A a, b, g, e \in Nat : a + 1 <= b /\ g + b <= e => (g + 1) + a <= e
    OBVIOUS
  <2> QED BY <1>0, <2>1, <2>2, <2>3, <2>4 DEF SubmittedInv, Submitted
<1>6. CASE ClosesConsole \/ (\E c \in Cpus : ProgramEnds(c) \/ FinishesProgram(c))
  BY <1>0, <1>1, <1>6 DEF ClosesConsole, ProgramEnds, FinishesProgram
<1>7. CASE Terminal \/ \E f \in Peers : Connects(f)
  BY <1>2, <1>7 DEF Terminal, Kill, Connects, MultipgCommand, StopCommand, StopsPlanning,
    RestartCommand, KillCommand, KillFinds, KillMisses, KillPops, KillAppends,
    KillFindsNode, KillTakesAgain, Clashes
<1>8. CASE \/ Select \/ Accepts \/ LooksUp \/ EndsOrphan \/ LocksPlanning \/ Admits
           \/ AdmitsNone \/ EntersSystem \/ CanDispatch \/ Dispatches \/ UnlocksPlanning
           \/ FindsNew \/ FindsReady \/ TakesAgain
           \/ (\E c \in Consoles : ConsoleGone(c))
           \/ \E granted \in BOOLEAN : AsksForPages(granted)
  BY <1>2, <1>8 DEF Select, Accepts, LooksUp, EndsOrphan, LocksPlanning, Admits,
    AdmitsNone, EntersSystem, CanDispatch, Dispatches, UnlocksPlanning, ConsoleGone,
    AsksForPages, FindsNew, FindsReady, TakesAgain
<1> QED
  BY <1>3, <1>4, <1>5, <1>6, <1>7, <1>8 DEF Next, MainThread, PeersStep

LEMMA SubmittedAlways ==
  /\ Init => SubmittedInv
  /\ TypeInv /\ SubmittedInv /\ [Next]_vars => SubmittedInv'
<1>1. Init => SubmittedInv
  <2> SUFFICES ASSUME Init PROVE SubmittedInv
    OBVIOUS
  <2>1. \A c \in Consoles : inbox[c] = <<>>
    BY DEF Init, Peers
  <2>2. DOMAIN <<>> = {}
    OBVIOUS
  <2>3. Pending = {}
    <3> SUFFICES ASSUME NEW x \in Unread(inbox) PROVE FALSE
      BY PendingUnread
    <3> QED BY <2>1, <2>2, UnreadDef
  <2> QED BY <2>3, FS_EmptySet, BoundsAssumption DEF Init, SubmittedInv, Submitted
<1>2. ASSUME TypeInv, SubmittedInv, UNCHANGED vars PROVE SubmittedInv'
  <2>1. Pending' = Pending
    BY <1>2, PendingUnread DEF vars, red
  <2> QED BY <1>2, <2>1, SubmittedKept DEF vars, red, tablas, TypeInv, TypeOK
<1> QED BY <1>1, <1>2, SubmittedStep

LEMMA PidsKnown ==
  ASSUME TypeInv, SubmittedInv, NEW p \in ProgramIds, p <= generatorPid
  PROVE  p \in Pids
<1>1. Cardinality(Pending) \in Nat /\ generatorPid \in Nat /\ enviados \in Nat /\ MaxPids \in Nat
  BY FS_CardinalityType, BoundsAssumption DEF SubmittedInv, TypeInv, TypeOK
<1>2. generatorPid <= MaxPids
  BY <1>1 DEF SubmittedInv, Submitted
<1> QED BY <1>1, <1>2 DEF Pids

----------------------------------------------------------------------------
(* Memoria has the pages of the programs in the system.                    *)

\* A program is ended: it has no pages and is not in the system.
LEMMA PagesEnd ==
  ASSUME PcbInv, PagesMatchQueues, NEW p \in ProgramIds, NEW code, EndProgram(p, code),
         main.pid = 0, main'.res = main.res
  PROVE  PagesMatchQueues'
<1>1. /\ paginas \in [Pids -> Nat] /\ paginas' = [paginas EXCEPT ![p] = 0] /\ main.res = FALSE
  BY Records DEF PcbInv, TypeInv, TypeOK, EndProgram, BetweenLists, MainType
<1>2. \A q \in {"READY", "EXEC", "BLOCK"} : Range(cola'[q]) = Range(cola[q]) \ {p}
  BY EndedRanges DEF PcbInv
<1>3. {x \in Pids : paginas'[x] # 0} = {x \in Pids : paginas[x] # 0} \ {p}
  BY <1>1
<1>4. /\ InMemory = Range(cola["READY"]) \cup Range(cola["EXEC"]) \cup Range(cola["BLOCK"])
      /\ InMemory' = Range(cola'["READY"]) \cup Range(cola'["EXEC"]) \cup Range(cola'["BLOCK"])
  BY <1>1 DEF InMemory
<1>5. InMemory' = InMemory \ {p}
  BY <1>2, <1>4
<1> QED BY <1>3, <1>5 DEF PagesMatchQueues

LEMMA PagesStep ==
  ASSUME "kill" \notin Allowed, PcbInv, OnlyAllowed, SubmittedInv, PagesMatchQueues, Next
  PROVE  PagesMatchQueues'
<1> USE DEF PcbInv
<1>0. /\ paginas \in [Pids -> Nat] /\ main \in MainType
      /\ cola \in [Status -> Seq(ProgramIds)]
  BY Lists, Records DEF TypeInv, TypeOK
<1>1. CASE Quiet
  BY <1>1 DEF Quiet, PagesMatchQueues, InMemory
<1>2. ASSUME NEW c \in Consoles, NewProgram(c) PROVE PagesMatchQueues'
  <2>1. paginas' = paginas /\ main' = main /\ \A q \in Status \ {"NEW"} : cola'[q] = cola[q]
    BY <1>0, <1>2 DEF NewProgram
  <2> QED BY <2>1 DEF PagesMatchQueues, InMemory
<1>3. ASSUME NEW granted \in BOOLEAN, AsksForPages(granted)
      PROVE  PagesMatchQueues'
  <2> DEFINE p == Head(cola["NEW"])
  <2>1. /\ main.at = "take_new" /\ main.code # 0 /\ main.res = FALSE
        /\ cola["NEW"] # <<>> /\ main'.pid = p /\ main'.res = granted
        /\ paginas' = IF granted THEN [paginas EXCEPT ![p] = main.code] ELSE paginas
        /\ \A q \in Status \ {"NEW"} : cola'[q] = cola[q]
    <3>1. main.at = "take_new" /\ main.code # 0 /\ main.res = FALSE
      BY <1>3 DEF AsksForPages, TypeInv, InHand, BetweenLists
    <3>2. /\ cola["NEW"] # <<>> /\ cola' = [cola EXCEPT !["NEW"] = Tail(@)]
          /\ main' = [main EXCEPT !.at = "admitted", !.pid = p, !.nodo = 0, !.res = granted]
          /\ paginas' = IF granted THEN [paginas EXCEPT ![p] = main.code] ELSE paginas
      BY <1>3, TakesNew
    <3> HIDE DEF p
    <3>3. main'.pid = p /\ main'.res = granted
      BY <1>0, <3>2 DEF MainType
    <3>4. \A q \in Status \ {"NEW"} : cola'[q] = cola[q]
      BY <1>0, <3>2
    <3> QED BY <3>1, <3>2, <3>3, <3>4
  <2>2. cola["NEW"] \in Seq(ProgramIds)
    BY Lists
  <2>3. p \in ProgramIds /\ p \in Range(cola["NEW"])
    BY <2>1, <2>2, RestShrinks
  <2>4. p \in Pids
    <3>1. p <= generatorPid
      BY <2>3 DEF FifoInv, Numbered
    <3> QED BY <2>3, <3>1, PidsKnown
  <2> HIDE DEF p
  <2>5. {x \in Pids : paginas'[x] # 0}
          = {x \in Pids : paginas[x] # 0} \cup (IF granted THEN {p} ELSE {})
    BY <1>0, <2>1, <2>4
  <2>6. /\ InMemory = Range(cola["READY"]) \cup Range(cola["EXEC"]) \cup Range(cola["BLOCK"])
        /\ InMemory' = InMemory \cup (IF granted THEN {p} ELSE {})
    BY <2>1 DEF InMemory
  <2> QED BY <2>5, <2>6 DEF PagesMatchQueues
<1>4. CASE EntersSystem
  <2>1. /\ main.pid \in ProgramIds /\ paginas' = paginas /\ main'.res = FALSE
        /\ cola' = [cola EXCEPT ![IF main.res THEN "READY" ELSE "EXIT"] = Append(@, main.pid)]
    BY <1>0, <1>4 DEF EntersSystem, TypeInv, InHand, MainType, red
  <2>2. CASE main.res
    <3>1. /\ Range(cola'["READY"]) = Range(cola["READY"]) \cup {main.pid}
          /\ \A q \in {"EXEC", "BLOCK"} : cola'[q] = cola[q]
      BY <1>0, <2>1, <2>2, PidAppended
    <3>2. InMemory' = InMemory
      BY <2>1, <2>2, <3>1 DEF InMemory
    <3> QED BY <2>1, <3>2 DEF PagesMatchQueues
  <2>3. CASE ~main.res
    <3>1. \A q \in {"READY", "EXEC", "BLOCK"} : cola'[q] = cola[q]
      BY <1>0, <2>1, <2>3
    <3>2. InMemory' = InMemory
      BY <2>1, <2>3, <3>1 DEF InMemory
    <3> QED BY <2>1, <3>2 DEF PagesMatchQueues
  <2> QED BY <2>2, <2>3
<1>5. CASE Dispatches
  <2> DEFINE p == Head(cola["READY"])
  <2>1. /\ cola'["READY"] = Tail(cola["READY"]) /\ cola'["EXEC"] = Append(cola["EXEC"], p)
        /\ cola'["BLOCK"] = cola["BLOCK"] /\ paginas' = paginas /\ cola["READY"] # <<>>
        /\ main'.res = main.res /\ main'.pid = main.pid
    <3>1. paginas' = paginas
      BY <1>5 DEF Dispatches
    <3> QED BY <1>0, <1>5, <3>1, TakesReady DEF MainType
  <2>2. cola["READY"] \in Seq(ProgramIds)
    BY Lists
  <2>3. Range(cola["READY"]) = {p} \cup Range(cola'["READY"]) /\ p \in ProgramIds
    BY <2>1, <2>2, RestSplit, RestShrinks
  <2> HIDE DEF p
  <2>4. Range(cola'["EXEC"]) = Range(cola["EXEC"]) \cup {p}
    BY <1>0, <2>1, <2>3, PidAppended
  <2>5. Range(cola'["READY"]) \cup Range(cola'["EXEC"]) = Range(cola["READY"]) \cup Range(cola["EXEC"])
    BY <2>3, <2>4
  <2>6. InMemory' = InMemory
    BY <2>1, <2>5 DEF InMemory
  <2> QED BY <2>1, <2>6 DEF PagesMatchQueues
<1>6. CASE EndsOrphan
  <2>1. /\ EndProgram(Head(main.rest), ExitConsoleKilled) /\ main.pid = 0 /\ main'.res = main.res
    BY <1>0, <1>6 DEF EndsOrphan, BetweenLists, MainType
  <2> QED BY <1>6, <2>1, OrphanOwned, PagesEnd
<1>7. ASSUME NEW c \in Cpus, ProgramEnds(c) PROVE PagesMatchQueues'
  <2>1. Head(inbox[c]).pid \in Range(cola["EXEC"])
    BY <1>7, CpuReleased
  <2>2. Head(inbox[c]).pid \in ProgramIds
    BY <2>1, LineApart DEF Line
  <2>3. /\ EndProgram(Head(inbox[c]).pid, ExitSuccessful) /\ main.pid = 0 /\ main' = main
    BY <1>7 DEF ProgramEnds, Serving, BetweenLists
  <2> QED BY <2>2, <2>3, PagesEnd
<1>8. CASE KillPops \/ KillAppends
  BY <1>8 DEF OnlyAllowed, KillPops, KillAppends,
    KillFindsNode, KillTakesAgain, Clashes
<1> QED
  BY <1>1, <1>2, <1>3, <1>4, <1>5, <1>6, <1>7, <1>8, QuietOrMoves DEF Moves

\* INIPRO and FINPRO pair up on every path: the programs that have pages in
\* Memoria are those in pcb_ready, pcb_exec and pcb_block and the one being
\* admitted, with refusals, consoles that leave and a planning that is stopped.
\* ("kill" moves a PCB to pcb_exit without a FINPRO, so its pages stay.)
THEOREM PagesMatch == ASSUME "kill" \notin Allowed PROVE Spec => []PagesMatchQueues
<1> DEFINE I == PcbInv /\ OnlyAllowed /\ SubmittedInv /\ PagesMatchQueues
<1>1. Init => I
  <2>1. DOMAIN <<>> = {} /\ Range(<<>>) = {}
    BY DEF Range
  <2>2. Init => OnlyAllowed /\ PagesMatchQueues
    BY <2>1, PeersAssumption DEF Init, OnlyAllowed, PagesMatchQueues, InMemory, Peers
  <2> QED BY <2>2, InitPcbInv, SubmittedAlways
<1>2. I /\ [Next]_vars => I'
  <2>1. ASSUME I, UNCHANGED vars PROVE OnlyAllowed' /\ PagesMatchQueues'
    BY <2>1 DEF OnlyAllowed, PagesMatchQueues, InMemory, vars, red
  <2>2. ASSUME I, Next PROVE OnlyAllowed' /\ PagesMatchQueues'
    BY <2>2, OnlyAllowedStep, PagesStep DEF PcbInv
  <2> QED BY <2>1, <2>2, PcbInvStep, SubmittedAlways DEF PcbInv
<1>3. I => PagesMatchQueues
  OBVIOUS
<1> HIDE DEF I
<1> QED BY <1>1, <1>2, <1>3, PTL DEF Spec
=============================================================================
