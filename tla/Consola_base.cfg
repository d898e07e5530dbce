SPECIFICATION Spec
CONSTANTS
  Nodos = {1, 2}
  MaxPrograms = 2
  Apurado = FALSE
INVARIANTS
  TypeOK
  ListWhole
  OwnPid
  HandlersOutlived
  WakeUpsKept
PROPERTIES
  ImplementsMlist
\* logout may wait for good, and the process comes down or exits.
CHECK_DEADLOCK FALSE
