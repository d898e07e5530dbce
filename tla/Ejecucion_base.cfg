SPECIFICATION Spec
CONSTANTS
  Programas <- MCProgramas
  StackSize = 2
  TamanioPagina = 12
  Valores <- MCValores
  Relleno = {0, 1}
INVARIANTS
  TypeOK
  StackApart
  CallersWait
  PcbTravels
  BienHecho
PROPERTIES
  ImplementsCalls
\* After a stack overflow the CPU is never given another program.
CHECK_DEADLOCK FALSE
