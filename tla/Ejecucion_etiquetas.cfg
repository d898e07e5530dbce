SPECIFICATION Spec
CONSTANTS
  Programas <- SoloStackOverflow
  StackSize = 2
  TamanioPagina = 12
  Valores <- MCValores
  Relleno = {0, 1}
PROPERTIES
  JumpsReachTheirLabel
CHECK_DEADLOCK FALSE
