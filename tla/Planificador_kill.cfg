SPECIFICATION Spec
CONSTANTS
  Consoles = {5, 7}
  Cpus = {6}
  GradoMultiprog = 2
  MaxPids = 3
  Levels = {0, 2}
  Allowed = {"refusal", "kill", "multipg", "stop", "stray", "twice"}
INVARIANTS
  FifoOrder
  OnePlaceUntilClash
  CodesKeepUp
PROPERTIES
  ExitIsFinal
\* With nothing left to submit or type, the Kernel waits in select for good.
CHECK_DEADLOCK FALSE
