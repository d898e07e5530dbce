SPECIFICATION Spec
CONSTANTS
  Consoles = {5}
  Cpus = {6}
  GradoMultiprog = 2
  MaxPids = 3
  Levels = {}
  Allowed = {"kill"}
INVARIANTS
  OwnCode
\* With nothing left to submit or type, the Kernel waits in select for good.
CHECK_DEADLOCK FALSE
