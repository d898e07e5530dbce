SPECIFICATION FairSpec
CONSTANTS
  Consoles = {5, 7}
  Cpus = {6, 8}
  GradoMultiprog = 2
  MaxPids = 3
  Levels = {}
  Allowed = {}
INVARIANTS
  TypeOK
  DegreeRespected
  OwnCode
  ExecMatchesCpus
PROPERTIES
  EverySubmittedEnds
\* With nothing left to submit or type, the Kernel waits in select for good.
CHECK_DEADLOCK FALSE
