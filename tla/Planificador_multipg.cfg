SPECIFICATION FairSpec
CONSTANTS
  Consoles = {5}
  Cpus = {6}
  GradoMultiprog = 2
  MaxPids = 2
  Levels = {0, 2}
  Allowed = {"multipg"}
PROPERTIES
  DegreeTakesEffect
\* With nothing left to submit or type, the Kernel waits in select for good.
CHECK_DEADLOCK FALSE
