SPECIFICATION Spec
CONSTANTS
  Pids = {1, 2}
  Cpus = {1, 2}
  SemIds = {"a", "b"}
  SharedVars = {"x"}
  Dirs = {1, 2, 3, 4, 5, 6}
  Textos <- MCTextos
  SemInit <- MCSemInit
CHECK_DEADLOCK FALSE
INVARIANTS
  TypeOK
  BlockedAtTheirSemaphore
