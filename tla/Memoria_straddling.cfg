SPECIFICATION Spec
CONSTANTS
  Kernel = kernel
  Cpus = {c1}
  Marcos = 4
  MarcoSize = 2
  StackSize = 1
  VarSize = 2
  UsrpidValues = 4
  MaxPids = 2
  CodeSizes = {3}
  Values = {1}
  Straddling = TRUE
  Nothing = nothing
CHECK_DEADLOCK FALSE
INVARIANT FetchesOwnCode
