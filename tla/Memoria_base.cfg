SPECIFICATION Spec
CONSTANTS
  Kernel = kernel
  Cpus = {c1, c2}
  Marcos = 4
  MarcoSize = 2
  StackSize = 1
  VarSize = 2
  UsrpidValues = 4
  MaxPids = 3
  CodeSizes = {1, 3}
  Values = {1}
  Straddling = FALSE
  Nothing = nothing
SYMMETRY Symmetry
CHECK_DEADLOCK FALSE
INVARIANTS TypeOK PagesWhole FrameInHand FramesApart FetchesOwnCode
PROPERTY ImplementsSpaces
